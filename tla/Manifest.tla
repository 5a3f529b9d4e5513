------------------------------ MODULE Manifest ------------------------------
(***************************************************************************)
(* The manifest of a branch: the table of (file name, object hash) lines   *)
(* that handle_push of Main_Server.c reads from the old manifest object,   *)
(* updates once per received file and writes back as a new object.         *)
(*                                                                         *)
(* SHA-1 is taken to be injective, so the hash of a file's bytes is        *)
(* represented by the content itself (a Blob), and the hash of a manifest  *)
(* by its sequence of entries: the order of the lines is part of the text  *)
(* that is hashed.                                                         *)
(***************************************************************************)
EXTENDS Naturals, Sequences

CONSTANTS
  Names,               \* file names, as sscanf("%s") leaves them
  Blobs,               \* file contents, each standing for its SHA-1 hash
  MaxManifestEntries   \* MAX_MANIFEST_ENTRIES, 1024 in the source

ASSUME MaxManifestEntriesAssumption == MaxManifestEntries \in Nat \ {0}

Entry == [name : Names, blob : Blobs]

\* entries[0 .. num_entries-1]: the array is never filled past its size.
Manifests == UNION {[1..n -> Entry] : n \in 0..MaxManifestEntries}

NamesOf(m) == {m[i].name : i \in DOMAIN m}

\* The positions a strcmp of the loop over entries[] would stop at.
Matches(m, name) == {i \in DOMAIN m : m[i].name = name}

FirstMatch(m, name) ==
  CHOOSE i \in Matches(m, name) : \A j \in Matches(m, name) : i <= j

\* Mutant of PutEntry: the table is not tested for being full.
PutEntryUnbounded(m, e) ==
  IF Matches(m, e.name) # {} THEN [m EXCEPT ![FirstMatch(m, e.name)] = e]
  ELSE Append(m, e)

\* One received file: the first line with its name gets the new hash, a new
\* name gets a new line, and when the table is full it gets none.
PutEntry(m, e) ==
  IF Matches(m, e.name) # {} THEN [m EXCEPT ![FirstMatch(m, e.name)] = e]
  ELSE IF Len(m) < MaxManifestEntries THEN Append(m, e)
  ELSE m

-----------------------------------------------------------------------------
\* No name has two lines.
DistinctNames(m) == \A i, j \in DOMAIN m : m[i].name = m[j].name => i = j

\* m2 is a manifest that a push of the set `files` may publish on top of m1:
\* no line of m1 disappears or moves; a line whose name the push carried
\* holds what the push carried, every other line is as it was; and a carried
\* name without a line is explained by a full table only.
Extends(m1, m2, files) ==
  LET carried == {e.name : e \in files}
  IN  /\ Len(m1) <= Len(m2)
      /\ \A i \in DOMAIN m1 : m2[i].name = m1[i].name
      /\ \A i \in DOMAIN m2 :
            IF m2[i].name \in carried THEN m2[i] \in files
            ELSE i \in DOMAIN m1 /\ m2[i] = m1[i]
      /\ carried \subseteq NamesOf(m2) \/ Len(m2) = MaxManifestEntries
=============================================================================
