--------------------------- MODULE ManifestProofs ---------------------------
(* Facts about the table of handle_push, cited by the proofs about the      *)
(* modules that use it.                                                     *)
EXTENDS Manifest, TLAPS

\* The manifests are the sequences of entries that fit the table.
LEMMA ManifestsAreSequences ==
  \A m : m \in Manifests <=> m \in Seq(Entry) /\ Len(m) <= MaxManifestEntries
<1>1. ASSUME NEW m \in Manifests
      PROVE  m \in Seq(Entry) /\ Len(m) <= MaxManifestEntries
  <2>1. PICK n \in 0..MaxManifestEntries : m \in [1..n -> Entry]
    BY DEF Manifests
  <2>2. n \in Nat /\ n <= MaxManifestEntries
    BY MaxManifestEntriesAssumption
  <2> QED BY <2>1, <2>2
<1>2. ASSUME NEW m \in Seq(Entry), Len(m) <= MaxManifestEntries
      PROVE  m \in Manifests
  <2>1. m \in [1..Len(m) -> Entry] /\ Len(m) \in 0..MaxManifestEntries
    BY <1>2, MaxManifestEntriesAssumption
  <2> QED BY <2>1 DEF Manifests
<1> QED BY <1>1, <1>2

\* In a table without repeated names a lookup stops at the only line there is.
LEMMA FirstMatchIsMatch ==
  ASSUME NEW m \in Manifests, NEW name, DistinctNames(m), Matches(m, name) # {}
  PROVE  /\ FirstMatch(m, name) \in Matches(m, name)
         /\ \A i \in DOMAIN m : m[i].name = name <=> i = FirstMatch(m, name)
<1> DEFINE S == Matches(m, name)
<1>1. m \in Seq(Entry) BY ManifestsAreSequences
<1>2. S \subseteq 1..Len(m) BY <1>1 DEF Matches
<1>3. \A i, j \in S : i = j BY DEF Matches, DistinctNames
<1>4. PICK k \in S : TRUE OBVIOUS
<1>5. \A j \in S : k <= j BY <1>2, <1>3, <1>4
<1>6. FirstMatch(m, name) \in S BY <1>5 DEF FirstMatch
<1> QED BY <1>3, <1>6 DEF Matches

\* One received file gives a table of entries without repeated names again,
\* with every line in its place.
LEMMA PutEntryTable ==
  ASSUME NEW m \in Manifests, NEW e \in Entry, DistinctNames(m)
  PROVE  /\ PutEntry(m, e) \in Manifests
         /\ DistinctNames(PutEntry(m, e))
<1>1. m \in Seq(Entry) /\ Len(m) <= MaxManifestEntries
  BY ManifestsAreSequences
<1>2. CASE Matches(m, e.name) # {}
  <2> DEFINE k == FirstMatch(m, e.name)
             r == [m EXCEPT ![k] = e]
  <2>1. k \in Matches(m, e.name) /\ \A i \in DOMAIN m : m[i].name = e.name <=> i = k
    BY <1>2, FirstMatchIsMatch
  <2>2. k \in 1..Len(m) BY <1>1, <2>1 DEF Matches
  <2> HIDE DEF k
  <2>3. r \in Seq(Entry) /\ Len(r) = Len(m) /\ DOMAIN r = DOMAIN m
    BY <1>1, <2>2
  <2>4. \A i \in DOMAIN m : r[i].name = m[i].name
    BY <1>1, <2>1, <2>2
  <2>5. PutEntry(m, e) = r BY <1>2 DEF PutEntry, k
  <2> HIDE DEF r
  <2>6. r \in Manifests BY <1>1, <2>3, ManifestsAreSequences
  <2>7. DistinctNames(r) BY <2>3, <2>4 DEF DistinctNames
  <2> QED BY <2>5, <2>6, <2>7
<1>3. CASE Matches(m, e.name) = {} /\ Len(m) < MaxManifestEntries
  <2> DEFINE r == Append(m, e)
  <2>1. PutEntry(m, e) = r BY <1>3 DEF PutEntry
  <2>2. r \in Seq(Entry) /\ Len(r) = Len(m) + 1 /\ Len(r) <= MaxManifestEntries
    BY <1>1, <1>3, MaxManifestEntriesAssumption
  <2>3. /\ \A i \in 1..Len(m) : r[i] = m[i]
        /\ r[Len(m) + 1] = e
        /\ DOMAIN r = 1..(Len(m) + 1)
    BY <1>1
  <2>4. \A i \in 1..Len(m) : m[i].name # e.name
    BY <1>1, <1>3 DEF Matches
  <2>5. ASSUME NEW i \in DOMAIN r, NEW j \in DOMAIN r, r[i].name = r[j].name
        PROVE  i = j
    <3>1. i \in 1..Len(m) \/ i = Len(m) + 1 BY <1>1, <2>3
    <3>2. j \in 1..Len(m) \/ j = Len(m) + 1 BY <1>1, <2>3
    <3> QED BY <1>1, <2>3, <2>4, <2>5, <3>1, <3>2 DEF DistinctNames
  <2> HIDE DEF r
  <2>6. DistinctNames(r) BY <2>5 DEF DistinctNames
  <2> QED BY <2>1, <2>2, <2>6, ManifestsAreSequences
<1>4. CASE Matches(m, e.name) = {} /\ ~(Len(m) < MaxManifestEntries)
  BY <1>4 DEF PutEntry
<1> QED BY <1>2, <1>3, <1>4

\* Every line of the new table is a line of the old one or the new entry.
LEMMA PutEntryLines ==
  ASSUME NEW m \in Manifests, NEW e \in Entry
  PROVE  \A i \in DOMAIN PutEntry(m, e) :
           PutEntry(m, e)[i] = e \/ (i \in DOMAIN m /\ PutEntry(m, e)[i] = m[i])
<1>1. m \in Seq(Entry) BY ManifestsAreSequences
<1>2. CASE Matches(m, e.name) # {}
  <2> DEFINE k == FirstMatch(m, e.name)
  <2>1. PutEntry(m, e) = [m EXCEPT ![k] = e] BY <1>2 DEF PutEntry
  <2> HIDE DEF k
  <2> QED BY <1>1, <2>1
<1>3. CASE Matches(m, e.name) = {} /\ Len(m) < MaxManifestEntries
  BY <1>1, <1>3 DEF PutEntry
<1>4. CASE Matches(m, e.name) = {} /\ ~(Len(m) < MaxManifestEntries)
  BY <1>4 DEF PutEntry
<1> QED BY <1>2, <1>3, <1>4

\* A push of nothing changes nothing.
LEMMA ExtendsNothing ==
  ASSUME NEW m \in Manifests
  PROVE  Extends(m, m, {})
<1>1. m \in Seq(Entry) BY ManifestsAreSequences
<1> QED BY <1>1 DEF Extends

\* A push of some files and one more is a push of them all.
LEMMA ExtendsPutEntry ==
  ASSUME NEW m1 \in Manifests, NEW m2 \in Manifests, NEW files \in SUBSET Entry,
         NEW e \in Entry, DistinctNames(m2), Extends(m1, m2, files)
  PROVE  Extends(m1, PutEntry(m2, e), files \cup {e})
<1> DEFINE r == PutEntry(m2, e)
           old == {f.name : f \in files}
           carried == {f.name : f \in files \cup {e}}
<1>1. /\ m1 \in Seq(Entry) /\ Len(m1) <= MaxManifestEntries
      /\ m2 \in Seq(Entry) /\ Len(m2) <= MaxManifestEntries
  BY ManifestsAreSequences
<1>2. carried = old \cup {e.name} OBVIOUS
<1>3. /\ Len(m1) <= Len(m2)
      /\ \A i \in 1..Len(m1) : m2[i].name = m1[i].name
      /\ \A i \in 1..Len(m2) :
           IF m2[i].name \in old THEN m2[i] \in files
           ELSE i \in 1..Len(m1) /\ m2[i] = m1[i]
      /\ old \subseteq NamesOf(m2) \/ Len(m2) = MaxManifestEntries
  BY <1>1 DEF Extends
<1>4. r \in Seq(Entry) /\ Len(r) <= MaxManifestEntries
  BY PutEntryTable, ManifestsAreSequences
<1> DEFINE Goal ==
        /\ Len(m1) <= Len(r)
        /\ \A i \in 1..Len(m1) : r[i].name = m1[i].name
        /\ \A i \in 1..Len(r) :
             IF r[i].name \in carried THEN r[i] \in files \cup {e}
             ELSE i \in 1..Len(m1) /\ r[i] = m1[i]
        /\ carried \subseteq NamesOf(r) \/ Len(r) = MaxManifestEntries
<1>5. DOMAIN r = 1..Len(r) /\ DOMAIN m1 = 1..Len(m1) BY <1>1, <1>4
<1>6. ASSUME Matches(m2, e.name) # {}
      PROVE  Goal
  <2> DEFINE k == FirstMatch(m2, e.name)
  <2>1. k \in Matches(m2, e.name) /\ \A i \in DOMAIN m2 : m2[i].name = e.name <=> i = k
    BY <1>6, FirstMatchIsMatch
  <2>2. k \in 1..Len(m2) /\ m2[k].name = e.name BY <1>1, <2>1 DEF Matches
  <2>3. r = [m2 EXCEPT ![k] = e] BY <1>6 DEF PutEntry
  <2> HIDE DEF k, r
  <2>4. Len(r) = Len(m2) /\ DOMAIN r = 1..Len(m2) BY <1>1, <2>2, <2>3
  <2>5. \A i \in 1..Len(m2) : r[i] = (IF i = k THEN e ELSE m2[i]) BY <1>1, <2>2, <2>3
  <2>6. \A i \in 1..Len(m2) : r[i].name = m2[i].name BY <2>2, <2>5
  <2>7. NamesOf(r) = NamesOf(m2) /\ e.name \in NamesOf(m2)
    <3>1. DOMAIN m2 = 1..Len(m2) BY <1>1
    <3>2. NamesOf(r) = NamesOf(m2) BY <2>4, <2>6, <3>1 DEF NamesOf
    <3>3. e.name \in NamesOf(m2) BY <2>2, <3>1 DEF NamesOf
    <3> QED BY <3>2, <3>3
  <2>8. \A i \in 1..Len(m1) : r[i].name = m1[i].name BY <1>1, <1>3, <2>6
  <2>9. ASSUME NEW i \in 1..Len(r)
        PROVE  IF r[i].name \in carried THEN r[i] \in files \cup {e}
               ELSE i \in 1..Len(m1) /\ r[i] = m1[i]
    <3> HIDE DEF carried, old
    <3>1. CASE i = k BY <1>2, <2>2, <2>4, <2>5, <3>1
    <3>2. CASE i # k
      <4>1. r[i] = m2[i] /\ m2[i].name # e.name BY <1>1, <2>1, <2>4, <2>5, <3>2
      <4> QED BY <1>2, <1>3, <2>4, <4>1
    <3> QED BY <3>1, <3>2
  <2>10. carried \subseteq NamesOf(r) \/ Len(r) = MaxManifestEntries
    <3> HIDE DEF carried, old
    <3> QED BY <1>2, <1>3, <2>4, <2>7
  <2>11. Len(m1) <= Len(r) BY <1>3, <2>4
  <2> QED BY <2>8, <2>9, <2>10, <2>11
<1>7. ASSUME Matches(m2, e.name) = {}, Len(m2) < MaxManifestEntries
      PROVE  Goal
  <2>1. r = Append(m2, e) BY <1>7 DEF PutEntry
  <2> HIDE DEF r
  <2>2. Len(r) = Len(m2) + 1 /\ DOMAIN r = 1..(Len(m2) + 1) BY <1>1, <2>1
  <2>3. (\A i \in 1..Len(m2) : r[i] = m2[i]) /\ r[Len(m2) + 1] = e BY <1>1, <2>1
  <2>4. \A i \in 1..Len(m2) : m2[i].name # e.name BY <1>1, <1>7 DEF Matches
  <2>5. NamesOf(m2) \cup {e.name} \subseteq NamesOf(r)
    BY <1>1, <2>2, <2>3 DEF NamesOf
  <2>6. \A i \in 1..Len(m1) : r[i].name = m1[i].name BY <1>1, <1>3, <2>3
  <2>7. ASSUME NEW i \in 1..Len(r)
        PROVE  IF r[i].name \in carried THEN r[i] \in files \cup {e}
               ELSE i \in 1..Len(m1) /\ r[i] = m1[i]
    <3> HIDE DEF carried, old
    <3>1. CASE i = Len(m2) + 1 BY <1>2, <2>3, <3>1
    <3>2. CASE i # Len(m2) + 1
      <4>1. i \in 1..Len(m2) BY <1>1, <2>2, <3>2
      <4> QED BY <1>2, <1>3, <2>3, <2>4, <4>1
    <3> QED BY <3>1, <3>2
  <2>8. carried \subseteq NamesOf(r) \/ Len(r) = MaxManifestEntries
    <3> HIDE DEF carried, old
    <3>1. Len(m2) # MaxManifestEntries BY <1>1, <1>7, MaxManifestEntriesAssumption
    <3> QED BY <1>2, <1>3, <2>5, <3>1
  <2>9. Len(m1) <= Len(r) BY <1>1, <1>3, <2>2
  <2> QED BY <2>6, <2>7, <2>8, <2>9
<1>8. ASSUME Matches(m2, e.name) = {}, ~(Len(m2) < MaxManifestEntries)
      PROVE  Goal
  <2>1. r = m2 BY <1>8 DEF PutEntry
  <2>2. Len(m2) = MaxManifestEntries BY <1>1, <1>8, MaxManifestEntriesAssumption
  <2>3. \A i \in 1..Len(m2) : m2[i].name # e.name BY <1>1, <1>8 DEF Matches
  <2> HIDE DEF r, carried, old
  <2> QED BY <1>2, <1>3, <2>1, <2>2, <2>3
<1>9. Goal BY <1>6, <1>7, <1>8
<1> HIDE DEF r
<1>10. Extends(m1, r, files \cup {e}) BY <1>5, <1>9 DEF Extends
<1> QED BY <1>10 DEF r

\* What a push adds, it adds for good: no listed name disappears.
LEMMA ExtendsKeepsNames ==
  ASSUME NEW m1 \in Manifests, NEW m2 \in Manifests, NEW files, Extends(m1, m2, files)
  PROVE  NamesOf(m1) \subseteq NamesOf(m2)
<1>1. m1 \in Seq(Entry) /\ m2 \in Seq(Entry) BY ManifestsAreSequences
<1> QED BY <1>1 DEF Extends, NamesOf
=============================================================================
