------------------------------ MODULE BranchLog ------------------------------
(***************************************************************************)
(* What the main server promises its clients: every branch is a line of    *)
(* commits.  A push is accepted as a whole, in one step, and only on top   *)
(* of the commit its author named as the parent.  There is no lock, no     *)
(* file being received and no head file here: MainServer.tla has them, and *)
(* is shown to implement this module.                                      *)
(***************************************************************************)
EXTENDS Manifest

CONSTANTS
  Branches,   \* branch names
  Clients,    \* connections, each carrying one request
  Hashes      \* what a client may name as the parent of its push

VARIABLE log  \* log[b]: the commits accepted on b, oldest first

Commits ==
  [by : Clients, parent : Hashes, files : SUBSET Entry, manifest : Manifests]

\* The manifest a reader of branch b must be given; <<>> before any commit.
Tip(b) == IF log[b] = <<>> THEN <<>> ELSE log[b][Len(log[b])].manifest

TypeOK == log \in [Branches -> Seq(Commits)]

Init == log = [b \in Branches |-> <<>>]

\* The fast-forward rule: the root commit may name any parent, each later one
\* the tip it replaces; and its manifest is the tip updated by its files.
FastForward(b, commit) ==
  /\ log[b] # <<>> => commit.parent = Tip(b)
  /\ Extends(Tip(b), commit.manifest, commit.files)

\* The new commit is the last one of log', so that this reads as a predicate
\* on a step and no set of possible commits has to be enumerated.
Publish(b) ==
  /\ log'[b] # <<>>
  /\ LET commit == log'[b][Len(log'[b])]
     IN  /\ commit \in Commits
         /\ log' = [log EXCEPT ![b] = Append(log[b], commit)]
         /\ FastForward(b, commit)

Next == \E b \in Branches : Publish(b)

Spec == Init /\ [][Next]_log

-----------------------------------------------------------------------------
\* Every commit but the first of a branch was made on top of the one before it.
LinearHistory ==
  \A b \in Branches : \A i \in 2..Len(log[b]) :
    log[b][i].parent = log[b][i - 1].manifest

\* A file that some commit of the branch listed is listed by every later one.
FilesStay ==
  \A b \in Branches : \A i \in 1..Len(log[b]) : \A j \in i..Len(log[b]) :
    NamesOf(log[b][i].manifest) \subseteq NamesOf(log[b][j].manifest)
==============================================================================
