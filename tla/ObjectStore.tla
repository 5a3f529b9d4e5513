----------------------------- MODULE ObjectStore -----------------------------
(***************************************************************************)
(* What a content-addressed server without a branch lock can still         *)
(* promise: what it saves is a piece of what one client sent, in order and *)
(* without a hole, and no shorter than the size that client announced - so *)
(* all of it, when the client sent just what it announced; what is saved   *)
(* is never changed or lost; and the head of a branch is torn for a while  *)
(* or names a file that is saved.  Which of several pushes names it last   *)
(* is left open, and a client that sends more than it announced may find   *)
(* its file cut at either end.                                             *)
(***************************************************************************)
EXTENDS Naturals, Sequences

CONSTANTS
  Branches,
  Pushes,     \* the attempts of the clients to store a file
  NoFile,     \* a branch nobody has pushed to
  Torn        \* a head that was truncated and not written

VARIABLES
  offers,     \* offers[p]: the size p announced and what it has sent; an input,
              \* which the clients change as they like
  store,      \* the files that are saved
  tips        \* tips[b]: what the head of b names

Init == store = {} /\ tips = [b \in Branches |-> NoFile]

Covers(f, offer) ==
  /\ Len(f) >= offer.size
  /\ \E n \in 0..(Len(offer.sent) - Len(f)) : f = SubSeq(offer.sent, n + 1, n + Len(f))

\* The new file is what store' has more than store, so that no set of possible
\* files has to be enumerated.
Save ==
  /\ store \subseteq store'
  /\ \A f \in store' \ store : \E p \in Pushes : Covers(f, offers[p])
  /\ UNCHANGED tips

Move(b) ==
  /\ tips'[b] \in store \cup {Torn}
  /\ tips' = [tips EXCEPT ![b] = tips'[b]]
  /\ UNCHANGED store

Next == Save \/ \E b \in Branches : Move(b)

Spec == Init /\ [][Next]_<<store, tips>>
=============================================================================
