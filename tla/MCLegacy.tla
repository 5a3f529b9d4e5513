------------------------------ MODULE MCLegacy ------------------------------
(* Instances of Legacy for TLC.                                             *)
EXTENDS Legacy, TLC

CONSTANTS c1, p1, w1, w2, a, b, main

MCClis == {c1}
MCProxies == {p1}
MCWorkers == {w1, w2}
MCBranches == {main}
MCSegments == {a, b, Text}

\* A file that is empty and one that is not.
MCContents == {<<>>, <<a, b>>}

MCMaxConns == c1 :> 2 @@ p1 :> 1
MCLocalHeads == {Absent, Empty, <<a, b>>}
MCConns == UNION {{c} \X (1..MCMaxConns[c]) : c \in Clients}
=============================================================================
