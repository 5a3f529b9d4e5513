--------------------------- MODULE MCPushProtocol ---------------------------
(* Instances of PushProtocol for TLC.                                       *)
EXTENDS PushProtocol, TLC

CONSTANTS p1, p2

MCProxies == {p1, p2}

E(name, size) == [name |-> name, size |-> size, opens |-> TRUE]
Unreadable(name) == [name |-> name, size |-> 1, opens |-> FALSE]

\* A clean directory, one file, and two of which the first spans more blocks
\* than the buffers hold or the last is empty.
MCStatusLists == {<<>>, <<E("a", 1)>>, <<E("a", 3), E("b", 1)>>, <<E("b", 2), E("a", 0)>>}

\* The same with paths that cannot be sent: first, last and alone.
MCStatusListsUnreadable ==
  MCStatusLists \cup {<<Unreadable("a"), E("b", 1)>>, <<E("a", 1), Unreadable("b")>>,
                      <<Unreadable("a")>>}

Symmetry == Permutations(MCProxies)
=============================================================================
