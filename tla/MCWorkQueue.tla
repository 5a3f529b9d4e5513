----------------------------- MODULE MCWorkQueue -----------------------------
(* Instances of WorkQueue for TLC.                                          *)
EXTENDS WorkQueue, TLC

CONSTANTS w1, w2, w3, c1, c2, c3, c4

MCWorkers == {w1, w2, w3}
MCClients == {c1, c2, c3, c4}

==============================================================================
