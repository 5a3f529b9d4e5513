------------------------------- MODULE MCProxy -------------------------------
(* Instances of Proxy for TLC.                                              *)
EXTENDS Proxy, TLC

CONSTANTS c1, c2, f1, f2

MCOneClient == {c1}
MCClients == {c1, c2}
MCOneFile == {f1}
MCFiles == {f1, f2}

\* The orders of run_e2e_1gb.sh, with the empty line at its end, and of
\* test_e2e.sh; a second terminal.
MCScripts ==
  c1 :> {<<"GIT_INIT", "GIT_ADD", "GIT_COMMIT", "GIT_PUSH", "empty">>,
         <<"GIT_INIT", "GIT_ADD", "GIT_PUSH", "GIT_COMMIT">>}
  @@ c2 :> {<<"GIT_PUSH">>, <<"GIT_ADD", "other">>}

\* Any four commands.
MCAnyFour == c1 :> [1..4 -> Commands]
=============================================================================
