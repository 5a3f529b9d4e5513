----------------------------- MODULE MCProxyServ -----------------------------
(* An instance of ProxyServ for TLC.                                        *)
EXTENDS ProxyServ
=============================================================================
