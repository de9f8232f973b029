---------------------------- MODULE MCEchoServer ----------------------------
(* Model-checking instance of EchoServer: three client connections, enough *)
(* for one to be in the Accept/wg.Add window while others are open, closed *)
(* or never accepted.                                                      *)
EXTENDS EchoServer, TLC

CONSTANTS c1, c2, c3

MCConns == {c1, c2, c3}

MCSymmetry == Permutations(MCConns)
=============================================================================
