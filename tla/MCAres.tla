------------------------------- MODULE MCAres -------------------------------
(* Ares with two client connections, one worker, the three registration   *)
(* keys RegisterApp writes for one service (service, node, info) and two  *)
(* delivered signals, enough for a second signal to be dropped or to      *)
(* arrive while the first is being handled.                                *)
EXTENDS Ares, TLC

CONSTANTS c1, c2, w1, kService, kNode, kInfo

MCConns == {c1, c2}

MCWorkers == {w1}

MCRegKeys == <<kService, kNode, kInfo>>

MCMaxSignals == 2

=============================================================================
