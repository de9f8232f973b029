---------------------------- MODULE MCMetricPlugin ---------------------------
(* Two requests on two routes, the "tps" and "p99" gauges, a channel of   *)
(* room for two gauges and two ticks: a tick's gauges (up to six) overflow *)
(* the channel, so watch blocks holding the read lock, and a job is sent  *)
(* at both ticks.                                                          *)
EXTENDS MetricPlugin

CONSTANTS r1, r2

MCReqs == {r1, r2}
MCRouteKey == [r \in MCReqs |-> IF r = r1 THEN "GET_a" ELSE "POST_a"]
MCGauges == <<"tps", "p99">>
MCQueueCap == 2
MCMaxTicks == 2
=============================================================================
