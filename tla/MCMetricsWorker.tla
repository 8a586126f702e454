---------------------------- MODULE MCMetricsWorker ----------------------------
(* An instance of MetricsWorker for TLC: the second metric does not parse. *)
EXTENDS MetricsWorker

CONSTANTS w1, w2

Workers == {w1, w2}
AllButTwo == 1..MaxMetric \ {2}
=============================================================================
