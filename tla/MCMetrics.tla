----------------------------- MODULE MCMetrics -----------------------------
(* Metrics, and with it ProcCore with every policy allowed: two harts, three *)
(* slots, the counters of the second followed.                              *)
EXTENDS Metrics

CONSTANTS c1, c2
=============================================================================
