--------------------------- MODULE MCNetworkedBench ---------------------------
(* A node that supports two algorithms and an orchestrator that also asks  *)
(* for a third, for TLC.                                                   *)
EXTENDS NetworkedBench
===============================================================================
