---------------------------- MODULE MCOrchestrator ----------------------------
(* Small campaigns for TLC; the numbers of algorithms are in the .cfg.     *)
EXTENDS Orchestrator
===============================================================================
