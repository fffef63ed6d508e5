---------------------------- MODULE MCReleaseJitter ----------------------------
(* Probes one after another, for TLC; periods and durations are in the     *)
(* .cfg.                                                                   *)
EXTENDS ReleaseJitter
===============================================================================
