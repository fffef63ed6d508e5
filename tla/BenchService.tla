----------------------------- MODULE BenchService -----------------------------
(***************************************************************************)
(* What a networked node promises to whoever requests benchmarks of it: it *)
(* takes one request at a time, never changes its mind about the one it has*)
(* taken, and ends up with the result of that one.  Switching it off and on*)
(* makes it forget everything.                                             *)
(***************************************************************************)
CONSTANTS
    Algorithms,  \* what can be asked for and is supported
    None         \* no algorithm

VARIABLES phase, job, result

service == <<phase, job, result>>

ServiceInit == phase = "idle" /\ job = None /\ result = None

(* The result of the request before is there until the next one is. *)
Accept(a) ==
    /\ phase # "busy"
    /\ phase' = "busy"
    /\ job' = a
    /\ UNCHANGED result

Complete ==
    /\ phase = "busy"
    /\ phase' = "done"
    /\ result' = job
    /\ UNCHANGED job

Restart == phase' = "idle" /\ job' = None /\ result' = None

ServiceNext ==
    \/ \E a \in Algorithms : Accept(a)
    \/ Complete
    \/ Restart

ServiceSafety == ServiceInit /\ [][ServiceNext]_service

(* What is accepted is completed, unless the node restarts. *)
ServiceSpec == ServiceSafety /\ WF_service(Complete)
===============================================================================
