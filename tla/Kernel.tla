-------------------------------- MODULE Kernel --------------------------------
(***************************************************************************)
(* The Zephyr kernel objects the interference probes are built from, as far*)
(* as the probes use them.  The kernel is not part of the repository: these*)
(* operators say what its documentation promises to callers.               *)
(*                                                                         *)
(* A k_timer is the number of ticks to its next expiry, Off when stopped.  *)
(* A k_sem is its count; its limit, K_SEM_MAX_LIMIT, is never reached.     *)
(***************************************************************************)
EXTENDS Integers

Off == -1

k_timer_start(duration) == duration
k_timer_stop == Off

(* The expiry function runs before time goes on. *)
Due(timer) == timer = 0
Elapse(timer) == IF timer > 0 THEN timer - 1 ELSE timer

k_sem_give(sem) == sem + 1
k_sem_reset == 0
===============================================================================
