----------------------------- MODULE ReleaseJitter -----------------------------
(***************************************************************************)
(* The periodic-release probe of metrics/release_jitter.c.  A k_timer      *)
(* expires every Period; its handler, in interrupt context, latches the    *)
(* cycle counter and gives a semaphore.  The thread of main() takes the    *)
(* semaphore, subtracts the latched stamp from its own reading, runs one   *)
(* cryptographic operation, and does so Batch times.                       *)
(*                                                                         *)
(* There is one processor.  The handler may run between any two statements *)
(* of the probe.  Time passes while the thread is blocked or busy, and for *)
(* Slack ticks in the statements of one iteration.  Cycle stamps are their *)
(* low Width values (2^32 in the code), so they wrap.                      *)
(***************************************************************************)
EXTENDS Kernel, Sequences, FiniteSets

CONSTANTS
    Period,     \* PQC_PRJP_PERIOD_US, in ticks
    Timeout,    \* the 200 ms of k_sem_take, in ticks
    Batches,    \* what select_prjp_batch may return
    Durations,  \* ticks an operation may take
    Slack,      \* ticks the statements of one iteration may take
    Width       \* values of a stamp, 2^32 in the code

(* What the constants have to be; assumed where the module is used. *)
ReleaseAssumption ==
    /\ Period \in Nat \ {0}
    /\ Timeout \in Nat /\ Timeout > Period
    /\ Batches \subseteq Nat \ {0}
    /\ Durations \subseteq Nat
    /\ Slack \in Nat
    /\ Width \in Nat /\ Width > 2 * Period

VARIABLES
    pc,           \* where the probe is
    batch, i,     \* locals of measure_release_jitter_for_*
    timer,        \* prjp_release_timer
    sem,          \* prjp_release_sem
    last_release, \* prjp_last_release_lo
    clock,        \* low bits of tp_now_cycles()
    wait,         \* ticks until k_sem_take gives up
    busy,         \* ticks until the operation returns
    slack,        \* ticks left for statements
    take_lo,      \* local of the loop
    lat,          \* the allocated buffer; held while the probe runs
    held,
    overruns,     \* local
    report,       \* the release_* fields of benchmark_results_t
    fires, taken  \* history: expiries and takes of this probe

vars == <<pc, batch, i, timer, sem, last_release, clock, wait, busy, slack, take_lo, lat, held,
          overruns, report, fires, taken>>

-------------------------------------------------------------------------------
(* finalize_prjp *)

(* What sort_u64 leaves at index k: all but k of the samples are at least  *)
(* as large.                                                               *)
SortedAt(s, k) ==
    CHOOSE v \in {s[j] : j \in 1 .. Len(s)} :
        /\ Cardinality({j \in 1 .. Len(s) : s[j] < v}) <= k
        /\ Cardinality({j \in 1 .. Len(s) : s[j] <= v}) > k

(* pick_percentile: pct * (n - 1), rounded half up. *)
pick_percentile(s, pct) == SortedAt(s, (pct * (Len(s) - 1) * 2 + 100) \div 200)

zero_release_jitter_metrics == [samples |-> 0, p50 |-> 0, p99 |-> 0, jitter |-> 0, overruns |-> 0]

finalize_prjp(s, n) ==
    LET p50 == pick_percentile(s, 50)
        p99 == pick_percentile(s, 99)
    IN  [samples |-> Len(s), p50 |-> p50, p99 |-> p99,
         jitter |-> IF p99 > p50 THEN p99 - p50 ELSE 0, overruns |-> n]

-------------------------------------------------------------------------------
Init ==
    /\ pc = "idle"
    /\ batch = 0 /\ i = 0
    /\ timer = Off /\ sem = 0 /\ last_release = 0
    /\ clock = 0
    /\ wait = 0 /\ busy = 0 /\ slack = 0
    /\ take_lo = 0 /\ lat = <<>> /\ held = FALSE
    /\ overruns = 0
    /\ report = zero_release_jitter_metrics
    /\ fires = 0 /\ taken = 0

(* The batch size depends on the average of the operation. *)
select_prjp_batch == Batches

(* The entry of a probe up to k_timer_start.  The timer is stopped, so the *)
(* handler cannot come in between; the cycle counter may stand anywhere.   *)
SemAtStart_NotReset == sem
SemAtStart == k_sem_reset

Start ==
    /\ pc = "idle"
    /\ report' = zero_release_jitter_metrics
    /\ batch' \in select_prjp_batch
    /\ pc' = "count"
    /\ held' = TRUE
    /\ i' = 0 /\ lat' = <<>> /\ overruns' = 0
    /\ sem' = SemAtStart
    /\ last_release' = 0
    /\ timer' = k_timer_start(Period)
    /\ slack' = Slack
    /\ fires' = 0 /\ taken' = 0
    /\ clock' \in 0 .. Width - 1
    /\ UNCHANGED <<wait, busy, take_lo>>

(* The buffer cannot be allocated: the fields are zero. *)
StartFails ==
    /\ pc = "idle"
    /\ report' = zero_release_jitter_metrics
    /\ pc' = "returned"
    /\ UNCHANGED <<batch, i, timer, sem, last_release, clock, wait, busy, slack, take_lo, lat, held,
                   overruns, fires, taken>>

(* prjp_timer_expiry, and the kernel starting the next period. *)
NextExpiry_Never == Off
NextExpiry == k_timer_start(Period)

Expire ==
    /\ Due(timer)
    /\ last_release' = clock
    /\ sem' = k_sem_give(sem)
    /\ timer' = NextExpiry
    /\ fires' = fires + 1
    /\ UNCHANGED <<pc, batch, i, clock, wait, busy, slack, take_lo, lat, held, overruns, report,
                   taken>>

(* The head of the loop. *)
BatchDone_OneEarly == i + 1 >= batch
BatchDone == i >= batch

(* k_sem_count_get and the overrun count; k_sem_take is called. *)
CountPending ==
    /\ pc = "count" /\ ~BatchDone
    /\ overruns' = overruns + (IF sem > 1 THEN sem - 1 ELSE 0)
    /\ pc' = "take"
    /\ wait' = Timeout
    /\ UNCHANGED <<batch, i, timer, sem, last_release, clock, busy, slack, take_lo, lat, held,
                   report, fires, taken>>

Take ==
    /\ pc = "take" /\ sem > 0
    /\ sem' = sem - 1
    /\ taken' = taken + 1
    /\ pc' = "taken"
    /\ UNCHANGED <<batch, i, timer, last_release, clock, wait, busy, slack, take_lo, lat, held,
                   overruns, report, fires>>

(* The probe gives up when a take times out or an operation fails: the     *)
(* buffer is freed, the timer stopped, the fields zeroed.                  *)
StopTimer == k_timer_stop

AfterFailure == "returned"

TakeTimedOut == pc = "take" /\ sem = 0 /\ wait = 0
OpReturned == pc = "op" /\ busy = 0
MayFail == TakeTimedOut \/ OpReturned

Abandon ==
    /\ MayFail
    /\ pc' = AfterFailure
    /\ held' = FALSE
    /\ timer' = StopTimer
    /\ report' = zero_release_jitter_metrics
    /\ UNCHANGED <<batch, i, sem, last_release, clock, wait, busy, slack, take_lo, lat, overruns,
                   fires, taken>>

(* take_cycles = tp_now_cycles() *)
ReadClock ==
    /\ pc = "taken"
    /\ take_lo' = clock
    /\ pc' = "stamp"
    /\ UNCHANGED <<batch, i, timer, sem, last_release, clock, wait, busy, slack, lat, held,
                   overruns, report, fires, taken>>

(* take_lo - release_lo, in 32 bits. *)
Since_Signed(take, release) == take - release
Since(take, release) == (take - release) % Width

(* release_lo = atomic_get(...), the difference in u32, and the operation  *)
(* begins.                                                                 *)
ReadStamp ==
    /\ pc = "stamp"
    /\ lat' = Append(lat, Since(take_lo, last_release))
    /\ pc' = "op"
    /\ busy' \in Durations
    /\ UNCHANGED <<batch, i, timer, sem, last_release, clock, wait, slack, take_lo, held,
                   overruns, report, fires, taken>>

OpSucceeds ==
    /\ OpReturned
    /\ pc' = "count"
    /\ i' = i + 1
    /\ slack' = Slack
    /\ UNCHANGED <<batch, timer, sem, last_release, clock, wait, busy, take_lo, lat, held,
                   overruns, report, fires, taken>>

(* The whole batch is done. *)
Finish ==
    /\ pc = "count" /\ BatchDone
    /\ pc' = "returned"
    /\ timer' = StopTimer
    /\ report' = finalize_prjp(lat, overruns)
    /\ held' = FALSE
    /\ UNCHANGED <<batch, i, sem, last_release, clock, wait, busy, slack, take_lo, lat, overruns,
                   fires, taken>>

(* The caller goes on: the locals are gone, and the row has the report.    *)
(* Stamp and counter mean nothing until the next probe sets them.          *)
Leave ==
    /\ pc = "returned"
    /\ pc' = "idle"
    /\ batch' = 0 /\ i' = 0 /\ wait' = 0 /\ busy' = 0 /\ slack' = 0
    /\ take_lo' = 0 /\ lat' = <<>> /\ overruns' = 0
    /\ last_release' = 0 /\ clock' = 0
    /\ report' = zero_release_jitter_metrics
    /\ fires' = 0 /\ taken' = 0
    /\ UNCHANGED <<timer, sem, held>>

(* A tick of the processor clock, in a blocked take, an operation, or the  *)
(* statements between.                                                     *)
Blocked == pc = "take" /\ sem = 0 /\ wait > 0
Busy == pc = "op" /\ busy > 0

Tick ==
    /\ pc \notin {"returned", "idle"} /\ ~Due(timer)
    /\ Blocked \/ Busy \/ slack > 0
    /\ clock' = (clock + 1) % Width
    /\ timer' = Elapse(timer)
    /\ wait' = IF Blocked THEN wait - 1 ELSE wait
    /\ busy' = IF Busy THEN busy - 1 ELSE busy
    /\ slack' = IF Blocked \/ Busy THEN slack ELSE slack - 1
    /\ UNCHANGED <<pc, batch, i, sem, last_release, take_lo, lat, held, overruns, report, fires,
                   taken>>

Probe ==
    \/ CountPending
    \/ Take
    \/ ReadClock
    \/ ReadStamp
    \/ OpSucceeds
    \/ Abandon
    \/ Finish

Next ==
    \/ Start
    \/ StartFails
    \/ Expire
    \/ Probe
    \/ Leave
    \/ Tick

Spec == Init /\ [][Next]_vars

(* Time passes, interrupts are served, and main() is the only ready thread *)
(* of its priority.                                                        *)
FairSpec == Spec /\ WF_vars(Probe \/ Leave) /\ WF_vars(Expire) /\ WF_vars(Tick)
-------------------------------------------------------------------------------
(* Properties *)

Reports == [samples : Nat, p50 : 0 .. Width - 1, p99 : 0 .. Width - 1,
            jitter : 0 .. Width - 1, overruns : Nat]

(* Every variable stays in its type. *)
TypeOK ==
    /\ pc \in {"idle", "count", "take", "taken", "stamp", "op", "returned"}
    /\ batch \in Nat /\ i \in 0 .. batch
    /\ timer \in {Off} \cup 0 .. Period
    /\ sem \in Nat
    /\ last_release \in 0 .. Width - 1
    /\ clock \in 0 .. Width - 1
    /\ wait \in 0 .. Timeout
    /\ busy \in Nat /\ slack \in 0 .. Slack
    /\ take_lo \in 0 .. Width - 1
    /\ lat \in Seq(0 .. Width - 1)
    /\ held \in BOOLEAN
    /\ overruns \in Nat
    /\ report \in Reports
    /\ fires \in Nat /\ taken \in Nat

(* Every take of a probe is of a release of that probe: the credits left   *)
(* by an earlier one that was cut short are gone (release_jitter.c 224).   *)
TakesAreReleases == pc \notin {"returned", "idle"} => sem + taken = fires

(* Each sample has its own take and its own operation; what is reported is *)
(* a whole batch, and in percentile order (release_jitter.c 190-206).      *)
ReportIsTheBatch ==
    /\ Len(lat) = taken - (IF pc \in {"taken", "stamp"} THEN 1 ELSE 0)
    /\ report.samples > 0 =>
          /\ pc = "returned" /\ report.samples = batch /\ Len(lat) = batch
          /\ report.p50 <= report.p99
          /\ report.jitter = report.p99 - report.p50

(* Whichever way a probe ends, its timer is stopped and its buffer freed:  *)
(* no handler of it runs into a later measurement.                         *)
NothingRunsOn == pc \in {"returned", "idle"} => timer = Off /\ ~held

(* The 200 ms of k_sem_take never run out, since the timer runs through    *)
(* the whole probe: a probe is cut short by a failed operation only.       *)
NeverTimesOut == pc = "take" /\ sem = 0 => wait > 0

(* A probe ends, however long the operations are. *)
ProbeEnds == pc # "idle" ~> pc = "idle"

-------------------------------------------------------------------------------
(* What the file says of the probe and the code does not do.               *)

(* "ordering between expiry_fn and the consumer thread is guaranteed by the*)
(* k_sem_give/k_sem_take pair" (release_jitter.c:74): the stamp is not     *)
(* after the take, so a latency is at most the time since the last expiry. *)
LatencyWithinPeriod == \A k \in 1 .. Len(lat) : lat[k] <= Period
================================================================================
