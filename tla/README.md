# A TLA+ model of the Zephyr PQC benchmark

The repository is a Zephyr application that measures post-quantum KEM and
signature operations on QEMU boards and prints one CSV row per algorithm. This
directory models what makes those rows right or wrong: the order in which
`main()` runs, gives up and reports; the global meters its measurements share;
and the threads, timers and interrupts its interference probes start beside it.
The mathematics of the algorithms, and the values of timings, are left out.

Source paths below are relative to `PQClean/` unless they start with `docs/` or
`README.md`.

## 1. Inventory

| component | state | operations | used by |
|---|---|---|---|
| campaign (`src/main.c`) | loop indices, `current_results[]`, `kem_results[]`, test counters | discovery, step 0, validation, the KEM and the DSA loop, the nine and eight stages of a benchmark, CSV row, final report | the kernel starts it |
| session (`src/benchmark_control.c`) | `g_benchmark_session`: state, totals, progress, completed and failed KEMs | init, start, pause, resume, stop, should_continue, update_progress, record_error, record_kem_result, reports | campaign |
| registries (`src/kem_registry.c`, `src/sig_registry.c`) | entries with an `enabled` flag | register, discover, enable, validate, `get_enabled_kem` | campaign, later metrics |
| measured-operation harness (`harness/dynamic_iters.c`) | buffers of one operation, the loop | step 0, the dynamic-iteration runs | campaign |
| RNG accounting (`metrics/entropy_consumption.c`) | a current context, totals and a sample per algorithm and operation | set, clear, reset, record, finalize | `common/randombytes.c` feeds it, campaign reads it |
| heap ledger (`src/benchmark_alloc.c`) | current, peak, total, calls | reset, malloc, free | harness and every metric |
| symmetric profile (`src/symmetric_profile.c`) | counters | reset, add, read | the hash functions feed it |
| timing port (`harness/timing_port.c`) | last 32-bit reading, rollover count, a spin lock, the frequency | init, `tp_now_cycles`, `tp_cycles_per_sec` | every measurement, and one interrupt handler |
| release jitter probe (`metrics/release_jitter.c`) | a timer, a semaphore, a latched stamp | probe, expiry handler | throttle metric |
| fairness probe (`metrics/fairness.c`) | a timer, a semaphore, a victim thread and its counter | probe, expiry handler, victim | throttle metric |
| RTOS interference probe (`metrics/throttle.c`) | a worker thread, its switch and its counter | probe, begin, end, worker | throttle metric |
| ISR tax probe (`metrics/isr_tax.c`) | a timer and a counter | probe, expiry handler | throttle metric |
| throttle, memory, entropy-starvation, jitter, energy and profile metrics (`metrics/`) | locals | one call per operation | campaign |
| statistics, CSV (`metrics/cycles.c`, `metrics/deadline.c`, `src/utils.c`) | none | pure functions, output | campaign |
| TEE abstraction and back ends (`src/tee_*.c`) | a context, per-operation RNG counters | init, deinit, dispatch, random bytes | campaign, with `ENABLE_TEE` |
| TEE network protocol and MQTT client (`src/tee_network_handler.c`, `src/tee_mqtt_client.c`) | a requested benchmark, the last result; a connection | message handlers, result; connect, publish, process | nothing in this repository calls them |
| scripts, PQClean's algorithms | | | not part of the running program's control |

How they interact. Everything but the handlers, the victim and the worker runs
on the thread of `main()`, by plain calls on global state. The meters are
globals that every call of an algorithm feeds, so the meaning of a report
depends on when each was reset, read and stopped. The probes add, on one
processor, a timer interrupt that preempts everything and threads of a higher
priority than `main()`; they communicate by semaphores and atomic counters.

What is hard here, and the correctness it calls for:

- A failure may come anywhere: any `k_malloc`, validation, operation or gate.
  A row must still stand for a complete benchmark of its own algorithm, the
  counters must say what happened, and whatever was allocated, started or
  switched on must be undone.
- Meters shared by all algorithms must be attributed to one.
- Interrupts and threads run between any two statements of a probe. What is
  counted must belong to the window it is reported for, and nothing may go on
  running into the measurement that follows.
- Every stage of a row takes buffers from one heap, any of which may be
  refused, and computes its report in another way when one is missing. Sizes
  are unsigned differences that wrap, percentiles may coincide, a clock may be
  too coarse for the operation it times.
- Time stamps have 32 bits and wrap.
- A node that is asked for a benchmark over MQTT sees lost links, resets,
  repeated requests and requests that come while it is at work.

`PROJECT.json` lists the hazards one by one, each at its line and with the
properties that cover it.

## 2. Modules

| module | models | abstracts |
|---|---|---|
| `BenchmarkSession` | the session record: one operator per function of `benchmark_control.c` | times and names |
| `Orchestrator` | `main()` and both comprehensive benchmarks; one action per phase, loop head and stage | a metric is the algorithm it was measured on; what algorithms and gates return is open |
| `Orchestrator_proofs`, `OrchestratorCounts_proofs` | proofs about it | |
| `MeasuredOperation` | one measured operation, from `set_context` to `clear_context`, and the three meters | a call draws one RNG request and adds one unit of symmetric work |
| `MeasuredOperation_proofs` | proofs about it | |
| `Kernel` | `k_timer` and `k_sem` as the probes use them (outside the repository) | |
| `ReleaseJitter`, `Fairness`, `IsrTax` | the three timer probes, their handlers and the victim thread, on `Kernel` | ticks instead of microseconds |
| `RtosStress` | the interference probe's window protocol and the worker thread | the statistics of the samples |
| `ProbeSequence` | the four probes as the throttle stage calls them, row after row, on one processor | |
| `ProbeSequence_proofs` | proofs about it and the four probes in it | |
| `CycleStatistics` | sorting, percentiles, MAD, average and deadline risk, as operators | standard deviation; fractions instead of doubles |
| `CycleStatistics_proofs` | what these operators compute, for any samples | |
| `RowMetrics` | validations, and rows through all metrics of an operation: buffers, loops, sizes, every exit | what is measured is a choice; the stress itself |
| `RowMetrics_proofs` | proofs about it | |
| `TeeNode` | the protocol handler and the result it keeps: one operator or action per function | JSON, counters |
| `MqttClient` | the client above the MQTT library: connection, events, payload, acknowledgement | credentials, counters |
| `BenchService` | what a networked node promises | |
| `NetworkedBench` | handler and client on a device that resets, with a broker and an orchestrator, which implement `BenchService` | broker, orchestrator and main loop are outside the repository |
| `NetworkedBench_proofs` | proofs about it, the safety of `BenchService` included | |
| `MonotonicClock` | what `timing_port.h` promises of `tp_now_cycles` | |
| `TimingPort` | `tp_now_cycles` on a 32-bit counter, callers interrupting each other | `Width` for 2^32 |
| `TimingPort_proofs` | proofs about it, the refinement of `MonotonicClock` included | |

`Orchestrator` extends `BenchmarkSession` and applies its operators to the
variable `session`, as `main()` applies the functions to the global.
`ProbeSequence` instantiates the four probe modules, each with variables of its
own, and `NetworkedBench` extends `TeeNode` and `MqttClient`, whose functions it
calls from the loop of the device.
`MC*.tla` and `.cfg` instantiate the modules for TLC. A definition whose name
ends in `_` and a word (`StopTimer_Not`) is a deliberate wrong variant of the
definition after it, used to show that a property notices; no behaviour uses it.

**From code to action.** In `Orchestrator` the KEM and the DSA halves of
`main()` are the same text with other names, so one set of actions has the half
as the variable `kind`; where they differ (a KEM asks the session before its
stages and records its results in it, a DSA does not, and the session's
completion test knows only KEMs) the action says so. `RunStage` is one stage of
`run_comprehensive_benchmark_for_*`: ask the session, measure, and go on,
return true or return false. The later metrics call `get_enabled_kem()` in the
code and therefore `MeasuredLater` returns the first enabled KEM.

In the probes a `pc` value is a place between two statements that another actor
can see. On one processor `main()` acts only when the threads above it are
blocked (`MainRuns`), while an interrupt may come at any of these places, due
within the present tick. A `Tick` passes only while somebody sleeps or computes.
In `ProbeSequence` one tick passes for the stress worker, which sleeps on after
its probe, and for the probe whose stage it is; `Leave` of a probe is the return
of its call, where its locals end and the next call begins. The worker is above
everybody, so every step of `main()` in any stage needs `RS!MainRuns`. The
assumptions on the constants of the four modules are collected in one
(`ProbeAssumption`), which TLC evaluates.

In `RowMetrics` a stage is a call of `main()`, and `live` the buffers it holds.
The KEM and the DSA variant of a stage are one text with different buffers;
where they are not, `kind` is a guard. In `NetworkedBench` the device is one
thread: a step of the loop, or of the handler it calls through the client, with
a reset possible between any two. The link breaks at any time, and the client
learns of it from the library's next event only. What a break or a reset loses
is not delivered again (a device that starts connects under a new client id); the
orchestrator repeats. The client reads a payload into a buffer on the stack that it
does not clear: of a payload read short, and of a start command sent cut, the
handler takes the missing bytes from there, so they may be those of any message or
any algorithm (`Contents`, `ShortRead`).

## 3. Runs

| run | bounds | what it shows |
|---|---|---|
| `campaign` | 3 KEMs, 2 DSAs | every outcome of every validation, operation and gate |
| `measured` | 2 slots, 3 operations, loops of 2 calls | reports of one operation after any other, every exit |
| `probes` | stress: sleep 3, work 2, 2 samples; interrupts: period 3, 2 samples; fairness: period 2, window 4, averages 0, 1, 2; release: period 2, batches of 2, timeout 3; operations of 1 and 4 ticks | the four probes one after another for any number of rows, the worker in any phase, handlers anywhere, every failure |
| `metrics` | 3 jitter samples, 2 starved operations, 3 trials under 2 caps, 2 stress samples, 3 profile runs; sizes in KB | validations and rows through every metric, every malloc and operation failing |
| `network` | 2 supported algorithms and one that is not, 2 faults, 1 other message, inbox of 2, 2 sockets | requests against breaks, resets, timeouts and payloads unread or read short at any point |
| `clock` | 4-valued counter, three rollovers | a rollover seen, seen late or missed: readings never go back, and are exact while none was missed |

Why the bounds are enough. Three KEMs give a first, a middle and a last one, so
that a failure has something before and after it. Two DSAs do the same for the
half that is not in the session. Tracking slots are independent arrays, and two
of them are enough for a KEM and a DSA that share an index and one that does
not. A probe's state is reset at its start, so what one probe can do to another
shows between two in a row; the runs have unboundedly many. Periods, windows and
durations are the least numbers for which an operation can be shorter than,
as long as, and several times longer than what it is compared with, and for
which a backlog of two releases can build up. A counter of four values wraps
often, and needs no more for a rollover to be seen, missed or seen late. The
baselines of `metrics` have one to five samples and one of twenty-one with one
late outlier, which sets the 95th and the 99th percentile apart: all zero, all
equal, ascending, descending, scattered. The sizes are of algorithms that fit
under both caps of the code (128 and 64 KB), reach into the margin of one, or do
not fit. Two faults are enough to lose a request after its answer was lost, and
to use up both sockets; two algorithms, to replace one request by another. The
sets of messages are repeated without a bound, since the orchestrator repeats.
A malformed message is not among the others of that run: it is ignored as a stop
command is, in the same branch.

Deadlock is checked in `measured` and `probes`, where something can always go
on. `main()` and the clock's horizon end, a network whose requests are all
answered may rest, and in `metrics` a target may stop at the write described
under `RowEnds`.

**Fairness.** `Terminates`, that `main()` reaches its end, and `RowEnds` assume
that its thread goes on; it waits for nobody. `RowGoesOn` assumes that a due
interrupt is served, that a ready thread of a higher priority runs, that time
passes, and that `main()` takes its next statement when nobody above it is
ready. This is Zephyr's priority scheduling on one processor, with
a handler and threads that block again after a bounded time. Every action of
`main()` whose outcome is open (an operation that may fail) is fair only as
part of the disjunction: that an operation eventually succeeds is not assumed.
In `network` the device's loop goes round (weak fairness), and its work, which is
to begin a requested benchmark, end it and send its result, one at a time, goes on
between the calls of the client (strong fairness of the three as one, since a call
comes between); the orchestrator repeats a request
that is open (strong fairness, since it waits for room in the broker). Nothing
is assumed of faults but that there are at most `MaxFaults`.

**What the properties say.** Beside one type invariant per run:

- campaign: `RowsAreComplete` (a row stands for three passed benchmarks with
  the algorithm's own baselines), `CompletedMeansAllKems`, `CountsAreTrue` (the
  counters are what happened, and with a KEM registered no percentage divides by
  zero), `NoSilentSkip`, `ErrorIsFinal`, `Terminates`;
- meters: `RngReportIsTheLoops`, `ProfileReportIsOneCall`,
  `HeapReportIsTheBuffers`, `LedgerIsExact`, `OnlyTheRunIsAccounted`;
- probes: `OnlyOneProbeAtATime` (nothing of a probe runs, is pending or is held
  in another's call, and the worker works only in its window),
  `ReportsAreTheWindows` (the activations, the interrupts and the latencies
  reported are those of the probe's own window), `StressBeforeSampling`,
  `SamplesTellTheLoops`, `WakesAreReleases`, `ReadingIsFinal`,
  `StarvationMeansShorterWindow`, `TakesAreReleases`, `NeverTimesOut`,
  `RowGoesOn`. Most are stated in the probe's own module and checked in the
  sequence;
- metrics: `NothingLeaks`, `JitterIsTheRange` (whichever buffer was missing),
  `BaselineIsOrdered`, `SlowerIsRiskier` (the risk never falls when percentiles
  rise), `CapsAreKept`, `RowEnds`. The last has one exception: a KEM's throttle
  test writes its stress samples without asking whether it had the buffer
  (`metrics/throttle.c:1163`), so a row may stop there and nowhere else;
- network: `RunIsTheRequest`, `ResultIsOfItsRun` (the result message is a copy of
  a global that has no regard to the algorithm it is asked for, and a new request
  may be accepted before it is made), `ImplementsService`, `RequestAnswered`. The
  last has two exceptions, the states `Deaf` in which the client leaves its device
  without messages: a payload it did not read to its end, and a network stack
  without sockets;
- clock: `NeverAhead`, `ReadingIsExact`, `IsMonotonic`.

`CapsAreKept` holds for a reason worth knowing. The size of the pressure buffer
is an unsigned difference that wraps for an algorithm that fits under a cap but
not under its margin; the huge size is never had, and the cap is then reported
as measured without pressure. SPHINCS+-256f is such an algorithm: it needs 62618
bytes with the overhead, under a cap of 64 KB with a margin of 4 KB
(`metrics/memory.c:244`).

### Disagreements between the code and what the repository says of it

Each has a run that ends in a counterexample.

- `recovery`: the first failed KEM operation ends the campaign, with "Error
  Recovery: ENABLED" printed at its start (`src/main.c:1022`, `812`).
- `dsas_starved`: if every registered KEM succeeds the session is complete and
  no DSA is measured (`src/benchmark_control.c:95`).
- `foreign_metrics`: with two KEMs the later metrics in the row of the second
  are those of the first (`metrics/jitter.c:84`).
- `release_latency`: an expiry between the two reads of a sample makes the
  stamp later than the take, and the latency wraps (`metrics/release_jitter.c:245`).
- `mqtt_reconnect`: a client that is only called as its header says stays
  disconnected after the first break, although "automatic reconnection with
  backoff" is announced (`src/tee_mqtt_client.c:12`, `500`).
- `stop_ignored`: a stop command, "abort benchmark", falls through to the default
  case and the node stays busy (`src/tee_network_handler.c:418`).

Some more came up and have no run of their own. The reports of a DSA-only
campaign divide 0 by 0 and convert the result to `int`
(`src/benchmark_control.c:195`); `CountsAreTrue` excludes just that case. Releases
that stay pending are counted as overruns again in every iteration
(`metrics/release_jitter.c:236`). Progress counts four steps per
KEM against a total of three (`src/main.c:977`, `src/benchmark_control.c:29`).
The two windows of the fairness probe differ in length without bound, in both
directions (`metrics/fairness.c:175`, against the comment at 163), and by
`StarvationMeansShorterWindow` their ratio is all the probe can report: a victim
above `main()` on one processor misses nothing.

The build enables one algorithm at a time in the documented flow
(`docs/architecture.md`), in which `recovery`, `dsas_starved` and
`foreign_metrics` cannot show; the code and its CMake options allow more.

## 4. Proofs

`tlapm` checks every step. The theorems hold for every value of the constants
that satisfies the named assumptions.

**`Orchestrator_proofs`**, under `SizesAssumption` (the numbers of KEMs and DSAs
are naturals and there are no more KEMs than result slots): `TypeCorrect`,
`RowsCorrect` (`RowsAreComplete`), `CompletionCorrect`
(`CompletedMeansAllKems`). Neither of the last two is inductive. The row of an
algorithm is printed at the end from a flag, `success`, so the invariant has to
say what the flag means on the way: `OperationsInv`, that as long as the
algorithm has not failed, every operation before `op` has passed and its own
baseline is in `results`. This rests on the session: a session that stopped
between two operations would end the loop early with the flag still set, so
`OperationsInv` also says that a success keeps the session going.
`CompletionInv` counts: the KEM loop has been through `Done` KEMs, has completed
at most that many, and if exactly that many then each of them has a row;
`COMPLETED` is entered when the count reaches the total. The inductive invariant
is `IInv`, the conjunction of these with the type invariant, checked by TLC
before it was proved. One lemma per action shows that it is kept, and
`FirstOfIsMember` that `get_enabled_kem` names a registered KEM.

**`TimingPort_proofs`**, under `TimingAssumption` (the counter has at least two
values): `TypeCorrect` with mutual exclusion, `NeverAheadCorrect`,
`ExactCorrect`, and `Monotonic`, that `TimingPort` implements `MonotonicClock`.
`OrderInv` puts what was returned, what is kept, what was read and the counter
in one order, from which the first and the last follow whatever the gap between
two calls; `GapInv` and `KeptInv` add that between two reads there is at most
one rollover and that the comparison with the last reading sees it, which gives
exactness while `polled` holds, that is, while the counter has been read in
every 2^32 cycles. The code does not see to that: on a
32-bit counter an operation longer than 2^32 cycles, timed by a read before it
and one after it, is short by a rollover.

**`OrchestratorCounts_proofs`**, on top of the first: `CountsCorrect`
(`CountsAreTrue`), `NothingSkipped` (`NoSilentSkip`) and `ErrorsAreFinal`, an
action property. `CInv` says at each place of the loops how many rows,
failures, operations begun and operations passed there are, with sets counted by
`Cardinality`: that the counters are true is only known between two operations,
and within one the operation under way has to be added or not, by where it is.

**`MeasuredOperation_proofs`**, under the module's assumptions on its request
sizes and blocks: `TypeCorrect`, `RngReportsAreTheLoops`,
`ProfilesAreOfOneCall`, `HeapReportsAreTheBuffers`, `LedgersAreExact`, and
`OthersAreNotAccounted`, an action property. The reports are of the end of an
operation; the invariant says for each point of it what each meter holds so far:
nothing before its reset, then so many calls of the loop, and from the ledger
the weight of exactly the blocks there are, of whichever operation.

**`ProbeSequence_proofs`**, under `ProbeAssumption` (periods, durations and
counts are numbers, a window is longer than a period, the timeout of a take is
longer than a period, and a stamp's width is more than two periods): ten
theorems, two of which are action properties. The invariant has a part for each
probe and one that says whose call it is (`StageInv`).
- `RsInv`: how far the worker is into its sleep against how far `main()` is into
  its settle time. That the first sample is under stress, at any phase, follows
  only from the two together.
- `ItInv`: the expiries counted, the ticks since the window's start and the
  timer's remainder; the rate reported is then within one of the timer's.
- `FInv`: releases, wakes and pending releases balance, and the wakes of a
  window are its length divided by the period, from which `StarvationIsLength`.
- `RjInv`: takes, pending releases and expiries balance, and the time left to a
  take is longer than the time to the next release. The reported percentiles are
  in order because sorted samples are.

`OwnSteps` shows that a step of the sequence is a step of each probe's own or
leaves it alone, and then each part is kept by the steps of its own probe.

**`NetworkedBench_proofs`**, under the assumption that what stands for no message
is none, and the bounds are numbers: `TypeCorrect`, `RunsAreTheRequest`,
`ResultsAreOfTheirRuns` and `SafeService`, the refinement of
`BenchService` step by step: `StepsRefine` maps every step of handler, client,
broker and orchestrator, resets and lost links included, to a step of the service
or a stutter. That a result is still the right one when it is sent needs `LoopInv`:
the loop begins nothing while it has a result to send, and only the end of a run
stores one. What `ImplementsService` has beside it, the service's fairness, is
checked by TLC.

**`CycleStatistics_proofs`**, without assumptions, for all sequences of numbers:
`SortedIsSorting` (`Sorted`, defined by order statistics, yields all the samples
and no others, in order), `BaselinesAreRanked`, `RiskIsPercentage`, `RiskGrows`.
Whatever an operator computes is bounded by its neighbours: a percentile by two
adjacent samples, the average by the extremes, the median deviation by their
distance, and the risk falls on two straight pieces that meet.
These need induction on lengths and sizes, and the library's
induction theorems cannot be used with the provers at hand. They go instead by
`LeastNumber`: a set of numbers that is not empty has a least one, and a
property that fails has a least number it fails at. That the recursive sum of
the community modules exists (`SumsExist`) is shown the same way.

**`RowMetrics_proofs`**, under `MetricsAssumption` (baselines are not empty,
cycles are at most `UINT64_MAX`, and the heap has fewer bytes than `size_t` has
values, by more than a margin):
`TypeCorrect`, `NothingOutlivesAStage`, `CapsAreHonest`, `JitterIsTrue`,
`BaselineIsTrue`, `RiskIsTrue`. `HeldInv` says for each place of each stage which
buffers can be held there; `PressureInv` that the pressure buffer is there for the
trials of one cap that the algorithm fits under. A size that wrapped
would be larger than the heap, so it was not had. `JitterInv` says that the
running extremes are the extremes of the samples read so far, and that the loop
began with none: the two reports then agree by `Extremes`.

Every inductive invariant was checked by TLC, on the instance of its run, before
it was proved.

**Only model-checked.** Liveness and fairness are out of the prover's reach:
`Terminates`, `RowGoesOn`, `RowEnds`, `RequestAnswered`, and the fairness of
`ImplementsService`. All other properties of the passing runs are proved.

## 5. Plan

Done, in the order of importance: the campaign and its session; the measured
operation and its meters; the probes with concurrency, one by one and in
sequence; the clock under them, as an implementation of an abstract clock; the
networked node, as an implementation of an abstract service; the metrics of a
row, with their sizes and statistics. Every safety property of the runs is proved
for every value of the constants.

Left:

1. Termination arguments by safety: for `Terminates` and `RowEnds`, a measure of
   what is left of a campaign and of a row that every step of `main()`
   lowers, as an action property. This is the part of these two properties that
   does not need fairness, and can be proved.
2. For `RequestAnswered`, that an open request which is not `Deaf` always has a
   step that leads on is an `ENABLED` property and stays with TLC.

## 6. Not modelled

- The cryptographic algorithms and hash functions: vendored reference code, nine
  tenths of the lines of the repository. An operation takes time, draws
  randomness and may fail.
- The TEE back ends (`src/tee_*.c` but for the network): only the mode without a
  TEE, which passes calls through, can be linked. The functions `tee_tfm_full_*`
  that the abstraction calls are defined nowhere, `tee_simulated.c` is not in
  the repository, and the TF-M back end's functions differ in their signatures
  from the declared ones. So no state of a back end is one the program can be in.
- Timing values, energy models, confidence intervals and bootstrap statistics:
  floating point over measured data, with no state that outlives a call.
- Registration: a fixed list of distinct names goes into tables that are larger
  than the list, and none of its checks can fail. The functions that enable and
  disable an entry by name have no caller.
- `run_dynamic_iterations` (`harness/dynamic_iters.c:39`), which has no caller
  either; `MeasuredOperation` models the two functions that took its place.
- Pausing a session: `benchmark_session_resume` has no caller and
  `should_pause` is never set. The test in `benchmark_should_continue` is kept.
- A main loop of the networked node that asks `tee_proto_has_result` before it
  sends: a start handled in between clears that flag
  (`src/tee_network_handler.c:330`), and such a loop would not send. The loop is not in
  the repository, and the modelled one sends what it has just stored.
- The 64-bit variant of the clock, which is the hardware counter itself.
- Output, CSV formatting, and the Python and shell scripts.
