---------------------------- MODULE CycleStatistics ----------------------------
(***************************************************************************)
(* The order statistics of metrics/cycles.c and metrics/jitter.c, and the  *)
(* deadline risk that metrics/deadline.c derives from them.  Cycles are    *)
(* numbers; the doubles of the code are exact fractions, rounded where the *)
(* code rounds.  Mean and deviation beyond the average are left out.       *)
(***************************************************************************)
EXTENDS SequencesExt, Integers

(* qsort of a copy leaves at each place the sample that fewer samples than *)
(* places up to it are less than, and as many are at most.                 *)
Below(samples, v) == {j \in DOMAIN samples : samples[j] < v}
UpTo(samples, v) == {j \in DOMAIN samples : samples[j] <= v}

Sorted_Not(samples) == samples
Sorted(samples) ==
    [place \in DOMAIN samples |->
        CHOOSE v \in Range(samples) :
            Cardinality(Below(samples, v)) < place /\ place <= Cardinality(UpTo(samples, v))]

(* percentile_u64: rank p% of n - 1, between two samples by interpolation, *)
(* rounded half up.                                                        *)
percentile_u64(sorted, p) ==
    LET rank == p * (Len(sorted) - 1)
        lo   == sorted[rank \div 100 + 1]
        frac == rank % 100
    IN  IF frac = 0 THEN lo
        ELSE ((100 - frac) * lo + frac * sorted[rank \div 100 + 2] + 50) \div 100

u64_abs_diff(a, b) == IF a > b THEN a - b ELSE b - a

mad_u64(samples, median) ==
    percentile_u64(Sorted([k \in DOMAIN samples |-> u64_abs_diff(samples[k], median)]), 50)

Lowest(samples) == Min(Range(samples))
Highest(samples) == Max(Range(samples))
Average(samples) == FoldSeq(+, 0, samples) \div Len(samples)

(* A result before calculate_baseline_stats, and what it leaves when all   *)
(* samples are zero.                                                       *)
NoStats == [min |-> 0, max |-> 0, avg |-> 0, q1 |-> 0, p50 |-> 0, q3 |-> 0, p95 |-> 0, p99 |-> 0,
            mad |-> 0]

(* With the two buffers, and the approximation without them. *)
calculate_baseline_stats(samples) ==
    LET sorted == Sorted(samples)
        p50 == percentile_u64(sorted, 50)
    IN  [min |-> Lowest(samples), max |-> Highest(samples), avg |-> Average(samples),
         q1 |-> percentile_u64(sorted, 25), p50 |-> p50, q3 |-> percentile_u64(sorted, 75),
         p95 |-> percentile_u64(sorted, 95), p99 |-> percentile_u64(sorted, 99),
         mad |-> mad_u64(samples, p50)]

approximate_baseline_stats(samples) ==
    LET lo == Lowest(samples)
        hi == Highest(samples)
        avg == Average(samples)
    IN  [min |-> lo, max |-> hi, avg |-> avg, q1 |-> lo, p50 |-> avg, q3 |-> hi,
         p95 |-> hi, p99 |-> hi, mad |-> 0]

-------------------------------------------------------------------------------
(* compute_deadline_metrics: the risk to miss a budget, in percent, as a   *)
(* fraction.                                                               *)
BelowKnot_Any(budget, s) == s.p95 > s.p50
BelowKnot(budget, s) == s.p95 > s.p50 /\ budget < s.p95

deadline_miss_risk(budget, s) ==
    IF s.p50 = 0 \/ budget < s.p50 THEN [num |-> 100, den |-> 1]
    ELSE IF budget >= s.p99 THEN [num |-> 0, den |-> 1]
    ELSE IF BelowKnot(budget, s)
    THEN LET span == s.p95 - s.p50 IN [num |-> 50 * span - 45 * (budget - s.p50), den |-> span]
    ELSE LET span == s.p99 - s.p95 IN [num |-> 5 * span - 4 * (budget - s.p95), den |-> span]

AtMost(a, b) == a.num * b.den <= b.num * a.den
===============================================================================
