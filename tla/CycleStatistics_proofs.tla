------------------------- MODULE CycleStatistics_proofs -------------------------
(***************************************************************************)
(* Lemmas about the order statistics: for any samples, sorting yields the  *)
(* samples in order, percentiles are in the order of their percentages and *)
(* between the extremes, and so are the average and the median deviation;  *)
(* and for any budget a slower baseline has no lower risk.                 *)
(*                                                                         *)
(* Where a fact has to be shown for every length, the induction is on a    *)
(* set of numbers, since every such set has a least element.               *)
(***************************************************************************)
EXTENDS CycleStatistics, FiniteSetTheorems, WellFoundedInduction, TLAPS

(* Every non-empty set of numbers has a least one.                         *)
LEMMA LeastNumber ==
    ASSUME NEW S, S \subseteq Nat, S # {}
    PROVE  \E least \in S : \A x \in S : least <= x
<1>1. PICK least \in S : \A x \in S : ~ (<<x, least>> \in OpToRel(<, Nat))
  BY NatLessThanWellFounded, WFMin
<1>2. \A x \in S : ~ (x < least)
  BY <1>1 DEF OpToRel
<1> QED
  BY <1>2

(* A set that contains zero and, with a number, the next contains them all.*)
LEMMA Induction ==
    ASSUME NEW S, 0 \in S, \A n \in Nat : n \in S => n + 1 \in S
    PROVE  Nat \subseteq S
<1> SUFFICES ASSUME Nat \ S # {} PROVE FALSE
  OBVIOUS
<1>1. PICK least \in Nat \ S : \A x \in Nat \ S : least <= x
  <2>1. Nat \ S \subseteq Nat
    OBVIOUS
  <2> QED
    BY <2>1, LeastNumber
<1>2. least # 0 /\ least - 1 \in Nat /\ least - 1 \in S
  BY <1>1
<1> QED
  BY <1>1, <1>2
-------------------------------------------------------------------------------
(* Sorting. *)

Samples == Seq(Nat) \ {<<>>}

(* A sequence of samples is a non-empty function into the numbers.         *)
LEMMA SampleTypes ==
    ASSUME NEW s \in Samples
    PROVE  /\ Len(s) \in Nat \ {0} /\ DOMAIN s = 1 .. Len(s)
           /\ \A j \in DOMAIN s : s[j] \in Nat
           /\ Range(s) \subseteq Nat /\ s[1] \in Range(s)
BY DEF Samples, Range

(* There is a number that no sample exceeds.                               *)
LEMMA SamplesAreBounded ==
    ASSUME NEW s \in Samples
    PROVE  \E b \in Nat : \A j \in DOMAIN s : s[j] <= b
<1> DEFINE Bounded == {n \in Nat : \E b \in Nat : \A j \in DOMAIN s : j <= n => s[j] <= b}
<1>0. Len(s) \in Nat /\ DOMAIN s = 1 .. Len(s) /\ \A j \in DOMAIN s : s[j] \in Nat
  BY SampleTypes
<1>1. 0 \in Bounded
  BY <1>0
<1>2. ASSUME NEW n \in Nat, n \in Bounded PROVE n + 1 \in Bounded
  <2>1. PICK b \in Nat : \A j \in DOMAIN s : j <= n => s[j] <= b
    BY <1>2
  <2>2. CASE n + 1 \in DOMAIN s
    <3>1. b + s[n + 1] \in Nat /\ \A j \in DOMAIN s : j <= n + 1 => s[j] <= b + s[n + 1]
      BY <1>0, <2>1, <2>2
    <3> QED
      BY <3>1, n + 1 \in Nat
  <2>3. CASE n + 1 \notin DOMAIN s
    <3>1. \A j \in DOMAIN s : j <= n + 1 => s[j] <= b
      BY <1>0, <2>1, <2>3
    <3> QED
      BY <3>1, n + 1 \in Nat
  <2> QED
    BY <2>2, <2>3
<1>3. Len(s) \in Bounded
  <2> HIDE DEF Bounded
  <2> QED
    BY <1>0, <1>1, <1>2, Induction
<1> QED
  BY <1>0, <1>3

(* The places of small and of large samples can be counted.                *)
LEMMA Counts ==
    ASSUME NEW s \in Samples, NEW v
    PROVE  /\ IsFiniteSet(DOMAIN s) /\ Cardinality(DOMAIN s) = Len(s)
           /\ UpTo(s, v) \subseteq DOMAIN s /\ Below(s, v) \subseteq DOMAIN s
           /\ IsFiniteSet(UpTo(s, v)) /\ Cardinality(UpTo(s, v)) \in Nat
           /\ IsFiniteSet(Below(s, v)) /\ Cardinality(Below(s, v)) \in Nat
<1>0. Len(s) \in Nat \ {0} /\ DOMAIN s = 1 .. Len(s) /\ 1 \in Int /\ Len(s) \in Int
  BY SampleTypes
<1>1. IsFiniteSet(1 .. Len(s)) /\ Cardinality(1 .. Len(s)) = IF 1 > Len(s) THEN 0 ELSE Len(s) - 1 + 1
  BY <1>0, FS_Interval, Zenon
<1>2. UpTo(s, v) \in SUBSET (DOMAIN s) /\ Below(s, v) \in SUBSET (DOMAIN s)
  BY DEF UpTo, Below
<1>3. IsFiniteSet(UpTo(s, v)) /\ IsFiniteSet(Below(s, v))
  BY <1>0, <1>1, <1>2, FS_Subset
<1>4. Cardinality(UpTo(s, v)) \in Nat /\ Cardinality(Below(s, v)) \in Nat
  BY <1>3, FS_CardinalityType
<1> QED
  BY <1>0, <1>1, <1>2, <1>3, <1>4

(* The place is that of a sample.                                          *)
LEMMA Placed ==
    ASSUME NEW s \in Samples, NEW place \in DOMAIN s
    PROVE  /\ Sorted(s)[place] \in Range(s)
           /\ Cardinality(Below(s, Sorted(s)[place])) < place
           /\ place <= Cardinality(UpTo(s, Sorted(s)[place]))
<1> DEFINE Enough == {x \in Nat : place <= Cardinality(UpTo(s, x))}
<1>0. /\ Len(s) \in Nat \ {0} /\ DOMAIN s = 1 .. Len(s) /\ \A j \in DOMAIN s : s[j] \in Nat
      /\ place \in 1 .. Len(s)
  BY SampleTypes
<1>1. Enough # {}
  <2>1. PICK b \in Nat : \A j \in DOMAIN s : s[j] <= b
    BY SamplesAreBounded
  <2>2. UpTo(s, b) = DOMAIN s
    BY <2>1 DEF UpTo
  <2>3. place <= Cardinality(UpTo(s, b))
    BY <1>0, <2>2, Counts
  <2> QED
    BY <2>1, <2>3
<1>2. PICK v \in Enough : \A x \in Enough : v <= x
  <2>1. Enough \subseteq Nat
    OBVIOUS
  <2> HIDE DEF Enough
  <2> QED
    BY <1>1, <2>1, LeastNumber
<1>3. Cardinality(Below(s, v)) < place
  <2>1. CASE v = 0
    <3>1. Below(s, v) = {}
      BY <1>0, <2>1 DEF Below
    <3> QED
      BY <1>0, <3>1, FS_EmptySet
  <2>2. CASE v # 0
    <3>1. v - 1 \in Nat /\ v - 1 \notin Enough
      BY <1>2, <2>2
    <3>2. Below(s, v) = UpTo(s, v - 1)
      BY <1>0, <1>2, <2>2 DEF Below, UpTo
    <3> QED
      BY <1>0, <3>1, <3>2, Counts
  <2> QED
    BY <2>1, <2>2
<1>4. v \in Range(s)
  <2> SUFFICES ASSUME \A j \in DOMAIN s : s[j] # v PROVE FALSE
    BY DEF Range
  <2>1. UpTo(s, v) = Below(s, v)
    BY <1>0, <1>2 DEF UpTo, Below
  <2> QED
    BY <1>0, <1>2, <1>3, <2>1, Counts
<1> DEFINE Fits(w) == Cardinality(Below(s, w)) < place /\ place <= Cardinality(UpTo(s, w))
<1>5. v \in Range(s) /\ Fits(v)
  BY <1>2, <1>3, <1>4
<1>6. Sorted(s)[place] = CHOOSE w \in Range(s) : Fits(w)
  BY DEF Sorted
<1> HIDE DEF Enough, Fits
<1>7. /\ (CHOOSE w \in Range(s) : Fits(w)) \in Range(s)
      /\ Fits(CHOOSE w \in Range(s) : Fits(w))
  BY <1>5, Zenon
<1>8. Sorted(s)[place] \in Range(s) /\ Fits(Sorted(s)[place])
  BY <1>6, <1>7
<1> QED
  BY <1>8 DEF Fits

(* Sorting leaves as many samples.                                         *)
LEMMA SortedType ==
    ASSUME NEW s \in Samples
    PROVE  Sorted(s) \in Samples /\ Len(Sorted(s)) = Len(s) /\ DOMAIN Sorted(s) = 1 .. Len(s)
<1>1. Len(s) \in Nat \ {0} /\ DOMAIN s = 1 .. Len(s) /\ Range(s) \subseteq Nat
  BY SampleTypes
<1>2. Sorted(s) \in [1 .. Len(s) -> Nat]
  <2>1. \A place \in 1 .. Len(s) : Sorted(s)[place] \in Nat
    BY <1>1, Placed
  <2>2. Sorted(s) = [place \in 1 .. Len(s) |-> Sorted(s)[place]]
    BY <1>1 DEF Sorted
  <2> QED
    BY <2>1, <2>2
<1> QED
  BY <1>1, <1>2 DEF Samples

(* A later place after sorting has no smaller sample.                      *)
LEMMA SortedIsOrdered ==
    ASSUME NEW s \in Samples, NEW a \in DOMAIN s, NEW b \in DOMAIN s, a <= b
    PROVE  Sorted(s)[a] <= Sorted(s)[b]
<1> DEFINE u == Sorted(s)[a]
           v == Sorted(s)[b]
<1>0. Len(s) \in Nat /\ DOMAIN s = 1 .. Len(s) /\ \A j \in DOMAIN s : s[j] \in Nat
  BY SampleTypes
<1>1. /\ u \in Nat /\ v \in Nat
      /\ Cardinality(Below(s, u)) < a /\ b <= Cardinality(UpTo(s, v))
  BY Placed, SampleTypes
<1> HIDE DEF u, v
<1>2. SUFFICES ASSUME v < u PROVE FALSE
  BY <1>1 DEF u, v
<1>3. UpTo(s, v) \in SUBSET Below(s, u)
  BY <1>0, <1>1, <1>2 DEF UpTo, Below
<1>4. Cardinality(UpTo(s, v)) <= Cardinality(Below(s, u))
  BY <1>3, Counts, FS_Subset
<1> QED
  BY <1>0, <1>1, <1>4, Counts

(* The first place is that of the least sample, the last of the greatest.  *)
LEMMA Ends ==
    ASSUME NEW s \in Samples
    PROVE  /\ 1 \in DOMAIN s /\ Len(s) \in DOMAIN s
           /\ Sorted(s)[1] \in Range(s) /\ Sorted(s)[Len(s)] \in Range(s)
           /\ \A x \in Range(s) : Sorted(s)[1] <= x /\ x <= Sorted(s)[Len(s)]
<1> DEFINE first == Sorted(s)[1]
           last == Sorted(s)[Len(s)]
<1>0. /\ Len(s) \in Nat \ {0} /\ DOMAIN s = 1 .. Len(s) /\ \A j \in DOMAIN s : s[j] \in Nat
      /\ 1 \in DOMAIN s /\ Len(s) \in DOMAIN s /\ Range(s) \subseteq Nat
  BY SampleTypes
<1>1. /\ first \in Range(s) /\ last \in Range(s)
      /\ Cardinality(Below(s, first)) < 1 /\ Len(s) <= Cardinality(UpTo(s, last))
  BY <1>0, Placed
<1>2. first \in Nat /\ last \in Nat
  BY <1>0, <1>1
<1> HIDE DEF first, last
<1>3. Below(s, first) = {}
  <2>1. Cardinality(Below(s, first)) = 0
    BY <1>1, Counts
  <2> QED
    BY <2>1, Counts, FS_EmptySet
<1>4. UpTo(s, last) = DOMAIN s
  <2>1. Cardinality(UpTo(s, last)) <= Cardinality(DOMAIN s)
    BY Counts, FS_Subset
  <2>2. Cardinality(UpTo(s, last)) = Cardinality(DOMAIN s)
    BY <1>0, <1>1, <2>1, Counts
  <2> QED
    BY <2>2, Counts, FS_Subset
<1>5. \A j \in DOMAIN s : first <= s[j] /\ s[j] <= last
  BY <1>0, <1>2, <1>3, <1>4 DEF Below, UpTo
<1>6. \A x \in Range(s) : first <= x /\ x <= last
  BY <1>5 DEF Range
<1> QED
  BY <1>0, <1>1, <1>6 DEF first, last

(* Minimum and maximum are the first and the last of the sorted samples.   *)
LEMMA Extremes ==
    ASSUME NEW s \in Samples
    PROVE  /\ Lowest(s) = Sorted(s)[1] /\ Highest(s) = Sorted(s)[Len(s)]
           /\ Lowest(s) \in Range(s) /\ Highest(s) \in Range(s)
           /\ Lowest(s) \in Nat /\ Highest(s) \in Nat
           /\ \A x \in Range(s) : Lowest(s) <= x /\ x <= Highest(s)
<1> DEFINE Least(x) == \A y \in Range(s) : x <= y
           Greatest(x) == \A y \in Range(s) : x >= y
           first == Sorted(s)[1]
           last == Sorted(s)[Len(s)]
<1>0. Range(s) \subseteq Nat
  BY SampleTypes
<1>1. first \in Range(s) /\ last \in Range(s) /\ Least(first) /\ Greatest(last)
  BY <1>0, Ends
<1>2. /\ Lowest(s) = (CHOOSE x \in Range(s) : Least(x))
      /\ Highest(s) = (CHOOSE x \in Range(s) : Greatest(x))
  BY DEF Lowest, Highest, Min, Max
<1> HIDE DEF Least, Greatest, first, last
<1>3. Lowest(s) \in Range(s) /\ Least(Lowest(s)) /\ Highest(s) \in Range(s) /\ Greatest(Highest(s))
  BY <1>1, <1>2, Zenon
<1>4. Lowest(s) = first /\ Highest(s) = last
  BY <1>0, <1>1, <1>3 DEF Least, Greatest
<1> QED
  BY <1>0, <1>3, <1>4 DEF Least, Greatest, first, last

(* Sorting loses no sample and makes none up: as many are at most v after  *)
(* it as before, for every v.                                              *)
LEMMA SortedKeepsAll ==
    ASSUME NEW s \in Samples, NEW v \in Nat
    PROVE  Cardinality(UpTo(Sorted(s), v)) = Cardinality(UpTo(s, v))
<1> DEFINE n == Cardinality(UpTo(s, v))
<1>0. /\ Len(s) \in Nat \ {0} /\ DOMAIN s = 1 .. Len(s) /\ \A j \in DOMAIN s : s[j] \in Nat
      /\ Range(s) \subseteq Nat /\ n \in Nat /\ DOMAIN Sorted(s) = DOMAIN s
  BY SampleTypes, Counts, SortedType
<1>1. n <= Len(s)
  BY Counts, FS_Subset
<1>2. ASSUME NEW place \in DOMAIN s
      PROVE  Sorted(s)[place] <= v <=> place <= n
  <2> DEFINE u == Sorted(s)[place]
  <2>1. /\ u \in Nat /\ Cardinality(Below(s, u)) < place /\ place <= Cardinality(UpTo(s, u))
        /\ Cardinality(Below(s, u)) \in Nat /\ Cardinality(UpTo(s, u)) \in Nat /\ place \in Nat
    BY <1>0, Placed, Counts
  <2> HIDE DEF u
  <2>2. CASE u <= v
    <3>1. UpTo(s, u) \subseteq UpTo(s, v)
      BY <1>0, <2>1, <2>2 DEF UpTo
    <3>2. Cardinality(UpTo(s, u)) <= n
      BY <3>1, Counts, FS_Subset
    <3>3. u <= v <=> place <= n
      BY <1>0, <2>1, <2>2, <3>2
    <3> QED
      BY <3>3 DEF u
  <2>3. CASE ~(u <= v)
    <3>1. UpTo(s, v) \subseteq Below(s, u)
      BY <1>0, <2>1, <2>3 DEF UpTo, Below
    <3>2. n <= Cardinality(Below(s, u))
      BY <3>1, Counts, FS_Subset
    <3>3. u <= v <=> place <= n
      BY <1>0, <2>1, <2>3, <3>2
    <3> QED
      BY <3>3 DEF u
  <2> QED
    BY <2>2, <2>3
<1> HIDE DEF n
<1>3. UpTo(Sorted(s), v) = 1 .. n
  <2>1. UpTo(Sorted(s), v) = {j \in DOMAIN s : j <= n}
    BY <1>0, <1>2 DEF UpTo
  <2> QED
    BY <1>0, <1>1, <2>1
<1>4. 1 \in Int /\ n \in Int
  BY <1>0
<1>5. Cardinality(1 .. n) = IF 1 > n THEN 0 ELSE n - 1 + 1
  BY <1>4, FS_Interval, Zenon
<1>6. Cardinality(1 .. n) = n
  BY <1>0, <1>5
<1> QED
  BY <1>3, <1>6 DEF n

(* What qsort leaves in the copy: the samples, all of them and no others,  *)
(* in order (cycles.c 54 and 174, jitter.c 203).                           *)
THEOREM SortedIsSorting ==
    ASSUME NEW s \in Samples
    PROVE  /\ \A a, b \in DOMAIN s : a <= b => Sorted(s)[a] <= Sorted(s)[b]
           /\ \A v \in Nat : Cardinality(UpTo(Sorted(s), v)) = Cardinality(UpTo(s, v))
BY SortedIsOrdered, SortedKeepsAll
-------------------------------------------------------------------------------
(* Percentiles.  The interpolation is within two neighbours, and grows with*)
(* the rank.                                                               *)

(* Multiplication keeps the order.                                         *)
LEMMA Products ==
    ASSUME NEW a \in Nat, NEW b \in Nat, NEW c \in Nat, a <= b
    PROVE  a * c \in Nat /\ b * c \in Nat /\ a * c <= b * c /\ c * a = a * c
<1>1. (b - a) * c \in Nat
  <2>1. b - a \in Nat
    OBVIOUS
  <2> QED
    BY <2>1
<1>2. b * c = a * c + (b - a) * c
  OBVIOUS
<1>3. a * c \in Nat /\ b * c \in Nat /\ c * a = a * c
  OBVIOUS
<1> QED
  BY <1>1, <1>2, <1>3

(* A weighted mean is between its two numbers, and grows with the weight   *)
(* of the larger.                                                          *)
LEMMA Weighted ==
    ASSUME NEW a \in Nat, NEW b \in Nat, a <= b, NEW f \in 0 .. 100, NEW g \in 0 .. 100, f <= g
    PROVE  /\ (100 - f) * a + f * b \in Nat
           /\ 100 * a <= (100 - f) * a + f * b
           /\ (100 - f) * a + f * b <= 100 * b
           /\ (100 - f) * a + f * b <= (100 - g) * a + g * b
<1> DEFINE d == b - a
<1>0. /\ d \in Nat /\ b = a + d /\ f \in Nat /\ g \in Nat /\ 100 \in Nat
      /\ f <= 100 /\ g <= 100 /\ 0 \in Nat /\ 0 <= f
  OBVIOUS
<1>1. /\ (100 - f) * a + f * b = 100 * a + f * d
      /\ (100 - g) * a + g * b = 100 * a + g * d
  <2> HIDE DEF d
  <2> QED
    BY <1>0
<1> HIDE DEF d
<1>2. f * d \in Nat /\ g * d \in Nat /\ f * d <= g * d
  BY <1>0, Products, Zenon
<1>3. f * d <= 100 * d
  BY <1>0, Products, Zenon
<1> QED
  BY <1>0, <1>1, <1>2, <1>3

(* What percentile_u64 finds at a rank in hundredths of a place. *)
At(q, rank) ==
    LET f == rank % 100
    IN  IF f = 0 THEN q[rank \div 100 + 1]
        ELSE ((100 - f) * q[rank \div 100 + 1] + f * q[rank \div 100 + 2] + 50) \div 100

Ordered(q) == q \in Samples /\ \A a, b \in DOMAIN q : a <= b => q[a] <= q[b]

(* A rank in hundredths has a place and a fraction.                        *)
LEMMA Hundredths ==
    ASSUME NEW r \in Nat
    PROVE  r % 100 \in 0 .. 99 /\ r \div 100 \in Nat /\ r = 100 * (r \div 100) + (r % 100)
OBVIOUS

(* Both places of an interpolation exist.                                  *)
LEMMA Neighbours ==
    ASSUME NEW q, Ordered(q), NEW rank \in 0 .. 100 * (Len(q) - 1)
    PROVE  /\ rank \div 100 + 1 \in DOMAIN q /\ q[rank \div 100 + 1] \in Nat
           /\ rank % 100 \in 0 .. 99
           /\ rank % 100 # 0 => /\ rank \div 100 + 2 \in DOMAIN q /\ q[rank \div 100 + 2] \in Nat
                                /\ q[rank \div 100 + 1] <= q[rank \div 100 + 2]
<1>1. /\ Len(q) \in Nat \ {0} /\ DOMAIN q = 1 .. Len(q) /\ \A j \in DOMAIN q : q[j] \in Nat
  BY SampleTypes DEF Ordered
<1>2. /\ rank % 100 \in 0 .. 99 /\ rank \div 100 \in Nat
      /\ rank = 100 * (rank \div 100) + (rank % 100)
  <2>1. rank \in Nat
    BY <1>1
  <2> QED
    BY <2>1, Hundredths
<1>3. rank \div 100 + 1 \in DOMAIN q
  BY <1>1, <1>2
<1>4. ASSUME rank % 100 # 0 PROVE rank \div 100 + 2 \in DOMAIN q
  BY <1>1, <1>2, <1>4
<1> QED
  BY <1>1, <1>2, <1>3, <1>4 DEF Ordered

(* What is found at a rank is between its neighbours.                      *)
LEMMA AtIsBetween ==
    ASSUME NEW q, Ordered(q), NEW rank \in 0 .. 100 * (Len(q) - 1)
    PROVE  /\ At(q, rank) \in Nat
           /\ q[rank \div 100 + 1] <= At(q, rank)
           /\ rank % 100 # 0 => At(q, rank) <= q[rank \div 100 + 2]
           /\ rank % 100 = 0 => At(q, rank) = q[rank \div 100 + 1]
<1> DEFINE a == q[rank \div 100 + 1]
           b == q[rank \div 100 + 2]
           f == rank % 100
<1>1. a \in Nat /\ f \in 0 .. 99 /\ (f # 0 => b \in Nat /\ a <= b)
  BY Neighbours
<1>2. At(q, rank) = IF f = 0 THEN a ELSE ((100 - f) * a + f * b + 50) \div 100
  BY DEF At
<1> HIDE DEF a, b, f
<1>3. CASE f = 0
  BY <1>1, <1>2, <1>3 DEF a, b, f
<1>4. CASE f # 0
  <2> DEFINE w == (100 - f) * a + f * b
  <2>1. w \in Nat /\ 100 * a <= w /\ w <= 100 * b
    <3>1. f \in 0 .. 100 /\ f <= f /\ a \in Nat /\ b \in Nat /\ a <= b
      BY <1>1, <1>4
    <3> QED
      BY <3>1, Weighted
  <2>2. At(q, rank) = (w + 50) \div 100
    BY <1>2, <1>4
  <2> HIDE DEF w
  <2>3. /\ (w + 50) \div 100 \in Nat /\ a <= (w + 50) \div 100 /\ (w + 50) \div 100 <= b
    BY <1>1, <1>4, <2>1
  <2> QED
    BY <1>4, <2>2, <2>3 DEF a, b, f
<1> QED
  BY <1>3, <1>4

(* It does not fall when the rank rises, across a place as within one.     *)
LEMMA AtGrows ==
    ASSUME NEW q, Ordered(q), NEW r1 \in 0 .. 100 * (Len(q) - 1),
           NEW r2 \in 0 .. 100 * (Len(q) - 1), r1 <= r2
    PROVE  At(q, r1) <= At(q, r2)
<1> DEFINE d1 == r1 \div 100
           d2 == r2 \div 100
           f1 == r1 % 100
           f2 == r2 % 100
<1>0. /\ Len(q) \in Nat \ {0} /\ DOMAIN q = 1 .. Len(q)
  BY SampleTypes DEF Ordered
<1>1. /\ d1 \in Nat /\ d2 \in Nat /\ f1 \in 0 .. 99 /\ f2 \in 0 .. 99
      /\ r1 = 100 * d1 + f1 /\ r2 = 100 * d2 + f2
  BY <1>0
<1>2. /\ d1 + 1 \in DOMAIN q /\ q[d1 + 1] \in Nat /\ d2 + 1 \in DOMAIN q /\ q[d2 + 1] \in Nat
      /\ f1 # 0 => d1 + 2 \in DOMAIN q /\ q[d1 + 2] \in Nat /\ q[d1 + 1] <= q[d1 + 2]
  BY Neighbours
<1>3. /\ At(q, r1) \in Nat /\ At(q, r2) \in Nat
      /\ q[d2 + 1] <= At(q, r2)
      /\ f1 # 0 => At(q, r1) <= q[d1 + 2]
      /\ f1 = 0 => At(q, r1) = q[d1 + 1]
  BY AtIsBetween
<1>4. /\ At(q, r1) = IF f1 = 0 THEN q[d1 + 1] ELSE ((100 - f1) * q[d1 + 1] + f1 * q[d1 + 2] + 50) \div 100
      /\ At(q, r2) = IF f2 = 0 THEN q[d2 + 1] ELSE ((100 - f2) * q[d2 + 1] + f2 * q[d2 + 2] + 50) \div 100
  BY DEF At
<1> HIDE DEF d1, d2, f1, f2
<1>5. CASE d1 = d2
  <2>1. CASE f1 = 0
    BY <1>3, <1>5, <2>1
  <2>2. CASE f1 # 0
    <3>1. f1 <= f2 /\ f2 # 0
      BY <1>1, <1>5, <2>2
    <3> DEFINE a == q[d1 + 1]
               b == q[d1 + 2]
               w1 == (100 - f1) * a + f1 * b
               w2 == (100 - f2) * a + f2 * b
    <3>2. w1 \in Nat /\ w2 \in Nat /\ w1 <= w2
      <4>1. a \in Nat /\ b \in Nat /\ a <= b
        BY <1>2, <2>2
      <4>2. f1 \in 0 .. 100 /\ f2 \in 0 .. 100 /\ f1 <= f2 /\ f2 <= f2
        BY <1>1, <3>1
      <4> HIDE DEF a, b
      <4> QED
        BY <4>1, <4>2, Weighted
    <3>3. At(q, r1) = (w1 + 50) \div 100 /\ At(q, r2) = (w2 + 50) \div 100
      BY <1>4, <1>5, <2>2, <3>1
    <3> HIDE DEF w1, w2
    <3>4. (w1 + 50) \div 100 <= (w2 + 50) \div 100
      BY <3>2
    <3> QED
      BY <3>3, <3>4
  <2> QED
    BY <2>1, <2>2
<1>6. CASE d1 < d2
  <2>1. CASE f1 = 0
    <3>1. q[d1 + 1] <= q[d2 + 1]
      BY <1>0, <1>1, <1>2, <1>6 DEF Ordered
    <3> QED
      BY <1>2, <1>3, <2>1, <3>1
  <2>2. CASE f1 # 0
    <3>1. d1 + 2 <= d2 + 1
      BY <1>1, <1>6
    <3>2. q[d1 + 2] <= q[d2 + 1]
      BY <1>2, <2>2, <3>1 DEF Ordered
    <3> QED
      BY <1>2, <1>3, <2>2, <3>2
  <2> QED
    BY <2>1, <2>2
<1>7. d1 <= d2
  BY <1>1
<1> QED
  BY <1>1, <1>5, <1>6, <1>7

(* Percentiles are in the order of their percentages, from the first       *)
(* sample to the last.                                                     *)
LEMMA PercentilesAreOrdered ==
    ASSUME NEW q, Ordered(q), NEW p \in 0 .. 100, NEW r \in 0 .. 100, p <= r
    PROVE  /\ percentile_u64(q, p) \in Nat
           /\ q[1] <= percentile_u64(q, p)
           /\ percentile_u64(q, p) <= percentile_u64(q, r)
           /\ percentile_u64(q, r) <= q[Len(q)]
<1> DEFINE n == Len(q) - 1
<1>0. /\ Len(q) \in Nat \ {0} /\ DOMAIN q = 1 .. Len(q) /\ \A j \in DOMAIN q : q[j] \in Nat
      /\ n \in Nat /\ n + 1 = Len(q)
  BY SampleTypes DEF Ordered
<1>1. percentile_u64(q, p) = At(q, p * n) /\ percentile_u64(q, r) = At(q, r * n)
  BY DEF percentile_u64, At
<1> HIDE DEF n
<1>2. /\ p \in Nat /\ r \in Nat /\ 100 \in Nat /\ 0 \in Nat /\ 0 <= p /\ r <= 100
  OBVIOUS
<1>3. /\ p * n \in Nat /\ r * n \in Nat /\ p * n <= r * n /\ r * n <= 100 * n
  BY <1>0, <1>2, Products, Zenon
<1>4. /\ p * n \in 0 .. 100 * n /\ r * n \in 0 .. 100 * n
      /\ 0 \in 0 .. 100 * n /\ 100 * n \in 0 .. 100 * n /\ 0 <= p * n
  <2> DEFINE x == p * n
             y == r * n
  <2>1. x \in Nat /\ y \in Nat /\ x <= y /\ y <= 100 * n
    BY <1>3
  <2> HIDE DEF x, y
  <2>2. x \in 0 .. 100 * n /\ y \in 0 .. 100 * n /\ 0 \in 0 .. 100 * n /\ 100 * n \in 0 .. 100 * n /\ 0 <= x
    BY <1>0, <2>1
  <2> QED
    BY <2>2 DEF x, y
<1>5. 100 * n = 100 * (Len(q) - 1)
  BY <1>0
<1>6. /\ At(q, p * n) \in Nat
      /\ At(q, 0) <= At(q, p * n) /\ At(q, p * n) <= At(q, r * n) /\ At(q, r * n) <= At(q, 100 * n)
  BY <1>3, <1>4, <1>5, AtIsBetween, AtGrows, Zenon
<1>7. At(q, 0) = q[1] /\ At(q, 100 * n) = q[Len(q)]
  <2>1. 0 % 100 = 0 /\ 0 \div 100 + 1 = 1
    OBVIOUS
  <2>2. (100 * n) % 100 = 0 /\ (100 * n) \div 100 = n
    BY <1>0
  <2> QED
    BY <1>0, <2>1, <2>2 DEF At
<1> QED
  BY <1>1, <1>6, <1>7, Zenon
-------------------------------------------------------------------------------
(* The average.  The sum of the community modules is a recursive function  *)
(* on the subsets of the places; that there is one is shown by induction on*)
(* their size, and so are its bounds.                                      *)

Some(S) == CHOOSE j \in S : TRUE
Sums(s, D, f) ==
    f = [S \in D |-> IF S = {} THEN 0 ELSE s[Some(S)] + f[S \ {Some(S)}]]

(* What is taken out of a set was in it.                                   *)
LEMMA SomeIsOne ==
    ASSUME NEW S, S # {}
    PROVE  Some(S) \in S
BY DEF Some

(* Only the empty set has no elements.                                     *)
LEMMA NoSize ==
    ASSUME NEW D, IsFiniteSet(D), NEW S \in SUBSET D
    PROVE  Cardinality(S) \in Nat /\ (Cardinality(S) = 0 <=> S = {})
BY FS_Subset, FS_EmptySet, FS_CardinalityType

(* A set without the one that is taken out is smaller by one.              *)
LEMMA Smaller ==
    ASSUME NEW D, IsFiniteSet(D), NEW S \in SUBSET D, S # {}
    PROVE  /\ S \ {Some(S)} \in SUBSET D /\ IsFiniteSet(S)
           /\ Cardinality(S) \in Nat /\ Cardinality(S \ {Some(S)}) \in Nat
           /\ Cardinality(S) = Cardinality(S \ {Some(S)}) + 1
<1>1. IsFiniteSet(S)
  BY FS_Subset
<1>2. Some(S) \in S
  BY SomeIsOne
<1>3. /\ IsFiniteSet(S \ {Some(S)})
      /\ Cardinality(S \ {Some(S)}) = IF Some(S) \in S THEN Cardinality(S) - 1 ELSE Cardinality(S)
  BY <1>1, FS_RemoveElement, Zenon
<1>4. Cardinality(S) \in Nat /\ Cardinality(S \ {Some(S)}) \in Nat
  BY <1>1, <1>3, FS_CardinalityType
<1>5. Cardinality(S) = Cardinality(S \ {Some(S)}) + 1
  BY <1>2, <1>3, <1>4
<1> QED
  BY <1>1, <1>4, <1>5

(* The recursive sum is defined on every set of places.                    *)
LEMMA SumsExist ==
    ASSUME NEW s \in Samples
    PROVE  \E f : Sums(s, SUBSET (DOMAIN s), f)
<1> DEFINE UpToSize(n) == {S \in SUBSET (DOMAIN s) : Cardinality(S) <= n}
           Summed == {n \in Nat : \E f : Sums(s, UpToSize(n), f)}
<1>0. IsFiniteSet(DOMAIN s) /\ Cardinality(DOMAIN s) = Len(s) /\ Len(s) \in Nat
  BY Counts, SampleTypes
<1>1. 0 \in Summed
  <2> DEFINE f == [S \in UpToSize(0) |-> 0]
  <2>1. \A S \in UpToSize(0) : S = {}
    <3>1. \A S \in SUBSET (DOMAIN s) : Cardinality(S) \in Nat /\ (Cardinality(S) = 0 <=> S = {})
      BY <1>0, NoSize
    <3> QED
      BY <3>1
  <2>2. Sums(s, UpToSize(0), f)
    <3> HIDE DEF UpToSize
    <3> QED
      BY <2>1 DEF Sums
  <2> QED
    BY <2>2
<1>2. ASSUME NEW n \in Nat, n \in Summed PROVE n + 1 \in Summed
  <2>1. PICK f : Sums(s, UpToSize(n), f)
    BY <1>2
  <2> DEFINE g == [S \in UpToSize(n + 1) |-> IF S = {} THEN 0 ELSE s[Some(S)] + f[S \ {Some(S)}]]
  <2>2. \A S \in UpToSize(n + 1) : S # {} => S \ {Some(S)} \in UpToSize(n)
    BY <1>0, Smaller
  <2>3. UpToSize(n) \subseteq UpToSize(n + 1)
    <3>1. \A S \in SUBSET (DOMAIN s) : Cardinality(S) \in Nat
      BY <1>0, FS_Subset, FS_CardinalityType
    <3> QED
      BY <3>1
  <2> HIDE DEF UpToSize
  <2>4. \A S \in UpToSize(n) : g[S] = f[S]
    BY <2>1, <2>3 DEF Sums
  <2>5. Sums(s, UpToSize(n + 1), g)
    <3>1. \A S \in UpToSize(n + 1) : S # {} => g[S \ {Some(S)}] = f[S \ {Some(S)}]
      BY <2>2, <2>4
    <3> QED
      BY <3>1 DEF Sums
  <2> QED
    BY <2>5, n + 1 \in Nat
<1>3. Len(s) \in Summed
  <2> HIDE DEF Summed
  <2> QED
    BY <1>0, <1>1, <1>2, Induction
<1>4. UpToSize(Len(s)) = SUBSET (DOMAIN s)
  <2>1. \A S \in SUBSET (DOMAIN s) : Cardinality(S) <= Len(s)
    BY <1>0, FS_Subset
  <2> QED
    BY <2>1
<1> QED
  BY <1>3, <1>4

(* A sum is at least as many times the least summand, and at most as many  *)
(* times the greatest.                                                     *)
LEMMA SumIsBounded ==
    ASSUME NEW s \in Samples, NEW f, Sums(s, SUBSET (DOMAIN s), f), NEW lo \in Nat, NEW hi \in Nat,
           \A j \in DOMAIN s : lo <= s[j] /\ s[j] <= hi
    PROVE  f[DOMAIN s] \in Nat /\ lo * Len(s) <= f[DOMAIN s] /\ f[DOMAIN s] <= hi * Len(s)
<1> DEFINE Of(n) == {S \in SUBSET (DOMAIN s) : Cardinality(S) = n}
           Fine(n) == \A S \in Of(n) : f[S] \in Nat /\ lo * n <= f[S] /\ f[S] <= hi * n
           Bounded == {n \in Nat : Fine(n)}
<1>0. /\ IsFiniteSet(DOMAIN s) /\ Cardinality(DOMAIN s) = Len(s) /\ Len(s) \in Nat
      /\ \A j \in DOMAIN s : s[j] \in Nat
  BY Counts, SampleTypes
<1>1. 0 \in Bounded
  <2>1. \A S \in Of(0) : S = {}
    <3>1. \A S \in SUBSET (DOMAIN s) : Cardinality(S) \in Nat /\ (Cardinality(S) = 0 <=> S = {})
      BY <1>0, NoSize
    <3> QED
      BY <3>1
  <2>2. f[{}] = 0
    BY DEF Sums
  <2>3. lo * 0 = 0 /\ hi * 0 = 0
    OBVIOUS
  <2> HIDE DEF Of
  <2>4. \A S \in Of(0) : f[S] = 0
    BY <2>1, <2>2
  <2>5. Fine(0)
    BY <2>3, <2>4
  <2> HIDE DEF Fine
  <2> QED
    BY <2>5
<1>2. ASSUME NEW n \in Nat, n \in Bounded PROVE n + 1 \in Bounded
  <2> SUFFICES ASSUME NEW S \in Of(n + 1)
               PROVE  f[S] \in Nat /\ lo * (n + 1) <= f[S] /\ f[S] <= hi * (n + 1)
    BY n + 1 \in Nat
  <2> DEFINE one == s[Some(S)]
             rest == f[S \ {Some(S)}]
  <2>1. S # {}
    <3>1. S \in SUBSET (DOMAIN s) /\ Cardinality(S) # 0
      OBVIOUS
    <3> QED
      BY <1>0, <3>1, NoSize
  <2>2. S \ {Some(S)} \in Of(n)
    <3>1. /\ S \ {Some(S)} \in SUBSET (DOMAIN s) /\ Cardinality(S \ {Some(S)}) \in Nat
          /\ Cardinality(S) = Cardinality(S \ {Some(S)}) + 1
      BY <1>0, <2>1, Smaller
    <3> QED
      BY <3>1
  <2>3. rest \in Nat /\ lo * n <= rest /\ rest <= hi * n
    BY <1>2, <2>2
  <2>4. one \in Nat /\ lo <= one /\ one <= hi
    BY <1>0, <2>1, SomeIsOne
  <2>5. f[S] = one + rest
    BY <2>1 DEF Sums
  <2>6. lo * (n + 1) = lo * n + lo /\ hi * (n + 1) = hi * n + hi /\ lo * n \in Nat /\ hi * n \in Nat
    OBVIOUS
  <2> HIDE DEF one, rest
  <2> QED
    BY <2>3, <2>4, <2>5, <2>6
<1>3. Len(s) \in Bounded
  <2> HIDE DEF Bounded
  <2> QED
    BY <1>0, <1>1, <1>2, Induction
<1> QED
  BY <1>0, <1>3

(* Rounding down leaves a quotient between two numbers there.              *)
LEMMA Quotient ==
    ASSUME NEW sum \in Nat, NEW n \in Nat \ {0}, NEW lo \in Nat, NEW hi \in Nat,
           lo * n <= sum, sum <= hi * n
    PROVE  sum \div n \in Nat /\ lo <= sum \div n /\ sum \div n <= hi
<1> DEFINE x == sum \div n
<1>1. x \in Nat /\ x * n <= sum /\ sum < (x + 1) * n
  OBVIOUS
<1> HIDE DEF x
<1>2. ASSUME x < lo PROVE FALSE
  <2>1. x + 1 \in Nat /\ x + 1 <= lo
    BY <1>1, <1>2
  <2>2. (x + 1) * n <= lo * n
    BY <2>1, Products
  <2> QED
    BY <1>1, <2>1, <2>2
<1>3. ASSUME hi < x PROVE FALSE
  <2>1. hi + 1 \in Nat /\ hi + 1 <= x
    BY <1>1, <1>3
  <2>2. (hi + 1) * n <= x * n /\ (hi + 1) * n = hi * n + n
    BY <1>1, <2>1, Products
  <2> QED
    BY <1>1, <2>1, <2>2
<1>4. x \in Nat /\ lo <= x /\ x <= hi
  BY <1>1, <1>2, <1>3
<1> QED
  BY <1>4 DEF x

(* The average is between the extremes.                                    *)
LEMMA AverageIsBetween ==
    ASSUME NEW s \in Samples
    PROVE  Average(s) \in Nat /\ Lowest(s) <= Average(s) /\ Average(s) <= Highest(s)
<1> DEFINE Is(f) == Sums(s, SUBSET (DOMAIN s), f)
           sum == CHOOSE f : Is(f)
<1>1. FoldSeq(+, 0, s) = sum[DOMAIN s]
  BY DEF FoldSeq, FoldFunction, FoldFunctionOnSet, MapThenFoldSet, Sums, Some
<1>2. Sums(s, SUBSET (DOMAIN s), sum)
  <2>1. \E f : Is(f)
    BY SumsExist
  <2> HIDE DEF Is
  <2>2. Is(sum)
    BY <2>1, Zenon
  <2> QED
    BY <2>2 DEF Is
<1> HIDE DEF sum
<1>3. /\ Lowest(s) \in Nat /\ Highest(s) \in Nat
      /\ \A j \in DOMAIN s : Lowest(s) <= s[j] /\ s[j] <= Highest(s)
  BY Extremes DEF Range
<1>4. /\ sum[DOMAIN s] \in Nat /\ Lowest(s) * Len(s) <= sum[DOMAIN s]
      /\ sum[DOMAIN s] <= Highest(s) * Len(s)
  BY <1>2, <1>3, SumIsBounded
<1>5. Average(s) = sum[DOMAIN s] \div Len(s)
  BY <1>1 DEF Average
<1> QED
  BY <1>3, <1>4, <1>5, SampleTypes, Quotient
-------------------------------------------------------------------------------
(* The baseline. *)

(* The sorted samples meet the demand of percentile_u64.                   *)
LEMMA SortedAreOrdered ==
    ASSUME NEW s \in Samples
    PROVE  Ordered(Sorted(s)) /\ Len(Sorted(s)) = Len(s)
<1>1. Sorted(s) \in Samples /\ Len(Sorted(s)) = Len(s) /\ DOMAIN Sorted(s) = DOMAIN s
  BY SortedType, SampleTypes
<1>2. \A a, b \in DOMAIN s : a <= b => Sorted(s)[a] <= Sorted(s)[b]
  BY SortedIsOrdered
<1> QED
  BY <1>1, <1>2 DEF Ordered

(* Percentiles of any samples are in order and between the extremes.       *)
LEMMA PercentilesOfSamples ==
    ASSUME NEW s \in Samples, NEW p \in 0 .. 100, NEW r \in 0 .. 100, p <= r
    PROVE  /\ percentile_u64(Sorted(s), p) \in Nat
           /\ Lowest(s) <= percentile_u64(Sorted(s), p)
           /\ percentile_u64(Sorted(s), p) <= percentile_u64(Sorted(s), r)
           /\ percentile_u64(Sorted(s), r) <= Highest(s)
<1>1. Ordered(Sorted(s)) /\ Len(Sorted(s)) = Len(s)
  BY SortedAreOrdered
<1>2. Lowest(s) = Sorted(s)[1] /\ Highest(s) = Sorted(s)[Len(Sorted(s))]
  BY <1>1, Extremes
<1> QED
  BY <1>1, <1>2, PercentilesAreOrdered

(* No sample is farther from a number between the extremes than they are   *)
(* from each other, nor is the median of the distances.                    *)
LEMMA DeviationIsWithinTheRange ==
    ASSUME NEW s \in Samples, NEW m \in Nat, Lowest(s) <= m, m <= Highest(s)
    PROVE  mad_u64(s, m) \in Nat /\ mad_u64(s, m) <= Highest(s) - Lowest(s)
<1> DEFINE devs == [j \in DOMAIN s |-> u64_abs_diff(s[j], m)]
           wide == Highest(s) - Lowest(s)
<1>0. /\ Len(s) \in Nat \ {0} /\ DOMAIN s = 1 .. Len(s)
      /\ Lowest(s) \in Nat /\ Highest(s) \in Nat
      /\ \A j \in DOMAIN s : s[j] \in Nat /\ Lowest(s) <= s[j] /\ s[j] <= Highest(s)
  BY SampleTypes, Extremes DEF Range
<1>1. \A j \in DOMAIN s : u64_abs_diff(s[j], m) \in Nat /\ u64_abs_diff(s[j], m) <= wide
  BY <1>0 DEF u64_abs_diff
<1>2. devs \in Samples
  <2>1. devs \in [1 .. Len(s) -> Nat]
    BY <1>0, <1>1
  <2> HIDE DEF devs
  <2> QED
    BY <2>1, SampleTypes DEF Samples
<1>3. \A x \in Range(devs) : x <= wide
  BY <1>1 DEF Range
<1>4. mad_u64(s, m) = percentile_u64(Sorted(devs), 50)
  BY DEF mad_u64
<1> HIDE DEF devs, wide
<1>5. 50 \in 0 .. 100 /\ 50 <= 50
  OBVIOUS
<1>6. /\ percentile_u64(Sorted(devs), 50) \in Nat
      /\ percentile_u64(Sorted(devs), 50) <= Highest(devs)
  BY <1>2, <1>5, PercentilesOfSamples, Zenon
<1>7. Highest(devs) \in Range(devs) /\ Highest(devs) \in Nat
  BY <1>2, Extremes
<1> QED
  BY <1>0, <1>3, <1>4, <1>6, <1>7 DEF wide

Baseline9 == [min : Nat, max : Nat, avg : Nat, q1 : Nat, p50 : Nat, q3 : Nat, p95 : Nat,
              p99 : Nat, mad : Nat]

Ranked(t) ==
    /\ t \in Baseline9
    /\ t.min <= t.q1 /\ t.q1 <= t.p50 /\ t.p50 <= t.q3 /\ t.q3 <= t.p95 /\ t.p95 <= t.p99
    /\ t.p99 <= t.max /\ t.mad <= t.max - t.min

(* For any samples, either way to compute a baseline yields fields in order*)
(* (cycles.c 177-227).                                                     *)
THEOREM BaselinesAreRanked ==
    ASSUME NEW s \in Samples
    PROVE  Ranked(calculate_baseline_stats(s)) /\ Ranked(approximate_baseline_stats(s))
<1> DEFINE P(p) == percentile_u64(Sorted(s), p)
<1>1. /\ Lowest(s) \in Nat /\ Highest(s) \in Nat
      /\ Average(s) \in Nat /\ Lowest(s) <= Average(s) /\ Average(s) <= Highest(s)
  BY Extremes, AverageIsBetween
<1>2. /\ P(25) \in Nat /\ P(50) \in Nat /\ P(75) \in Nat /\ P(95) \in Nat /\ P(99) \in Nat
      /\ Lowest(s) <= P(25) /\ P(25) <= P(50) /\ P(50) <= P(75) /\ P(75) <= P(95)
      /\ P(95) <= P(99) /\ P(99) <= Highest(s) /\ Lowest(s) <= P(50) /\ P(50) <= Highest(s)
  BY PercentilesOfSamples
<1>3. mad_u64(s, P(50)) \in Nat /\ mad_u64(s, P(50)) <= Highest(s) - Lowest(s)
  BY <1>2, DeviationIsWithinTheRange
<1>4. calculate_baseline_stats(s) =
        [min |-> Lowest(s), max |-> Highest(s), avg |-> Average(s), q1 |-> P(25), p50 |-> P(50),
         q3 |-> P(75), p95 |-> P(95), p99 |-> P(99), mad |-> mad_u64(s, P(50))]
  BY DEF calculate_baseline_stats
<1> HIDE DEF P
<1>5. Ranked(calculate_baseline_stats(s))
  BY <1>1, <1>2, <1>3, <1>4 DEF Ranked, Baseline9
<1>6. Ranked(approximate_baseline_stats(s))
  BY <1>1 DEF approximate_baseline_stats, Ranked, Baseline9
<1> QED
  BY <1>5, <1>6

(* So are the fields of a result before there is a baseline.               *)
LEMMA NoBaselineIsRanked == Ranked(NoStats)
BY DEF NoStats, Ranked, Baseline9
-------------------------------------------------------------------------------
(* The deadline risk. *)

(* The four percentages and spans of two polygons at one budget: where the *)
(* slower one has been fallen for longer, and is to fall for less.         *)
LEMMA Slope ==
    ASSUME NEW x \in Nat, NEW y \in Nat, NEW S \in Nat, NEW T \in Nat,
           y <= x, x <= S, y <= T, S - x <= T - y
    PROVE  S * T \in Nat /\ x * T \in Nat /\ y * S \in Nat /\ y * S <= x * T
<1> DEFINE e == x - y
           r == S - x
           d == (T - y) - (S - x)
<1>1. /\ e \in Nat /\ r \in Nat /\ d \in Nat
      /\ x = y + e /\ S = y + e + r /\ T = y + r + d
  OBVIOUS
<1> HIDE DEF e, r, d
<1>2. (y + e) * (y + r + d) = y * (y + e + r) + (y * d + e * r + e * d)
  BY <1>1
<1>3. y * (y + e + r) \in Nat /\ y * d + e * r + e * d \in Nat
  <2>1. y + e + r \in Nat /\ y * d \in Nat /\ e * r \in Nat /\ e * d \in Nat
    BY <1>1
  <2>2. y * (y + e + r) \in Nat
    <3> DEFINE z == y + e + r
    <3> HIDE DEF z
    <3>1. z \in Nat
      BY <2>1 DEF z
    <3>2. y * z \in Nat
      BY <3>1
    <3> QED
      BY <3>2 DEF z
  <2> QED
    BY <2>1, <2>2
<1>4. x * T = y * S + (y * d + e * r + e * d)
  BY <1>1, <1>2
<1>5. y * S \in Nat
  BY <1>1, <1>3
<1>6. S * T \in Nat
  OBVIOUS
<1> QED
  BY <1>3, <1>4, <1>5, <1>6

(* The two pieces of the polygon, cross-multiplied.                        *)
LEMMA SlopeAtMost ==
    ASSUME NEW x \in Nat, NEW y \in Nat, NEW S \in Nat, NEW T \in Nat,
           y <= x, x <= S, y <= T, S - x <= T - y
    PROVE  /\ (50 * S - 45 * x) * T <= (50 * T - 45 * y) * S
           /\ (5 * S - 4 * x) * T <= (5 * T - 4 * y) * S
<1>1. S * T \in Nat /\ x * T \in Nat /\ y * S \in Nat /\ y * S <= x * T
  BY Slope
<1>2. /\ (50 * S - 45 * x) * T = 50 * (S * T) - 45 * (x * T)
      /\ (50 * T - 45 * y) * S = 50 * (S * T) - 45 * (y * S)
  OBVIOUS
<1>3. /\ (5 * S - 4 * x) * T = 5 * (S * T) - 4 * (x * T)
      /\ (5 * T - 4 * y) * S = 5 * (S * T) - 4 * (y * S)
  OBVIOUS
<1> DEFINE a == S * T
           b == x * T
           c == y * S
<1>4. a \in Nat /\ b \in Nat /\ c \in Nat /\ c <= b
  BY <1>1
<1> HIDE DEF a, b, c
<1>5. 50 * a - 45 * b <= 50 * a - 45 * c /\ 5 * a - 4 * b <= 5 * a - 4 * c
  BY <1>4
<1> QED
  BY <1>2, <1>3, <1>5 DEF a, b, c

(* The percentiles that the risk is computed from. *)
Knots(t) == t.p50 \in Nat /\ t.p95 \in Nat /\ t.p99 \in Nat /\ t.p50 <= t.p95 /\ t.p95 <= t.p99

(* The piece of the polygon that a budget falls on. *)
First(b, t) == t.p50 # 0 /\ t.p50 <= b /\ b < t.p95
Second(b, t) == t.p50 # 0 /\ t.p95 <= b /\ b < t.p99

(* The risk is certain, none, or on exactly the piece the budget is in.    *)
LEMMA RiskCases ==
    ASSUME NEW b \in Nat, NEW t, Knots(t)
    PROVE  LET risk == deadline_miss_risk(b, t)
           IN  \/ (t.p50 = 0 \/ b < t.p50) /\ risk = [num |-> 100, den |-> 1]
               \/ (t.p50 # 0 /\ t.p99 <= b) /\ risk = [num |-> 0, den |-> 1]
               \/ First(b, t) /\ risk = [num |-> 50 * (t.p95 - t.p50) - 45 * (b - t.p50),
                                         den |-> t.p95 - t.p50]
               \/ Second(b, t) /\ risk = [num |-> 5 * (t.p99 - t.p95) - 4 * (b - t.p95),
                                          den |-> t.p99 - t.p95]
<1>1. CASE t.p50 = 0 \/ b < t.p50
  BY <1>1 DEF deadline_miss_risk
<1>2. CASE ~(t.p50 = 0 \/ b < t.p50) /\ b >= t.p99
  BY <1>2 DEF deadline_miss_risk, Knots
<1>3. CASE ~(t.p50 = 0 \/ b < t.p50) /\ ~(b >= t.p99) /\ b < t.p95
  <2>1. First(b, t) /\ BelowKnot(b, t)
    BY <1>3 DEF First, BelowKnot, Knots
  <2> QED
    BY <1>3, <2>1 DEF deadline_miss_risk
<1>4. CASE ~(t.p50 = 0 \/ b < t.p50) /\ ~(b >= t.p99) /\ ~(b < t.p95)
  <2>1. Second(b, t) /\ ~BelowKnot(b, t)
    BY <1>4 DEF Second, BelowKnot, Knots
  <2> QED
    BY <1>4, <2>1 DEF deadline_miss_risk
<1> QED
  BY <1>1, <1>2, <1>3, <1>4

Percentage(r) == r.num \in Nat /\ r.den \in Nat \ {0} /\ r.num <= 100 * r.den

(* A risk is between 0 and 100 percent, and no piece of the polygon divides*)
(* by zero (deadline.c 55-69).                                             *)
THEOREM RiskIsPercentage ==
    ASSUME NEW b \in Nat, NEW t, Knots(t)
    PROVE  Percentage(deadline_miss_risk(b, t))
<1> DEFINE risk == deadline_miss_risk(b, t)
<1>1. CASE risk = [num |-> 100, den |-> 1] \/ risk = [num |-> 0, den |-> 1]
  BY <1>1 DEF Percentage
<1>2. CASE /\ First(b, t)
           /\ risk = [num |-> 50 * (t.p95 - t.p50) - 45 * (b - t.p50), den |-> t.p95 - t.p50]
  BY <1>2 DEF Percentage, First, Knots
<1>3. CASE /\ Second(b, t)
           /\ risk = [num |-> 5 * (t.p99 - t.p95) - 4 * (b - t.p95), den |-> t.p99 - t.p95]
  BY <1>3 DEF Percentage, Second, Knots
<1> QED
  BY <1>1, <1>2, <1>3, RiskCases

(* Of two baselines, the one with the larger percentiles has no lower risk,*)
(* for any budget and where percentiles coincide as well (deadline.c 36-71)*)
THEOREM RiskGrows ==
    ASSUME NEW b \in Nat, NEW t, NEW u, Knots(t), Knots(u), t.p50 # 0,
           t.p50 <= u.p50, t.p95 <= u.p95, t.p99 <= u.p99
    PROVE  AtMost(deadline_miss_risk(b, t), deadline_miss_risk(b, u))
<1> DEFINE r == deadline_miss_risk(b, t)
           q == deadline_miss_risk(b, u)
<1>0. Percentage(r) /\ Percentage(q)
  BY RiskIsPercentage
<1>1. CASE q = [num |-> 100, den |-> 1]
  <2> HIDE DEF r, q
  <2>1. q.num = 100 /\ q.den = 1 /\ r.num \in Nat /\ r.den \in Nat /\ r.num <= 100 * r.den
    BY <1>0, <1>1 DEF Percentage
  <2>2. r.num * 1 = r.num
    BY <2>1
  <2>3. AtMost(r, q)
    BY <2>1, <2>2 DEF AtMost
  <2> QED
    BY <2>3 DEF r, q
<1>2. CASE r = [num |-> 0, den |-> 1]
  <2> HIDE DEF r, q
  <2>1. r.num = 0 /\ r.den = 1 /\ q.num \in Nat /\ q.den \in Nat
    BY <1>0, <1>2 DEF Percentage
  <2>2. 0 * q.den = 0 /\ q.num * 1 = q.num
    BY <2>1
  <2>3. AtMost(r, q)
    BY <2>1, <2>2 DEF AtMost
  <2> QED
    BY <2>3 DEF r, q
<1> DEFINE S1 == t.p95 - t.p50
           T1 == u.p95 - u.p50
           S2 == t.p99 - t.p95
           T2 == u.p99 - u.p95
           x1 == b - t.p50
           y1 == b - u.p50
           x2 == b - t.p95
           y2 == b - u.p95
<1>3. CASE First(b, t) /\ First(b, u)
  <2>1. /\ r.num = 50 * S1 - 45 * x1 /\ r.den = S1 /\ q.num = 50 * T1 - 45 * y1 /\ q.den = T1
    <3>1. b < t.p99 /\ b < u.p99 /\ ~(t.p95 <= b) /\ ~(u.p95 <= b) /\ ~(b < t.p50) /\ ~(b < u.p50) /\ u.p50 # 0
      BY <1>3 DEF First, Knots
    <3> QED
      BY <1>3, <3>1, RiskCases DEF First, Second, Knots
  <2>2. /\ x1 \in Nat /\ y1 \in Nat /\ S1 \in Nat /\ T1 \in Nat
        /\ y1 <= x1 /\ x1 <= S1 /\ y1 <= T1 /\ S1 - x1 <= T1 - y1
    BY <1>3 DEF First, Knots
  <2> HIDE DEF r, q, S1, T1, x1, y1
  <2>3. (50 * S1 - 45 * x1) * T1 <= (50 * T1 - 45 * y1) * S1
    BY <2>2, SlopeAtMost
  <2>4. AtMost(r, q)
    BY <2>1, <2>3 DEF AtMost
  <2> QED
    BY <2>4 DEF r, q
<1>4. CASE Second(b, t) /\ Second(b, u)
  <2>1. /\ r.num = 5 * S2 - 4 * x2 /\ r.den = S2 /\ q.num = 5 * T2 - 4 * y2 /\ q.den = T2
    <3>1. ~(b < t.p95) /\ ~(b < u.p95) /\ ~(b < t.p50) /\ ~(b < u.p50) /\ u.p50 # 0
          /\ ~(t.p99 <= b) /\ ~(u.p99 <= b)
      BY <1>4 DEF Second, Knots
    <3> QED
      BY <1>4, <3>1, RiskCases DEF First, Second, Knots
  <2>2. /\ x2 \in Nat /\ y2 \in Nat /\ S2 \in Nat /\ T2 \in Nat
        /\ y2 <= x2 /\ x2 <= S2 /\ y2 <= T2 /\ S2 - x2 <= T2 - y2
    BY <1>4 DEF Second, Knots
  <2> HIDE DEF r, q, S2, T2, x2, y2
  <2>3. (5 * S2 - 4 * x2) * T2 <= (5 * T2 - 4 * y2) * S2
    BY <2>2, SlopeAtMost
  <2>4. AtMost(r, q)
    BY <2>1, <2>3 DEF AtMost
  <2> QED
    BY <2>4 DEF r, q
<1>5. CASE Second(b, t) /\ First(b, u)
  <2>1. /\ r.num = 5 * S2 - 4 * x2 /\ r.den = S2 /\ q.num = 50 * T1 - 45 * y1 /\ q.den = T1
    <3>1. ~(b < t.p95) /\ ~(u.p95 <= b) /\ ~(b < t.p50) /\ ~(b < u.p50) /\ u.p50 # 0
          /\ ~(t.p99 <= b) /\ ~(u.p99 <= b)
      BY <1>5 DEF First, Second, Knots
    <3> QED
      BY <1>5, <3>1, RiskCases DEF First, Second, Knots
  <2>2. /\ S2 \in Nat /\ x2 \in Nat /\ T1 \in Nat /\ y1 \in Nat /\ y1 <= T1
        /\ 5 * S2 - 4 * x2 \in Nat
    BY <1>5 DEF First, Second, Knots
  <2> HIDE DEF r, q, S2, T1, x2, y1
  <2> DEFINE rn == 5 * S2 - 4 * x2
             qn == 50 * T1 - 45 * y1
  <2>3. rn \in Nat /\ rn <= 5 * S2 /\ qn \in Nat /\ 5 * T1 <= qn /\ 5 * S2 \in Nat /\ 5 * T1 \in Nat
    BY <2>2
  <2> HIDE DEF rn, qn
  <2>4. rn * T1 <= (5 * S2) * T1
    BY <2>2, <2>3, Products
  <2>5. (5 * T1) * S2 <= qn * S2
    BY <2>2, <2>3, Products
  <2>6. (5 * S2) * T1 = (5 * T1) * S2 /\ (5 * S2) * T1 \in Nat
        /\ rn * T1 \in Nat /\ qn * S2 \in Nat
    BY <2>2, <2>3
  <2>7. rn * T1 <= qn * S2
    BY <2>4, <2>5, <2>6
  <2>8. AtMost(r, q)
    BY <2>1, <2>7 DEF AtMost, rn, qn
  <2> QED
    BY <2>8 DEF r, q
<1> HIDE DEF r, q
<1>6. /\ q = [num |-> 100, den |-> 1] \/ (u.p50 # 0 /\ u.p99 <= b) \/ First(b, u) \/ Second(b, u)
      /\ \/ b < t.p50
         \/ r = [num |-> 0, den |-> 1]
         \/ First(b, t)
         \/ Second(b, t)
  BY RiskCases DEF r, q
<1>7. CASE b < t.p50 /\ ~(q = [num |-> 100, den |-> 1])
  BY <1>6, <1>7 DEF First, Second, Knots
<1>8. CASE u.p99 <= b /\ (First(b, t) \/ Second(b, t))
  BY <1>8 DEF First, Second, Knots
<1>9. CASE First(b, t) /\ Second(b, u)
  BY <1>9 DEF First, Second, Knots
<1>10. AtMost(r, q)
  BY <1>1, <1>2, <1>3, <1>4, <1>5, <1>6, <1>7, <1>8, <1>9 DEF r, q
<1> QED
  BY <1>10 DEF r, q
===============================================================================
