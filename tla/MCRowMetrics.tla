------------------------------ MODULE MCRowMetrics ------------------------------
(* Rows one after another, for TLC. *)
EXTENDS RowMetrics

(* Operations of even and of scattered length, a clock that stands, and one*)
(* late sample in twenty-one, which sets p95 and p99 apart.                *)
OneLate == [j \in 1 .. 21 |-> IF j = 7 THEN 30 ELSE IF j = 9 THEN 4 ELSE 3]
Measured ==
    {<<0, 0>>, <<3, 3>>, <<1, 4>>, <<7, 2, 2>>, <<9, 1, 5, 2>>, <<2, 6, 6, 6, 30>>, OneLate}

(* The caps and margins of the code, in KB: 128 and 64, 8 and 4. *)
InKB == <<128, 64>>
Left == <<8, 4>>
===============================================================================
