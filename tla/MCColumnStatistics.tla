------------------------- MODULE MCColumnStatistics -------------------------
(* Instances of ColumnStatistics for TLC: tables of up to two rows of a     *)
(* numeric and a text column, with and without nulls and repeated values.   *)
EXTENDS ColumnStatistics
Row(n, s) == [c \in {"n", "s"} |-> IF c = "n" THEN n ELSE s]
Rows == {Row(1, 1), Row(2, 1), Row(0, 2), Row(2, 0)}
MCTable == {<<>>} \cup {<<r>> : r \in Rows} \cup {<<Row(1, 1), Row(1, 1)>>, <<Row(1, 1), Row(2, 1)>>,
                                               <<Row(0, 2), Row(0, 2)>>, <<Row(2, 0), Row(0, 2)>>}
=============================================================================
