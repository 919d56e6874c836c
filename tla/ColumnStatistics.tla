-------------------------- MODULE ColumnStatistics --------------------------
(***************************************************************************)
(* The statistics that adbc_scan_table reads from the driver when it is    *)
(* bound, and what it makes the optimizer believe about the rows it will   *)
(* scan.  A filter that contradicts the statistics of a column is folded   *)
(* away, so a false belief loses rows of the result without an error.      *)
(*                                                                         *)
(* The driver sends as many of the statistics it knows as it likes, in any *)
(* order, and the stream may break off after any of them.  It is asked for *)
(* approximate statistics, so they may describe rows the table never had,  *)
(* and without a schema, or with a name that reads as a pattern, they      *)
(* describe other tables as well.                                          *)
(*                                                                         *)
(* A row maps columns to 0, an SQL NULL, or to a value.  Counts go through *)
(* a double, which is exact below 2^53; larger tables are left out.        *)
(***************************************************************************)
EXTENDS Integers, Sequences, FiniteSets

CONSTANTS
  Column,
  Text,      \* the columns whose values are not numbers
  Table      \* the contents a table may have, as sequences of rows

ASSUME StatisticsAssumption ==
  /\ Text \subseteq Column
  /\ Table \subseteq Seq([Column -> Nat])

VARIABLES
  table,       \* the rows of the remote table
  pc,          \* "idle", "reading" or "bound"
  described,   \* the tables the driver's answer is about
  \* AdbcScanBindData
  estimated_row_count, column_statistics

bind_data == <<estimated_row_count, column_statistics>>
vars == <<table, pc, described, estimated_row_count, column_statistics>>

NullValue == 0
None == -1       \* an optional without a value
Binary == -2     \* the value of a statistic that is not a number

NoStatistics == [distinct_count |-> None, null_count |-> None, min_value |-> None,
                 max_value |-> None]

Init ==
  /\ table \in Table
  /\ pc = "idle"
  /\ described = {}
  /\ estimated_row_count = None
  /\ column_statistics = [c \in Column |-> NoStatistics]

-----------------------------------------------------------------------------
(* What a driver says of the rows t when it counts them correctly.         *)

Nulls(t, c) == {i \in DOMAIN t : t[i][c] = NullValue}
Values(t, c) == {t[i][c] : i \in DOMAIN t} \ {NullValue}

\* A driver that does not know the number of rows may say so.
RowCounts(t) == {Len(t), -1}

Statistics(t, c) ==
  LET Extreme(key, v) == [key |-> key, value |-> IF c \in Text THEN Binary ELSE v]
  IN  {[key |-> "nulls", value |-> Cardinality(Nulls(t, c))],
       [key |-> "distinct", value |-> Cardinality(Values(t, c))],
       [key |-> "other", value |-> 1]}
        \cup {Extreme("min", v) : v \in {w \in Values(t, c) : \A x \in Values(t, c) : w <= x}}
        \cup {Extreme("max", v) : v \in {w \in Values(t, c) : \A x \in Values(t, c) : x <= w}}

-----------------------------------------------------------------------------
\* GetStatistics: the driver answers about the table, about another one, about
\* both; or it has no answer, or fails, and the bind goes on without.
GetStatistics ==
  /\ pc = "idle"
  /\ \/ /\ pc' = "bound"
        /\ UNCHANGED described
     \/ /\ pc' = "reading"
        /\ \E t, u \in Table : described' = {t, u}
  /\ UNCHANGED <<table, bind_data>>

\* One entry of the answer without a column name.
ReadTableStatistic ==
  /\ pc = "reading"
  /\ \E t \in described : \E value \in RowCounts(t) :
       estimated_row_count' = IF value >= 0 THEN value ELSE estimated_row_count
  /\ UNCHANGED <<table, pc, described, column_statistics>>

Updated_FallsThrough(s, key, value) ==
  CASE key = "distinct" -> [s EXCEPT !.distinct_count = value, !.null_count = value]
    [] key = "nulls"    -> [s EXCEPT !.null_count = value]
    [] key = "min"      -> [s EXCEPT !.min_value = value]
    [] key = "max"      -> [s EXCEPT !.max_value = value]
    [] OTHER            -> s

\* The switch over the keys; others are ignored.
Updated(s, key, value) ==
  CASE key = "distinct" -> [s EXCEPT !.distinct_count = value]
    [] key = "nulls"    -> [s EXCEPT !.null_count = value]
    [] key = "min"      -> [s EXCEPT !.min_value = value]
    [] key = "max"      -> [s EXCEPT !.max_value = value]
    [] OTHER            -> s

\* ExtractStatisticValue: only integers and doubles are statistics.
GotValue(value) == value # Binary

\* One entry with a column name; one without a value is skipped.
ReadColumnStatistic ==
  /\ pc = "reading"
  /\ \E t \in described, c \in Column : \E e \in Statistics(t, c) :
       /\ GotValue(e.value)
       /\ column_statistics' =
            [column_statistics EXCEPT ![c] = Updated(column_statistics[c], e.key, e.value)]
  /\ UNCHANGED <<table, pc, described, estimated_row_count>>

\* The end of the stream, or an error anywhere in it: what has been read stays.
EndOfStatistics ==
  /\ pc = "reading"
  /\ pc' = "bound"
  /\ UNCHANGED <<table, described, bind_data>>

\* The plan is dropped with its bind data.
Unbind ==
  /\ pc = "bound"
  /\ pc' = "idle"
  /\ described' = {}
  /\ estimated_row_count' = None
  /\ column_statistics' = [c \in Column |-> NoStatistics]
  /\ UNCHANGED table

\* Another client changes the rows.
Alter ==
  /\ table' \in Table
  /\ UNCHANGED <<pc, described, bind_data>>

Next ==
  \/ GetStatistics \/ ReadTableStatistic \/ ReadColumnStatistic \/ EndOfStatistics
  \/ Unbind \/ Alter

Spec == Init /\ [][Next]_vars

-----------------------------------------------------------------------------
(* AdbcScanTableStatistics: what the optimizer is told.                    *)

CountsKnown(c) == column_statistics[c].null_count # None /\ estimated_row_count # None

CanHaveNull(c) == CountsKnown(c) => column_statistics[c].null_count # 0

\* A column without nulls has values, whatever the number of rows.
CanHaveValid(c) ==
  CountsKnown(c) =>
    \/ column_statistics[c].null_count = 0
    \/ column_statistics[c].null_count # estimated_row_count

\* Only numbers have a minimum and a maximum.
InBounds(c, v) ==
  LET s == column_statistics[c]
  IN  c \notin Text =>
        /\ s.min_value # None => s.min_value <= v
        /\ s.max_value # None => v <= s.max_value

Believed(c, v) ==
  IF v = NullValue THEN CanHaveNull(c) ELSE CanHaveValid(c) /\ InBounds(c, v)

-----------------------------------------------------------------------------
\* A statistic is absent or a number: an entry that cannot be read as one is
\* skipped and leaves the others as they are.
TypeOK ==
  /\ table \in Table
  /\ pc \in {"idle", "reading", "bound"}
  /\ described \subseteq Table
  /\ estimated_row_count \in Nat \cup {None}
  /\ column_statistics \in
       [Column -> [distinct_count : Nat \cup {None}, null_count : Nat \cup {None},
                   min_value : Nat \cup {None}, max_value : Nat \cup {None}]]

\* No row of the table is one that the optimizer was told cannot exist, however
\* little of the driver's answer has been read and in whatever order - provided
\* that the answer is about this table, as it still is, and about no other.
NoRowIsDenied ==
  pc = "bound" /\ described = {table} =>
    \A i \in DOMAIN table, c \in Column : Believed(c, table[i][c])

=============================================================================
