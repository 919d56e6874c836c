---------------------------- MODULE BulkIngest ----------------------------
(***************************************************************************)
(* What adbc_insert promises the query that calls it, with no stream, no   *)
(* thread and no lock in sight.  Source rows are numbered 1, 2, ... in the *)
(* order the engine produces them; the target table always holds a prefix  *)
(* of them, and the statement has one outcome, after which nothing moves.  *)
(***************************************************************************)
EXTENDS Integers

CONSTANT AllOrNothing   \* the driver ingests a stream as one transaction

VARIABLES
  supplied,   \* source rows the engine has given to adbc_insert
  table,      \* how many of them the target table holds
  outcome,    \* "running", "ok" or "failed", as the query sees it
  count       \* the rows_inserted value of an "ok" outcome

vars == <<supplied, table, outcome, count>>

Init ==
  /\ supplied = 0
  /\ table = 0
  /\ outcome = "running"
  /\ count = 0

Supply ==
  /\ outcome = "running"
  /\ supplied' \in Nat
  /\ supplied' > supplied
  /\ UNCHANGED <<table, outcome, count>>

\* The driver stores more rows, never one it was not given; a driver that
\* ingests a stream as one transaction stores all of them or none.
Store ==
  /\ outcome = "running"
  /\ table' \in Nat
  /\ table < table' /\ table' <= supplied
  /\ AllOrNothing => table' = supplied
  /\ UNCHANGED <<supplied, outcome, count>>

Succeed ==
  /\ outcome = "running"
  /\ table = supplied
  /\ outcome' = "ok"
  /\ count' = supplied
  /\ UNCHANGED <<supplied, table>>

Fail ==
  /\ outcome = "running"
  /\ AllOrNothing => table = 0
  /\ outcome' = "failed"
  /\ UNCHANGED <<supplied, table, count>>

Next == Supply \/ Store \/ Succeed \/ Fail

Spec == Init /\ [][Next]_vars

=============================================================================
