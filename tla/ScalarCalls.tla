---------------------------- MODULE ScalarCalls ----------------------------
(***************************************************************************)
(* adbc_execute, adbc_commit, adbc_rollback, adbc_set_autocommit and       *)
(* adbc_disconnect called in the select lists of queries that sessions run *)
(* concurrently on the handle of one connection.                           *)
(*                                                                         *)
(* None of the functions declares that it has side effects, so the engine  *)
(* treats a call whose arguments are constants as a constant: the          *)
(* optimizer evaluates it while it plans the query, once, however many     *)
(* rows the query has and even if it is only explained or prepared.  An    *)
(* exception is dropped there and the call is left for the run, where it   *)
(* is evaluated once for the chunk.  Other calls are evaluated for each    *)
(* row, one expression of the list after the other.                        *)
(*                                                                         *)
(* The rows of a query are those of one chunk.  What a statement does at   *)
(* the driver is an effect <<s, n, i, r>>: row r of expression i of query  *)
(* n of session s.  A driver that reports an error has done nothing.       *)
(***************************************************************************)
EXTENDS Naturals, Sequences

CONSTANTS
  Session,
  Query,        \* pairs of a select list and the number of rows it is for
  MaxItems,     \* expressions in one of them
  MaxRows,      \* bound: rows of a query
  MaxQueries,   \* bound: queries begun by all sessions
  MaxAttempts   \* bound: times the optimizer tries one expression

Function == {"execute", "commit", "rollback", "autocommit_on", "autocommit_off", "disconnect"}

SelectList == Seq([function : Function, constant : BOOLEAN])

ASSUME BoundsAssumption ==
  /\ MaxItems \in Nat /\ MaxRows \in Nat \ {0} /\ MaxQueries \in Nat
  /\ MaxAttempts \in Nat \ {0}

ASSUME QueryAssumption ==
  \A q \in Query : /\ q[1] \in SelectList /\ Len(q[1]) <= MaxItems
                   /\ q[2] \in 0 .. MaxRows

VARIABLES
  registered,  \* the handle is in the registry
  open,        \* the connection has not been released
  autocommit,  \* the driver's mode
  holding,     \* sessions inside a call, with a shared_ptr to the connection
  times,       \* how often an effect took place
  fate,        \* "none", "pending", "stored" or "discarded"
  pc,          \* "idle", "planning" or "running"
  list,        \* select list of a session's last query
  rows,        \* rows of its input
  item, row,   \* the expression and the row that are evaluated next
  folded,      \* expressions the optimizer has replaced by their value
  attempts,    \* times it has tried the current one in vain
  begun,       \* queries begun by all sessions
  number,      \* which of them a session began last
  outcome      \* of the last query: "none", "planned", "returned", "failed"

remote == <<registered, open, autocommit, holding, times, fate>>
query  == <<list, rows, begun, number>>
place  == <<pc, item, row, folded, attempts, outcome>>
vars   == <<registered, open, autocommit, holding, times, fate,
            pc, list, rows, item, row, folded, attempts, begun, number, outcome>>

Effect == Session \X (1 .. MaxQueries) \X (1 .. MaxItems) \X (1 .. MaxRows)

Init ==
  /\ registered = TRUE
  /\ open = TRUE
  /\ autocommit = TRUE
  /\ holding = {}
  /\ times = [e \in Effect |-> 0]
  /\ fate = [e \in Effect |-> "none"]
  /\ pc = [s \in Session |-> "idle"]
  /\ list = [s \in Session |-> <<>>]
  /\ rows = [s \in Session |-> 0]
  /\ item = [s \in Session |-> 1]
  /\ row = [s \in Session |-> 1]
  /\ folded = [s \in Session |-> {}]
  /\ attempts = [s \in Session |-> 0]
  /\ begun = 0
  /\ number = [s \in Session |-> 0]
  /\ outcome = [s \in Session |-> "none"]

-----------------------------------------------------------------------------
(* The engine's side of a query.                                           *)

\* How often expression i of the query of s is evaluated by its run.
Evaluations(s, i) ==
  IF list[s][i].constant /\ rows[s] > 0 THEN 1 ELSE rows[s]

\* The current expression is to be evaluated.
Evaluating(s) ==
  /\ item[s] <= Len(list[s])
  /\ \/ pc[s] = "planning" /\ list[s][item[s]].constant
     \/ /\ pc[s] = "running"
        /\ item[s] \notin folded[s]
        /\ row[s] <= Evaluations(s, item[s])

Calls(s, f) == Evaluating(s) /\ list[s][item[s]].function = f

\* A session parses and binds a query over n rows; planning starts.
Begin(s, l, n) ==
  /\ pc[s] = "idle" /\ begun < MaxQueries
  /\ pc' = [pc EXCEPT ![s] = "planning"]
  /\ list' = [list EXCEPT ![s] = l]
  /\ rows' = [rows EXCEPT ![s] = n]
  /\ item' = [item EXCEPT ![s] = 1]
  /\ row' = [row EXCEPT ![s] = 1]
  /\ folded' = [folded EXCEPT ![s] = {}]
  /\ attempts' = [attempts EXCEPT ![s] = 0]
  /\ begun' = begun + 1
  /\ number' = [number EXCEPT ![s] = begun + 1]
  /\ outcome' = [outcome EXCEPT ![s] = "none"]
  /\ UNCHANGED remote

\* Nothing (more) to evaluate of this expression now, or the optimizer gives
\* it up after a failure.
NextItem(s) ==
  /\ pc[s] # "idle" /\ item[s] <= Len(list[s]) /\ s \notin holding
  /\ ~Evaluating(s) \/ attempts[s] > 0
  /\ item' = [item EXCEPT ![s] = @ + 1]
  /\ row' = [row EXCEPT ![s] = 1]
  /\ attempts' = [attempts EXCEPT ![s] = 0]
  /\ UNCHANGED <<remote, query, pc, folded, outcome>>

\* The plan is made: the query runs ...
Run(s) ==
  /\ pc[s] = "planning" /\ item[s] > Len(list[s])
  /\ pc' = [pc EXCEPT ![s] = "running"]
  /\ item' = [item EXCEPT ![s] = 1]
  /\ UNCHANGED <<remote, query, row, folded, attempts, outcome>>

\* ... unless it was only explained or prepared.
PlanOnly(s) ==
  /\ pc[s] = "planning" /\ item[s] > Len(list[s])
  /\ pc' = [pc EXCEPT ![s] = "idle"]
  /\ outcome' = [outcome EXCEPT ![s] = "planned"]
  /\ UNCHANGED <<remote, query, item, row, folded, attempts>>

Finish(s) ==
  /\ pc[s] = "running" /\ item[s] > Len(list[s])
  /\ pc' = [pc EXCEPT ![s] = "idle"]
  /\ outcome' = [outcome EXCEPT ![s] = "returned"]
  /\ UNCHANGED <<remote, query, item, row, folded, attempts>>

-----------------------------------------------------------------------------
(* One call.                                                               *)

\* The call returned a value: it replaces the expression, or is one row of the
\* result.
Returns(s) ==
  /\ IF pc[s] = "planning"
     THEN /\ folded' = [folded EXCEPT ![s] = @ \cup {item[s]}]
          /\ item' = [item EXCEPT ![s] = @ + 1]
          /\ attempts' = [attempts EXCEPT ![s] = 0]
          /\ UNCHANGED row
     ELSE /\ row' = [row EXCEPT ![s] = @ + 1]
          /\ UNCHANGED <<folded, item, attempts>>
  /\ UNCHANGED <<query, pc, outcome>>

\* What is pending when the connection is released is lost.
Lost(f) == [e \in Effect |-> IF f[e] = "pending" THEN "discarded" ELSE f[e]]

\* The shared_ptr of the call goes: the last one releases the connection.  f
\* is what the call has made of the effects.
GiveUp(s, f) ==
  /\ holding' = holding \ {s}
  /\ IF registered \/ holding # {s}
     THEN fate' = f /\ UNCHANGED open
     ELSE fate' = Lost(f) /\ open' = FALSE

\* GetValidatedConnection, once per evaluation.
GetValidatedConnection(s) ==
  /\ Evaluating(s) /\ ~Calls(s, "disconnect")
  /\ s \notin holding
  /\ attempts[s] < MaxAttempts
  /\ registered
  /\ holding' = holding \cup {s}
  /\ UNCHANGED <<registered, open, autocommit, times, fate, query, place>>

\* The effect of the evaluation that is under way.
Current(s) == <<s, number[s], item[s], row[s]>>

ExecuteStatement_FallsThrough(s) ==
  /\ s \in holding /\ Calls(s, "execute")
  /\ times' = [times EXCEPT ![Current(s)] = IF list[s][item[s]].constant THEN @ + 2 ELSE @ + 1]
  /\ GiveUp(s, [fate EXCEPT ![Current(s)] = IF autocommit THEN "stored" ELSE "pending"])
  /\ Returns(s)
  /\ UNCHANGED <<registered, autocommit>>

\* Prepare and ExecuteQuery succeed, the result is released.
ExecuteStatement(s) ==
  /\ s \in holding /\ Calls(s, "execute")
  /\ times' = [times EXCEPT ![Current(s)] = @ + 1]
  /\ GiveUp(s, [fate EXCEPT ![Current(s)] = IF autocommit THEN "stored" ELSE "pending"])
  /\ Returns(s)
  /\ UNCHANGED <<registered, autocommit>>

\* The transaction of the driver's connection, everybody's, ends one way.
Ended(way) == [e \in Effect |-> IF fate[e] = "pending" THEN way ELSE fate[e]]

Commit_Unchecked(s) ==
  /\ s \in holding /\ Calls(s, "commit")
  /\ \E f \in {Ended("stored"), fate} : GiveUp(s, f)
  /\ Returns(s)
  /\ UNCHANGED <<registered, autocommit, times>>

\* Commit and Rollback are errors in autocommit mode, see Throw.
Commit(s) ==
  /\ s \in holding /\ Calls(s, "commit")
  /\ ~autocommit
  /\ GiveUp(s, Ended("stored"))
  /\ Returns(s)
  /\ UNCHANGED <<registered, autocommit, times>>

Rollback(s) ==
  /\ s \in holding /\ Calls(s, "rollback")
  /\ ~autocommit
  /\ GiveUp(s, Ended("discarded"))
  /\ Returns(s)
  /\ UNCHANGED <<registered, autocommit, times>>

\* Leaving manual mode commits what is pending.
SetAutocommit(s) ==
  /\ s \in holding
  /\ \/ /\ Calls(s, "autocommit_on")
        /\ autocommit' = TRUE
        /\ GiveUp(s, Ended("stored"))
     \/ /\ Calls(s, "autocommit_off")
        /\ autocommit' = FALSE
        /\ GiveUp(s, fate)
  /\ Returns(s)
  /\ UNCHANGED <<registered, times>>

Disconnect_Closes(s) ==
  /\ Calls(s, "disconnect")
  /\ attempts[s] < MaxAttempts
  /\ registered
  /\ registered' = FALSE
  /\ open' = FALSE /\ fate' = Lost(fate)
  /\ Returns(s)
  /\ UNCHANGED <<autocommit, holding, times>>

\* Remove from the registry; the reference Remove returns goes at once.
Disconnect(s) ==
  /\ Calls(s, "disconnect")
  /\ attempts[s] < MaxAttempts
  /\ registered
  /\ registered' = FALSE
  /\ IF holding = {} THEN open' = FALSE /\ fate' = Lost(fate)
                     ELSE UNCHANGED <<open, fate>>
  /\ Returns(s)
  /\ UNCHANGED <<autocommit, holding, times>>

Throw_SkipsRow(s) ==
  /\ Evaluating(s) /\ attempts[s] < MaxAttempts
  /\ s \in holding \/ ~registered
  /\ IF s \in holding THEN GiveUp(s, fate) ELSE UNCHANGED <<holding, fate, open>>
  /\ IF pc[s] = "planning"
     THEN attempts' = [attempts EXCEPT ![s] = @ + 1] /\ UNCHANGED row
     ELSE row' = [row EXCEPT ![s] = @ + 1] /\ UNCHANGED attempts
  /\ UNCHANGED <<registered, autocommit, times, query, pc, item, folded, outcome>>

\* A handle that is not registered, a NULL argument or an error of the driver:
\* the optimizer drops the exception, a run ends with it and leaves what its
\* rows have done so far.
Throw(s) ==
  /\ Evaluating(s) /\ attempts[s] < MaxAttempts
  /\ s \in holding \/ ~registered
  /\ IF s \in holding THEN GiveUp(s, fate) ELSE UNCHANGED <<holding, fate, open>>
  /\ IF pc[s] = "planning"
     THEN attempts' = [attempts EXCEPT ![s] = @ + 1] /\ UNCHANGED <<pc, outcome>>
     ELSE /\ pc' = [pc EXCEPT ![s] = "idle"]
          /\ outcome' = [outcome EXCEPT ![s] = "failed"]
          /\ UNCHANGED attempts
  /\ UNCHANGED <<registered, autocommit, times, query, item, row, folded>>

Next ==
  \E s \in Session :
    \/ \E q \in Query : Begin(s, q[1], q[2])
    \/ NextItem(s) \/ Run(s) \/ PlanOnly(s) \/ Finish(s)
    \/ GetValidatedConnection(s)
    \/ ExecuteStatement(s) \/ Commit(s) \/ Rollback(s) \/ SetAutocommit(s)
    \/ Disconnect(s)
    \/ Throw(s)

Spec == Init /\ [][Next]_vars

-----------------------------------------------------------------------------
\* A query has a place in its select list and its rows, the optimizer has folded
\* expressions of that list, and tries none of them beyond the bound.
TypeOK ==
  /\ registered \in BOOLEAN /\ open \in BOOLEAN /\ autocommit \in BOOLEAN
  /\ holding \subseteq Session
  /\ times \in [Effect -> Nat]
  /\ fate \in [Effect -> {"none", "pending", "stored", "discarded"}]
  /\ pc \in [Session -> {"idle", "planning", "running"}]
  /\ list \in [Session -> SelectList]
  /\ \A s \in Session : Len(list[s]) <= MaxItems
  /\ rows \in [Session -> 0 .. MaxRows]
  /\ item \in [Session -> Nat \ {0}]
  /\ row \in [Session -> Nat \ {0}]
  /\ folded \in [Session -> SUBSET (1 .. MaxItems)]
  /\ attempts \in [Session -> 0 .. MaxAttempts]
  /\ begun \in 0 .. MaxQueries
  /\ number \in [Session -> 0 .. MaxQueries]
  /\ outcome \in [Session -> {"none", "planned", "returned", "failed"}]

\* A statement the user wrote down once for a row takes effect once: neither an
\* attempt of the optimizer followed by the run, nor the branch for constant
\* arguments followed by the loop over the rows, executes it again.
EffectOnce == \A e \in Effect : times[e] <= 1

\* The run of the query of s has got past row r of expression i.
Passed(s, i, r) ==
  /\ pc[s] = "running" \/ outcome[s] \in {"returned", "failed"}
  /\ i < item[s] \/ (i = item[s] /\ r < row[s])

\* What has been executed of a query is exactly what its run has got past: an
\* error leaves the rows before it done and none after it, and a query that
\* returned has executed every row of every expression.
ExecutedIsEvaluated ==
  \A s \in Session : \A i \in 1 .. Len(list[s]) \ folded[s], r \in 1 .. MaxRows :
    number[s] > 0 /\ list[s][i].function = "execute" =>
      (times[<<s, number[s], i, r>>] > 0 <=> Passed(s, i, r) /\ r <= Evaluations(s, i))

\* Expression i has been evaluated at least once.
Evaluated(s, i) == i \in folded[s] \/ (Passed(s, i, 1) /\ Evaluations(s, i) > 0)

\* When adbc_commit has returned, nothing its session executed before is left
\* to commit: not of earlier queries, and not of expressions to its left -
\* unless the optimizer has moved the commit before their rows.
CommitCovers ==
  \A s \in Session : \A i \in 1 .. Len(list[s]) :
    Evaluated(s, i) /\ list[s][i].function = "commit" =>
      \A e \in Effect :
        /\ e[1] = s
        /\ \/ e[2] < number[s]
           \/ e[2] = number[s] /\ e[3] < i /\ (e[3] \in folded[s] \/ i \notin folded[s])
        => fate[e] # "pending"

\* A call that has looked its connection up works on an open one, whichever
\* session disconnects meanwhile; once it is closed nothing waits for a commit
\* that cannot come.
CallsFindItOpen ==
  /\ registered \/ holding # {} <=> open
  /\ open \/ \A e \in Effect : fate[e] # "pending"

=============================================================================
