------------------------ MODULE ScalarCalls_proofs ------------------------
(***************************************************************************)
(* Theorems about ScalarCalls, for every set of sessions, every select     *)
(* list and every number of queries, rows and attempts.                    *)
(***************************************************************************)
EXTENDS ScalarCalls, TLAPS

-----------------------------------------------------------------------------
(* The inductive invariant, in parts.                                      *)

\* Where a query can be: the optimizer is at the first row of an expression it
\* has not replaced yet, and the run has no attempt to remember.
Place ==
  \A s \in Session :
    /\ pc[s] # "idle" => outcome[s] = "none" /\ number[s] > 0
    /\ pc[s] = "planning" => row[s] = 1 /\ \A i \in folded[s] : i < item[s]
    /\ attempts[s] > 0 => pc[s] = "planning" /\ item[s] <= Len(list[s])
    /\ number[s] <= begun

\* Nothing has been done for a query that has not begun.
Fresh == \A e \in Effect : e[2] > number[e[1]] => times[e] = 0

IInv == TypeOK /\ Place /\ CallsFindItOpen /\ Fresh /\ EffectOnce /\ ExecutedIsEvaluated
        /\ CommitCovers

-----------------------------------------------------------------------------
(* Lemmas.                                                                 *)

LEMMA EvaluationsBound ==
  ASSUME TypeOK, NEW s \in Session, NEW i \in 1 .. Len(list[s])
  PROVE  Evaluations(s, i) \in 0 .. MaxRows
  BY BoundsAssumption DEF TypeOK, Evaluations, SelectList

LEMMA CurrentIsEffect ==
  ASSUME TypeOK, Place, NEW s \in Session, Evaluating(s)
  PROVE  /\ item[s] \in 1 .. Len(list[s]) /\ Len(list[s]) <= MaxItems
         /\ row[s] \in 1 .. MaxRows
         /\ number[s] \in 1 .. MaxQueries
         /\ Current(s) \in Effect
<1>1. item[s] \in 1 .. Len(list[s]) /\ Len(list[s]) \in Nat /\ Len(list[s]) <= MaxItems
  BY DEF TypeOK, Evaluating, SelectList
<1>2. row[s] \in 1 .. MaxRows
  <2>1. row[s] \in Nat \ {0}
    BY DEF TypeOK
  <2>2. CASE pc[s] = "planning"
    BY <2>2, BoundsAssumption DEF Place
  <2>3. CASE pc[s] # "planning"
    <3>1. row[s] <= Evaluations(s, item[s])
      BY <2>3 DEF Evaluating
    <3>2. Evaluations(s, item[s]) \in 0 .. MaxRows
      BY <1>1, EvaluationsBound
    <3> QED  BY <2>1, <3>1, <3>2, BoundsAssumption
  <2> QED  BY <2>2, <2>3
<1>3. number[s] \in 1 .. MaxQueries
  <2>1. number[s] > 0
    BY DEF Evaluating, Place
  <2>2. number[s] \in 0 .. MaxQueries
    BY DEF TypeOK
  <2> QED  BY <2>1, <2>2, BoundsAssumption
<1>4. item[s] \in 1 .. MaxItems
  BY <1>1, BoundsAssumption
<1> QED  BY <1>1, <1>2, <1>3, <1>4 DEF Current, Effect

\* The reference of a call is given up whatever it has made of the effects f.
LEMMA GiveUpType ==
  ASSUME TypeOK, NEW s \in Session, NEW f \in [Effect -> {"none", "pending", "stored", "discarded"}],
         GiveUp(s, f)
  PROVE  /\ holding' \subseteq Session
         /\ open' \in BOOLEAN
         /\ fate' \in [Effect -> {"none", "pending", "stored", "discarded"}]
         /\ \A e \in Effect : fate'[e] = "pending" => f[e] = "pending"
  BY DEF GiveUp, Lost, TypeOK

LEMMA EndedType ==
  ASSUME TypeOK, NEW way \in {"stored", "discarded"}
  PROVE  /\ Ended(way) \in [Effect -> {"none", "pending", "stored", "discarded"}]
         /\ \A e \in Effect : Ended(way)[e] # "pending"
  BY DEF Ended, TypeOK

-----------------------------------------------------------------------------
LEMMA InitIInv == Init => IInv
<1> SUFFICES ASSUME Init  PROVE IInv
  OBVIOUS
<1>1. TypeOK
  BY BoundsAssumption DEF Init, TypeOK, SelectList
<1> QED
  BY <1>1 DEF Init, IInv, Place, CallsFindItOpen, Fresh, EffectOnce, ExecutedIsEvaluated,
     CommitCovers, Evaluated, Passed, Effect

LEMMA TypeOKStep ==
  ASSUME TypeOK, Place, [Next]_vars
  PROVE  TypeOK'
<1> USE BoundsAssumption
<1>1. CASE UNCHANGED vars
  BY <1>1 DEF vars, TypeOK, Effect
<1> SUFFICES ASSUME Next  PROVE TypeOK'
  BY <1>1
<1> PICK s \in Session :
    \/ \E q \in Query : Begin(s, q[1], q[2])
    \/ NextItem(s) \/ Run(s) \/ PlanOnly(s) \/ Finish(s)
    \/ GetValidatedConnection(s)
    \/ ExecuteStatement(s) \/ Commit(s) \/ Rollback(s) \/ SetAutocommit(s)
    \/ Disconnect(s)
    \/ Throw(s)
  BY DEF Next
<1>2. ASSUME NEW q \in Query, Begin(s, q[1], q[2])  PROVE TypeOK'
  <2>1. q[1] \in SelectList /\ Len(q[1]) <= MaxItems /\ q[2] \in 0 .. MaxRows
    BY QueryAssumption
  <2>2. UNCHANGED remote /\ begun' \in 0 .. MaxQueries /\ number' \in [Session -> 0 .. MaxQueries]
    BY <1>2 DEF Begin, TypeOK
  <2>3. list' \in [Session -> SelectList] /\ rows' \in [Session -> 0 .. MaxRows]
    BY <1>2, <2>1 DEF Begin, TypeOK
  <2>4. \A t \in Session : Len(list'[t]) <= MaxItems
    BY <1>2, <2>1 DEF Begin, TypeOK
  <2>5. /\ pc' \in [Session -> {"idle", "planning", "running"}]
        /\ item' \in [Session -> Nat \ {0}] /\ row' \in [Session -> Nat \ {0}]
        /\ attempts' \in [Session -> 0 .. MaxAttempts]
        /\ outcome' \in [Session -> {"none", "planned", "returned", "failed"}]
    BY <1>2 DEF Begin, TypeOK
  <2>6. folded' \in [Session -> SUBSET (1 .. MaxItems)]
    BY <1>2 DEF Begin, TypeOK
  <2> QED  BY <2>2, <2>3, <2>4, <2>5, <2>6 DEF TypeOK, remote
<1>3. CASE NextItem(s) \/ Run(s) \/ PlanOnly(s) \/ Finish(s)
  <2>1. UNCHANGED <<remote, query, folded>>
    BY <1>3 DEF NextItem, Run, PlanOnly, Finish
  <2>2. /\ pc' \in [Session -> {"idle", "planning", "running"}]
        /\ outcome' \in [Session -> {"none", "planned", "returned", "failed"}]
    BY <1>3 DEF NextItem, Run, PlanOnly, Finish, TypeOK
  <2>3. item' \in [Session -> Nat \ {0}]
    <3>1. item' = item \/ item' = [item EXCEPT ![s] = 1] \/ item' = [item EXCEPT ![s] = item[s] + 1]
      BY <1>3 DEF NextItem, Run, PlanOnly, Finish
    <3>2. item[s] + 1 \in Nat \ {0} /\ 1 \in Nat \ {0} /\ item \in [Session -> Nat \ {0}]
      BY DEF TypeOK
    <3> QED  BY <3>1, <3>2
  <2>4. row' \in [Session -> Nat \ {0}]
    <3>1. row' = row \/ row' = [row EXCEPT ![s] = 1]
      BY <1>3 DEF NextItem, Run, PlanOnly, Finish
    <3>2. 1 \in Nat \ {0} /\ row \in [Session -> Nat \ {0}]
      BY DEF TypeOK
    <3> QED  BY <3>1, <3>2
  <2>5. attempts' \in [Session -> 0 .. MaxAttempts]
    <3>1. attempts' = attempts \/ attempts' = [attempts EXCEPT ![s] = 0]
      BY <1>3 DEF NextItem, Run, PlanOnly, Finish
    <3>2. 0 \in 0 .. MaxAttempts /\ attempts \in [Session -> 0 .. MaxAttempts]
      BY DEF TypeOK
    <3> QED  BY <3>1, <3>2
  <2> QED  BY <2>1, <2>2, <2>3, <2>4, <2>5 DEF TypeOK, remote, query
<1>4. CASE GetValidatedConnection(s)
  BY <1>4 DEF GetValidatedConnection, TypeOK, query, place
<1>5. ASSUME Evaluating(s), Returns(s), list' = list  PROVE
        /\ folded' \in [Session -> SUBSET (1 .. MaxItems)]
        /\ item' \in [Session -> Nat \ {0}]
        /\ row' \in [Session -> Nat \ {0}]
        /\ attempts' \in [Session -> 0 .. MaxAttempts]
        /\ UNCHANGED <<query, pc, outcome>>
  <2>1. item[s] \in 1 .. MaxItems
    BY <1>5, CurrentIsEffect
  <2>2. CASE pc[s] = "planning"
    <3>1. folded' = [folded EXCEPT ![s] = @ \cup {item[s]}] /\ UNCHANGED row
      BY <1>5, <2>2 DEF Returns
    <3>2. folded' \in [Session -> SUBSET (1 .. MaxItems)]
      BY <2>1, <3>1 DEF TypeOK
    <3>3. /\ item' = [item EXCEPT ![s] = item[s] + 1] /\ attempts' = [attempts EXCEPT ![s] = 0]
          /\ UNCHANGED <<query, pc, outcome>>
      BY <1>5, <2>2 DEF Returns
    <3>4. item' \in [Session -> Nat \ {0}]
      BY <3>3 DEF TypeOK
    <3>5. attempts' \in [Session -> 0 .. MaxAttempts]
      BY <3>3 DEF TypeOK
    <3> QED  BY <3>1, <3>2, <3>3, <3>4, <3>5 DEF TypeOK
  <2>3. CASE pc[s] # "planning"
    <3>1. row' \in [Session -> Nat \ {0}]
      BY <1>5, <2>3 DEF Returns, TypeOK
    <3> QED  BY <1>5, <2>3, <3>1 DEF Returns, TypeOK
  <2> QED  BY <2>2, <2>3
<1>6. CASE ExecuteStatement(s)
  <2>1. Evaluating(s) /\ Returns(s) /\ list' = list
    BY <1>6 DEF ExecuteStatement, Calls, Returns, query
  <2>2. Current(s) \in Effect
    BY <2>1, CurrentIsEffect
  <2>3. times' \in [Effect -> Nat]
    BY <1>6, <2>2 DEF ExecuteStatement, TypeOK
  <2> DEFINE f == [fate EXCEPT ![Current(s)] = IF autocommit THEN "stored" ELSE "pending"]
  <2>4. f \in [Effect -> {"none", "pending", "stored", "discarded"}]
    BY <2>2 DEF TypeOK
  <2>5. GiveUp(s, f) /\ UNCHANGED <<registered, autocommit>>
    BY <1>6 DEF ExecuteStatement
  <2> HIDE DEF f
  <2>6. /\ holding' \subseteq Session
        /\ open' \in BOOLEAN
        /\ fate' \in [Effect -> {"none", "pending", "stored", "discarded"}]
    BY <2>4, <2>5, GiveUpType
  <2> QED  BY <1>5, <2>1, <2>3, <2>5, <2>6 DEF TypeOK, query
<1>7. CASE Commit(s) \/ Rollback(s)
  <2>1. Evaluating(s) /\ Returns(s) /\ list' = list
    BY <1>7 DEF Commit, Rollback, Calls, Returns, query
  <2>2. PICK way \in {"stored", "discarded"} : GiveUp(s, Ended(way))
    BY <1>7 DEF Commit, Rollback
  <2>3. UNCHANGED <<registered, autocommit, times>>
    BY <1>7 DEF Commit, Rollback
  <2> QED  BY <1>5, <2>1, <2>2, <2>3, GiveUpType, EndedType DEF TypeOK, query
<1>8. CASE SetAutocommit(s)
  <2>1. Evaluating(s) /\ Returns(s) /\ list' = list
    BY <1>8 DEF SetAutocommit, Calls, Returns, query
  <2>2. GiveUp(s, Ended("stored")) \/ GiveUp(s, fate)
    BY <1>8 DEF SetAutocommit
  <2>3. UNCHANGED <<registered, times>> /\ autocommit' \in BOOLEAN
    BY <1>8 DEF SetAutocommit
  <2>4. /\ holding' \subseteq Session
        /\ open' \in BOOLEAN
        /\ fate' \in [Effect -> {"none", "pending", "stored", "discarded"}]
    BY <2>2, GiveUpType, EndedType DEF TypeOK
  <2> QED  BY <1>5, <2>1, <2>3, <2>4 DEF TypeOK, query
<1>9. CASE Disconnect(s)
  <2>1. Evaluating(s) /\ Returns(s) /\ list' = list
    BY <1>9 DEF Disconnect, Calls, Returns, query
  <2>2. /\ open' \in BOOLEAN /\ registered' \in BOOLEAN
        /\ fate' \in [Effect -> {"none", "pending", "stored", "discarded"}]
        /\ UNCHANGED <<autocommit, holding, times>>
    BY <1>9 DEF Disconnect, Lost, TypeOK
  <2> QED  BY <1>5, <2>1, <2>2 DEF TypeOK, query
<1>10. CASE Throw(s)
  <2>1. /\ holding' \subseteq Session
        /\ open' \in BOOLEAN
        /\ fate' \in [Effect -> {"none", "pending", "stored", "discarded"}]
    BY <1>10, GiveUpType DEF Throw, TypeOK
  <2>2. UNCHANGED <<registered, autocommit, times, query, item, row, folded>>
    BY <1>10 DEF Throw
  <2>3. /\ pc' \in [Session -> {"idle", "planning", "running"}]
        /\ outcome' \in [Session -> {"none", "planned", "returned", "failed"}]
    BY <1>10 DEF Throw, TypeOK
  <2>4. attempts' \in [Session -> 0 .. MaxAttempts]
    <3>1. CASE pc[s] = "planning"
      <4>1. attempts' = [attempts EXCEPT ![s] = attempts[s] + 1] /\ attempts[s] < MaxAttempts
        BY <1>10, <3>1 DEF Throw
      <4>2. attempts[s] + 1 \in 0 .. MaxAttempts
        BY <4>1 DEF TypeOK
      <4> QED  BY <4>1, <4>2 DEF TypeOK
    <3>2. CASE pc[s] # "planning"
      BY <1>10, <3>2 DEF Throw, TypeOK
    <3> QED  BY <3>1, <3>2
  <2> QED  BY <2>1, <2>2, <2>3, <2>4 DEF TypeOK, query
<1> QED  BY <1>2, <1>3, <1>4, <1>6, <1>7, <1>8, <1>9, <1>10

LEMMA PlaceStep ==
  ASSUME TypeOK, Place, [Next]_vars
  PROVE  Place'
<1>1. CASE UNCHANGED vars
  BY <1>1 DEF vars, Place
<1> SUFFICES ASSUME NEW s \in Session, NEW t \in Session,
               \/ \E q \in Query : Begin(s, q[1], q[2])
               \/ NextItem(s) \/ Run(s) \/ PlanOnly(s) \/ Finish(s)
               \/ GetValidatedConnection(s)
               \/ Evaluating(s) /\ Returns(s)
               \/ Throw(s)
             PROVE  /\ pc'[t] # "idle" => outcome'[t] = "none" /\ number'[t] > 0
                    /\ pc'[t] = "planning" => row'[t] = 1 /\ \A i \in folded'[t] : i < item'[t]
                    /\ attempts'[t] > 0 => pc'[t] = "planning" /\ item'[t] <= Len(list'[t])
                    /\ number'[t] <= begun'
  BY <1>1 DEF Next, ExecuteStatement, Commit, Rollback, SetAutocommit, Disconnect, Calls, Place
<1>2. CASE \E q \in Query : Begin(s, q[1], q[2])
  BY <1>2 DEF Begin, TypeOK, Place
<1>3. CASE NextItem(s)
  BY <1>3 DEF NextItem, TypeOK, Place, query
<1>4. CASE Run(s) \/ PlanOnly(s) \/ Finish(s)
  BY <1>4 DEF Run, PlanOnly, Finish, TypeOK, Place, query, SelectList
<1>5. CASE GetValidatedConnection(s)
  BY <1>5 DEF GetValidatedConnection, Place, query, place
<1>6. CASE Evaluating(s) /\ Returns(s)
  <2>1. UNCHANGED <<pc, outcome, number, begun, list>>
    BY <1>6 DEF Returns, query
  <2>2. CASE t # s
    BY <1>6, <2>1, <2>2 DEF Returns, TypeOK, Place
  <2>3. CASE t = s /\ pc[s] = "planning"
    <3>1. /\ folded'[s] = folded[s] \cup {item[s]} /\ item'[s] = item[s] + 1
          /\ attempts'[s] = 0 /\ row' = row
      BY <1>6, <2>3 DEF Returns, TypeOK
    <3>2. \A i \in folded'[s] : i < item'[s]
      BY <2>3, <3>1 DEF TypeOK, Place
    <3> QED  BY <2>1, <2>3, <3>1, <3>2 DEF Place
  <2>4. CASE t = s /\ pc[s] = "running"
    BY <1>6, <2>1, <2>4 DEF Returns, TypeOK, Place
  <2> QED  BY <1>6, <2>2, <2>3, <2>4 DEF Evaluating
<1>7. CASE Throw(s)
  BY <1>7 DEF Throw, Evaluating, TypeOK, Place, query
<1> QED  BY <1>2, <1>3, <1>4, <1>5, <1>6, <1>7

\* What any step does to the reference count, to the connection and to what is
\* pending.
LEMMA OpenStep ==
  ASSUME TypeOK, Place, CallsFindItOpen, [Next]_vars
  PROVE  CallsFindItOpen'
<1>1. CASE UNCHANGED vars
  BY <1>1 DEF vars, CallsFindItOpen
<1>2. ASSUME NEW s \in Session, NEW f \in [Effect -> {"none", "pending", "stored", "discarded"}],
             s \in holding, GiveUp(s, f), registered' = registered
      PROVE  CallsFindItOpen'
  <2>1. open
    BY <1>2 DEF CallsFindItOpen
  <2>2. CASE registered \/ holding # {s}
    BY <1>2, <2>1, <2>2 DEF GiveUp, CallsFindItOpen
  <2>3. CASE ~(registered \/ holding # {s})
    BY <1>2, <2>3 DEF GiveUp, CallsFindItOpen, Lost
  <2> QED  BY <2>2, <2>3
<1> SUFFICES ASSUME NEW s \in Session,
               \/ UNCHANGED remote
               \/ GetValidatedConnection(s)
               \/ ExecuteStatement(s) \/ Commit(s) \/ Rollback(s) \/ SetAutocommit(s)
               \/ Disconnect(s)
               \/ Throw(s)
             PROVE  CallsFindItOpen'
  BY <1>1 DEF Next, Begin, NextItem, Run, PlanOnly, Finish
<1>3. CASE UNCHANGED remote
  BY <1>3 DEF remote, CallsFindItOpen
<1>4. CASE GetValidatedConnection(s)
  BY <1>4 DEF GetValidatedConnection, CallsFindItOpen
<1>5. CASE ExecuteStatement(s)
  <2> DEFINE f == [fate EXCEPT ![Current(s)] = IF autocommit THEN "stored" ELSE "pending"]
  <2>1. f \in [Effect -> {"none", "pending", "stored", "discarded"}]
    BY DEF TypeOK
  <2>2. s \in holding /\ GiveUp(s, f) /\ registered' = registered
    BY <1>5 DEF ExecuteStatement
  <2> HIDE DEF f
  <2> QED  BY <1>2, <2>1, <2>2
<1>6. CASE Commit(s) \/ Rollback(s)
  <2>1. PICK way \in {"stored", "discarded"} : GiveUp(s, Ended(way))
    BY <1>6 DEF Commit, Rollback
  <2>2. s \in holding /\ registered' = registered
    BY <1>6 DEF Commit, Rollback
  <2> QED  BY <1>2, <2>1, <2>2, EndedType
<1>7. CASE SetAutocommit(s)
  <2>1. GiveUp(s, Ended("stored")) \/ GiveUp(s, fate)
    BY <1>7 DEF SetAutocommit
  <2>2. s \in holding /\ registered' = registered
    BY <1>7 DEF SetAutocommit
  <2>3. fate \in [Effect -> {"none", "pending", "stored", "discarded"}]
    BY DEF TypeOK
  <2> QED  BY <1>2, <2>1, <2>2, <2>3, EndedType
<1>8. CASE Disconnect(s)
  BY <1>8 DEF Disconnect, CallsFindItOpen, Lost
<1>9. CASE Throw(s)
  <2>1. fate \in [Effect -> {"none", "pending", "stored", "discarded"}] /\ registered' = registered
    BY <1>9 DEF TypeOK, Throw
  <2>2. CASE s \in holding
    BY <1>2, <1>9, <2>1, <2>2 DEF Throw
  <2>3. CASE s \notin holding
    BY <1>9, <2>3 DEF Throw, CallsFindItOpen
  <2> QED  BY <2>2, <2>3
<1> QED  BY <1>3, <1>4, <1>5, <1>6, <1>7, <1>8, <1>9

\* Effects: at most the current one takes place in a step.
LEMMA TimesStep ==
  ASSUME TypeOK, Place, [Next]_vars
  PROVE  \/ UNCHANGED times
         \/ \E s \in Session :
              /\ Calls(s, "execute") /\ ExecuteStatement(s)
              /\ Current(s) \in Effect
              /\ times' = [times EXCEPT ![Current(s)] = @ + 1]
<1>1. ASSUME NEW s \in Session, ExecuteStatement(s)  PROVE Current(s) \in Effect
  BY <1>1, CurrentIsEffect DEF ExecuteStatement, Calls
<1> QED
  BY <1>1 DEF Next, vars, Begin, NextItem, Run, PlanOnly, Finish, GetValidatedConnection, Commit,
     Rollback, SetAutocommit, Disconnect, Throw, ExecuteStatement, remote

LEMMA FreshStep ==
  ASSUME TypeOK, Place, Fresh, [Next]_vars
  PROVE  Fresh'
<1>1. number' = number \/ \E s \in Session : number' = [number EXCEPT ![s] = begun + 1]
  BY DEF Next, vars, Begin, NextItem, Run, PlanOnly, Finish, GetValidatedConnection, Commit,
     Rollback, SetAutocommit, Disconnect, Throw, ExecuteStatement, Returns, query
<1>2. \A s \in Session : number'[s] \in Nat /\ number[s] \in Nat /\ number'[s] >= number[s]
  BY <1>1, BoundsAssumption DEF TypeOK, Place
<1>3. CASE UNCHANGED times
  <2> SUFFICES ASSUME NEW e \in Effect, e[2] > number'[e[1]]  PROVE times'[e] = 0
    BY DEF Fresh
  <2>1. e[1] \in Session /\ e[2] \in Nat
    BY BoundsAssumption DEF Effect
  <2> QED  BY <1>2, <1>3, <2>1 DEF Fresh
<1>4. ASSUME NEW s \in Session, ExecuteStatement(s), Current(s) \in Effect,
             times' = [times EXCEPT ![Current(s)] = @ + 1]
      PROVE  Fresh'
  <2>1. number' = number
    BY <1>4 DEF ExecuteStatement, Returns, query
  <2>2. Current(s)[1] = s /\ Current(s)[2] = number[s]
    BY DEF Current
  <2>3. number[s] \in Nat
    BY BoundsAssumption DEF TypeOK
  <2> QED  BY <1>4, <2>1, <2>2, <2>3 DEF Fresh, TypeOK
<1> QED  BY <1>3, <1>4, TimesStep

\* A step of one session leaves the query of another alone.
LEMMA OthersUnchanged ==
  ASSUME TypeOK, NEW s \in Session, NEW t \in Session, t # s,
         \/ \E q \in Query : Begin(s, q[1], q[2])
         \/ NextItem(s) \/ Run(s) \/ PlanOnly(s) \/ Finish(s)
         \/ GetValidatedConnection(s)
         \/ ExecuteStatement(s) \/ Commit(s) \/ Rollback(s) \/ SetAutocommit(s)
         \/ Disconnect(s)
         \/ Throw(s)
  PROVE  /\ pc'[t] = pc[t] /\ list'[t] = list[t] /\ rows'[t] = rows[t] /\ item'[t] = item[t]
         /\ row'[t] = row[t] /\ folded'[t] = folded[t]
         /\ number'[t] = number[t] /\ outcome'[t] = outcome[t]
<1>1. CASE \E q \in Query : Begin(s, q[1], q[2])
  BY <1>1 DEF Begin, TypeOK
<1>2. CASE NextItem(s)
  BY <1>2 DEF NextItem, query, TypeOK
<1>3. CASE Run(s)
  BY <1>3 DEF Run, query, TypeOK
<1>4. CASE PlanOnly(s) \/ Finish(s)
  BY <1>4 DEF PlanOnly, Finish, query, TypeOK
<1>5. CASE GetValidatedConnection(s)
  BY <1>5 DEF GetValidatedConnection, query, place
<1>6. CASE Throw(s)
  <2>1. UNCHANGED <<list, rows, number, item, row, folded>>
    BY <1>6 DEF Throw, query
  <2>2. pc'[t] = pc[t] /\ outcome'[t] = outcome[t]
    BY <1>6 DEF Throw, TypeOK
  <2> QED  BY <2>1, <2>2
<1>7. CASE Returns(s)
  <2>1. UNCHANGED <<list, rows, number, pc, outcome>>
    BY <1>7 DEF Returns, query
  <2>2. item'[t] = item[t] /\ row'[t] = row[t] /\ folded'[t] = folded[t]
    BY <1>7 DEF Returns, TypeOK
  <2> QED  BY <2>1, <2>2
<1> QED
  BY <1>1, <1>2, <1>3, <1>4, <1>5, <1>6, <1>7 DEF ExecuteStatement, Commit, Rollback, SetAutocommit, Disconnect

LEMMA CurrentNotFolded ==
  ASSUME TypeOK, Place, NEW s \in Session, Evaluating(s)
  PROVE  item[s] \notin folded[s]
<1>1. CASE pc[s] = "planning"
  BY <1>1, CurrentIsEffect DEF Place
<1>2. CASE pc[s] # "planning"
  BY <1>2 DEF Evaluating
<1> QED  BY <1>1, <1>2

LEMMA CurrentNotDone ==
  ASSUME TypeOK, Place, ExecutedIsEvaluated, NEW s \in Session, Calls(s, "execute")
  PROVE  times[Current(s)] = 0 /\ item[s] \notin folded[s]
<1>1. Evaluating(s) /\ list[s][item[s]].function = "execute"
  BY DEF Calls
<1>2. /\ item[s] \in 1 .. Len(list[s]) /\ row[s] \in 1 .. MaxRows
      /\ number[s] \in 1 .. MaxQueries /\ Current(s) \in Effect
  BY <1>1, CurrentIsEffect
<1>3. item[s] \notin folded[s]
  BY <1>1, CurrentNotFolded
<1>4. ~Passed(s, item[s], row[s])
  BY <1>1, <1>2 DEF Passed, Evaluating, Place
<1>5. ~(times[Current(s)] > 0)
  BY <1>1, <1>2, <1>3, <1>4 DEF ExecutedIsEvaluated, Current
<1> QED  BY <1>2, <1>3, <1>5 DEF TypeOK

LEMMA EffectOnceStep ==
  ASSUME TypeOK, Place, ExecutedIsEvaluated, EffectOnce, [Next]_vars
  PROVE  EffectOnce'
<1>1. CASE UNCHANGED times
  BY <1>1 DEF EffectOnce
<1>2. ASSUME NEW s \in Session, Calls(s, "execute"), Current(s) \in Effect,
             times' = [times EXCEPT ![Current(s)] = @ + 1]
      PROVE  EffectOnce'
  <2>1. times[Current(s)] = 0
    BY <1>2, CurrentNotDone
  <2> QED  BY <1>2, <2>1 DEF EffectOnce, TypeOK
<1> QED  BY <1>1, <1>2, TimesStep

\* ExecutedIsEvaluated of one expression and one row of one session.
Executed(t, i, r) ==
  number[t] > 0 /\ list[t][i].function = "execute" =>
    (times[<<t, number[t], i, r>>] > 0 <=> Passed(t, i, r) /\ r <= Evaluations(t, i))

LEMMA ExecutedIsEvaluatedStep ==
  ASSUME TypeOK, Place, Fresh, ExecutedIsEvaluated, TypeOK', [Next]_vars
  PROVE  ExecutedIsEvaluated'
<1> USE BoundsAssumption
<1>1. CASE UNCHANGED vars
  BY <1>1 DEF vars, ExecutedIsEvaluated, Passed, Evaluations
<1> SUFFICES ASSUME NEW s \in Session,
               \/ \E q \in Query : Begin(s, q[1], q[2])
               \/ NextItem(s) \/ Run(s) \/ PlanOnly(s) \/ Finish(s)
               \/ GetValidatedConnection(s)
               \/ ExecuteStatement(s) \/ Commit(s) \/ Rollback(s) \/ SetAutocommit(s)
               \/ Disconnect(s)
               \/ Throw(s),
             NEW t \in Session, NEW i \in 1 .. Len(list'[t]) \ folded'[t], NEW r \in 1 .. MaxRows
             PROVE  Executed(t, i, r)'
  BY <1>1 DEF Next, ExecutedIsEvaluated, Executed
<1>2. CASE t # s
  <2>1. /\ pc'[t] = pc[t] /\ list'[t] = list[t] /\ rows'[t] = rows[t] /\ item'[t] = item[t]
        /\ row'[t] = row[t] /\ folded'[t] = folded[t]
        /\ number'[t] = number[t] /\ outcome'[t] = outcome[t]
    BY <1>2, OthersUnchanged
  <2>2. times'[<<t, number[t], i, r>>] = times[<<t, number[t], i, r>>]
    <3>1. CASE UNCHANGED times
      BY <3>1
    <3>2. CASE ExecuteStatement(s)
      BY <1>2, <3>2 DEF ExecuteStatement, Current, TypeOK
    <3> QED
      BY <3>1, <3>2 DEF Begin, NextItem, Run, PlanOnly, Finish, GetValidatedConnection,
         Commit, Rollback, SetAutocommit, Disconnect, Throw, remote
  <2>3. Executed(t, i, r)
    BY <2>1 DEF ExecutedIsEvaluated, Executed
  <2> QED  BY <2>1, <2>2, <2>3 DEF Executed, Passed, Evaluations
<1>3. CASE t = s /\ \E q \in Query : Begin(s, q[1], q[2])
  <2>1. /\ pc'[s] = "planning" /\ outcome'[s] = "none" /\ number'[s] = begun + 1
        /\ UNCHANGED times /\ begun < MaxQueries /\ number[s] <= begun
        /\ Len(list'[s]) <= MaxItems
    BY <1>3 DEF Begin, TypeOK, Place, remote
  <2>2. <<s, number'[s], i, r>> \in Effect /\ number'[s] > number[s]
    <3>1. Len(list'[s]) \in Nat /\ begun \in Nat /\ number[s] \in Nat
      BY DEF TypeOK, SelectList
    <3>2. i \in 1 .. MaxItems
      BY <1>3, <2>1, <3>1
    <3>3. number'[s] \in 1 .. MaxQueries /\ number'[s] > number[s]
      BY <2>1, <3>1
    <3> QED  BY <3>2, <3>3 DEF Effect
  <2>3. times[<<s, number'[s], i, r>>] = 0
    BY <2>2 DEF Fresh
  <2> QED  BY <1>3, <2>1, <2>3 DEF Executed, Passed
<1>4. ASSUME t = s, UNCHANGED <<times, list, rows, number, folded>>,
             Passed(s, i, r)' /\ r <= Evaluations(s, i) <=> Passed(s, i, r) /\ r <= Evaluations(s, i)
      PROVE  Executed(t, i, r)'
  <2>1. Executed(s, i, r)
    BY <1>4 DEF ExecutedIsEvaluated, Executed
  <2> QED  BY <1>4, <2>1 DEF Executed, Evaluations
<1>5. CASE t = s /\ NextItem(s)
  <2>1. UNCHANGED <<times, list, rows, number, folded, pc, outcome>>
        /\ item'[s] = item[s] + 1 /\ row'[s] = 1
    BY <1>5 DEF NextItem, query, remote, TypeOK
  <2>2. CASE pc[s] = "planning"
    BY <1>4, <1>5, <2>1, <2>2 DEF Passed, Place
  <2>3. CASE pc[s] = "running"
    <3>1. item[s] \in folded[s] \/ row[s] > Evaluations(s, item[s])
      <4>1. item[s] <= Len(list[s]) /\ item[s] \in Nat \ {0} /\ row[s] \in Nat /\ Len(list[s]) \in Nat
        BY <1>5 DEF NextItem, TypeOK, SelectList
      <4>2. Evaluations(s, item[s]) \in 0 .. MaxRows
        BY <4>1, EvaluationsBound
      <4>3. ~(attempts[s] > 0)
        BY <2>3 DEF Place
      <4>4. ~Evaluating(s)
        BY <1>5, <4>3 DEF NextItem
      <4> QED  BY <2>3, <4>1, <4>2, <4>4 DEF Evaluating
    <3>2. i \notin folded[s] /\ i \in Nat /\ item[s] \in Nat /\ row[s] \in Nat \ {0}
      BY <1>5, <2>1 DEF TypeOK
    <3>3. i \in 1 .. Len(list[s])
      BY <1>5, <2>1
    <3>4. Evaluations(s, i) \in 0 .. MaxRows
      BY <3>3, EvaluationsBound
    <3>5. Passed(s, i, r) <=> i < item[s] \/ (i = item[s] /\ r < row[s])
      BY <2>3 DEF Passed
    <3>6. Passed(s, i, r)' <=> i < item[s] + 1 \/ (i = item[s] + 1 /\ r < 1)
      BY <2>1, <2>3 DEF Passed
    <3> QED  BY <1>4, <1>5, <2>1, <3>1, <3>2, <3>4, <3>5, <3>6
  <2> QED  BY <1>5, <2>2, <2>3 DEF NextItem, TypeOK
<1>6. CASE t = s /\ (Run(s) \/ PlanOnly(s) \/ Finish(s))
  <2>1. UNCHANGED <<times, list, rows, number, folded>>
    BY <1>6 DEF Run, PlanOnly, Finish, query, remote
  <2>2. Passed(s, i, r)' <=> Passed(s, i, r)
    <3>1. CASE Run(s)
      <4>1. item'[s] = 1 /\ row'[s] = 1 /\ pc[s] = "planning" /\ outcome[s] = "none"
        BY <3>1 DEF Run, Place, TypeOK
      <4>2. i \in Nat \ {0} /\ r \in Nat \ {0}
        OBVIOUS
      <4> QED  BY <4>1, <4>2 DEF Passed
    <3>2. CASE PlanOnly(s)
      <4>1. pc[s] = "planning" /\ outcome[s] = "none" /\ pc'[s] = "idle" /\ outcome'[s] = "planned"
        BY <3>2 DEF PlanOnly, Place, TypeOK
      <4> QED  BY <4>1 DEF Passed
    <3>3. CASE Finish(s)
      <4>1. /\ pc[s] = "running" /\ outcome'[s] = "returned"
            /\ item' = item /\ row' = row
        BY <3>3 DEF Finish, Place, TypeOK
      <4> QED  BY <4>1 DEF Passed
    <3> QED  BY <1>6, <3>1, <3>2, <3>3
  <2> QED  BY <1>4, <1>6, <2>1, <2>2
<1>7. CASE t = s /\ GetValidatedConnection(s)
  BY <1>4, <1>7 DEF GetValidatedConnection, query, place, Passed
<1>8. CASE t = s /\ Throw(s)
  <2>1. UNCHANGED <<times, list, rows, number, folded, item, row>>
    BY <1>8 DEF Throw, query
  <2>2. Passed(s, i, r)' <=> Passed(s, i, r)
    BY <1>8, <2>1 DEF Throw, Passed, Place, TypeOK, Evaluating
  <2> QED  BY <1>4, <1>8, <2>1, <2>2
<1>9. CASE t = s /\ ExecuteStatement(s)
  <2>1. Calls(s, "execute") /\ Evaluating(s) /\ Returns(s)
    BY <1>9 DEF ExecuteStatement, Calls
  <2>2. /\ item[s] \in 1 .. Len(list[s]) /\ row[s] \in 1 .. MaxRows /\ Current(s) \in Effect
        /\ item[s] \notin folded[s]
    BY <2>1, CurrentIsEffect, CurrentNotDone
  <2>3. /\ times' = [times EXCEPT ![Current(s)] = @ + 1]
        /\ UNCHANGED <<list, rows, number, pc, outcome>>
    BY <1>9 DEF ExecuteStatement, Returns, query
  <2>4. times'[Current(s)] > 0
    <3>1. times[Current(s)] \in Nat /\ times'[Current(s)] = times[Current(s)] + 1
      BY <2>2, <2>3 DEF TypeOK
    <3> QED  BY <3>1
  <2>5. CASE pc[s] = "planning"
    <3>1. folded'[s] = folded[s] \cup {item[s]}
      BY <2>1, <2>5 DEF Returns, TypeOK
    <3>2. i # item[s] /\ i \in 1 .. Len(list[s]) \ folded[s]
      BY <1>9, <2>3, <3>1
    <3>3. times'[<<s, number[s], i, r>>] = times[<<s, number[s], i, r>>]
      BY <2>3, <3>2 DEF Current, TypeOK
    <3>4. Executed(s, i, r) /\ ~Passed(s, i, r) /\ ~Passed(s, i, r)'
      BY <2>3, <2>5, <3>2 DEF ExecutedIsEvaluated, Executed, Passed, Place
    <3> QED  BY <1>9, <2>3, <3>3, <3>4 DEF Executed
  <2>6. CASE pc[s] = "running"
    <3>1. UNCHANGED <<folded, item>> /\ row'[s] = row[s] + 1
      BY <2>1, <2>6 DEF Returns, TypeOK
    <3>2. i \in 1 .. Len(list[s]) \ folded[s]
      BY <1>9, <2>3, <3>1
    <3>3. Executed(s, i, r)
      BY <3>2 DEF ExecutedIsEvaluated, Executed
    <3>4. CASE i = item[s] /\ r = row[s]
      <4>1. Passed(s, i, r)'
        BY <2>2, <2>3, <2>6, <3>1, <3>4 DEF Passed
      <4>2. r <= Evaluations(s, i)
        BY <2>1, <2>6, <3>4 DEF Evaluating
      <4> QED  BY <1>9, <2>3, <2>4, <3>4, <4>1, <4>2 DEF Executed, Current, Evaluations
    <3>5. CASE ~(i = item[s] /\ r = row[s])
      <4>1. times'[<<s, number[s], i, r>>] = times[<<s, number[s], i, r>>]
        BY <2>3, <3>5 DEF Current, TypeOK
      <4>2. Passed(s, i, r)' <=> Passed(s, i, r)
        BY <2>2, <2>3, <2>6, <3>1, <3>5 DEF Passed
      <4> QED  BY <1>9, <2>3, <3>3, <4>1, <4>2 DEF Executed, Evaluations
    <3> QED  BY <3>4, <3>5
  <2> QED  BY <2>1, <2>5, <2>6 DEF Evaluating
<1>10. CASE t = s /\ (Commit(s) \/ Rollback(s) \/ SetAutocommit(s) \/ Disconnect(s))
  <2>1. Evaluating(s) /\ Returns(s) /\ UNCHANGED times /\ list[s][item[s]].function # "execute"
    BY <1>10 DEF Commit, Rollback, SetAutocommit, Disconnect, Calls
  <2>2. UNCHANGED <<list, rows, number, pc, outcome>>
    BY <2>1 DEF Returns, query
  <2>3. CASE pc[s] = "planning"
    <3>1. i \in 1 .. Len(list[s]) \ folded[s]
      BY <1>10, <2>1, <2>2, <2>3 DEF Returns, TypeOK
    <3>2. Executed(s, i, r) /\ ~Passed(s, i, r) /\ ~Passed(s, i, r)'
      BY <2>2, <2>3, <3>1 DEF ExecutedIsEvaluated, Executed, Passed, Place
    <3> QED  BY <1>10, <2>1, <2>2, <3>2 DEF Executed
  <2>4. CASE pc[s] = "running"
    <3>1. UNCHANGED <<folded, item>> /\ row'[s] = row[s] + 1
      BY <2>1, <2>4 DEF Returns, TypeOK
    <3>2. Executed(s, i, r)
      BY <1>10, <2>2, <3>1 DEF ExecutedIsEvaluated, Executed
    <3>3. CASE i = item[s]
      BY <1>10, <2>1, <2>2, <3>3 DEF Executed
    <3>4. CASE i # item[s]
      BY <1>10, <2>1, <2>2, <3>1, <3>2, <3>4 DEF Executed, Passed, Evaluations
    <3> QED  BY <3>3, <3>4
  <2> QED  BY <2>1, <2>3, <2>4 DEF Evaluating
<1> QED  BY <1>2, <1>3, <1>5, <1>6, <1>7, <1>8, <1>9, <1>10

\* A step makes at most the current effect pending.
LEMMA FateStep ==
  ASSUME TypeOK, Place, [Next]_vars, NEW e \in Effect, fate'[e] = "pending", fate[e] # "pending"
  PROVE  \E s \in Session : Calls(s, "execute") /\ ExecuteStatement(s) /\ e = Current(s)
<1>1. ASSUME NEW s \in Session, NEW f \in [Effect -> {"none", "pending", "stored", "discarded"}],
             GiveUp(s, f), f[e] # "pending"
      PROVE  FALSE
  BY <1>1, GiveUpType
<1>2. fate # fate' /\ fate \in [Effect -> {"none", "pending", "stored", "discarded"}]
  BY DEF TypeOK
<1> PICK s \in Session :
      \/ ExecuteStatement(s) \/ Commit(s) \/ Rollback(s) \/ SetAutocommit(s)
      \/ Disconnect(s) \/ Throw(s)
  BY <1>2 DEF Next, vars, Begin, NextItem, Run, PlanOnly, Finish, GetValidatedConnection, remote
<1>3. CASE ExecuteStatement(s)
  <2> DEFINE f == [fate EXCEPT ![Current(s)] = IF autocommit THEN "stored" ELSE "pending"]
  <2>1. f \in [Effect -> {"none", "pending", "stored", "discarded"}] /\ GiveUp(s, f)
        /\ Calls(s, "execute")
    BY <1>3 DEF TypeOK, ExecuteStatement
  <2>2. f[e] = "pending"
    <3> HIDE DEF f
    <3> QED  BY <1>1, <2>1
  <2>3. e = Current(s)
    BY <2>2, <1>2
  <2> QED  BY <1>3, <2>1, <2>3
<1>4. CASE Commit(s) \/ Rollback(s)
  <2>1. PICK way \in {"stored", "discarded"} : GiveUp(s, Ended(way))
    BY <1>4 DEF Commit, Rollback
  <2> QED  BY <1>1, <2>1, EndedType
<1>5. CASE SetAutocommit(s)
  <2>1. GiveUp(s, Ended("stored")) \/ GiveUp(s, fate)
    BY <1>5 DEF SetAutocommit
  <2> QED  BY <1>1, <1>2, <2>1, EndedType
<1>6. CASE Disconnect(s)
  BY <1>2, <1>6 DEF Disconnect, Lost
<1>7. CASE Throw(s)
  BY <1>1, <1>2, <1>7 DEF Throw
<1> QED  BY <1>3, <1>4, <1>5, <1>6, <1>7

\* What a commit at expression i of the last query of t must have settled.
Covered(t, i, e) ==
  /\ e[1] = t
  /\ \/ e[2] < number[t]
     \/ e[2] = number[t] /\ e[3] < i /\ (e[3] \in folded[t] \/ i \notin folded[t])

LEMMA CommitCoversStep ==
  ASSUME TypeOK, Place, CommitCovers, TypeOK', [Next]_vars
  PROVE  CommitCovers'
<1> USE BoundsAssumption
<1>1. CASE UNCHANGED vars
  BY <1>1 DEF vars, CommitCovers, Evaluated, Passed, Evaluations
<1> SUFFICES ASSUME NEW s \in Session,
               \/ \E q \in Query : Begin(s, q[1], q[2])
               \/ NextItem(s) \/ Run(s) \/ PlanOnly(s) \/ Finish(s)
               \/ GetValidatedConnection(s)
               \/ ExecuteStatement(s) \/ Commit(s) \/ Rollback(s) \/ SetAutocommit(s)
               \/ Disconnect(s)
               \/ Throw(s),
             NEW t \in Session, NEW i \in 1 .. Len(list'[t]),
             Evaluated(t, i)', list'[t][i].function = "commit",
             NEW e \in Effect, Covered(t, i, e)'
             PROVE  fate'[e] # "pending"
  BY <1>1 DEF Next, CommitCovers, Covered
<1> SUFFICES ASSUME fate'[e] = "pending"  PROVE FALSE
  OBVIOUS
<1>2. CASE Commit(s)
  <2>1. Ended("stored")[e] # "pending" /\ GiveUp(s, Ended("stored"))
    BY <1>2, EndedType DEF Commit
  <2> QED  BY <2>1, GiveUpType, EndedType
<1> SUFFICES ASSUME ~Commit(s)  PROVE FALSE
  BY <1>2
<1>3. ASSUME Evaluated(t, i), i \in 1 .. Len(list[t]), list[t][i].function = "commit",
             Covered(t, i, e)
      PROVE  FALSE
  <2>1. fate[e] # "pending"
    BY <1>3 DEF CommitCovers, Covered
  <2>2. PICK u \in Session : Calls(u, "execute") /\ e = Current(u)
    BY <2>1, FateStep
  <2>3. /\ u = t /\ e[2] = number[t] /\ e[3] = item[t]
    BY <1>3, <2>2 DEF Current, Covered
  <2>4. number[t] \in Nat /\ item[t] \in Nat /\ i \in Nat
    BY <1>3 DEF TypeOK
  <2>5. Evaluating(t) /\ item[t] \notin folded[t]
    BY <2>2, <2>3, CurrentNotFolded DEF Calls
  <2>6. item[t] < i /\ i \notin folded[t]
    BY <1>3, <2>3, <2>4, <2>5 DEF Covered
  <2>7. Passed(t, i, 1)
    BY <1>3, <2>6 DEF Evaluated
  <2> QED  BY <2>4, <2>5, <2>6, <2>7 DEF Passed, Evaluating, Place
<1>4. CASE t # s
  <2>1. /\ pc'[t] = pc[t] /\ list'[t] = list[t] /\ rows'[t] = rows[t] /\ item'[t] = item[t]
        /\ row'[t] = row[t] /\ folded'[t] = folded[t]
        /\ number'[t] = number[t] /\ outcome'[t] = outcome[t]
    BY <1>4, OthersUnchanged
  <2> QED  BY <1>3, <2>1 DEF Evaluated, Passed, Evaluations, Covered
<1> SUFFICES ASSUME t = s  PROVE FALSE
  BY <1>4
<1>5. CASE \E q \in Query : Begin(s, q[1], q[2])
  <2>1. pc'[s] = "planning" /\ outcome'[s] = "none" /\ folded'[s] = {}
    BY <1>5 DEF Begin, TypeOK
  <2> QED  BY <2>1 DEF Evaluated, Passed
<1>6. ASSUME UNCHANGED <<list, rows, number, folded>>,
             Passed(s, i, 1)' /\ Evaluations(s, i) > 0 => Evaluated(s, i)
      PROVE  FALSE
  BY <1>3, <1>6 DEF Evaluated, Evaluations, Covered
<1>7. CASE NextItem(s)
  <2>1. UNCHANGED <<list, rows, number, folded, pc, outcome>>
        /\ item'[s] = item[s] + 1 /\ row'[s] = 1
    BY <1>7 DEF NextItem, query, TypeOK
  <2>2. CASE pc[s] = "planning"
    BY <1>6, <2>1, <2>2 DEF Passed, Place
  <2>3. CASE pc[s] = "running"
    <3>1. /\ item[s] <= Len(list[s]) /\ item[s] \in Nat \ {0} /\ row[s] \in Nat \ {0}
          /\ Len(list[s]) \in Nat
      BY <1>7 DEF NextItem, TypeOK, SelectList
    <3>2. Evaluations(s, item[s]) \in 0 .. MaxRows
      BY <3>1, EvaluationsBound
    <3>3. ~Evaluating(s)
      BY <1>7, <2>3 DEF NextItem, Place
    <3>4. item[s] \in folded[s] \/ row[s] > Evaluations(s, item[s])
      BY <2>3, <3>1, <3>2, <3>3 DEF Evaluating
    <3>5. Passed(s, i, 1) <=> i < item[s] \/ (i = item[s] /\ 1 < row[s])
      BY <2>3 DEF Passed
    <3>6. Passed(s, i, 1)' <=> i < item[s] + 1 \/ (i = item[s] + 1 /\ 1 < 1)
      BY <2>1, <2>3 DEF Passed
    <3>7. i \in Nat
      OBVIOUS
    <3> QED  BY <1>6, <2>1, <3>1, <3>2, <3>4, <3>5, <3>6, <3>7 DEF Evaluated
  <2> QED  BY <1>7, <2>2, <2>3 DEF NextItem, TypeOK
<1>8. CASE Run(s)
  <2>1. item'[s] = 1 /\ row'[s] = 1 /\ UNCHANGED <<list, rows, number, folded>>
    BY <1>8 DEF Run, Place, TypeOK, query
  <2>2. ~Passed(s, i, 1)'
    BY <2>1 DEF Passed
  <2> QED  BY <1>6, <2>1, <2>2
<1>9. CASE PlanOnly(s)
  <2>1. /\ pc'[s] = "idle" /\ outcome'[s] = "planned"
        /\ UNCHANGED <<list, rows, number, folded>>
    BY <1>9 DEF PlanOnly, TypeOK, query
  <2> QED  BY <1>6, <2>1 DEF Passed
<1>10. CASE Finish(s)
  <2>1. pc[s] = "running" /\ UNCHANGED <<list, rows, number, folded, item, row>>
    BY <1>10 DEF Finish, query
  <2> QED  BY <1>6, <2>1 DEF Passed, Evaluated
<1>11. CASE GetValidatedConnection(s)
  BY <1>6, <1>11 DEF GetValidatedConnection, query, place, Passed, Evaluated
<1>12. CASE Throw(s)
  <2>1. UNCHANGED <<list, rows, number, folded, item, row>>
    BY <1>12 DEF Throw, query
  <2>2. Passed(s, i, 1)' => Passed(s, i, 1)
    BY <1>12, <2>1 DEF Throw, Passed, Place, TypeOK, Evaluating
  <2> QED  BY <1>6, <2>1, <2>2 DEF Evaluated
<1>13. CASE ExecuteStatement(s) \/ Rollback(s) \/ SetAutocommit(s) \/ Disconnect(s)
  <2>1. Evaluating(s) /\ Returns(s) /\ list[s][item[s]].function # "commit"
    BY <1>13 DEF ExecuteStatement, Rollback, SetAutocommit, Disconnect, Calls
  <2>2. UNCHANGED <<list, rows, number, pc, outcome>>
    BY <2>1 DEF Returns, query
  <2>3. i # item[s] /\ i \in Nat /\ item[s] \in Nat
    <3>1. list[s][i].function = "commit"
      BY <2>2
    <3>2. item[s] \in Nat
      BY DEF TypeOK
    <3> QED  BY <2>1, <3>1, <3>2
  <2>4. CASE pc[s] = "planning"
    <3>1. folded'[s] = folded[s] \cup {item[s]}
      BY <2>1, <2>4 DEF Returns, TypeOK
    <3>2. ~Passed(s, i, 1)'
      BY <2>2, <2>4 DEF Passed, Place
    <3>3. i \in folded[s] /\ i < item[s]
      BY <2>3, <2>4, <3>1, <3>2 DEF Evaluated, Place
    <3>4. e[3] \in Nat
      BY DEF Effect
    <3>5. Covered(s, i, e)
      BY <2>2, <2>3, <3>1, <3>3, <3>4 DEF Covered
    <3> QED  BY <1>3, <2>2, <3>3, <3>5 DEF Evaluated
  <2>5. CASE pc[s] = "running"
    <3>1. UNCHANGED <<folded, item>> /\ row'[s] = row[s] + 1
      BY <2>1, <2>5 DEF Returns, TypeOK
    <3>2. Passed(s, i, 1)' => Passed(s, i, 1)
      BY <2>2, <2>3, <2>5, <3>1 DEF Passed
    <3> QED  BY <1>6, <2>2, <3>1, <3>2 DEF Evaluated
  <2> QED  BY <2>1, <2>4, <2>5 DEF Evaluating
<1> QED  BY <1>5, <1>7, <1>8, <1>9, <1>10, <1>11, <1>12, <1>13

-----------------------------------------------------------------------------
LEMMA InvariantStep == IInv /\ [Next]_vars => IInv'
  BY TypeOKStep, PlaceStep, OpenStep, FreshStep, EffectOnceStep, ExecutedIsEvaluatedStep,
     CommitCoversStep DEF IInv

LEMMA Invariance == Spec => []IInv
  BY InitIInv, InvariantStep, PTL DEF Spec

\* Every variable of a query and of the connection has a value it may have.
THEOREM TypeCorrect == Spec => []TypeOK
  BY Invariance, PTL DEF IInv

\* A call that has its connection works on an open one, and a closed one has
\* nothing left to commit, whoever calls adbc_disconnect and when.
THEOREM CallsFindItOpenTheorem == Spec => []CallsFindItOpen
  BY Invariance, PTL DEF IInv

\* A statement takes effect once for each row it is evaluated for, whether the
\* optimizer, after failed attempts or not, or the run executes it.
THEOREM EffectOnceTheorem == Spec => []EffectOnce
  BY Invariance, PTL DEF IInv

\* What has been executed of a query is exactly what its run has got past.
THEOREM ExecutedIsEvaluatedTheorem == Spec => []ExecutedIsEvaluated
  BY Invariance, PTL DEF IInv

\* A commit that returned has settled what its session executed before it.
THEOREM CommitCoversTheorem == Spec => []CommitCovers
  BY Invariance, PTL DEF IInv
=============================================================================
