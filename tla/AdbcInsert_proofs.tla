------------------------- MODULE AdbcInsert_proofs -------------------------
(***************************************************************************)
(* Theorems about AdbcInsert, for every number of source rows, every set   *)
(* of chunk sizes, every queue depth and both kinds of driver.             *)
(***************************************************************************)
EXTENDS AdbcInsert, TLAPS

-----------------------------------------------------------------------------
(* The inductive invariant, in parts.                                      *)

\* Where the two threads are, and what has been signalled.
Control ==
  /\ producer = "init" => consumer = "none" /\ reported = NoCount /\ thrown = "none"
  /\ producer \in {"ready", "adding", "blocked", "added", "refused", "joining"}
       => joinable /\ stream_bound /\ reported = NoCount /\ thrown = "none"
  /\ producer \in {"succeeded", "destroyed"} => ~joinable
  /\ joinable => consumer # "none"
  /\ ~joinable => consumer \in {"none", "exited"}
  /\ finished => producer \in {"joining", "succeeded", "failed", "destroying", "destroyed"}
  /\ finished /\ joinable => producer = "joining"
  /\ producer = "joining" => finished
  /\ aborted => producer \in {"destroying", "destroyed"}
  /\ producer = "destroying" /\ joinable => aborted
  /\ consumer_stopped <=> consumer = "exited"
  /\ consumer = "eos" => finished /\ ~aborted /\ pending_batches = <<>>
  /\ consumer = "broken" => aborted

\* What ExecuteUpdate left behind for Finalize and for AddBatch's caller.
Verdict ==
  /\ exec_ok => /\ consumer \in {"returning", "exited"}
                /\ finished /\ pending_batches = <<>> /\ remote = read
  /\ consumer \in {"returning", "exited"} /\ ~exec_ok => exec_error # "none"
  /\ consumer_error = IF consumer = "exited" THEN exec_error ELSE "none"
  /\ consumer_error # "terminated" /\ exec_error # "terminated"
  /\ thrown # "terminated"
  /\ producer = "refused" => consumer_error # "none"
  /\ producer = "failed" => thrown # "none"
  /\ exec_ok => joinable \/ reported # NoCount
  /\ Transactional /\ ~exec_ok => remote = 0

\* Rows given to the extension, handed to the stream and counted.
Count ==
  /\ producer = "init" => source = 0
  /\ producer \in {"init", "ready", "joining", "succeeded"} => input = 0
  /\ producer \in {"adding", "blocked", "added", "refused"} => input > 0
  /\ source = rows_inserted + input
  /\ reported # NoCount => /\ reported = rows_inserted /\ input = 0 /\ remote = source
                           /\ exec_ok /\ ~joinable /\ consumer = "exited"

\* Nothing is read that was not supplied, nothing stored that was not read.
Within ==
  /\ read <= source /\ remote <= read
  /\ \A i \in 1..Len(pending_batches) : pending_batches[i].to <= source

IInv ==
  /\ TypeOK /\ Control /\ Verdict /\ Count /\ Within
  /\ NoLostWakeup /\ QueueBounded /\ RowsFlowInOrder

-----------------------------------------------------------------------------
(* Lemmas about the operators the actions are built from.                  *)

\* ResolveMaxPendingBatches never yields an empty queue: a negative or zero
\* override and a useless environment setting fall through to the default.
LEMMA DepthIsPositive == max_batches \in Nat /\ max_batches > 0
  BY InsertAssumption DEF max_batches, ResolveMaxPendingBatches

\* The reasons an exception may have are reasons.
LEMMA ErrorValues ==
  /\ "none" \in Error /\ "setup" \in Error /\ "cancelled" \in Error
  /\ "driver" \in Error /\ "aborted" \in Error /\ "terminated" \in Error
  BY DEF Error

\* A batch built from a non-empty chunk is an interval of source rows.
LEMMA BatchIsBatch ==
  ASSUME TypeOK, input > 0
  PROVE  batch \in Batch
  BY DEF TypeOK, batch, Batch

-----------------------------------------------------------------------------
(* The invariant holds initially, and each part survives every step.       *)

LEMMA InitIInv == Init => IInv
  <1> SUFFICES ASSUME Init PROVE IInv
    OBVIOUS
  <1>1. TypeOK
    <2>1. pending_batches \in Seq(Batch) /\ freed \subseteq Batch
      BY DEF Init
    <2>2. consumer_error \in Error /\ exec_error \in Error /\ thrown \in Error
      BY ErrorValues DEF Init
    <2>3. reported \in Nat \cup {NoCount}
      BY DEF Init
    <2>4. /\ rows_inserted \in Nat /\ source \in Nat /\ input \in Nat /\ input <= source
          /\ read \in Nat /\ remote \in Nat
      BY DEF Init
    <2> QED
      BY <2>1, <2>2, <2>3, <2>4 DEF Init, TypeOK
  <1>2. Control /\ Verdict /\ Count /\ NoLostWakeup
    BY DEF Init, Control, Verdict, Count, NoLostWakeup
  <1>3. QueueBounded /\ RowsFlowInOrder /\ Within
    BY DepthIsPositive DEF Init, QueueBounded, RowsFlowInOrder, Handed, Within
  <1> QED
    BY <1>1, <1>2, <1>3 DEF IInv

LEMMA TypeStep == IInv /\ [Next]_vars => TypeOK'
  <1> SUFFICES ASSUME IInv, [Next]_vars PROVE TypeOK'
    OBVIOUS
  <1> USE DEF IInv, stream, exec, engine, driver, TypeOK
  <1>1. CASE AdbcInsertInitGlobal
    BY <1>1 DEF AdbcInsertInitGlobal
  <1>2. CASE AdbcInsertInitGlobalThrows
    BY <1>2, ErrorValues DEF AdbcInsertInitGlobalThrows
  <1>3. CASE AdbcInsertInOutEmpty
    BY <1>3 DEF AdbcInsertInOutEmpty, vars
  <1>4. ASSUME NEW n \in ChunkSizes, AdbcInsertInOut(n) PROVE TypeOK'
    BY <1>4, InsertAssumption DEF AdbcInsertInOut
  <1>5. CASE AdbcInsertFinalize
    BY <1>5 DEF AdbcInsertFinalize, NotifyNotEmpty
  <1>6. CASE EngineCancel
    BY <1>6, ErrorValues DEF EngineCancel
  <1>7. CASE AddBatchWait
    BY <1>7 DEF AddBatchWait
  <1>8. CASE AddBatchRefused
    <2>1. batch \in Batch
      BY <1>8, BatchIsBatch DEF AddBatchRefused, Count
    <2> QED
      BY <1>8, <2>1 DEF AddBatchRefused
  <1>9. CASE AddBatchPush
    <2>1. batch \in Batch
      BY <1>9, BatchIsBatch DEF AddBatchPush, Count
    <2>2. pending_batches' \in Seq(Batch)
      BY <1>9, <2>1 DEF AddBatchPush
    <2> QED
      BY <1>9, <2>2 DEF AddBatchPush, NotifyNotEmpty
  <1>10. CASE AdbcInsertInOutReturn
    BY <1>10 DEF AdbcInsertInOutReturn
  <1>11. CASE AdbcInsertInOutThrow
    BY <1>11, ErrorValues DEF AdbcInsertInOutThrow
  <1>12. CASE AdbcInsertFinalizeReturn
    BY <1>12, ErrorValues DEF AdbcInsertFinalizeReturn, Joined
  <1>13. CASE DestroyAbort
    BY <1>13 DEF DestroyAbort, NotifyNotEmpty
  <1>14. CASE DestroyJoin
    <2>1. {pending_batches[i] : i \in DOMAIN pending_batches} \subseteq Batch
      OBVIOUS
    <2>2. pending_batches' \in Seq(Batch)
      BY <1>14 DEF DestroyJoin
    <2> QED
      BY <1>14, <2>1, <2>2 DEF DestroyJoin
  <1>15. CASE DriverGetSchema
    BY <1>15 DEF DriverGetSchema
  <1>16. CASE DriverCallsGetNext
    BY <1>16 DEF DriverCallsGetNext
  <1>17. CASE DriverWrites
    BY <1>17 DEF DriverWrites
  <1>18. CASE GetNextWait
    BY <1>18 DEF GetNextWait
  <1>19. CASE GetNextAborted
    BY <1>19 DEF GetNextAborted
  <1>20. CASE GetNextEnd
    BY <1>20 DEF GetNextEnd
  <1>21. CASE GetNextBatch
    <2>1. Head(pending_batches) \in Batch /\ Tail(pending_batches) \in Seq(Batch)
      BY <1>21 DEF GetNextBatch
    <2>2. Head(pending_batches).to \in Nat
      BY <2>1 DEF Batch
    <2> QED
      BY <1>21, <2>1, <2>2 DEF GetNextBatch, NotifyNotFull
  <1>22. CASE ExecuteUpdateReturns
    BY <1>22 DEF ExecuteUpdateReturns
  <1>23. CASE ExecuteUpdateThrows
    BY <1>23, ErrorValues DEF ExecuteUpdateThrows
  <1>24. CASE MarkConsumerStopped
    BY <1>24, ErrorValues DEF MarkConsumerStopped, NotifyNotFull
  <1>25. CASE SpuriousWakeup
    BY <1>25 DEF SpuriousWakeup
  <1>26. CASE UNCHANGED vars
    BY <1>26 DEF vars
  <1> QED
    BY <1>1, <1>2, <1>3, <1>4, <1>5, <1>6, <1>7, <1>8, <1>9, <1>10, <1>11,
       <1>12, <1>13, <1>14, <1>15, <1>16, <1>17, <1>18, <1>19, <1>20, <1>21,
       <1>22, <1>23, <1>24, <1>25, <1>26 DEF Next, EngineStep, ProducerStep,
       ConsumerStep

LEMMA ControlStep == IInv /\ [Next]_vars => Control'
  <1> SUFFICES ASSUME IInv, [Next]_vars PROVE Control'
    OBVIOUS
  <1> USE DEF IInv, stream, exec, engine, driver, Control
  <1>1. CASE AdbcInsertInitGlobal
    BY <1>1 DEF AdbcInsertInitGlobal
  <1>2. CASE AdbcInsertInitGlobalThrows
    BY <1>2 DEF AdbcInsertInitGlobalThrows
  <1>3. CASE AdbcInsertInOutEmpty
    BY <1>3 DEF AdbcInsertInOutEmpty, vars
  <1>4. ASSUME NEW n \in ChunkSizes, AdbcInsertInOut(n) PROVE Control'
    BY <1>4 DEF AdbcInsertInOut
  <1>5. CASE AdbcInsertFinalize
    BY <1>5 DEF AdbcInsertFinalize, NotifyNotEmpty
  <1>6. CASE EngineCancel
    BY <1>6 DEF EngineCancel
  <1>7. CASE AddBatchWait
    BY <1>7 DEF AddBatchWait
  <1>8. CASE AddBatchRefused
    BY <1>8 DEF AddBatchRefused
  <1>9. CASE AddBatchPush
    BY <1>9 DEF AddBatchPush, NotifyNotEmpty
  <1>10. CASE AdbcInsertInOutReturn
    BY <1>10 DEF AdbcInsertInOutReturn
  <1>11. CASE AdbcInsertInOutThrow
    BY <1>11 DEF AdbcInsertInOutThrow
  <1>12. CASE AdbcInsertFinalizeReturn
    BY <1>12 DEF AdbcInsertFinalizeReturn, Joined
  <1>13. CASE DestroyAbort
    BY <1>13 DEF DestroyAbort, NotifyNotEmpty
  <1>14. CASE DestroyJoin
    BY <1>14 DEF DestroyJoin, Joined
  <1>15. CASE DriverGetSchema
    BY <1>15 DEF DriverGetSchema
  <1>16. CASE DriverCallsGetNext
    BY <1>16 DEF DriverCallsGetNext
  <1>17. CASE DriverWrites
    BY <1>17 DEF DriverWrites
  <1>18. CASE GetNextWait
    BY <1>18 DEF GetNextWait
  <1>19. CASE GetNextAborted
    BY <1>19 DEF GetNextAborted
  <1>20. CASE GetNextEnd
    BY <1>20 DEF GetNextEnd
  <1>21. CASE GetNextBatch
    BY <1>21 DEF GetNextBatch, NotifyNotFull
  <1>22. CASE ExecuteUpdateReturns
    BY <1>22 DEF ExecuteUpdateReturns
  <1>23. CASE ExecuteUpdateThrows
    BY <1>23 DEF ExecuteUpdateThrows
  <1>24. CASE MarkConsumerStopped
    BY <1>24 DEF MarkConsumerStopped, NotifyNotFull
  <1>25. CASE SpuriousWakeup
    BY <1>25 DEF SpuriousWakeup
  <1>26. CASE UNCHANGED vars
    BY <1>26 DEF vars
  <1> QED
    BY <1>1, <1>2, <1>3, <1>4, <1>5, <1>6, <1>7, <1>8, <1>9, <1>10, <1>11,
       <1>12, <1>13, <1>14, <1>15, <1>16, <1>17, <1>18, <1>19, <1>20, <1>21,
       <1>22, <1>23, <1>24, <1>25, <1>26 DEF Next, EngineStep, ProducerStep,
       ConsumerStep

LEMMA VerdictStep == IInv /\ [Next]_vars => Verdict'
  <1> SUFFICES ASSUME IInv, [Next]_vars PROVE Verdict'
    OBVIOUS
  <1> USE DEF IInv, stream, exec, engine, driver, Control, Verdict
  <1>1. CASE AdbcInsertInitGlobal
    BY <1>1 DEF AdbcInsertInitGlobal
  <1>2. CASE AdbcInsertInitGlobalThrows
    BY <1>2 DEF AdbcInsertInitGlobalThrows
  <1>3. CASE AdbcInsertInOutEmpty
    BY <1>3 DEF AdbcInsertInOutEmpty, vars
  <1>4. ASSUME NEW n \in ChunkSizes, AdbcInsertInOut(n) PROVE Verdict'
    BY <1>4 DEF AdbcInsertInOut
  <1>5. CASE AdbcInsertFinalize
    BY <1>5 DEF AdbcInsertFinalize, NotifyNotEmpty
  <1>6. CASE EngineCancel
    BY <1>6 DEF EngineCancel
  <1>7. CASE AddBatchWait
    BY <1>7 DEF AddBatchWait
  <1>8. CASE AddBatchRefused
    BY <1>8 DEF AddBatchRefused, Stopped
  <1>9. CASE AddBatchPush
    BY <1>9 DEF AddBatchPush, NotifyNotEmpty
  <1>10. CASE AdbcInsertInOutReturn
    BY <1>10 DEF AdbcInsertInOutReturn
  <1>11. CASE AdbcInsertInOutThrow
    BY <1>11 DEF AdbcInsertInOutThrow
  <1>12. CASE AdbcInsertFinalizeReturn
    BY <1>12 DEF AdbcInsertFinalizeReturn, Joined, NoCount, Count, TypeOK
  <1>13. CASE DestroyAbort
    BY <1>13 DEF DestroyAbort, NotifyNotEmpty
  <1>14. CASE DestroyJoin
    BY <1>14 DEF DestroyJoin, Joined
  <1>15. CASE DriverGetSchema
    BY <1>15 DEF DriverGetSchema
  <1>16. CASE DriverCallsGetNext
    BY <1>16 DEF DriverCallsGetNext
  <1>17. CASE DriverWrites
    BY <1>17 DEF DriverWrites
  <1>18. CASE GetNextWait
    BY <1>18 DEF GetNextWait
  <1>19. CASE GetNextAborted
    BY <1>19 DEF GetNextAborted
  <1>20. CASE GetNextEnd
    BY <1>20 DEF GetNextEnd
  <1>21. CASE GetNextBatch
    BY <1>21 DEF GetNextBatch, NotifyNotFull
  <1>22. CASE ExecuteUpdateReturns
    BY <1>22 DEF ExecuteUpdateReturns
  <1>23. CASE ExecuteUpdateThrows
    BY <1>23 DEF ExecuteUpdateThrows
  <1>24. CASE MarkConsumerStopped
    BY <1>24 DEF MarkConsumerStopped, NotifyNotFull
  <1>25. CASE SpuriousWakeup
    BY <1>25 DEF SpuriousWakeup
  <1>26. CASE UNCHANGED vars
    BY <1>26 DEF vars
  <1> QED
    BY <1>1, <1>2, <1>3, <1>4, <1>5, <1>6, <1>7, <1>8, <1>9, <1>10, <1>11,
       <1>12, <1>13, <1>14, <1>15, <1>16, <1>17, <1>18, <1>19, <1>20, <1>21,
       <1>22, <1>23, <1>24, <1>25, <1>26 DEF Next, EngineStep, ProducerStep,
       ConsumerStep

LEMMA CountStep == IInv /\ [Next]_vars => Count'
  <1> SUFFICES ASSUME IInv, [Next]_vars PROVE Count'
    OBVIOUS
  <1> USE DEF IInv, stream, exec, engine, driver, Control, Verdict, Count,
     TypeOK
  <1>1. CASE AdbcInsertInitGlobal
    BY <1>1 DEF AdbcInsertInitGlobal
  <1>2. CASE AdbcInsertInitGlobalThrows
    BY <1>2 DEF AdbcInsertInitGlobalThrows
  <1>3. CASE AdbcInsertInOutEmpty
    BY <1>3 DEF AdbcInsertInOutEmpty, vars
  <1>4. ASSUME NEW n \in ChunkSizes, AdbcInsertInOut(n) PROVE Count'
    BY <1>4, InsertAssumption DEF AdbcInsertInOut
  <1>5. CASE AdbcInsertFinalize
    BY <1>5 DEF AdbcInsertFinalize, NotifyNotEmpty
  <1>6. CASE EngineCancel
    BY <1>6 DEF EngineCancel
  <1>7. CASE AddBatchWait
    BY <1>7 DEF AddBatchWait
  <1>8. CASE AddBatchRefused
    BY <1>8 DEF AddBatchRefused
  <1>9. CASE AddBatchPush
    BY <1>9 DEF AddBatchPush, NotifyNotEmpty
  <1>10. CASE AdbcInsertInOutReturn
    BY <1>10 DEF AdbcInsertInOutReturn
  <1>11. CASE AdbcInsertInOutThrow
    BY <1>11 DEF AdbcInsertInOutThrow
  <1>12. CASE AdbcInsertFinalizeReturn
    BY <1>12 DEF AdbcInsertFinalizeReturn, Joined, RowsFlowInOrder, Handed
  <1>13. CASE DestroyAbort
    BY <1>13 DEF DestroyAbort, NotifyNotEmpty
  <1>14. CASE DestroyJoin
    BY <1>14 DEF DestroyJoin, Joined
  <1>15. CASE DriverGetSchema
    BY <1>15 DEF DriverGetSchema
  <1>16. CASE DriverCallsGetNext
    BY <1>16 DEF DriverCallsGetNext
  <1>17. CASE DriverWrites
    BY <1>17 DEF DriverWrites
  <1>18. CASE GetNextWait
    BY <1>18 DEF GetNextWait
  <1>19. CASE GetNextAborted
    BY <1>19 DEF GetNextAborted
  <1>20. CASE GetNextEnd
    BY <1>20 DEF GetNextEnd
  <1>21. CASE GetNextBatch
    BY <1>21 DEF GetNextBatch, NotifyNotFull
  <1>22. CASE ExecuteUpdateReturns
    BY <1>22 DEF ExecuteUpdateReturns
  <1>23. CASE ExecuteUpdateThrows
    BY <1>23 DEF ExecuteUpdateThrows
  <1>24. CASE MarkConsumerStopped
    BY <1>24 DEF MarkConsumerStopped, NotifyNotFull
  <1>25. CASE SpuriousWakeup
    BY <1>25 DEF SpuriousWakeup
  <1>26. CASE UNCHANGED vars
    BY <1>26 DEF vars
  <1> QED
    BY <1>1, <1>2, <1>3, <1>4, <1>5, <1>6, <1>7, <1>8, <1>9, <1>10, <1>11,
       <1>12, <1>13, <1>14, <1>15, <1>16, <1>17, <1>18, <1>19, <1>20, <1>21,
       <1>22, <1>23, <1>24, <1>25, <1>26 DEF Next, EngineStep, ProducerStep,
       ConsumerStep

LEMMA WakeupStep == IInv /\ [Next]_vars => NoLostWakeup'
  <1> SUFFICES ASSUME IInv, [Next]_vars PROVE NoLostWakeup'
    OBVIOUS
  <1> USE DEF IInv, stream, exec, engine, driver, Control, Verdict,
     NoLostWakeup, HasRoom, Stopped, max_batches, ResolveMaxPendingBatches
  <1>1. CASE AdbcInsertInitGlobal
    BY <1>1 DEF AdbcInsertInitGlobal
  <1>2. CASE AdbcInsertInitGlobalThrows
    BY <1>2 DEF AdbcInsertInitGlobalThrows
  <1>3. CASE AdbcInsertInOutEmpty
    BY <1>3 DEF AdbcInsertInOutEmpty, vars
  <1>4. ASSUME NEW n \in ChunkSizes, AdbcInsertInOut(n) PROVE NoLostWakeup'
    BY <1>4 DEF AdbcInsertInOut
  <1>5. CASE AdbcInsertFinalize
    BY <1>5 DEF AdbcInsertFinalize, NotifyNotEmpty
  <1>6. CASE EngineCancel
    BY <1>6 DEF EngineCancel
  <1>7. CASE AddBatchWait
    BY <1>7 DEF AddBatchWait
  <1>8. CASE AddBatchRefused
    BY <1>8 DEF AddBatchRefused
  <1>9. CASE AddBatchPush
    BY <1>9 DEF AddBatchPush, NotifyNotEmpty
  <1>10. CASE AdbcInsertInOutReturn
    BY <1>10 DEF AdbcInsertInOutReturn
  <1>11. CASE AdbcInsertInOutThrow
    BY <1>11 DEF AdbcInsertInOutThrow
  <1>12. CASE AdbcInsertFinalizeReturn
    BY <1>12 DEF AdbcInsertFinalizeReturn, Joined
  <1>13. CASE DestroyAbort
    BY <1>13 DEF DestroyAbort, NotifyNotEmpty
  <1>14. CASE DestroyJoin
    BY <1>14 DEF DestroyJoin, Joined
  <1>15. CASE DriverGetSchema
    BY <1>15 DEF DriverGetSchema
  <1>16. CASE DriverCallsGetNext
    BY <1>16 DEF DriverCallsGetNext
  <1>17. CASE DriverWrites
    BY <1>17 DEF DriverWrites
  <1>18. CASE GetNextWait
    BY <1>18 DEF GetNextWait
  <1>19. CASE GetNextAborted
    BY <1>19 DEF GetNextAborted
  <1>20. CASE GetNextEnd
    BY <1>20 DEF GetNextEnd
  <1>21. CASE GetNextBatch
    BY <1>21 DEF GetNextBatch, NotifyNotFull
  <1>22. CASE ExecuteUpdateReturns
    BY <1>22 DEF ExecuteUpdateReturns
  <1>23. CASE ExecuteUpdateThrows
    BY <1>23 DEF ExecuteUpdateThrows
  <1>24. CASE MarkConsumerStopped
    BY <1>24 DEF MarkConsumerStopped, NotifyNotFull
  <1>25. CASE SpuriousWakeup
    BY <1>25 DEF SpuriousWakeup
  <1>26. CASE UNCHANGED vars
    BY <1>26 DEF vars
  <1> QED
    BY <1>1, <1>2, <1>3, <1>4, <1>5, <1>6, <1>7, <1>8, <1>9, <1>10, <1>11,
       <1>12, <1>13, <1>14, <1>15, <1>16, <1>17, <1>18, <1>19, <1>20, <1>21,
       <1>22, <1>23, <1>24, <1>25, <1>26 DEF Next, EngineStep, ProducerStep,
       ConsumerStep

LEMMA QueueStep == IInv /\ [Next]_vars => QueueBounded'
  <1> SUFFICES ASSUME IInv, [Next]_vars PROVE QueueBounded'
    OBVIOUS
  <1> USE DEF IInv, stream, exec, engine, driver, QueueBounded, TypeOK
  <1>0. max_batches' = max_batches /\ max_batches \in Nat
    BY DepthIsPositive DEF max_batches, ResolveMaxPendingBatches
  <1>1. CASE AdbcInsertInitGlobal
    BY <1>1, <1>0 DEF AdbcInsertInitGlobal
  <1>2. CASE AdbcInsertInitGlobalThrows
    BY <1>2, <1>0 DEF AdbcInsertInitGlobalThrows
  <1>3. CASE AdbcInsertInOutEmpty
    BY <1>3, <1>0 DEF AdbcInsertInOutEmpty, vars
  <1>4. ASSUME NEW n \in ChunkSizes, AdbcInsertInOut(n) PROVE QueueBounded'
    BY <1>4, <1>0 DEF AdbcInsertInOut
  <1>5. CASE AdbcInsertFinalize
    BY <1>5, <1>0 DEF AdbcInsertFinalize, NotifyNotEmpty
  <1>6. CASE EngineCancel
    BY <1>6, <1>0 DEF EngineCancel
  <1>7. CASE AddBatchWait
    BY <1>7, <1>0 DEF AddBatchWait
  <1>8. CASE AddBatchRefused
    BY <1>8, <1>0 DEF AddBatchRefused
  <1>9. CASE AddBatchPush
    <2>1. Len(pending_batches') = Len(pending_batches) + 1
      BY <1>9 DEF AddBatchPush
    <2> QED
      BY <1>9, <1>0, <2>1 DEF AddBatchPush, HasRoom
  <1>10. CASE AdbcInsertInOutReturn
    BY <1>10, <1>0 DEF AdbcInsertInOutReturn
  <1>11. CASE AdbcInsertInOutThrow
    BY <1>11, <1>0 DEF AdbcInsertInOutThrow
  <1>12. CASE AdbcInsertFinalizeReturn
    BY <1>12, <1>0 DEF AdbcInsertFinalizeReturn, Joined
  <1>13. CASE DestroyAbort
    BY <1>13, <1>0 DEF DestroyAbort, NotifyNotEmpty
  <1>14. CASE DestroyJoin
    <2>1. Len(pending_batches') = 0
      BY <1>14 DEF DestroyJoin
    <2> QED
      BY <1>0, <2>1
  <1>15. CASE DriverGetSchema
    BY <1>15, <1>0 DEF DriverGetSchema
  <1>16. CASE DriverCallsGetNext
    BY <1>16, <1>0 DEF DriverCallsGetNext
  <1>17. CASE DriverWrites
    BY <1>17, <1>0 DEF DriverWrites
  <1>18. CASE GetNextWait
    BY <1>18, <1>0 DEF GetNextWait
  <1>19. CASE GetNextAborted
    BY <1>19, <1>0 DEF GetNextAborted
  <1>20. CASE GetNextEnd
    BY <1>20, <1>0 DEF GetNextEnd
  <1>21. CASE GetNextBatch
    <2>1. Len(pending_batches') = Len(pending_batches) - 1
      BY <1>21 DEF GetNextBatch
    <2> QED
      BY <1>0, <2>1
  <1>22. CASE ExecuteUpdateReturns
    BY <1>22, <1>0 DEF ExecuteUpdateReturns
  <1>23. CASE ExecuteUpdateThrows
    BY <1>23, <1>0 DEF ExecuteUpdateThrows
  <1>24. CASE MarkConsumerStopped
    BY <1>24, <1>0 DEF MarkConsumerStopped, NotifyNotFull
  <1>25. CASE SpuriousWakeup
    BY <1>25, <1>0 DEF SpuriousWakeup
  <1>26. CASE UNCHANGED vars
    BY <1>26, <1>0 DEF vars
  <1> QED
    BY <1>1, <1>2, <1>3, <1>4, <1>5, <1>6, <1>7, <1>8, <1>9, <1>10, <1>11,
       <1>12, <1>13, <1>14, <1>15, <1>16, <1>17, <1>18, <1>19, <1>20, <1>21,
       <1>22, <1>23, <1>24, <1>25, <1>26 DEF Next, EngineStep, ProducerStep,
       ConsumerStep

LEMMA FlowStep == IInv /\ [Next]_vars => RowsFlowInOrder'
  <1> SUFFICES ASSUME IInv, [Next]_vars PROVE RowsFlowInOrder'
    OBVIOUS
  <1> USE DEF IInv, stream, exec, engine, driver, RowsFlowInOrder, Handed,
     TypeOK, Control, Count
  <1>1. CASE AdbcInsertInitGlobal
    BY <1>1 DEF AdbcInsertInitGlobal
  <1>2. CASE AdbcInsertInitGlobalThrows
    BY <1>2 DEF AdbcInsertInitGlobalThrows
  <1>3. CASE AdbcInsertInOutEmpty
    BY <1>3 DEF AdbcInsertInOutEmpty, vars
  <1>4. ASSUME NEW n \in ChunkSizes, AdbcInsertInOut(n) PROVE RowsFlowInOrder'
    BY <1>4 DEF AdbcInsertInOut
  <1>5. CASE AdbcInsertFinalize
    BY <1>5 DEF AdbcInsertFinalize, NotifyNotEmpty
  <1>6. CASE EngineCancel
    BY <1>6 DEF EngineCancel
  <1>7. CASE AddBatchWait
    BY <1>7 DEF AddBatchWait
  <1>8. CASE AddBatchRefused
    BY <1>8 DEF AddBatchRefused
  <1>9. CASE AddBatchPush
    <2> DEFINE q == pending_batches
    <2> DEFINE k == Len(pending_batches)
    <2>1. q' = Append(q, batch) /\ producer = "adding" /\ producer' = "added" /\ read' = read
          /\ rows_inserted' = rows_inserted /\ input' = input /\ source = rows_inserted + input
      BY <1>9 DEF AddBatchPush
    <2>2. Len(q') = k + 1 /\ q'[k + 1] = batch /\ \A i \in 1..k : q'[i] = q[i]
      BY <2>1
    <2>3. batch.from = Handed /\ batch.to = Handed'
      BY <2>1 DEF batch
    <2>4. CASE q = <<>>
      BY <2>1, <2>2, <2>3, <2>4
    <2>5. CASE q # <<>>
      <3>1. k \in Nat /\ k >= 1
        BY <2>5
      <3>2. q[1].from = read /\ q[k].to = Handed
        BY <2>1, <2>5
      <3>3. q'[1].from = read' /\ q'[Len(q')].to = Handed'
        BY <2>1, <2>2, <2>3, <3>1, <3>2
      <3>4. ASSUME NEW i \in 1..Len(q') - 1 PROVE q'[i].to = q'[i + 1].from
        BY <2>1, <2>2, <2>3, <3>1, <3>2
      <3> QED
        BY <2>2, <3>1, <3>3, <3>4
    <2> QED
      BY <2>4, <2>5
  <1>10. CASE AdbcInsertInOutReturn
    BY <1>10 DEF AdbcInsertInOutReturn
  <1>11. CASE AdbcInsertInOutThrow
    BY <1>11 DEF AdbcInsertInOutThrow
  <1>12. CASE AdbcInsertFinalizeReturn
    BY <1>12 DEF AdbcInsertFinalizeReturn, Joined
  <1>13. CASE DestroyAbort
    BY <1>13 DEF DestroyAbort, NotifyNotEmpty
  <1>14. CASE DestroyJoin
    BY <1>14 DEF DestroyJoin, Joined
  <1>15. CASE DriverGetSchema
    BY <1>15 DEF DriverGetSchema
  <1>16. CASE DriverCallsGetNext
    BY <1>16 DEF DriverCallsGetNext
  <1>17. CASE DriverWrites
    BY <1>17 DEF DriverWrites
  <1>18. CASE GetNextWait
    BY <1>18 DEF GetNextWait
  <1>19. CASE GetNextAborted
    BY <1>19 DEF GetNextAborted
  <1>20. CASE GetNextEnd
    BY <1>20 DEF GetNextEnd
  <1>21. CASE GetNextBatch
    <2> DEFINE q == pending_batches
    <2> DEFINE k == Len(pending_batches)
    <2>1. /\ q # <<>> /\ q' = Tail(q) /\ read' = Head(q).to
          /\ rows_inserted' = rows_inserted /\ input' = input /\ producer # "destroyed"
      BY <1>21 DEF GetNextBatch
    <2>2. k \in Nat /\ k >= 1 /\ Head(q) = q[1]
      BY <2>1
    <2>3. Len(q') = k - 1 /\ \A i \in 1..k - 1 : q'[i] = q[i + 1]
      BY <2>1, <2>2
    <2>4. q[k].to = Handed /\ \A i \in 1..k - 1 : q[i].to = q[i + 1].from
      BY <2>1
    <2>5. Handed' = Handed
      BY <1>21 DEF GetNextBatch, NotifyNotFull
    <2>6. CASE k = 1
      BY <2>1, <2>2, <2>3, <2>4, <2>5, <2>6
    <2>7. CASE k # 1
      <3>1. q'[1].from = read'
        BY <2>1, <2>2, <2>3, <2>4, <2>7
      <3>2. q'[Len(q')].to = Handed'
        BY <2>2, <2>3, <2>4, <2>5, <2>7
      <3>3. ASSUME NEW i \in 1..Len(q') - 1 PROVE q'[i].to = q'[i + 1].from
        BY <2>2, <2>3, <2>4, <2>7
      <3> QED
        BY <2>3, <2>7, <3>1, <3>2, <3>3
    <2> QED
      BY <2>6, <2>7
  <1>22. CASE ExecuteUpdateReturns
    BY <1>22 DEF ExecuteUpdateReturns
  <1>23. CASE ExecuteUpdateThrows
    BY <1>23 DEF ExecuteUpdateThrows
  <1>24. CASE MarkConsumerStopped
    BY <1>24 DEF MarkConsumerStopped, NotifyNotFull
  <1>25. CASE SpuriousWakeup
    BY <1>25 DEF SpuriousWakeup
  <1>26. CASE UNCHANGED vars
    BY <1>26 DEF vars
  <1> QED
    BY <1>1, <1>2, <1>3, <1>4, <1>5, <1>6, <1>7, <1>8, <1>9, <1>10, <1>11,
       <1>12, <1>13, <1>14, <1>15, <1>16, <1>17, <1>18, <1>19, <1>20, <1>21,
       <1>22, <1>23, <1>24, <1>25, <1>26 DEF Next, EngineStep, ProducerStep,
       ConsumerStep

LEMMA WithinStep == IInv /\ [Next]_vars => Within'
  <1> SUFFICES ASSUME IInv, [Next]_vars PROVE Within'
    OBVIOUS
  <1> USE DEF IInv, stream, exec, engine, driver, Within, TypeOK, Control,
     Verdict, Count
  <1>1. CASE AdbcInsertInitGlobal
    BY <1>1 DEF AdbcInsertInitGlobal
  <1>2. CASE AdbcInsertInitGlobalThrows
    BY <1>2 DEF AdbcInsertInitGlobalThrows
  <1>3. CASE AdbcInsertInOutEmpty
    BY <1>3 DEF AdbcInsertInOutEmpty, vars
  <1>4. ASSUME NEW n \in ChunkSizes, AdbcInsertInOut(n) PROVE Within'
    <2>1. n \in Nat /\ source' = source + n
      BY <1>4, InsertAssumption DEF AdbcInsertInOut
    <2>2. \A i \in 1..Len(pending_batches') : pending_batches'[i].to <= source'
      <3> SUFFICES ASSUME NEW i \in 1..Len(pending_batches)
                   PROVE  pending_batches[i].to <= source + n
        BY <1>4, <2>1 DEF AdbcInsertInOut
      <3>1. pending_batches[i] \in Batch
        OBVIOUS
      <3> QED
        BY <2>1, <3>1 DEF Batch
    <2> QED
      BY <1>4, <2>1, <2>2 DEF AdbcInsertInOut
  <1>5. CASE AdbcInsertFinalize
    BY <1>5 DEF AdbcInsertFinalize, NotifyNotEmpty
  <1>6. CASE EngineCancel
    BY <1>6 DEF EngineCancel
  <1>7. CASE AddBatchWait
    BY <1>7 DEF AddBatchWait
  <1>8. CASE AddBatchRefused
    BY <1>8 DEF AddBatchRefused
  <1>9. CASE AddBatchPush
    <2>1. batch.to = source
      BY DEF batch
    <2>2. \A i \in 1..Len(pending_batches') : pending_batches'[i].to <= source
      BY <1>9, <2>1 DEF AddBatchPush
    <2> QED
      BY <1>9, <2>2 DEF AddBatchPush
  <1>10. CASE AdbcInsertInOutReturn
    BY <1>10 DEF AdbcInsertInOutReturn
  <1>11. CASE AdbcInsertInOutThrow
    BY <1>11 DEF AdbcInsertInOutThrow
  <1>12. CASE AdbcInsertFinalizeReturn
    BY <1>12 DEF AdbcInsertFinalizeReturn, Joined
  <1>13. CASE DestroyAbort
    BY <1>13 DEF DestroyAbort, NotifyNotEmpty
  <1>14. CASE DestroyJoin
    BY <1>14 DEF DestroyJoin, Joined
  <1>15. CASE DriverGetSchema
    BY <1>15 DEF DriverGetSchema
  <1>16. CASE DriverCallsGetNext
    BY <1>16 DEF DriverCallsGetNext
  <1>17. CASE DriverWrites
    BY <1>17 DEF DriverWrites
  <1>18. CASE GetNextWait
    BY <1>18 DEF GetNextWait
  <1>19. CASE GetNextAborted
    BY <1>19 DEF GetNextAborted
  <1>20. CASE GetNextEnd
    BY <1>20 DEF GetNextEnd
  <1>21. CASE GetNextBatch
    <2>1. /\ pending_batches # <<>> /\ pending_batches' = Tail(pending_batches)
          /\ read' = Head(pending_batches).to /\ UNCHANGED <<source, remote>>
          /\ producer # "destroyed"
      BY <1>21 DEF GetNextBatch
    <2>2. /\ Len(pending_batches) >= 1 /\ Head(pending_batches) = pending_batches[1]
          /\ pending_batches[1] \in Batch
      BY <2>1
    <2>3. pending_batches[1].from = read /\ read < pending_batches[1].to
      BY <2>1, <2>2 DEF RowsFlowInOrder, Batch
    <2>4. read' <= source' /\ remote' <= read'
      BY <2>1, <2>2, <2>3 DEF Batch
    <2>5. \A i \in 1..Len(pending_batches') : pending_batches'[i].to <= source'
      BY <2>1, <2>2
    <2> QED
      BY <2>4, <2>5
  <1>22. CASE ExecuteUpdateReturns
    BY <1>22 DEF ExecuteUpdateReturns
  <1>23. CASE ExecuteUpdateThrows
    BY <1>23 DEF ExecuteUpdateThrows
  <1>24. CASE MarkConsumerStopped
    BY <1>24 DEF MarkConsumerStopped, NotifyNotFull
  <1>25. CASE SpuriousWakeup
    BY <1>25 DEF SpuriousWakeup
  <1>26. CASE UNCHANGED vars
    BY <1>26 DEF vars
  <1> QED
    BY <1>1, <1>2, <1>3, <1>4, <1>5, <1>6, <1>7, <1>8, <1>9, <1>10, <1>11,
       <1>12, <1>13, <1>14, <1>15, <1>16, <1>17, <1>18, <1>19, <1>20, <1>21,
       <1>22, <1>23, <1>24, <1>25, <1>26 DEF Next, EngineStep, ProducerStep,
       ConsumerStep

\* The invariant of every reachable state.
THEOREM Invariance == Spec => []IInv
  <1>1. IInv /\ [Next]_vars => IInv'
    BY TypeStep, ControlStep, VerdictStep, CountStep, WakeupStep, QueueStep, FlowStep,
       WithinStep DEF IInv
  <1> QED
    BY InitIInv, <1>1, PTL DEF Spec

-----------------------------------------------------------------------------
(* What follows from it.                                                   *)

\* Every variable keeps its type; in particular no batch is empty.
THEOREM TypeCorrect == Spec => []TypeOK
  BY Invariance, PTL DEF IInv

\* Backpressure: the queue never outgrows the depth that was asked for.
THEOREM QueueIsBounded == Spec => []QueueBounded
  BY Invariance, PTL DEF IInv

\* Order, no loss, no duplication between AddBatch and GetNext.
THEOREM StreamKeepsOrder == Spec => []RowsFlowInOrder
  BY Invariance, PTL DEF IInv

\* No wake-up is lost on either condition variable.
THEOREM WakeupsArrive == Spec => []NoLostWakeup
  BY Invariance, PTL DEF IInv

\* The producer and the consumer never wait on each other: a queue that is
\* empty for the consumer has room for the producer, and whoever joins the
\* thread has first set the flag that ends its wait.
THEOREM NoDeadlock == Spec => []NoMutualWait
  <1>1. IInv => NoMutualWait
    <2> SUFFICES ASSUME IInv, consumer = "waiting"
                 PROVE  producer \notin {"blocked", "joining", "destroying"}
      BY DEF NoMutualWait
    <2>1. pending_batches = <<>> /\ ~finished /\ ~aborted
      BY DEF IInv, NoLostWakeup
    <2>2. HasRoom
      BY <2>1, DepthIsPositive DEF HasRoom
    <2>3. producer # "blocked"
      BY <2>2 DEF IInv, NoLostWakeup
    <2>4. producer # "destroying"
      BY <2>1 DEF IInv, Control
    <2>5. producer # "joining"
      BY <2>1 DEF IInv, Control
    <2> QED
      BY <2>3, <2>4, <2>5
  <1> QED
    BY Invariance, <1>1, PTL

\* A reported count is the number of rows supplied and stored.
THEOREM CountIsTrue == Spec => []ReportedRowsAreStored
  <1>1. IInv => ReportedRowsAreStored
    <2> SUFFICES ASSUME IInv, reported # NoCount
                 PROVE  reported = source /\ remote = source
      BY DEF ReportedRowsAreStored
    <2>1. reported = rows_inserted /\ input = 0 /\ remote = source /\ source = rows_inserted + input
      BY DEF IInv, Count
    <2> QED
      BY <2>1 DEF IInv, TypeOK
  <1> QED
    BY Invariance, <1>1, PTL

\* The thread has gone before what it uses goes.
THEOREM ThreadIsOutlived == Spec => []ThreadOutlived
  <1>1. IInv => ThreadOutlived
    BY DEF IInv, Control, ThreadOutlived
  <1> QED
    BY Invariance, <1>1, PTL

\* A failed insert carries the reason of the failure.
THEOREM FailuresAreExplained == Spec => []FailureIsExplained
  <1>1. IInv => FailureIsExplained
    BY DEF IInv, Verdict, FailureIsExplained
  <1> QED
    BY Invariance, <1>1, PTL

\* With a transactional driver, no success means no rows.
THEOREM CancelIsClean == Spec => []CancelledLeavesNothing
  <1>1. IInv => CancelledLeavesNothing
    BY DEF IInv, Verdict, Control, CancelledLeavesNothing
  <1> QED
    BY Invariance, <1>1, PTL

\* Nothing enters the queue and the target does not move once ExecuteUpdate
\* has returned.
THEOREM StopIsFinal == Spec => NothingAfterStop
  <1> DEFINE Still == consumer_stopped =>
                        /\ Len(pending_batches') <= Len(pending_batches)
                        /\ UNCHANGED <<read, remote>>
  <1>1. ASSUME IInv, [Next]_vars PROVE [Still]_vars
    <2> SUFFICES ASSUME consumer_stopped PROVE Still
      OBVIOUS
    <2>1. consumer = "exited"
      BY <1>1 DEF IInv, Control
    <2>2. Len(pending_batches) \in Nat
      BY <1>1 DEF IInv, TypeOK
    <2> USE <2>1, <2>2 DEF stream, exec, engine, driver
    <2>3. CASE EngineStep
      <3>1. UNCHANGED <<pending_batches, read, remote>>
        BY <2>3 DEF EngineStep, AdbcInsertInitGlobal, AdbcInsertInitGlobalThrows,
           AdbcInsertInOutEmpty, AdbcInsertInOut, AdbcInsertFinalize, EngineCancel, vars
      <3> QED
        BY <3>1
    <2>4. CASE ProducerStep /\ UNCHANGED pending_batches
      <3>1. UNCHANGED <<read, remote>>
        BY <2>4 DEF ProducerStep, AddBatchWait, AddBatchRefused, AddBatchPush,
           AdbcInsertInOutReturn, AdbcInsertInOutThrow, AdbcInsertFinalizeReturn,
           DestroyAbort, DestroyJoin
      <3> QED
        BY <2>4, <3>1
    <2>5. CASE AddBatchPush
      BY <2>5 DEF AddBatchPush, Stopped
    <2>6. CASE DestroyJoin
      BY <2>6 DEF DestroyJoin
    <2>7. CASE ProducerStep
      BY <2>4, <2>5, <2>6, <2>7 DEF ProducerStep, AddBatchWait, AddBatchRefused,
         AdbcInsertInOutReturn, AdbcInsertInOutThrow, AdbcInsertFinalizeReturn, DestroyAbort
    <2>8. CASE ConsumerStep
      BY <2>8 DEF ConsumerStep, DriverGetSchema, DriverCallsGetNext, DriverWrites,
         GetNextWait, GetNextAborted, GetNextEnd, GetNextBatch, ExecuteUpdateReturns,
         ExecuteUpdateThrows, MarkConsumerStopped
    <2>9. CASE SpuriousWakeup
      BY <2>9 DEF SpuriousWakeup
    <2>10. CASE UNCHANGED vars
      BY <2>10 DEF vars
    <2> QED
      BY <1>1, <2>3, <2>7, <2>8, <2>9, <2>10 DEF Next
  <1> QED
    BY Invariance, <1>1, PTL DEF Spec, NothingAfterStop

\* adbc_insert implements BulkIngest: rows are stored as a prefix, in order, a
\* success means all of them and its count is theirs, and after the outcome
\* nothing moves.
THEOREM Refinement == Spec => KeepsPromise
  <1>1. Init => Ingest!Init
    BY DEF Init, Ingest!Init, Outcome
  <1>2. ASSUME IInv, [Next]_vars PROVE [Ingest!Next]_Ingest!vars
    <2> USE <1>2 DEF IInv, TypeOK, Ingest!vars, Outcome, stream, exec, engine, driver
    <2>1. CASE AdbcInsertInitGlobal
      BY <2>1 DEF AdbcInsertInitGlobal
    <2>2. CASE AdbcInsertInitGlobalThrows
      BY <2>2 DEF AdbcInsertInitGlobalThrows
    <2>3. CASE AdbcInsertInOutEmpty
      BY <2>3 DEF AdbcInsertInOutEmpty, vars
    <2>4. ASSUME NEW n \in ChunkSizes, AdbcInsertInOut(n) PROVE [Ingest!Next]_Ingest!vars
      BY <2>4, InsertAssumption DEF AdbcInsertInOut, Control, Ingest!Next,
         Ingest!Supply
    <2>5. CASE AdbcInsertFinalize
      BY <2>5 DEF AdbcInsertFinalize, NotifyNotEmpty
    <2>6. CASE EngineCancel
      BY <2>6 DEF EngineCancel
    <2>7. CASE AddBatchWait
      BY <2>7 DEF AddBatchWait
    <2>8. CASE AddBatchRefused
      BY <2>8 DEF AddBatchRefused
    <2>9. CASE AddBatchPush
      BY <2>9 DEF AddBatchPush, NotifyNotEmpty
    <2>10. CASE AdbcInsertInOutReturn
      BY <2>10 DEF AdbcInsertInOutReturn
    <2>11. CASE AdbcInsertInOutThrow
      BY <2>11 DEF AdbcInsertInOutThrow
    <2>12. CASE AdbcInsertFinalizeReturn
      BY <2>12 DEF AdbcInsertFinalizeReturn, Joined, Control, Verdict, Count,
         RowsFlowInOrder, Handed, Ingest!Next, Ingest!Succeed
    <2>13. CASE DestroyAbort
      BY <2>13 DEF DestroyAbort, NotifyNotEmpty
    <2>14. CASE DestroyJoin
      BY <2>14 DEF DestroyJoin, Joined, Verdict, Control, Ingest!Next,
         Ingest!Fail
    <2>15. CASE DriverGetSchema
      BY <2>15 DEF DriverGetSchema
    <2>16. CASE DriverCallsGetNext
      BY <2>16 DEF DriverCallsGetNext
    <2>17. CASE DriverWrites
      BY <2>17 DEF DriverWrites, Control, Count, Within, Ingest!Next,
         Ingest!Store
    <2>18. CASE GetNextWait
      BY <2>18 DEF GetNextWait
    <2>19. CASE GetNextAborted
      BY <2>19 DEF GetNextAborted
    <2>20. CASE GetNextEnd
      BY <2>20 DEF GetNextEnd
    <2>21. CASE GetNextBatch
      BY <2>21 DEF GetNextBatch, NotifyNotFull
    <2>22. CASE ExecuteUpdateReturns
      BY <2>22 DEF ExecuteUpdateReturns, Control, Count, Within, Verdict,
         RowsFlowInOrder, Handed, Ingest!Next, Ingest!Store
    <2>23. CASE ExecuteUpdateThrows
      BY <2>23 DEF ExecuteUpdateThrows
    <2>24. CASE MarkConsumerStopped
      BY <2>24 DEF MarkConsumerStopped, NotifyNotFull
    <2>25. CASE SpuriousWakeup
      BY <2>25 DEF SpuriousWakeup
    <2>26. CASE UNCHANGED vars
      BY <2>26 DEF vars
    <2> QED
      BY <2>1, <2>2, <2>3, <2>4, <2>5, <2>6, <2>7, <2>8, <2>9, <2>10, <2>11,
         <2>12, <2>13, <2>14, <2>15, <2>16, <2>17, <2>18, <2>19, <2>20, <2>21,
         <2>22, <2>23, <2>24, <2>25, <2>26 DEF Next, EngineStep, ProducerStep,
         ConsumerStep
  <1> QED
    BY Invariance, <1>1, <1>2, PTL DEF Spec, KeepsPromise, Ingest!Spec

-----------------------------------------------------------------------------
(* What becomes of the batches the driver does not take.                   *)

\* What is queued has not been read, was handed over, and is in order; and
\* each row handed over and not read is in a batch of the queue.
Queued ==
  /\ \A i \in 1..Len(pending_batches) :
       read <= pending_batches[i].from /\ pending_batches[i].to <= Handed
  /\ \A i, j \in 1..Len(pending_batches) :
       i < j => pending_batches[i].to <= pending_batches[j].from
  /\ producer # "destroyed" =>
       \A r \in (read + 1)..Handed :
         \E i \in 1..Len(pending_batches) :
           pending_batches[i].from < r /\ r <= pending_batches[i].to

\* Before the queue is dropped the only batch released is the one refused,
\* and it holds the rows that were supplied and not handed over.
Refused ==
  /\ producer \in {"init", "ready", "adding", "blocked", "added", "joining", "succeeded"}
       => freed = {}
  /\ producer # "destroyed" => \A b \in freed : rows_inserted <= b.from
  /\ producer \in {"refused", "failed", "destroying"} =>
       \A r \in (rows_inserted + 1)..source : \E b \in freed : b.from < r /\ r <= b.to

\* The driver reads nothing that was not handed over.
LEMMA ReadIsHanded ==
  ASSUME IInv, Queued, producer # "destroyed"
  PROVE  Handed \in Nat /\ read \in Nat /\ read <= Handed
  <1>1. Handed \in Nat /\ read \in Nat
    BY DEF IInv, TypeOK, Handed
  <1>2. CASE pending_batches = <<>>
    BY <1>1, <1>2 DEF IInv, RowsFlowInOrder
  <1>3. CASE pending_batches # <<>>
    <2>1. 1 \in 1..Len(pending_batches) /\ pending_batches[1] \in Batch
      BY <1>3 DEF IInv, TypeOK
    <2> QED
      BY <1>1, <2>1 DEF Queued, Batch
  <1> QED
    BY <1>2, <1>3, <1>1

\* Between AddBatch and GetNext the queue covers what was handed over.
LEMMA QueuedStep == IInv /\ Queued /\ [Next]_vars => Queued'
  <1> SUFFICES ASSUME IInv, Queued, [Next]_vars PROVE Queued'
    OBVIOUS
  <1> DEFINE Steady == /\ UNCHANGED <<pending_batches, read>> /\ Handed' = Handed
                       /\ producer = "destroyed" => producer' = "destroyed"
  <1>0. ASSUME Steady PROVE Queued'
    BY <1>0 DEF Queued
  <1> USE DEF stream, exec, engine, driver, Handed
  <1>1. CASE AdbcInsertInitGlobal
    BY <1>0, <1>1 DEF AdbcInsertInitGlobal
  <1>2. CASE AdbcInsertInitGlobalThrows
    BY <1>0, <1>2 DEF AdbcInsertInitGlobalThrows
  <1>3. CASE AdbcInsertInOutEmpty
    BY <1>0, <1>3 DEF AdbcInsertInOutEmpty, vars
  <1>4. ASSUME NEW n \in ChunkSizes, AdbcInsertInOut(n) PROVE Queued'
    BY <1>0, <1>4 DEF AdbcInsertInOut
  <1>5. CASE AdbcInsertFinalize
    BY <1>0, <1>5 DEF AdbcInsertFinalize, NotifyNotEmpty
  <1>6. CASE EngineCancel
    BY <1>0, <1>6 DEF EngineCancel
  <1>7. CASE AddBatchWait
    BY <1>0, <1>7 DEF AddBatchWait
  <1>8. CASE AddBatchRefused
    BY <1>0, <1>8 DEF AddBatchRefused
  <1>9. CASE AddBatchPush
    <2> DEFINE q == pending_batches
    <2> DEFINE k == Len(pending_batches)
    <2>1. /\ q \in Seq(Batch) /\ k \in Nat /\ read \in Nat /\ source \in Nat /\ input \in Nat
          /\ rows_inserted \in Nat /\ source = rows_inserted + input
      BY DEF IInv, TypeOK, Count
    <2>2. /\ q' = Append(q, batch) /\ producer = "adding" /\ producer' = "added"
          /\ UNCHANGED <<read, rows_inserted, input, source>>
      BY <1>9 DEF AddBatchPush
    <2>3. Len(q') = k + 1 /\ q'[k + 1] = batch /\ \A i \in 1..k : q'[i] = q[i]
      BY <2>1, <2>2
    <2>4. /\ batch.from = Handed /\ batch.to = Handed' /\ Handed = rows_inserted
          /\ Handed' = source /\ Handed <= Handed'
      BY <2>1, <2>2 DEF batch
    <2>5. read <= Handed
      BY <2>2, ReadIsHanded
    <2>6. \A i \in 1..k : q[i].from \in Nat /\ q[i].to \in Nat
      BY <2>1 DEF Batch
    <2>7. \A i \in 1..k : read <= q[i].from /\ q[i].to <= Handed
      BY DEF Queued
    <2>8. \A i \in 1..k + 1 : read' <= q'[i].from /\ q'[i].to <= Handed'
      BY <2>1, <2>2, <2>3, <2>4, <2>5, <2>6, <2>7
    <2>9. \A i, j \in 1..k + 1 : i < j => q'[i].to <= q'[j].from
      <3> SUFFICES ASSUME NEW i \in 1..k + 1, NEW j \in 1..k + 1, i < j
                   PROVE  q'[i].to <= q'[j].from
        OBVIOUS
      <3>1. i \in 1..k /\ q'[i] = q[i]
        BY <2>1, <2>3
      <3>2. CASE j = k + 1
        BY <2>3, <2>4, <2>7, <3>1, <3>2
      <3>3. CASE j # k + 1
        <4>1. j \in 1..k /\ q'[j] = q[j]
          BY <2>1, <2>3, <3>3
        <4> QED
          BY <3>1, <4>1 DEF Queued
      <3> QED
        BY <3>2, <3>3
    <2>10. ASSUME NEW r \in (read + 1)..Handed'
           PROVE  \E i \in 1..k + 1 : q'[i].from < r /\ r <= q'[i].to
      <3>1. CASE r <= Handed
        <4>1. PICK i \in 1..k : q[i].from < r /\ r <= q[i].to
          BY <2>1, <2>2, <2>4, <3>1 DEF Queued
        <4>2. i \in 1..k + 1 /\ q'[i] = q[i]
          BY <2>1, <2>3
        <4> QED
          BY <4>1, <4>2
      <3>2. CASE Handed < r
        <4>1. k + 1 \in 1..k + 1
          BY <2>1
        <4> QED
          BY <2>3, <2>4, <3>2, <4>1
      <3> QED
        BY <2>1, <2>4, <3>1, <3>2
    <2> QED
      BY <2>2, <2>3, <2>8, <2>9, <2>10 DEF Queued
  <1>10. CASE AdbcInsertInOutReturn
    BY <1>0, <1>10 DEF AdbcInsertInOutReturn, IInv, TypeOK
  <1>11. CASE AdbcInsertInOutThrow
    BY <1>0, <1>11 DEF AdbcInsertInOutThrow
  <1>12. CASE AdbcInsertFinalizeReturn
    BY <1>0, <1>12 DEF AdbcInsertFinalizeReturn, Joined
  <1>13. CASE DestroyAbort
    BY <1>0, <1>13 DEF DestroyAbort, NotifyNotEmpty
  <1>14. CASE DestroyJoin
    BY <1>14 DEF DestroyJoin, Queued
  <1>15. CASE DriverGetSchema
    BY <1>0, <1>15 DEF DriverGetSchema
  <1>16. CASE DriverCallsGetNext
    BY <1>0, <1>16 DEF DriverCallsGetNext
  <1>17. CASE DriverWrites
    BY <1>0, <1>17 DEF DriverWrites
  <1>18. CASE GetNextWait
    BY <1>0, <1>18 DEF GetNextWait
  <1>19. CASE GetNextAborted
    BY <1>0, <1>19 DEF GetNextAborted
  <1>20. CASE GetNextEnd
    BY <1>0, <1>20 DEF GetNextEnd
  <1>21. CASE GetNextBatch
    <2> DEFINE q == pending_batches
    <2> DEFINE k == Len(pending_batches)
    <2>1. q \in Seq(Batch) /\ k \in Nat /\ read \in Nat /\ Handed \in Nat
      BY DEF IInv, TypeOK
    <2>2. /\ q # <<>> /\ q' = Tail(q) /\ read' = Head(q).to
          /\ Handed' = Handed /\ producer # "destroyed"
      BY <1>21 DEF GetNextBatch, NotifyNotFull, IInv, Control
    <2>3. k >= 1 /\ Head(q) = q[1] /\ Len(q') = k - 1 /\ \A i \in 1..k - 1 : q'[i] = q[i + 1]
      BY <2>1, <2>2
    <2>4. \A i \in 1..k : q[i].from \in Nat /\ q[i].to \in Nat
      BY <2>1 DEF Batch
    <2>5. \A i \in 1..k - 1 : i + 1 \in 1..k /\ 1 < i + 1
      BY <2>1
    <2>6. 1 \in 1..k
      BY <2>1, <2>3
    <2>7. \A i \in 1..k - 1 : read' <= q'[i].from /\ q'[i].to <= Handed'
      BY <2>2, <2>3, <2>5, <2>6 DEF Queued
    <2>8. \A i, j \in 1..k - 1 : i < j => q'[i].to <= q'[j].from
      <3> SUFFICES ASSUME NEW i \in 1..k - 1, NEW j \in 1..k - 1, i < j
                   PROVE  q'[i].to <= q'[j].from
        OBVIOUS
      <3>1. i + 1 < j + 1
        OBVIOUS
      <3> QED
        BY <2>3, <2>5, <3>1 DEF Queued
    <2>9. ASSUME NEW r \in (read' + 1)..Handed'
          PROVE  \E i \in 1..k - 1 : q'[i].from < r /\ r <= q'[i].to
      <3>1. read <= q[1].from /\ q[1].from < q[1].to
        BY <2>1, <2>6 DEF Queued, Batch
      <3>2. r \in (read + 1)..Handed /\ q[1].to < r
        BY <2>1, <2>2, <2>3, <2>4, <2>6, <3>1
      <3>3. PICK i \in 1..k : q[i].from < r /\ r <= q[i].to
        BY <2>2, <3>2 DEF Queued
      <3>4. i # 1
        BY <2>4, <2>6, <3>2, <3>3
      <3>5. i - 1 \in 1..k - 1 /\ q'[i - 1] = q[i]
        BY <2>1, <2>3, <3>4
      <3> QED
        BY <3>3, <3>5
    <2> QED
      BY <2>2, <2>3, <2>7, <2>8, <2>9 DEF Queued
  <1>22. CASE ExecuteUpdateReturns
    BY <1>0, <1>22 DEF ExecuteUpdateReturns
  <1>23. CASE ExecuteUpdateThrows
    BY <1>0, <1>23 DEF ExecuteUpdateThrows
  <1>24. CASE MarkConsumerStopped
    BY <1>0, <1>24 DEF MarkConsumerStopped, NotifyNotFull
  <1>25. CASE SpuriousWakeup
    BY <1>0, <1>25 DEF SpuriousWakeup
  <1>26. CASE UNCHANGED vars
    BY <1>0, <1>26 DEF vars
  <1> QED
    BY <1>1, <1>2, <1>3, <1>4, <1>5, <1>6, <1>7, <1>8, <1>9, <1>10, <1>11,
       <1>12, <1>13, <1>14, <1>15, <1>16, <1>17, <1>18, <1>19, <1>20, <1>21,
       <1>22, <1>23, <1>24, <1>25, <1>26 DEF Next, EngineStep, ProducerStep,
       ConsumerStep

\* The refused batch holds what was not handed over.
LEMMA RefusedStep == IInv /\ Refused /\ [Next]_vars => Refused'
  <1> SUFFICES ASSUME IInv, Refused, [Next]_vars PROVE Refused'
    OBVIOUS
  <1>0. /\ source \in Nat /\ input \in Nat /\ rows_inserted \in Nat
        /\ source = rows_inserted + input
    BY DEF IInv, TypeOK, Count
  <1> USE DEF stream, exec, engine, driver
  <1>1. CASE AdbcInsertInitGlobal
    BY <1>0, <1>1 DEF AdbcInsertInitGlobal, Refused, IInv, Control, Count
  <1>2. CASE AdbcInsertInitGlobalThrows
    BY <1>0, <1>2 DEF AdbcInsertInitGlobalThrows, Refused, IInv, Control, Count
  <1>3. CASE AdbcInsertInOutEmpty
    BY <1>0, <1>3 DEF AdbcInsertInOutEmpty, vars, Refused, IInv, Control, Count
  <1>4. ASSUME NEW n \in ChunkSizes, AdbcInsertInOut(n) PROVE Refused'
    BY <1>0, <1>4 DEF AdbcInsertInOut, Refused, IInv, Control, Count
  <1>5. CASE AdbcInsertFinalize
    BY <1>0, <1>5 DEF AdbcInsertFinalize, NotifyNotEmpty, Refused, IInv, Control, Count
  <1>6. CASE EngineCancel
    BY <1>0, <1>6 DEF EngineCancel, Refused, IInv, Control, Count
  <1>7. CASE AddBatchWait
    BY <1>0, <1>7 DEF AddBatchWait, Refused, IInv, Control, Count
  <1>8. CASE AddBatchRefused
    <2>1. /\ producer = "adding" /\ producer' = "refused" /\ freed' = {batch}
          /\ UNCHANGED <<source, rows_inserted>>
      BY <1>8 DEF AddBatchRefused, Refused
    <2>2. batch.from = rows_inserted /\ batch.to = source
      BY <1>0 DEF batch
    <2>3. \A b \in freed' : rows_inserted' <= b.from
      BY <1>0, <2>1, <2>2
    <2>4. \A r \in (rows_inserted' + 1)..source' : \E b \in freed' : b.from < r /\ r <= b.to
      BY <1>0, <2>1, <2>2
    <2> QED
      BY <2>1, <2>3, <2>4 DEF Refused
  <1>9. CASE AddBatchPush
    BY <1>0, <1>9 DEF AddBatchPush, NotifyNotEmpty, Refused, IInv, Control, Count
  <1>10. CASE AdbcInsertInOutReturn
    BY <1>0, <1>10 DEF AdbcInsertInOutReturn, Refused, IInv, Control, Count
  <1>11. CASE AdbcInsertInOutThrow
    BY <1>0, <1>11 DEF AdbcInsertInOutThrow, Refused, IInv, Control, Count
  <1>12. CASE AdbcInsertFinalizeReturn
    BY <1>0, <1>12 DEF AdbcInsertFinalizeReturn, Joined, Refused, IInv, Control, Count
  <1>13. CASE DestroyAbort
    BY <1>0, <1>13 DEF DestroyAbort, NotifyNotEmpty, Refused, IInv, Control, Count
  <1>14. CASE DestroyJoin
    BY <1>14 DEF DestroyJoin, Refused
  <1>15. CASE DriverGetSchema
    BY <1>0, <1>15 DEF DriverGetSchema, Refused, IInv, Control, Count
  <1>16. CASE DriverCallsGetNext
    BY <1>0, <1>16 DEF DriverCallsGetNext, Refused, IInv, Control, Count
  <1>17. CASE DriverWrites
    BY <1>0, <1>17 DEF DriverWrites, Refused, IInv, Control, Count
  <1>18. CASE GetNextWait
    BY <1>0, <1>18 DEF GetNextWait, Refused, IInv, Control, Count
  <1>19. CASE GetNextAborted
    BY <1>0, <1>19 DEF GetNextAborted, Refused, IInv, Control, Count
  <1>20. CASE GetNextEnd
    BY <1>0, <1>20 DEF GetNextEnd, Refused, IInv, Control, Count
  <1>21. CASE GetNextBatch
    BY <1>0, <1>21 DEF GetNextBatch, NotifyNotFull, Refused, IInv, Control, Count
  <1>22. CASE ExecuteUpdateReturns
    BY <1>0, <1>22 DEF ExecuteUpdateReturns, Refused, IInv, Control, Count
  <1>23. CASE ExecuteUpdateThrows
    BY <1>0, <1>23 DEF ExecuteUpdateThrows, Refused, IInv, Control, Count
  <1>24. CASE MarkConsumerStopped
    BY <1>0, <1>24 DEF MarkConsumerStopped, NotifyNotFull, Refused, IInv, Control, Count
  <1>25. CASE SpuriousWakeup
    BY <1>0, <1>25 DEF SpuriousWakeup, Refused, IInv, Control, Count
  <1>26. CASE UNCHANGED vars
    BY <1>26 DEF vars, Refused
  <1> QED
    BY <1>1, <1>2, <1>3, <1>4, <1>5, <1>6, <1>7, <1>8, <1>9, <1>10, <1>11,
       <1>12, <1>13, <1>14, <1>15, <1>16, <1>17, <1>18, <1>19, <1>20, <1>21,
       <1>22, <1>23, <1>24, <1>25, <1>26 DEF Next, EngineStep, ProducerStep,
       ConsumerStep

\* Batches the driver did not take are released, by AddBatch when it refuses one
\* or by the stream's destructor, and none that it took.
LEMMA ReleasedStep ==
  IInv /\ Queued /\ Refused /\ BatchesReleased /\ [Next]_vars => BatchesReleased'
  <1> SUFFICES ASSUME IInv, Queued, Refused, BatchesReleased, [Next]_vars
               PROVE  BatchesReleased'
    OBVIOUS
  <1>0. /\ source \in Nat /\ input \in Nat /\ rows_inserted \in Nat /\ read \in Nat
        /\ source = rows_inserted + input /\ freed \subseteq Batch
    BY DEF IInv, TypeOK, Count
  <1> USE DEF stream, exec, engine, driver
  <1> DEFINE Steady == /\ UNCHANGED <<freed, read>>
                       /\ \/ producer' # "destroyed"
                          \/ producer = "destroyed" /\ UNCHANGED source
  <1>a. ASSUME Steady PROVE BatchesReleased'
    BY <1>a DEF BatchesReleased
  <1>1. CASE AdbcInsertInitGlobal
    BY <1>a, <1>1 DEF AdbcInsertInitGlobal
  <1>2. CASE AdbcInsertInitGlobalThrows
    BY <1>a, <1>2 DEF AdbcInsertInitGlobalThrows
  <1>3. CASE AdbcInsertInOutEmpty
    BY <1>a, <1>3 DEF AdbcInsertInOutEmpty, vars
  <1>4. ASSUME NEW n \in ChunkSizes, AdbcInsertInOut(n) PROVE BatchesReleased'
    BY <1>a, <1>4 DEF AdbcInsertInOut
  <1>5. CASE AdbcInsertFinalize
    BY <1>a, <1>5 DEF AdbcInsertFinalize, NotifyNotEmpty
  <1>6. CASE EngineCancel
    BY <1>a, <1>6 DEF EngineCancel
  <1>7. CASE AddBatchWait
    BY <1>a, <1>7 DEF AddBatchWait
  <1>8. CASE AddBatchRefused
    <2>1. /\ producer = "adding" /\ producer' = "refused" /\ freed' = freed \cup {batch}
          /\ UNCHANGED read
      BY <1>8 DEF AddBatchRefused
    <2>2. read <= batch.from
      BY <1>0, <2>1, ReadIsHanded DEF batch, Handed
    <2> QED
      BY <2>1, <2>2 DEF BatchesReleased
  <1>9. CASE AddBatchPush
    BY <1>a, <1>9 DEF AddBatchPush, NotifyNotEmpty
  <1>10. CASE AdbcInsertInOutReturn
    BY <1>a, <1>10 DEF AdbcInsertInOutReturn
  <1>11. CASE AdbcInsertInOutThrow
    BY <1>a, <1>11 DEF AdbcInsertInOutThrow
  <1>12. CASE AdbcInsertFinalizeReturn
    BY <1>a, <1>12 DEF AdbcInsertFinalizeReturn, Joined
  <1>13. CASE DestroyAbort
    BY <1>a, <1>13 DEF DestroyAbort, NotifyNotEmpty
  <1>14. CASE DestroyJoin
    <2> DEFINE q == pending_batches
    <2>1. /\ producer = "destroying" /\ UNCHANGED <<read, source>>
          /\ freed' = freed \cup {q[i] : i \in DOMAIN q}
      BY <1>14 DEF DestroyJoin
    <2>2. DOMAIN q = 1..Len(q)
      BY DEF IInv, TypeOK
    <2>3. \A b \in freed' : read' <= b.from
      BY <2>1, <2>2 DEF Queued, BatchesReleased
    <2>4. ASSUME NEW r \in (read + 1)..source PROVE \E b \in freed' : b.from < r /\ r <= b.to
      <3>1. CASE r <= rows_inserted
        <4>1. r \in (read + 1)..Handed
          BY <1>0, <2>1, <3>1 DEF Handed
        <4>2. PICK i \in 1..Len(q) : q[i].from < r /\ r <= q[i].to
          BY <2>1, <4>1 DEF Queued
        <4> QED
          BY <2>1, <2>2, <4>2
      <3>2. CASE rows_inserted < r
        <4>1. r \in (rows_inserted + 1)..source
          BY <1>0, <3>2
        <4> QED
          BY <2>1, <4>1 DEF Refused
      <3> QED
        BY <1>0, <3>1, <3>2
    <2> QED
      BY <2>1, <2>3, <2>4 DEF BatchesReleased
  <1>15. CASE DriverGetSchema
    BY <1>a, <1>15 DEF DriverGetSchema
  <1>16. CASE DriverCallsGetNext
    BY <1>a, <1>16 DEF DriverCallsGetNext
  <1>17. CASE DriverWrites
    BY <1>a, <1>17 DEF DriverWrites
  <1>18. CASE GetNextWait
    BY <1>a, <1>18 DEF GetNextWait
  <1>19. CASE GetNextAborted
    BY <1>a, <1>19 DEF GetNextAborted
  <1>20. CASE GetNextEnd
    BY <1>a, <1>20 DEF GetNextEnd
  <1>21. CASE GetNextBatch
    <2>1. /\ pending_batches # <<>> /\ read' = Head(pending_batches).to
          /\ UNCHANGED freed /\ producer # "destroyed" /\ producer' # "destroyed"
      BY <1>21 DEF GetNextBatch, NotifyNotFull, IInv, Control
    <2>2. /\ 1 \in 1..Len(pending_batches) /\ Head(pending_batches) = pending_batches[1]
          /\ pending_batches[1] \in Batch
      BY <2>1 DEF IInv, TypeOK
    <2>3. read' \in Nat /\ read' <= Handed
      BY <2>1, <2>2 DEF Queued, Batch
    <2>4. ASSUME NEW b \in freed PROVE read' <= b.from
      <3>1. producer # "added"
        BY <2>4 DEF Refused
      <3>2. rows_inserted <= b.from /\ b.from \in Nat
        BY <1>0, <2>1, <2>4 DEF Refused, Batch
      <3> QED
        BY <1>0, <2>3, <3>1, <3>2 DEF Handed
    <2> QED
      BY <2>1, <2>4 DEF BatchesReleased
  <1>22. CASE ExecuteUpdateReturns
    BY <1>a, <1>22 DEF ExecuteUpdateReturns
  <1>23. CASE ExecuteUpdateThrows
    BY <1>a, <1>23 DEF ExecuteUpdateThrows
  <1>24. CASE MarkConsumerStopped
    BY <1>a, <1>24 DEF MarkConsumerStopped, NotifyNotFull
  <1>25. CASE SpuriousWakeup
    BY <1>a, <1>25 DEF SpuriousWakeup
  <1>26. CASE UNCHANGED vars
    BY <1>a, <1>26 DEF vars
  <1> QED
    BY <1>1, <1>2, <1>3, <1>4, <1>5, <1>6, <1>7, <1>8, <1>9, <1>10, <1>11,
       <1>12, <1>13, <1>14, <1>15, <1>16, <1>17, <1>18, <1>19, <1>20, <1>21,
       <1>22, <1>23, <1>24, <1>25, <1>26 DEF Next, EngineStep, ProducerStep,
       ConsumerStep

\* Every batch is the driver's or released by the extension, and never both,
\* whichever of refusal, cancellation and failure ends the query.
THEOREM NothingLeaks == Spec => []BatchesReleased
  <1> DEFINE Release == Queued /\ Refused /\ BatchesReleased
  <1>1. Init => Release
    BY DEF Init, Queued, Refused, BatchesReleased, Handed
  <1>2. IInv /\ Release /\ [Next]_vars => Release'
    BY QueuedStep, RefusedStep, ReleasedStep
  <1>3. Release => BatchesReleased
    OBVIOUS
  <1> QED
    BY Invariance, <1>1, <1>2, <1>3, PTL DEF Spec

=============================================================================
