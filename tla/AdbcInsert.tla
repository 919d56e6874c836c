---------------------------- MODULE AdbcInsert ----------------------------
(***************************************************************************)
(* adbc_insert (src/src/adbc_insert.cpp): a DuckDB worker pushes batches   *)
(* through a bounded blocking ArrowArrayStream to a driver that pulls them *)
(* from inside ExecuteUpdate, on a thread of its own.                      *)
(*                                                                         *)
(* Two threads run: the producer (the one in-out worker, MaxThreads() = 1, *)
(* which also destroys the global state) and the consumer (exec_thread).   *)
(* A critical section of AdbcInsertStream::lock is one action.  A thread   *)
(* that waits on a condition variable sits in "blocked" (cv_not_full) or   *)
(* "waiting" (cv_not_empty) until it is notified, so a missing notify is a *)
(* lost wake-up here as it is in the program.                              *)
(*                                                                         *)
(* Source rows are numbered in the order the engine produces them and a    *)
(* batch is the interval of rows from+1..to: order, loss and duplication   *)
(* show in the intervals, and the rows' contents are left out.             *)
(***************************************************************************)
EXTENDS Integers, Sequences

CONSTANTS
  SourceRows,       \* bound: rows the source query yields at most
  ChunkSizes,       \* sizes a DataChunk may have, 0 included
  MaxBatchesParam,  \* max_batches := n of the call, 0 when not given
  EnvSetting,       \* what strtol reads in ADBC_INSERT_MAX_PENDING_BATCHES,
                    \* 0 when the variable is unset or holds no number
  DefaultMaxPendingBatches,
  Transactional     \* the driver makes rows visible only when it succeeds

ASSUME InsertAssumption ==
  /\ SourceRows \in Nat
  /\ ChunkSizes \subseteq Nat
  /\ MaxBatchesParam \in Int
  /\ EnvSetting \in Int
  /\ DefaultMaxPendingBatches \in Nat \ {0}
  /\ Transactional \in BOOLEAN

VARIABLES
  \* AdbcInsertStream
  pending_batches, finished, aborted, consumer_stopped, consumer_error,
  \* AdbcInsertGlobalState
  joinable,         \* exec_thread.joinable()
  stream_bound, exec_ok, exec_error, rows_inserted,
  \* the calling thread and the engine that drives it
  producer,         \* where the producer is
  source,           \* rows the engine has given to AdbcInsertInOut
  input,            \* input.size() of the call in progress, 0 between calls
  reported,         \* rows_inserted as returned to the query, or NoCount
  thrown,           \* the reason of the exception the query ends with
  freed,            \* batches the extension has released itself
  \* the consumer thread and the driver it runs (external)
  consumer,         \* where the consumer is
  read,             \* rows the driver has taken from the stream
  remote            \* rows the target table holds

stream  == <<pending_batches, finished, aborted, consumer_stopped, consumer_error>>
exec    == <<exec_ok, exec_error>>
engine  == <<source, input, reported, thrown>>
driver  == <<read, remote>>
vars == <<pending_batches, finished, aborted, consumer_stopped, consumer_error,
          joinable, stream_bound, exec_ok, exec_error, rows_inserted,
          producer, source, input, reported, thrown, freed,
          consumer, read, remote>>

\* An Arrow batch, never an empty one.
Batch == {b \in [from : Nat, to : Nat] : b.from < b.to}
NoCount == -1
Error == {"none", "setup", "cancelled", "driver", "aborted",
          "terminated"}

\* Per-call parameter, then environment, then default.
ResolveMaxPendingBatches(override_value) ==
  IF override_value > 0 THEN override_value
  ELSE IF EnvSetting > 0 THEN EnvSetting
  ELSE DefaultMaxPendingBatches

max_batches == ResolveMaxPendingBatches(MaxBatchesParam)

Init ==
  /\ pending_batches = <<>>
  /\ finished = FALSE /\ aborted = FALSE
  /\ consumer_stopped = FALSE /\ consumer_error = "none"
  /\ joinable = FALSE /\ stream_bound = FALSE
  /\ exec_ok = FALSE /\ exec_error = "none"
  /\ rows_inserted = 0
  /\ producer = "init" /\ source = 0 /\ input = 0
  /\ reported = NoCount /\ thrown = "none" /\ freed = {}
  /\ consumer = "none" /\ read = 0 /\ remote = 0

-----------------------------------------------------------------------------
(* The two condition variables and the predicates waited on.               *)

HasRoom_OffByOne == Len(pending_batches) <= max_batches
HasRoom == Len(pending_batches) < max_batches

Stopped == consumer_stopped \/ aborted

NotifyNotFull == producer' = IF producer = "blocked" THEN "adding" ELSE producer
NotifyNotEmpty == consumer' = IF consumer = "waiting" THEN "pulling" ELSE consumer

\* The standard allows a wait to return for no reason.
SpuriousWakeup ==
  \/ /\ producer = "blocked"
     /\ producer' = "adding"
     /\ UNCHANGED consumer
     /\ UNCHANGED <<stream, joinable, stream_bound, exec, rows_inserted, engine, freed, driver>>
  \/ /\ consumer = "waiting"
     /\ consumer' = "pulling"
     /\ UNCHANGED producer
     /\ UNCHANGED <<stream, joinable, stream_bound, exec, rows_inserted, engine, freed, driver>>

-----------------------------------------------------------------------------
(* The producer thread.                                                    *)

\* AdbcInsertInitGlobal: statement, options, schema and BindStream in turn,
\* then StartConsumer.  Nothing else runs yet, so the steps are one action.
AdbcInsertInitGlobal ==
  /\ producer = "init"
  /\ producer' = "ready"
  /\ stream_bound' = TRUE
  /\ joinable' = TRUE
  /\ consumer' = "starting"
  /\ UNCHANGED <<stream, exec, rows_inserted, engine, freed, driver>>

\* One of those calls throws: before BindStream succeeded, or (the thread
\* could not be created) after it.
AdbcInsertInitGlobalThrows ==
  /\ producer = "init"
  /\ producer' = "failed"
  /\ stream_bound' \in BOOLEAN
  /\ thrown' = "setup"
  /\ UNCHANGED <<stream, joinable, exec, rows_inserted, source, input, reported,
                 freed, consumer, driver>>

\* AdbcInsertInOut with an empty chunk returns at once.
AdbcInsertInOutEmpty ==
  /\ producer = "ready"
  /\ 0 \in ChunkSizes
  /\ UNCHANGED vars

AdbcInsertInOut_EmptyToo(n) ==
  /\ producer = "ready"
  /\ source + n <= SourceRows
  /\ source' = source + n
  /\ input' = n
  /\ producer' = "adding"
  /\ UNCHANGED <<stream, joinable, stream_bound, exec, rows_inserted, reported,
                 thrown, freed, consumer, driver>>

\* AdbcInsertInOut converts a chunk of n rows and calls AddBatch.
AdbcInsertInOut(n) ==
  /\ producer = "ready"
  /\ n > 0 /\ source + n <= SourceRows
  /\ source' = source + n
  /\ input' = n
  /\ producer' = "adding"
  /\ UNCHANGED <<stream, joinable, stream_bound, exec, rows_inserted, reported,
                 thrown, freed, consumer, driver>>

\* The batch AddBatch is called with.
batch == [from |-> source - input, to |-> source]

AddBatchWait ==
  /\ producer = "adding"
  /\ ~HasRoom /\ ~Stopped
  /\ producer' = "blocked"
  /\ UNCHANGED <<stream, joinable, stream_bound, exec, rows_inserted, engine,
                 freed, consumer, driver>>

AddBatchRefused_Leak ==
  /\ producer = "adding"
  /\ Stopped
  /\ producer' = "refused"
  /\ UNCHANGED <<stream, joinable, stream_bound, exec, rows_inserted, engine,
                 freed, consumer, driver>>

AddBatchRefused ==
  /\ producer = "adding"
  /\ Stopped
  /\ freed' = freed \cup {batch}
  /\ producer' = "refused"
  /\ UNCHANGED <<stream, joinable, stream_bound, exec, rows_inserted, engine,
                 consumer, driver>>

AddBatchPush ==
  /\ producer = "adding"
  /\ HasRoom /\ ~Stopped
  /\ pending_batches' = Append(pending_batches, batch)
  /\ NotifyNotEmpty
  /\ producer' = "added"
  /\ UNCHANGED <<finished, aborted, consumer_stopped, consumer_error, joinable,
                 stream_bound, exec, rows_inserted, engine, freed, driver>>

\* AddBatch returned true: count the rows and ask for more input.
AdbcInsertInOutReturn ==
  /\ producer = "added"
  /\ rows_inserted' = rows_inserted + input
  /\ input' = 0
  /\ producer' = "ready"
  /\ UNCHANGED <<stream, joinable, stream_bound, exec, source, reported, thrown,
                 freed, consumer, driver>>

\* AddBatch returned false: throw with what GetConsumerError says.
AdbcInsertInOutThrow ==
  /\ producer = "refused"
  /\ thrown' = IF consumer_error = "none" THEN "terminated" ELSE consumer_error
  /\ producer' = "failed"
  /\ UNCHANGED <<stream, joinable, stream_bound, exec, rows_inserted, source, input,
                 reported, freed, consumer, driver>>

\* The engine gives the query up between two calls: an interrupt, or an
\* exception of another operator.
EngineCancel ==
  /\ producer = "ready"
  /\ thrown' = "cancelled"
  /\ producer' = "failed"
  /\ UNCHANGED <<stream, joinable, stream_bound, exec, rows_inserted, source, input,
                 reported, freed, consumer, driver>>

AdbcInsertFinalize_NoNotify ==
  /\ producer = "ready"
  /\ finished' = TRUE
  /\ producer' = "joining"
  /\ UNCHANGED <<pending_batches, aborted, consumer_stopped, consumer_error, joinable,
                 stream_bound, exec, rows_inserted, engine, freed, consumer, driver>>

\* AdbcInsertFinalize: Finish() ...
AdbcInsertFinalize ==
  /\ producer = "ready"
  /\ finished' = TRUE
  /\ NotifyNotEmpty
  /\ producer' = "joining"
  /\ UNCHANGED <<pending_batches, aborted, consumer_stopped, consumer_error, joinable,
                 stream_bound, exec, rows_inserted, engine, freed, driver>>

Joined_Detached == TRUE

\* JoinConsumer: join() returns when the thread has exited.
Joined == joinable => consumer = "exited"

AdbcInsertFinalizeReturn_IgnoreExecOk ==
  /\ producer = "joining"
  /\ Joined
  /\ joinable' = FALSE
  /\ reported' = rows_inserted
  /\ producer' = "succeeded"
  /\ UNCHANGED <<stream, stream_bound, exec, rows_inserted, source, input, thrown, freed,
                 consumer, driver>>

\* ... JoinConsumer(), then throw or return the count.
AdbcInsertFinalizeReturn ==
  /\ producer = "joining"
  /\ Joined
  /\ joinable' = FALSE
  /\ \/ /\ stream_bound /\ ~exec_ok
        /\ thrown' = exec_error
        /\ producer' = "failed"
        /\ UNCHANGED reported
     \/ /\ ~(stream_bound /\ ~exec_ok)
        /\ reported' = rows_inserted
        /\ producer' = "succeeded"
        /\ UNCHANGED thrown
  /\ UNCHANGED <<stream, stream_bound, exec, rows_inserted, source, input, freed,
                 consumer, driver>>

DestroyAbort_NoNotify ==
  /\ producer \in {"failed", "succeeded"}
  /\ aborted' = (joinable \/ aborted)
  /\ producer' = "destroying"
  /\ UNCHANGED <<pending_batches, finished, consumer_stopped, consumer_error, joinable,
                 stream_bound, exec, rows_inserted, engine, freed, consumer, driver>>

DestroyAbort_Finish ==
  /\ producer \in {"failed", "succeeded"}
  /\ IF joinable THEN finished' = TRUE /\ NotifyNotEmpty
                 ELSE UNCHANGED <<finished, consumer>>
  /\ producer' = "destroying"
  /\ UNCHANGED <<pending_batches, aborted, consumer_stopped, consumer_error, joinable,
                 stream_bound, exec, rows_inserted, engine, freed, driver>>

\* ~AdbcInsertGlobalState: Abort() when the thread was not joined yet ...
DestroyAbort ==
  /\ producer \in {"failed", "succeeded"}
  /\ IF joinable THEN aborted' = TRUE /\ NotifyNotEmpty
                 ELSE UNCHANGED <<aborted, consumer>>
  /\ producer' = "destroying"
  /\ UNCHANGED <<pending_batches, finished, consumer_stopped, consumer_error, joinable,
                 stream_bound, exec, rows_inserted, engine, freed, driver>>

\* ... JoinConsumer(), then the members: ~AdbcInsertStream releases what is
\* still queued.
DestroyJoin ==
  /\ producer = "destroying"
  /\ Joined
  /\ joinable' = FALSE
  /\ freed' = freed \cup {pending_batches[i] : i \in DOMAIN pending_batches}
  /\ pending_batches' = <<>>
  /\ producer' = "destroyed"
  /\ UNCHANGED <<finished, aborted, consumer_stopped, consumer_error, stream_bound,
                 exec, rows_inserted, engine, consumer, driver>>

-----------------------------------------------------------------------------
(* The consumer thread: ExecuteUpdate of the driver, and the callbacks of  *)
(* the stream that it calls.                                               *)

\* The driver asks for the schema, which SetSchema put in place before
\* BindStream: get_schema never answers EINVAL here.
DriverGetSchema ==
  /\ consumer = "starting"
  /\ consumer' = "executing"
  /\ UNCHANGED <<stream, joinable, stream_bound, exec, rows_inserted, producer,
                 engine, freed, driver>>

DriverCallsGetNext ==
  /\ consumer = "executing"
  /\ consumer' = "pulling"
  /\ UNCHANGED <<stream, joinable, stream_bound, exec, rows_inserted, producer,
                 engine, freed, driver>>

GetNextWait ==
  /\ consumer = "pulling"
  /\ pending_batches = <<>> /\ ~finished /\ ~aborted
  /\ consumer' = "waiting"
  /\ UNCHANGED <<stream, joinable, stream_bound, exec, rows_inserted, producer,
                 engine, freed, driver>>

\* EIO, only once the queue is empty.
GetNextAborted ==
  /\ consumer = "pulling"
  /\ aborted /\ pending_batches = <<>>
  /\ consumer' = "broken"
  /\ UNCHANGED <<stream, joinable, stream_bound, exec, rows_inserted, producer,
                 engine, freed, driver>>

\* Finished and drained: end of stream.
GetNextEnd ==
  /\ consumer = "pulling"
  /\ ~aborted /\ finished /\ pending_batches = <<>>
  /\ consumer' = "eos"
  /\ UNCHANGED <<stream, joinable, stream_bound, exec, rows_inserted, producer,
                 engine, freed, driver>>

GetNextBatch_NoPop ==
  /\ consumer = "pulling"
  /\ pending_batches # <<>>
  /\ read' = Head(pending_batches).to
  /\ NotifyNotFull
  /\ consumer' = "executing"
  /\ UNCHANGED <<stream, joinable, stream_bound, exec, rows_inserted, engine, freed, remote>>

GetNextBatch ==
  /\ consumer = "pulling"
  /\ pending_batches # <<>>
  /\ read' = Head(pending_batches).to
  /\ pending_batches' = Tail(pending_batches)
  /\ NotifyNotFull
  /\ consumer' = "executing"
  /\ UNCHANGED <<finished, aborted, consumer_stopped, consumer_error, joinable,
                 stream_bound, exec, rows_inserted, engine, freed, remote>>

\* The driver writes as it reads; within a transaction of its own nobody sees
\* that before ExecuteUpdate returns.
DriverWrites ==
  /\ consumer = "executing"
  /\ remote # read
  /\ remote' = IF Transactional THEN remote ELSE read
  /\ UNCHANGED <<stream, joinable, stream_bound, exec, rows_inserted, producer,
                 engine, freed, consumer, read>>

\* ExecuteUpdate returns: the driver has read the stream to its end and
\* stored all of it.
ExecuteUpdateReturns ==
  /\ consumer = "eos"
  /\ remote' = read
  /\ exec_ok' = TRUE
  /\ consumer' = "returning"
  /\ UNCHANGED <<stream, joinable, stream_bound, exec_error, rows_inserted, producer,
                 engine, freed, read>>

\* ExecuteUpdate throws: on a failure of its own, at any point, or because
\* GetNext returned EIO.
ExecuteUpdateThrows ==
  /\ \/ /\ consumer \in {"starting", "executing", "eos"}
        /\ exec_error' = "driver"
     \/ /\ consumer = "broken"
        /\ exec_error' = "aborted"
  /\ exec_ok' = FALSE
  /\ consumer' = "returning"
  /\ UNCHANGED <<stream, joinable, stream_bound, rows_inserted, producer, engine,
                 freed, driver>>

MarkConsumerStopped_NoError ==
  /\ consumer = "returning"
  /\ consumer_stopped' = TRUE
  /\ NotifyNotFull
  /\ consumer' = "exited"
  /\ UNCHANGED <<pending_batches, finished, aborted, consumer_error, joinable, stream_bound,
                 exec, rows_inserted, engine, freed, driver>>

\* The last thing the thread does, on every path out of ExecuteUpdate.
MarkConsumerStopped ==
  /\ consumer = "returning"
  /\ consumer_stopped' = TRUE
  /\ consumer_error' = IF exec_error = "none" THEN consumer_error ELSE exec_error
  /\ NotifyNotFull
  /\ consumer' = "exited"
  /\ UNCHANGED <<pending_batches, finished, aborted, joinable, stream_bound, exec,
                 rows_inserted, engine, freed, driver>>

-----------------------------------------------------------------------------
EngineStep ==
  \/ AdbcInsertInitGlobal \/ AdbcInsertInitGlobalThrows
  \/ AdbcInsertInOutEmpty
  \/ \E n \in ChunkSizes : AdbcInsertInOut(n)
  \/ AdbcInsertFinalize \/ EngineCancel

ProducerStep ==
  \/ AddBatchWait \/ AddBatchRefused \/ AddBatchPush
  \/ AdbcInsertInOutReturn \/ AdbcInsertInOutThrow
  \/ AdbcInsertFinalizeReturn \/ DestroyAbort \/ DestroyJoin

ConsumerStep ==
  \/ DriverGetSchema \/ DriverCallsGetNext \/ DriverWrites
  \/ GetNextWait \/ GetNextAborted \/ GetNextEnd \/ GetNextBatch
  \/ ExecuteUpdateReturns \/ ExecuteUpdateThrows \/ MarkConsumerStopped

Next == EngineStep \/ ProducerStep \/ ConsumerStep \/ SpuriousWakeup

Spec == Init /\ [][Next]_vars

\* The engine runs a query to its end, destroying the global state whatever
\* happened; a thread that can run runs; a driver that was called keeps
\* calling back until it returns (external).  No fairness for a wake-up
\* without a notify.
FairSpec ==
  /\ Spec
  /\ WF_vars(EngineStep) /\ WF_vars(ProducerStep) /\ WF_vars(ConsumerStep)

-----------------------------------------------------------------------------
(* Invariants.                                                             *)

TypeOK ==
  /\ pending_batches \in Seq(Batch)
  /\ finished \in BOOLEAN /\ aborted \in BOOLEAN
  /\ consumer_stopped \in BOOLEAN /\ consumer_error \in Error
  /\ joinable \in BOOLEAN /\ stream_bound \in BOOLEAN
  /\ exec_ok \in BOOLEAN /\ exec_error \in Error
  /\ rows_inserted \in Nat
  /\ producer \in {"init", "ready", "adding", "blocked", "added", "refused", "joining",
                   "succeeded", "failed", "destroying", "destroyed"}
  /\ source \in Nat /\ input \in Nat /\ input <= source
  /\ reported \in Nat \cup {NoCount} /\ thrown \in Error
  /\ freed \subseteq Batch
  /\ consumer \in {"none", "starting", "executing", "pulling", "waiting", "eos",
                   "broken", "returning", "exited"}
  /\ read \in Nat /\ remote \in Nat

\* Backpressure: the queue never holds more batches than the depth the call,
\* the environment or the default resolved to, and that depth is positive
\* (adbc_insert.cpp:20-22, resident memory).
QueueBounded == max_batches > 0 /\ Len(pending_batches) <= max_batches

\* What the driver has read and then the queue make up the rows handed over
\* so far, in order, with no gap and no overlap: nothing between AddBatch and
\* GetNext loses, repeats or reorders a batch, and rows_inserted counts it.
Handed == IF producer = "added" THEN rows_inserted + input ELSE rows_inserted
RowsFlowInOrder ==
  producer # "destroyed" =>
    /\ pending_batches = <<>> => read = Handed
    /\ pending_batches # <<>> => /\ pending_batches[1].from = read
                                 /\ pending_batches[Len(pending_batches)].to = Handed
    /\ \A i \in 1..Len(pending_batches) - 1 :
         pending_batches[i].to = pending_batches[i + 1].from

\* A reported row count is the number of rows the engine supplied and the
\* number the target table holds (the comment at adbc_insert.cpp:426: the
\* producer-side count is reliable).
ReportedRowsAreStored ==
  reported # NoCount => reported = source /\ remote = source

\* A thread is parked on a condition variable only while what it waits for
\* is false: every change that makes a predicate true notifies its waiter.
NoLostWakeup ==
  /\ producer = "blocked" => ~HasRoom /\ ~Stopped
  /\ consumer = "waiting" => pending_batches = <<>> /\ ~finished /\ ~aborted

\* The two threads never wait on each other, on any pair of the program's
\* waits: cv_not_full, cv_not_empty and the join of exec_thread.
NoMutualWait ==
  consumer = "waiting" => producer \notin {"blocked", "joining", "destroying"}

\* The thread that uses statement and insert_stream has exited before the
\* global state that owns them is gone, and is never left joinable.
ThreadOutlived ==
  producer = "destroyed" => ~joinable /\ consumer \in {"none", "exited"}

\* A query that adbc_insert ends with an exception is told why: the driver's
\* own error reaches it, the "terminated" fallback is never used,
\* and a failed Finalize never has an empty reason.
FailureIsExplained ==
  /\ thrown # "terminated"
  /\ producer = "failed" => thrown # "none"

\* Every row given to a batch that the driver did not take was released by
\* the extension, in a batch that was not also handed over.
BatchesReleased ==
  /\ \A b \in freed : read <= b.from
  /\ producer = "destroyed" =>
       \A r \in (read + 1)..source : \E b \in freed : b.from < r /\ r <= b.to

\* With a driver that commits a stream as a whole, a query that did not
\* report success leaves no row behind: Abort, unlike Finish, never lets the
\* driver see a clean end of stream.
CancelledLeavesNothing ==
  Transactional /\ producer = "destroyed" /\ reported = NoCount => remote = 0

-----------------------------------------------------------------------------
(* Behaviour.                                                              *)

\* Once ExecuteUpdate has returned nothing enters the queue, and the target
\* does not move: an action property over both threads.
NothingAfterStop ==
  [][consumer_stopped => /\ Len(pending_batches') <= Len(pending_batches)
                         /\ UNCHANGED <<read, remote>>]_vars

\* Every query ends with its global state destroyed and the thread gone.
QueryEnds == <>(producer = "destroyed" /\ consumer \in {"none", "exited"})

\* adbc_insert keeps the promise of BulkIngest.
Outcome == IF reported # NoCount THEN "ok"
           ELSE IF producer = "destroyed" THEN "failed" ELSE "running"
Ingest == INSTANCE BulkIngest WITH
            AllOrNothing <- Transactional,
            supplied <- source, table <- remote, outcome <- Outcome,
            count <- IF reported = NoCount THEN 0 ELSE reported
KeepsPromise == Ingest!Spec

=============================================================================
