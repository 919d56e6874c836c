----------------------------- MODULE AdbcScan -----------------------------
(***************************************************************************)
(* The scans of src/src/adbc_scan.cpp: adbc_scan (any query), the function *)
(* adbc_scan_table (a table, with projection pushdown), and adbc_scan_table*)
(* as GetScanFunction (storage/adbc_table_entry.cpp) calls it for a table  *)
(* of an attached database, whose columns the engine knows from the        *)
(* catalog cache.                                                          *)
(*                                                                         *)
(* One plan is bound once and may be executed several times.  Binding runs *)
(* the query only to learn the schema of its result; every execution runs  *)
(* it again, and the remote table may have been altered in between.  The   *)
(* stream is read one batch at a time, and a batch is handed over in       *)
(* chunks of at most VectorSize rows, while the progress bar of the engine *)
(* reads `done' and the row counts without the mutex.                      *)
(*                                                                         *)
(* A value of the result is known by its row number and its column; rows   *)
(* are numbered in the order the driver sends them.                        *)
(***************************************************************************)
EXTENDS Integers, Sequences, Subsequences

CONSTANTS
  Scans,         \* which of the three the plan may hold
  Column, Type,  \* names and types of remote columns
  Schema,        \* the schemas the table may have
  RowId,         \* the virtual column the engine may ask for
  VectorSize,    \* STANDARD_VECTOR_SIZE
  RowsAffected,  \* what ExecuteQuery may say of the number of rows
  MaxColumns,    \* bound: columns the engine asks for
  MaxRows,       \* bound: rows of a result
  MaxEmpty,      \* bound: empty batches of a result
  MaxAlters,     \* bound: ALTER TABLEs at the remote database
  MaxScans       \* bound: executions of the plan

ScanKind == {"adbc_scan", "adbc_scan_table", "attached"}

\* A schema is distinct column names in their order, and the type of each.
ASSUME ScanAssumption ==
  /\ Scans \subseteq ScanKind
  /\ Schema \subseteq [cols : Seq(Column), types : [Column -> Type]]
  /\ \A s \in Schema : \A i, j \in DOMAIN s.cols : s.cols[i] = s.cols[j] => i = j
  /\ RowId \notin Nat
  /\ VectorSize \in Nat \ {0}
  /\ RowsAffected \subseteq Nat \cup {-1}
  /\ MaxColumns \in Nat /\ MaxRows \in Nat /\ MaxEmpty \in Nat /\ MaxAlters \in Nat
  /\ MaxScans \in Nat

VARIABLES
  \* the remote database
  table,           \* the schema of the table the query reads
  alters,
  sent, empties,   \* rows and empty batches sent in this execution
  \* the plan
  function,
  entry,           \* what the engine takes the columns of the table to be
  bound,           \* bind_data: the schema found by binding
  estimated,       \* bind_data.estimated_row_count, -1 for none
  column_ids, projection_ids,
  scans,           \* executions started
  \* the scan
  pc,
  statement,       \* "none", or the phase whose AdbcStatementWrapper is alive
  stream,          \* "none", or the phase whose ArrowArrayStream is open
  stream_schema,   \* the schema of the last stream
  done, total_rows_read, rows_affected,
  chunk,           \* the current batch: its first row and its length
  chunk_offset,
  delivered,       \* rows handed to the engine in this execution
  \* the progress bar
  reader, progress \* per mille, -1 for unknown

remote == <<table, alters>>
plan   == <<function, entry, bound, estimated, column_ids, projection_ids, scans>>
rows   == <<sent, empties, delivered>>
counts == <<done, total_rows_read, rows_affected>>
batch  == <<chunk, chunk_offset>>
bar    == <<reader, progress>>
handles == <<statement, stream, stream_schema>>
vars == <<table, alters, sent, empties, function, entry, bound, estimated, column_ids,
          projection_ids, scans, pc, statement, stream, stream_schema, done, total_rows_read,
          rows_affected, chunk, chunk_offset, delivered, reader, progress>>


NoChunk == [first |-> 1, length |-> 0]

Init ==
  /\ table \in Schema /\ alters = 0
  /\ sent = 0 /\ empties = 0 /\ delivered = <<>>
  /\ function \in Scans
  /\ entry \in {s \in Schema : s.cols = table.cols}
  /\ function # "attached" => entry = table
  /\ bound = table /\ estimated = -1
  /\ column_ids = <<>> /\ projection_ids = <<>> /\ scans = 0
  /\ pc = "idle" /\ statement = "none" /\ stream = "none" /\ stream_schema = table
  /\ done = FALSE /\ total_rows_read = 0 /\ rows_affected = -1
  /\ chunk = NoChunk /\ chunk_offset = 0
  /\ reader = "idle" /\ progress = -1

-----------------------------------------------------------------------------
(* The query an execution sends.                                           *)

\* Column ids the table has a name for; what is left out is a virtual column,
\* or a column the cached entry has and the bound table does not.
InRange(ids) == Keep(ids, 0 .. Len(bound.cols) - 1)

AllInOrder == [i \in 1 .. Len(bound.cols) |-> i - 1]

\* adbc_scan_table names the columns it needs, unless it needs all of them in
\* the table's order or none at all; adbc_scan sends the query it was given.
NeedsProjection_CountOnly ==
  function # "adbc_scan" /\ Len(InRange(column_ids)) \notin {0, Len(bound.cols)}

NeedsProjection ==
  /\ function # "adbc_scan"
  /\ InRange(column_ids) \notin {<<>>, AllInOrder}

Selected ==
  LET ids == InRange(column_ids)
  IN  [i \in 1 .. Len(ids) |-> bound.cols[ids[i] + 1]]

\* What the remote database makes of it, as its table stands.
Answerable == NeedsProjection => Selected \in Seq({table.cols[i] : i \in DOMAIN table.cols})

AnswerSchema == [table EXCEPT !.cols = IF NeedsProjection THEN Selected ELSE table.cols]

-----------------------------------------------------------------------------
(* Binding: the query is executed and its stream closed unread.            *)

Throw == pc' = "throwing"

PrepareForSchema ==
  /\ pc = "idle"
  /\ statement' = "bind"
  /\ pc' = "bind_prepared" \/ Throw
  /\ UNCHANGED <<remote, rows, plan, stream, stream_schema, counts, batch, bar>>

ExecuteForSchema ==
  /\ pc = "bind_prepared"
  /\ \/ /\ stream' = "bind"
        /\ stream_schema' = table
        /\ pc' = "bind_schema"
     \/ /\ Throw
        /\ UNCHANGED <<stream, stream_schema>>
  /\ UNCHANGED <<remote, rows, plan, statement, counts, batch, bar>>

GetSchemaFromStatement_Leak ==
  /\ pc = "bind_schema"
  /\ \/ /\ stream' = "none"
        /\ bound' = stream_schema
        /\ entry' = IF function = "attached" THEN entry ELSE stream_schema
        /\ pc' = "bind_types"
     \/ /\ Throw
        /\ UNCHANGED <<stream, bound, entry>>
  /\ UNCHANGED <<remote, rows, function, estimated, column_ids, projection_ids, scans,
                 statement, stream_schema, counts, batch, bar>>

\* get_schema; the stream is released whether it succeeds or not.
GetSchemaFromStatement ==
  /\ pc = "bind_schema"
  /\ stream' = "none"
  /\ \/ /\ bound' = stream_schema
        /\ entry' = IF function = "attached" THEN entry ELSE stream_schema
        /\ pc' = "bind_types"
     \/ /\ Throw
        /\ UNCHANGED <<bound, entry>>
  /\ UNCHANGED <<remote, rows, function, estimated, column_ids, projection_ids, scans,
                 statement, stream_schema, counts, batch, bar>>

\* What TryGetStatisticsFromADBC finds: a failing call, a statistic that is not
\* there or cannot be read leave no estimate; adbc_scan asks for none.
EstimatedRows == IF function = "adbc_scan" THEN {-1} ELSE {-1} \cup RowsAffected

\* PopulateReturnTypesFromSchema, which an Arrow type DuckDB does not know makes
\* throw, and TryGetStatisticsFromADBC.
FinishBind ==
  /\ pc = "bind_types"
  /\ \/ /\ statement' = "none"
        /\ estimated' \in EstimatedRows
        /\ pc' = "bound"
     \/ /\ Throw
        /\ UNCHANGED <<statement, estimated>>
  /\ UNCHANGED <<remote, rows, function, entry, bound, column_ids, projection_ids, scans,
                 stream, stream_schema, counts, batch, bar>>

\* The optimizer decides which columns it reads and in which order.  Only
\* adbc_scan, whose filters the engine applies, is told to drop some of them.
Optimize ==
  /\ pc = "bound"
  /\ LET ids == (0 .. Len(entry.cols) - 1) \cup {RowId}
     IN  \E n \in 1 .. MaxColumns : \E f \in [1 .. n -> ids] :
           column_ids' = f /\ \A i, j \in 1 .. n : f[i] = f[j] => i = j
  /\ projection_ids' \in {<<>>} \cup {<<i>> : i \in DOMAIN column_ids'}
  /\ projection_ids' # <<>> => function = "adbc_scan" /\ Len(column_ids') > 1
  /\ pc' = "planned"
  /\ UNCHANGED <<remote, rows, function, entry, bound, estimated, scans, handles, counts,
                 batch, bar>>

-----------------------------------------------------------------------------
(* AdbcScanInitGlobal and AdbcScanTableInitGlobal.                         *)

\* A filter adbc_scan_table cannot translate throws before there is a statement.
InitGlobal ==
  /\ pc = "planned"
  /\ scans < MaxScans
  /\ scans' = scans + 1
  /\ progress' = -1
  /\ \/ /\ statement' = "scan"
        /\ pc' = "prepared" \/ Throw
     \/ /\ function # "adbc_scan"
        /\ Throw
        /\ UNCHANGED statement
  /\ UNCHANGED <<remote, rows, function, entry, bound, estimated, column_ids, projection_ids,
                 stream, stream_schema, counts, batch, reader>>

\* BindParameters and ExecuteQuery.
ExecuteQuery ==
  /\ pc = "prepared"
  /\ \/ /\ Answerable
        /\ stream' = "scan"
        /\ stream_schema' = AnswerSchema
        /\ rows_affected' \in RowsAffected
        /\ pc' = IF function = "adbc_scan" THEN "scanning" ELSE "stream_schema"
     \/ /\ Throw
        /\ UNCHANGED <<stream, stream_schema, rows_affected>>
  /\ UNCHANGED <<remote, rows, plan, statement, done, total_rows_read, batch, bar>>

\* adbc_scan_table converts by the schema of the stream it reads.
GetStreamSchema ==
  /\ pc = "stream_schema"
  /\ pc' = "scanning" \/ Throw
  /\ UNCHANGED <<remote, rows, plan, handles, counts, batch, bar>>

-----------------------------------------------------------------------------
(* AdbcScanFunction and AdbcScanTableFunction: each call delivers a chunk, *)
(* after as many turns of GetNextBatch as it takes to have rows.           *)

GetNextBatch_KeepsOffset ==
  /\ pc = "scanning"
  /\ chunk_offset >= chunk.length
  /\ \E n \in 0 .. MaxRows - sent :
       /\ n = 0 => empties < MaxEmpty
       /\ empties' = IF n = 0 THEN empties + 1 ELSE empties
       /\ sent' = sent + n
       /\ total_rows_read' = total_rows_read + n
       /\ chunk' = [first |-> sent + 1, length |-> n]
  /\ UNCHANGED <<remote, plan, pc, handles, delivered, done, rows_affected, chunk_offset, bar>>

GetNextBatch ==
  /\ pc = "scanning"
  /\ chunk_offset >= chunk.length
  /\ \/ /\ \E n \in 0 .. MaxRows - sent :
             /\ n = 0 => empties < MaxEmpty
             /\ empties' = IF n = 0 THEN empties + 1 ELSE empties
             /\ sent' = sent + n
             /\ total_rows_read' = total_rows_read + n
             /\ chunk' = [first |-> sent + 1, length |-> n]
        /\ chunk_offset' = 0
        /\ UNCHANGED <<pc, done>>
     \/ /\ done' = TRUE
        /\ pc' = "finished"
        /\ UNCHANGED <<sent, empties, total_rows_read, batch>>
     \/ /\ Throw
        /\ UNCHANGED <<sent, empties, total_rows_read, done, batch>>
  /\ UNCHANGED <<remote, plan, handles, delivered, rows_affected, bar>>

\* Output column i is read from column Position(i) of the stream.
Scanned == IF projection_ids = <<>> THEN [i \in DOMAIN column_ids |-> i] ELSE projection_ids
Outputs == DOMAIN Scanned
Id(i) == column_ids[Scanned[i]]
Position(i) == IF function = "adbc_scan" THEN Id(i) + 1 ELSE i
IsRead(i) ==
  /\ function = "adbc_scan" => Id(i) # RowId
  /\ Position(i) \in DOMAIN stream_schema.cols
Source(i) == stream_schema.cols[Position(i)]
ReadType(i) ==
  IF function = "adbc_scan" THEN bound.types[bound.cols[Position(i)]]
  ELSE stream_schema.types[Source(i)]

\* What the engine expects in output column i.
Asked(i) == entry.cols[Id(i) + 1]
TypeAgrees(i) == Id(i) # RowId /\ ReadType(i) = entry.types[Asked(i)]

\* adbc_scan_table casts what the stream holds to what the engine expects.
NeedsCast ==
  /\ function # "adbc_scan"
  /\ \E i \in Outputs : IsRead(i) /\ ~TypeAgrees(i)

OutputSize_WholeVector == VectorSize
OutputSize ==
  IF chunk.length - chunk_offset < VectorSize THEN chunk.length - chunk_offset ELSE VectorSize

EmitChunk ==
  /\ pc = "scanning"
  /\ chunk_offset < chunk.length
  /\ delivered' = delivered \o [i \in 1 .. OutputSize |-> chunk.first + chunk_offset + i - 1]
  /\ chunk_offset' = chunk_offset + OutputSize
  /\ UNCHANGED <<remote, sent, empties, plan, pc, handles, counts, chunk, bar>>

CastFails ==
  /\ pc = "scanning"
  /\ chunk_offset < chunk.length
  /\ NeedsCast
  /\ Throw
  /\ UNCHANGED <<remote, rows, plan, handles, counts, batch, bar>>

\* The engine is done with the scan, or interrupts it, or an exception unwinds
\* the call.  ~AdbcScanGlobalState releases the stream before the statement; in
\* a bind only the statement has an owner.  A plan that was bound stays usable,
\* and its next execution starts from a new state, as this one did.
DestroyGlobalState ==
  /\ pc \in {"scanning", "finished", "throwing"}
  /\ reader = "idle"
  /\ stream' = IF stream = "scan" THEN "none" ELSE stream
  /\ statement' = "none"
  /\ pc' = IF column_ids = <<>> THEN "failed" ELSE "planned"
  /\ done' = FALSE /\ total_rows_read' = 0 /\ rows_affected' = -1
  /\ chunk' = NoChunk /\ chunk_offset' = 0
  /\ sent' = 0 /\ empties' = 0 /\ delivered' = <<>>
  /\ UNCHANGED <<remote, plan, stream_schema, bar>>

-----------------------------------------------------------------------------
(* AdbcScanProgress and AdbcScanTableProgress, called by another thread:   *)
(* `done' first, the counts after it.                                      *)

ExpectedRows ==
  IF rows_affected > 0 THEN rows_affected
  ELSE IF function # "adbc_scan" THEN estimated ELSE -1

PercentageOf_To100(read, expected) ==
  IF expected <= 0 THEN -1
  ELSE LET p == (1000 * read) \div expected IN IF p < 1000 THEN p ELSE 1000

PercentageOf(read, expected) ==
  IF expected <= 0 THEN -1
  ELSE LET p == (1000 * read) \div expected IN IF p < 999 THEN p ELSE 999

Percentage == PercentageOf(total_rows_read, ExpectedRows)

AskProgress ==
  /\ pc \in {"scanning", "finished"}
  /\ reader = "idle"
  /\ IF done THEN progress' = 1000 /\ UNCHANGED reader
             ELSE reader' = "asked" /\ UNCHANGED progress
  /\ UNCHANGED <<remote, rows, plan, pc, handles, counts, batch>>

ReportProgress ==
  /\ reader = "asked"
  /\ progress' = Percentage
  /\ reader' = "idle"
  /\ UNCHANGED <<remote, rows, plan, pc, handles, counts, batch>>

-----------------------------------------------------------------------------
\* Another client of the remote database alters the table.  A stream keeps the
\* schema it was opened with: altering the table under one changes nothing read.
Alter ==
  /\ alters < MaxAlters
  /\ stream = "none"
  /\ alters' = alters + 1
  /\ table' \in Schema \ {table}
  /\ UNCHANGED <<rows, plan, pc, handles, counts, batch, bar>>

Bind == PrepareForSchema \/ ExecuteForSchema \/ GetSchemaFromStatement \/ FinishBind
Execute == InitGlobal \/ ExecuteQuery \/ GetStreamSchema
Scan == GetNextBatch \/ EmitChunk \/ CastFails
Next ==
  \/ Bind \/ Optimize \/ Execute \/ Scan \/ DestroyGlobalState
  \/ AskProgress \/ ReportProgress \/ Alter

Spec == Init /\ [][Next]_vars

-----------------------------------------------------------------------------
(* Properties.                                                             *)

TypeOK ==
  /\ table \in Schema /\ alters \in 0 .. MaxAlters
  /\ sent \in 0 .. MaxRows /\ empties \in 0 .. MaxEmpty /\ delivered \in Seq(1 .. MaxRows)
  /\ function \in Scans /\ entry \in Schema /\ bound \in Schema
  /\ estimated \in RowsAffected \cup {-1}
  /\ column_ids \in Seq(Nat \cup {RowId}) /\ projection_ids \in Seq(Nat)
  /\ scans \in 0 .. MaxScans
  /\ pc \in {"idle", "bind_prepared", "bind_schema", "bind_types", "bound", "planned",
             "prepared", "stream_schema", "scanning", "finished", "throwing", "failed"}
  /\ statement \in {"none", "bind", "scan"} /\ stream \in {"none", "bind", "scan"}
  /\ stream_schema \in [cols : Seq(Column), types : [Column -> Type]]
  /\ done \in BOOLEAN /\ total_rows_read \in 0 .. MaxRows
  /\ rows_affected \in RowsAffected \cup {-1}
  /\ chunk \in [first : Nat \ {0}, length : Nat] /\ chunk_offset \in Nat
  /\ reader \in {"idle", "asked"} /\ progress \in -1 .. 1000

\* No row of the result is lost, repeated or handed over out of order, however
\* batches and chunks fall, and a scan that finishes has handed over all of them.
Stream == INSTANCE ResultStream WITH
  status <- IF pc = "finished" THEN "finished" ELSE IF stream = "scan" THEN "open" ELSE "closed"
Delivers == Stream!Spec

\* Between the calls of the engine nothing is left open at the driver, whichever
\* call failed: no statement, and no result stream that would pin the connection.
NothingLeftOpen ==
  pc \in {"idle", "bound", "planned", "failed"} => statement = "none" /\ stream = "none"

\* Each output column is read from the column that was asked for, with the type
\* that column has in the stream: by name when the query was projected, even if
\* the table was altered after binding; by position when it is SELECT *, which
\* needs the table to be as it was bound.  No virtual column is among them.
ColumnsInPlace ==
  /\ pc = "scanning"
  /\ \A i \in DOMAIN column_ids : column_ids[i] # RowId
  /\ bound.cols = entry.cols
  /\ NeedsProjection \/ stream_schema.cols = bound.cols
  /\ function = "adbc_scan" => stream_schema.types = bound.types
  => \A i \in Outputs :
       IsRead(i) /\ Source(i) = Asked(i) /\ ReadType(i) = stream_schema.types[Asked(i)]

\* The progress bar never goes back within one execution, although it reads three
\* fields at three moments, and shows 100% only when every row has been delivered.
ProgressIsHonest ==
  [][progress' # progress /\ scans' = scans =>
       progress' > progress /\ (progress' = 1000 => Len(delivered) = sent)]_vars

\* The comment at adbc_scan.cpp:166 on GetSchemaFromStatement: taking the schema
\* of an execution guarantees that the types are those of the data scanned.
TypesMatchTheData ==
  pc = "scanning" =>
    \A i \in Outputs : IsRead(i) => ReadType(i) = stream_schema.types[Source(i)]

=============================================================================
