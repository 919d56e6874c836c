---------------------------- MODULE MetadataScan ----------------------------
(***************************************************************************)
(* One plan that holds adbc_info, adbc_tables, adbc_table_types,           *)
(* adbc_columns or adbc_schema.  The five share their shape: bind looks    *)
(* the connection up, InitGlobal asks the driver and turns its whole       *)
(* answer into rows, and the function hands the rows over in chunks.  The  *)
(* answer of the first four is a stream that stays open until the state of *)
(* the scan is destroyed, that of adbc_schema one ArrowSchema.             *)
(*                                                                         *)
(* What the driver answers and which rows a batch becomes are operators    *)
(* of NestedResults, put in by MetadataFunctions.                          *)
(***************************************************************************)
EXTENDS Naturals, Sequences

CONSTANTS
  Request,       \* the function and the arguments a plan may have
  Remote,        \* what the remote database may hold
  Batch(_),      \* the batches a driver may answer a request with
  Row,
  Answers(_, _), \* the sequences of batches that answer a request
  RowsOf(_, _),  \* the rows of a batch
  VectorSize,    \* STANDARD_VECTOR_SIZE
  MaxScans       \* bound: executions of the plan

ASSUME MetadataAssumption ==
  /\ \A q \in Request, d \in Remote : Answers(d, q) \subseteq Seq(Batch(q))
  /\ \A q \in Request : \A b \in Batch(q) : RowsOf(q, b) \in Seq(Row)
  /\ VectorSize \in Nat \ {0} /\ MaxScans \in Nat

VARIABLES
  remote,      \* the remote database
  request,     \* bind data
  pc,
  stream,      \* "none" or "open"
  unreleased,     \* ArrowSchemas received and not released
  answered,    \* the remote database when it was asked
  remaining,   \* batches of the answer not read yet
  rows, current_row,
  output,      \* the rows the engine has been given
  scans

source == <<stream, unreleased, answered, remaining>>
vars == <<remote, request, pc, stream, unreleased, answered, remaining, rows, current_row, output,
          scans>>

Init ==
  /\ remote \in Remote
  /\ request \in Request
  /\ pc = "idle"
  /\ stream = "none"
  /\ unreleased = 0
  /\ answered = remote
  /\ remaining = <<>>
  /\ rows = <<>> /\ current_row = 0
  /\ output = <<>>
  /\ scans = 0

-----------------------------------------------------------------------------
IsSchema == request.function = "adbc_schema"

\* The handle is valid: bind keeps the connection, and the names of the result
\* do not depend on anything.
Bind ==
  /\ pc = "idle"
  /\ pc' = "bound"
  /\ UNCHANGED <<remote, request, source, rows, current_row, output, scans>>

\* The driver is asked; an error leaves nothing to release.
InitGlobal ==
  /\ pc = "bound" /\ scans < MaxScans
  /\ scans' = scans + 1
  /\ \/ /\ pc' = "throwing"
        /\ UNCHANGED source
     \/ /\ pc' = "extracting"
        /\ answered' = remote
        /\ remaining' \in Answers(remote, request)
        /\ IF IsSchema THEN unreleased' = unreleased + 1 /\ UNCHANGED stream
                       ELSE stream' = "open" /\ UNCHANGED unreleased
  /\ UNCHANGED <<remote, request, rows, current_row, output>>

GetNext_LastBatchOnly ==
  /\ pc = "extracting" /\ ~IsSchema
  /\ \/ /\ remaining # <<>>
        /\ rows' = RowsOf(request, Head(remaining))
        /\ remaining' = Tail(remaining)
        /\ UNCHANGED pc
     \/ /\ remaining = <<>>
        /\ pc' = "scanning"
        /\ UNCHANGED <<rows, remaining>>
  /\ UNCHANGED <<remote, request, stream, unreleased, answered, current_row, output, scans>>

\* ForEachArrowBatch: a batch, the end of the stream, or an error.
GetNext ==
  /\ pc = "extracting" /\ ~IsSchema
  /\ \/ /\ remaining # <<>>
        /\ rows' = rows \o RowsOf(request, Head(remaining))
        /\ remaining' = Tail(remaining)
        /\ UNCHANGED pc
     \/ /\ remaining = <<>>
        /\ pc' = "scanning"
        /\ UNCHANGED <<rows, remaining>>
     \/ /\ pc' = "throwing"
        /\ UNCHANGED <<rows, remaining>>
  /\ UNCHANGED <<remote, request, stream, unreleased, answered, current_row, output, scans>>

\* The fields of the one schema; a type the engine cannot convert throws and
\* nobody releases the schema.
ReadSchema ==
  /\ pc = "extracting" /\ IsSchema
  /\ \/ /\ remaining # <<>>
        /\ rows' = RowsOf(request, Head(remaining))
        /\ remaining' = <<>>
        /\ unreleased' = unreleased - 1
        /\ pc' = "scanning"
     \/ /\ pc' = "throwing"
        /\ UNCHANGED <<rows, remaining, unreleased>>
  /\ UNCHANGED <<remote, request, stream, answered, current_row, output, scans>>

\* Rows of one call of the function.
Count ==
  LET left == Len(rows) - current_row
  IN  IF left < VectorSize THEN left ELSE VectorSize

\* A chunk, or the empty one that ends the scan.
Function ==
  /\ pc = "scanning"
  /\ IF current_row < Len(rows)
     THEN /\ output' = output \o SubSeq(rows, current_row + 1, current_row + Count)
          /\ current_row' = current_row + Count
          /\ UNCHANGED pc
     ELSE pc' = "finished" /\ UNCHANGED <<output, current_row>>
  /\ UNCHANGED <<remote, request, source, rows, scans>>

\* The end of an execution: finished, cut short by a LIMIT or an interrupt, or
\* failed.
DestroyGlobalState ==
  /\ pc \in {"scanning", "finished", "throwing"}
  /\ pc' = "bound"
  /\ stream' = "none"
  /\ remaining' = <<>> /\ rows' = <<>> /\ current_row' = 0 /\ output' = <<>>
  /\ UNCHANGED <<remote, request, unreleased, answered, scans>>

\* Another client changes the remote database.
Alter ==
  /\ remote' \in Remote
  /\ UNCHANGED <<request, pc, source, rows, current_row, output, scans>>

Next ==
  \/ Bind \/ InitGlobal \/ GetNext \/ ReadSchema \/ Function \/ DestroyGlobalState
  \/ Alter

Spec == Init /\ [][Next]_vars

-----------------------------------------------------------------------------
\* The rows handed over so far are rows that were extracted, and nothing of an
\* execution is left in the state of the next one.
TypeOK ==
  /\ remote \in Remote /\ answered \in Remote /\ request \in Request
  /\ pc \in {"idle", "bound", "extracting", "scanning", "finished", "throwing"}
  /\ stream \in {"none", "open"} /\ unreleased \in 0 .. scans
  /\ remaining \in Seq(Batch(request))
  /\ rows \in Seq(Row) /\ output \in Seq(Row)
  /\ current_row \in 0 .. Len(rows)
  /\ scans \in 0 .. MaxScans

\* What has been handed over is the beginning of what was extracted.
OutputIsRows == output = SubSeq(rows, 1, current_row)

\* The scan keeps the promise of a result stream: each extracted row once, in
\* order, all of them before the empty chunk says that it has finished.
Stream == INSTANCE ResultStream WITH
  sent      <- Len(rows),
  delivered <- [i \in 1 .. Len(output) |-> i],
  status    <- CASE pc = "finished" -> "finished"
                 [] pc \in {"idle", "bound"} -> "closed"
                 [] OTHER -> "open"

Delivers == Stream!Spec

=============================================================================
