-------------------------- MODULE AdbcScan_proofs --------------------------
(***************************************************************************)
(* Theorems about AdbcScan, for every size of vectors and batches, every   *)
(* schema and every number of alterations and executions.                  *)
(***************************************************************************)
EXTENDS AdbcScan, WellFoundedInduction, TLAPS

-----------------------------------------------------------------------------
(* The inductive invariant, in parts.                                      *)

\* Which stream and statement are open at each place; an exception never
\* leaves the stream of a bind open, because nothing would release it.
Handles ==
  /\ pc \in {"idle", "bound", "planned", "failed"} => statement = "none" /\ stream = "none"
  /\ pc \in {"bind_prepared", "bind_types", "prepared"} => stream = "none"
  /\ pc = "bind_schema" => stream = "bind" /\ stream_schema \in Schema
  /\ pc \in {"stream_schema", "scanning", "finished"} => stream = "scan"
  /\ pc = "throwing" => stream \in {"none", "scan"}

\* What has been delivered is what was sent before the current batch and what
\* was taken from it.
Rows ==
  /\ \A i \in 1 .. Len(delivered) : delivered[i] = i
  /\ chunk_offset <= chunk.length
  /\ Len(delivered) = chunk.first - 1 + chunk_offset
  /\ sent = chunk.first - 1 + chunk.length
  /\ total_rows_read = sent
  /\ stream # "scan" => sent = 0 /\ delivered = <<>>
  /\ done <=> pc = "finished"
  /\ pc = "finished" => chunk_offset = chunk.length

\* A progress call is under way only while there is something to ask about, and
\* what it will report is not below what was reported last.
Bar ==
  /\ reader = "asked" => pc \in {"scanning", "finished", "throwing"}
  /\ reader = "asked" \/ pc = "scanning" => progress <= Percentage
  /\ pc \in {"prepared", "stream_schema"} => progress = -1

\* The columns of the plan are columns of the cached entry; only adbc_scan is
\* told to drop some, and before the optimizer ran there are none.
Planned ==
  /\ \A i \in DOMAIN column_ids : column_ids[i] \in (0 .. Len(entry.cols) - 1) \cup {RowId}
  /\ \A k \in DOMAIN projection_ids : projection_ids[k] \in DOMAIN column_ids
  /\ projection_ids # <<>> => function = "adbc_scan"
  /\ pc \in {"idle", "bind_prepared", "bind_schema", "bind_types", "bound"} =>
       column_ids = <<>> /\ projection_ids = <<>>

\* A query that was projected is answered with the columns it names.
Projected == stream = "scan" /\ NeedsProjection => stream_schema.cols = Selected

IInv == TypeOK /\ Handles /\ Rows /\ Bar /\ Planned /\ Projected

-----------------------------------------------------------------------------
(* Lemmas about the operators the actions are built from.                  *)

LEMMA DivBounds ==
  ASSUME NEW a \in Nat, NEW e \in Nat \ {0}
  PROVE  a \div e \in Nat
  OBVIOUS

LEMMA DivMonotone ==
  ASSUME NEW a \in Nat, NEW b \in Nat, NEW e \in Nat \ {0}, a <= b
  PROVE  a \div e <= b \div e
  OBVIOUS

\* What is delivered in one call is between one row and the rest of the batch.
LEMMA OutputSizeBounds ==
  ASSUME TypeOK, chunk_offset < chunk.length
  PROVE  OutputSize \in Nat \ {0} /\ chunk_offset + OutputSize <= chunk.length
<1>1. VectorSize \in Nat \ {0}
  BY ScanAssumption
<1>2. chunk \in [first : Nat \ {0}, length : Nat] /\ chunk_offset \in Nat
  BY DEF TypeOK
<1>3. QED  BY <1>1, <1>2 DEF OutputSize

\* The bar never shows 100% for what has been read so far, and reading more
\* rows does not take it back.
LEMMA PercentageOfType ==
  ASSUME NEW r \in Nat, NEW e \in Nat \cup {-1}
  PROVE  PercentageOf(r, e) \in -1 .. 999
<1>1. CASE e <= 0
  BY <1>1 DEF PercentageOf
<1>2. CASE e > 0
  <2>1. (1000 * r) \div e \in Nat
    BY <1>2, DivBounds
  <2>2. QED  BY <1>2, <2>1 DEF PercentageOf
<1>3. QED  BY <1>1, <1>2

LEMMA PercentageOfGrows ==
  ASSUME NEW r \in Nat, NEW s \in Nat, NEW e \in Nat \cup {-1}, r <= s
  PROVE  PercentageOf(r, e) <= PercentageOf(s, e)
<1>1. CASE e <= 0
  BY <1>1 DEF PercentageOf
<1>2. CASE e > 0
  <2> DEFINE a == 1000 * r
             b == 1000 * s
  <2>1. a \in Nat /\ b \in Nat /\ a <= b
    OBVIOUS
  <2>2. /\ PercentageOf(r, e) = (IF a \div e < 999 THEN a \div e ELSE 999)
        /\ PercentageOf(s, e) = (IF b \div e < 999 THEN b \div e ELSE 999)
    BY <1>2 DEF PercentageOf
  <2> HIDE DEF a, b
  <2>3. a \div e \in Nat /\ b \div e \in Nat /\ a \div e <= b \div e
    BY <1>2, <2>1, DivBounds, DivMonotone
  <2>4. QED  BY <2>2, <2>3
<1>3. QED  BY <1>1, <1>2

LEMMA PercentageType ==
  ASSUME TypeOK
  PROVE  Percentage \in -1 .. 999
<1>1. ExpectedRows \in Nat \cup {-1}
  BY ScanAssumption DEF TypeOK, ExpectedRows
<1>2. total_rows_read \in Nat
  BY ScanAssumption DEF TypeOK
<1>3. QED  BY <1>1, <1>2, PercentageOfType, Zenon DEF Percentage

\* Induction, for a set of numbers in place of a predicate.
LEMMA Induction ==
  ASSUME NEW S, 0 \in S, \A n \in Nat : n \in S => n + 1 \in S
  PROVE  Nat \subseteq S
<1>1. SUFFICES ASSUME Nat \ S # {}  PROVE FALSE
  OBVIOUS
<1>2. PICK x \in Nat \ S : \A y \in Nat \ S : ~(<<y, x>> \in OpToRel(<, Nat))
  <2>1. Nat \ S \subseteq Nat
    OBVIOUS
  <2>2. QED  BY ONLY <1>1, <2>1, NatLessThanWellFounded, WFMin
<1>3. x # 0 /\ x - 1 \in Nat /\ x - 1 < x
  OBVIOUS
<1>4. x - 1 \notin S
  <2>1. x - 1 \in S => (x - 1) + 1 \in S
    BY <1>3
  <2>2. (x - 1) + 1 = x
    OBVIOUS
  <2>3. QED  BY <2>1, <2>2
<1>5. <<x - 1, x>> \in OpToRel(<, Nat)
  BY <1>3, Zenon DEF OpToRel
<1>6. QED  BY <1>2, <1>3, <1>4, <1>5, Zenon

\* What Keep has kept of the first elements.
Keeps(s, K, n, f) ==
  f = [i \in 0 .. n |->
         IF i = 0 THEN <<>>
         ELSE IF s[i] \in K THEN Append(f[i - 1], s[i]) ELSE f[i - 1]]

\* The recursive function that Keep is defined by exists.
LEMMA KeepExists ==
  ASSUME NEW s, NEW K, NEW n \in Nat
  PROVE  \E f : Keeps(s, K, n, f)
<1> DEFINE Next1(f, i) == IF i = 0 THEN <<>>
                          ELSE IF s[i] \in K THEN Append(f[i - 1], s[i]) ELSE f[i - 1]
           S == {m \in Nat : \E f : Keeps(s, K, m, f)}
<1>1. 0 \in S
  <2>1. Keeps(s, K, 0, [i \in 0 .. 0 |-> <<>>])
    BY DEF Keeps
  <2>2. QED  BY <2>1
<1>2. ASSUME NEW m \in Nat, m \in S  PROVE m + 1 \in S
  <2>1. PICK f : Keeps(s, K, m, f)
    BY <1>2
  <2> DEFINE g == [i \in 0 .. m + 1 |-> IF i = m + 1 THEN Next1(f, i) ELSE f[i]]
  <2>2. ASSUME NEW i \in 0 .. m + 1  PROVE g[i] = Next1(g, i)
    <3>1. CASE i = m + 1
      BY <2>1, <3>1
    <3>2. CASE i \in 0 .. m
      <4>1. g[i] = f[i] /\ f[i] = Next1(f, i)
        BY <2>1, <3>2 DEF Keeps
      <4>2. i # 0 => g[i - 1] = f[i - 1]
        BY <3>2
      <4>3. QED  BY <4>1, <4>2
    <3>3. QED  BY <3>1, <3>2
  <2>3. g = [i \in 0 .. m + 1 |-> Next1(g, i)]
    BY <2>2
  <2>4. Keeps(s, K, m + 1, g)
    BY <2>3 DEF Keeps
  <2> HIDE DEF g
  <2>5. m + 1 \in Nat
    OBVIOUS
  <2>6. QED  BY <2>4, <2>5
<1> HIDE DEF S
<1>3. Nat \subseteq S
  BY <1>1, <1>2, Induction
<1>4. QED  BY <1>3 DEF S

\* What Keep returns, one element at a time.
LEMMA KeepSteps ==
  ASSUME NEW T, NEW s \in Seq(T), NEW K
  PROVE  \E f : /\ f[0] = <<>> /\ Keep(s, K) = f[Len(s)]
                /\ \A n \in 0 .. Len(s) : f[n] \in Seq(T)
                /\ \A n \in 1 .. Len(s) :
                     f[n] = IF s[n] \in K THEN Append(f[n - 1], s[n]) ELSE f[n - 1]
<1> DEFINE f == CHOOSE g : Keeps(s, K, Len(s), g)
<1>1. Len(s) \in Nat /\ \A n \in 1 .. Len(s) : s[n] \in T
  OBVIOUS
<1>2. Keeps(s, K, Len(s), f)
  BY <1>1, KeepExists, Zenon
<1>3. Keep(s, K) = f[Len(s)]
  BY DEF Keep, Keeps
<1> HIDE DEF f
<1>4. /\ f[0] = <<>>
      /\ \A n \in 1 .. Len(s) : f[n] = IF s[n] \in K THEN Append(f[n - 1], s[n]) ELSE f[n - 1]
  <2>1. ASSUME NEW n \in 0 .. Len(s)
        PROVE  f[n] = IF n = 0 THEN <<>>
                      ELSE IF s[n] \in K THEN Append(f[n - 1], s[n]) ELSE f[n - 1]
    BY <1>2, Zenon DEF Keeps
  <2>2. QED  BY <1>1, <2>1
<1> DEFINE S == {n \in Nat : n <= Len(s) => f[n] \in Seq(T)}
<1>5. 0 \in S
  <2>1. f[0] \in Seq(T)
    BY <1>4
  <2>2. QED  BY <2>1
<1>6. ASSUME NEW n \in Nat, n \in S  PROVE n + 1 \in S
  <2>1. SUFFICES ASSUME n + 1 <= Len(s)
                 PROVE  f[n + 1] \in Seq(T)
    OBVIOUS
  <2>2. f[n] \in Seq(T) /\ n + 1 \in 1 .. Len(s) /\ (n + 1) - 1 = n
    BY <1>1, <1>6, <2>1
  <2>3. f[n + 1] = IF s[n + 1] \in K THEN Append(f[n], s[n + 1]) ELSE f[n]
    BY <1>4, <2>2
  <2>4. s[n + 1] \in T
    BY <1>1, <2>2
  <2>5. QED  BY <2>2, <2>3, <2>4
<1> HIDE DEF S
<1>7. Nat \subseteq S
  BY <1>5, <1>6, Induction
<1>8. \A n \in 0 .. Len(s) : f[n] \in Seq(T)
  BY <1>1, <1>7 DEF S
<1>9. QED  BY <1>3, <1>4, <1>8

\* A test that every element passes keeps the sequence as it is.
LEMMA KeepAll ==
  ASSUME NEW T, NEW s \in Seq(T), NEW K, \A i \in DOMAIN s : s[i] \in K
  PROVE  Keep(s, K) = s
<1>1. Len(s) \in Nat /\ DOMAIN s = 1 .. Len(s)
  OBVIOUS
<1>2. PICK f : /\ f[0] = <<>> /\ Keep(s, K) = f[Len(s)]
               /\ \A n \in 0 .. Len(s) : f[n] \in Seq(T)
               /\ \A n \in 1 .. Len(s) :
                    f[n] = IF s[n] \in K THEN Append(f[n - 1], s[n]) ELSE f[n - 1]
  BY KeepSteps
<1> DEFINE S == {n \in Nat : n <= Len(s) => f[n] = [i \in 1 .. n |-> s[i]]}
<1>3. 0 \in S
  BY <1>2
<1>4. ASSUME NEW n \in Nat, n \in S  PROVE n + 1 \in S
  <2>1. SUFFICES ASSUME n + 1 <= Len(s)
                 PROVE  f[n + 1] = [i \in 1 .. n + 1 |-> s[i]]
    OBVIOUS
  <2>2. n + 1 \in 1 .. Len(s) /\ n \in 0 .. Len(s) /\ (n + 1) - 1 = n
    BY <1>1, <2>1
  <2>3. f[n] = [i \in 1 .. n |-> s[i]] /\ f[n] \in Seq(T) /\ s[n + 1] \in T /\ s[n + 1] \in K
    BY <1>1, <1>2, <1>4, <2>2
  <2>4. f[n + 1] = Append(f[n], s[n + 1])
    BY <1>2, <2>2, <2>3
  <2>5. QED  BY <2>3, <2>4
<1> HIDE DEF S
<1>5. Len(s) \in S
  BY <1>1, <1>3, <1>4, Induction
<1>6. f[Len(s)] = [i \in 1 .. Len(s) |-> s[i]]
  BY <1>1, <1>5 DEF S
<1>7. QED  BY <1>1, <1>2, <1>6

\* The schema of an answer is a schema.
LEMMA AnswerSchemaType ==
  ASSUME TypeOK, Answerable
  PROVE  AnswerSchema \in [cols : Seq(Column), types : [Column -> Type]]
<1>1. table \in [cols : Seq(Column), types : [Column -> Type]]
  BY ScanAssumption DEF TypeOK
<1>2. {table.cols[i] : i \in DOMAIN table.cols} \subseteq Column
  BY <1>1
<1>3. NeedsProjection => Selected \in Seq(Column)
  BY <1>2 DEF Answerable
<1>4. QED  BY <1>1, <1>3 DEF AnswerSchema

-----------------------------------------------------------------------------
(* The invariant holds initially, and each part survives every step.       *)

LEMMA InitIInv == Init => IInv
<1>1. ASSUME Init  PROVE TypeOK
  <2>1. <<>> \in Seq(1 .. MaxRows) /\ <<>> \in Seq(Nat \cup {RowId}) /\ <<>> \in Seq(Nat)
    OBVIOUS
  <2>2. entry \in Schema /\ bound \in Schema
        /\ stream_schema \in [cols : Seq(Column), types : [Column -> Type]]
    BY <1>1, ScanAssumption DEF Init
  <2>3. delivered \in Seq(1 .. MaxRows) /\ column_ids \in Seq(Nat \cup {RowId})
        /\ projection_ids \in Seq(Nat)
    BY <1>1, <2>1 DEF Init
  <2>4. chunk \in [first : Nat \ {0}, length : Nat] /\ chunk_offset \in Nat
        /\ alters \in 0 .. MaxAlters /\ sent \in 0 .. MaxRows /\ empties \in 0 .. MaxEmpty
        /\ scans \in 0 .. MaxScans /\ total_rows_read \in 0 .. MaxRows
    BY <1>1, ScanAssumption DEF Init, NoChunk
  <2>5. estimated \in RowsAffected \cup {-1} /\ rows_affected \in RowsAffected \cup {-1}
        /\ progress \in -1 .. 1000
    BY <1>1 DEF Init
  <2>6. QED  BY <1>1, <2>2, <2>3, <2>4, <2>5, Zenon DEF Init, TypeOK
<1>2. Init => Handles /\ Rows /\ Bar
  BY DEF Init, Handles, Rows, Bar, NoChunk
<1>3. Init => Planned /\ Projected
  BY DEF Init, Planned, Projected
<1>4. QED  BY <1>1, <1>2, <1>3 DEF IInv

\* Every step keeps the types.
LEMMA TypesStep ==
  ASSUME IInv, [Next]_vars
  PROVE  TypeOK'
<1>1. CASE UNCHANGED vars
  BY <1>1 DEF vars,
           IInv, TypeOK, Handles, Rows
<1>2. CASE PrepareForSchema
  BY <1>2, ScanAssumption DEF
           IInv, TypeOK, Handles, Rows, PrepareForSchema, Throw, remote, rows, plan,
           counts, batch, bar
<1>3. CASE ExecuteForSchema
  BY <1>3, ScanAssumption DEF
           IInv, TypeOK, Handles, Rows, ExecuteForSchema, Throw, remote, rows, plan,
           counts, batch, bar
<1>4. CASE GetSchemaFromStatement
  <2>1. bound' \in Schema /\ entry' \in Schema
    BY <1>4 DEF GetSchemaFromStatement, IInv, TypeOK, Handles
  <2>2. QED
    BY <1>4, <2>1, ScanAssumption DEF
           IInv, TypeOK, GetSchemaFromStatement, Throw, remote, rows, counts, batch, bar
<1>5. CASE FinishBind
  BY <1>5, ScanAssumption DEF
           IInv, TypeOK, Handles, Rows, FinishBind, EstimatedRows, Throw, remote, rows, counts, batch,
           bar
<1>6. CASE Optimize
  <2>1. column_ids' \in Seq(Nat \cup {RowId})
    <3>1. Len(entry.cols) \in Nat
      BY ScanAssumption DEF IInv, TypeOK
    <3>2. (0 .. Len(entry.cols) - 1) \cup {RowId} \subseteq Nat \cup {RowId}
      BY <3>1
    <3>3. PICK n \in 1 .. MaxColumns : column_ids' \in [1 .. n -> (0 .. Len(entry.cols) - 1) \cup {RowId}]
      BY <1>6 DEF Optimize
    <3>4. QED  BY <3>2, <3>3
  <2>2. projection_ids' \in Seq(Nat)
    <3>1. DOMAIN column_ids' \subseteq Nat
      BY <2>1
    <3>2. <<>> \in Seq(Nat) /\ \A i \in Nat : <<i>> \in Seq(Nat)
      OBVIOUS
    <3>3. QED  BY <1>6, <3>1, <3>2 DEF Optimize
  <2>3. QED
    BY <1>6, <2>1, <2>2 DEF
           IInv, TypeOK, Optimize, remote, rows, handles, counts, batch, bar
<1>7. CASE InitGlobal
  BY <1>7, ScanAssumption DEF
           IInv, TypeOK, Handles, Rows, InitGlobal, Throw, remote, rows, counts, batch
<1>8. CASE ExecuteQuery
  <2>1. stream_schema' \in [cols : Seq(Column), types : [Column -> Type]]
    BY <1>8, AnswerSchemaType DEF ExecuteQuery, IInv, TypeOK
  <2>2. rows_affected' \in RowsAffected \cup {-1}
    BY <1>8 DEF ExecuteQuery, IInv, TypeOK
  <2>3. /\ pc' \in {"stream_schema", "scanning", "throwing"}
        /\ stream' \in {"none", "bind", "scan"}
    BY <1>8, Zenon DEF ExecuteQuery, Throw, IInv, TypeOK
  <2>4. QED
    BY <1>8, <2>1, <2>2, <2>3, Zenon DEF
           IInv, TypeOK, ExecuteQuery, remote, rows, plan, batch, bar
<1>9. CASE GetStreamSchema
  BY <1>9, ScanAssumption, Zenon DEF
           IInv, TypeOK, Handles, Rows, GetStreamSchema, Throw, remote, rows, plan,
           handles, counts, batch, bar
<1>10. CASE GetNextBatch
  <2>1. /\ sent' \in 0 .. MaxRows /\ empties' \in 0 .. MaxEmpty
        /\ total_rows_read' \in 0 .. MaxRows
        /\ chunk' \in [first : Nat \ {0}, length : Nat] /\ chunk_offset' \in Nat
    <3>1. /\ sent \in Nat /\ empties \in Nat /\ total_rows_read = sent /\ sent <= MaxRows
          /\ empties <= MaxEmpty
          /\ chunk \in [first : Nat \ {0}, length : Nat] /\ chunk_offset \in Nat
      BY ScanAssumption DEF IInv, TypeOK, Rows
    <3>2. CASE UNCHANGED <<sent, empties, total_rows_read, batch>>
      BY <3>1, <3>2, ScanAssumption DEF batch
    <3>3. ASSUME NEW n \in 0 .. MaxRows - sent,
                 n = 0 => empties < MaxEmpty,
                 empties' = IF n = 0 THEN empties + 1 ELSE empties,
                 sent' = sent + n, total_rows_read' = total_rows_read + n,
                 chunk' = [first |-> sent + 1, length |-> n], chunk_offset' = 0
          PROVE  /\ sent' \in 0 .. MaxRows /\ empties' \in 0 .. MaxEmpty
                 /\ total_rows_read' \in 0 .. MaxRows
                 /\ chunk' \in [first : Nat \ {0}, length : Nat] /\ chunk_offset' \in Nat
      BY <3>1, <3>3, ScanAssumption
    <3>4. QED  BY <1>10, <3>2, <3>3 DEF GetNextBatch
  <2>2. pc' \in {"scanning", "finished", "throwing"} /\ done' \in BOOLEAN
    BY <1>10, Zenon DEF GetNextBatch, Throw, IInv, TypeOK
  <2>3. QED
    BY <1>10, <2>1, <2>2, Zenon DEF
           IInv, TypeOK, GetNextBatch, remote, plan, handles, bar
<1>11. CASE EmitChunk
  <2>1. /\ OutputSize \in Nat \ {0} /\ chunk_offset + OutputSize <= chunk.length
        /\ chunk \in [first : Nat \ {0}, length : Nat] /\ chunk_offset \in Nat
        /\ delivered \in Seq(1 .. MaxRows)
    BY <1>11, OutputSizeBounds DEF EmitChunk, IInv, TypeOK
  <2>2. \A i \in 1 .. OutputSize :
          /\ chunk.first + chunk_offset + i - 1 = Len(delivered) + i
          /\ Len(delivered) + i \in 1 .. sent
    <3>1. /\ Len(delivered) \in Nat /\ Len(delivered) = chunk.first - 1 + chunk_offset
          /\ sent = chunk.first - 1 + chunk.length
          /\ chunk.first \in Nat /\ chunk.length \in Nat
      BY <2>1 DEF IInv, Rows
    <3>2. QED  BY <2>1, <3>1
  <2>3. [i \in 1 .. OutputSize |-> chunk.first + chunk_offset + i - 1] \in Seq(1 .. MaxRows)
    <3>1. sent \in Nat /\ MaxRows \in Nat /\ sent <= MaxRows
      BY ScanAssumption DEF IInv, TypeOK
    <3>2. \A i \in 1 .. OutputSize : chunk.first + chunk_offset + i - 1 \in 1 .. MaxRows
      BY <2>1, <2>2, <3>1
    <3>3. QED  BY <2>1, <3>2
  <2>4. delivered' \in Seq(1 .. MaxRows)
    BY <1>11, <2>1, <2>3 DEF EmitChunk
  <2>5. QED
    BY <1>11, <2>1, <2>4 DEF
           IInv, TypeOK, EmitChunk, remote, plan, handles, counts, bar
<1>12. CASE CastFails
  BY <1>12, ScanAssumption DEF
           IInv, TypeOK, Handles, Rows, CastFails, Throw, remote, rows, plan, handles,
           counts, batch, bar
<1>13. CASE DestroyGlobalState
  <2>1. delivered' \in Seq(1 .. MaxRows)
    BY <1>13 DEF DestroyGlobalState
  <2>2. /\ chunk' \in [first : Nat \ {0}, length : Nat] /\ chunk_offset' \in Nat
        /\ sent' \in 0 .. MaxRows /\ empties' \in 0 .. MaxEmpty /\ total_rows_read' \in 0 .. MaxRows
        /\ rows_affected' \in RowsAffected \cup {-1}
    BY <1>13, ScanAssumption DEF DestroyGlobalState, NoChunk
  <2>3. QED
    BY <1>13, <2>1, <2>2, Zenon DEF
           IInv, TypeOK, DestroyGlobalState, NoChunk, remote, plan, bar
<1>14. CASE AskProgress
  <2>1. progress' \in -1 .. 1000 /\ reader' \in {"idle", "asked"}
    <3>1. progress \in -1 .. 1000 /\ reader \in {"idle", "asked"}
      BY DEF IInv, TypeOK
    <3>2. CASE done
      BY <1>14, <3>1, <3>2 DEF AskProgress
    <3>3. CASE ~done
      BY <1>14, <3>1, <3>3 DEF AskProgress
    <3>4. QED  BY <3>2, <3>3
  <2>2. QED
    BY <1>14, <2>1 DEF
           IInv, TypeOK, AskProgress, remote, rows, plan, handles, counts, batch
<1>15. CASE ReportProgress
  <2>1. progress' \in -1 .. 1000
    BY <1>15, PercentageType DEF ReportProgress, IInv
  <2>2. QED
    BY <1>15, <2>1 DEF
           IInv, TypeOK, ReportProgress, remote, rows, plan, handles, counts, batch
<1>16. CASE Alter
  BY <1>16, ScanAssumption DEF
           IInv, TypeOK, Handles, Rows, Alter, rows, plan, handles, counts, batch, bar
<1>17. QED
  BY <1>1, <1>2, <1>3, <1>4, <1>5, <1>6, <1>7, <1>8, <1>9, <1>10, <1>11, <1>12, <1>13,
     <1>14, <1>15, <1>16
  DEF Next, Bind, Execute, Scan

\* Every step leaves open what its place says.
LEMMA HandlesStep ==
  ASSUME IInv, [Next]_vars
  PROVE  Handles'
<1>1. CASE UNCHANGED vars
  BY <1>1 DEF vars,
           IInv, Handles, TypeOK
<1>2. CASE PrepareForSchema
  BY <1>2, ScanAssumption DEF
           IInv, Handles, TypeOK, PrepareForSchema, Throw, remote, rows, plan, counts,
           batch, bar
<1>3. CASE ExecuteForSchema
  <2>1. table \in Schema /\ UNCHANGED statement /\ stream = "none"
    BY <1>3 DEF ExecuteForSchema, IInv, TypeOK, Handles
  <2>2. CASE stream' = "bind" /\ stream_schema' = table /\ pc' = "bind_schema"
    BY <2>1, <2>2 DEF Handles
  <2>3. CASE Throw /\ UNCHANGED stream
    BY <2>1, <2>3 DEF Handles, Throw
  <2>4. QED  BY <1>3, <2>2, <2>3 DEF ExecuteForSchema
<1>4. CASE GetSchemaFromStatement
  BY <1>4, ScanAssumption DEF
           IInv, Handles, TypeOK, GetSchemaFromStatement, Throw, remote, rows, counts,
           batch, bar
<1>5. CASE FinishBind
  BY <1>5, ScanAssumption DEF
           IInv, Handles, TypeOK, FinishBind, EstimatedRows, Throw, remote, rows, counts, batch, bar
<1>6. CASE Optimize
  BY <1>6, ScanAssumption DEF
           IInv, Handles, TypeOK, Optimize, remote, rows, handles, counts, batch, bar
<1>7. CASE InitGlobal
  BY <1>7, ScanAssumption DEF
           IInv, Handles, TypeOK, InitGlobal, Throw, remote, rows, counts, batch
<1>8. CASE ExecuteQuery
  BY <1>8, ScanAssumption, Zenon DEF
           IInv, Handles, TypeOK, ExecuteQuery, Throw, remote, rows, plan, batch, bar
<1>9. CASE GetStreamSchema
  BY <1>9, ScanAssumption DEF
           IInv, Handles, TypeOK, GetStreamSchema, Throw, remote, rows, plan, handles,
           counts, batch, bar
<1>10. CASE GetNextBatch
  BY <1>10, ScanAssumption, Zenon DEF
           IInv, Handles, TypeOK, GetNextBatch, Throw, remote, plan, handles, batch,
           bar
<1>11. CASE EmitChunk
  BY <1>11, ScanAssumption DEF
           IInv, Handles, TypeOK, EmitChunk, remote, plan, handles, counts, bar
<1>12. CASE CastFails
  BY <1>12, ScanAssumption DEF
           IInv, Handles, TypeOK, CastFails, Throw, remote, rows, plan, handles,
           counts, batch, bar
<1>13. CASE DestroyGlobalState
  BY <1>13, ScanAssumption DEF
           IInv, Handles, TypeOK, DestroyGlobalState, NoChunk, remote, plan, bar
<1>14. CASE AskProgress
  BY <1>14, ScanAssumption DEF
           IInv, Handles, TypeOK, AskProgress, remote, rows, plan, handles, counts,
           batch
<1>15. CASE ReportProgress
  BY <1>15, ScanAssumption DEF
           IInv, Handles, TypeOK, ReportProgress, remote, rows, plan, handles, counts,
           batch
<1>16. CASE Alter
  BY <1>16, ScanAssumption DEF
           IInv, Handles, TypeOK, Alter, rows, plan, handles, counts, batch, bar
<1>17. QED
  BY <1>1, <1>2, <1>3, <1>4, <1>5, <1>6, <1>7, <1>8, <1>9, <1>10, <1>11, <1>12, <1>13,
     <1>14, <1>15, <1>16
  DEF Next, Bind, Execute, Scan

\* Every step keeps the count of what is sent, current and delivered.
LEMMA RowsStep ==
  ASSUME IInv, [Next]_vars
  PROVE  Rows'
<1>1. CASE UNCHANGED vars
  BY <1>1 DEF vars,
           IInv, Rows, TypeOK, Handles
<1>2. CASE PrepareForSchema
  BY <1>2, ScanAssumption DEF
           IInv, Rows, TypeOK, Handles, PrepareForSchema, Throw, remote, rows, plan,
           counts, batch, bar
<1>3. CASE ExecuteForSchema
  <2>1. pc # "finished" /\ pc' # "finished" /\ (stream' # "scan" => stream # "scan")
    BY <1>3 DEF ExecuteForSchema, Throw, IInv, Handles
  <2>2. UNCHANGED <<delivered, chunk, chunk_offset, sent, total_rows_read, done>>
    BY <1>3 DEF ExecuteForSchema, rows, counts, batch
  <2>3. QED  BY <2>1, <2>2 DEF IInv, Rows
<1>4. CASE GetSchemaFromStatement
  <2>1. pc # "finished" /\ pc' # "finished" /\ (stream' # "scan" => stream # "scan")
    BY <1>4 DEF GetSchemaFromStatement, Throw, IInv, Handles
  <2>2. UNCHANGED <<delivered, chunk, chunk_offset, sent, total_rows_read, done>>
    BY <1>4 DEF GetSchemaFromStatement, rows, counts, batch
  <2>3. QED  BY <2>1, <2>2 DEF IInv, Rows
<1>5. CASE FinishBind
  <2>1. pc # "finished" /\ pc' # "finished" /\ (stream' # "scan" => stream # "scan")
    BY <1>5 DEF FinishBind, Throw, IInv, Handles
  <2>2. UNCHANGED <<delivered, chunk, chunk_offset, sent, total_rows_read, done>>
    BY <1>5 DEF FinishBind, rows, counts, batch
  <2>3. QED  BY <2>1, <2>2 DEF IInv, Rows
<1>6. CASE Optimize
  BY <1>6, ScanAssumption DEF
           IInv, Rows, TypeOK, Handles, Optimize, remote, rows, handles, counts, batch,
           bar
<1>7. CASE InitGlobal
  BY <1>7, ScanAssumption DEF
           IInv, Rows, TypeOK, Handles, InitGlobal, Throw, remote, rows, counts, batch
<1>8. CASE ExecuteQuery
  BY <1>8, ScanAssumption DEF
           IInv, Rows, TypeOK, Handles, ExecuteQuery, Throw, remote, rows, plan, batch,
           bar
<1>9. CASE GetStreamSchema
  <2>1. pc # "finished" /\ pc' # "finished" /\ (stream' # "scan" => stream # "scan")
    BY <1>9 DEF GetStreamSchema, Throw, handles, IInv, Handles
  <2>2. UNCHANGED <<delivered, chunk, chunk_offset, sent, total_rows_read, done>>
    BY <1>9 DEF GetStreamSchema, rows, counts, batch
  <2>3. QED  BY <2>1, <2>2 DEF IInv, Rows
<1>10. CASE GetNextBatch
  <2>1. UNCHANGED <<delivered, stream>> /\ stream = "scan" /\ chunk_offset = chunk.length
    BY <1>10 DEF GetNextBatch, handles, IInv, Handles, Rows, TypeOK
  <2>2. Len(delivered) = sent
    BY <2>1 DEF IInv, Rows, TypeOK
  <2>3. CASE UNCHANGED <<sent, total_rows_read, batch>>
    <3>1. done' <=> pc' = "finished"
      BY <1>10 DEF GetNextBatch, Throw, IInv, Rows
    <3>2. QED  BY <2>1, <2>3, <3>1 DEF batch, IInv, Rows
  <2>4. CASE /\ \E n \in 0 .. MaxRows - sent :
               sent' = sent + n /\ total_rows_read' = total_rows_read + n /\ chunk' = [first |-> sent + 1, length |-> n]
             /\ chunk_offset' = 0 /\ UNCHANGED <<pc, done>>
    <3>1. pc # "finished"
      BY <1>10 DEF GetNextBatch
    <3>2. sent \in Nat
      BY ScanAssumption DEF IInv, TypeOK
    <3>3. QED  BY <2>1, <2>2, <2>4, <3>1, <3>2, ScanAssumption DEF IInv, Rows
  <2>5. QED
    BY <1>10, <2>3, <2>4 DEF GetNextBatch
<1>11. CASE EmitChunk
  <2>1. /\ OutputSize \in Nat \ {0} /\ chunk_offset + OutputSize <= chunk.length
        /\ chunk \in [first : Nat \ {0}, length : Nat] /\ chunk_offset \in Nat
        /\ delivered \in Seq(1 .. MaxRows)
    BY <1>11, OutputSizeBounds DEF EmitChunk, IInv, TypeOK
  <2>2. \A i \in 1 .. OutputSize :
          /\ chunk.first + chunk_offset + i - 1 = Len(delivered) + i
          /\ Len(delivered) + i \in 1 .. sent
    <3>1. /\ Len(delivered) \in Nat /\ Len(delivered) = chunk.first - 1 + chunk_offset
          /\ sent = chunk.first - 1 + chunk.length
          /\ chunk.first \in Nat /\ chunk.length \in Nat
      BY <2>1 DEF IInv, Rows
    <3>2. QED  BY <2>1, <3>1
  <2>3. /\ delivered' = delivered \o [i \in 1 .. OutputSize |-> chunk.first + chunk_offset + i - 1]
        /\ chunk_offset' = chunk_offset + OutputSize
        /\ UNCHANGED <<sent, total_rows_read, chunk, done, pc, stream>>
    BY <1>11 DEF EmitChunk, counts, handles
  <2>4. Len(delivered') = Len(delivered) + OutputSize
    BY <2>1, <2>3
  <2>5. \A i \in 1 .. Len(delivered') : delivered'[i] = i
    <3>1. ASSUME NEW i \in 1 .. Len(delivered')  PROVE delivered'[i] = i
      <4>1. CASE i <= Len(delivered)
        BY <2>1, <2>3, <2>4, <4>1 DEF IInv, Rows
      <4>2. CASE i > Len(delivered)
        <5>1. i - Len(delivered) \in 1 .. OutputSize
          BY <2>1, <2>4, <4>2
        <5>2. delivered'[i] = chunk.first + chunk_offset + (i - Len(delivered)) - 1
          BY <2>1, <2>3, <2>4, <4>2, <5>1
        <5>3. QED  BY <2>1, <2>2, <5>1, <5>2
      <4>3. QED  BY <2>1, <4>1, <4>2
    <3>2. QED  BY <3>1
  <2>6. pc = "scanning" /\ stream = "scan"
    BY <1>11 DEF EmitChunk, IInv, Handles
  <2>7. Len(delivered) \in Nat /\ chunk.first \in Nat
    BY <2>1
  <2>8. /\ chunk_offset' <= chunk'.length /\ Len(delivered') = chunk'.first - 1 + chunk_offset'
        /\ done <=> pc = "finished"
    BY <2>1, <2>3, <2>4, <2>7 DEF IInv, Rows
  <2>9. QED  BY <2>3, <2>5, <2>6, <2>8 DEF IInv, Rows
<1>12. CASE CastFails
  <2>1. pc # "finished" /\ pc' # "finished" /\ (stream' # "scan" => stream # "scan")
    BY <1>12 DEF CastFails, Throw, handles, IInv, Handles
  <2>2. UNCHANGED <<delivered, chunk, chunk_offset, sent, total_rows_read, done>>
    BY <1>12 DEF CastFails, rows, counts, batch
  <2>3. QED  BY <2>1, <2>2 DEF IInv, Rows
<1>13. CASE DestroyGlobalState
  BY <1>13, ScanAssumption DEF
           IInv, Rows, TypeOK, Handles, DestroyGlobalState, NoChunk, remote, plan, bar
<1>14. CASE AskProgress
  BY <1>14, ScanAssumption DEF
           IInv, Rows, TypeOK, Handles, AskProgress, remote, rows, plan, handles,
           counts, batch
<1>15. CASE ReportProgress
  BY <1>15, ScanAssumption DEF
           IInv, Rows, TypeOK, Handles, ReportProgress, remote, rows, plan, handles,
           counts, batch
<1>16. CASE Alter
  BY <1>16, ScanAssumption DEF
           IInv, Rows, TypeOK, Handles, Alter, rows, plan, handles, counts, batch, bar
<1>17. QED
  BY <1>1, <1>2, <1>3, <1>4, <1>5, <1>6, <1>7, <1>8, <1>9, <1>10, <1>11, <1>12, <1>13,
     <1>14, <1>15, <1>16
  DEF Next, Bind, Execute, Scan

\* No step takes the progress below what was reported.
LEMMA BarStep ==
  ASSUME IInv, [Next]_vars
  PROVE  Bar'
<1>1. CASE UNCHANGED vars
  BY <1>1 DEF vars,
           IInv, Bar, Percentage, PercentageOf, ExpectedRows, TypeOK, Handles, Rows
<1>2. CASE PrepareForSchema
  BY <1>2, ScanAssumption DEF
           IInv, Bar, Percentage, PercentageOf, ExpectedRows, TypeOK, Handles, Rows,
           PrepareForSchema, Throw, remote, rows, plan, counts, batch, bar
<1>3. CASE ExecuteForSchema
  BY <1>3, ScanAssumption DEF
           IInv, Bar, Percentage, PercentageOf, ExpectedRows, TypeOK, Handles, Rows,
           ExecuteForSchema, Throw, remote, rows, plan, counts, batch, bar
<1>4. CASE GetSchemaFromStatement
  BY <1>4, ScanAssumption DEF
           IInv, Bar, Percentage, PercentageOf, ExpectedRows, TypeOK, Handles, Rows,
           GetSchemaFromStatement, Throw, remote, rows, counts, batch, bar
<1>5. CASE FinishBind
  BY <1>5, ScanAssumption DEF
           IInv, Bar, Percentage, PercentageOf, ExpectedRows, TypeOK, Handles, Rows,
           FinishBind, EstimatedRows, Throw, remote, rows, counts, batch, bar
<1>6. CASE Optimize
  BY <1>6, ScanAssumption DEF
           IInv, Bar, Percentage, PercentageOf, ExpectedRows, TypeOK, Handles, Rows,
           Optimize, remote, rows, handles, counts, batch, bar
<1>7. CASE InitGlobal
  BY <1>7, ScanAssumption, Zenon DEF
           IInv, Bar, Percentage, PercentageOf, ExpectedRows, TypeOK, Handles, Rows,
           InitGlobal, Throw, remote, rows, counts, batch
<1>8. CASE ExecuteQuery
  <2>1. reader # "asked" /\ progress = -1 /\ total_rows_read \in Nat
    BY <1>8, ScanAssumption DEF ExecuteQuery, IInv, TypeOK, Bar
  <2>2. ExpectedRows' \in Nat \cup {-1} /\ total_rows_read' = total_rows_read
    <3>1. rows_affected \in RowsAffected \cup {-1} /\ estimated \in RowsAffected \cup {-1}
      BY DEF IInv, TypeOK
    <3>2. rows_affected' \in RowsAffected \cup {-1} /\ estimated' = estimated
      BY <1>8, <3>1 DEF ExecuteQuery, plan
    <3>3. rows_affected' \in Nat \cup {-1} /\ estimated' \in Nat \cup {-1}
      BY <3>1, <3>2, ScanAssumption
    <3>4. QED  BY <1>8, <3>3 DEF ExecuteQuery, ExpectedRows
  <2>3. Percentage' \in -1 .. 999
    <3>1. PercentageOf(total_rows_read, ExpectedRows') \in -1 .. 999
      BY <2>1, <2>2, PercentageOfType
    <3>2. QED  BY <2>2, <3>1, Zenon DEF Percentage
  <2>4. QED
    BY <1>8, <2>1, <2>3 DEF ExecuteQuery, Throw, bar, Bar
<1>9. CASE GetStreamSchema
  <2>1. UNCHANGED <<total_rows_read, rows_affected, function, estimated, progress, reader>>
        /\ pc = "stream_schema" /\ pc' \in {"scanning", "throwing"}
    BY <1>9 DEF GetStreamSchema, Throw, plan, counts, bar
  <2>2. Percentage' = Percentage
    BY <2>1 DEF Percentage, PercentageOf, ExpectedRows
  <2>3. Percentage \in -1 .. 999
    BY PercentageType DEF IInv
  <2>4. QED  BY <2>1, <2>2, <2>3 DEF IInv, Bar
<1>10. CASE GetNextBatch
  <2>1. UNCHANGED <<rows_affected, function, estimated, progress, reader>>
    BY <1>10 DEF GetNextBatch, plan, bar
  <2>2. total_rows_read \in Nat /\ total_rows_read' \in Nat /\ total_rows_read <= total_rows_read'
    <3>1. total_rows_read \in Nat /\ sent \in Nat
      BY ScanAssumption DEF IInv, TypeOK
    <3>2. CASE UNCHANGED total_rows_read
      BY <3>1, <3>2
    <3>3. CASE \E n \in 0 .. MaxRows - sent : total_rows_read' = total_rows_read + n
      BY <3>1, <3>3, ScanAssumption
    <3>4. QED  BY <1>10, <3>2, <3>3 DEF GetNextBatch
  <2>3. ExpectedRows \in Nat \cup {-1} /\ ExpectedRows' = ExpectedRows
    BY <2>1, ScanAssumption DEF IInv, TypeOK, ExpectedRows
  <2>4. Percentage <= Percentage' /\ Percentage \in -1 .. 999 /\ Percentage' \in -1 .. 999
    <3> DEFINE e == ExpectedRows
               r == total_rows_read
               s == total_rows_read'
    <3>1. e \in Nat \cup {-1} /\ r \in Nat /\ s \in Nat /\ r <= s
      BY <2>2, <2>3
    <3>2. Percentage = PercentageOf(r, e) /\ Percentage' = PercentageOf(s, e)
      BY <2>3 DEF Percentage
    <3> HIDE DEF e, r, s
    <3>3. PercentageOf(r, e) \in -1 .. 999 /\ PercentageOf(s, e) \in -1 .. 999
      <4>1. PercentageOf(r, e) \in -1 .. 999
        BY <3>1, PercentageOfType, Zenon
      <4>2. PercentageOf(s, e) \in -1 .. 999
        BY <3>1, PercentageOfType, Zenon
      <4>3. QED  BY <4>1, <4>2
    <3>4. PercentageOf(r, e) <= PercentageOf(s, e)
      BY <3>1, PercentageOfGrows
    <3>5. QED  BY <3>2, <3>3, <3>4
  <2>5. progress <= Percentage /\ pc' \notin {"prepared", "stream_schema"}
        /\ (reader' = "asked" => pc' \in {"scanning", "finished", "throwing"})
    BY <1>10, <2>1 DEF GetNextBatch, Throw, IInv, Bar
  <2>6. progress \in -1 .. 1000
    BY DEF IInv, TypeOK
  <2>7. progress' <= Percentage'
    BY <2>1, <2>4, <2>5, <2>6
  <2>8. QED  BY <2>5, <2>7 DEF Bar
<1>11. CASE EmitChunk
  <2>1. UNCHANGED <<total_rows_read, rows_affected, function, estimated, progress, reader, pc>>
    BY <1>11 DEF EmitChunk, plan, counts, bar
  <2>2. Percentage' = Percentage
    BY <2>1 DEF Percentage, PercentageOf, ExpectedRows
  <2>3. QED  BY <2>1, <2>2 DEF IInv, Bar
<1>12. CASE CastFails
  BY <1>12, ScanAssumption DEF
           IInv, Bar, Percentage, PercentageOf, ExpectedRows, TypeOK, Handles, Rows,
           CastFails, Throw, remote, rows, plan, handles, counts, batch, bar
<1>13. CASE DestroyGlobalState
  BY <1>13, ScanAssumption DEF
           IInv, Bar, Percentage, PercentageOf, ExpectedRows, TypeOK, Handles, Rows,
           DestroyGlobalState, NoChunk, remote, plan, bar
<1>14. CASE AskProgress
  <2>1. UNCHANGED <<total_rows_read, rows_affected, function, estimated, pc>>
        /\ pc \in {"scanning", "finished"}
    BY <1>14 DEF AskProgress, plan, counts
  <2>2. Percentage' = Percentage
    BY <2>1 DEF Percentage, PercentageOf, ExpectedRows
  <2>3. CASE done
    <3>1. pc = "finished" /\ reader' = "idle"
      BY <1>14, <2>3 DEF AskProgress, IInv, Rows
    <3>2. QED  BY <2>1, <3>1 DEF Bar
  <2>4. CASE ~done
    <3>1. pc = "scanning" /\ progress' = progress
      BY <1>14, <2>1, <2>4 DEF AskProgress, IInv, Rows
    <3>2. QED  BY <2>1, <2>2, <3>1 DEF IInv, Bar
  <2>5. QED  BY <2>3, <2>4
<1>15. CASE ReportProgress
  <2>1. UNCHANGED <<total_rows_read, rows_affected, function, estimated, pc>>
        /\ reader = "asked" /\ reader' = "idle" /\ progress' = Percentage
    BY <1>15 DEF ReportProgress, plan, counts
  <2>2. Percentage' = Percentage
    BY <2>1 DEF Percentage, PercentageOf, ExpectedRows
  <2>3. Percentage \in Int
    BY PercentageType DEF IInv
  <2>4. QED  BY <2>1, <2>2, <2>3 DEF IInv, Bar
<1>16. CASE Alter
  BY <1>16, ScanAssumption DEF
           IInv, Bar, Percentage, PercentageOf, ExpectedRows, TypeOK, Handles, Rows,
           Alter, rows, plan, handles, counts, batch, bar
<1>17. QED
  BY <1>1, <1>2, <1>3, <1>4, <1>5, <1>6, <1>7, <1>8, <1>9, <1>10, <1>11, <1>12, <1>13,
     <1>14, <1>15, <1>16
  DEF Next, Bind, Execute, Scan

\* Only the optimizer chooses columns, and the entry they come from is not
\* replaced after it has.
LEMMA PlannedStep ==
  ASSUME IInv, [Next]_vars
  PROVE  Planned'
<1>1. CASE UNCHANGED <<function, entry, column_ids, projection_ids>>
           /\ (pc' = pc \/ pc \in {"idle", "bind_prepared", "bind_types"}
                \/ pc' \notin {"idle", "bind_prepared", "bind_schema", "bind_types", "bound"})
  BY <1>1 DEF IInv, Planned
<1>2. CASE GetSchemaFromStatement
  <2>1. column_ids' = <<>> /\ projection_ids' = <<>>
    BY <1>2 DEF GetSchemaFromStatement, IInv, Planned
  <2>2. QED  BY <2>1 DEF Planned
<1>3. CASE Optimize
  <2> DEFINE ids == (0 .. Len(entry.cols) - 1) \cup {RowId}
  <2>1. PICK n \in 1 .. MaxColumns : column_ids' \in [1 .. n -> ids]
    BY <1>3 DEF Optimize
  <2>2. \A i \in DOMAIN column_ids' : column_ids'[i] \in ids
    BY <2>1
  <2>3. \A k \in DOMAIN projection_ids' : projection_ids'[k] \in DOMAIN column_ids'
    <3>1. \A i : DOMAIN <<i>> = {1} /\ <<i>>[1] = i
      OBVIOUS
    <3>2. QED  BY <1>3, <3>1 DEF Optimize
  <2>4. /\ UNCHANGED <<function, entry>> /\ pc' = "planned"
        /\ projection_ids' # <<>> => function = "adbc_scan"
    BY <1>3 DEF Optimize
  <2> HIDE DEF ids
  <2>5. QED  BY <2>2, <2>3, <2>4 DEF Planned, ids
<1>4. QED
  BY <1>1, <1>2, <1>3 DEF Next, Bind, Execute, Scan, Throw, vars, plan, PrepareForSchema,
     ExecuteForSchema, FinishBind, InitGlobal, ExecuteQuery, GetStreamSchema, GetNextBatch,
     EmitChunk, CastFails, DestroyGlobalState, AskProgress, ReportProgress, Alter

\* The stream of a scan is opened with the answer to the query of the plan, and
\* neither changes while it is open.
LEMMA ProjectedStep ==
  ASSUME IInv, [Next]_vars
  PROVE  Projected'
<1>1. CASE stream' # "scan"
  BY <1>1 DEF Projected
<1>2. CASE UNCHANGED <<stream, stream_schema, function, bound, column_ids>>
  <2>1. NeedsProjection' = NeedsProjection /\ Selected' = Selected
    BY <1>2 DEF NeedsProjection, Selected, InRange, AllInOrder
  <2>2. QED  BY <1>2, <2>1 DEF IInv, Projected
<1>3. CASE ExecuteQuery /\ stream' = "scan"
  <2>1. stream_schema' = AnswerSchema /\ UNCHANGED <<function, bound, column_ids>>
    BY <1>3 DEF ExecuteQuery, IInv, Handles, plan
  <2>2. NeedsProjection' = NeedsProjection /\ Selected' = Selected
    BY <2>1 DEF NeedsProjection, Selected, InRange, AllInOrder
  <2>3. NeedsProjection => AnswerSchema.cols = Selected
    <3>1. table \in [cols : Seq(Column), types : [Column -> Type]]
      BY ScanAssumption DEF IInv, TypeOK
    <3>2. QED  BY <3>1 DEF AnswerSchema
  <2>4. QED  BY <2>1, <2>2, <2>3 DEF Projected
<1>4. CASE Optimize \/ ExecuteForSchema \/ GetSchemaFromStatement
  BY <1>1, <1>4 DEF Optimize, ExecuteForSchema, GetSchemaFromStatement, handles, IInv, Handles
<1>5. QED
  BY <1>1, <1>2, <1>3, <1>4 DEF Next, Bind, Execute, Scan, Throw, vars, plan, handles,
     PrepareForSchema, FinishBind, InitGlobal, GetStreamSchema, GetNextBatch, EmitChunk,
     CastFails, DestroyGlobalState, AskProgress, ReportProgress, Alter

LEMMA IInvInvariant == Spec => []IInv
<1>1. IInv /\ [Next]_vars => IInv'
  BY TypesStep, HandlesStep, RowsStep, BarStep, PlannedStep, ProjectedStep DEF IInv
<1>2. QED  BY InitIInv, <1>1, PTL DEF Spec

-----------------------------------------------------------------------------
(* The theorems.                                                           *)

\* Every variable keeps its type in every reachable state.
THEOREM TypeCorrect == Spec => []TypeOK
<1>1. IInv => TypeOK
  BY DEF IInv
<1>2. QED  BY <1>1, IInvInvariant, PTL

\* No bind and no scan, failed or not, leaves a statement or a stream open.
THEOREM CallsCloseWhatTheyOpen == Spec => []NothingLeftOpen
<1>1. IInv => NothingLeftOpen
  BY DEF IInv, Handles, NothingLeftOpen
<1>2. QED  BY <1>1, IInvInvariant, PTL

\* Every output column is read from the column that was asked for, by name or
\* by position, with the type it has in the stream.
THEOREM ColumnsStayInPlace == Spec => []ColumnsInPlace
<1>1. ASSUME IInv, pc = "scanning", \A i \in DOMAIN column_ids : column_ids[i] # RowId,
             bound.cols = entry.cols, NeedsProjection \/ stream_schema.cols = bound.cols,
             function = "adbc_scan" => stream_schema.types = bound.types,
             NEW i \in Outputs
      PROVE  IsRead(i) /\ Source(i) = Asked(i) /\ ReadType(i) = stream_schema.types[Asked(i)]
  <2> DEFINE L == Len(bound.cols)
  <2>1. /\ bound.cols \in Seq(Column) /\ L \in Nat /\ DOMAIN bound.cols = 1 .. L
        /\ column_ids \in Seq(Nat \cup {RowId}) /\ stream = "scan"
    BY <1>1, ScanAssumption DEF IInv, TypeOK, Handles
  <2>2. \A k \in DOMAIN column_ids : column_ids[k] \in 0 .. L - 1
    BY <1>1 DEF IInv, Planned
  <2>3. Scanned[i] \in DOMAIN column_ids
    BY <1>1 DEF IInv, Planned, Outputs, Scanned
  <2>4. Id(i) \in 0 .. L - 1
    BY <2>2, <2>3 DEF Id
  <2>5. CASE function = "adbc_scan"
    <3>1. stream_schema.cols = bound.cols /\ stream_schema.types = bound.types
      BY <1>1, <2>5 DEF NeedsProjection
    <3>2. Position(i) = Id(i) + 1 /\ Position(i) \in 1 .. L /\ Id(i) # RowId
      BY <2>1, <2>4, <2>5, ScanAssumption DEF Position
    <3>3. IsRead(i) /\ Source(i) = bound.cols[Id(i) + 1]
      BY <2>1, <3>1, <3>2 DEF IsRead, Source
    <3>4. QED
      BY <1>1, <2>5, <3>1, <3>2, <3>3 DEF Asked, ReadType, Source
  <2>6. CASE function # "adbc_scan"
    <3>1. Scanned[i] = i /\ i \in DOMAIN column_ids /\ Id(i) = column_ids[i] /\ Position(i) = i
      BY <1>1, <2>3, <2>6 DEF IInv, Planned, Outputs, Scanned, Id, Position
    <3>2. InRange(column_ids) = column_ids
      BY <2>1, <2>2, KeepAll DEF InRange
    <3>3. i \in DOMAIN stream_schema.cols /\ stream_schema.cols[i] = bound.cols[column_ids[i] + 1]
      <4>1. CASE NeedsProjection
        <5>1. stream_schema.cols = [k \in 1 .. Len(column_ids) |-> bound.cols[column_ids[k] + 1]]
          BY <2>1, <3>2, <4>1, <1>1 DEF IInv, Projected, Selected
        <5>2. i \in 1 .. Len(column_ids)
          BY <2>1, <3>1
        <5>3. QED  BY <5>1, <5>2
      <4>2. CASE ~NeedsProjection
        <5>1. column_ids = <<>> \/ column_ids = AllInOrder
          BY <2>6, <3>2, <4>2 DEF NeedsProjection
        <5>2. i \in 1 .. L /\ column_ids[i] = i - 1
          BY <2>1, <3>1, <5>1 DEF AllInOrder
        <5>3. stream_schema.cols = bound.cols
          BY <1>1, <4>2
        <5>4. QED  BY <2>1, <5>2, <5>3
      <4>3. QED  BY <4>1, <4>2
    <3>4. IsRead(i) /\ Source(i) = Asked(i)
      BY <1>1, <2>6, <3>1, <3>3 DEF IsRead, Source, Asked
    <3>5. QED
      BY <2>6, <3>4 DEF ReadType
  <2>7. QED  BY <2>5, <2>6
<1>2. IInv => ColumnsInPlace
  BY <1>1 DEF ColumnsInPlace
<1>3. QED  BY <1>2, IInvInvariant, PTL

\* The progress bar only rises within an execution, and 100% means delivered.
THEOREM BarIsHonest == Spec => ProgressIsHonest
<1>1. ASSUME IInv, TypeOK', [Next]_vars, progress' # progress, scans' = scans
      PROVE  progress' > progress /\ (progress' = 1000 => Len(delivered) = sent)
  <2>1. CASE AskProgress
    <3>1. progress \in -1 .. 1000
      BY <1>1 DEF IInv, TypeOK
    <3>2. done /\ progress' = 1000
      BY <1>1, <2>1 DEF AskProgress
    <3>3. Len(delivered) = sent
      BY <1>1, <3>2 DEF IInv, Rows, TypeOK
    <3>4. QED  BY <1>1, <3>1, <3>2, <3>3
  <2>2. CASE ReportProgress
    <3>1. Percentage \in -1 .. 999 /\ progress' = Percentage /\ progress <= Percentage
      BY <1>1, <2>2, PercentageType DEF ReportProgress, IInv, Bar
    <3>2. progress \in -1 .. 1000
      BY <1>1 DEF IInv, TypeOK
    <3>3. QED  BY <1>1, <3>1, <3>2
  <2>3. CASE InitGlobal
    <3>1. scans' = scans + 1 /\ scans \in Nat
      BY <1>1, <2>3, ScanAssumption DEF InitGlobal, IInv, TypeOK
    <3>2. QED  BY <1>1, <3>1
  <2>4. CASE UNCHANGED progress
    BY <1>1, <2>4
  <2>5. QED
    BY <1>1, <2>1, <2>2, <2>3, <2>4 DEF Next, Bind, Execute, Scan, vars, bar,
       PrepareForSchema, ExecuteForSchema, GetSchemaFromStatement, FinishBind, Optimize,
       ExecuteQuery, GetStreamSchema, GetNextBatch, EmitChunk, CastFails,
       DestroyGlobalState, Alter
<1>2. IInv /\ TypeOK' /\ [Next]_vars =>
        (progress' # progress /\ scans' = scans =>
           progress' > progress /\ (progress' = 1000 => Len(delivered) = sent))
  BY <1>1
<1>3. QED  BY <1>2, IInvInvariant, TypeCorrect, PTL DEF Spec, ProgressIsHonest

\* The scan implements ResultStream: its initial states are the abstract ones,
\* and each of its steps is a step of the stream or leaves the stream alone.
THEOREM ScanDelivers == Spec => Delivers
<1>1. Init => Stream!Init
  BY DEF Init, Stream!Init
<1>2. ASSUME IInv, IInv', [Next]_vars  PROVE [Stream!Next]_Stream!vars
  <2>1. /\ sent \in Nat /\ sent' \in Nat /\ Len(delivered) \in Nat
        /\ stream = "scan" \/ (sent = 0 /\ delivered = <<>>)
        /\ pc = "finished" => stream = "scan"
    BY <1>2, ScanAssumption DEF IInv, TypeOK, Rows, Handles
  <2>2. CASE ExecuteQuery
    BY <1>2, <2>2 DEF ExecuteQuery, Throw, rows, IInv, Handles, Stream!Next, Stream!Open, Stream!vars
  <2>3. CASE GetNextBatch
    <3>1. stream = "scan" /\ UNCHANGED <<stream, delivered>> /\ pc = "scanning"
      BY <1>2, <2>3 DEF GetNextBatch, handles, IInv, Handles
    <3>2. CASE done' = TRUE /\ pc' = "finished" /\ UNCHANGED sent
      <4>1. /\ chunk_offset = chunk.length /\ Len(delivered) = chunk.first - 1 + chunk_offset
            /\ sent = chunk.first - 1 + chunk.length
        <5>1. chunk_offset \in Nat /\ chunk.length \in Nat
          BY <1>2 DEF IInv, TypeOK
        <5>2. chunk_offset >= chunk.length /\ chunk_offset <= chunk.length
          BY <1>2, <2>3 DEF GetNextBatch, IInv, Rows
        <5>3. QED  BY <1>2, <5>1, <5>2 DEF IInv, Rows
      <4>2. QED  BY <3>1, <3>2, <4>1 DEF Stream!Next, Stream!Finish
    <3>3. CASE Throw /\ UNCHANGED sent
      BY <3>1, <3>3 DEF Throw, Stream!vars
    <3>4. CASE UNCHANGED pc /\ \E n \in 0 .. MaxRows - sent : sent' = sent + n
      <4>1. sent' = sent \/ sent' > sent
        BY <2>1, <3>4, ScanAssumption
      <4>2. QED  BY <2>1, <3>1, <3>4, <4>1 DEF Stream!Next, Stream!Send, Stream!vars
    <3>5. QED  BY <2>3, <3>2, <3>3, <3>4 DEF GetNextBatch
  <2>4. CASE EmitChunk
    <3>1. /\ OutputSize \in Nat \ {0} /\ chunk_offset + OutputSize <= chunk.length
          /\ chunk \in [first : Nat \ {0}, length : Nat] /\ chunk_offset \in Nat
          /\ delivered \in Seq(1 .. MaxRows)
      BY <1>2, <2>4, OutputSizeBounds DEF EmitChunk, IInv, TypeOK
    <3>2. /\ delivered' = delivered \o [i \in 1 .. OutputSize |-> chunk.first + chunk_offset + i - 1]
          /\ UNCHANGED <<sent, pc, stream>> /\ pc = "scanning" /\ stream = "scan"
      BY <1>2, <2>4 DEF EmitChunk, handles, IInv, Handles
    <3>3. OutputSize \in 1 .. sent - Len(delivered)
      <4>1. /\ Len(delivered) = chunk.first - 1 + chunk_offset
            /\ sent = chunk.first - 1 + chunk.length
            /\ chunk.first \in Nat /\ chunk.length \in Nat
        BY <1>2, <3>1 DEF IInv, Rows
      <4>2. QED  BY <3>1, <4>1
    <3>4. delivered' = [i \in 1 .. Len(delivered) + OutputSize |-> i]
      <4>1. delivered' \in Seq(1 .. MaxRows) /\ Len(delivered') = Len(delivered) + OutputSize
        BY <1>2, <3>1, <3>2 DEF IInv, TypeOK
      <4>2. \A i \in 1 .. Len(delivered') : delivered'[i] = i
        BY <1>2 DEF IInv, Rows
      <4>3. QED  BY <4>1, <4>2
    <3>5. QED  BY <3>2, <3>3, <3>4 DEF Stream!Next, Stream!Deliver
  <2>5. CASE DestroyGlobalState
    BY <1>2, <2>1, <2>5 DEF DestroyGlobalState, Stream!Next, Stream!Close, Stream!vars, IInv, Handles
  <2>6. CASE UNCHANGED <<rows, stream>> /\ pc # "finished" /\ pc' # "finished"
    BY <2>6 DEF rows, Stream!vars
  <2>7. CASE UNCHANGED <<rows, stream, pc>>
    BY <2>7 DEF rows, Stream!vars
  <2>8. CASE ExecuteForSchema \/ GetSchemaFromStatement
    BY <1>2, <2>8 DEF ExecuteForSchema, GetSchemaFromStatement, Throw, rows, IInv, Handles, Stream!vars
  <2>9. QED
    BY <1>2, <2>2, <2>3, <2>4, <2>5, <2>6, <2>7, <2>8 DEF Next, Bind, Execute, Scan, vars,
       rows, handles, Throw, PrepareForSchema, FinishBind, Optimize, InitGlobal,
       GetStreamSchema, CastFails, AskProgress, ReportProgress, Alter
<1>3. IInv /\ IInv' /\ [Next]_vars => [Stream!Next]_Stream!vars
  BY <1>2
<1>4. QED  BY <1>1, <1>3, IInvInvariant, PTL DEF Spec, Delivers, Stream!Spec

=============================================================================
