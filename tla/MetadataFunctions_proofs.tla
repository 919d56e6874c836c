----------------------- MODULE MetadataFunctions_proofs -----------------------
(***************************************************************************)
(* Theorems about the metadata functions, for every remote database, every *)
(* answer a driver may give, every size of vectors and every number of     *)
(* executions.                                                             *)
(***************************************************************************)
EXTENDS MetadataFunctions, SequenceTheorems, WellFoundedInduction, TLAPS

-----------------------------------------------------------------------------
(* The inductive invariant: types, what has been handed over, and what     *)
(* each place in the scan says about the stream, the schema and the rows.  *)

Places ==
  /\ pc \in {"idle", "bound"} => stream = "none" /\ rows = <<>>
  /\ pc \in {"idle", "bound", "extracting", "throwing"} => current_row = 0
  /\ pc = "finished" => current_row = Len(rows)
  /\ pc = "extracting" /\ IsSchema => unreleased > 0 /\ rows = <<>>

IInv == TypeOK /\ Places /\ OutputIsRows

-----------------------------------------------------------------------------
(* Lemmas.                                                                 *)

\* A prefix of a sequence, and nothing of it.
LEMMA PrefixType ==
  ASSUME NEW S, NEW s \in Seq(S), NEW n \in 0 .. Len(s)
  PROVE  SubSeq(s, 1, n) \in Seq(S) /\ Len(SubSeq(s, 1, n)) = n
<1>1. \A i \in 1 .. n : s[i] \in S
  BY ElementOfSeq
<1>2. QED  BY <1>1, SubSeqProperties

\* A chunk is not empty and does not go past the rows.
LEMMA CountBounds ==
  ASSUME TypeOK, current_row < Len(rows)
  PROVE  Count \in Nat \ {0} /\ current_row + Count \in 0 .. Len(rows)
<1>1. Len(rows) \in Nat /\ current_row \in Nat /\ VectorSize \in Nat \ {0}
  BY MetadataAssumption DEF TypeOK
<1>2. QED  BY <1>1 DEF Count

\* One more chunk is a longer prefix.
LEMMA ChunkExtendsPrefix ==
  ASSUME NEW S, NEW s \in Seq(S), NEW m \in 0 .. Len(s), NEW n \in 0 .. Len(s), m <= n
  PROVE  SubSeq(s, 1, m) \o SubSeq(s, m + 1, n) = SubSeq(s, 1, n)
<1>1. Len(s) \in Nat
  BY LenProperties
<1>2. 1 \in 1 .. Len(s) + 1 /\ m \in 1 - 1 .. Len(s) /\ n \in m .. Len(s)
  BY <1>1
<1>3. QED  BY <1>2, ConcatAdjacentSubSeq

-----------------------------------------------------------------------------
LEMMA InitIInv == Init => IInv
<1>1. Init => TypeOK
  <2> HAVE Init
  <2>1. <<>> \in Seq(Batch(request)) /\ <<>> \in Seq(Row) /\ Len(<<>>) = 0
    BY EmptySeq
  <2>2. QED  BY <2>1, MetadataAssumption DEF Init, TypeOK
<1>2. Init => Places /\ OutputIsRows
  BY SubSeqEmpty DEF Init, Places, OutputIsRows
<1>3. QED  BY <1>1, <1>2 DEF IInv

\* Every step keeps the invariant.
LEMMA StepIInv == IInv /\ [Next]_vars => IInv'
<1> SUFFICES ASSUME IInv, [Next]_vars
             PROVE  IInv'
  OBVIOUS
<1> USE MetadataAssumption
<1>0. TypeOK /\ Places /\ OutputIsRows
  BY DEF IInv
<1>1. CASE UNCHANGED vars
  BY <1>0, <1>1 DEF IInv, TypeOK, Places, IsSchema, OutputIsRows, vars
<1>2. CASE Bind
  BY <1>0, <1>2 DEF IInv, TypeOK, Places, IsSchema, OutputIsRows, Bind, source
<1>3. CASE InitGlobal
  <2>1. Answers(remote, request) \subseteq Seq(Batch(request))
    BY <1>0 DEF TypeOK
  <2>2. remaining' \in Seq(Batch(request'))
    BY <1>0, <1>3, <2>1 DEF InitGlobal, TypeOK, source
  <2>3. scans \in Nat /\ scans' = scans + 1 /\ scans' \in 0 .. MaxScans
        /\ unreleased \in 0 .. scans /\ (unreleased' = unreleased \/ unreleased' = unreleased + 1)
    BY <1>0, <1>3 DEF InitGlobal, TypeOK, source
  <2>4. TypeOK'
    BY <1>0, <1>3, <2>2, <2>3 DEF InitGlobal, TypeOK, source
  <2>5. Places' /\ OutputIsRows'
    BY <1>0, <1>3 DEF InitGlobal, TypeOK, Places, IsSchema, OutputIsRows, source
  <2>6. QED  BY <2>4, <2>5 DEF IInv
<1>4. CASE GetNext
  <2>1. current_row = 0 /\ current_row' = 0 /\ output' = output /\ request' = request
    BY <1>0, <1>4 DEF GetNext, Places
  <2>2. rows' \in Seq(Row) /\ remaining' \in Seq(Batch(request))
    <3>1. CASE /\ remaining # <<>>
               /\ rows' = rows \o RowsOf(request, Head(remaining))
               /\ remaining' = Tail(remaining)
      <4>1. Head(remaining) \in Batch(request) /\ remaining' \in Seq(Batch(request))
        BY <1>0, <3>1, HeadTailProperties DEF TypeOK
      <4>2. RowsOf(request, Head(remaining)) \in Seq(Row)
        BY <1>0, <4>1 DEF TypeOK
      <4>3. QED  BY <1>0, <3>1, <4>1, <4>2, ConcatProperties DEF TypeOK
    <3>2. CASE UNCHANGED <<rows, remaining>>
      BY <1>0, <3>2 DEF TypeOK
    <3>3. QED  BY <1>4, <3>1, <3>2 DEF GetNext
  <2>3. output = <<>>
    BY <1>0, <2>1, SubSeqEmpty DEF OutputIsRows
  <2>4. TypeOK'
    BY <1>0, <1>4, <2>1, <2>2, LenProperties DEF GetNext, TypeOK
  <2>5. OutputIsRows'
    BY <2>1, <2>3, SubSeqEmpty DEF OutputIsRows
  <2>6. Places'
    BY <1>0, <1>4, <2>1 DEF GetNext, Places, IsSchema
  <2>7. QED  BY <2>4, <2>5, <2>6 DEF IInv
<1>5. CASE ReadSchema
  <2>1. current_row = 0 /\ current_row' = 0 /\ output' = output /\ request' = request
    BY <1>0, <1>5 DEF ReadSchema, Places, IsSchema
  <2>2. rows' \in Seq(Row) /\ remaining' \in Seq(Batch(request))
    <3>1. CASE remaining # <<>> /\ rows' = RowsOf(request, Head(remaining)) /\ remaining' = <<>>
      <4>1. Head(remaining) \in Batch(request)
        BY <1>0, <3>1, HeadTailProperties DEF TypeOK
      <4>2. QED  BY <1>0, <3>1, <4>1, EmptySeq DEF TypeOK
    <3>2. CASE UNCHANGED <<rows, remaining>>
      BY <1>0, <3>2 DEF TypeOK
    <3>3. QED  BY <1>5, <3>1, <3>2 DEF ReadSchema
  <2>3. output = <<>>
    BY <1>0, <2>1, SubSeqEmpty DEF OutputIsRows
  <2>4. unreleased' \in 0 .. scans'
    BY <1>0, <1>5 DEF ReadSchema, Places, TypeOK
  <2>5. TypeOK'
    BY <1>0, <1>5, <2>1, <2>2, <2>4, LenProperties DEF ReadSchema, TypeOK
  <2>6. OutputIsRows'
    BY <2>1, <2>3, SubSeqEmpty DEF OutputIsRows
  <2>7. Places'
    BY <1>0, <1>5, <2>1 DEF ReadSchema, Places, IsSchema
  <2>8. QED  BY <2>5, <2>6, <2>7 DEF IInv
<1>6. CASE Function
  <2>1. CASE current_row < Len(rows)
    <3>1. /\ output' = output \o SubSeq(rows, current_row + 1, current_row + Count)
          /\ current_row' = current_row + Count
          /\ UNCHANGED <<rows, pc, remote, request, source, scans>>
      BY <1>6, <2>1 DEF Function
    <3>2. /\ rows \in Seq(Row) /\ current_row \in 0 .. Len(rows)
          /\ Count \in Nat \ {0} /\ current_row + Count \in 0 .. Len(rows)
      BY <1>0, <2>1, CountBounds DEF TypeOK
    <3>3. output' = SubSeq(rows, 1, current_row')
      BY <1>0, <3>1, <3>2, ChunkExtendsPrefix DEF OutputIsRows
    <3>4. output' \in Seq(Row)
      BY <3>1, <3>2, <3>3, PrefixType
    <3>5. QED
      BY <1>0, <1>6, <3>1, <3>2, <3>3, <3>4
         DEF Function, IInv, TypeOK, Places, IsSchema, OutputIsRows, source
  <2>2. CASE ~(current_row < Len(rows))
    <3>1. current_row = Len(rows)
      BY <1>0, <2>2, LenProperties DEF TypeOK
    <3>2. QED
      BY <1>0, <1>6, <2>2, <3>1 DEF Function, IInv, TypeOK, Places, IsSchema, OutputIsRows, source
  <2>3. QED  BY <2>1, <2>2
<1>7. CASE DestroyGlobalState
  <2>1. <<>> \in Seq(Batch(request)) /\ <<>> \in Seq(Row) /\ Len(<<>>) = 0
        /\ SubSeq(<<>>, 1, 0) = <<>>
    BY EmptySeq, SubSeqEmpty
  <2>2. QED
    BY <1>0, <1>7, <2>1 DEF DestroyGlobalState, IInv, TypeOK, Places, OutputIsRows
<1>8. CASE Alter
  BY <1>0, <1>8 DEF Alter, IInv, TypeOK, Places, IsSchema, OutputIsRows, source
<1>9. QED
  BY <1>1, <1>2, <1>3, <1>4, <1>5, <1>6, <1>7, <1>8 DEF Next

\* The invariant holds in every state.
THEOREM IInvInvariant == Spec => []IInv
<1>1. QED  BY InitIInv, StepIInv, PTL DEF Spec

-----------------------------------------------------------------------------
(* Theorems.                                                               *)

\* The types hold always: what is handed over are rows of the answer.
THEOREM TypeCorrect == Spec => []TypeOK
<1>1. IInv => TypeOK
  BY DEF IInv
<1>2. QED  BY <1>1, IInvInvariant, PTL

\* What has been handed over is the beginning of what was extracted.
THEOREM OutputIsRowsTheorem == Spec => []OutputIsRows
<1>1. IInv => OutputIsRows
  BY DEF IInv
<1>2. QED  BY <1>1, IInvInvariant, PTL

\* The scan implements ResultStream: its initial states are the abstract ones,
\* and each of its steps is a step of the stream or leaves the stream alone.
THEOREM MetadataDelivers == Spec => Delivers
<1> DEFINE status == CASE pc = "finished" -> "finished"
                       [] pc \in {"idle", "bound"} -> "closed"
                       [] OTHER -> "open"
           delivered == [i \in 1 .. Len(output) |-> i]
<1>1. Init => Stream!Init
  <2> HAVE Init
  <2>1. Len(rows) = 0 /\ Len(output) = 0
    BY EmptySeq DEF Init
  <2>2. [i \in 1 .. Len(output) |-> i] = <<>>
    BY <2>1
  <2>3. QED  BY <2>1, <2>2 DEF Init, Stream!Init
<1>2. ASSUME IInv, IInv', [Next]_vars  PROVE [Stream!Next]_Stream!vars
  <2>0. /\ rows \in Seq(Row) /\ Len(rows) \in Nat /\ rows' \in Seq(Row) /\ Len(rows') \in Nat
        /\ current_row \in 0 .. Len(rows) /\ current_row' \in 0 .. Len(rows')
        /\ Len(output) = current_row /\ Len(output') = current_row'
    BY <1>2, PrefixType, LenProperties DEF IInv, TypeOK, OutputIsRows
  <2>1. Len(delivered) = current_row /\ Len(delivered') = current_row'
    BY <2>0
  <2>2. CASE UNCHANGED <<rows, output>> /\ status' = status
    BY <2>2 DEF Stream!vars
  <2>3. CASE InitGlobal
    BY <2>3 DEF InitGlobal, Stream!Next, Stream!Open
  <2>4. CASE GetNext
    <3>1. pc = "extracting" /\ output' = output
      BY <2>4 DEF GetNext
    <3>2. CASE UNCHANGED rows /\ pc' # "finished" /\ pc' \notin {"idle", "bound"}
      BY <3>1, <3>2, <2>2
    <3>3. CASE rows' = rows \o RowsOf(request, Head(remaining)) /\ remaining # <<>> /\ UNCHANGED pc
      <4>1. RowsOf(request, Head(remaining)) \in Seq(Row)
        BY <1>2, <3>3, HeadTailProperties, MetadataAssumption DEF IInv, TypeOK
      <4>2. Len(rows') = Len(rows) + Len(RowsOf(request, Head(remaining)))
        BY <2>0, <3>3, <4>1, ConcatProperties
      <4>3. Len(rows') = Len(rows) \/ Len(rows') > Len(rows)
        BY <2>0, <4>1, <4>2, LenProperties
      <4>4. QED  BY <2>0, <3>1, <3>3, <4>3 DEF Stream!Next, Stream!Send, Stream!vars
    <3>4. QED  BY <2>4, <3>1, <3>2, <3>3 DEF GetNext
  <2>5. CASE ReadSchema
    <3>1. pc = "extracting" /\ output' = output /\ pc' \in {"scanning", "throwing"}
      BY <2>5 DEF ReadSchema
    <3>2. Len(rows') = Len(rows) \/ Len(rows') > Len(rows)
      <4>1. rows = <<>>
        BY <1>2, <2>5 DEF ReadSchema, IInv, Places
      <4>2. QED  BY <2>0, <4>1, EmptySeq
    <3>3. QED  BY <2>0, <3>1, <3>2 DEF Stream!Next, Stream!Send, Stream!vars
  <2>6. CASE Function /\ current_row < Len(rows)
    <3>1. /\ pc = "scanning" /\ UNCHANGED <<pc, rows>> /\ current_row' = current_row + Count
          /\ Count \in Nat \ {0}
      BY <1>2, <2>6, CountBounds DEF Function, IInv
    <3>2. Count \in 1 .. Len(rows) - Len(delivered)
      BY <2>0, <2>1, <3>1
    <3>3. delivered' = [i \in 1 .. Len(delivered) + Count |-> i]
      BY <2>0, <2>1, <3>1
    <3>4. QED  BY <3>1, <3>2, <3>3 DEF Stream!Next, Stream!Deliver
  <2>7. CASE Function /\ ~(current_row < Len(rows))
    <3>1. /\ pc = "scanning" /\ pc' = "finished" /\ UNCHANGED <<rows, output>>
          /\ Len(delivered) = Len(rows)
      BY <2>0, <2>1, <2>7 DEF Function
    <3>2. QED  BY <3>1 DEF Stream!Next, Stream!Finish
  <2>8. CASE DestroyGlobalState
    <3>1. Len(rows') = 0 /\ Len(output') = 0 /\ pc' = "bound" /\ pc \notin {"idle", "bound"}
      BY <2>8, EmptySeq DEF DestroyGlobalState
    <3>2. delivered' = <<>>
      BY <3>1
    <3>3. QED  BY <3>1, <3>2 DEF Stream!Next, Stream!Close
  <2>9. CASE Bind \/ Alter \/ UNCHANGED vars
    BY <2>2, <2>9 DEF Bind, Alter, vars
  <2>10. QED
    BY <1>2, <2>3, <2>4, <2>5, <2>6, <2>7, <2>8, <2>9 DEF Next
<1>3. IInv /\ IInv' /\ [Next]_vars => [Stream!Next]_Stream!vars
  BY <1>2
<1>4. QED  BY <1>1, <1>3, IInvInvariant, PTL DEF Spec, Delivers, Stream!Spec

-----------------------------------------------------------------------------
(* Sequences: induction, and what Keep and FlattenSeq return for one more  *)
(* element.                                                                *)

\* Induction, for a set of numbers in place of a predicate.
LEMMA Induction ==
  ASSUME NEW S, 0 \in S, \A n \in Nat : n \in S => n + 1 \in S
  PROVE  Nat \subseteq S
<1>1. SUFFICES ASSUME Nat \ S # {}  PROVE FALSE
  OBVIOUS
<1>2. PICK x \in Nat \ S : \A y \in Nat \ S : ~(<<y, x>> \in OpToRel(<, Nat))
  <2>1. Nat \ S \subseteq Nat
    OBVIOUS
  <2>2. QED  BY ONLY <1>1, <2>1, NatLessThanWellFounded, WFMin
<1>3. x # 0 /\ x - 1 \in Nat /\ x - 1 < x
  OBVIOUS
<1>4. x - 1 \notin S
  <2>1. x - 1 \in S => (x - 1) + 1 \in S
    BY <1>3
  <2>2. (x - 1) + 1 = x
    OBVIOUS
  <2>3. QED  BY <2>1, <2>2
<1>5. <<x - 1, x>> \in OpToRel(<, Nat)
  BY <1>3, Zenon DEF OpToRel
<1>6. QED  BY <1>2, <1>3, <1>4, <1>5, Zenon

\* What Keep has kept of the first elements.
Keeps(s, K, n, f) ==
  f = [i \in 0 .. n |->
         IF i = 0 THEN <<>>
         ELSE IF s[i] \in K THEN Append(f[i - 1], s[i]) ELSE f[i - 1]]

\* The recursive function that Keep is defined by exists.
LEMMA KeepExists ==
  ASSUME NEW s, NEW K, NEW n \in Nat
  PROVE  \E f : Keeps(s, K, n, f)
<1> DEFINE Next1(f, i) == IF i = 0 THEN <<>>
                          ELSE IF s[i] \in K THEN Append(f[i - 1], s[i]) ELSE f[i - 1]
           S == {m \in Nat : \E f : Keeps(s, K, m, f)}
<1>1. 0 \in S
  <2>1. Keeps(s, K, 0, [i \in 0 .. 0 |-> <<>>])
    BY DEF Keeps
  <2>2. QED  BY <2>1
<1>2. ASSUME NEW m \in Nat, m \in S  PROVE m + 1 \in S
  <2>1. PICK f : Keeps(s, K, m, f)
    BY <1>2
  <2> DEFINE g == [i \in 0 .. m + 1 |-> IF i = m + 1 THEN Next1(f, i) ELSE f[i]]
  <2>2. ASSUME NEW i \in 0 .. m + 1  PROVE g[i] = Next1(g, i)
    <3>1. CASE i = m + 1
      BY <2>1, <3>1
    <3>2. CASE i \in 0 .. m
      <4>1. g[i] = f[i] /\ f[i] = Next1(f, i)
        BY <2>1, <3>2 DEF Keeps
      <4>2. i # 0 => g[i - 1] = f[i - 1]
        BY <3>2
      <4>3. QED  BY <4>1, <4>2
    <3>3. QED  BY <3>1, <3>2
  <2>3. g = [i \in 0 .. m + 1 |-> Next1(g, i)]
    BY <2>2
  <2>4. Keeps(s, K, m + 1, g)
    BY <2>3 DEF Keeps
  <2> HIDE DEF g
  <2>5. m + 1 \in Nat
    OBVIOUS
  <2>6. QED  BY <2>4, <2>5
<1> HIDE DEF S
<1>3. Nat \subseteq S
  BY <1>1, <1>2, Induction
<1>4. QED  BY <1>3 DEF S

\* The same for sequences, which grow at their end.
LEMMA SequenceInduction ==
  ASSUME NEW T, NEW S, <<>> \in S,
         \A s \in Seq(T), e \in T : s \in S => Append(s, e) \in S
  PROVE  \A s \in Seq(T) : s \in S
<1> DEFINE N == {n \in Nat : \A s \in Seq(T) : Len(s) = n => s \in S}
<1>1. 0 \in N
  BY EmptySeq
<1>2. ASSUME NEW n \in Nat, n \in N  PROVE n + 1 \in N
  <2>1. SUFFICES ASSUME NEW s \in Seq(T), Len(s) = n + 1  PROVE s \in S
    OBVIOUS
  <2>2. s # <<>>
    BY <2>1, EmptySeq
  <2>3. PICK t \in Seq(T), e \in T : s = Append(t, e)
    BY <2>2, SequenceEmptyOrAppend
  <2>4. Len(t) \in Nat /\ Len(s) = Len(t) + 1
    BY <2>3, LenProperties, AppendProperties
  <2>5. Len(t) = n
    BY <2>1, <2>4
  <2>6. QED  BY <1>2, <2>3, <2>5
<1> HIDE DEF N
<1>3. Nat \subseteq N
  BY <1>1, <1>2, Induction
<1>4. QED  BY <1>3, LenProperties DEF N

\* One more element for Keep: two computations agree as far as both go.
LEMMA KeepAppend ==
  ASSUME NEW T, NEW s \in Seq(T), NEW e \in T, NEW K
  PROVE  /\ Keep(<<>>, K) = <<>>
         /\ Keep(Append(s, e), K) = IF e \in K THEN Append(Keep(s, K), e) ELSE Keep(s, K)
<1>1. ASSUME NEW t \in Seq(T)
      PROVE  \E f : /\ f[0] = <<>> /\ Keep(t, K) = f[Len(t)]
                    /\ \A n \in 1 .. Len(t) :
                         f[n] = IF t[n] \in K THEN Append(f[n - 1], t[n]) ELSE f[n - 1]
  <2> DEFINE f == CHOOSE g : Keeps(t, K, Len(t), g)
  <2>1. Len(t) \in Nat
    BY LenProperties
  <2>2. Keeps(t, K, Len(t), f)
    BY <2>1, KeepExists, Zenon
  <2>3. Keep(t, K) = f[Len(t)]
    BY DEF Keep, Keeps
  <2> HIDE DEF f
  <2>4. ASSUME NEW n \in 0 .. Len(t)
        PROVE  f[n] = IF n = 0 THEN <<>>
                      ELSE IF t[n] \in K THEN Append(f[n - 1], t[n]) ELSE f[n - 1]
    BY <2>2, Zenon DEF Keeps
  <2>5. QED  BY <2>1, <2>3, <2>4
<1>2. Keep(<<>>, K) = <<>>
  <2>1. <<>> \in Seq(T) /\ Len(<<>>) = 0
    BY EmptySeq
  <2>2. QED  BY <1>1, <2>1
<1> DEFINE t == Append(s, e)
<1>3. /\ t \in Seq(T) /\ Len(s) \in Nat /\ Len(t) = Len(s) + 1 /\ t[Len(t)] = e
      /\ \A i \in 1 .. Len(s) : t[i] = s[i]
  BY LenProperties, AppendProperties
<1> HIDE DEF t
<1>4. PICK f : /\ f[0] = <<>> /\ Keep(s, K) = f[Len(s)]
               /\ \A n \in 1 .. Len(s) :
                    f[n] = IF s[n] \in K THEN Append(f[n - 1], s[n]) ELSE f[n - 1]
  BY <1>1
<1>5. PICK g : /\ g[0] = <<>> /\ Keep(t, K) = g[Len(t)]
               /\ \A n \in 1 .. Len(t) :
                    g[n] = IF t[n] \in K THEN Append(g[n - 1], t[n]) ELSE g[n - 1]
  BY <1>1, <1>3
<1> DEFINE S == {n \in Nat : n <= Len(s) => f[n] = g[n]}
<1>6. 0 \in S
  BY <1>4, <1>5
<1>7. ASSUME NEW n \in Nat, n \in S  PROVE n + 1 \in S
  <2>1. SUFFICES ASSUME n + 1 <= Len(s)  PROVE f[n + 1] = g[n + 1]
    OBVIOUS
  <2>2. n + 1 \in 1 .. Len(s) /\ n + 1 \in 1 .. Len(t) /\ (n + 1) - 1 = n /\ f[n] = g[n]
    BY <1>3, <1>7, <2>1
  <2>3. t[n + 1] = s[n + 1]
    BY <1>3, <2>2
  <2>4. f[n + 1] = IF s[n + 1] \in K THEN Append(f[n], s[n + 1]) ELSE f[n]
    BY <1>4, <2>2
  <2>5. g[n + 1] = IF t[n + 1] \in K THEN Append(g[n], t[n + 1]) ELSE g[n]
    BY <1>5, <2>2
  <2>6. QED  BY <2>2, <2>3, <2>4, <2>5
<1> HIDE DEF S
<1>8. Nat \subseteq S
  BY <1>6, <1>7, Induction
<1>9. f[Len(s)] = g[Len(s)]
  BY <1>3, <1>8 DEF S
<1>10. Len(t) \in 1 .. Len(t) /\ Len(t) - 1 = Len(s)
  BY <1>3
<1>11. g[Len(t)] = IF e \in K THEN Append(g[Len(s)], e) ELSE g[Len(s)]
  BY <1>3, <1>5, <1>10
<1>12. QED  BY <1>2, <1>4, <1>5, <1>9, <1>11 DEF t

\* What FlattenSeq has joined of the first sequences.
Joins(ss, n, f) == f = [i \in 1 .. n |-> IF i = 1 THEN ss[i] ELSE f[i - 1] \o ss[i]]

LEMMA JoinExists ==
  ASSUME NEW ss, NEW n \in Nat
  PROVE  \E f : Joins(ss, n, f)
<1> DEFINE Next1(f, i) == IF i = 1 THEN ss[i] ELSE f[i - 1] \o ss[i]
           S == {m \in Nat : \E f : Joins(ss, m, f)}
<1>1. 0 \in S
  <2>1. Joins(ss, 0, [i \in 1 .. 0 |-> <<>>])
    BY DEF Joins
  <2>2. QED  BY <2>1
<1>2. ASSUME NEW m \in Nat, m \in S  PROVE m + 1 \in S
  <2>1. PICK f : Joins(ss, m, f)
    BY <1>2
  <2> DEFINE g == [i \in 1 .. m + 1 |-> IF i = m + 1 THEN Next1(f, i) ELSE f[i]]
  <2>2. ASSUME NEW i \in 1 .. m + 1  PROVE g[i] = Next1(g, i)
    <3>1. CASE i = m + 1
      BY <2>1, <3>1
    <3>2. CASE i \in 1 .. m
      <4>1. g[i] = f[i] /\ f[i] = Next1(f, i)
        BY <2>1, <3>2 DEF Joins
      <4>2. i # 1 => g[i - 1] = f[i - 1]
        BY <3>2
      <4>3. QED  BY <4>1, <4>2
    <3>3. QED  BY <3>1, <3>2
  <2>3. g = [i \in 1 .. m + 1 |-> Next1(g, i)]
    BY <2>2
  <2>4. Joins(ss, m + 1, g)
    BY <2>3 DEF Joins
  <2> HIDE DEF g
  <2>5. m + 1 \in Nat
    OBVIOUS
  <2>6. QED  BY <2>4, <2>5
<1> HIDE DEF S
<1>3. Nat \subseteq S
  BY <1>1, <1>2, Induction
<1>4. QED  BY <1>3 DEF S

\* One more sequence for FlattenSeq.
LEMMA FlattenAppend ==
  ASSUME NEW T, NEW ss \in Seq(Seq(T)), NEW e \in Seq(T)
  PROVE  FlattenSeq(<<>>) = <<>> /\ FlattenSeq(Append(ss, e)) = FlattenSeq(ss) \o e
<1>1. ASSUME NEW t \in Seq(Seq(T)), Len(t) # 0
      PROVE  \E f : /\ f[1] = t[1] /\ FlattenSeq(t) = f[Len(t)]
                    /\ \A n \in 2 .. Len(t) : f[n] = f[n - 1] \o t[n]
  <2> DEFINE f == CHOOSE g : Joins(t, Len(t), g)
  <2>1. Len(t) \in Nat
    BY LenProperties
  <2>2. Joins(t, Len(t), f)
    BY <2>1, JoinExists, Zenon
  <2>3. FlattenSeq(t) = f[Len(t)]
    BY <1>1 DEF FlattenSeq, Joins
  <2> HIDE DEF f
  <2>4. ASSUME NEW n \in 1 .. Len(t)
        PROVE  f[n] = IF n = 1 THEN t[n] ELSE f[n - 1] \o t[n]
    BY <2>2, Zenon DEF Joins
  <2>5. 1 \in 1 .. Len(t) /\ \A n \in 2 .. Len(t) : n \in 1 .. Len(t) /\ n # 1
    BY <1>1, <2>1
  <2>6. f[1] = t[1] /\ \A n \in 2 .. Len(t) : f[n] = f[n - 1] \o t[n]
    BY <2>4, <2>5
  <2>7. QED  BY <2>3, <2>6
<1>2. FlattenSeq(<<>>) = <<>>
  BY DEF FlattenSeq
<1> DEFINE t == Append(ss, e)
<1>3. /\ t \in Seq(Seq(T)) /\ Len(ss) \in Nat /\ Len(t) = Len(ss) + 1 /\ t[Len(t)] = e
      /\ \A i \in 1 .. Len(ss) : t[i] = ss[i]
  BY LenProperties, AppendProperties
<1> HIDE DEF t
<1>4. PICK g : /\ g[1] = t[1] /\ FlattenSeq(t) = g[Len(t)]
               /\ \A n \in 2 .. Len(t) : g[n] = g[n - 1] \o t[n]
  <2>1. Len(t) # 0
    BY <1>3
  <2>2. QED  BY <1>1, <1>3, <2>1, Zenon
<1>5. CASE Len(ss) = 0
  <2>1. FlattenSeq(t) = e
    BY <1>3, <1>4, <1>5
  <2>2. FlattenSeq(ss) = <<>>
    BY <1>2, <1>5, EmptySeq
  <2>3. QED  BY <1>2, <2>1, <2>2, ConcatEmptySeq DEF t
<1>6. CASE Len(ss) # 0
  <2>1. PICK f : /\ f[1] = ss[1] /\ FlattenSeq(ss) = f[Len(ss)]
                 /\ \A n \in 2 .. Len(ss) : f[n] = f[n - 1] \o ss[n]
    BY <1>1, <1>6
  <2> DEFINE S == {n \in Nat : n + 1 <= Len(ss) => f[n + 1] = g[n + 1]}
  <2>2. 0 \in S
    BY <1>3, <1>4, <2>1
  <2>3. ASSUME NEW n \in Nat, n \in S  PROVE n + 1 \in S
    <3>1. SUFFICES ASSUME (n + 1) + 1 <= Len(ss)  PROVE f[(n + 1) + 1] = g[(n + 1) + 1]
      OBVIOUS
    <3> DEFINE m == (n + 1) + 1
    <3>2. m \in 2 .. Len(ss) /\ m \in 2 .. Len(t) /\ m \in 1 .. Len(ss) /\ m - 1 = n + 1
      BY <1>3, <3>1
    <3> HIDE DEF m
    <3>3. f[m - 1] = g[m - 1]
      BY <2>3, <3>1, <3>2, <1>3
    <3>4. f[m] = f[m - 1] \o ss[m] /\ g[m] = g[m - 1] \o t[m] /\ t[m] = ss[m]
      BY <1>3, <1>4, <2>1, <3>2
    <3>5. f[m] = g[m]
      BY <3>3, <3>4
    <3>6. QED  BY <3>5 DEF m
  <2> HIDE DEF S
  <2>4. Nat \subseteq S
    BY <2>2, <2>3, Induction
  <2>5. Len(ss) - 1 \in Nat /\ (Len(ss) - 1) + 1 = Len(ss) /\ Len(ss) <= Len(ss)
    BY <1>3, <1>6
  <2>6. f[Len(ss)] = g[Len(ss)]
    <3>1. Len(ss) - 1 \in S
      BY <2>4, <2>5
    <3>2. QED  BY <2>5, <3>1 DEF S
  <2>7. Len(t) \in 2 .. Len(t) /\ Len(t) - 1 = Len(ss)
    BY <1>3, <1>6
  <2>8. g[Len(t)] = g[Len(ss)] \o e
    BY <1>3, <1>4, <2>7
  <2>9. QED  BY <1>2, <1>4, <2>1, <2>6, <2>8 DEF t
<1>7. QED  BY <1>5, <1>6

LEMMA FlattenType ==
  ASSUME NEW T, NEW ss \in Seq(Seq(T))
  PROVE  FlattenSeq(ss) \in Seq(T)
<1> DEFINE S == {s \in Seq(Seq(T)) : FlattenSeq(s) \in Seq(T)}
<1>1. <<>> \in S
  BY EmptySeq, FlattenAppend
<1>2. ASSUME NEW s \in Seq(Seq(T)), NEW e \in Seq(T), s \in S  PROVE Append(s, e) \in S
  BY <1>2, FlattenAppend, AppendProperties, ConcatProperties
<1> HIDE DEF S
<1>3. \A s \in Seq(Seq(T)) : s \in S
  BY <1>1, <1>2, SequenceInduction
<1>4. QED  BY <1>3 DEF S

\* Sequences of sequences, one after the other.
LEMMA FlattenConcat ==
  ASSUME NEW T, NEW a \in Seq(Seq(T)), NEW b \in Seq(Seq(T))
  PROVE  FlattenSeq(a \o b) = FlattenSeq(a) \o FlattenSeq(b)
<1> DEFINE S == {s \in Seq(Seq(T)) : FlattenSeq(a \o s) = FlattenSeq(a) \o FlattenSeq(s)}
<1>1. <<>> \in S
  <2>1. FlattenSeq(<<>>) = <<>> /\ <<>> \in Seq(T) /\ <<>> \in Seq(Seq(T))
    BY FlattenAppend, EmptySeq
  <2>2. FlattenSeq(a) \in Seq(T)
    BY FlattenType
  <2>3. a \o <<>> = a /\ FlattenSeq(a) \o <<>> = FlattenSeq(a)
    BY <2>2, ConcatEmptySeq
  <2>4. QED  BY <2>1, <2>3
<1>2. ASSUME NEW s \in Seq(Seq(T)), NEW e \in Seq(T), s \in S  PROVE Append(s, e) \in S
  <2>1. Append(s, e) \in Seq(Seq(T)) /\ a \o s \in Seq(Seq(T))
    BY AppendProperties, ConcatProperties
  <2>2. a \o Append(s, e) = Append(a \o s, e)
    <3>1. <<e>> \in Seq(Seq(T)) /\ Append(s, e) = s \o <<e>> /\ Append(a \o s, e) = (a \o s) \o <<e>>
      BY <2>1, AppendIsConcat
    <3>2. QED  BY <3>1, ConcatAssociative
  <2>3. /\ FlattenSeq(a) \in Seq(T) /\ FlattenSeq(s) \in Seq(T)
        /\ FlattenSeq(Append(a \o s, e)) = FlattenSeq(a \o s) \o e
        /\ FlattenSeq(Append(s, e)) = FlattenSeq(s) \o e
    BY <2>1, FlattenType, FlattenAppend
  <2>4. FlattenSeq(a \o s) = FlattenSeq(a) \o FlattenSeq(s)
    BY <1>2
  <2>5. (FlattenSeq(a) \o FlattenSeq(s)) \o e = FlattenSeq(a) \o (FlattenSeq(s) \o e)
    BY <2>3, ConcatAssociative
  <2>6. FlattenSeq(a \o Append(s, e)) = FlattenSeq(a) \o FlattenSeq(Append(s, e))
    BY <2>2, <2>3, <2>4, <2>5
  <2>7. QED  BY <2>1, <2>6
<1> HIDE DEF S
<1>3. \A s \in Seq(Seq(T)) : s \in S
  BY <1>1, <1>2, SequenceInduction
<1>4. QED  BY <1>3 DEF S

\* Where the elements of each sequence are, and which elements there are.
LEMMA FlattenPlaces ==
  ASSUME NEW T, NEW ss \in Seq(Seq(T)), NEW i \in 1 .. Len(ss)
  PROVE  LET before == FlattenSeq(SubSeq(ss, 1, i - 1))
             upto == FlattenSeq(SubSeq(ss, 1, i))
         IN  /\ Len(before) \in Nat /\ Len(upto) = Len(before) + Len(ss[i])
             /\ Len(upto) <= Len(FlattenSeq(ss))
             /\ \A j \in 1 .. Len(ss[i]) : FlattenSeq(ss)[Len(before) + j] = ss[i][j]
<1> DEFINE a == SubSeq(ss, 1, i - 1)
           b == SubSeq(ss, i + 1, Len(ss))
<1>1. Len(ss) \in Nat /\ ss[i] \in Seq(T) /\ Len(ss[i]) \in Nat /\ i \in Nat
  BY LenProperties, ElementOfSeq
<1>2. a \in Seq(Seq(T)) /\ b \in Seq(Seq(T))
  <2>1. \A k \in 1 .. Len(ss) : ss[k] \in Seq(T)
    BY ElementOfSeq
  <2>2. 1 \in Int /\ i - 1 \in Int /\ i + 1 \in Int /\ Len(ss) \in Int
        /\ (\A k \in 1 .. i - 1 : ss[k] \in Seq(T)) /\ \A k \in i + 1 .. Len(ss) : ss[k] \in Seq(T)
    BY <1>1, <2>1
  <2>3. QED  BY <2>2, SubSeqProperties
<1>3. SubSeq(ss, 1, i) = a \o <<ss[i]>> /\ SubSeq(ss, 1, i) = Append(a, ss[i])
  <2>1. 1 \in 1 .. Len(ss) /\ i \in 1 .. Len(ss)
    BY <1>1
  <2>2. SubSeq(ss, 1, i) = a \o <<ss[i]>>
    BY <2>1, SubSeqRecursiveSecond
  <2>3. QED  BY <1>1, <1>2, <2>2, AppendIsConcat
<1>4. ss = Append(a, ss[i]) \o b
  <2>1. SubSeq(ss, 1, i) \o b = SubSeq(ss, 1, Len(ss))
    <3>1. 1 \in 1 .. Len(ss) + 1 /\ i \in 1 - 1 .. Len(ss) /\ Len(ss) \in i .. Len(ss)
      BY <1>1
    <3>2. QED  BY <3>1, ConcatAdjacentSubSeq
  <2>2. QED  BY <1>3, <2>1, SubSeqFull
<1> DEFINE A == FlattenSeq(a)
           B == FlattenSeq(b)
<1> HIDE DEF a, b
<1>5. Append(a, ss[i]) \in Seq(Seq(T))
  BY <1>1, <1>2, AppendProperties
<1>6. FlattenSeq(Append(a, ss[i])) = A \o ss[i]
  BY <1>1, <1>2, FlattenAppend
<1>7. FlattenSeq(ss) = (A \o ss[i]) \o B
  BY <1>2, <1>4, <1>5, <1>6, FlattenConcat
<1>8. A \in Seq(T) /\ B \in Seq(T) /\ Len(A) \in Nat /\ Len(B) \in Nat
  BY <1>2, FlattenType, LenProperties
<1> HIDE DEF A, B
<1> DEFINE s == ss[i]
           u == A \o s
<1>9. /\ u \in Seq(T) /\ Len(u) = Len(A) + Len(s)
      /\ \A j \in 1 .. Len(s) : Len(A) + j \in 1 .. Len(u) /\ u[Len(A) + j] = s[j]
  <2>1. s \in Seq(T) /\ Len(s) \in Nat
    BY <1>1
  <2> HIDE DEF s
  <2>2. /\ u \in Seq(T) /\ Len(u) = Len(A) + Len(s)
        /\ \A k \in 1 .. Len(A) + Len(s) : u[k] = IF k <= Len(A) THEN A[k] ELSE s[k - Len(A)]
    BY <1>8, <2>1, ConcatProperties
  <2> HIDE DEF u
  <2>3. \A j \in 1 .. Len(s) : /\ Len(A) + j \in 1 .. Len(A) + Len(s) /\ ~(Len(A) + j <= Len(A))
                               /\ (Len(A) + j) - Len(A) = j
    BY <1>8, <2>1
  <2>4. QED  BY <2>2, <2>3
<1> HIDE DEF u
<1>10. Len(u \o B) = Len(u) + Len(B) /\ \A k \in 1 .. Len(u) : (u \o B)[k] = u[k]
  <2>1. Len(u) \in Nat
    BY <1>9, LenProperties
  <2>2. \A k \in 1 .. Len(u) : k \in 1 .. Len(u) + Len(B) /\ k <= Len(u)
    BY <1>8, <2>1
  <2>3. /\ Len(u \o B) = Len(u) + Len(B)
        /\ \A k \in 1 .. Len(u) + Len(B) : (u \o B)[k] = IF k <= Len(u) THEN u[k] ELSE B[k - Len(u)]
    <3>1. u \in Seq(T) /\ B \in Seq(T)
      BY <1>8, <1>9
    <3>2. QED  BY ONLY <3>1, ConcatProperties
  <2>4. QED  BY <2>2, <2>3
<1>11. FlattenSeq(SubSeq(ss, 1, i - 1)) = A /\ FlattenSeq(SubSeq(ss, 1, i)) = u /\ FlattenSeq(ss) = u \o B
  BY <1>3, <1>6, <1>7 DEF A, a, u
<1>12. Len(u) <= Len(u \o B) /\ Len(u) \in Nat
  BY <1>8, <1>9, <1>10, LenProperties
<1>13. \A j \in 1 .. Len(s) : (u \o B)[Len(A) + j] = s[j]
  BY <1>9, <1>10
<1> HIDE DEF s
<1>14. QED  BY <1>8, <1>9, <1>11, <1>12, <1>13 DEF s

LEMMA FlattenElements ==
  ASSUME NEW T, NEW ss \in Seq(Seq(T))
  PROVE  ToSet(FlattenSeq(ss)) = UNION {ToSet(ss[i]) : i \in DOMAIN ss}
<1> DEFINE Elements(s) == UNION {ToSet(s[i]) : i \in DOMAIN s}
           S == {s \in Seq(Seq(T)) : ToSet(FlattenSeq(s)) = Elements(s)}
<1>1. <<>> \in S
  <2>1. FlattenSeq(<<>>) = <<>> /\ <<>> \in Seq(Seq(T)) /\ DOMAIN <<>> = {}
    BY FlattenAppend, EmptySeq
  <2>2. QED  BY <2>1 DEF ToSet
<1>2. ASSUME NEW s \in Seq(Seq(T)), NEW e \in Seq(T), s \in S  PROVE Append(s, e) \in S
  <2>1. FlattenSeq(Append(s, e)) = FlattenSeq(s) \o e /\ FlattenSeq(s) \in Seq(T)
    BY FlattenAppend, FlattenType
  <2>2. \A a \in Seq(T) : \A b \in Seq(T) : ToSet(a \o b) = ToSet(a) \cup ToSet(b)
    <3> SUFFICES ASSUME NEW a \in Seq(T), NEW b \in Seq(T)
                 PROVE  ToSet(a \o b) = ToSet(a) \cup ToSet(b)
      OBVIOUS
    <3>1. /\ Len(a) \in Nat /\ Len(b) \in Nat
          /\ DOMAIN a = 1 .. Len(a) /\ DOMAIN b = 1 .. Len(b) /\ DOMAIN (a \o b) = 1 .. Len(a) + Len(b)
          /\ \A k \in 1 .. Len(a) + Len(b) :
               (a \o b)[k] = IF k <= Len(a) THEN a[k] ELSE b[k - Len(a)]
      BY LenProperties, ConcatProperties
    <3> DEFINE u == a \o b
    <3> HIDE DEF u
    <3>2. \A k \in DOMAIN u : u[k] \in ToSet(a) \cup ToSet(b)
      BY <3>1 DEF ToSet, u
    <3>3. \A k \in DOMAIN a : k \in DOMAIN u /\ u[k] = a[k]
      BY <3>1 DEF u
    <3>4. \A k \in DOMAIN b : Len(a) + k \in DOMAIN u /\ u[Len(a) + k] = b[k]
      BY <3>1 DEF u
    <3>5. ToSet(u) = ToSet(a) \cup ToSet(b)
      BY <3>2, <3>3, <3>4 DEF ToSet
    <3>6. QED  BY <3>5 DEF u
  <2>3. Elements(Append(s, e)) = Elements(s) \cup ToSet(e)
    <3>1. /\ DOMAIN s = 1 .. Len(s) /\ DOMAIN Append(s, e) = 1 .. Len(s) + 1 /\ Len(s) \in Nat
          /\ Append(s, e)[Len(s) + 1] = e /\ \A i \in 1 .. Len(s) : Append(s, e)[i] = s[i]
      BY LenProperties, AppendProperties
    <3> DEFINE t == Append(s, e)
    <3> HIDE DEF t
    <3>2. DOMAIN t = DOMAIN s \cup {Len(s) + 1} /\ t[Len(s) + 1] = e /\ \A i \in DOMAIN s : t[i] = s[i]
      BY <3>1 DEF t
    <3>3. Elements(t) = Elements(s) \cup ToSet(e)
      BY <3>2
    <3>4. QED  BY <3>3 DEF t
  <2>4. ToSet(FlattenSeq(s)) = Elements(s)
    BY <1>2
  <2> HIDE DEF Elements
  <2>5. ToSet(FlattenSeq(Append(s, e))) = Elements(Append(s, e))
    BY <2>1, <2>2, <2>3, <2>4
  <2>6. QED  BY <2>5, AppendProperties
<1> HIDE DEF S
<1>3. \A s \in Seq(Seq(T)) : s \in S
  BY <1>1, <1>2, SequenceInduction
<1>4. QED  BY <1>3 DEF S

LEMMA FlattenNothing ==
  ASSUME NEW n \in Nat
  PROVE  FlattenSeq([i \in 1 .. n |-> <<>>]) = <<>>
<1> DEFINE S == {m \in Nat : FlattenSeq([i \in 1 .. m |-> <<>>]) = <<>>}
<1>1. 0 \in S
  <2>1. [i \in 1 .. 0 |-> <<>>] = <<>>
    OBVIOUS
  <2>2. FlattenSeq(<<>>) = <<>>
    BY EmptySeq, FlattenAppend
  <2>3. QED  BY <2>1, <2>2
<1>2. ASSUME NEW m \in Nat, m \in S  PROVE m + 1 \in S
  <2> DEFINE none == [i \in 1 .. m |-> <<>>]
  <2>1. <<>> \in Seq({}) /\ none \in Seq(Seq({}))
    BY EmptySeq
  <2>2. [i \in 1 .. m + 1 |-> <<>>] = Append(none, <<>>)
    BY <2>1
  <2> HIDE DEF none
  <2>3. FlattenSeq(Append(none, <<>>)) = FlattenSeq(none) \o <<>>
    BY <2>1, FlattenAppend
  <2>4. FlattenSeq(none) = <<>>
    BY <1>2 DEF none
  <2>5. FlattenSeq([i \in 1 .. m + 1 |-> <<>>]) = <<>>
    BY <2>1, <2>2, <2>3, <2>4, ConcatEmptySeq
  <2>6. m + 1 \in Nat
    OBVIOUS
  <2>7. QED  BY <2>5, <2>6
<1> HIDE DEF S
<1>3. Nat \subseteq S
  BY <1>1, <1>2, Induction
<1>4. QED  BY <1>3 DEF S

LEMMA FlattenOne ==
  ASSUME NEW T, NEW e \in Seq(T)
  PROVE  FlattenSeq(<<>>) = <<>> /\ FlattenSeq(<<e>>) = e
<1>1. <<>> \in Seq(Seq(T)) /\ <<>> \in Seq(T) /\ Append(<<>>, e) = <<e>>
  BY EmptySeq
<1>2. FlattenSeq(<<>>) = <<>> /\ FlattenSeq(Append(<<>>, e)) = FlattenSeq(<<>>) \o e
  BY <1>1, FlattenAppend
<1>3. QED  BY <1>1, <1>2, ConcatEmptySeq

LEMMA KeepType ==
  ASSUME NEW T, NEW s \in Seq(T), NEW K
  PROVE  Keep(s, K) \in Seq(T)
<1> DEFINE S == {t \in Seq(T) : Keep(t, K) \in Seq(T)}
<1>1. <<>> \in S
  <2>1. Keep(<<>>, K) = <<>>
    <3>1. <<TRUE>> \in Seq({TRUE}) /\ <<>> \in Seq({TRUE})
      OBVIOUS
    <3>2. QED  BY <3>1, KeepAppend
  <2>2. QED  BY <2>1, EmptySeq
<1>2. ASSUME NEW t \in Seq(T), NEW e \in T, t \in S  PROVE Append(t, e) \in S
  <2>1. Keep(Append(t, e), K) = IF e \in K THEN Append(Keep(t, K), e) ELSE Keep(t, K)
    BY KeepAppend
  <2>2. QED  BY <1>2, <2>1, AppendProperties
<1> HIDE DEF S
<1>3. \A t \in Seq(T) : t \in S
  BY <1>1, <1>2, SequenceInduction
<1>4. QED  BY <1>3 DEF S

\* some is what g makes of the elements of s that are in K, all what it makes
\* of each element, nothing of those that are not in K.
MadeOfKept(T, R, s, K, g, some, all) ==
  /\ s \in Seq(T) /\ g \in [T -> Seq(R)] /\ some \in Seq(Seq(R)) /\ all \in Seq(Seq(R))
  /\ DOMAIN some = DOMAIN Keep(s, K) /\ \A i \in DOMAIN some : some[i] = g[Keep(s, K)[i]]
  /\ DOMAIN all = DOMAIN s
  /\ \A i \in DOMAIN all : all[i] = IF s[i] \in K THEN g[s[i]] ELSE <<>>

\* Both are the same but for what is empty.
LEMMA FlattenKeep ==
  ASSUME NEW T, NEW R, NEW s, NEW K, NEW g, NEW some, NEW all,
         MadeOfKept(T, R, s, K, g, some, all)
  PROVE  FlattenSeq(some) = FlattenSeq(all)
<1> DEFINE Of(t) == [i \in DOMAIN t |-> g[t[i]]]
           Cut(t) == [i \in DOMAIN t |-> IF t[i] \in K THEN g[t[i]] ELSE <<>>]
           S == {t \in Seq(T) : FlattenSeq(Of(Keep(t, K))) = FlattenSeq(Cut(t))}
<1>0. s \in Seq(T) /\ g \in [T -> Seq(R)]
  BY DEF MadeOfKept
<1>1. \A t \in Seq(T), e \in T :
        /\ Of(t) \in Seq(Seq(R)) /\ Of(Append(t, e)) = Append(Of(t), g[e])
        /\ Cut(t) \in Seq(Seq(R))
        /\ Cut(Append(t, e)) = Append(Cut(t), IF e \in K THEN g[e] ELSE <<>>)
  <2> SUFFICES ASSUME NEW t \in Seq(T), NEW e \in T
               PROVE  /\ Of(t) \in Seq(Seq(R)) /\ Of(Append(t, e)) = Append(Of(t), g[e])
                      /\ Cut(t) \in Seq(Seq(R))
                      /\ Cut(Append(t, e)) = Append(Cut(t), IF e \in K THEN g[e] ELSE <<>>)
    OBVIOUS
  <2>1. DOMAIN t = 1 .. Len(t) /\ Len(t) \in Nat /\ \A i \in DOMAIN t : t[i] \in T
    OBVIOUS
  <2>2. <<>> \in Seq(R)
    BY EmptySeq
  <2>3. g[e] \in Seq(R) /\ \A i \in DOMAIN t : g[t[i]] \in Seq(R)
    BY <1>0, <2>1
  <2>4. Of(t) \in Seq(Seq(R)) /\ Cut(t) \in Seq(Seq(R))
    BY <2>1, <2>2, <2>3
  <2>5. Of(Append(t, e)) = Append(Of(t), g[e])
    BY <2>1, <2>3, <2>4
  <2>6. Cut(Append(t, e)) = Append(Cut(t), IF e \in K THEN g[e] ELSE <<>>)
    BY <2>1, <2>3, <2>4
  <2>7. QED  BY <2>4, <2>5, <2>6
<1>2. Of(<<>>) = <<>> /\ Cut(<<>>) = <<>>
  OBVIOUS
<1> HIDE DEF Of, Cut
<1>3. <<>> \in S
  <2>1. Keep(<<>>, K) = <<>>
    <3>1. <<TRUE>> \in Seq({TRUE}) /\ <<>> \in Seq({TRUE})
      OBVIOUS
    <3>2. QED  BY <3>1, KeepAppend
  <2>2. QED  BY <1>2, <2>1, EmptySeq
<1>4. ASSUME NEW t \in Seq(T), NEW e \in T, t \in S  PROVE Append(t, e) \in S
  <2>1. Keep(Append(t, e), K) = IF e \in K THEN Append(Keep(t, K), e) ELSE Keep(t, K)
    BY KeepAppend
  <2>2. Keep(t, K) \in Seq(T) /\ g[e] \in Seq(R) /\ <<>> \in Seq(R)
    BY <1>0, KeepType, EmptySeq
  <2>3. FlattenSeq(Of(Keep(t, K))) = FlattenSeq(Cut(t))
    BY <1>4
  <2>4. CASE e \in K
    <3>1. Of(Keep(Append(t, e), K)) = Append(Of(Keep(t, K)), g[e]) /\ Of(Keep(t, K)) \in Seq(Seq(R))
      BY <1>1, <2>1, <2>2, <2>4
    <3>2. Cut(Append(t, e)) = Append(Cut(t), g[e]) /\ Cut(t) \in Seq(Seq(R))
      BY <1>1, <2>4
    <3>3. /\ FlattenSeq(Append(Of(Keep(t, K)), g[e])) = FlattenSeq(Of(Keep(t, K))) \o g[e]
          /\ FlattenSeq(Append(Cut(t), g[e])) = FlattenSeq(Cut(t)) \o g[e]
      BY <2>2, <3>1, <3>2, FlattenAppend
    <3>4. FlattenSeq(Of(Keep(Append(t, e), K))) = FlattenSeq(Cut(Append(t, e)))
      BY <2>3, <3>1, <3>2, <3>3
    <3>5. QED  BY <3>4, AppendProperties
  <2>5. CASE e \notin K
    <3>1. Cut(Append(t, e)) = Append(Cut(t), <<>>) /\ Cut(t) \in Seq(Seq(R))
      BY <1>1, <2>5
    <3>2. FlattenSeq(Append(Cut(t), <<>>)) = FlattenSeq(Cut(t)) \o <<>> /\ FlattenSeq(Cut(t)) \in Seq(R)
      BY <2>2, <3>1, FlattenAppend, FlattenType
    <3>3. FlattenSeq(Cut(Append(t, e))) = FlattenSeq(Cut(t))
      BY <3>1, <3>2, ConcatEmptySeq
    <3>4. FlattenSeq(Of(Keep(Append(t, e), K))) = FlattenSeq(Cut(Append(t, e)))
      BY <2>1, <2>3, <2>5, <3>3
    <3>5. QED  BY <3>4, AppendProperties
  <2>6. QED  BY <2>4, <2>5
<1> HIDE DEF S
<1>5. \A t \in Seq(T) : t \in S
  BY <1>3, <1>4, SequenceInduction
<1>6. some = Of(Keep(s, K)) /\ all = Cut(s)
  BY DEF MadeOfKept, Of, Cut
<1>7. QED  BY <1>0, <1>5, <1>6 DEF S

-----------------------------------------------------------------------------
(* Arrays: where the offsets of a list array lead.                         *)

LEMMA ListArrayPlaces ==
  ASSUME NEW T, NEW lists \in Seq(Seq(T)), NEW a, a = ListArray(lists)
  PROVE  /\ a.items \in Seq(T)
         /\ \A i \in DOMAIN lists :
              /\ a.offsets[i] \in Nat /\ a.offsets[i + 1] - a.offsets[i] = Len(lists[i])
              /\ \A j \in DOMAIN lists[i] :
                   /\ a.offsets[i] + j \in DOMAIN a.items
                   /\ a.items[a.offsets[i] + j] = lists[i][j]
<1> DEFINE At(i) == Len(FlattenSeq(SubSeq(lists, 1, i - 1)))
<1>1. /\ a.items = FlattenSeq(lists) /\ Len(lists) \in Nat /\ DOMAIN lists = 1 .. Len(lists)
      /\ \A i \in 1 .. Len(lists) + 1 : a.offsets[i] = At(i)
  BY DEF ListArray
<1>2. a.items \in Seq(T) /\ Len(a.items) \in Nat /\ DOMAIN a.items = 1 .. Len(a.items)
  BY <1>1, FlattenType, LenProperties
<1>3. ASSUME NEW i \in DOMAIN lists
      PROVE  /\ a.offsets[i] \in Nat /\ a.offsets[i + 1] - a.offsets[i] = Len(lists[i])
             /\ \A j \in DOMAIN lists[i] :
                  /\ a.offsets[i] + j \in DOMAIN a.items
                  /\ a.items[a.offsets[i] + j] = lists[i][j]
  <2>1. /\ i \in 1 .. Len(lists) /\ i \in 1 .. Len(lists) + 1 /\ i + 1 \in 1 .. Len(lists) + 1
        /\ (i + 1) - 1 = i
    BY <1>1
  <2>2. Len(lists[i]) \in Nat /\ DOMAIN lists[i] = 1 .. Len(lists[i])
    BY <1>1, LenProperties, ElementOfSeq
  <2>3. /\ At(i) \in Nat /\ Len(FlattenSeq(SubSeq(lists, 1, i))) = At(i) + Len(lists[i])
        /\ Len(FlattenSeq(SubSeq(lists, 1, i))) <= Len(FlattenSeq(lists))
        /\ \A j \in 1 .. Len(lists[i]) : FlattenSeq(lists)[At(i) + j] = lists[i][j]
    BY <2>1, FlattenPlaces
  <2>4. At(i + 1) = Len(FlattenSeq(SubSeq(lists, 1, i)))
    BY <2>1
  <2>5. a.offsets[i] = At(i) /\ a.offsets[i + 1] = At(i + 1)
    BY <1>1, <2>1
  <2> HIDE DEF At
  <2>6. /\ a.offsets[i] \in Nat /\ a.offsets[i + 1] - a.offsets[i] = Len(lists[i])
        /\ a.offsets[i] + Len(lists[i]) <= Len(a.items)
    BY <1>1, <2>2, <2>3, <2>4, <2>5
  <2>7. ASSUME NEW j \in DOMAIN lists[i]
        PROVE  a.offsets[i] + j \in DOMAIN a.items /\ a.items[a.offsets[i] + j] = lists[i][j]
    <3>1. j \in 1 .. Len(lists[i])
      BY <2>2
    <3>2. a.offsets[i] + j \in 1 .. Len(a.items)
      BY <1>2, <2>2, <2>6, <3>1
    <3>3. QED  BY <1>1, <1>2, <2>3, <2>5, <3>1, <3>2
  <2>8. QED  BY <2>6, <2>7
<1>4. QED  BY <1>2, <1>3

\* The offsets lead from each catalog to its schemas, from those to their tables
\* and from those to their columns, under the names they have in the tree.
LEMMA ObjectsPlaces ==
  ASSUME NEW cs \in Seq(ACatalog)
  PROVE  LET b == ObjectsArray(cs)
             S == b.schema_offsets
             T == b.table_offsets
             X == b.column_offsets
         IN  /\ Len(b.catalog_names) = Len(cs)
             /\ \A c \in DOMAIN cs :
                  /\ b.catalog_names[c] = cs[c].name
                  /\ S[c] \in Nat /\ S[c + 1] - S[c] = Len(cs[c].schemas)
                  /\ \A s \in DOMAIN cs[c].schemas :
                       /\ b.schema_names[S[c] + s] = cs[c].schemas[s].name
                       /\ T[S[c] + s] \in Nat
                       /\ T[(S[c] + s) + 1] - T[S[c] + s] = Len(cs[c].schemas[s].tables)
                       /\ \A t \in DOMAIN cs[c].schemas[s].tables :
                            LET table == cs[c].schemas[s].tables[t]
                                i == T[S[c] + s] + t
                            IN  /\ b.table_names[i] = table.name /\ b.table_types[i] = table.type
                                /\ X[i] \in Nat /\ X[i + 1] - X[i] = Len(table.columns)
                                /\ \A x \in DOMAIN table.columns :
                                     b.columns[X[i] + x] = ColumnStruct(table.columns[x])
<1> DEFINE schemas == ListArray([i \in DOMAIN cs |-> cs[i].schemas])
           tables == ListArray([i \in DOMAIN schemas.items |-> schemas.items[i].tables])
           columns == ListArray([i \in DOMAIN tables.items |-> tables.items[i].columns])
           b == ObjectsArray(cs)
           S == b.schema_offsets
           T == b.table_offsets
           X == b.column_offsets
<1>1. DOMAIN cs = 1 .. Len(cs) /\ Len(cs) \in Nat /\ \A i \in DOMAIN cs : cs[i] \in ACatalog
  OBVIOUS
<1>2. [i \in DOMAIN cs |-> cs[i].schemas] \in Seq(Seq(ASchema))
  BY <1>1 DEF ACatalog
<1>3. /\ schemas.items \in Seq(ASchema)
      /\ \A i \in DOMAIN cs :
           /\ schemas.offsets[i] \in Nat
           /\ schemas.offsets[i + 1] - schemas.offsets[i] = Len(cs[i].schemas)
           /\ \A j \in DOMAIN cs[i].schemas :
                /\ schemas.offsets[i] + j \in DOMAIN schemas.items
                /\ schemas.items[schemas.offsets[i] + j] = cs[i].schemas[j]
  <2> DEFINE lists == [i \in DOMAIN cs |-> cs[i].schemas]
  <2>1. lists \in Seq(Seq(ASchema)) /\ DOMAIN lists = DOMAIN cs
        /\ \A i \in DOMAIN cs : lists[i] = cs[i].schemas
    BY <1>2
  <2>2. schemas = ListArray(lists)
    OBVIOUS
  <2> HIDE DEF lists, schemas
  <2>3. /\ schemas.items \in Seq(ASchema)
        /\ \A i \in DOMAIN lists :
             /\ schemas.offsets[i] \in Nat /\ schemas.offsets[i + 1] - schemas.offsets[i] = Len(lists[i])
             /\ \A j \in DOMAIN lists[i] :
                  /\ schemas.offsets[i] + j \in DOMAIN schemas.items
                  /\ schemas.items[schemas.offsets[i] + j] = lists[i][j]
    BY <2>1, <2>2, ListArrayPlaces
  <2>4. QED  BY <2>1, <2>3
<1> HIDE DEF schemas
<1>4. DOMAIN schemas.items = 1 .. Len(schemas.items) /\ Len(schemas.items) \in Nat
      /\ \A i \in DOMAIN schemas.items : schemas.items[i] \in ASchema
  BY <1>3
<1>5. [i \in DOMAIN schemas.items |-> schemas.items[i].tables] \in Seq(Seq(ATable))
  BY <1>4 DEF ASchema
<1>6. /\ tables.items \in Seq(ATable)
      /\ \A i \in DOMAIN schemas.items :
           /\ tables.offsets[i] \in Nat
           /\ tables.offsets[i + 1] - tables.offsets[i] = Len(schemas.items[i].tables)
           /\ \A j \in DOMAIN schemas.items[i].tables :
                /\ tables.offsets[i] + j \in DOMAIN tables.items
                /\ tables.items[tables.offsets[i] + j] = schemas.items[i].tables[j]
  <2> DEFINE lists == [i \in DOMAIN schemas.items |-> schemas.items[i].tables]
  <2>1. lists \in Seq(Seq(ATable)) /\ DOMAIN lists = DOMAIN schemas.items
        /\ \A i \in DOMAIN schemas.items : lists[i] = schemas.items[i].tables
    BY <1>5
  <2>2. tables = ListArray(lists)
    OBVIOUS
  <2> HIDE DEF lists, tables
  <2>3. /\ tables.items \in Seq(ATable)
        /\ \A i \in DOMAIN lists :
             /\ tables.offsets[i] \in Nat /\ tables.offsets[i + 1] - tables.offsets[i] = Len(lists[i])
             /\ \A j \in DOMAIN lists[i] :
                  /\ tables.offsets[i] + j \in DOMAIN tables.items
                  /\ tables.items[tables.offsets[i] + j] = lists[i][j]
    BY <2>1, <2>2, ListArrayPlaces
  <2>4. QED  BY <2>1, <2>3
<1> HIDE DEF tables
<1>7. DOMAIN tables.items = 1 .. Len(tables.items) /\ Len(tables.items) \in Nat
      /\ \A i \in DOMAIN tables.items : tables.items[i] \in ATable
  BY <1>6
<1>8. [i \in DOMAIN tables.items |-> tables.items[i].columns] \in Seq(Seq(AColumn))
  BY <1>7 DEF ATable
<1>9. /\ columns.items \in Seq(AColumn)
      /\ \A i \in DOMAIN tables.items :
           /\ columns.offsets[i] \in Nat
           /\ columns.offsets[i + 1] - columns.offsets[i] = Len(tables.items[i].columns)
           /\ \A j \in DOMAIN tables.items[i].columns :
                /\ columns.offsets[i] + j \in DOMAIN columns.items
                /\ columns.items[columns.offsets[i] + j] = tables.items[i].columns[j]
  <2> DEFINE lists == [i \in DOMAIN tables.items |-> tables.items[i].columns]
  <2>1. lists \in Seq(Seq(AColumn)) /\ DOMAIN lists = DOMAIN tables.items
        /\ \A i \in DOMAIN tables.items : lists[i] = tables.items[i].columns
    BY <1>8
  <2>2. columns = ListArray(lists)
    OBVIOUS
  <2> HIDE DEF lists, columns
  <2>3. /\ columns.items \in Seq(AColumn)
        /\ \A i \in DOMAIN lists :
             /\ columns.offsets[i] \in Nat /\ columns.offsets[i + 1] - columns.offsets[i] = Len(lists[i])
             /\ \A j \in DOMAIN lists[i] :
                  /\ columns.offsets[i] + j \in DOMAIN columns.items
                  /\ columns.items[columns.offsets[i] + j] = lists[i][j]
    BY <2>1, <2>2, ListArrayPlaces
  <2>4. QED  BY <2>1, <2>3
<1> HIDE DEF columns
<1>10. /\ S = schemas.offsets /\ T = tables.offsets /\ X = columns.offsets
       /\ b.catalog_names = [i \in DOMAIN cs |-> cs[i].name]
       /\ b.schema_names = [i \in DOMAIN schemas.items |-> schemas.items[i].name]
       /\ b.table_names = [i \in DOMAIN tables.items |-> tables.items[i].name]
       /\ b.table_types = [i \in DOMAIN tables.items |-> tables.items[i].type]
       /\ b.columns = [i \in DOMAIN columns.items |-> ColumnStruct(columns.items[i])]
  BY DEF ObjectsArray, Names, schemas, tables, columns
<1> HIDE DEF b
<1>11. Len(b.catalog_names) = Len(cs)
  BY <1>1, <1>10
<1>12. ASSUME NEW c \in DOMAIN cs
       PROVE  /\ b.catalog_names[c] = cs[c].name
              /\ S[c] \in Nat /\ S[c + 1] - S[c] = Len(cs[c].schemas)
  BY <1>3, <1>10
<1>13. ASSUME NEW c \in DOMAIN cs, NEW s \in DOMAIN cs[c].schemas
       PROVE  /\ b.schema_names[S[c] + s] = cs[c].schemas[s].name
              /\ T[S[c] + s] \in Nat
              /\ T[(S[c] + s) + 1] - T[S[c] + s] = Len(cs[c].schemas[s].tables)
  <2> DEFINE i == S[c] + s
  <2>1. i \in DOMAIN schemas.items /\ schemas.items[i] = cs[c].schemas[s]
    BY <1>3, <1>10
  <2> HIDE DEF i
  <2>2. /\ b.schema_names[i] = cs[c].schemas[s].name /\ T[i] \in Nat
        /\ T[i + 1] - T[i] = Len(cs[c].schemas[s].tables)
    BY <1>6, <1>10, <2>1
  <2>3. QED  BY <2>2 DEF i
<1>14. ASSUME NEW c \in DOMAIN cs, NEW s \in DOMAIN cs[c].schemas,
              NEW t \in DOMAIN cs[c].schemas[s].tables
       PROVE  LET table == cs[c].schemas[s].tables[t]
                  i == T[S[c] + s] + t
              IN  /\ b.table_names[i] = table.name /\ b.table_types[i] = table.type
                  /\ X[i] \in Nat /\ X[i + 1] - X[i] = Len(table.columns)
                  /\ \A x \in DOMAIN table.columns :
                       b.columns[X[i] + x] = ColumnStruct(table.columns[x])
  <2> DEFINE table == cs[c].schemas[s].tables[t]
             k == S[c] + s
             i == T[k] + t
  <2>1. k \in DOMAIN schemas.items /\ schemas.items[k] = cs[c].schemas[s]
    BY <1>3, <1>10
  <2> HIDE DEF k
  <2>2. i \in DOMAIN tables.items /\ tables.items[i] = table
    BY <1>6, <1>10, <2>1
  <2> HIDE DEF i, table
  <2>3. b.table_names[i] = table.name /\ b.table_types[i] = table.type
    BY <1>10, <2>2
  <2>4. X[i] \in Nat /\ X[i + 1] - X[i] = Len(table.columns)
    BY <1>9, <1>10, <2>2
  <2>5. ASSUME NEW x \in DOMAIN table.columns
        PROVE  b.columns[X[i] + x] = ColumnStruct(table.columns[x])
    <3>1. X[i] + x \in DOMAIN columns.items /\ columns.items[X[i] + x] = table.columns[x]
      BY <1>9, <1>10, <2>2
    <3>2. QED  BY <1>10, <3>1
  <2>6. QED  BY <2>3, <2>4, <2>5 DEF i, k, table
<1>15. QED  BY <1>11, <1>12, <1>13, <1>14 DEF b

-----------------------------------------------------------------------------
(* The tree, walked level by level: what g makes of each table.            *)

OfSchema(name, s, g) == FlattenSeq([i \in DOMAIN s.tables |-> g[<<name, s.name, s.tables[i]>>]])
OfCatalog(c, g) == FlattenSeq([i \in DOMAIN c.schemas |-> OfSchema(c.name, c.schemas[i], g)])
Walk(cs, g) == FlattenSeq([i \in DOMAIN cs |-> OfCatalog(cs[i], g)])

Walker(R) == [STRING \X STRING \X ATable -> Seq(R)]

LEMMA WalkTypes ==
  ASSUME NEW R, NEW g \in Walker(R)
  PROVE  /\ \A name \in STRING, s \in ASchema :
              /\ [i \in DOMAIN s.tables |-> g[<<name, s.name, s.tables[i]>>]] \in Seq(Seq(R))
              /\ OfSchema(name, s, g) \in Seq(R)
         /\ \A c \in ACatalog :
              /\ [i \in DOMAIN c.schemas |-> OfSchema(c.name, c.schemas[i], g)] \in Seq(Seq(R))
              /\ OfCatalog(c, g) \in Seq(R)
         /\ \A cs \in Seq(ACatalog) :
              /\ [i \in DOMAIN cs |-> OfCatalog(cs[i], g)] \in Seq(Seq(R))
              /\ Walk(cs, g) \in Seq(R)
<1>1. ASSUME NEW name \in STRING, NEW s \in ASchema
      PROVE  /\ [i \in DOMAIN s.tables |-> g[<<name, s.name, s.tables[i]>>]] \in Seq(Seq(R))
             /\ OfSchema(name, s, g) \in Seq(R)
  <2>1. s.tables \in Seq(ATable) /\ s.name \in STRING
    BY DEF ASchema
  <2>2. /\ DOMAIN s.tables = 1 .. Len(s.tables) /\ Len(s.tables) \in Nat
        /\ \A i \in DOMAIN s.tables : s.tables[i] \in ATable
    BY <2>1
  <2>3. \A i \in DOMAIN s.tables : g[<<name, s.name, s.tables[i]>>] \in Seq(R)
    BY <2>1, <2>2 DEF Walker
  <2>4. [i \in DOMAIN s.tables |-> g[<<name, s.name, s.tables[i]>>]] \in Seq(Seq(R))
    BY <2>2, <2>3
  <2>5. QED  BY <2>4, FlattenType DEF OfSchema
<1>2. ASSUME NEW c \in ACatalog
      PROVE  /\ [i \in DOMAIN c.schemas |-> OfSchema(c.name, c.schemas[i], g)] \in Seq(Seq(R))
             /\ OfCatalog(c, g) \in Seq(R)
  <2>1. c.schemas \in Seq(ASchema) /\ c.name \in STRING
    BY DEF ACatalog
  <2>2. /\ DOMAIN c.schemas = 1 .. Len(c.schemas) /\ Len(c.schemas) \in Nat
        /\ \A i \in DOMAIN c.schemas : c.schemas[i] \in ASchema
    BY <2>1
  <2>3. \A i \in DOMAIN c.schemas : OfSchema(c.name, c.schemas[i], g) \in Seq(R)
    BY <1>1, <2>1, <2>2
  <2>4. [i \in DOMAIN c.schemas |-> OfSchema(c.name, c.schemas[i], g)] \in Seq(Seq(R))
    BY <2>2, <2>3
  <2>5. QED  BY <2>4, FlattenType DEF OfCatalog
<1>3. ASSUME NEW cs \in Seq(ACatalog)
      PROVE  /\ [i \in DOMAIN cs |-> OfCatalog(cs[i], g)] \in Seq(Seq(R))
             /\ Walk(cs, g) \in Seq(R)
  <2>1. DOMAIN cs = 1 .. Len(cs) /\ Len(cs) \in Nat /\ \A i \in DOMAIN cs : cs[i] \in ACatalog
    OBVIOUS
  <2>2. \A i \in DOMAIN cs : OfCatalog(cs[i], g) \in Seq(R)
    BY <1>2, <2>1
  <2>3. [i \in DOMAIN cs |-> OfCatalog(cs[i], g)] \in Seq(Seq(R))
    BY <2>1, <2>2
  <2>4. QED  BY <2>3, FlattenType DEF Walk
<1>4. QED  BY <1>1, <1>2, <1>3

\* What the names keep of a tree is a tree, with the same names.
LEMMA NamedType ==
  ASSUME NEW T, NEW s \in Seq(T), NEW filter
  PROVE  /\ Named(s, filter) \in Seq(T)
         /\ DOMAIN Named(s, filter) = 1 .. Len(Named(s, filter)) /\ Len(Named(s, filter)) \in Nat
         /\ \A i \in DOMAIN Named(s, filter) : Named(s, filter)[i] \in T
<1>1. Named(s, filter) \in Seq(T)
  BY KeepType DEF Named
<1>2. QED  BY <1>1

LEMMA MatchingColumnsType ==
  ASSUME NEW t \in ATable, NEW column
  PROVE  /\ MatchingColumns(t, column) \in ATable
         /\ MatchingColumns(t, column).name = t.name
         /\ MatchingColumns(t, column).type = t.type
         /\ MatchingColumns(t, column).columns = Named(t.columns, column)
<1>1. Named(t.columns, column) \in Seq(AColumn)
  BY NamedType DEF ATable
<1>2. QED  BY <1>1 DEF MatchingColumns, ATable

LEMMA MatchingTablesType ==
  ASSUME NEW s \in ASchema, NEW table, NEW column, NEW kept, kept = Named(s.tables, table)
  PROVE  /\ MatchingTables(s, table, column) \in ASchema
         /\ MatchingTables(s, table, column).name = s.name
         /\ MatchingTables(s, table, column).tables
              = [i \in DOMAIN kept |-> MatchingColumns(kept[i], column)]
<1> DEFINE new == [i \in DOMAIN kept |-> MatchingColumns(kept[i], column)]
<1>1. s.tables \in Seq(ATable)
  BY DEF ASchema
<1>2. DOMAIN kept = 1 .. Len(kept) /\ Len(kept) \in Nat /\ \A i \in DOMAIN kept : kept[i] \in ATable
  BY <1>1, NamedType
<1>3. \A i \in DOMAIN kept : MatchingColumns(kept[i], column) \in ATable
  BY <1>2, MatchingColumnsType
<1>4. new \in Seq(ATable)
  BY <1>2, <1>3
<1>5. MatchingTables(s, table, column) = [s EXCEPT !.tables = new]
  BY DEF MatchingTables
<1> HIDE DEF new
<1>6. /\ MatchingTables(s, table, column) \in ASchema
      /\ MatchingTables(s, table, column).name = s.name
      /\ MatchingTables(s, table, column).tables = new
  BY <1>4, <1>5 DEF ASchema
<1>7. QED  BY <1>6 DEF new

LEMMA MatchingSchemasType ==
  ASSUME NEW c \in ACatalog, NEW schema, NEW table, NEW column,
         NEW kept, kept = Named(c.schemas, schema)
  PROVE  /\ MatchingSchemas(c, schema, table, column) \in ACatalog
         /\ MatchingSchemas(c, schema, table, column).name = c.name
         /\ MatchingSchemas(c, schema, table, column).schemas
              = [i \in DOMAIN kept |-> MatchingTables(kept[i], table, column)]
<1> DEFINE new == [i \in DOMAIN kept |-> MatchingTables(kept[i], table, column)]
<1>1. c.schemas \in Seq(ASchema)
  BY DEF ACatalog
<1>2. DOMAIN kept = 1 .. Len(kept) /\ Len(kept) \in Nat /\ \A i \in DOMAIN kept : kept[i] \in ASchema
  BY <1>1, NamedType
<1>3. \A i \in DOMAIN kept : MatchingTables(kept[i], table, column) \in ASchema
  BY <1>2, MatchingTablesType
<1>4. new \in Seq(ASchema)
  BY <1>2, <1>3
<1>5. MatchingSchemas(c, schema, table, column) = [c EXCEPT !.schemas = new]
  BY DEF MatchingSchemas
<1> HIDE DEF new
<1>6. /\ MatchingSchemas(c, schema, table, column) \in ACatalog
      /\ MatchingSchemas(c, schema, table, column).name = c.name
      /\ MatchingSchemas(c, schema, table, column).schemas = new
  BY <1>4, <1>5 DEF ACatalog
<1>7. QED  BY <1>6 DEF new

\* What is made of the entries with a name that matches is what is made of all
\* entries, nothing of those whose name does not.
MadeOfNamed(T, R, s, filter, g, some, all) ==
  /\ s \in Seq(T) /\ g \in [T -> Seq(R)] /\ some \in Seq(Seq(R)) /\ all \in Seq(Seq(R))
  /\ DOMAIN some = DOMAIN Named(s, filter) /\ \A i \in DOMAIN some : some[i] = g[Named(s, filter)[i]]
  /\ DOMAIN all = DOMAIN s
  /\ \A i \in DOMAIN all : all[i] = IF Matches(s[i].name, filter) THEN g[s[i]] ELSE <<>>

LEMMA FlattenNamed ==
  ASSUME NEW T, NEW R, NEW s, NEW filter, NEW g, NEW some, NEW all,
         MadeOfNamed(T, R, s, filter, g, some, all)
  PROVE  FlattenSeq(some) = FlattenSeq(all)
<1> DEFINE K == {x \in ToSet(s) : Matches(x.name, filter)}
<1>1. \A i \in DOMAIN s : s[i] \in K <=> Matches(s[i].name, filter)
  BY DEF ToSet
<1>2. Named(s, filter) = Keep(s, K)
  BY DEF Named
<1> HIDE DEF K
<1>3. MadeOfKept(T, R, s, K, g, some, all)
  BY <1>1, <1>2 DEF MadeOfNamed, MadeOfKept
<1>4. QED  BY <1>3, FlattenKeep

\* Walking what the names keep is walking the whole tree and making nothing of
\* the tables that one of the names does not keep.
MadeOfTables(R, name, s, g, h, table, column) ==
  /\ name \in STRING /\ s \in ASchema /\ g \in Walker(R) /\ h \in Walker(R)
  /\ \A t \in ATable :
       h[<<name, s.name, t>>] =
         IF Matches(t.name, table) THEN g[<<name, s.name, MatchingColumns(t, column)>>] ELSE <<>>

LEMMA MatchingSchema ==
  ASSUME NEW R, NEW g, NEW h, NEW table, NEW column, NEW name, NEW s,
         MadeOfTables(R, name, s, g, h, table, column)
  PROVE  OfSchema(name, MatchingTables(s, table, column), g) = OfSchema(name, s, h)
<1> DEFINE kept == Named(s.tables, table)
           G == [t \in ATable |-> g[<<name, s.name, MatchingColumns(t, column)>>]]
           H == [i \in DOMAIN s.tables |-> h[<<name, s.name, s.tables[i]>>]]
           M == MatchingTables(s, table, column)
<1>0. s \in ASchema /\ name \in STRING /\ g \in Walker(R) /\ h \in Walker(R)
  BY DEF MadeOfTables
<1>1. s.tables \in Seq(ATable) /\ s.name \in STRING
  BY <1>0 DEF ASchema
<1>2. G \in [ATable -> Seq(R)]
  <2>1. \A t \in ATable : MatchingColumns(t, column) \in ATable
    BY MatchingColumnsType
  <2>2. \A t \in ATable : g[<<name, s.name, MatchingColumns(t, column)>>] \in Seq(R)
    BY <1>0, <1>1, <2>1 DEF Walker
  <2>3. QED  BY <2>2
<1>3. \A i \in DOMAIN s.tables : s.tables[i] \in ATable
  BY <1>1
<1>4. \A i \in DOMAIN s.tables :
        H[i] = IF Matches(s.tables[i].name, table) THEN G[s.tables[i]] ELSE <<>>
  BY <1>3 DEF MadeOfTables
<1> HIDE DEF H
<1>5. FlattenSeq([i \in DOMAIN kept |-> G[kept[i]]]) = FlattenSeq(H)
  <2> HIDE DEF G
  <2> DEFINE all == s.tables
             some == [i \in DOMAIN kept |-> G[kept[i]]]
  <2>1. all \in Seq(ATable) /\ kept = Named(all, table) /\ DOMAIN all = 1 .. Len(all)
    BY <1>1
  <2>2. DOMAIN kept = 1 .. Len(kept) /\ Len(kept) \in Nat /\ \A i \in DOMAIN kept : kept[i] \in ATable
    BY <2>1, NamedType
  <2>3. /\ some \in Seq(Seq(R)) /\ DOMAIN some = DOMAIN kept
        /\ \A i \in DOMAIN kept : some[i] = G[kept[i]]
    BY <1>2, <2>2
  <2>4. H \in Seq(Seq(R)) /\ DOMAIN H = DOMAIN all
    BY <1>0, <1>1, WalkTypes DEF H
  <2>5. \A i \in DOMAIN all : H[i] = IF Matches(all[i].name, table) THEN G[all[i]] ELSE <<>>
    BY <1>4
  <2> HIDE DEF kept, some, all
  <2>6. MadeOfNamed(ATable, R, all, table, G, some, H)
    BY <1>2, <2>1, <2>3, <2>4, <2>5 DEF MadeOfNamed
  <2>7. FlattenSeq(some) = FlattenSeq(H)
    BY <2>6, FlattenNamed
  <2>8. QED  BY <2>7 DEF some
<1>6. FlattenSeq(H) = OfSchema(name, s, h)
  BY DEF H, OfSchema
<1>7. M.name = s.name /\ M.tables = [i \in DOMAIN kept |-> MatchingColumns(kept[i], column)]
  BY <1>0, MatchingTablesType
<1>8. \A i \in DOMAIN kept : kept[i] \in ATable
  BY <1>1, NamedType
<1> HIDE DEF kept, M
<1>9. [i \in DOMAIN M.tables |-> g[<<name, M.name, M.tables[i]>>]] = [i \in DOMAIN kept |-> G[kept[i]]]
  BY <1>7, <1>8
<1>10. OfSchema(name, M, g) = FlattenSeq([i \in DOMAIN kept |-> G[kept[i]]])
  BY <1>9 DEF OfSchema
<1>11. QED  BY <1>5, <1>6, <1>10 DEF M, kept

LEMMA MatchingCatalog ==
  ASSUME NEW R, NEW g \in Walker(R), NEW h \in Walker(R), NEW schema, NEW table, NEW column,
         NEW c \in ACatalog,
         \A name \in STRING, t \in ATable :
           h[<<c.name, name, t>>] =
             IF Matches(name, schema) /\ Matches(t.name, table)
             THEN g[<<c.name, name, MatchingColumns(t, column)>>] ELSE <<>>
  PROVE  OfCatalog(MatchingSchemas(c, schema, table, column), g) = OfCatalog(c, h)
<1> DEFINE kept == Named(c.schemas, schema)
           G == [s \in ASchema |-> OfSchema(c.name, MatchingTables(s, table, column), g)]
           H == [i \in DOMAIN c.schemas |-> OfSchema(c.name, c.schemas[i], h)]
           M == MatchingSchemas(c, schema, table, column)
<1>1. c.schemas \in Seq(ASchema) /\ c.name \in STRING
  BY DEF ACatalog
<1>2. G \in [ASchema -> Seq(R)]
  <2>1. \A s \in ASchema : MatchingTables(s, table, column) \in ASchema
    BY MatchingTablesType
  <2>2. \A s \in ASchema : OfSchema(c.name, MatchingTables(s, table, column), g) \in Seq(R)
    BY <1>1, <2>1, WalkTypes
  <2>3. QED  BY <2>2
<1>3. \A i \in DOMAIN c.schemas : c.schemas[i] \in ASchema
  BY <1>1
<1>4. ASSUME NEW i \in DOMAIN c.schemas
      PROVE  H[i] = IF Matches(c.schemas[i].name, schema) THEN G[c.schemas[i]] ELSE <<>>
  <2> DEFINE s == c.schemas[i]
  <2>1. s \in ASchema /\ s.name \in STRING /\ s.tables \in Seq(ATable)
    BY <1>3 DEF ASchema
  <2>2. H[i] = OfSchema(c.name, s, h)
    OBVIOUS
  <2> HIDE DEF s
  <2>3. CASE Matches(s.name, schema)
    <3>1. MadeOfTables(R, c.name, s, g, h, table, column)
      BY <1>1, <2>1, <2>3 DEF MadeOfTables
    <3>2. OfSchema(c.name, MatchingTables(s, table, column), g) = OfSchema(c.name, s, h)
      BY <3>1, MatchingSchema
    <3>3. QED  BY <2>1, <2>2, <2>3, <3>2 DEF s
  <2>4. CASE ~Matches(s.name, schema)
    <3>1. DOMAIN s.tables = 1 .. Len(s.tables) /\ Len(s.tables) \in Nat
          /\ \A j \in DOMAIN s.tables : s.tables[j] \in ATable
      BY <2>1
    <3>2. [j \in DOMAIN s.tables |-> h[<<c.name, s.name, s.tables[j]>>]] = [j \in 1 .. Len(s.tables) |-> <<>>]
      BY <2>1, <2>4, <3>1
    <3>3. OfSchema(c.name, s, h) = <<>>
      BY <3>1, <3>2, FlattenNothing DEF OfSchema
    <3>4. QED  BY <2>2, <2>4, <3>3 DEF s
  <2>5. QED  BY <2>3, <2>4
<1> HIDE DEF H
<1>5. FlattenSeq([i \in DOMAIN kept |-> G[kept[i]]]) = FlattenSeq(H)
  <2> HIDE DEF G
  <2> DEFINE all == c.schemas
             some == [i \in DOMAIN kept |-> G[kept[i]]]
  <2>1. all \in Seq(ASchema) /\ kept = Named(all, schema) /\ DOMAIN all = 1 .. Len(all)
    BY <1>1
  <2>2. DOMAIN kept = 1 .. Len(kept) /\ Len(kept) \in Nat /\ \A i \in DOMAIN kept : kept[i] \in ASchema
    BY <2>1, NamedType
  <2>3. /\ some \in Seq(Seq(R)) /\ DOMAIN some = DOMAIN kept
        /\ \A i \in DOMAIN kept : some[i] = G[kept[i]]
    BY <1>2, <2>2
  <2>4. H \in Seq(Seq(R)) /\ DOMAIN H = DOMAIN all
    BY <1>1, WalkTypes DEF H
  <2>5. \A i \in DOMAIN all : H[i] = IF Matches(all[i].name, schema) THEN G[all[i]] ELSE <<>>
    BY <1>4
  <2> HIDE DEF kept, some, all
  <2>6. MadeOfNamed(ASchema, R, all, schema, G, some, H)
    BY <1>2, <2>1, <2>3, <2>4, <2>5 DEF MadeOfNamed
  <2>7. FlattenSeq(some) = FlattenSeq(H)
    BY <2>6, FlattenNamed
  <2>8. QED  BY <2>7 DEF some
<1>6. FlattenSeq(H) = OfCatalog(c, h)
  BY DEF H, OfCatalog
<1>7. M.name = c.name /\ M.schemas = [i \in DOMAIN kept |-> MatchingTables(kept[i], table, column)]
  BY MatchingSchemasType
<1>8. \A i \in DOMAIN kept : kept[i] \in ASchema
  BY <1>1, NamedType
<1> HIDE DEF kept, M
<1>9. [i \in DOMAIN M.schemas |-> OfSchema(M.name, M.schemas[i], g)] = [i \in DOMAIN kept |-> G[kept[i]]]
  BY <1>7, <1>8
<1>10. OfCatalog(M, g) = FlattenSeq([i \in DOMAIN kept |-> G[kept[i]]])
  BY <1>9 DEF OfCatalog
<1>11. QED  BY <1>5, <1>6, <1>10 DEF M, kept

LEMMA MatchingTree ==
  ASSUME NEW R, NEW g \in Walker(R), NEW h \in Walker(R),
         NEW catalog, NEW schema, NEW table, NEW column, NEW cs \in Seq(ACatalog),
         \A c \in STRING, s \in STRING, t \in ATable :
           h[<<c, s, t>>] =
             IF Matches(c, catalog) /\ Matches(s, schema) /\ Matches(t.name, table)
             THEN g[<<c, s, MatchingColumns(t, column)>>] ELSE <<>>
  PROVE  /\ Matching(cs, catalog, schema, table, column) \in Seq(ACatalog)
         /\ Walk(Matching(cs, catalog, schema, table, column), g) = Walk(cs, h)
<1> DEFINE kept == Named(cs, catalog)
           G == [c \in ACatalog |-> OfCatalog(MatchingSchemas(c, schema, table, column), g)]
           H == [i \in DOMAIN cs |-> OfCatalog(cs[i], h)]
           M == Matching(cs, catalog, schema, table, column)
<1>1. \A c \in ACatalog : MatchingSchemas(c, schema, table, column) \in ACatalog
  BY MatchingSchemasType
<1>2. G \in [ACatalog -> Seq(R)]
  <2>1. \A c \in ACatalog : OfCatalog(MatchingSchemas(c, schema, table, column), g) \in Seq(R)
    BY <1>1, WalkTypes
  <2>2. QED  BY <2>1
<1>3. \A i \in DOMAIN cs : cs[i] \in ACatalog
  OBVIOUS
<1>4. ASSUME NEW i \in DOMAIN cs
      PROVE  H[i] = IF Matches(cs[i].name, catalog) THEN G[cs[i]] ELSE <<>>
  <2> DEFINE c == cs[i]
  <2>1. c \in ACatalog /\ c.name \in STRING /\ c.schemas \in Seq(ASchema)
    BY <1>3 DEF ACatalog
  <2>2. H[i] = OfCatalog(c, h)
    OBVIOUS
  <2> HIDE DEF c
  <2>3. CASE Matches(c.name, catalog)
    <3>1. \A name \in STRING, t \in ATable :
            h[<<c.name, name, t>>] =
              IF Matches(name, schema) /\ Matches(t.name, table)
              THEN g[<<c.name, name, MatchingColumns(t, column)>>] ELSE <<>>
      BY <2>1, <2>3
    <3>2. OfCatalog(MatchingSchemas(c, schema, table, column), g) = OfCatalog(c, h)
      BY <2>1, <3>1, MatchingCatalog
    <3>3. QED  BY <2>1, <2>2, <2>3, <3>2 DEF c
  <2>4. CASE ~Matches(c.name, catalog)
    <3>1. ASSUME NEW s \in ASchema  PROVE OfSchema(c.name, s, h) = <<>>
      <4>1. /\ s.name \in STRING /\ DOMAIN s.tables = 1 .. Len(s.tables) /\ Len(s.tables) \in Nat
            /\ \A j \in DOMAIN s.tables : s.tables[j] \in ATable
        BY DEF ASchema
      <4>2. [j \in DOMAIN s.tables |-> h[<<c.name, s.name, s.tables[j]>>]] = [j \in 1 .. Len(s.tables) |-> <<>>]
        BY <2>1, <2>4, <4>1
      <4>3. QED  BY <4>1, <4>2, FlattenNothing DEF OfSchema
    <3>2. /\ DOMAIN c.schemas = 1 .. Len(c.schemas) /\ Len(c.schemas) \in Nat
          /\ \A j \in DOMAIN c.schemas : c.schemas[j] \in ASchema
      BY <2>1
    <3>3. [j \in DOMAIN c.schemas |-> OfSchema(c.name, c.schemas[j], h)] = [j \in 1 .. Len(c.schemas) |-> <<>>]
      BY <3>1, <3>2
    <3>4. OfCatalog(c, h) = <<>>
      BY <3>2, <3>3, FlattenNothing DEF OfCatalog
    <3>5. QED  BY <2>2, <2>4, <3>4 DEF c
  <2>5. QED  BY <2>3, <2>4
<1> HIDE DEF H
<1>5. FlattenSeq([i \in DOMAIN kept |-> G[kept[i]]]) = FlattenSeq(H)
  <2> HIDE DEF G
  <2> DEFINE some == [i \in DOMAIN kept |-> G[kept[i]]]
  <2>1. DOMAIN kept = 1 .. Len(kept) /\ Len(kept) \in Nat /\ \A i \in DOMAIN kept : kept[i] \in ACatalog
    BY NamedType
  <2>2. /\ some \in Seq(Seq(R)) /\ DOMAIN some = DOMAIN kept
        /\ \A i \in DOMAIN kept : some[i] = G[kept[i]]
    BY <1>2, <2>1
  <2>3. H \in Seq(Seq(R)) /\ DOMAIN H = DOMAIN cs
    BY WalkTypes DEF H
  <2>4. \A i \in DOMAIN cs : H[i] = IF Matches(cs[i].name, catalog) THEN G[cs[i]] ELSE <<>>
    BY <1>4
  <2>5. kept = Named(cs, catalog)
    OBVIOUS
  <2> HIDE DEF kept, some
  <2>6. MadeOfNamed(ACatalog, R, cs, catalog, G, some, H)
    BY <1>2, <2>2, <2>3, <2>4, <2>5 DEF MadeOfNamed
  <2>7. FlattenSeq(some) = FlattenSeq(H)
    BY <2>6, FlattenNamed
  <2>8. QED  BY <2>7 DEF some
<1>6. FlattenSeq(H) = Walk(cs, h)
  BY DEF H, Walk
<1>7. M = [i \in DOMAIN kept |-> MatchingSchemas(kept[i], schema, table, column)]
  BY DEF Matching
<1>8. DOMAIN kept = 1 .. Len(kept) /\ Len(kept) \in Nat /\ \A i \in DOMAIN kept : kept[i] \in ACatalog
  BY NamedType
<1> HIDE DEF kept, M
<1>9. M \in Seq(ACatalog)
  BY <1>1, <1>7, <1>8
<1>10. [i \in DOMAIN M |-> OfCatalog(M[i], g)] = [i \in DOMAIN kept |-> G[kept[i]]]
  BY <1>7, <1>8
<1>11. Walk(M, g) = FlattenSeq([i \in DOMAIN kept |-> G[kept[i]]])
  BY <1>10 DEF Walk
<1>12. QED  BY <1>5, <1>6, <1>9, <1>11 DEF M, kept

-----------------------------------------------------------------------------
(* Reading the arrays is walking the tree.                                 *)

\* What is at each place of a tree.
LEMMA TreeTypes ==
  ASSUME NEW cs \in Seq(ACatalog)
  PROVE  /\ DOMAIN cs = 1 .. Len(cs) /\ Len(cs) \in Nat
         /\ \A c \in DOMAIN cs :
              LET schemas == cs[c].schemas
              IN  /\ cs[c] \in ACatalog /\ cs[c].name \in STRING /\ schemas \in Seq(ASchema)
                  /\ DOMAIN schemas = 1 .. Len(schemas) /\ Len(schemas) \in Nat
                  /\ \A s \in DOMAIN schemas :
                       LET tables == schemas[s].tables
                       IN  /\ schemas[s] \in ASchema /\ schemas[s].name \in STRING
                           /\ tables \in Seq(ATable)
                           /\ DOMAIN tables = 1 .. Len(tables) /\ Len(tables) \in Nat
                           /\ \A t \in DOMAIN tables : tables[t] \in ATable
<1>1. DOMAIN cs = 1 .. Len(cs) /\ Len(cs) \in Nat /\ \A c \in DOMAIN cs : cs[c] \in ACatalog
  OBVIOUS
<1>2. ASSUME NEW c \in ACatalog
      PROVE  /\ c.name \in STRING /\ c.schemas \in Seq(ASchema)
             /\ DOMAIN c.schemas = 1 .. Len(c.schemas) /\ Len(c.schemas) \in Nat
             /\ \A s \in DOMAIN c.schemas : c.schemas[s] \in ASchema
  <2>1. c.name \in STRING /\ c.schemas \in Seq(ASchema)
    BY DEF ACatalog
  <2>2. QED  BY <2>1
<1>3. ASSUME NEW s \in ASchema
      PROVE  /\ s.name \in STRING /\ s.tables \in Seq(ATable)
             /\ DOMAIN s.tables = 1 .. Len(s.tables) /\ Len(s.tables) \in Nat
             /\ \A t \in DOMAIN s.tables : s.tables[t] \in ATable
  <2>1. s.name \in STRING /\ s.tables \in Seq(ATable)
    BY DEF ASchema
  <2>2. QED  BY <2>1
<1>4. QED  BY <1>1, <1>2, <1>3

\* The loops over the catalogs and over the schemas of each, when what is read
\* for a schema is what a walk makes of it.
ReadsSchemas(cs, b, X, g) ==
  /\ cs \in Seq(ACatalog) /\ b = ObjectsArray(cs)
  /\ \A c \in DOMAIN cs : \A s \in DOMAIN cs[c].schemas :
       X[<<c, b.schema_offsets[c] + s>>] = OfSchema(cs[c].name, cs[c].schemas[s], g)

LEMMA ReadSchemas ==
  ASSUME NEW cs, NEW b, NEW X, NEW g, ReadsSchemas(cs, b, X, g)
  PROVE  Collect(0, Len(b.catalog_names), LAMBDA c :
           Children(b.schema_offsets, c, LAMBDA s : X[<<c, s>>])) = Walk(cs, g)
<1> DEFINE S == b.schema_offsets
           Of(c) == [j \in 1 .. S[c + 1] - S[c] |-> X[<<c, S[c] + j>>]]
<1>0. cs \in Seq(ACatalog)
  BY DEF ReadsSchemas
<1>1. /\ DOMAIN cs = 1 .. Len(cs) /\ Len(cs) \in Nat
      /\ \A i \in DOMAIN cs : cs[i].schemas \in Seq(ASchema)
  BY <1>0, TreeTypes
<1>2. /\ Len(b.catalog_names) = Len(cs)
      /\ \A c \in DOMAIN cs : S[c] \in Nat /\ S[c + 1] - S[c] = Len(cs[c].schemas)
  BY <1>0, <1>1, ObjectsPlaces DEF ReadsSchemas
<1>3. \A c \in DOMAIN cs : FlattenSeq(Of(c)) = OfCatalog(cs[c], g)
  <2> SUFFICES ASSUME NEW c \in DOMAIN cs
               PROVE  FlattenSeq(Of(c)) = OfCatalog(cs[c], g)
    OBVIOUS
  <2> DEFINE schemas == cs[c].schemas
  <2>1. DOMAIN schemas = 1 .. Len(schemas)
    BY <1>1
  <2>2. \A j \in DOMAIN schemas : X[<<c, S[c] + j>>] = OfSchema(cs[c].name, schemas[j], g)
    BY DEF ReadsSchemas
  <2>3. S[c + 1] - S[c] = Len(schemas)
    BY <1>2
  <2>4. Of(c) = [j \in DOMAIN schemas |-> OfSchema(cs[c].name, schemas[j], g)]
    BY <2>1, <2>2, <2>3
  <2>5. QED  BY <2>4 DEF OfCatalog
<1>4. Collect(0, Len(b.catalog_names), LAMBDA c : Children(S, c, LAMBDA s : X[<<c, s>>]))
        = FlattenSeq([i \in 1 .. Len(b.catalog_names) - 0 |-> FlattenSeq(Of(0 + i))])
  BY DEF Collect, Children
<1> HIDE DEF Of
<1>5. \A i \in 1 .. Len(cs) : 0 + i = i /\ i \in DOMAIN cs
  BY <1>1
<1>6. 1 .. Len(b.catalog_names) - 0 = DOMAIN cs
  BY <1>1, <1>2
<1>7. [i \in 1 .. Len(b.catalog_names) - 0 |-> FlattenSeq(Of(0 + i))]
        = [i \in DOMAIN cs |-> OfCatalog(cs[i], g)]
  BY <1>1, <1>3, <1>5, <1>6
<1>8. QED  BY <1>4, <1>7 DEF Walk

\* The rows of adbc_tables for a table.
RowOfTable(c, s, t) ==
  [catalog_name |-> Shown(c), schema_name |-> Shown(s), table_name |-> t.name, table_type |-> t.type]

RowsOfTable == [p \in STRING \X STRING \X ATable |-> <<RowOfTable(p[1], p[2], p[3])>>]

LEMMA ExtractTablesWalks ==
  ASSUME NEW cs \in Seq(ACatalog)
  PROVE  ExtractTables(ObjectsArray(cs)) = Walk(cs, RowsOfTable)
<1> DEFINE b == ObjectsArray(cs)
           S == b.schema_offsets
           T == b.table_offsets
           Rows(c, n) == Children(T, n, LAMBDA t : <<TableRow(c, n, b, t)>>)
           X == [p \in Nat \X Nat |-> Rows(p[1], p[2])]
<1>1. /\ Len(b.catalog_names) = Len(cs) /\ Len(cs) \in Nat /\ DOMAIN cs = 1 .. Len(cs)
      /\ \A c \in DOMAIN cs : S[c] \in Nat
  BY ObjectsPlaces
<1>2. ASSUME NEW c \in DOMAIN cs, NEW s \in DOMAIN cs[c].schemas
      PROVE  Rows(c, S[c] + s) = OfSchema(cs[c].name, cs[c].schemas[s], RowsOfTable)
  <2> DEFINE n == S[c] + s
             tables == cs[c].schemas[s].tables
             r == [t \in Nat |-> <<TableRow(c, n, b, t)>>]
  <2>1. /\ b.catalog_names[c] = cs[c].name /\ b.schema_names[n] = cs[c].schemas[s].name
        /\ T[n] \in Nat /\ T[n + 1] - T[n] = Len(tables)
        /\ \A t \in DOMAIN tables :
             b.table_names[T[n] + t] = tables[t].name /\ b.table_types[T[n] + t] = tables[t].type
    BY ObjectsPlaces
  <2>2. /\ cs[c].name \in STRING /\ cs[c].schemas[s].name \in STRING
        /\ DOMAIN tables = 1 .. Len(tables) /\ Len(tables) \in Nat
        /\ \A t \in DOMAIN tables : tables[t] \in ATable
    BY TreeTypes
  <2>3. Rows(c, n) = FlattenSeq([i \in 1 .. T[n + 1] - T[n] |-> <<TableRow(c, n, b, T[n] + i)>>])
    BY DEF Children, Collect
  <2>4. \A i \in DOMAIN tables :
          TableRow(c, n, b, T[n] + i) = RowOfTable(cs[c].name, cs[c].schemas[s].name, tables[i])
    <3>1. \A i \in DOMAIN tables : tables[i].name # Null /\ tables[i].type # Null
      BY <2>2 DEF ATable
    <3>2. QED  BY <2>1, <3>1 DEF TableRow, RowOfTable, Shown, OrNull, ExtractString
  <2>5. \A i \in DOMAIN tables :
          RowsOfTable[<<cs[c].name, cs[c].schemas[s].name, tables[i]>>]
            = <<RowOfTable(cs[c].name, cs[c].schemas[s].name, tables[i])>>
    BY <2>2 DEF RowsOfTable
  <2> HIDE DEF n, tables, T
  <2>6. [i \in 1 .. T[n + 1] - T[n] |-> <<TableRow(c, n, b, T[n] + i)>>]
          = [i \in DOMAIN tables |-> RowsOfTable[<<cs[c].name, cs[c].schemas[s].name, tables[i]>>]]
    BY <2>1, <2>2, <2>4, <2>5
  <2>7. QED  BY <2>3, <2>6 DEF OfSchema, n, tables, T
<1> HIDE DEF b, Rows
<1>3. ReadsSchemas(cs, b, X, RowsOfTable)
  <2>1. ASSUME NEW c \in DOMAIN cs, NEW s \in DOMAIN cs[c].schemas
        PROVE  X[<<c, S[c] + s>>] = OfSchema(cs[c].name, cs[c].schemas[s], RowsOfTable)
    <3>1. c \in Nat /\ S[c] + s \in Nat
      BY <1>1, TreeTypes
    <3>2. QED  BY <1>2, <3>1
  <2>2. QED  BY <2>1 DEF ReadsSchemas, b
<1>4. ExtractTables(b) = Collect(0, Len(b.catalog_names), LAMBDA c :
                           Children(S, c, LAMBDA s : Rows(c, s)))
  BY DEF ExtractTables, Rows
<1>5. Collect(0, Len(b.catalog_names), LAMBDA c : Children(S, c, LAMBDA s : Rows(c, s)))
        = Collect(0, Len(b.catalog_names), LAMBDA c : Children(S, c, LAMBDA s : X[<<c, s>>]))
  <2>1. ASSUME NEW i \in 1 .. Len(b.catalog_names) - 0
        PROVE  [j \in 1 .. S[(0 + i) + 1] - S[0 + i] |-> Rows(0 + i, S[0 + i] + j)]
                 = [j \in 1 .. S[(0 + i) + 1] - S[0 + i] |-> X[<<0 + i, S[0 + i] + j>>]]
    <3>1. 0 + i \in Nat /\ S[0 + i] \in Nat
      BY <1>1
    <3>2. QED  BY <3>1
  <2>2. QED  BY <2>1 DEF Collect, Children
<1>6. QED  BY <1>3, <1>4, <1>5, ReadSchemas DEF b

\* The rows of adbc_columns for a table.
RowOfColumn(c, s, t, x) ==
  [catalog_name |-> Shown(c), schema_name |-> Shown(s), table_name |-> t.name,
   column_name |-> x.name, ordinal_position |-> x.ordinal, remarks |-> Shown(x.remarks),
   type_name |-> Shown(x.type), is_nullable |-> x.nullable \/ x.reports = {}]

RowsOfColumns ==
  [p \in STRING \X STRING \X ATable |->
     FlattenSeq([i \in DOMAIN p[3].columns |-> <<RowOfColumn(p[1], p[2], p[3], p[3].columns[i])>>])]

\* A column is reported as it is.
LEMMA ColumnAsReported ==
  ASSUME NEW x \in AColumn
  PROVE  /\ ExtractString(ColumnStruct(x).name) = x.name
         /\ (IF ColumnStruct(x).ordinal > 0 THEN ColumnStruct(x).ordinal ELSE NullNumber) = x.ordinal
         /\ OrNull(ExtractString(ColumnStruct(x).remarks)) = Shown(x.remarks)
         /\ OrNull(ExtractString(ColumnStruct(x).type)) = Shown(x.type)
         /\ Nullable(ColumnStruct(x)) = (x.nullable \/ x.reports = {})
<1>1. /\ x.name # Null /\ x.ordinal \in (Nat \ {0}) \cup {NullNumber} /\ x.nullable \in BOOLEAN
      /\ x.reports \subseteq {"string", "number"}
  BY DEF AColumn
<1>2. ExtractString(ColumnStruct(x).name) = x.name
  BY <1>1 DEF ColumnStruct, ExtractString
<1>3. (IF ColumnStruct(x).ordinal > 0 THEN ColumnStruct(x).ordinal ELSE NullNumber) = x.ordinal
  BY <1>1 DEF ColumnStruct, NullNumber
<1>4. /\ OrNull(ExtractString(ColumnStruct(x).remarks)) = Shown(x.remarks)
      /\ OrNull(ExtractString(ColumnStruct(x).type)) = Shown(x.type)
  BY DEF ColumnStruct, OrNull, ExtractString, Shown
<1>5. Nullable(ColumnStruct(x)) <=> (x.nullable \/ x.reports = {})
  <2>1. CASE "string" \in x.reports
    BY <1>1, <2>1 DEF Nullable, ColumnStruct, Null
  <2>2. CASE "string" \notin x.reports /\ "number" \in x.reports
    BY <1>1, <2>2 DEF Nullable, ColumnStruct, Null, NullNumber
  <2>3. CASE "string" \notin x.reports /\ "number" \notin x.reports
    <3>1. x.reports = {}
      BY <1>1, <2>3
    <3>2. QED  BY <2>3, <3>1 DEF Nullable, ColumnStruct, Null, NullNumber
  <2>4. QED  BY <2>1, <2>2, <2>3
<1>6. Nullable(ColumnStruct(x)) = (x.nullable \/ x.reports = {})
  BY <1>1, <1>5 DEF Nullable
<1>7. QED  BY <1>2, <1>3, <1>4, <1>6

LEMMA ExtractColumnsWalks ==
  ASSUME NEW cs \in Seq(ACatalog)
  PROVE  ExtractColumns(ObjectsArray(cs)) = Walk(cs, RowsOfColumns)
<1> DEFINE b == ObjectsArray(cs)
           S == b.schema_offsets
           T == b.table_offsets
           C == b.column_offsets
           Row3(c, n, t) == Children(C, t, LAMBDA x : <<ColumnRow(c, n, b, t, b.columns[x])>>)
           Rows(c, n) == Children(T, n, LAMBDA t : Row3(c, n, t))
           X == [p \in Nat \X Nat |-> Rows(p[1], p[2])]
<1>1. /\ Len(b.catalog_names) = Len(cs) /\ Len(cs) \in Nat /\ DOMAIN cs = 1 .. Len(cs)
      /\ \A c \in DOMAIN cs : S[c] \in Nat
  BY ObjectsPlaces
<1>2. ASSUME NEW c \in DOMAIN cs, NEW s \in DOMAIN cs[c].schemas
      PROVE  Rows(c, S[c] + s) = OfSchema(cs[c].name, cs[c].schemas[s], RowsOfColumns)
  <2> DEFINE n == S[c] + s
             tables == cs[c].schemas[s].tables
             Of(i) == RowsOfColumns[<<cs[c].name, cs[c].schemas[s].name, tables[i]>>]
  <2>1. /\ b.catalog_names[c] = cs[c].name /\ b.schema_names[n] = cs[c].schemas[s].name
        /\ T[n] \in Nat /\ T[n + 1] - T[n] = Len(tables)
    BY ObjectsPlaces
  <2>2. /\ cs[c].name \in STRING /\ cs[c].schemas[s].name \in STRING
        /\ DOMAIN tables = 1 .. Len(tables) /\ Len(tables) \in Nat
        /\ \A t \in DOMAIN tables : tables[t] \in ATable
    BY TreeTypes
  <2>3. Rows(c, n) = FlattenSeq([i \in 1 .. T[n + 1] - T[n] |-> Row3(c, n, T[n] + i)])
    BY DEF Children, Collect
  <2>4. ASSUME NEW i \in DOMAIN tables  PROVE Row3(c, n, T[n] + i) = Of(i)
    <3> DEFINE m == T[n] + i
               columns == tables[i].columns
    <3>1. /\ b.table_names[m] = tables[i].name /\ C[m] \in Nat /\ C[m + 1] - C[m] = Len(columns)
          /\ \A x \in DOMAIN columns : b.columns[C[m] + x] = ColumnStruct(columns[x])
      BY ObjectsPlaces
    <3>2. tables[i].name # Null /\ columns \in Seq(AColumn)
      BY <2>2 DEF ATable
    <3>3. /\ DOMAIN columns = 1 .. Len(columns) /\ Len(columns) \in Nat
          /\ \A x \in DOMAIN columns : columns[x] \in AColumn
      BY <3>2
    <3>4. Row3(c, n, m) = FlattenSeq([x \in 1 .. C[m + 1] - C[m] |->
                                        <<ColumnRow(c, n, b, m, b.columns[C[m] + x])>>])
      BY DEF Children, Collect
    <3>5. Of(i) = FlattenSeq([x \in DOMAIN columns |->
                    <<RowOfColumn(cs[c].name, cs[c].schemas[s].name, tables[i], columns[x])>>])
      BY <2>2 DEF RowsOfColumns
    <3> HIDE DEF m, columns, n, T, C, Row3, Of
    <3>6. ASSUME NEW x \in DOMAIN columns
          PROVE  ColumnRow(c, n, b, m, b.columns[C[m] + x])
                   = RowOfColumn(cs[c].name, cs[c].schemas[s].name, tables[i], columns[x])
      <4>1. ColumnRow(c, n, b, m, ColumnStruct(columns[x]))
              = RowOfColumn(cs[c].name, cs[c].schemas[s].name, tables[i], columns[x])
        <5>1. /\ OrNull(ExtractString(b.catalog_names[c])) = Shown(cs[c].name)
              /\ OrNull(ExtractString(b.schema_names[n])) = Shown(cs[c].schemas[s].name)
              /\ ExtractString(b.table_names[m]) = tables[i].name
          BY <2>1, <3>1, <3>2 DEF Shown, OrNull, ExtractString
        <5>2. QED  BY <3>3, <5>1, ColumnAsReported DEF ColumnRow, RowOfColumn
      <4>2. QED  BY <3>1, <4>1
    <3>7. [x \in 1 .. C[m + 1] - C[m] |-> <<ColumnRow(c, n, b, m, b.columns[C[m] + x])>>]
            = [x \in DOMAIN columns |->
                 <<RowOfColumn(cs[c].name, cs[c].schemas[s].name, tables[i], columns[x])>>]
      BY <3>1, <3>3, <3>6
    <3>8. QED  BY <3>4, <3>5, <3>7 DEF m
  <2> HIDE DEF n, tables, T, Row3
  <2>5. [i \in 1 .. T[n + 1] - T[n] |-> Row3(c, n, T[n] + i)] = [i \in DOMAIN tables |-> Of(i)]
    BY <2>1, <2>2, <2>4
  <2>6. QED  BY <2>3, <2>5 DEF OfSchema, n, tables, T
<1> HIDE DEF b, Rows
<1>3. ReadsSchemas(cs, b, X, RowsOfColumns)
  <2>1. ASSUME NEW c \in DOMAIN cs, NEW s \in DOMAIN cs[c].schemas
        PROVE  X[<<c, S[c] + s>>] = OfSchema(cs[c].name, cs[c].schemas[s], RowsOfColumns)
    <3>1. c \in Nat /\ S[c] + s \in Nat
      BY <1>1, TreeTypes
    <3>2. QED  BY <1>2, <3>1
  <2>2. QED  BY <2>1 DEF ReadsSchemas, b
<1>4. ExtractColumns(b) = Collect(0, Len(b.catalog_names), LAMBDA c :
                            Children(S, c, LAMBDA s : Rows(c, s)))
  BY DEF ExtractColumns, Rows
<1>5. Collect(0, Len(b.catalog_names), LAMBDA c : Children(S, c, LAMBDA s : Rows(c, s)))
        = Collect(0, Len(b.catalog_names), LAMBDA c : Children(S, c, LAMBDA s : X[<<c, s>>]))
  <2>1. ASSUME NEW i \in 1 .. Len(b.catalog_names) - 0
        PROVE  [j \in 1 .. S[(0 + i) + 1] - S[0 + i] |-> Rows(0 + i, S[0 + i] + j)]
                 = [j \in 1 .. S[(0 + i) + 1] - S[0 + i] |-> X[<<0 + i, S[0 + i] + j>>]]
    <3>1. 0 + i \in Nat /\ S[0 + i] \in Nat
      BY <1>1
    <3>2. QED  BY <3>1
  <2>2. QED  BY <2>1 DEF Collect, Children
<1>6. QED  BY <1>3, <1>4, <1>5, ReadSchemas DEF b

-----------------------------------------------------------------------------
(* The rows of a whole answer, whatever its batches.                       *)

\* ss is what a walk makes of each batch.
ReadsBatches(R, cs, batches, g, ss) ==
  /\ cs \in Seq(ACatalog) /\ g \in Walker(R) /\ batches \in Batches(cs)
  /\ ss = [i \in DOMAIN batches |-> ss[i]]
  /\ \A i \in DOMAIN batches : \A trees \in Seq(ACatalog) :
       batches[i] = ObjectsArray(trees) => ss[i] = Walk(trees, g)

LEMMA BatchesWalk ==
  ASSUME NEW R, NEW cs, NEW batches, NEW g, NEW ss, ReadsBatches(R, cs, batches, g, ss)
  PROVE  FlattenSeq(ss) = Walk(cs, g)
<1>1. /\ cs \in Seq(ACatalog) /\ g \in Walker(R) /\ batches \in Batches(cs)
      /\ ss = [i \in DOMAIN batches |-> ss[i]]
      /\ \A i \in DOMAIN batches : \A trees \in Seq(ACatalog) :
           batches[i] = ObjectsArray(trees) => ss[i] = Walk(trees, g)
  BY DEF ReadsBatches
<1>2. /\ Walk(cs, g) \in Seq(R) /\ DOMAIN cs = 1 .. Len(cs) /\ Len(cs) \in Nat
      /\ \A i \in DOMAIN cs : cs[i] \in ACatalog /\ OfCatalog(cs[i], g) \in Seq(R)
  <2>1. DOMAIN cs = 1 .. Len(cs) /\ Len(cs) \in Nat /\ \A i \in DOMAIN cs : cs[i] \in ACatalog
    BY <1>1
  <2>2. Walk(cs, g) \in Seq(R) /\ \A c \in ACatalog : OfCatalog(c, g) \in Seq(R)
    BY <1>1, WalkTypes
  <2>3. QED  BY <2>1, <2>2
<1>3. CASE batches = <<ObjectsArray(cs)>>
  <2>1. DOMAIN batches = {1} /\ batches[1] = ObjectsArray(cs)
    BY <1>3
  <2>2. ss[1] = Walk(cs, g)
    BY <1>1, <2>1
  <2>3. ss = <<Walk(cs, g)>>
    BY <1>1, <2>1, <2>2
  <2>4. QED  BY <1>2, <2>3, FlattenOne
<1>4. CASE batches = [i \in 1 .. Len(cs) + 1 |->
                        ObjectsArray(IF i > Len(cs) THEN <<>> ELSE <<cs[i]>>)]
  <2> DEFINE some == [i \in DOMAIN cs |-> OfCatalog(cs[i], g)]
  <2>1. DOMAIN batches = 1 .. Len(cs) + 1 /\ Len(cs) + 1 \in DOMAIN batches
        /\ batches[Len(cs) + 1] = ObjectsArray(<<>>)
        /\ \A i \in DOMAIN cs : i \in DOMAIN batches /\ batches[i] = ObjectsArray(<<cs[i]>>)
    BY <1>2, <1>4
  <2>2. ss[Len(cs) + 1] = <<>>
    <3>1. <<>> \in Seq(ACatalog) /\ [i \in DOMAIN <<>> |-> OfCatalog(<<>>[i], g)] = <<>>
      BY EmptySeq
    <3>2. Walk(<<>>, g) = <<>>
      <4>1. FlattenSeq(<<>>) = <<>>
        BY FlattenOne, EmptySeq
      <4>2. QED  BY <3>1, <4>1 DEF Walk
    <3>3. QED  BY <1>1, <2>1, <3>1, <3>2
  <2>3. ASSUME NEW i \in DOMAIN cs  PROVE ss[i] = OfCatalog(cs[i], g)
    <3> DEFINE c == cs[i]
    <3>1. c \in ACatalog /\ OfCatalog(c, g) \in Seq(R)
      BY <1>2
    <3>2. ss[i] = Walk(<<c>>, g)
      <4>1. <<c>> \in Seq(ACatalog)
        BY <3>1
      <4>2. QED  BY <1>1, <2>1, <4>1
    <3> HIDE DEF c
    <3>3. [k \in DOMAIN <<c>> |-> OfCatalog(<<c>>[k], g)] = <<OfCatalog(c, g)>>
      OBVIOUS
    <3>4. Walk(<<c>>, g) = OfCatalog(c, g)
      <4>1. FlattenSeq(<<OfCatalog(c, g)>>) = OfCatalog(c, g)
        BY <3>1, FlattenOne
      <4>2. QED  BY <3>3, <4>1 DEF Walk
    <3>5. QED  BY <3>2, <3>4 DEF c
  <2>4. some \in Seq(Seq(R)) /\ <<>> \in Seq(R)
    BY <1>2, EmptySeq
  <2>5. ss = Append(some, <<>>)
    <3>1. /\ some \in Seq(Seq(R)) /\ Len(some) = Len(cs) /\ DOMAIN some = DOMAIN cs
          /\ \A i \in DOMAIN cs : some[i] = OfCatalog(cs[i], g)
      BY <1>2, <2>4
    <3> HIDE DEF some
    <3>2. Append(some, <<>>) = [i \in 1 .. Len(cs) + 1 |-> IF i <= Len(cs) THEN some[i] ELSE <<>>]
      <4> DEFINE new == Append(some, <<>>)
      <4>1. /\ new \in Seq(Seq(R)) /\ Len(new) = Len(cs) + 1 /\ new[Len(cs) + 1] = <<>>
            /\ \A i \in 1 .. Len(cs) : new[i] = some[i]
        BY <2>4, <3>1, AppendProperties
      <4> HIDE DEF new
      <4>2. DOMAIN new = 1 .. Len(cs) + 1
        BY <4>1
      <4>3. new = [i \in 1 .. Len(cs) + 1 |-> new[i]]
        BY <4>1, <4>2
      <4>4. \A i \in 1 .. Len(cs) + 1 : new[i] = IF i <= Len(cs) THEN some[i] ELSE <<>>
        BY <1>2, <4>1
      <4>5. QED  BY <4>3, <4>4 DEF new
    <3>3. ss = [i \in 1 .. Len(cs) + 1 |-> ss[i]]
      BY <1>1, <2>1
    <3>4. \A i \in 1 .. Len(cs) + 1 : ss[i] = IF i <= Len(cs) THEN some[i] ELSE <<>>
      BY <1>2, <2>2, <2>3, <3>1
    <3>5. QED  BY <3>2, <3>3, <3>4
  <2> HIDE DEF some
  <2>6. FlattenSeq(Append(some, <<>>)) = FlattenSeq(some) \o <<>> /\ FlattenSeq(some) \in Seq(R)
    BY <2>4, FlattenAppend, FlattenType
  <2>7. FlattenSeq(ss) = FlattenSeq(some)
    BY <2>5, <2>6, ConcatEmptySeq
  <2>8. QED  BY <2>7 DEF some, Walk
<1>5. QED  BY <1>1, <1>3, <1>4 DEF Batches

-----------------------------------------------------------------------------
(* adbc_tables.                                                            *)

TableRowsOf == {RowOfTable(p[1], p[2], p[3]) : p \in STRING \X STRING \X ATable}

RowsOfMatching(q) ==
  [p \in STRING \X STRING \X ATable |->
     IF Matches(p[1], q.catalog) /\ Matches(p[2], q.schema) /\ Matches(p[3].name, q.table)
     THEN <<RowOfTable(p[1], p[2], p[3])>> ELSE <<>>]

LEMMA TablesOfWalks ==
  ASSUME NEW d, d.catalogs \in Seq(ACatalog), NEW q
  PROVE  TablesOf(d, q) = Walk(d.catalogs, RowsOfMatching(q))
<1> DEFINE cs == d.catalogs
           h == RowsOfMatching(q)
           Row3(c, s, t) ==
             IF Matches(c.name, q.catalog) /\ Matches(s.name, q.schema) /\ Matches(t.name, q.table)
             THEN <<[catalog_name |-> Shown(c.name), schema_name |-> Shown(s.name),
                     table_name |-> t.name, table_type |-> t.type]>>
             ELSE <<>>
           Row2(c, s) == FlattenSeq([k \in DOMAIN s.tables |-> Row3(c, s, s.tables[k])])
           Row1(c) == FlattenSeq([j \in DOMAIN c.schemas |-> Row2(c, c.schemas[j])])
<1>1. TablesOf(d, q) = FlattenSeq([i \in DOMAIN cs |-> Row1(cs[i])])
  BY DEF TablesOf, Over
<1>2. ASSUME NEW c \in STRING, NEW s \in STRING, NEW t \in ATable
      PROVE  h[<<c, s, t>>] =
               IF Matches(c, q.catalog) /\ Matches(s, q.schema) /\ Matches(t.name, q.table)
               THEN <<RowOfTable(c, s, t)>> ELSE <<>>
  BY DEF RowsOfMatching
<1> HIDE DEF cs, h
<1>3. ASSUME NEW c \in ACatalog, NEW s \in ASchema
      PROVE  Row2(c, s) = OfSchema(c.name, s, h)
  <2>1. /\ c.name \in STRING /\ s.name \in STRING /\ s.tables \in Seq(ATable)
    BY DEF ACatalog, ASchema
  <2>2. \A k \in DOMAIN s.tables : s.tables[k] \in ATable
    BY <2>1
  <2>3. \A k \in DOMAIN s.tables : Row3(c, s, s.tables[k]) = h[<<c.name, s.name, s.tables[k]>>]
    BY <1>2, <2>1, <2>2 DEF RowOfTable
  <2> HIDE DEF Row3
  <2>4. [k \in DOMAIN s.tables |-> Row3(c, s, s.tables[k])]
          = [k \in DOMAIN s.tables |-> h[<<c.name, s.name, s.tables[k]>>]]
    BY <2>3
  <2>5. QED  BY <2>4 DEF OfSchema
<1> HIDE DEF Row2
<1>4. ASSUME NEW c \in ACatalog  PROVE Row1(c) = OfCatalog(c, h)
  <2>1. c.schemas \in Seq(ASchema)
    BY DEF ACatalog
  <2>2. \A j \in DOMAIN c.schemas : Row2(c, c.schemas[j]) = OfSchema(c.name, c.schemas[j], h)
    BY <1>3, <2>1
  <2>3. [j \in DOMAIN c.schemas |-> Row2(c, c.schemas[j])]
          = [j \in DOMAIN c.schemas |-> OfSchema(c.name, c.schemas[j], h)]
    BY <2>2
  <2>4. QED  BY <2>3 DEF OfCatalog
<1> HIDE DEF Row1
<1>5. \A i \in DOMAIN cs : Row1(cs[i]) = OfCatalog(cs[i], h)
  <2>1. \A i \in DOMAIN cs : cs[i] \in ACatalog
    BY DEF cs
  <2>2. QED  BY <1>4, <2>1
<1>6. [i \in DOMAIN cs |-> Row1(cs[i])] = [i \in DOMAIN cs |-> OfCatalog(cs[i], h)]
  BY <1>5
<1>7. QED  BY <1>1, <1>6 DEF Walk, cs, h

LEMMA TablesAnswered ==
  ASSUME NEW d, d.catalogs \in Seq(ACatalog), NEW q, NEW batches \in TablesAnswer(d, q)
  PROVE  FlattenSeq([i \in DOMAIN batches |-> ExtractTables(batches[i])]) = TablesOf(d, q)
<1> DEFINE cs == d.catalogs
           g == RowsOfTable
           h == RowsOfMatching(q)
           R == TableRowsOf
           M == Matching(cs, q.catalog, q.schema, q.table, Null)
           ss == [i \in DOMAIN batches |-> ExtractTables(batches[i])]
<1>1. g \in Walker(R) /\ h \in Walker(R)
  <2>1. ASSUME NEW p \in STRING \X STRING \X ATable
        PROVE  <<RowOfTable(p[1], p[2], p[3])>> \in Seq(R) /\ <<>> \in Seq(R)
    <3>1. RowOfTable(p[1], p[2], p[3]) \in R
      BY DEF TableRowsOf
    <3> HIDE DEF R
    <3>2. QED  BY <3>1, EmptySeq
  <2>2. QED  BY <2>1 DEF Walker, RowsOfTable, RowsOfMatching
<1>2. ASSUME NEW c \in STRING, NEW s \in STRING, NEW t \in ATable
      PROVE  h[<<c, s, t>>] =
               IF Matches(c, q.catalog) /\ Matches(s, q.schema) /\ Matches(t.name, q.table)
               THEN g[<<c, s, MatchingColumns(t, Null)>>] ELSE <<>>
  <2> DEFINE u == MatchingColumns(t, Null)
  <2>1. u \in ATable /\ u.name = t.name /\ u.type = t.type
    BY MatchingColumnsType
  <2> HIDE DEF u
  <2>2. g[<<c, s, u>>] = <<RowOfTable(c, s, t)>>
    BY <2>1 DEF RowsOfTable, RowOfTable
  <2>3. h[<<c, s, t>>] =
          IF Matches(c, q.catalog) /\ Matches(s, q.schema) /\ Matches(t.name, q.table)
          THEN <<RowOfTable(c, s, t)>> ELSE <<>>
    BY DEF RowsOfMatching
  <2>4. QED  BY <2>2, <2>3 DEF u
<1> HIDE DEF g, h, R
<1>3. M \in Seq(ACatalog) /\ Walk(M, g) = Walk(cs, h)
  BY <1>1, <1>2, MatchingTree
<1>4. ReadsBatches(R, M, batches, g, ss)
  <2>1. batches \in Batches(M)
    BY DEF TablesAnswer
  <2>2. \A i \in DOMAIN batches : \A trees \in Seq(ACatalog) :
          batches[i] = ObjectsArray(trees) => ss[i] = Walk(trees, g)
    BY ExtractTablesWalks DEF g
  <2>3. ss = [i \in DOMAIN batches |-> ss[i]]
    OBVIOUS
  <2> HIDE DEF M, ss
  <2>4. QED  BY <1>1, <1>3, <2>1, <2>2, <2>3 DEF ReadsBatches
<1> HIDE DEF M
<1>5. FlattenSeq(ss) = Walk(M, g)
  <2> HIDE DEF ss
  <2>1. QED  BY <1>4, BatchesWalk
<1>6. TablesOf(d, q) = Walk(cs, h)
  BY TablesOfWalks DEF h
<1>7. QED  BY <1>3, <1>5, <1>6

-----------------------------------------------------------------------------
(* adbc_columns.                                                           *)

ColumnRowsOf ==
  {RowOfColumn(p[1], p[2], p[3], x) : p \in STRING \X STRING \X ATable, x \in AColumn}

ColumnsOfMatching(q) ==
  [p \in STRING \X STRING \X ATable |->
     FlattenSeq([i \in DOMAIN p[3].columns |->
       IF /\ Matches(p[1], q.catalog) /\ Matches(p[2], q.schema)
          /\ Matches(p[3].name, q.table) /\ Matches(p[3].columns[i].name, q.column)
       THEN <<RowOfColumn(p[1], p[2], p[3], p[3].columns[i])>> ELSE <<>>])]

LEMMA ColumnsOfWalks ==
  ASSUME NEW d, d.catalogs \in Seq(ACatalog), NEW q
  PROVE  ColumnsOf(d, q) = Walk(d.catalogs, ColumnsOfMatching(q))
<1> DEFINE cs == d.catalogs
           h == ColumnsOfMatching(q)
           Row4(c, s, t, x) ==
             IF /\ Matches(c.name, q.catalog) /\ Matches(s.name, q.schema)
                /\ Matches(t.name, q.table) /\ Matches(x.name, q.column)
             THEN <<[catalog_name |-> Shown(c.name), schema_name |-> Shown(s.name),
                     table_name |-> t.name, column_name |-> x.name,
                     ordinal_position |-> x.ordinal, remarks |-> Shown(x.remarks),
                     type_name |-> Shown(x.type), is_nullable |-> x.nullable \/ x.reports = {}]>>
             ELSE <<>>
           Row3(c, s, t) == FlattenSeq([n \in DOMAIN t.columns |-> Row4(c, s, t, t.columns[n])])
           Row2(c, s) == FlattenSeq([k \in DOMAIN s.tables |-> Row3(c, s, s.tables[k])])
           Row1(c) == FlattenSeq([j \in DOMAIN c.schemas |-> Row2(c, c.schemas[j])])
<1>1. ColumnsOf(d, q) = FlattenSeq([i \in DOMAIN cs |-> Row1(cs[i])])
  BY DEF ColumnsOf, Over
<1> HIDE DEF cs
<1>2. ASSUME NEW c \in ACatalog, NEW s \in ASchema, NEW t \in ATable
      PROVE  Row3(c, s, t) = h[<<c.name, s.name, t>>]
  <2>1. c.name \in STRING /\ s.name \in STRING
    BY DEF ACatalog, ASchema
  <2>2. \A n \in DOMAIN t.columns :
          Row4(c, s, t, t.columns[n])
            = IF /\ Matches(c.name, q.catalog) /\ Matches(s.name, q.schema)
                 /\ Matches(t.name, q.table) /\ Matches(t.columns[n].name, q.column)
              THEN <<RowOfColumn(c.name, s.name, t, t.columns[n])>> ELSE <<>>
    BY DEF RowOfColumn
  <2> HIDE DEF Row4
  <2>3. [n \in DOMAIN t.columns |-> Row4(c, s, t, t.columns[n])]
          = [n \in DOMAIN t.columns |->
               IF /\ Matches(c.name, q.catalog) /\ Matches(s.name, q.schema)
                  /\ Matches(t.name, q.table) /\ Matches(t.columns[n].name, q.column)
               THEN <<RowOfColumn(c.name, s.name, t, t.columns[n])>> ELSE <<>>]
    BY <2>2
  <2>4. QED  BY <2>1, <2>3 DEF ColumnsOfMatching
<1> HIDE DEF Row3, h
<1>3. ASSUME NEW c \in ACatalog, NEW s \in ASchema
      PROVE  Row2(c, s) = OfSchema(c.name, s, h)
  <2>1. s.tables \in Seq(ATable)
    BY DEF ASchema
  <2>2. \A k \in DOMAIN s.tables : s.tables[k] \in ATable
    BY <2>1
  <2>3. \A k \in DOMAIN s.tables : Row3(c, s, s.tables[k]) = h[<<c.name, s.name, s.tables[k]>>]
    BY <1>2, <2>2
  <2>4. [k \in DOMAIN s.tables |-> Row3(c, s, s.tables[k])]
          = [k \in DOMAIN s.tables |-> h[<<c.name, s.name, s.tables[k]>>]]
    BY <2>3
  <2>5. QED  BY <2>4 DEF OfSchema
<1> HIDE DEF Row2
<1>4. ASSUME NEW c \in ACatalog  PROVE Row1(c) = OfCatalog(c, h)
  <2>1. c.schemas \in Seq(ASchema)
    BY DEF ACatalog
  <2>2. \A j \in DOMAIN c.schemas : Row2(c, c.schemas[j]) = OfSchema(c.name, c.schemas[j], h)
    BY <1>3, <2>1
  <2>3. [j \in DOMAIN c.schemas |-> Row2(c, c.schemas[j])]
          = [j \in DOMAIN c.schemas |-> OfSchema(c.name, c.schemas[j], h)]
    BY <2>2
  <2>4. QED  BY <2>3 DEF OfCatalog
<1> HIDE DEF Row1
<1>5. \A i \in DOMAIN cs : Row1(cs[i]) = OfCatalog(cs[i], h)
  <2>1. \A i \in DOMAIN cs : cs[i] \in ACatalog
    BY DEF cs
  <2>2. QED  BY <1>4, <2>1
<1>6. [i \in DOMAIN cs |-> Row1(cs[i])] = [i \in DOMAIN cs |-> OfCatalog(cs[i], h)]
  BY <1>5
<1>7. QED  BY <1>1, <1>6 DEF Walk, cs, h

\* The columns of a table, cut down to those of a name and not.
LEMMA ColumnsOfTable ==
  ASSUME NEW q, NEW c \in STRING, NEW s \in STRING, NEW t \in ATable
  PROVE  ColumnsOfMatching(q)[<<c, s, t>>] =
           IF Matches(c, q.catalog) /\ Matches(s, q.schema) /\ Matches(t.name, q.table)
           THEN RowsOfColumns[<<c, s, MatchingColumns(t, q.column)>>] ELSE <<>>
<1> DEFINE u == MatchingColumns(t, q.column)
           R == ColumnRowsOf
           G == [x \in AColumn |-> <<RowOfColumn(c, s, t, x)>>]
           columns == t.columns
           kept == Named(columns, q.column)
           asked == Matches(c, q.catalog) /\ Matches(s, q.schema) /\ Matches(t.name, q.table)
           all == [i \in DOMAIN columns |->
                     IF Matches(columns[i].name, q.column) THEN G[columns[i]] ELSE <<>>]
           some == [i \in DOMAIN kept |-> G[kept[i]]]
<1>1. u \in ATable /\ u.name = t.name /\ u.columns = kept
  BY MatchingColumnsType
<1>2. columns \in Seq(AColumn) /\ kept \in Seq(AColumn)
  <2>1. columns \in Seq(AColumn)
    BY DEF ATable
  <2> HIDE DEF columns
  <2>2. QED  BY <2>1, NamedType
<1>3. G \in [AColumn -> Seq(R)] /\ <<>> \in Seq(R)
  <2>1. ASSUME NEW x \in AColumn  PROVE G[x] \in Seq(R)
    <3>1. RowOfColumn(c, s, t, x) \in R
      <4>1. <<c, s, t>> \in STRING \X STRING \X ATable
        OBVIOUS
      <4>2. RowOfColumn(<<c, s, t>>[1], <<c, s, t>>[2], <<c, s, t>>[3], x) \in R
        BY <4>1 DEF ColumnRowsOf
      <4>3. QED  BY <4>2
    <3> DEFINE row == RowOfColumn(c, s, t, x)
    <3>2. G[x] = <<row>> /\ row \in R
      BY <3>1
    <3> HIDE DEF R, G, row
    <3>3. QED  BY <3>2
  <2>2. QED  BY <2>1, EmptySeq
<1>4. /\ DOMAIN columns = 1 .. Len(columns) /\ Len(columns) \in Nat
      /\ DOMAIN kept = 1 .. Len(kept) /\ Len(kept) \in Nat
      /\ (\A i \in DOMAIN columns : columns[i] \in AColumn) /\ \A i \in DOMAIN kept : kept[i] \in AColumn
  <2> HIDE DEF columns, kept
  <2>1. QED  BY <1>2
<1> HIDE DEF u, columns, kept, R
<1>5. MadeOfNamed(AColumn, R, columns, q.column, G, some, all)
  <2> HIDE DEF G
  <2>1. /\ some \in Seq(Seq(R)) /\ DOMAIN some = DOMAIN kept
        /\ \A i \in DOMAIN some : some[i] = G[kept[i]]
    BY <1>3, <1>4
  <2>2. /\ all \in Seq(Seq(R)) /\ DOMAIN all = DOMAIN columns
        /\ \A i \in DOMAIN all :
             all[i] = IF Matches(columns[i].name, q.column) THEN G[columns[i]] ELSE <<>>
    BY <1>3, <1>4
  <2> HIDE DEF some, all
  <2>3. QED  BY <1>2, <1>3, <2>1, <2>2 DEF MadeOfNamed, kept
<1>6. FlattenSeq(some) = FlattenSeq(all)
  <2> HIDE DEF some, all, G
  <2>1. QED  BY <1>5, FlattenNamed
<1>7. RowsOfColumns[<<c, s, u>>] = FlattenSeq(some)
  <2>1. RowsOfColumns[<<c, s, u>>]
          = FlattenSeq([i \in DOMAIN u.columns |-> <<RowOfColumn(c, s, u, u.columns[i])>>])
    BY <1>1 DEF RowsOfColumns
  <2>2. \A i \in DOMAIN kept : <<RowOfColumn(c, s, u, kept[i])>> = G[kept[i]]
    BY <1>1, <1>4 DEF RowOfColumn
  <2> HIDE DEF G
  <2>3. [i \in DOMAIN u.columns |-> <<RowOfColumn(c, s, u, u.columns[i])>>] = some
    BY <1>1, <2>2
  <2>4. QED  BY <2>1, <2>3
<1>8. ColumnsOfMatching(q)[<<c, s, t>>]
        = FlattenSeq([i \in DOMAIN columns |->
            IF /\ Matches(c, q.catalog) /\ Matches(s, q.schema)
               /\ Matches(t.name, q.table) /\ Matches(columns[i].name, q.column)
            THEN <<RowOfColumn(c, s, t, columns[i])>> ELSE <<>>])
  BY DEF ColumnsOfMatching, columns
<1> DEFINE made == [i \in DOMAIN columns |->
            IF /\ Matches(c, q.catalog) /\ Matches(s, q.schema)
               /\ Matches(t.name, q.table) /\ Matches(columns[i].name, q.column)
            THEN <<RowOfColumn(c, s, t, columns[i])>> ELSE <<>>]
<1>9. CASE asked
  <2>1. made = all
    BY <1>4, <1>9
  <2>2. QED  BY <1>6, <1>7, <1>8, <1>9, <2>1 DEF u
<1>10. CASE ~asked
  <2>1. made = [i \in 1 .. Len(columns) |-> <<>>]
    BY <1>4, <1>10
  <2>2. FlattenSeq([i \in 1 .. Len(columns) |-> <<>>]) = <<>>
    BY <1>4, FlattenNothing
  <2>3. QED  BY <1>8, <1>10, <2>1, <2>2
<1>11. QED  BY <1>9, <1>10

LEMMA ColumnsAnswered ==
  ASSUME NEW d, d.catalogs \in Seq(ACatalog), NEW q, NEW batches \in ColumnsAnswer(d, q)
  PROVE  FlattenSeq([i \in DOMAIN batches |-> ExtractColumns(batches[i])]) = ColumnsOf(d, q)
<1> DEFINE cs == d.catalogs
           g == RowsOfColumns
           h == ColumnsOfMatching(q)
           R == ColumnRowsOf
           M == Matching(cs, q.catalog, q.schema, q.table, q.column)
           ss == [i \in DOMAIN batches |-> ExtractColumns(batches[i])]
<1>1. g \in Walker(R)
  <2>1. ASSUME NEW p \in STRING \X STRING \X ATable
        PROVE  g[p] \in Seq(R)
    <3> DEFINE rows_of == [i \in DOMAIN p[3].columns |-> <<RowOfColumn(p[1], p[2], p[3], p[3].columns[i])>>]
    <3>1. p[3].columns \in Seq(AColumn)
      BY DEF ATable
    <3>2. /\ DOMAIN p[3].columns = 1 .. Len(p[3].columns) /\ Len(p[3].columns) \in Nat
          /\ \A i \in DOMAIN p[3].columns : p[3].columns[i] \in AColumn
      BY <3>1
    <3>3. \A i \in DOMAIN p[3].columns : RowOfColumn(p[1], p[2], p[3], p[3].columns[i]) \in R
      BY <3>2 DEF ColumnRowsOf
    <3> HIDE DEF R
    <3>4. rows_of \in Seq(Seq(R))
      BY <3>2, <3>3
    <3>5. FlattenSeq(rows_of) \in Seq(R)
      <4> HIDE DEF rows_of
      <4>1. QED  BY <3>4, FlattenType
    <3>6. QED  BY <3>5 DEF RowsOfColumns
  <2>2. g = [p \in STRING \X STRING \X ATable |-> g[p]]
    BY DEF RowsOfColumns
  <2> HIDE DEF g, R
  <2>3. QED  BY <2>1, <2>2 DEF Walker
<1>2. ASSUME NEW c \in STRING, NEW s \in STRING, NEW t \in ATable
      PROVE  h[<<c, s, t>>] =
               IF Matches(c, q.catalog) /\ Matches(s, q.schema) /\ Matches(t.name, q.table)
               THEN g[<<c, s, MatchingColumns(t, q.column)>>] ELSE <<>>
  BY ColumnsOfTable
<1>3. h \in Walker(R)
  <2>1. ASSUME NEW p \in STRING \X STRING \X ATable
        PROVE  h[p] \in Seq(R)
    <3> DEFINE c == p[1]
               s == p[2]
               t == p[3]
    <3>1. c \in STRING /\ s \in STRING /\ t \in ATable /\ p = <<c, s, t>>
      OBVIOUS
    <3> HIDE DEF c, s, t, h, g, R
    <3>2. g[<<c, s, MatchingColumns(t, q.column)>>] \in Seq(R) /\ <<>> \in Seq(R)
      <4>1. MatchingColumns(t, q.column) \in ATable
        BY <3>1, MatchingColumnsType
      <4>2. QED  BY <1>1, <3>1, <4>1, EmptySeq DEF Walker
    <3>3. QED  BY <1>2, <3>1, <3>2
  <2>2. h = [p \in STRING \X STRING \X ATable |-> h[p]]
    BY DEF ColumnsOfMatching
  <2> HIDE DEF h, R
  <2>3. QED  BY <2>1, <2>2 DEF Walker
<1> HIDE DEF g, h, R
<1>4. M \in Seq(ACatalog) /\ Walk(M, g) = Walk(cs, h)
  BY <1>1, <1>2, <1>3, MatchingTree
<1>5. ReadsBatches(R, M, batches, g, ss)
  <2>1. batches \in Batches(M)
    BY DEF ColumnsAnswer
  <2>2. \A i \in DOMAIN batches : \A trees \in Seq(ACatalog) :
          batches[i] = ObjectsArray(trees) => ss[i] = Walk(trees, g)
    BY ExtractColumnsWalks DEF g
  <2>3. ss = [i \in DOMAIN batches |-> ss[i]]
    OBVIOUS
  <2> HIDE DEF M, ss
  <2>4. QED  BY <1>1, <1>4, <2>1, <2>2, <2>3 DEF ReadsBatches
<1> HIDE DEF M
<1>6. FlattenSeq(ss) = Walk(M, g)
  <2> HIDE DEF ss
  <2>1. QED  BY <1>5, BatchesWalk
<1>7. ColumnsOf(d, q) = Walk(cs, h)
  BY ColumnsOfWalks DEF h
<1>8. QED  BY <1>4, <1>6, <1>7

-----------------------------------------------------------------------------
(* adbc_table_types, adbc_schema and adbc_info: a row for each element.    *)

LEMMA FlattenSingletons ==
  ASSUME NEW R, NEW s \in Seq(R)
  PROVE  FlattenSeq([i \in DOMAIN s |-> <<s[i]>>]) = s
<1> DEFINE Of(t) == [i \in DOMAIN t |-> <<t[i]>>]
           S == {t \in Seq(R) : FlattenSeq(Of(t)) = t}
<1>1. <<>> \in S
  <2>1. Of(<<>>) = <<>> /\ <<>> \in Seq(R)
    BY EmptySeq
  <2>2. FlattenSeq(<<>>) = <<>>
    BY FlattenOne, EmptySeq
  <2>3. QED  BY <2>1, <2>2
<1>2. ASSUME NEW t \in Seq(R), NEW e \in R, t \in S  PROVE Append(t, e) \in S
  <2>1. DOMAIN t = 1 .. Len(t) /\ Len(t) \in Nat /\ (\A i \in DOMAIN t : <<t[i]>> \in Seq(R)) /\ <<e>> \in Seq(R)
    OBVIOUS
  <2>2. Of(t) \in Seq(Seq(R))
    BY <2>1
  <2>3. Of(Append(t, e)) = Append(Of(t), <<e>>)
    BY <2>1, <2>2
  <2>4. FlattenSeq(Of(t)) = t
    BY <1>2
  <2> HIDE DEF Of
  <2>5. FlattenSeq(Append(Of(t), <<e>>)) = FlattenSeq(Of(t)) \o <<e>>
    BY <2>1, <2>2, FlattenAppend
  <2>6. Append(t, e) = t \o <<e>>
    BY AppendIsConcat
  <2>7. QED  BY <2>3, <2>4, <2>5, <2>6, AppendProperties
<1> HIDE DEF S
<1>3. \A t \in Seq(R) : t \in S
  BY <1>1, <1>2, SequenceInduction
<1>4. QED  BY <1>3 DEF S

\* Where an element that is kept is among those that are.
LEMMA KeepPlaces ==
  ASSUME NEW T, NEW s \in Seq(T), NEW K, NEW i \in 1 .. Len(s), s[i] \in K,
         NEW n, n = Len(Keep(SubSeq(s, 1, i - 1), K)) + 1
  PROVE  n \in DOMAIN Keep(s, K) /\ Keep(s, K)[n] = s[i]
<1> DEFINE At(t, k) == Len(Keep(SubSeq(t, 1, k - 1), K)) + 1
           Placed(t, k) == At(t, k) \in 1 .. Len(Keep(t, K)) /\ Keep(t, K)[At(t, k)] = t[k]
           S == {t \in Seq(T) : \A k \in 1 .. Len(t) : t[k] \in K => Placed(t, k)}
<1>1. <<>> \in S
  <2>1. <<>> \in Seq(T) /\ 1 .. Len(<<>>) = {}
    BY EmptySeq
  <2>2. QED  BY <2>1
<1>2. ASSUME NEW t \in Seq(T), NEW e \in T, t \in S  PROVE Append(t, e) \in S
  <2> DEFINE u == Append(t, e)
  <2>1. /\ u \in Seq(T) /\ Len(u) = Len(t) + 1 /\ Len(t) \in Nat /\ u[Len(t) + 1] = e
        /\ \A k \in 1 .. Len(t) : u[k] = t[k]
    BY AppendProperties, LenProperties
  <2>2. Keep(u, K) = IF e \in K THEN Append(Keep(t, K), e) ELSE Keep(t, K)
    BY KeepAppend
  <2>3. Keep(t, K) \in Seq(T) /\ Len(Keep(t, K)) \in Nat
    BY KeepType, LenProperties
  <2>4. \A k \in 1 .. Len(t) + 1 : SubSeq(u, 1, k - 1) = SubSeq(t, 1, k - 1)
    <3> SUFFICES ASSUME NEW k \in 1 .. Len(t) + 1
                 PROVE  SubSeq(u, 1, k - 1) = SubSeq(t, 1, k - 1)
      OBVIOUS
    <3>1. \A j \in 1 .. k - 1 : u[j] = t[j]
      BY <2>1
    <3>2. QED  BY <2>1, <3>1
  <2>5. SubSeq(t, 1, Len(t)) = t
    BY SubSeqFull
  <2> HIDE DEF u
  <2>6. ASSUME NEW k \in 1 .. Len(t), u[k] \in K  PROVE Placed(u, k)
    <3> DEFINE place == At(t, k)
    <3>1. t[k] \in K /\ u[k] = t[k] /\ At(u, k) = place
      <4>1. k \in 1 .. Len(t) + 1
        BY <2>1
      <4>2. SubSeq(u, 1, k - 1) = SubSeq(t, 1, k - 1)
        BY <2>4, <4>1
      <4>3. QED  BY <2>1, <2>6, <4>2
    <3>2. place \in 1 .. Len(Keep(t, K)) /\ Keep(t, K)[place] = t[k]
      BY <1>2, <3>1
    <3> HIDE DEF place
    <3>3. place \in 1 .. Len(Keep(u, K)) /\ Keep(u, K)[place] = t[k]
      <4>1. CASE e \in K
        BY <2>2, <2>3, <3>2, <4>1, AppendProperties
      <4>2. CASE e \notin K
        BY <2>2, <3>2, <4>2
      <4>3. QED  BY <4>1, <4>2
    <3>4. QED  BY <3>1, <3>3
  <2>7. ASSUME u[Len(t) + 1] \in K  PROVE Placed(u, Len(t) + 1)
    <3>1. e \in K /\ u[Len(t) + 1] = e
      BY <2>1, <2>7
    <3>2. (Len(t) + 1) - 1 = Len(t) /\ Len(t) + 1 \in 1 .. Len(t) + 1
      BY <2>1
    <3>3. SubSeq(u, 1, (Len(t) + 1) - 1) = t
      BY <2>4, <2>5, <3>2
    <3>4. At(u, Len(t) + 1) = Len(Keep(t, K)) + 1
      BY <3>3
    <3> HIDE DEF At
    <3>5. /\ Keep(u, K) = Append(Keep(t, K), e)
          /\ Len(Keep(t, K)) + 1 \in 1 .. Len(Append(Keep(t, K), e))
          /\ Append(Keep(t, K), e)[Len(Keep(t, K)) + 1] = e
      BY <2>2, <2>3, <3>1, AppendProperties
    <3>6. QED  BY <3>1, <3>4, <3>5
  <2> HIDE DEF Placed
  <2>8. \A k \in 1 .. Len(u) : u[k] \in K => Placed(u, k)
    <3> SUFFICES ASSUME NEW k \in 1 .. Len(u), u[k] \in K  PROVE Placed(u, k)
      OBVIOUS
    <3>1. k \in 1 .. Len(t) \/ k = Len(t) + 1
      BY <2>1
    <3>2. QED  BY <2>6, <2>7, <3>1
  <2>9. QED  BY <2>1, <2>8 DEF u
<1> HIDE DEF S
<1>3. \A t \in Seq(T) : t \in S
  BY <1>1, <1>2, SequenceInduction
<1>4. Placed(s, i)
  BY <1>3 DEF S
<1>5. Keep(s, K) \in Seq(T)
  BY KeepType
<1>6. QED  BY <1>4, <1>5

LEMMA TableTypesAnswered ==
  ASSUME NEW d, d.table_types \in Seq(STRING \ {Null}), NEW batches \in TableTypesAnswer(d)
  PROVE  FlattenSeq([i \in DOMAIN batches |-> ExtractTableTypes(batches[i])])
           = Over(d.table_types, LAMBDA type : <<[table_type |-> type]>>)
<1> DEFINE types == d.table_types
           made == [i \in DOMAIN types |-> [table_type |-> types[i]]]
           R == {[table_type |-> type] : type \in STRING}
<1>1. /\ DOMAIN types = 1 .. Len(types) /\ Len(types) \in Nat
      /\ \A i \in DOMAIN types : types[i] \in STRING /\ types[i] # Null
  OBVIOUS
<1>2. batches = <<[table_types |-> types]>>
  BY DEF TableTypesAnswer
<1>3. Over(types, LAMBDA type : <<[table_type |-> type]>>)
        = FlattenSeq([i \in DOMAIN types |-> <<[table_type |-> types[i]]>>])
  BY DEF Over
<1> HIDE DEF types
<1>4. ExtractTableTypes([table_types |-> types]) = made
  BY <1>1 DEF ExtractTableTypes, ExtractString
<1>5. made \in Seq(R)
  BY <1>1
<1>6. [i \in DOMAIN types |-> <<[table_type |-> types[i]]>>] = [i \in DOMAIN made |-> <<made[i]>>]
  OBVIOUS
<1>7. [i \in DOMAIN batches |-> ExtractTableTypes(batches[i])] = <<made>>
  BY <1>2, <1>4
<1> HIDE DEF made, R
<1>8. FlattenSeq(<<made>>) = made /\ FlattenSeq([i \in DOMAIN made |-> <<made[i]>>]) = made
  BY <1>5, FlattenOne, FlattenSingletons
<1>9. QED  BY <1>3, <1>6, <1>7, <1>8 DEF types

LEMMA SchemaAnswered ==
  ASSUME NEW d, NEW F, d.fields \in Seq(F), NEW batches \in SchemaAnswer(d)
  PROVE  /\ Len(batches) = 1
         /\ FlattenSeq([i \in DOMAIN batches |-> ExtractSchemaFields(batches[i])])
              = Over(d.fields, LAMBDA f :
                  <<[field_name |-> IF f.name = Null THEN "" ELSE f.name, field_type |-> f.type,
                     nullable |-> f.nullable]>>)
<1> DEFINE fields == d.fields
           row(f) == [field_name |-> IF f.name = Null THEN "" ELSE f.name, field_type |-> f.type,
                      nullable |-> f.nullable]
           made == [i \in DOMAIN fields |-> row(fields[i])]
           R == {row(f) : f \in F}
<1>1. /\ DOMAIN fields = 1 .. Len(fields) /\ Len(fields) \in Nat
      /\ \A i \in DOMAIN fields : fields[i] \in F
  OBVIOUS
<1>2. batches = <<[fields |-> fields]>>
  BY DEF SchemaAnswer
<1>3. Over(fields, LAMBDA f : <<row(f)>>) = FlattenSeq([i \in DOMAIN fields |-> <<row(fields[i])>>])
  BY DEF Over
<1> HIDE DEF fields
<1>4. ExtractSchemaFields([fields |-> fields]) = made
  BY DEF ExtractSchemaFields, ExtractString
<1> HIDE DEF row
<1>5. made \in Seq(R)
  BY <1>1
<1>6. [i \in DOMAIN fields |-> <<row(fields[i])>>] = [i \in DOMAIN made |-> <<made[i]>>]
  OBVIOUS
<1>7. [i \in DOMAIN batches |-> ExtractSchemaFields(batches[i])] = <<made>>
  BY <1>2, <1>4
<1> HIDE DEF made, R
<1>8. FlattenSeq(<<made>>) = made /\ FlattenSeq([i \in DOMAIN made |-> <<made[i]>>]) = made
  BY <1>5, FlattenOne, FlattenSingletons
<1>9. Len(batches) = 1
  BY <1>2
<1>10. QED  BY <1>3, <1>6, <1>7, <1>8, <1>9 DEF fields, row

LEMMA InfoAnswered ==
  ASSUME NEW d, NEW V, d.infos \in Seq(V), \A v \in V : IsInfo(v), NEW batches \in InfoAnswer(d)
  PROVE  FlattenSeq([i \in DOMAIN batches |-> ExtractInfo(batches[i])])
           = Over(d.infos, LAMBDA v : <<[info_name |-> v.name, info_value |-> v.text]>>)
<1> DEFINE infos == d.infos
           row(v) == [info_name |-> v.name, info_value |-> v.text]
           made == [i \in DOMAIN infos |-> row(infos[i])]
           R == {row(v) : v \in V}
           b == InfoArray(infos)
           OfType(type, n) == Keep(SubSeq(infos, 1, n), {v \in ToSet(infos) : v.type = type})
<1>1. /\ DOMAIN infos = 1 .. Len(infos) /\ Len(infos) \in Nat
      /\ \A i \in DOMAIN infos : infos[i] \in V /\ IsInfo(infos[i])
  OBVIOUS
<1>2. batches = <<b>>
  BY DEF InfoAnswer
<1>3. Over(infos, LAMBDA v : <<row(v)>>) = FlattenSeq([i \in DOMAIN infos |-> <<row(infos[i])>>])
  BY DEF Over
<1>4. /\ b.codes = [i \in DOMAIN infos |-> infos[i].code]
      /\ b.types = [i \in DOMAIN infos |-> infos[i].type]
      /\ b.offsets = [i \in DOMAIN infos |-> Len(OfType(infos[i].type, i - 1))]
      /\ b.children = [type \in 0 .. 5 |-> [i \in DOMAIN OfType(type, Len(infos)) |->
                                              OfType(type, Len(infos))[i].value]]
  BY DEF InfoArray
<1> HIDE DEF b
<1>5. ASSUME NEW i \in DOMAIN infos  PROVE ExtractUnionValue(b, i) = infos[i].text
  <2> DEFINE type == infos[i].type
             K == {v \in ToSet(infos) : v.type = type}
             n == Len(Keep(SubSeq(infos, 1, i - 1), K)) + 1
  <2>1. type \in 0 .. 5 /\ infos[i].text = UnionText(type, infos[i].value)
    BY <1>1 DEF IsInfo
  <2>2. infos[i] \in K /\ i \in 1 .. Len(infos)
    BY <1>1 DEF ToSet
  <2>3. OfType(type, Len(infos)) = Keep(infos, K)
    <3>1. SubSeq(infos, 1, Len(infos)) = infos
      BY SubSeqFull
    <3>2. QED  BY <3>1
  <2>4. b.types[i] = type /\ b.offsets[i] + 1 = n
    BY <1>4
  <2> DEFINE kept == Keep(infos, K)
  <2>5. b.children[type] = [k \in DOMAIN kept |-> kept[k].value]
    <3>1. b.children[type] = [k \in DOMAIN OfType(type, Len(infos)) |-> OfType(type, Len(infos))[k].value]
      BY <1>4, <2>1
    <3> HIDE DEF OfType
    <3>2. QED  BY <2>3, <3>1
  <2>6. n \in DOMAIN kept /\ kept[n] = infos[i]
    <3> HIDE DEF K, infos
    <3>1. infos \in Seq(V)
      BY DEF infos
    <3>2. QED  BY <2>2, <3>1, KeepPlaces DEF kept
  <2> HIDE DEF n, kept, type
  <2>7. b.children[type][b.offsets[i] + 1] = infos[i].value
    BY <2>4, <2>5, <2>6
  <2>8. QED  BY <2>1, <2>4, <2>7 DEF ExtractUnionValue
<1> HIDE DEF infos
<1>6. ExtractInfo(b) = made
  <2>1. DOMAIN b.codes = DOMAIN infos
    BY <1>4
  <2>2. \A i \in DOMAIN infos : GetInfoName(b.codes[i]) = infos[i].name
    BY <1>1, <1>4 DEF IsInfo
  <2>3. QED  BY <1>5, <2>1, <2>2 DEF ExtractInfo
<1> HIDE DEF row
<1>7. made \in Seq(R)
  BY <1>1
<1>8. [i \in DOMAIN infos |-> <<row(infos[i])>>] = [i \in DOMAIN made |-> <<made[i]>>]
  OBVIOUS
<1>9. [i \in DOMAIN batches |-> ExtractInfo(batches[i])] = <<made>>
  BY <1>2, <1>6
<1> HIDE DEF made, R
<1>10. FlattenSeq(<<made>>) = made /\ FlattenSeq([i \in DOMAIN made |-> <<made[i]>>]) = made
  BY <1>7, FlattenOne, FlattenSingletons
<1>11. QED  BY <1>3, <1>8, <1>9, <1>10 DEF infos, row

-----------------------------------------------------------------------------
(* What is read and what is still to be read are what should be shown.     *)

AllRows(q, batches) == FlattenSeq([i \in DOMAIN batches |-> RowsOf(q, batches[i])])

\* Whatever a driver answers, all its batches together are the rows of the tree.
LEMMA AnswerIsComplete ==
  ASSUME NEW d \in Remote, NEW q \in Request, NEW batches \in Answers(d, q)
  PROVE  /\ AllRows(q, batches) = Expected(d, q)
         /\ q.function = "adbc_schema" => Len(batches) = 1
<1>1. /\ batches \in Answer(d, q) /\ q.function \in TableFunction
      /\ d.catalogs \in Seq(ACatalog) /\ d.table_types \in Seq(STRING \ {Null})
      /\ d.infos \in Seq(ToSet(d.infos)) /\ \A v \in ToSet(d.infos) : IsInfo(v)
      /\ d.fields \in Seq(ToSet(d.fields))
  BY FunctionsAssumption
<1>2. \A i \in DOMAIN batches : RowsOf(q, batches[i]) = Extract(q, batches[i])
  <2>1. batches \in Seq(Batch(q))
    BY MetadataAssumption
  <2>2. \A i \in DOMAIN batches : batches[i] \in Batch(q)
    BY <2>1
  <2>3. QED  BY <2>2, FunctionsAssumption
<1>3. AllRows(q, batches) = FlattenSeq([i \in DOMAIN batches |-> Extract(q, batches[i])])
  <2>1. [i \in DOMAIN batches |-> RowsOf(q, batches[i])]
          = [i \in DOMAIN batches |-> Extract(q, batches[i])]
    BY <1>2
  <2>2. QED  BY <2>1 DEF AllRows
<1>4. CASE q.function = "adbc_info"
  <2>1. batches \in InfoAnswer(d)
    BY <1>1, <1>4 DEF Answer
  <2>2. [i \in DOMAIN batches |-> Extract(q, batches[i])]
          = [i \in DOMAIN batches |-> ExtractInfo(batches[i])]
    BY <1>4 DEF Extract
  <2>3. FlattenSeq([i \in DOMAIN batches |-> ExtractInfo(batches[i])])
          = Over(d.infos, LAMBDA v : <<[info_name |-> v.name, info_value |-> v.text]>>)
    BY <1>1, <2>1, InfoAnswered
  <2>4. Expected(d, q) = Over(d.infos, LAMBDA v : <<[info_name |-> v.name, info_value |-> v.text]>>)
    BY <1>4 DEF Expected
  <2>5. QED  BY <1>3, <1>4, <2>2, <2>3, <2>4
<1>5. CASE q.function = "adbc_tables"
  <2>1. batches \in TablesAnswer(d, q)
    BY <1>1, <1>5 DEF Answer
  <2>2. [i \in DOMAIN batches |-> Extract(q, batches[i])]
          = [i \in DOMAIN batches |-> ExtractTables(batches[i])]
    BY <1>5 DEF Extract
  <2>3. FlattenSeq([i \in DOMAIN batches |-> ExtractTables(batches[i])]) = TablesOf(d, q)
    BY <1>1, <2>1, TablesAnswered
  <2>4. Expected(d, q) = TablesOf(d, q)
    BY <1>5 DEF Expected
  <2>5. QED  BY <1>3, <1>5, <2>2, <2>3, <2>4
<1>6. CASE q.function = "adbc_table_types"
  <2>1. batches \in TableTypesAnswer(d)
    BY <1>1, <1>6 DEF Answer
  <2>2. [i \in DOMAIN batches |-> Extract(q, batches[i])]
          = [i \in DOMAIN batches |-> ExtractTableTypes(batches[i])]
    BY <1>6 DEF Extract
  <2>3. FlattenSeq([i \in DOMAIN batches |-> ExtractTableTypes(batches[i])])
          = Over(d.table_types, LAMBDA type : <<[table_type |-> type]>>)
    BY <1>1, <2>1, TableTypesAnswered
  <2>4. Expected(d, q) = Over(d.table_types, LAMBDA type : <<[table_type |-> type]>>)
    BY <1>6 DEF Expected
  <2>5. QED  BY <1>3, <1>6, <2>2, <2>3, <2>4
<1>7. CASE q.function = "adbc_columns"
  <2>1. batches \in ColumnsAnswer(d, q)
    BY <1>1, <1>7 DEF Answer
  <2>2. [i \in DOMAIN batches |-> Extract(q, batches[i])]
          = [i \in DOMAIN batches |-> ExtractColumns(batches[i])]
    BY <1>7 DEF Extract
  <2>3. FlattenSeq([i \in DOMAIN batches |-> ExtractColumns(batches[i])]) = ColumnsOf(d, q)
    BY <1>1, <2>1, ColumnsAnswered
  <2>4. Expected(d, q) = ColumnsOf(d, q)
    BY <1>7 DEF Expected
  <2>5. QED  BY <1>3, <1>7, <2>2, <2>3, <2>4
<1>8. CASE q.function = "adbc_schema"
  <2>1. batches \in SchemaAnswer(d)
    BY <1>1, <1>8 DEF Answer
  <2>2. [i \in DOMAIN batches |-> Extract(q, batches[i])]
          = [i \in DOMAIN batches |-> ExtractSchemaFields(batches[i])]
    BY <1>8 DEF Extract
  <2>3. /\ Len(batches) = 1
        /\ FlattenSeq([i \in DOMAIN batches |-> ExtractSchemaFields(batches[i])])
             = Over(d.fields, LAMBDA f :
                 <<[field_name |-> IF f.name = Null THEN "" ELSE f.name, field_type |-> f.type,
                    nullable |-> f.nullable]>>)
    BY <1>1, <2>1, SchemaAnswered
  <2>4. Expected(d, q) = Over(d.fields, LAMBDA f :
          <<[field_name |-> IF f.name = Null THEN "" ELSE f.name, field_type |-> f.type,
             nullable |-> f.nullable]>>)
    BY <1>8 DEF Expected
  <2>5. QED  BY <1>3, <1>8, <2>2, <2>3, <2>4
<1>9. QED  BY <1>1, <1>4, <1>5, <1>6, <1>7, <1>8 DEF TableFunction

\* The rows of a batch and of those after it.
LEMMA AllRowsHead ==
  ASSUME NEW q \in Request, NEW batches \in Seq(Batch(q))
  PROVE  /\ AllRows(q, batches) \in Seq(Row) /\ AllRows(q, <<>>) = <<>>
         /\ batches # <<>> =>
              /\ RowsOf(q, Head(batches)) \in Seq(Row) /\ Tail(batches) \in Seq(Batch(q))
              /\ AllRows(q, batches) = RowsOf(q, Head(batches)) \o AllRows(q, Tail(batches))
<1> DEFINE Of(s) == [i \in DOMAIN s |-> RowsOf(q, s[i])]
<1>1. \A s \in Seq(Batch(q)) :
        /\ Of(s) \in Seq(Seq(Row)) /\ Len(Of(s)) = Len(s)
        /\ \A i \in 1 .. Len(s) : Of(s)[i] = RowsOf(q, s[i])
  <2> SUFFICES ASSUME NEW s \in Seq(Batch(q))
               PROVE  /\ Of(s) \in Seq(Seq(Row)) /\ Len(Of(s)) = Len(s)
                      /\ \A i \in 1 .. Len(s) : Of(s)[i] = RowsOf(q, s[i])
    OBVIOUS
  <2>1. DOMAIN s = 1 .. Len(s) /\ Len(s) \in Nat /\ \A i \in DOMAIN s : s[i] \in Batch(q)
    OBVIOUS
  <2>2. \A i \in DOMAIN s : RowsOf(q, s[i]) \in Seq(Row)
    BY <2>1, MetadataAssumption
  <2>3. QED  BY <2>1, <2>2
<1>2. AllRows(q, batches) \in Seq(Row)
  <2>1. Of(batches) \in Seq(Seq(Row))
    BY <1>1
  <2>2. FlattenSeq(Of(batches)) \in Seq(Row)
    <3> HIDE DEF Of
    <3>1. QED  BY <2>1, FlattenType
  <2>3. QED  BY <2>2 DEF AllRows
<1>3. AllRows(q, <<>>) = <<>>
  <2>1. Of(<<>>) = <<>>
    OBVIOUS
  <2>2. FlattenSeq(<<>>) = <<>>
    BY FlattenOne, EmptySeq
  <2>3. QED  BY <2>1, <2>2 DEF AllRows
<1>4. ASSUME batches # <<>>
      PROVE  /\ RowsOf(q, Head(batches)) \in Seq(Row) /\ Tail(batches) \in Seq(Batch(q))
             /\ AllRows(q, batches) = RowsOf(q, Head(batches)) \o AllRows(q, Tail(batches))
  <2> DEFINE h == Head(batches)
             t == Tail(batches)
             first == RowsOf(q, h)
  <2>1. h \in Batch(q) /\ t \in Seq(Batch(q)) /\ first \in Seq(Row)
    <3>1. h \in Batch(q) /\ t \in Seq(Batch(q))
      BY <1>4, HeadTailProperties
    <3>2. QED  BY <3>1, MetadataAssumption
  <2>2. /\ Len(batches) = Len(t) + 1 /\ Len(t) \in Nat /\ batches[1] = h
        /\ \A i \in 1 .. Len(t) : batches[i + 1] = t[i]
    BY <1>4, HeadTailProperties
  <2> HIDE DEF h, t, Of
  <2>3. /\ Of(t) \in Seq(Seq(Row)) /\ Len(Of(t)) = Len(t) /\ \A i \in 1 .. Len(t) : Of(t)[i] = RowsOf(q, t[i])
        /\ Of(batches) \in Seq(Seq(Row)) /\ Len(Of(batches)) = Len(t) + 1
        /\ \A i \in 1 .. Len(t) + 1 : Of(batches)[i] = RowsOf(q, batches[i])
    BY <1>1, <2>1, <2>2
  <2> HIDE DEF first
  <2>4. <<first>> \in Seq(Seq(Row)) /\ Len(<<first>>) = 1 /\ <<first>>[1] = first
    BY <2>1
  <2>5. Of(batches) = <<first>> \o Of(t)
    <3> DEFINE u == <<first>> \o Of(t)
    <3>1. /\ u \in Seq(Seq(Row)) /\ Len(u) = Len(t) + 1 /\ u[1] = first
          /\ \A i \in 1 .. Len(t) : u[i + 1] = Of(t)[i]
      <4>1. /\ u \in Seq(Seq(Row)) /\ Len(u) = 1 + Len(t)
            /\ \A k \in 1 .. 1 + Len(t) : u[k] = IF k <= 1 THEN <<first>>[k] ELSE Of(t)[k - 1]
        BY <2>3, <2>4, ConcatProperties
      <4> HIDE DEF u
      <4>2. \A i \in 1 .. Len(t) : i + 1 \in 1 .. 1 + Len(t) /\ ~(i + 1 <= 1) /\ (i + 1) - 1 = i
        BY <2>2
      <4>3. 1 \in 1 .. 1 + Len(t) /\ 1 + Len(t) = Len(t) + 1
        BY <2>2
      <4>4. QED  BY <2>4, <4>1, <4>2, <4>3
    <3> HIDE DEF u
    <3>2. \A k \in 1 .. Len(t) + 1 : Of(batches)[k] = u[k]
      <4> SUFFICES ASSUME NEW k \in 1 .. Len(t) + 1  PROVE Of(batches)[k] = u[k]
        OBVIOUS
      <4>1. CASE k = 1
        BY <2>2, <2>3, <3>1, <4>1 DEF first
      <4>2. CASE k # 1
        <5>1. k - 1 \in 1 .. Len(t) /\ (k - 1) + 1 = k
          BY <2>2, <4>2
        <5>2. u[k] = Of(t)[k - 1] /\ batches[k] = t[k - 1]
          BY <2>2, <3>1, <5>1
        <5>3. QED  BY <2>3, <5>1, <5>2
      <4>3. QED  BY <4>1, <4>2
    <3>3. Of(batches) = u
      BY <2>3, <3>1, <3>2, SeqEqual
    <3>4. QED  BY <3>3 DEF u
  <2>6. FlattenSeq(<<first>> \o Of(t)) = FlattenSeq(<<first>>) \o FlattenSeq(Of(t))
    BY <2>3, <2>4, FlattenConcat
  <2>7. FlattenSeq(<<first>>) = first
    BY <2>1, FlattenOne
  <2>8. QED  BY <2>1, <2>5, <2>6, <2>7 DEF AllRows, Of, first, h, t
<1>5. QED  BY <1>2, <1>3, <1>4

\* The inductive invariant: nothing is lost and nothing is shown twice between
\* the batches that wait and the rows, and a schema is one batch.
Complete ==
  /\ pc \in {"extracting", "scanning", "finished"} =>
       rows \o AllRows(request, remaining) = Expected(answered, request)
  /\ pc \in {"scanning", "finished"} => remaining = <<>>
  /\ pc = "extracting" /\ IsSchema => Len(remaining) = 1

\* Every step keeps it.
LEMMA StepComplete ==
  ASSUME IInv, Complete, [Next]_vars
  PROVE  Complete'
<1>0. TypeOK /\ Places /\ request \in Request /\ rows \in Seq(Row) /\ remaining \in Seq(Batch(request))
  BY DEF IInv, TypeOK
<1>1. CASE UNCHANGED vars
  BY <1>1 DEF Complete, IsSchema, vars
<1>2. CASE Bind
  BY <1>2 DEF Bind, Complete
<1>3. CASE InitGlobal
  <2>1. CASE pc' = "throwing"
    BY <2>1 DEF Complete
  <2>2. CASE /\ pc' = "extracting" /\ answered' = remote /\ remaining' \in Answers(remote, request)
    <3>1. rows' = <<>> /\ request' = request /\ remote \in Remote
      BY <1>0, <1>3 DEF InitGlobal, Places, TypeOK
    <3>2. /\ AllRows(request, remaining') = Expected(remote, request)
          /\ request.function = "adbc_schema" => Len(remaining') = 1
      BY <1>0, <2>2, <3>1, AnswerIsComplete
    <3>3. AllRows(request, remaining') \in Seq(Row)
      <4>1. remaining' \in Seq(Batch(request))
        BY <1>0, <2>2, <3>1, MetadataAssumption
      <4>2. QED  BY <1>0, <4>1, AllRowsHead
    <3>4. rows' \o AllRows(request', remaining') = Expected(answered', request')
      BY <2>2, <3>1, <3>2, <3>3, ConcatEmptySeq
    <3>5. QED  BY <2>2, <3>1, <3>2, <3>4 DEF Complete, IsSchema
  <2>3. QED  BY <1>3, <2>1, <2>2 DEF InitGlobal
<1>4. CASE GetNext
  <2>1. /\ pc = "extracting" /\ ~IsSchema /\ ~IsSchema'
        /\ request' = request /\ answered' = answered
    BY <1>4 DEF GetNext, IsSchema
  <2>2. rows \o AllRows(request, remaining) = Expected(answered, request)
    BY <2>1 DEF Complete
  <2>3. CASE /\ remaining # <<>> /\ rows' = rows \o RowsOf(request, Head(remaining))
             /\ remaining' = Tail(remaining) /\ UNCHANGED pc
    <3>1. /\ RowsOf(request, Head(remaining)) \in Seq(Row) /\ Tail(remaining) \in Seq(Batch(request))
          /\ AllRows(request, remaining)
               = RowsOf(request, Head(remaining)) \o AllRows(request, Tail(remaining))
      BY <1>0, <2>3, AllRowsHead
    <3>2. AllRows(request, Tail(remaining)) \in Seq(Row)
      BY <1>0, <3>1, AllRowsHead
    <3>3. (rows \o RowsOf(request, Head(remaining))) \o AllRows(request, Tail(remaining))
            = rows \o (RowsOf(request, Head(remaining)) \o AllRows(request, Tail(remaining)))
      BY <1>0, <3>1, <3>2, ConcatAssociative
    <3>4. rows' \o AllRows(request', remaining') = Expected(answered', request')
      BY <2>1, <2>2, <2>3, <3>1, <3>3
    <3>5. QED  BY <2>1, <2>3, <3>4 DEF Complete
  <2>4. CASE remaining = <<>> /\ pc' = "scanning" /\ UNCHANGED <<rows, remaining>>
    BY <2>1, <2>2, <2>4 DEF Complete
  <2>5. CASE pc' = "throwing"
    BY <2>5 DEF Complete
  <2>6. QED  BY <1>4, <2>3, <2>4, <2>5 DEF GetNext
<1>5. CASE ReadSchema
  <2>1. pc = "extracting" /\ IsSchema /\ request' = request /\ answered' = answered
    BY <1>5 DEF ReadSchema
  <2>2. CASE /\ remaining # <<>> /\ rows' = RowsOf(request, Head(remaining))
             /\ remaining' = <<>> /\ pc' = "scanning"
    <3>1. /\ rows \o AllRows(request, remaining) = Expected(answered, request)
          /\ rows = <<>> /\ Len(remaining) = 1
      BY <1>0, <2>1 DEF Complete, Places
    <3>2. /\ RowsOf(request, Head(remaining)) \in Seq(Row) /\ AllRows(request, remaining) \in Seq(Row)
          /\ AllRows(request, remaining)
               = RowsOf(request, Head(remaining)) \o AllRows(request, Tail(remaining))
          /\ AllRows(request, <<>>) = <<>>
      BY <1>0, <2>2, AllRowsHead
    <3>3. Tail(remaining) = <<>>
      <4>1. Tail(remaining) \in Seq(Batch(request)) /\ Len(Tail(remaining)) = 0
        BY <1>0, <2>2, <3>1, HeadTailProperties
      <4>2. QED  BY <4>1, EmptySeq
    <3>4. rows' \o AllRows(request', remaining') = Expected(answered', request')
      BY <2>1, <2>2, <3>1, <3>2, <3>3, ConcatEmptySeq
    <3>5. QED  BY <2>2, <3>4 DEF Complete
  <2>3. CASE pc' = "throwing"
    BY <2>3 DEF Complete
  <2>4. QED  BY <1>5, <2>2, <2>3 DEF ReadSchema
<1>6. CASE Function
  BY <1>6 DEF Function, Complete, source
<1>7. CASE DestroyGlobalState
  BY <1>7 DEF DestroyGlobalState, Complete
<1>8. CASE Alter
  BY <1>8 DEF Alter, Complete, IsSchema, source
<1>9. QED  BY <1>1, <1>2, <1>3, <1>4, <1>5, <1>6, <1>7, <1>8 DEF Next

\* A finished scan has shown every object that the arguments ask for once, as
\* the remote database was when the driver was asked, for every tree and every
\* way to cut it into batches.
THEOREM FinishedIsCompleteTheorem == Spec => []FinishedIsComplete
<1>1. Init => Complete
  BY DEF Init, Complete
<1>2. IInv /\ Complete /\ [Next]_vars => Complete'
  BY StepComplete
<1>3. IInv /\ Complete => FinishedIsComplete
  <2> SUFFICES ASSUME IInv, Complete, pc = "finished"
               PROVE  output = Expected(answered, request)
    BY DEF FinishedIsComplete
  <2>1. /\ rows \in Seq(Row) /\ request \in Request /\ remaining = <<>>
        /\ output = SubSeq(rows, 1, Len(rows))
    BY DEF IInv, TypeOK, Places, OutputIsRows, Complete
  <2>2. AllRows(request, remaining) = <<>>
    <3>1. <<>> \in Seq(Batch(request))
      BY EmptySeq
    <3>2. QED  BY <2>1, <3>1, AllRowsHead
  <2>3. rows = Expected(answered, request)
    BY <2>1, <2>2, ConcatEmptySeq DEF Complete
  <2>4. QED  BY <2>1, <2>3, SubSeqFull
<1>4. QED  BY <1>1, <1>2, <1>3, IInvInvariant, PTL DEF Spec

-----------------------------------------------------------------------------
(* The catalog entries of an attached database.                            *)

SchemasIn(cs) == UNION {ToSet(c.schemas) : c \in ToSet(cs)}

\* What a walk has made, it has made of a table.
LEMMA WalkElements ==
  ASSUME NEW R, NEW g \in Walker(R), NEW cs \in Seq(ACatalog), NEW e
  PROVE  e \in ToSet(Walk(cs, g)) <=>
           \E c \in ToSet(cs) : \E s \in ToSet(c.schemas) : \E t \in ToSet(s.tables) :
             e \in ToSet(g[<<c.name, s.name, t>>])
<1>1. ASSUME NEW name \in STRING, NEW s \in ASchema
      PROVE  e \in ToSet(OfSchema(name, s, g)) <=>
               \E t \in ToSet(s.tables) : e \in ToSet(g[<<name, s.name, t>>])
  <2> DEFINE ss == [i \in DOMAIN s.tables |-> g[<<name, s.name, s.tables[i]>>]]
  <2>1. ss \in Seq(Seq(R)) /\ OfSchema(name, s, g) = FlattenSeq(ss)
    BY WalkTypes DEF OfSchema
  <2>2. /\ DOMAIN ss = DOMAIN s.tables
        /\ \A i \in DOMAIN ss : ss[i] = g[<<name, s.name, s.tables[i]>>]
    OBVIOUS
  <2> HIDE DEF ss
  <2>3. ToSet(FlattenSeq(ss)) = UNION {ToSet(ss[i]) : i \in DOMAIN ss}
    BY <2>1, FlattenElements
  <2>4. e \in ToSet(FlattenSeq(ss)) <=> \E i \in DOMAIN ss : e \in ToSet(ss[i])
    BY <2>3
  <2>5. \A t : t \in ToSet(s.tables) <=> \E i \in DOMAIN s.tables : t = s.tables[i]
    BY DEF ToSet
  <2>6. ASSUME NEW t \in ToSet(s.tables), e \in ToSet(g[<<name, s.name, t>>])
        PROVE  e \in ToSet(FlattenSeq(ss))
    <3>1. PICK i \in DOMAIN s.tables : t = s.tables[i]
      BY <2>5
    <3>2. i \in DOMAIN ss /\ e \in ToSet(ss[i])
      BY <2>2, <2>6, <3>1
    <3>3. QED  BY <2>4, <3>2
  <2>7. ASSUME NEW i \in DOMAIN ss, e \in ToSet(ss[i])
        PROVE  \E t \in ToSet(s.tables) : e \in ToSet(g[<<name, s.name, t>>])
    <3>1. s.tables[i] \in ToSet(s.tables) /\ e \in ToSet(g[<<name, s.name, s.tables[i]>>])
      BY <2>2, <2>5, <2>7
    <3>2. QED  BY <3>1
  <2>8. QED  BY <2>1, <2>4, <2>6, <2>7
<1>2. ASSUME NEW c \in ACatalog
      PROVE  e \in ToSet(OfCatalog(c, g)) <=>
               \E s \in ToSet(c.schemas) : \E t \in ToSet(s.tables) :
                 e \in ToSet(g[<<c.name, s.name, t>>])
  <2> DEFINE ss == [i \in DOMAIN c.schemas |-> OfSchema(c.name, c.schemas[i], g)]
  <2>1. ss \in Seq(Seq(R)) /\ OfCatalog(c, g) = FlattenSeq(ss)
    BY WalkTypes DEF OfCatalog
  <2>2. /\ DOMAIN ss = DOMAIN c.schemas
        /\ \A i \in DOMAIN ss : ss[i] = OfSchema(c.name, c.schemas[i], g)
    OBVIOUS
  <2> HIDE DEF ss
  <2>3. ToSet(FlattenSeq(ss)) = UNION {ToSet(ss[i]) : i \in DOMAIN ss}
    BY <2>1, FlattenElements
  <2>4. e \in ToSet(FlattenSeq(ss)) <=> \E i \in DOMAIN ss : e \in ToSet(ss[i])
    BY <2>3
  <2>5. \A s : s \in ToSet(c.schemas) <=> \E i \in DOMAIN c.schemas : s = c.schemas[i]
    BY DEF ToSet
  <2>6. c.name \in STRING /\ \A i \in DOMAIN c.schemas : c.schemas[i] \in ASchema
    <3>1. c.name \in STRING /\ c.schemas \in Seq(ASchema)
      BY DEF ACatalog
    <3>2. QED  BY <3>1
  <2>7. \A i \in DOMAIN c.schemas :
          e \in ToSet(ss[i]) <=> \E t \in ToSet(c.schemas[i].tables) :
                                   e \in ToSet(g[<<c.name, c.schemas[i].name, t>>])
    BY <1>1, <2>2, <2>6
  <2>8. QED  BY <2>1, <2>2, <2>4, <2>5, <2>7
<1>3. QED
  <2> DEFINE ss == [i \in DOMAIN cs |-> OfCatalog(cs[i], g)]
  <2>1. ss \in Seq(Seq(R)) /\ Walk(cs, g) = FlattenSeq(ss)
    BY WalkTypes DEF Walk
  <2>2. /\ DOMAIN ss = DOMAIN cs
        /\ \A i \in DOMAIN ss : ss[i] = OfCatalog(cs[i], g)
    OBVIOUS
  <2> HIDE DEF ss
  <2>3. ToSet(FlattenSeq(ss)) = UNION {ToSet(ss[i]) : i \in DOMAIN ss}
    BY <2>1, FlattenElements
  <2>4. e \in ToSet(FlattenSeq(ss)) <=> \E i \in DOMAIN ss : e \in ToSet(ss[i])
    BY <2>3
  <2>5. \A c : c \in ToSet(cs) <=> \E i \in DOMAIN cs : c = cs[i]
    BY DEF ToSet
  <2>6. \A i \in DOMAIN cs : cs[i] \in ACatalog
    OBVIOUS
  <2>7. \A i \in DOMAIN cs :
          e \in ToSet(ss[i]) <=> \E s \in ToSet(cs[i].schemas) : \E t \in ToSet(s.tables) :
                                   e \in ToSet(g[<<cs[i].name, s.name, t>>])
    BY <1>2, <2>2, <2>6
  <2>8. ASSUME NEW c \in ToSet(cs), NEW s \in ToSet(c.schemas), NEW t \in ToSet(s.tables),
               e \in ToSet(g[<<c.name, s.name, t>>])
        PROVE  e \in ToSet(FlattenSeq(ss))
    <3>1. PICK i \in DOMAIN cs : c = cs[i]
      BY <2>5
    <3>2. i \in DOMAIN ss /\ e \in ToSet(ss[i])
      BY <2>2, <2>7, <2>8, <3>1
    <3>3. QED  BY <2>4, <3>2
  <2>9. ASSUME NEW i \in DOMAIN ss, e \in ToSet(ss[i])
        PROVE  \E c \in ToSet(cs) : \E s \in ToSet(c.schemas) : \E t \in ToSet(s.tables) :
                 e \in ToSet(g[<<c.name, s.name, t>>])
    <3>1. cs[i] \in ToSet(cs) /\ i \in DOMAIN cs
      BY <2>2, <2>5
    <3>2. QED  BY <2>7, <2>9, <3>1
  <2>10. QED  BY <2>1, <2>4, <2>8, <2>9

\* The names of all schemas, one after another.
LEMMA SchemaNamesOf ==
  ASSUME NEW cs \in Seq(ACatalog), NEW name
  PROVE  name \in ToSet(ObjectsArray(cs).schema_names) <=> \E s \in SchemasIn(cs) : name = s.name
<1> DEFINE lists == [i \in DOMAIN cs |-> cs[i].schemas]
           items == FlattenSeq(lists)
<1>1. lists \in Seq(Seq(ASchema)) /\ DOMAIN lists = DOMAIN cs
      /\ \A i \in DOMAIN cs : lists[i] = cs[i].schemas
  BY TreeTypes
<1>2. ObjectsArray(cs).schema_names = [i \in DOMAIN items |-> items[i].name]
  BY DEF ObjectsArray, ListArray, Names
<1> HIDE DEF lists
<1>3. ToSet(items) = UNION {ToSet(lists[i]) : i \in DOMAIN lists}
  BY <1>1, FlattenElements
<1>4. \A s : s \in ToSet(items) <=> \E i \in DOMAIN cs : s \in ToSet(cs[i].schemas)
  BY <1>1, <1>3
<1> HIDE DEF items
<1>5. \A s : s \in SchemasIn(cs) <=> \E i \in DOMAIN cs : s \in ToSet(cs[i].schemas)
  BY DEF SchemasIn, ToSet
<1>6. name \in ToSet(ObjectsArray(cs).schema_names) <=> \E i \in DOMAIN items : name = items[i].name
  BY <1>2 DEF ToSet
<1>7. \A s : s \in ToSet(items) <=> \E i \in DOMAIN items : s = items[i]
  BY DEF ToSet
<1>8. ASSUME name \in ToSet(ObjectsArray(cs).schema_names)
      PROVE  \E s \in SchemasIn(cs) : name = s.name
  <2>1. PICK k \in DOMAIN items : name = items[k].name
    BY <1>6, <1>8
  <2>2. items[k] \in SchemasIn(cs)
    BY <1>4, <1>5, <1>7
  <2>3. QED  BY <2>1, <2>2
<1>9. ASSUME NEW s \in SchemasIn(cs), name = s.name
      PROVE  name \in ToSet(ObjectsArray(cs).schema_names)
  <2>1. PICK k \in DOMAIN items : s = items[k]
    BY <1>4, <1>5, <1>7
  <2>2. QED  BY <1>6, <1>9, <2>1
<1>10. QED  BY <1>8, <1>9

\* Each batch is a tree, and all of them together hold the schemas.
LEMMA BatchTrees ==
  ASSUME NEW cs \in Seq(ACatalog), NEW batches \in Batches(cs)
  PROVE  \E trees \in Seq(Seq(ACatalog)) :
           /\ DOMAIN trees = DOMAIN batches
           /\ \A i \in DOMAIN batches : batches[i] = ObjectsArray(trees[i])
           /\ \A s : s \in SchemasIn(cs) <=> \E i \in DOMAIN batches : s \in SchemasIn(trees[i])
<1>1. DOMAIN cs = 1 .. Len(cs) /\ Len(cs) \in Nat /\ \A i \in DOMAIN cs : cs[i] \in ACatalog
  OBVIOUS
<1>2. ASSUME NEW trees \in Seq(Seq(ACatalog)),
             \A c : c \in ToSet(cs) <=> \E i \in DOMAIN trees : c \in ToSet(trees[i])
      PROVE  \A s : s \in SchemasIn(cs) <=> \E i \in DOMAIN trees : s \in SchemasIn(trees[i])
  BY <1>2 DEF SchemasIn
<1>3. CASE batches = <<ObjectsArray(cs)>>
  <2> DEFINE trees == <<cs>>
  <2>1. /\ trees \in Seq(Seq(ACatalog)) /\ DOMAIN trees = {1} /\ DOMAIN batches = {1}
        /\ trees[1] = cs /\ batches[1] = ObjectsArray(cs)
    BY <1>3
  <2> HIDE DEF trees
  <2>2. \A c : c \in ToSet(cs) <=> \E i \in DOMAIN trees : c \in ToSet(trees[i])
    BY <2>1
  <2>3. QED  BY <1>2, <2>1, <2>2
<1>4. CASE batches = [i \in 1 .. Len(cs) + 1 |->
                        ObjectsArray(IF i > Len(cs) THEN <<>> ELSE <<cs[i]>>)]
  <2> DEFINE trees == [i \in 1 .. Len(cs) + 1 |-> IF i > Len(cs) THEN <<>> ELSE <<cs[i]>>]
  <2>1. \A i \in 1 .. Len(cs) + 1 : trees[i] \in Seq(ACatalog)
    <3> SUFFICES ASSUME NEW i \in 1 .. Len(cs) + 1  PROVE trees[i] \in Seq(ACatalog)
      OBVIOUS
    <3>1. CASE i > Len(cs)
      BY <3>1, EmptySeq
    <3>2. CASE ~(i > Len(cs))
      <4>1. i \in DOMAIN cs /\ trees[i] = <<cs[i]>>
        BY <1>1, <3>2
      <4> DEFINE c == cs[i]
      <4>2. c \in ACatalog
        BY <1>1, <4>1
      <4> HIDE DEF c, trees
      <4>3. <<c>> \in Seq(ACatalog)
        BY <4>2
      <4>4. QED  BY <4>1, <4>3 DEF c
    <3>3. QED  BY <3>1, <3>2
  <2>2. /\ DOMAIN trees = 1 .. Len(cs) + 1 /\ DOMAIN batches = 1 .. Len(cs) + 1
        /\ \A i \in DOMAIN batches : batches[i] = ObjectsArray(trees[i])
    BY <1>4
  <2>3. trees \in Seq(Seq(ACatalog))
    BY <1>1, <2>1
  <2>4. \A i \in DOMAIN trees : ToSet(trees[i]) = IF i > Len(cs) THEN {} ELSE {cs[i]}
    BY DEF ToSet
  <2> HIDE DEF trees
  <2>5. \A c : c \in ToSet(cs) <=> \E i \in DOMAIN trees : c \in ToSet(trees[i])
    <3>1. \A c : c \in ToSet(cs) <=> \E i \in DOMAIN cs : c = cs[i]
      BY DEF ToSet
    <3>2. \A i \in DOMAIN cs : i \in DOMAIN trees /\ ToSet(trees[i]) = {cs[i]}
      BY <1>1, <2>2, <2>4
    <3>3. \A i \in DOMAIN trees : i \in DOMAIN cs \/ ToSet(trees[i]) = {}
      BY <1>1, <2>2, <2>4
    <3>4. ASSUME NEW c \in ToSet(cs)  PROVE \E i \in DOMAIN trees : c \in ToSet(trees[i])
      <4>1. PICK i \in DOMAIN cs : c = cs[i]
        BY <3>1
      <4>2. QED  BY <3>2, <4>1
    <3>5. ASSUME NEW i \in DOMAIN trees, NEW c \in ToSet(trees[i])  PROVE c \in ToSet(cs)
      <4>1. i \in DOMAIN cs /\ c = cs[i]
        BY <3>2, <3>3
      <4>2. QED  BY <3>1, <4>1
    <3>6. QED  BY <3>4, <3>5
  <2>6. QED  BY <1>2, <2>2, <2>3, <2>5
<1>5. QED  BY <1>3, <1>4 DEF Batches

LEMMA LoadedSchemaNames ==
  ASSUME NEW cs \in Seq(ACatalog), NEW batches \in Batches(cs)
  PROVE  {ExtractString(name) : name \in UNION {ToSet(b.schema_names) : b \in ToSet(batches)}}
           = {ExtractString(s.name) : s \in SchemasIn(cs)}
<1>1. PICK trees \in Seq(Seq(ACatalog)) :
        /\ DOMAIN trees = DOMAIN batches
        /\ \A i \in DOMAIN batches : batches[i] = ObjectsArray(trees[i])
        /\ \A s : s \in SchemasIn(cs) <=> \E i \in DOMAIN batches : s \in SchemasIn(trees[i])
  BY BatchTrees
<1> DEFINE found == UNION {ToSet(b.schema_names) : b \in ToSet(batches)}
<1>2. \A name : name \in found <=> \E i \in DOMAIN batches : name \in ToSet(batches[i].schema_names)
  <2>1. \A b : b \in ToSet(batches) <=> \E i \in DOMAIN batches : b = batches[i]
    BY DEF ToSet
  <2>2. QED  BY <2>1
<1> HIDE DEF found
<1>3. ASSUME NEW i \in DOMAIN batches, NEW name
      PROVE  name \in ToSet(batches[i].schema_names) <=> \E s \in SchemasIn(trees[i]) : name = s.name
  <2>1. trees[i] \in Seq(ACatalog) /\ batches[i] = ObjectsArray(trees[i])
    BY <1>1
  <2> DEFINE tree == trees[i]
  <2> HIDE DEF tree
  <2>2. name \in ToSet(ObjectsArray(tree).schema_names) <=> \E s \in SchemasIn(tree) : name = s.name
    BY <2>1, SchemaNamesOf DEF tree
  <2>3. QED  BY <2>1, <2>2 DEF tree
<1>4. \A name : name \in found <=> \E s \in SchemasIn(cs) : name = s.name
  <2>1. ASSUME NEW name \in found  PROVE \E s \in SchemasIn(cs) : name = s.name
    <3>1. PICK i \in DOMAIN batches : name \in ToSet(batches[i].schema_names)
      BY <1>2
    <3>2. PICK s \in SchemasIn(trees[i]) : name = s.name
      BY <1>3, <3>1
    <3>3. QED  BY <1>1, <3>2
  <2>2. ASSUME NEW s \in SchemasIn(cs)  PROVE s.name \in found
    <3>1. PICK i \in DOMAIN batches : s \in SchemasIn(trees[i])
      BY <1>1
    <3>2. s.name \in ToSet(batches[i].schema_names)
      BY <1>3, <3>1
    <3>3. QED  BY <1>2, <3>2
  <2>3. QED  BY <2>1, <2>2
<1>5. {ExtractString(name) : name \in found} = {ExtractString(s.name) : s \in SchemasIn(cs)}
  BY <1>4
<1>6. QED  BY <1>5 DEF found

\* The names of the tables of the schemas that belong to a name.
NamesIn(n) ==
  [p \in STRING \X STRING \X ATable |-> IF Belongs(ExtractString(p[2]), n) THEN <<p[3].name>> ELSE <<>>]

LEMMA TablesInSchemaWalks ==
  ASSUME NEW cs \in Seq(ACatalog), NEW schema
  PROVE  TablesInSchema(ObjectsArray(cs), schema) = Walk(cs, NamesIn(schema))
<1> DEFINE b == ObjectsArray(cs)
           S == b.schema_offsets
           T == b.table_offsets
           Rows(c, n) ==
             IF Belongs(ExtractString(b.schema_names[n]), schema)
             THEN Children(T, n, LAMBDA t : <<ExtractString(b.table_names[t])>>) ELSE <<>>
           X == [p \in Nat \X Nat |-> Rows(p[1], p[2])]
<1>1. /\ Len(b.catalog_names) = Len(cs) /\ Len(cs) \in Nat /\ DOMAIN cs = 1 .. Len(cs)
      /\ \A c \in DOMAIN cs : S[c] \in Nat
  BY ObjectsPlaces
<1>2. ASSUME NEW c \in DOMAIN cs, NEW s \in DOMAIN cs[c].schemas
      PROVE  Rows(c, S[c] + s) = OfSchema(cs[c].name, cs[c].schemas[s], NamesIn(schema))
  <2> DEFINE n == S[c] + s
             tables == cs[c].schemas[s].tables
             name == cs[c].schemas[s].name
  <2>1. /\ b.schema_names[n] = name
        /\ T[n] \in Nat /\ T[n + 1] - T[n] = Len(tables)
        /\ \A t \in DOMAIN tables : b.table_names[T[n] + t] = tables[t].name
    BY ObjectsPlaces
  <2>2. /\ cs[c].name \in STRING /\ name \in STRING
        /\ DOMAIN tables = 1 .. Len(tables) /\ Len(tables) \in Nat
        /\ \A t \in DOMAIN tables : tables[t] \in ATable
    BY TreeTypes
  <2>3. \A i \in DOMAIN tables :
          NamesIn(schema)[<<cs[c].name, name, tables[i]>>]
            = IF Belongs(ExtractString(name), schema) THEN <<tables[i].name>> ELSE <<>>
    BY <2>2 DEF NamesIn
  <2>4. \A i \in DOMAIN tables : ExtractString(b.table_names[T[n] + i]) = tables[i].name
    <3>1. \A i \in DOMAIN tables : tables[i].name # Null
      BY <2>2 DEF ATable
    <3>2. QED  BY <2>1, <3>1 DEF ExtractString
  <2>5. Children(T, n, LAMBDA t : <<ExtractString(b.table_names[t])>>)
          = FlattenSeq([i \in 1 .. T[n + 1] - T[n] |-> <<ExtractString(b.table_names[T[n] + i])>>])
    BY DEF Children, Collect
  <2>6. OfSchema(cs[c].name, cs[c].schemas[s], NamesIn(schema))
          = FlattenSeq([i \in DOMAIN tables |-> NamesIn(schema)[<<cs[c].name, name, tables[i]>>]])
    BY DEF OfSchema
  <2> HIDE DEF n, tables, T, name
  <2>7. CASE Belongs(ExtractString(name), schema)
    <3>1. [i \in 1 .. T[n + 1] - T[n] |-> <<ExtractString(b.table_names[T[n] + i])>>]
            = [i \in DOMAIN tables |-> NamesIn(schema)[<<cs[c].name, name, tables[i]>>]]
      BY <2>1, <2>2, <2>3, <2>4, <2>7
    <3>2. QED  BY <2>1, <2>5, <2>6, <2>7, <3>1 DEF n, T
  <2>8. CASE ~Belongs(ExtractString(name), schema)
    <3>1. [i \in DOMAIN tables |-> NamesIn(schema)[<<cs[c].name, name, tables[i]>>]]
            = [i \in 1 .. Len(tables) |-> <<>>]
      BY <2>2, <2>3, <2>8
    <3>2. FlattenSeq([i \in 1 .. Len(tables) |-> <<>>]) = <<>>
      BY <2>2, FlattenNothing
    <3>3. QED  BY <2>1, <2>6, <2>8, <3>1, <3>2 DEF n
  <2>9. QED  BY <2>7, <2>8
<1> HIDE DEF b, Rows
<1>3. ReadsSchemas(cs, b, X, NamesIn(schema))
  <2>1. ASSUME NEW c \in DOMAIN cs, NEW s \in DOMAIN cs[c].schemas
        PROVE  X[<<c, S[c] + s>>] = OfSchema(cs[c].name, cs[c].schemas[s], NamesIn(schema))
    <3>1. c \in Nat /\ S[c] + s \in Nat
      BY <1>1, TreeTypes
    <3>2. QED  BY <1>2, <3>1
  <2>2. QED  BY <2>1 DEF ReadsSchemas, b
<1>4. TablesInSchema(b, schema) = Collect(0, Len(b.catalog_names), LAMBDA c :
                                    Children(S, c, LAMBDA s : Rows(c, s)))
  BY DEF TablesInSchema, Rows
<1>5. Collect(0, Len(b.catalog_names), LAMBDA c : Children(S, c, LAMBDA s : Rows(c, s)))
        = Collect(0, Len(b.catalog_names), LAMBDA c : Children(S, c, LAMBDA s : X[<<c, s>>]))
  <2>1. ASSUME NEW i \in 1 .. Len(b.catalog_names) - 0
        PROVE  [j \in 1 .. S[(0 + i) + 1] - S[0 + i] |-> Rows(0 + i, S[0 + i] + j)]
                 = [j \in 1 .. S[(0 + i) + 1] - S[0 + i] |-> X[<<0 + i, S[0 + i] + j>>]]
    <3>1. 0 + i \in Nat /\ S[0 + i] \in Nat
      BY <1>1
    <3>2. QED  BY <3>1
  <2>2. QED  BY <2>1 DEF Collect, Children
<1>6. QED  BY <1>3, <1>4, <1>5, ReadSchemas DEF b

\* What is in a tree, by its elements.
LEMMA TreeElements ==
  ASSUME NEW cs \in Seq(ACatalog)
  PROVE  \A c \in ToSet(cs) :
           /\ c \in ACatalog /\ c.name \in STRING
           /\ \A s \in ToSet(c.schemas) :
                /\ s \in ASchema /\ s.name \in STRING
                /\ \A t \in ToSet(s.tables) : t \in ATable
<1>1. ASSUME NEW c \in ToSet(cs)  PROVE c \in ACatalog /\ c.name \in STRING /\ c.schemas \in Seq(ASchema)
  <2>1. c \in ACatalog
    BY DEF ToSet
  <2>2. QED  BY <2>1 DEF ACatalog
<1>2. ASSUME NEW c, c.schemas \in Seq(ASchema), NEW s \in ToSet(c.schemas)
      PROVE  s \in ASchema /\ s.name \in STRING /\ s.tables \in Seq(ATable)
  <2>1. s \in ASchema
    BY <1>2 DEF ToSet
  <2>2. QED  BY <2>1 DEF ASchema
<1>3. ASSUME NEW s, s.tables \in Seq(ATable), NEW t \in ToSet(s.tables)  PROVE t \in ATable
  BY <1>3 DEF ToSet
<1>4. QED  BY <1>1, <1>2, <1>3

NamedIn(cs, schema, e) ==
  \E s \in SchemasIn(cs) : \E t \in ToSet(s.tables) :
    Belongs(ExtractString(s.name), schema) /\ e = t.name

LEMMA NamesWalked ==
  ASSUME NEW cs \in Seq(ACatalog), NEW schema, NEW e
  PROVE  e \in ToSet(TablesInSchema(ObjectsArray(cs), schema)) <=> NamedIn(cs, schema, e)
<1> DEFINE g == NamesIn(schema)
           R == {t.name : t \in ATable}
<1>1. g \in Walker(R)
  <2>1. ASSUME NEW p \in STRING \X STRING \X ATable  PROVE g[p] \in Seq(R)
    <3> DEFINE name == p[3].name
    <3>1. name \in R
      OBVIOUS
    <3>2. g[p] = IF Belongs(ExtractString(p[2]), schema) THEN <<name>> ELSE <<>>
      BY DEF NamesIn
    <3> HIDE DEF g, name, R
    <3>3. <<name>> \in Seq(R)
      BY <3>1
    <3>4. <<>> \in Seq(R)
      BY EmptySeq
    <3>5. QED  BY <3>2, <3>3, <3>4
  <2>2. g = [p \in STRING \X STRING \X ATable |-> g[p]]
    BY DEF NamesIn
  <2> HIDE DEF g, R
  <2>3. QED  BY <2>1, <2>2 DEF Walker
<1>2. ASSUME NEW c \in ToSet(cs), NEW s \in ToSet(c.schemas), NEW t \in ToSet(s.tables)
      PROVE  e \in ToSet(g[<<c.name, s.name, t>>]) <=>
               Belongs(ExtractString(s.name), schema) /\ e = t.name
  <2>1. c.name \in STRING /\ s.name \in STRING /\ t \in ATable
    BY TreeElements
  <2>2. g[<<c.name, s.name, t>>]
          = IF Belongs(ExtractString(s.name), schema) THEN <<t.name>> ELSE <<>>
    BY <2>1 DEF NamesIn
  <2>3. ToSet(<<t.name>>) = {t.name} /\ ToSet(<<>>) = {}
    BY DEF ToSet
  <2> HIDE DEF g
  <2>4. QED  BY <2>2, <2>3
<1>3. TablesInSchema(ObjectsArray(cs), schema) = Walk(cs, g)
  BY TablesInSchemaWalks
<1> HIDE DEF g, R
<1>4. e \in ToSet(Walk(cs, g)) <=>
        \E c \in ToSet(cs) : \E s \in ToSet(c.schemas) : \E t \in ToSet(s.tables) :
          e \in ToSet(g[<<c.name, s.name, t>>])
  BY <1>1, WalkElements
<1>5. \A s : s \in SchemasIn(cs) <=> \E c \in ToSet(cs) : s \in ToSet(c.schemas)
  BY DEF SchemasIn
<1>6. ASSUME e \in ToSet(Walk(cs, g))
      PROVE  NamedIn(cs, schema, e)
  <2>1. PICK c \in ToSet(cs) : \E s \in ToSet(c.schemas) : \E t \in ToSet(s.tables) :
          e \in ToSet(g[<<c.name, s.name, t>>])
    BY <1>4, <1>6
  <2>2. PICK s \in ToSet(c.schemas) : \E t \in ToSet(s.tables) : e \in ToSet(g[<<c.name, s.name, t>>])
    BY <2>1
  <2>3. PICK t \in ToSet(s.tables) : e \in ToSet(g[<<c.name, s.name, t>>])
    BY <2>2
  <2>4. QED  BY <1>2, <1>5, <2>3 DEF NamedIn
<1>7. ASSUME NEW s \in SchemasIn(cs), NEW t \in ToSet(s.tables),
             Belongs(ExtractString(s.name), schema), e = t.name
      PROVE  e \in ToSet(Walk(cs, g))
  <2>1. PICK c \in ToSet(cs) : s \in ToSet(c.schemas)
    BY <1>5
  <2>2. QED  BY <1>2, <1>4, <1>7, <2>1
<1>8. QED  BY <1>3, <1>6, <1>7 DEF NamedIn

LEMMA LoadedTables ==
  ASSUME NEW cs \in Seq(ACatalog), NEW batches \in Batches(cs), NEW schema, NEW e
  PROVE  e \in LoadTables(batches, schema) <=> e # "" /\ NamedIn(cs, schema, e)
<1>1. PICK trees \in Seq(Seq(ACatalog)) :
        /\ DOMAIN trees = DOMAIN batches
        /\ \A i \in DOMAIN batches : batches[i] = ObjectsArray(trees[i])
        /\ \A s : s \in SchemasIn(cs) <=> \E i \in DOMAIN batches : s \in SchemasIn(trees[i])
  BY BatchTrees
<1>2. e \in LoadTables(batches, schema) <=>
        e # "" /\ \E i \in DOMAIN batches : e \in ToSet(TablesInSchema(batches[i], schema))
  <2> DEFINE found == UNION {ToSet(TablesInSchema(b, schema)) : b \in ToSet(batches)}
  <2>1. LoadTables(batches, schema) = found \ {""}
    BY DEF LoadTables
  <2>2. \A b : b \in ToSet(batches) <=> \E i \in DOMAIN batches : b = batches[i]
    BY DEF ToSet
  <2>3. e \in found <=> \E i \in DOMAIN batches : e \in ToSet(TablesInSchema(batches[i], schema))
    BY <2>2
  <2> HIDE DEF found
  <2>4. QED  BY <2>1, <2>3
<1>3. ASSUME NEW i \in DOMAIN batches
      PROVE  e \in ToSet(TablesInSchema(batches[i], schema)) <=> NamedIn(trees[i], schema, e)
  <2> DEFINE tree == trees[i]
  <2>1. tree \in Seq(ACatalog) /\ batches[i] = ObjectsArray(tree)
    BY <1>1
  <2> HIDE DEF tree
  <2>2. e \in ToSet(TablesInSchema(ObjectsArray(tree), schema)) <=> NamedIn(tree, schema, e)
    BY <2>1, NamesWalked
  <2>3. QED  BY <2>1, <2>2 DEF tree
<1>4. NamedIn(cs, schema, e) <=> \E i \in DOMAIN batches : NamedIn(trees[i], schema, e)
  BY <1>1 DEF NamedIn
<1>5. QED  BY <1>2, <1>3, <1>4

LEMMA ListedTables ==
  ASSUME NEW d, d.catalogs \in Seq(ACatalog), NEW r
  PROVE  r \in ToSet(TablesOf(d, Everything)) <=>
           \E c \in ToSet(d.catalogs) : \E s \in ToSet(c.schemas) : \E t \in ToSet(s.tables) :
             r = RowOfTable(c.name, s.name, t)
<1> DEFINE cs == d.catalogs
           g == RowsOfMatching(Everything)
           R == TableRowsOf
<1>1. \A p \in STRING \X STRING \X ATable : g[p] = <<RowOfTable(p[1], p[2], p[3])>>
  BY DEF RowsOfMatching, Everything, Matches
<1>2. g \in Walker(R)
  <2>1. ASSUME NEW p \in STRING \X STRING \X ATable  PROVE g[p] \in Seq(R)
    <3> DEFINE row == RowOfTable(p[1], p[2], p[3])
    <3>1. row \in R /\ g[p] = <<row>>
      BY <1>1 DEF TableRowsOf
    <3> HIDE DEF R, g, row
    <3>2. QED  BY <3>1
  <2>2. g = [p \in STRING \X STRING \X ATable |-> g[p]]
    BY DEF RowsOfMatching
  <2> HIDE DEF g, R
  <2>3. QED  BY <2>1, <2>2 DEF Walker
<1>3. TablesOf(d, Everything) = Walk(cs, g)
  BY TablesOfWalks
<1> HIDE DEF g, R
<1>4. r \in ToSet(Walk(cs, g)) <=>
        \E c \in ToSet(cs) : \E s \in ToSet(c.schemas) : \E t \in ToSet(s.tables) :
          r \in ToSet(g[<<c.name, s.name, t>>])
  <2> HIDE DEF cs
  <2>1. cs \in Seq(ACatalog)
    BY DEF cs
  <2>2. QED  BY <1>2, <2>1, WalkElements
<1>5. ASSUME NEW c \in ToSet(cs), NEW s \in ToSet(c.schemas), NEW t \in ToSet(s.tables)
      PROVE  r \in ToSet(g[<<c.name, s.name, t>>]) <=> r = RowOfTable(c.name, s.name, t)
  <2>1. c.name \in STRING /\ s.name \in STRING /\ t \in ATable
    BY TreeElements
  <2>2. g[<<c.name, s.name, t>>] = <<RowOfTable(c.name, s.name, t)>>
    BY <1>1, <2>1
  <2>3. ToSet(<<RowOfTable(c.name, s.name, t)>>) = {RowOfTable(c.name, s.name, t)}
    BY DEF ToSet
  <2>4. QED  BY <2>2, <2>3
<1>6. QED  BY <1>3, <1>4, <1>5

\* The tables of an attached database are those that adbc_tables lists, each
\* under its schema, for every tree and every way to cut it into batches.
LEMMA AttachedIsListed ==
  ASSUME NEW cs \in Seq(ACatalog), NEW batches \in Batches(cs),
         LET names == {Shown(s.name) : s \in SchemasIn(cs)}
         IN  Null \notin names \/ names \subseteq {Null, "main"},
         NEW n, NEW e
  PROVE  <<n, e>> \in Attached(batches) <=>
           \E s \in SchemasIn(cs) : \E t \in ToSet(s.tables) :
             /\ n = IF Shown(s.name) = Null THEN "main" ELSE Shown(s.name)
             /\ e = t.name /\ e # ""
<1> DEFINE found == {ExtractString(s.name) : s \in SchemasIn(cs)}
<1>1. LoadSchemas(batches) = IF found \subseteq {""} THEN {"main"} ELSE found \ {""}
  BY LoadedSchemaNames DEF LoadSchemas
<1>2. <<n, e>> \in Attached(batches) <=> n \in LoadSchemas(batches) /\ e \in LoadTables(batches, n)
  BY DEF Attached
<1>3. e \in LoadTables(batches, n) <=> e # "" /\ NamedIn(cs, n, e)
  BY LoadedTables
<1>4. CASE \A s \in SchemasIn(cs) : Shown(s.name) # Null
  <2>1. \A s \in SchemasIn(cs) :
          /\ s.name # "" /\ s.name # Null /\ Shown(s.name) = s.name /\ ExtractString(s.name) = s.name
          /\ \A m : Belongs(ExtractString(s.name), m) <=> s.name = m
    BY <1>4 DEF Shown, ExtractString, Belongs
  <2>2. "" \notin found
    BY <2>1
  <2>3. ASSUME NEW s \in SchemasIn(cs)
        PROVE  s.name \in LoadSchemas(batches)
    <3>1. s.name \in found
      BY <2>1
    <3>2. QED  BY <1>1, <2>1, <3>1
  <2>4. NamedIn(cs, n, e) <=>
          \E s \in SchemasIn(cs) : \E t \in ToSet(s.tables) : n = s.name /\ e = t.name
    BY <2>1 DEF NamedIn
  <2>5. QED  BY <1>2, <1>3, <2>1, <2>3, <2>4
<1>5. CASE \A s \in SchemasIn(cs) : Shown(s.name) \in {Null, "main"}
  <2>1. ASSUME NEW s \in SchemasIn(cs)
        PROVE  /\ ExtractString(s.name) \in {"", "main"} /\ Belongs(ExtractString(s.name), "main")
               /\ (IF Shown(s.name) = Null THEN "main" ELSE Shown(s.name)) = "main"
    BY <1>5 DEF Shown, ExtractString, Belongs, Null
  <2>2. found \subseteq {"", "main"}
    BY <2>1
  <2>3. LoadSchemas(batches) = {"main"}
    <3>1. CASE found \subseteq {""}
      BY <1>1, <3>1
    <3>2. CASE ~(found \subseteq {""})
      <4>1. "main" \in found /\ "main" # ""
        BY <2>2, <3>2
      <4>2. QED  BY <1>1, <2>2, <3>2, <4>1
    <3>3. QED  BY <3>1, <3>2
  <2>4. NamedIn(cs, "main", e) <=> \E s \in SchemasIn(cs) : \E t \in ToSet(s.tables) : e = t.name
    BY <2>1 DEF NamedIn
  <2>5. QED  BY <1>2, <1>3, <2>1, <2>3, <2>4
<1>6. QED  BY <1>4, <1>5

\* An attached database lists the tables that adbc_tables lists, each under its
\* own schema, those without a schema under main.
THEOREM AttachedSeesTheSameTheorem == Spec => []AttachedSeesTheSame
<1>1. TypeOK => AttachedSeesTheSame
  <2> SUFFICES ASSUME TypeOK  PROVE AttachedSeesTheSame
    OBVIOUS
  <2> DEFINE cs == remote.catalogs
             names == {Shown(s.name) : s \in SchemasIn(cs)}
             shown(r) == <<IF r.schema_name = Null THEN "main" ELSE r.schema_name, r.table_name>>
             rows_of == ToSet(TablesOf(remote, Everything))
             listed == {shown(r) : r \in {row \in rows_of : row.table_name # ""}}
  <2>1. cs \in Seq(ACatalog)
    BY FunctionsAssumption DEF TypeOK
  <2> SUFFICES ASSUME Null \notin names \/ names \subseteq {Null, "main"}, NEW batches \in Batches(cs)
               PROVE  Attached(batches) = listed
    BY DEF AttachedSeesTheSame, SchemasIn
  <2>2. \A n, e : <<n, e>> \in Attached(batches) <=>
          \E s \in SchemasIn(cs) : \E t \in ToSet(s.tables) :
            /\ n = IF Shown(s.name) = Null THEN "main" ELSE Shown(s.name)
            /\ e = t.name /\ e # ""
    BY <2>1, AttachedIsListed
  <2>3. \A r : r \in rows_of <=>
          \E c \in ToSet(cs) : \E s \in ToSet(c.schemas) : \E t \in ToSet(s.tables) :
            r = RowOfTable(c.name, s.name, t)
    BY <2>1, ListedTables
  <2>4. \A s : s \in SchemasIn(cs) <=> \E c \in ToSet(cs) : s \in ToSet(c.schemas)
    BY DEF SchemasIn
  <2>5. \A c, s, t : /\ RowOfTable(c, s, t).schema_name = Shown(s)
                     /\ RowOfTable(c, s, t).table_name = t.name
    BY DEF RowOfTable
  <2> HIDE DEF cs, rows_of
  <2>6. ASSUME NEW x \in Attached(batches)  PROVE x \in listed
    <3>1. PICK n, e : x = <<n, e>>
      BY DEF Attached
    <3>2. PICK s \in SchemasIn(cs) : \E t \in ToSet(s.tables) :
            /\ n = IF Shown(s.name) = Null THEN "main" ELSE Shown(s.name)
            /\ e = t.name /\ e # ""
      BY <2>2, <3>1
    <3>3. PICK t \in ToSet(s.tables) :
            /\ n = IF Shown(s.name) = Null THEN "main" ELSE Shown(s.name)
            /\ e = t.name /\ e # ""
      BY <3>2
    <3>4. PICK c \in ToSet(cs) : s \in ToSet(c.schemas)
      BY <2>4
    <3> DEFINE r == RowOfTable(c.name, s.name, t)
    <3>5. r \in rows_of /\ r.schema_name = Shown(s.name) /\ r.table_name = t.name
      BY <2>3, <2>5, <3>4
    <3> HIDE DEF r
    <3>6. x = shown(r)
      BY <3>1, <3>3, <3>5
    <3>7. QED  BY <3>3, <3>5, <3>6
  <2>7. ASSUME NEW x \in listed  PROVE x \in Attached(batches)
    <3>1. PICK r \in rows_of : r.table_name # "" /\ x = shown(r)
      OBVIOUS
    <3>2. PICK c \in ToSet(cs) : \E s \in ToSet(c.schemas) : \E t \in ToSet(s.tables) :
            r = RowOfTable(c.name, s.name, t)
      BY <2>3, <3>1
    <3>3. PICK s \in ToSet(c.schemas) : \E t \in ToSet(s.tables) : r = RowOfTable(c.name, s.name, t)
      BY <3>2
    <3>4. PICK t \in ToSet(s.tables) : r = RowOfTable(c.name, s.name, t)
      BY <3>3
    <3>5. s \in SchemasIn(cs)
      BY <2>4
    <3>6. r.schema_name = Shown(s.name) /\ r.table_name = t.name
      BY <3>4 DEF RowOfTable
    <3>7. QED  BY <2>2, <3>1, <3>5, <3>6
  <2>8. QED  BY <2>6, <2>7
<1>2. QED  BY <1>1, TypeCorrect, PTL

=============================================================================
