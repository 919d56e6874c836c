-------------------- MODULE FiltersAndStatistics_proofs ---------------------
(***************************************************************************)
(* Theorems about the filters that adbc_scan_table takes from the engine,  *)
(* and about the statistics that it gives to it.                           *)
(*                                                                         *)
(* FilterPushdown, for filters of any kind nested to any depth, over any   *)
(* columns, values and rows: the WHERE clause with its parameters selects  *)
(* the rows that the filters hold of.                                      *)
(*                                                                         *)
(* ColumnStatistics, for every set of columns and tables of any length:    *)
(* what the optimizer is told is never refuted by the table that the       *)
(* statistics are about.                                                   *)
(***************************************************************************)
EXTENDS ColumnStatistics, FilterPushdown, FiniteSetTheorems, SequenceTheorems,
        WellFoundedInduction, TLAPS

-----------------------------------------------------------------------------
(* Filters: functions defined by recursion over numbers.                   *)

\* Induction, for a set of numbers in place of a predicate.
LEMMA Induction ==
  ASSUME NEW S, 0 \in S, \A n \in Nat : n \in S => n + 1 \in S
  PROVE  Nat \subseteq S
<1>1. SUFFICES ASSUME Nat \ S # {}  PROVE FALSE
  OBVIOUS
<1>2. PICK x \in Nat \ S : \A y \in Nat \ S : ~(<<y, x>> \in OpToRel(<, Nat))
  <2>1. Nat \ S \subseteq Nat
    OBVIOUS
  <2>2. QED  BY ONLY <1>1, <2>1, NatLessThanWellFounded, WFMin
<1>3. x # 0 /\ x - 1 \in Nat /\ x - 1 < x
  OBVIOUS
<1>4. x - 1 \notin S
  <2>1. x - 1 \in S => (x - 1) + 1 \in S
    BY <1>3
  <2>2. (x - 1) + 1 = x
    OBVIOUS
  <2>3. QED  BY <2>1, <2>2
<1>5. <<x - 1, x>> \in OpToRel(<, Nat)
  BY <1>3, Zenon DEF OpToRel
<1>6. QED  BY <1>2, <1>3, <1>4, <1>5, Zenon

\* Static, as far as a depth.
StaticTo(n, f) ==
  f = [i \in 0 .. n |-> IF i = 0 THEN Simple ELSE Simple \cup Compound(f[i - 1], f[i - 1])]

LEMMA StaticExists ==
  ASSUME NEW n \in Nat
  PROVE  \E f : StaticTo(n, f)
<1> DEFINE After(f, i) == IF i = 0 THEN Simple ELSE Simple \cup Compound(f[i - 1], f[i - 1])
           S == {m \in Nat : \E f : StaticTo(m, f)}
<1>1. 0 \in S
  <2> DEFINE f == [i \in 0 .. 0 |-> After(<<>>, 0)]
  <2>1. \A i \in 0 .. 0 : After(f, i) = After(<<>>, 0)
    OBVIOUS
  <2>2. f = [i \in 0 .. 0 |-> After(f, i)]
    BY <2>1
  <2>3. StaticTo(0, f)
    BY <2>2 DEF StaticTo
  <2> HIDE DEF f
  <2>4. QED  BY <2>3
<1>2. ASSUME NEW m \in Nat, m \in S  PROVE m + 1 \in S
  <2>1. PICK f : StaticTo(m, f)
    BY <1>2
  <2> DEFINE g == [i \in 0 .. m + 1 |-> IF i = m + 1 THEN After(f, i) ELSE f[i]]
  <2>2. ASSUME NEW i \in 0 .. m + 1  PROVE g[i] = After(g, i)
    <3>1. CASE i = m + 1
      <4>1. g[i] = After(f, i) /\ i # 0
        BY <3>1
      <4>2. g[i - 1] = f[i - 1]
        BY <3>1
      <4>3. QED  BY <4>1, <4>2
    <3>2. CASE i \in 0 .. m
      <4>1. g[i] = f[i] /\ f[i] = After(f, i)
        BY <2>1, <3>2 DEF StaticTo
      <4>2. i # 0 => g[i - 1] = f[i - 1]
        BY <3>2
      <4>3. QED  BY <4>1, <4>2
    <3>3. QED  BY <3>1, <3>2
  <2>3. g = [i \in 0 .. m + 1 |-> After(g, i)]
    BY <2>2
  <2>4. StaticTo(m + 1, g)
    BY <2>3 DEF StaticTo
  <2> HIDE DEF g
  <2>5. m + 1 \in Nat
    OBVIOUS
  <2>6. QED  BY <2>4, <2>5
<1> HIDE DEF S
<1>3. Nat \subseteq S
  BY <1>1, <1>2, Induction
<1>4. QED  BY <1>3 DEF S

\* FilterTree, as far as a depth.
TreeTo(n, f) ==
  f = [i \in 0 .. n |-> Simple \cup [filter_type : {"DYNAMIC_FILTER"}]
                   \cup IF i = 0 THEN {} ELSE Compound(f[i - 1], Static[i - 1])]

LEMMA TreeExists ==
  ASSUME NEW n \in Nat
  PROVE  \E f : TreeTo(n, f)
<1> DEFINE After(f, i) == Simple \cup [filter_type : {"DYNAMIC_FILTER"}]
                   \cup IF i = 0 THEN {} ELSE Compound(f[i - 1], Static[i - 1])
           S == {m \in Nat : \E f : TreeTo(m, f)}
<1>1. 0 \in S
  <2> DEFINE f == [i \in 0 .. 0 |-> After(<<>>, 0)]
  <2>1. \A i \in 0 .. 0 : After(f, i) = After(<<>>, 0)
    OBVIOUS
  <2>2. f = [i \in 0 .. 0 |-> After(f, i)]
    BY <2>1
  <2>3. TreeTo(0, f)
    BY <2>2 DEF TreeTo
  <2> HIDE DEF f
  <2>4. QED  BY <2>3
<1>2. ASSUME NEW m \in Nat, m \in S  PROVE m + 1 \in S
  <2>1. PICK f : TreeTo(m, f)
    BY <1>2
  <2> DEFINE g == [i \in 0 .. m + 1 |-> IF i = m + 1 THEN After(f, i) ELSE f[i]]
  <2>2. ASSUME NEW i \in 0 .. m + 1  PROVE g[i] = After(g, i)
    <3>1. CASE i = m + 1
      <4>1. g[i] = After(f, i) /\ i # 0
        BY <3>1
      <4>2. g[i - 1] = f[i - 1]
        BY <3>1
      <4>3. QED  BY <4>1, <4>2
    <3>2. CASE i \in 0 .. m
      <4>1. g[i] = f[i] /\ f[i] = After(f, i)
        BY <2>1, <3>2 DEF TreeTo
      <4>2. i # 0 => g[i - 1] = f[i - 1]
        BY <3>2
      <4>3. QED  BY <4>1, <4>2
    <3>3. QED  BY <3>1, <3>2
  <2>3. g = [i \in 0 .. m + 1 |-> After(g, i)]
    BY <2>2
  <2>4. TreeTo(m + 1, g)
    BY <2>3 DEF TreeTo
  <2> HIDE DEF g
  <2>5. m + 1 \in Nat
    OBVIOUS
  <2>6. QED  BY <2>4, <2>5
<1> HIDE DEF S
<1>3. Nat \subseteq S
  BY <1>1, <1>2, Induction
<1>4. QED  BY <1>3 DEF S

\* Transformed, as far as a depth.
TransformedTo(n, f) ==
  f = [i \in 0 .. n |-> [x \in Filtered(i) |->
                   TransformFilter(x[1], x[2], IF i = 0 THEN <<>> ELSE f[i - 1])]]

LEMMA TransformedExists ==
  ASSUME NEW n \in Nat
  PROVE  \E f : TransformedTo(n, f)
<1> DEFINE After(f, i) == [x \in Filtered(i) |->
                   TransformFilter(x[1], x[2], IF i = 0 THEN <<>> ELSE f[i - 1])]
           S == {m \in Nat : \E f : TransformedTo(m, f)}
<1>1. 0 \in S
  <2> DEFINE f == [i \in 0 .. 0 |-> After(<<>>, 0)]
  <2>1. \A i \in 0 .. 0 : After(f, i) = After(<<>>, 0)
    OBVIOUS
  <2>2. f = [i \in 0 .. 0 |-> After(f, i)]
    BY <2>1
  <2>3. TransformedTo(0, f)
    BY <2>2 DEF TransformedTo
  <2> HIDE DEF f
  <2>4. QED  BY <2>3
<1>2. ASSUME NEW m \in Nat, m \in S  PROVE m + 1 \in S
  <2>1. PICK f : TransformedTo(m, f)
    BY <1>2
  <2> DEFINE g == [i \in 0 .. m + 1 |-> IF i = m + 1 THEN After(f, i) ELSE f[i]]
  <2>2. ASSUME NEW i \in 0 .. m + 1  PROVE g[i] = After(g, i)
    <3>1. CASE i = m + 1
      <4>1. g[i] = After(f, i) /\ i # 0
        BY <3>1
      <4>2. g[i - 1] = f[i - 1]
        BY <3>1
      <4>3. QED  BY <4>1, <4>2
    <3>2. CASE i \in 0 .. m
      <4>1. g[i] = f[i] /\ f[i] = After(f, i)
        BY <2>1, <3>2 DEF TransformedTo
      <4>2. i # 0 => g[i - 1] = f[i - 1]
        BY <3>2
      <4>3. QED  BY <4>1, <4>2
    <3>3. QED  BY <3>1, <3>2
  <2>3. g = [i \in 0 .. m + 1 |-> After(g, i)]
    BY <2>2
  <2>4. TransformedTo(m + 1, g)
    BY <2>3 DEF TransformedTo
  <2> HIDE DEF g
  <2>5. m + 1 \in Nat
    OBVIOUS
  <2>6. QED  BY <2>4, <2>5
<1> HIDE DEF S
<1>3. Nat \subseteq S
  BY <1>1, <1>2, Induction
<1>4. QED  BY <1>3 DEF S

\* Holding, as far as a depth.
HoldingTo(n, f) ==
  f = [i \in 0 .. n |-> [x \in Filtered(i) |->
                   FilterHolds(x[1], x[2], IF i = 0 THEN <<>> ELSE f[i - 1])]]

LEMMA HoldingExists ==
  ASSUME NEW n \in Nat
  PROVE  \E f : HoldingTo(n, f)
<1> DEFINE After(f, i) == [x \in Filtered(i) |->
                   FilterHolds(x[1], x[2], IF i = 0 THEN <<>> ELSE f[i - 1])]
           S == {m \in Nat : \E f : HoldingTo(m, f)}
<1>1. 0 \in S
  <2> DEFINE f == [i \in 0 .. 0 |-> After(<<>>, 0)]
  <2>1. \A i \in 0 .. 0 : After(f, i) = After(<<>>, 0)
    OBVIOUS
  <2>2. f = [i \in 0 .. 0 |-> After(f, i)]
    BY <2>1
  <2>3. HoldingTo(0, f)
    BY <2>2 DEF HoldingTo
  <2> HIDE DEF f
  <2>4. QED  BY <2>3
<1>2. ASSUME NEW m \in Nat, m \in S  PROVE m + 1 \in S
  <2>1. PICK f : HoldingTo(m, f)
    BY <1>2
  <2> DEFINE g == [i \in 0 .. m + 1 |-> IF i = m + 1 THEN After(f, i) ELSE f[i]]
  <2>2. ASSUME NEW i \in 0 .. m + 1  PROVE g[i] = After(g, i)
    <3>1. CASE i = m + 1
      <4>1. g[i] = After(f, i) /\ i # 0
        BY <3>1
      <4>2. g[i - 1] = f[i - 1]
        BY <3>1
      <4>3. QED  BY <4>1, <4>2
    <3>2. CASE i \in 0 .. m
      <4>1. g[i] = f[i] /\ f[i] = After(f, i)
        BY <2>1, <3>2 DEF HoldingTo
      <4>2. i # 0 => g[i - 1] = f[i - 1]
        BY <3>2
      <4>3. QED  BY <4>1, <4>2
    <3>3. QED  BY <3>1, <3>2
  <2>3. g = [i \in 0 .. m + 1 |-> After(g, i)]
    BY <2>2
  <2>4. HoldingTo(m + 1, g)
    BY <2>3 DEF HoldingTo
  <2> HIDE DEF g
  <2>5. m + 1 \in Nat
    OBVIOUS
  <2>6. QED  BY <2>4, <2>5
<1> HIDE DEF S
<1>3. Nat \subseteq S
  BY <1>1, <1>2, Induction
<1>4. QED  BY <1>3 DEF S

\* The places after so many tokens.
ReadTo(text, ps, start, n, f) ==
  f = [i \in 0 .. n |-> IF i = 0 THEN start ELSE Read(f[i - 1], text[i], ps)]

LEMMA ReadingExists ==
  ASSUME NEW text, NEW ps, NEW start, NEW n \in Nat
  PROVE  \E f : ReadTo(text, ps, start, n, f)
<1> DEFINE After(f, i) == IF i = 0 THEN start ELSE Read(f[i - 1], text[i], ps)
           S == {m \in Nat : \E f : ReadTo(text, ps, start, m, f)}
<1>1. 0 \in S
  <2> DEFINE f == [i \in 0 .. 0 |-> After(<<>>, 0)]
  <2>1. \A i \in 0 .. 0 : After(f, i) = After(<<>>, 0)
    OBVIOUS
  <2>2. f = [i \in 0 .. 0 |-> After(f, i)]
    BY <2>1
  <2>3. ReadTo(text, ps, start, 0, f)
    BY <2>2 DEF ReadTo
  <2> HIDE DEF f
  <2>4. QED  BY <2>3
<1>2. ASSUME NEW m \in Nat, m \in S  PROVE m + 1 \in S
  <2>1. PICK f : ReadTo(text, ps, start, m, f)
    BY <1>2
  <2> DEFINE g == [i \in 0 .. m + 1 |-> IF i = m + 1 THEN After(f, i) ELSE f[i]]
  <2>2. ASSUME NEW i \in 0 .. m + 1  PROVE g[i] = After(g, i)
    <3>1. CASE i = m + 1
      <4>1. g[i] = After(f, i) /\ i # 0
        BY <3>1
      <4>2. g[i - 1] = f[i - 1]
        BY <3>1
      <4>3. QED  BY <4>1, <4>2
    <3>2. CASE i \in 0 .. m
      <4>1. g[i] = f[i] /\ f[i] = After(f, i)
        BY <2>1, <3>2 DEF ReadTo
      <4>2. i # 0 => g[i - 1] = f[i - 1]
        BY <3>2
      <4>3. QED  BY <4>1, <4>2
    <3>3. QED  BY <3>1, <3>2
  <2>3. g = [i \in 0 .. m + 1 |-> After(g, i)]
    BY <2>2
  <2>4. ReadTo(text, ps, start, m + 1, g)
    BY <2>3 DEF ReadTo
  <2> HIDE DEF g
  <2>5. m + 1 \in Nat
    OBVIOUS
  <2>6. QED  BY <2>4, <2>5
<1> HIDE DEF S
<1>3. Nat \subseteq S
  BY <1>1, <1>2, Induction
<1>4. QED  BY <1>3 DEF S

\* The results for so many child filters.
EntriesTo(children, op, n, f) ==
  f = [i \in 0 .. n |-> IF i = 0 THEN Result(<<>>, <<>>)
                   ELSE Result(Joined(f[i - 1].text, op, children[i].text),
                               f[i - 1].params \o children[i].params)]

LEMMA EntriesExists ==
  ASSUME NEW children, NEW op, NEW n \in Nat
  PROVE  \E f : EntriesTo(children, op, n, f)
<1> DEFINE After(f, i) == IF i = 0 THEN Result(<<>>, <<>>)
                   ELSE Result(Joined(f[i - 1].text, op, children[i].text),
                               f[i - 1].params \o children[i].params)
           S == {m \in Nat : \E f : EntriesTo(children, op, m, f)}
<1>1. 0 \in S
  <2> DEFINE f == [i \in 0 .. 0 |-> After(<<>>, 0)]
  <2>1. \A i \in 0 .. 0 : After(f, i) = After(<<>>, 0)
    OBVIOUS
  <2>2. f = [i \in 0 .. 0 |-> After(f, i)]
    BY <2>1
  <2>3. EntriesTo(children, op, 0, f)
    BY <2>2 DEF EntriesTo
  <2> HIDE DEF f
  <2>4. QED  BY <2>3
<1>2. ASSUME NEW m \in Nat, m \in S  PROVE m + 1 \in S
  <2>1. PICK f : EntriesTo(children, op, m, f)
    BY <1>2
  <2> DEFINE g == [i \in 0 .. m + 1 |-> IF i = m + 1 THEN After(f, i) ELSE f[i]]
  <2>2. ASSUME NEW i \in 0 .. m + 1  PROVE g[i] = After(g, i)
    <3>1. CASE i = m + 1
      <4>1. g[i] = After(f, i) /\ i # 0
        BY <3>1
      <4>2. g[i - 1] = f[i - 1]
        BY <3>1
      <4>3. QED  BY <4>1, <4>2
    <3>2. CASE i \in 0 .. m
      <4>1. g[i] = f[i] /\ f[i] = After(f, i)
        BY <2>1, <3>2 DEF EntriesTo
      <4>2. i # 0 => g[i - 1] = f[i - 1]
        BY <3>2
      <4>3. QED  BY <4>1, <4>2
    <3>3. QED  BY <3>1, <3>2
  <2>3. g = [i \in 0 .. m + 1 |-> After(g, i)]
    BY <2>2
  <2>4. EntriesTo(children, op, m + 1, g)
    BY <2>3 DEF EntriesTo
  <2> HIDE DEF g
  <2>5. m + 1 \in Nat
    OBVIOUS
  <2>6. QED  BY <2>4, <2>5
<1> HIDE DEF S
<1>3. Nat \subseteq S
  BY <1>1, <1>2, Induction
<1>4. QED  BY <1>3 DEF S

-----------------------------------------------------------------------------
(* The recursive functions, by their equations.                            *)

LEMMA StaticIs ==
  \A n \in 0 .. Depth :
    Static[n] = IF n = 0 THEN Simple ELSE Simple \cup Compound(Static[n - 1], Static[n - 1])
<1>1. StaticTo(Depth, CHOOSE f : StaticTo(Depth, f))
  BY StaticExists, FilterAssumption, Zenon
<1>2. Static = CHOOSE f : StaticTo(Depth, f)
  BY Zenon DEF Static, StaticTo
<1>3. StaticTo(Depth, Static)
  BY <1>1, <1>2
<1>4. QED  BY <1>3, Zenon DEF StaticTo

LEMMA TreeIs ==
  \A n \in 0 .. Depth :
    FilterTree[n] = Simple \cup [filter_type : {"DYNAMIC_FILTER"}]
                      \cup IF n = 0 THEN {} ELSE Compound(FilterTree[n - 1], Static[n - 1])
<1>1. TreeTo(Depth, CHOOSE f : TreeTo(Depth, f))
  BY TreeExists, FilterAssumption, Zenon
<1>2. FilterTree = CHOOSE f : TreeTo(Depth, f)
  BY Zenon DEF FilterTree, TreeTo
<1>3. TreeTo(Depth, FilterTree)
  BY <1>1, <1>2
<1>4. QED  BY <1>3, Zenon DEF TreeTo

LEMMA TransformedIs ==
  \A n \in 0 .. Depth : \A x \in Filtered(n) :
    Transformed[n][x] =
      TransformFilter(x[1], x[2], IF n = 0 THEN <<>> ELSE Transformed[n - 1])
<1>1. TransformedTo(Depth, CHOOSE f : TransformedTo(Depth, f))
  BY TransformedExists, FilterAssumption, Zenon
<1>2. Transformed = CHOOSE f : TransformedTo(Depth, f)
  BY Zenon DEF Transformed, TransformedTo
<1>3. TransformedTo(Depth, Transformed)
  BY <1>1, <1>2
<1>4. \A n \in 0 .. Depth :
        Transformed[n] = [x \in Filtered(n) |->
                    TransformFilter(x[1], x[2], IF n = 0 THEN <<>> ELSE Transformed[n - 1])]
  BY <1>3, Zenon DEF TransformedTo
<1>5. ASSUME NEW n \in 0 .. Depth, NEW x \in Filtered(n)
      PROVE  Transformed[n][x] = TransformFilter(x[1], x[2], IF n = 0 THEN <<>> ELSE Transformed[n - 1])
  <2> DEFINE G(y) == TransformFilter(y[1], y[2], IF n = 0 THEN <<>> ELSE Transformed[n - 1])
  <2>1. Transformed[n] = [y \in Filtered(n) |-> G(y)]
    BY <1>4
  <2> HIDE DEF G
  <2>2. Transformed[n][x] = G(x)
    BY <2>1
  <2>3. QED  BY <2>2 DEF G
<1>6. QED  BY <1>5

LEMMA HoldingIs ==
  \A n \in 0 .. Depth : \A x \in Filtered(n) :
    Holding[n][x] = FilterHolds(x[1], x[2], IF n = 0 THEN <<>> ELSE Holding[n - 1])
<1>1. HoldingTo(Depth, CHOOSE f : HoldingTo(Depth, f))
  BY HoldingExists, FilterAssumption, Zenon
<1>2. Holding = CHOOSE f : HoldingTo(Depth, f)
  BY Zenon DEF Holding, HoldingTo
<1>3. HoldingTo(Depth, Holding)
  BY <1>1, <1>2
<1>4. \A n \in 0 .. Depth :
        Holding[n] = [x \in Filtered(n) |->
                    FilterHolds(x[1], x[2], IF n = 0 THEN <<>> ELSE Holding[n - 1])]
  BY <1>3, Zenon DEF HoldingTo
<1>5. ASSUME NEW n \in 0 .. Depth, NEW x \in Filtered(n)
      PROVE  Holding[n][x] = FilterHolds(x[1], x[2], IF n = 0 THEN <<>> ELSE Holding[n - 1])
  <2> DEFINE G(y) == FilterHolds(y[1], y[2], IF n = 0 THEN <<>> ELSE Holding[n - 1])
  <2>1. Holding[n] = [y \in Filtered(n) |-> G(y)]
    BY <1>4
  <2> HIDE DEF G
  <2>2. Holding[n][x] = G(x)
    BY <2>1
  <2>3. QED  BY <2>2 DEF G
<1>6. QED  BY <1>5

\* The places a text is read through.
ReadThrough(f, text, ps, start) ==
  /\ f[0] = start /\ Reading(text, ps, start) = f[Len(text)]
  /\ \A i \in 1 .. Len(text) : f[i] = Read(f[i - 1], text[i], ps)

LEMMA ReadingSteps ==
  ASSUME NEW text, Len(text) \in Nat, NEW ps, NEW start
  PROVE  \E f : ReadThrough(f, text, ps, start)
<1> DEFINE f == CHOOSE g : ReadTo(text, ps, start, Len(text), g)
<1>1. ReadTo(text, ps, start, Len(text), f)
  BY ReadingExists, Zenon
<1>2. Reading(text, ps, start) = f[Len(text)]
  BY Zenon DEF Reading, ReadTo
<1> HIDE DEF f
<1>3. \A i \in 0 .. Len(text) : f[i] = IF i = 0 THEN start ELSE Read(f[i - 1], text[i], ps)
  BY <1>1, Zenon DEF ReadTo
<1>4. f[0] = start
  BY <1>3
<1>5. \A i \in 1 .. Len(text) : f[i] = Read(f[i - 1], text[i], ps)
  BY <1>3
<1>6. ReadThrough(f, text, ps, start)
  BY <1>2, <1>4, <1>5 DEF ReadThrough
<1>7. QED  BY <1>6

LEMMA ReadingNothing ==
  ASSUME NEW ps, NEW start
  PROVE  Reading(<<>>, ps, start) = start
<1>1. Len(<<>>) = 0
  OBVIOUS
<1>2. PICK f : ReadThrough(f, <<>>, ps, start)
  BY <1>1, ReadingSteps
<1>3. QED  BY <1>1, <1>2 DEF ReadThrough

LEMMA ReadingToken ==
  ASSUME NEW token, NEW ps, NEW start
  PROVE  Reading(<<token>>, ps, start) = Read(start, token, ps)
<1> DEFINE text == <<token>>
<1>1. Len(text) = 1 /\ text[1] = token
  OBVIOUS
<1> HIDE DEF text
<1>2. PICK f : ReadThrough(f, text, ps, start)
  BY <1>1, ReadingSteps
<1>3. f[1] = Read(f[0], text[1], ps)
  BY <1>1, <1>2 DEF ReadThrough
<1>4. Reading(text, ps, start) = Read(start, token, ps)
  BY <1>1, <1>2, <1>3 DEF ReadThrough
<1>5. QED  BY <1>4 DEF text, ReadThrough

\* The tokens of a text.
Token ==
  [kind : {"AND", "OR", "(", ")"}]
    \cup [kind : {"IS_NULL", "IS_NOT_NULL"}, column : Seq(Identifier)]
    \cup [kind : {"?"}, column : Seq(Identifier),
          op : {Comparison[c] : c \in DOMAIN Comparison}]
    \cup [kind : {"IN"}, column : Seq(Identifier), size : Nat]

\* A text is read on from where the one before it was read to.
LEMMA ReadingOn ==
  ASSUME NEW t \in Seq(Token), NEW u \in Seq(Token), NEW ps, NEW start
  PROVE  Reading(t \o u, ps, start) = Reading(u, ps, Reading(t, ps, start))
<1> DEFINE v == t \o u
<1>1. /\ Len(t) \in Nat /\ Len(u) \in Nat /\ Len(v) = Len(t) + Len(u)
      /\ \A i \in 1 .. Len(t) : v[i] = t[i]
      /\ \A i \in 1 .. Len(u) : v[Len(t) + i] = u[i]
  BY ConcatProperties
<1>a. Len(v) \in Nat /\ Len(t) \in Nat /\ Len(u) \in Nat
  BY <1>1
<1> HIDE DEF v
<1>2. PICK f : ReadThrough(f, v, ps, start)
  BY <1>a, ReadingSteps
<1>3. PICK g : ReadThrough(g, t, ps, start)
  BY <1>a, ReadingSteps
<1> DEFINE middle == Reading(t, ps, start)
<1> HIDE DEF middle
<1>4. PICK h : ReadThrough(h, u, ps, middle)
  BY <1>a, ReadingSteps
<1>5. f[Len(t)] = g[Len(t)]
  <2> DEFINE S == {n \in Nat : n <= Len(t) => f[n] = g[n]}
  <2>1. 0 \in S
    BY <1>2, <1>3 DEF ReadThrough
  <2>2. ASSUME NEW n \in Nat, n \in S  PROVE n + 1 \in S
    <3>1. SUFFICES ASSUME n + 1 <= Len(t)  PROVE f[n + 1] = g[n + 1]
      OBVIOUS
    <3>2. /\ n + 1 \in 1 .. Len(t) /\ n + 1 \in 1 .. Len(v) /\ (n + 1) - 1 = n
          /\ f[n] = g[n]
      BY <1>1, <2>2, <3>1
    <3>3. f[n + 1] = Read(f[n], v[n + 1], ps) /\ g[n + 1] = Read(g[n], t[n + 1], ps)
      BY <1>2, <1>3, <3>2 DEF ReadThrough
    <3>4. QED  BY <1>1, <3>2, <3>3
  <2> HIDE DEF S
  <2>3. Nat \subseteq S
    BY <2>1, <2>2, Induction
  <2>4. QED  BY <1>1, <2>3 DEF S
<1>6. f[Len(t) + Len(u)] = h[Len(u)]
  <2> DEFINE S == {n \in Nat : n <= Len(u) => f[Len(t) + n] = h[n]}
  <2>1. 0 \in S
    BY <1>1, <1>3, <1>4, <1>5 DEF middle, ReadThrough
  <2>2. ASSUME NEW n \in Nat, n \in S  PROVE n + 1 \in S
    <3>1. SUFFICES ASSUME n + 1 <= Len(u)  PROVE f[Len(t) + (n + 1)] = h[n + 1]
      OBVIOUS
    <3> DEFINE k == Len(t) + (n + 1)
    <3>a. n + 1 \in 1 .. Len(u) /\ k \in 1 .. Len(v) /\ (n + 1) - 1 = n /\ k - 1 = Len(t) + n
      BY <1>1, <3>1
    <3>b. v[k] = u[n + 1]
      BY <1>1, <3>a, Zenon
    <3>c. f[Len(t) + n] = h[n]
      BY <1>1, <2>2, <3>1
    <3>2. /\ n + 1 \in 1 .. Len(u) /\ k \in 1 .. Len(v) /\ (n + 1) - 1 = n
          /\ k - 1 = Len(t) + n /\ f[Len(t) + n] = h[n] /\ v[k] = u[n + 1]
      BY <3>a, <3>b, <3>c
    <3> HIDE DEF k
    <3>3. f[k] = Read(f[k - 1], v[k], ps) /\ h[n + 1] = Read(h[n], u[n + 1], ps)
      BY <1>2, <1>4, <3>2 DEF ReadThrough
    <3>4. f[k] = h[n + 1]
      BY <3>2, <3>3
    <3>5. QED  BY <3>4 DEF k
  <2> HIDE DEF S
  <2>3. Nat \subseteq S
    BY <2>1, <2>2, Induction
  <2>4. QED  BY <1>1, <2>3 DEF S
<1>7. Reading(v, ps, start) = Reading(u, ps, middle)
  BY <1>1, <1>2, <1>4, <1>6 DEF ReadThrough
<1>8. QED  BY <1>7 DEF v, middle

\* The results for the child filters up to each of them.
ResultsThrough(f, children, op) ==
  /\ f[0] = Result(<<>>, <<>>)
  /\ CreateExpression(children, op) =
       Result(Parenthesized(f[Len(children)].text), f[Len(children)].params)
  /\ \A i \in 1 .. Len(children) :
       f[i] = Result(Joined(f[i - 1].text, op, children[i].text),
                     f[i - 1].params \o children[i].params)

LEMMA EntriesSteps ==
  ASSUME NEW children, Len(children) \in Nat, NEW op,
         \A i \in DOMAIN children : children[i] # Throws
  PROVE  \E f : ResultsThrough(f, children, op)
<1> DEFINE f == CHOOSE g : EntriesTo(children, op, Len(children), g)
<1>1. EntriesTo(children, op, Len(children), f)
  BY EntriesExists, Zenon
<1>2. CreateExpression(children, op) =
        IF \E i \in DOMAIN children : children[i] = Throws THEN Throws
        ELSE Result(Parenthesized(f[Len(children)].text), f[Len(children)].params)
  BY Zenon DEF CreateExpression, EntriesTo
<1> HIDE DEF f
<1>3. \A i \in 0 .. Len(children) :
        f[i] = IF i = 0 THEN Result(<<>>, <<>>)
               ELSE Result(Joined(f[i - 1].text, op, children[i].text),
                           f[i - 1].params \o children[i].params)
  BY <1>1, Zenon DEF EntriesTo
<1>4. f[0] = Result(<<>>, <<>>)
  BY <1>3
<1>5. \A i \in 1 .. Len(children) :
        f[i] = Result(Joined(f[i - 1].text, op, children[i].text),
                      f[i - 1].params \o children[i].params)
  BY <1>3
<1>6. ResultsThrough(f, children, op)
  BY <1>2, <1>4, <1>5 DEF ResultsThrough
<1>7. QED  BY <1>6

-----------------------------------------------------------------------------
(* What a text and its parameters mean, wherever they stand in a longer    *)
(* one.                                                                    *)

\* The parameters stand in ps from a place on.
Fits(ps, at, more) == \A j \in 1 .. Len(more) : ps[at + j - 1] = more[j]

\* Reading the text takes its parameters and leaves those of the rows.
MeansAt(text, more, rows, any, all, outer, at, ps) ==
  all \in SUBSET Row /\ at \in Nat /\ Fits(ps, at, more) =>
    Reading(text, ps, Place(any, all, outer, at))
      = Place(any, all \cap rows, outer, at + Len(more))

Means(text, more, rows) ==
  \A any, all, outer, at, ps : MeansAt(text, more, rows, any, all, outer, at, ps)

\* Reading the text as the whole of an alternative adds the rows.
OffersAt(text, more, rows, any, outer, at, ps) ==
  at \in Nat /\ Fits(ps, at, more) =>
    \E a, b : /\ b \in SUBSET Row /\ a \cup b = any \cup rows
              /\ Reading(text, ps, Place(any, Row, outer, at))
                   = Place(a, b, outer, at + Len(more))

Offers(text, more, rows) ==
  \A any, outer, at, ps : OffersAt(text, more, rows, any, outer, at, ps)

IsText(r) == r.text \in Seq(Token) /\ r.params \in Seq(Value)
Says(r, rows) == IsText(r) /\ rows \in SUBSET Row /\ Means(r.text, r.params, rows)
SaysOneOf(r, rows) == IsText(r) /\ rows \in SUBSET Row /\ Offers(r.text, r.params, rows)

\* The words of the language.
LEMMA Words ==
  ASSUME NEW ps, NEW p
  PROVE  /\ Reading(Word("AND"), ps, p) = p
         /\ Reading(Word("OR"), ps, p) = Place(p.any \cup p.all, Row, p.outer, p.at)
         /\ Reading(Word("("), ps, p) = Place({}, Row, p, p.at)
         /\ Reading(Word(")"), ps, p) =
              Place(p.outer.any, p.outer.all \cap (p.any \cup p.all), p.outer.outer, p.at)
         /\ \A kind \in {"AND", "OR", "(", ")"} : Word(kind) \in Seq(Token)
<1>1. \A kind : Reading(Word(kind), ps, p) = Read(p, [kind |-> kind], ps)
  BY ReadingToken DEF Word
<1>2. /\ Read(p, [kind |-> "AND"], ps) = p
      /\ Read(p, [kind |-> "OR"], ps) = Place(p.any \cup p.all, Row, p.outer, p.at)
      /\ Read(p, [kind |-> "("], ps) = Place({}, Row, p, p.at)
      /\ Read(p, [kind |-> ")"], ps) =
           Place(p.outer.any, p.outer.all \cap (p.any \cup p.all), p.outer.outer, p.at)
  BY DEF Read
<1>3. ASSUME NEW kind \in {"AND", "OR", "(", ")"}  PROVE Word(kind) \in Seq(Token)
  <2>1. [kind |-> kind] \in Token
    BY DEF Token
  <2>2. QED  BY <2>1 DEF Word
<1>4. QED  BY <1>1, <1>2, <1>3

\* Parameters that follow each other.
LEMMA FitsBoth ==
  ASSUME NEW p \in Seq(Value), NEW q \in Seq(Value), NEW ps, NEW at \in Nat,
         Fits(ps, at, p \o q)
  PROVE  /\ Fits(ps, at, p) /\ Fits(ps, at + Len(p), q)
         /\ p \o q \in Seq(Value) /\ Len(p \o q) = Len(p) + Len(q)
         /\ at + Len(p) \in Nat /\ at + Len(p) + Len(q) = at + Len(p \o q)
<1>1. /\ p \o q \in Seq(Value) /\ Len(p \o q) = Len(p) + Len(q)
      /\ Len(p) \in Nat /\ Len(q) \in Nat
      /\ \A i \in 1 .. Len(p) + Len(q) :
           (p \o q)[i] = IF i <= Len(p) THEN p[i] ELSE q[i - Len(p)]
  BY ConcatProperties
<1>2. \A j \in 1 .. Len(p) + Len(q) : ps[at + j - 1] = (p \o q)[j]
  BY <1>1 DEF Fits
<1>3. ASSUME NEW j \in 1 .. Len(p)  PROVE ps[at + j - 1] = p[j]
  <2>1. j \in 1 .. Len(p) + Len(q) /\ j <= Len(p)
    BY <1>1
  <2>2. QED  BY <1>1, <1>2, <2>1
<1>4. ASSUME NEW j \in 1 .. Len(q)  PROVE ps[at + Len(p) + j - 1] = q[j]
  <2> DEFINE i == Len(p) + j
  <2>1. i \in 1 .. Len(p) + Len(q) /\ ~(i <= Len(p)) /\ i - Len(p) = j
    BY <1>1
  <2>2. at + i - 1 = at + Len(p) + j - 1
    BY <1>1
  <2> HIDE DEF i
  <2>3. ps[at + i - 1] = (p \o q)[i] /\ (p \o q)[i] = q[i - Len(p)]
    BY <1>1, <1>2, <2>1
  <2>4. QED  BY <2>1, <2>2, <2>3
<1>5. QED  BY <1>1, <1>3, <1>4 DEF Fits

LEMMA JoinedType ==
  ASSUME NEW t \in Seq(Token), NEW u \in Seq(Token)
  PROVE  Joined(t, "AND", u) \in Seq(Token)
<1>1. Word("AND") \in Seq(Token)
  BY Words
<1> DEFINE w == Word("AND")
<1>2. w \in Seq(Token) => t \o w \o u \in Seq(Token)
  <2> HIDE DEF w
  <2>1. QED  OBVIOUS
<1>3. QED  BY <1>1, <1>2 DEF Joined

\* Texts joined by AND are read one after the other, also those without text.
LEMMA JoinedReads ==
  ASSUME NEW t \in Seq(Token), NEW u \in Seq(Token), NEW ps, NEW p
  PROVE  /\ Joined(t, "AND", u) \in Seq(Token)
         /\ Reading(Joined(t, "AND", u), ps, p) = Reading(u, ps, Reading(t, ps, p))
<1>1. CASE u = <<>>
  BY <1>1, ReadingNothing DEF Joined
<1>2. CASE u # <<>> /\ t = <<>>
  BY <1>2, ReadingNothing DEF Joined
<1>3. CASE u # <<>> /\ t # <<>>
  <2> DEFINE w == Word("AND")
  <2>1. w \in Seq(Token) /\ \A q : Reading(w, ps, q) = q
    BY Words
  <2> HIDE DEF w
  <2>2. t \o w \in Seq(Token) /\ t \o w \o u \in Seq(Token)
    BY <2>1
  <2>3. Reading(t \o w, ps, p) = Reading(t, ps, p)
    <3>1. Reading(t \o w, ps, p) = Reading(w, ps, Reading(t, ps, p))
      BY <2>1, ReadingOn
    <3>2. QED  BY <2>1, <3>1
  <2>4. Reading(t \o w \o u, ps, p) = Reading(u, ps, Reading(t, ps, p))
    <3> DEFINE x == t \o w
    <3>1. x \in Seq(Token)
      BY <2>2
    <3> HIDE DEF x
    <3>2. Reading(x \o u, ps, p) = Reading(u, ps, Reading(x, ps, p))
      BY <3>1, ReadingOn
    <3>3. QED  BY <2>3, <3>2 DEF x
  <2>5. Joined(t, "AND", u) = t \o w \o u
    BY <1>3 DEF Joined, w
  <2>6. QED  BY <2>2, <2>4, <2>5
<1>4. QED  BY <1>1, <1>2, <1>3

LEMMA SaysBoth ==
  ASSUME NEW r, NEW s, NEW R, NEW S, Says(r, R), Says(s, S)
  PROVE  Says(Result(Joined(r.text, "AND", s.text), r.params \o s.params), R \cap S)
<1> DEFINE t == r.text
           u == s.text
           p == r.params
           q == s.params
           v == Joined(t, "AND", u)
<1>1. /\ t \in Seq(Token) /\ u \in Seq(Token) /\ p \in Seq(Value) /\ q \in Seq(Value)
      /\ R \in SUBSET Row /\ S \in SUBSET Row /\ Means(t, p, R) /\ Means(u, q, S)
  BY DEF Says, IsText
<1> HIDE DEF t, u, p, q
<1>2. v \in Seq(Token) /\ p \o q \in Seq(Value)
  BY <1>1, JoinedType
<1>3. ASSUME NEW any, NEW all, NEW outer, NEW at, NEW ps
      PROVE  MeansAt(v, p \o q, R \cap S, any, all, outer, at, ps)
  <2> HIDE DEF v
  <2>a. SUFFICES ASSUME all \in SUBSET Row, at \in Nat, Fits(ps, at, p \o q)
                 PROVE  Reading(v, ps, Place(any, all, outer, at))
                          = Place(any, all \cap (R \cap S), outer, at + Len(p \o q))
    BY DEF MeansAt
  <2> USE DEF v
  <2>1. /\ Fits(ps, at, p) /\ Fits(ps, at + Len(p), q)
        /\ at + Len(p) \in Nat /\ at + Len(p) + Len(q) = at + Len(p \o q)
    BY <1>1, <2>a, FitsBoth
  <2>2. Reading(t, ps, Place(any, all, outer, at)) = Place(any, all \cap R, outer, at + Len(p))
    <3>1. MeansAt(t, p, R, any, all, outer, at, ps)
      BY <1>1, Zenon DEF Means
    <3>2. QED  BY <2>a, <2>1, <3>1 DEF MeansAt
  <2> DEFINE both == all \cap R
             k == at + Len(p)
  <2>3. both \in SUBSET Row /\ k \in Nat /\ Fits(ps, k, q)
    BY <2>a, <2>1
  <2>4. Reading(u, ps, Place(any, both, outer, k)) = Place(any, both \cap S, outer, k + Len(q))
    <3> HIDE DEF both, k
    <3>1. MeansAt(u, q, S, any, both, outer, k, ps)
      BY <1>1, Zenon DEF Means
    <3>2. QED  BY <2>3, <3>1 DEF MeansAt
  <2>5. both \cap S = all \cap (R \cap S)
    OBVIOUS
  <2>6. Reading(v, ps, Place(any, all, outer, at))
          = Reading(u, ps, Reading(t, ps, Place(any, all, outer, at)))
    BY <1>1, JoinedReads
  <2>7. QED  BY <2>1, <2>2, <2>4, <2>5, <2>6
<1>4. Means(v, p \o q, R \cap S)
  BY <1>3, Zenon DEF Means
<1> HIDE DEF v
<1>5. Says(Result(v, p \o q), R \cap S)
  BY <1>1, <1>2, <1>4 DEF Says, IsText, Result
<1>6. QED  BY <1>5 DEF v, t, u, p, q

\* No text means every row.
LEMMA SaysNothing ==
  Says(Result(<<>>, <<>>), Row)
<1>1. Means(<<>>, <<>>, Row)
  <2>1. ASSUME NEW any, NEW all, NEW outer, NEW at, NEW ps
        PROVE  MeansAt(<<>>, <<>>, Row, any, all, outer, at, ps)
    <3>1. all \in SUBSET Row /\ at \in Nat => all \cap Row = all /\ at + Len(<<>>) = at
      OBVIOUS
    <3>2. QED  BY <3>1, ReadingNothing DEF MeansAt
  <2>2. QED  BY <2>1, Zenon DEF Means
<1>2. <<>> \in Seq(Token) /\ <<>> \in Seq(Value)
  OBVIOUS
<1>3. QED  BY <1>1, <1>2 DEF Says, IsText, Result

\* In parentheses, alternatives mean that one of them holds.
LEMMA ParenthesesReads ==
  ASSUME NEW t \in Seq(Token), t # <<>>, NEW ps, NEW p
  PROVE  /\ Parenthesized(t) \in Seq(Token) /\ Parenthesized(t) # <<>>
         /\ Reading(Parenthesized(t), ps, p)
              = Reading(Word(")"), ps, Reading(t, ps, Reading(Word("("), ps, p)))
<1> DEFINE a == Word("(")
           b == Word(")")
<1>1. a \in Seq(Token) /\ b \in Seq(Token) /\ Len(a) = 1
  BY Words DEF Word
<1>2. Parenthesized(t) = a \o t \o b
  BY DEF Parenthesized
<1> HIDE DEF a, b
<1>3. a \o t \in Seq(Token) /\ a \o t \o b \in Seq(Token)
  BY <1>1
<1>4. a \o t \o b # <<>>
  <2>1. Len(a \o t) = Len(a) + Len(t) /\ Len(a \o t \o b) = Len(a \o t) + Len(b)
    BY <1>1, <1>3, ConcatProperties
  <2>2. Len(t) \in Nat /\ Len(b) \in Nat
    BY <1>1
  <2>3. Len(a \o t \o b) # 0
    BY <1>1, <2>1, <2>2
  <2>4. QED  BY <2>3
<1>5. Reading(a \o t \o b, ps, p) = Reading(b, ps, Reading(t, ps, Reading(a, ps, p)))
  <2>1. Reading(a \o t, ps, p) = Reading(t, ps, Reading(a, ps, p))
    BY <1>1, ReadingOn
  <2>2. Reading((a \o t) \o b, ps, p) = Reading(b, ps, Reading(a \o t, ps, p))
    <3> DEFINE x == a \o t
    <3>1. x \in Seq(Token)
      BY <1>3
    <3> HIDE DEF x
    <3>2. Reading(x \o b, ps, p) = Reading(b, ps, Reading(x, ps, p))
      BY <1>1, <3>1, ReadingOn
    <3>3. QED  BY <3>2 DEF x
  <2>3. QED  BY <2>1, <2>2
<1>6. QED  BY <1>2, <1>3, <1>4, <1>5 DEF a, b

LEMMA OneOfInParentheses ==
  ASSUME NEW r, NEW R, SaysOneOf(r, R), r.text # <<>>
  PROVE  /\ Says(Result(Parenthesized(r.text), r.params), R)
         /\ Parenthesized(r.text) # <<>>
<1> DEFINE t == r.text
           p == r.params
           v == Parenthesized(t)
<1>1. /\ t \in Seq(Token) /\ p \in Seq(Value) /\ t # <<>> /\ R \in SUBSET Row /\ Offers(t, p, R)
  BY DEF SaysOneOf, IsText
<1> HIDE DEF t, p
<1>2. v \in Seq(Token) /\ v # <<>>
  BY <1>1, ParenthesesReads
<1>3. ASSUME NEW any, NEW all, NEW outer, NEW at, NEW ps
      PROVE  MeansAt(v, p, R, any, all, outer, at, ps)
  <2> HIDE DEF v
  <2>a. SUFFICES ASSUME all \in SUBSET Row, at \in Nat, Fits(ps, at, p)
                 PROVE  Reading(v, ps, Place(any, all, outer, at))
                          = Place(any, all \cap R, outer, at + Len(p))
    BY DEF MeansAt
  <2> USE DEF v
  <2> DEFINE here == Place(any, all, outer, at)
             k == at + Len(p)
  <2>1. here.any = any /\ here.all = all /\ here.outer = outer /\ here.at = at
    BY DEF Place
  <2> HIDE DEF here
  <2>2. Reading(Word("("), ps, here) = Place({}, Row, here, at)
    BY <2>1, Words
  <2>3. PICK a, b : /\ b \in SUBSET Row /\ a \cup b = {} \cup R
                    /\ Reading(t, ps, Place({}, Row, here, at)) = Place(a, b, here, k)
    <3>1. OffersAt(t, p, R, {}, here, at, ps)
      BY <1>1, Zenon DEF Offers
    <3>2. QED  BY <2>a, <3>1 DEF OffersAt
  <2> HIDE DEF k
  <2> DEFINE inside == Place(a, b, here, k)
  <2>4. inside.any = a /\ inside.all = b /\ inside.outer = here /\ inside.at = k
    BY DEF Place
  <2> HIDE DEF inside
  <2>5. Reading(Word(")"), ps, inside) = Place(any, all \cap (a \cup b), outer, k)
    <3>1. Reading(Word(")"), ps, inside)
            = Place(inside.outer.any, inside.outer.all \cap (inside.any \cup inside.all),
                    inside.outer.outer, inside.at)
      BY Words, Zenon
    <3>2. QED  BY <2>1, <2>4, <3>1
  <2>6. a \cup b = R
    BY <2>3
  <2>7. Reading(v, ps, here)
          = Reading(Word(")"), ps, Reading(t, ps, Reading(Word("("), ps, here)))
    BY <1>1, ParenthesesReads
  <2>8. Reading(v, ps, here) = Place(any, all \cap R, outer, k)
    BY <2>2, <2>3, <2>5, <2>6, <2>7 DEF inside
  <2>9. QED  BY <2>8 DEF here, k
<1>4. Means(v, p, R)
  BY <1>3, Zenon DEF Means
<1> HIDE DEF v
<1>5. Says(Result(v, p), R) /\ v # <<>>
  BY <1>1, <1>2, <1>4 DEF Says, IsText, Result
<1>6. QED  BY <1>5 DEF v, t, p

\* A text is an alternative, and one joined to others by OR one more.
LEMMA FirstAlternative ==
  ASSUME NEW r, NEW R, Says(r, R)
  PROVE  SaysOneOf(r, R)
<1>1. Means(r.text, r.params, R) /\ IsText(r) /\ R \in SUBSET Row
  BY DEF Says
<1>2. ASSUME NEW any, NEW outer, NEW at, NEW ps
      PROVE  OffersAt(r.text, r.params, R, any, outer, at, ps)
  <2>1. Row \in SUBSET Row /\ Row \cap R = R
    BY <1>1
  <2>2. MeansAt(r.text, r.params, R, any, Row, outer, at, ps)
    BY <1>1, Zenon DEF Means
  <2>3. QED  BY <1>1, <2>1, <2>2 DEF MeansAt, OffersAt
<1>3. Offers(r.text, r.params, R)
  BY <1>2, Zenon DEF Offers
<1>4. QED  BY <1>1, <1>3 DEF SaysOneOf

LEMMA NextAlternative ==
  ASSUME NEW r, NEW s, NEW R, NEW S, SaysOneOf(r, R), Says(s, S), r.text # <<>>, s.text # <<>>
  PROVE  /\ SaysOneOf(Result(Joined(r.text, "OR", s.text), r.params \o s.params), R \cup S)
         /\ Joined(r.text, "OR", s.text) # <<>>
<1> DEFINE t == r.text
           u == s.text
           p == r.params
           q == s.params
           w == Word("OR")
           v == t \o w \o u
<1>1. /\ t \in Seq(Token) /\ u \in Seq(Token) /\ p \in Seq(Value) /\ q \in Seq(Value)
      /\ R \in SUBSET Row /\ S \in SUBSET Row /\ Offers(t, p, R) /\ Means(u, q, S)
      /\ t # <<>> /\ u # <<>>
  BY DEF Says, SaysOneOf, IsText
<1>a. Joined(r.text, "OR", s.text) = v
  BY DEF Joined
<1> HIDE DEF t, u, p, q
<1>2. /\ w \in Seq(Token) /\ t \o w \in Seq(Token) /\ v \in Seq(Token) /\ p \o q \in Seq(Value)
  <2>1. w \in Seq(Token)
    BY Words
  <2> HIDE DEF w
  <2>2. QED  BY <1>1, <2>1
<1> HIDE DEF w
<1>3. v # <<>>
  <2>1. Len(t \o w) = Len(t) + Len(w) /\ Len(v) = Len(t \o w) + Len(u)
    BY <1>1, <1>2, ConcatProperties
  <2>2. Len(t) \in Nat /\ Len(t) # 0 /\ Len(w) \in Nat /\ Len(u) \in Nat
    BY <1>1, <1>2
  <2>3. Len(v) # 0
    BY <2>1, <2>2
  <2>4. QED  BY <2>3
<1>4. ASSUME NEW any, NEW outer, NEW at, NEW ps
      PROVE  OffersAt(v, p \o q, R \cup S, any, outer, at, ps)
  <2> HIDE DEF v
  <2>a. SUFFICES ASSUME at \in Nat, Fits(ps, at, p \o q)
                 PROVE  \E a, b : /\ b \in SUBSET Row /\ a \cup b = any \cup (R \cup S)
                                  /\ Reading(v, ps, Place(any, Row, outer, at))
                                       = Place(a, b, outer, at + Len(p \o q))
    BY DEF OffersAt
  <2> USE DEF v
  <2>1. /\ Fits(ps, at, p) /\ Fits(ps, at + Len(p), q)
        /\ at + Len(p) \in Nat /\ at + Len(p) + Len(q) = at + Len(p \o q)
    BY <1>1, <2>a, FitsBoth
  <2> DEFINE k == at + Len(p)
             m == k + Len(q)
             here == Place(any, Row, outer, at)
  <2>2. PICK a, b : /\ b \in SUBSET Row /\ a \cup b = any \cup R
                    /\ Reading(t, ps, here) = Place(a, b, outer, k)
    <3>1. OffersAt(t, p, R, any, outer, at, ps)
      BY <1>1, Zenon DEF Offers
    <3>2. QED  BY <2>a, <2>1, <3>1 DEF OffersAt
  <2> DEFINE there == Place(a, b, outer, k)
  <2>3. there.any = a /\ there.all = b /\ there.outer = outer /\ there.at = k
    BY DEF Place
  <2> HIDE DEF there
  <2>4. Reading(w, ps, there) = Place(a \cup b, Row, outer, k)
    <3>1. Reading(w, ps, there)
            = Place(there.any \cup there.all, Row, there.outer, there.at)
      BY Words, Zenon DEF w
    <3>2. QED  BY <2>3, <3>1
  <2>5. Reading(u, ps, Place(a \cup b, Row, outer, k)) = Place(a \cup b, Row \cap S, outer, m)
    <3>1. Row \in SUBSET Row /\ k \in Nat /\ Fits(ps, k, q)
      BY <2>1
    <3> DEFINE c == a \cup b
    <3> HIDE DEF k, c
    <3>2. MeansAt(u, q, S, c, Row, outer, k, ps)
      BY <1>1, Zenon DEF Means
    <3>3. Reading(u, ps, Place(c, Row, outer, k)) = Place(c, Row \cap S, outer, k + Len(q))
      BY <3>1, <3>2 DEF MeansAt
    <3>4. QED  BY <3>3 DEF c
  <2>6. Reading(v, ps, here) = Place(a \cup b, Row \cap S, outer, m)
    <3>1. Reading(v, ps, here) = Reading(u, ps, Reading(t \o w, ps, here))
      <4> DEFINE x == t \o w
      <4>1. x \in Seq(Token)
        BY <1>2
      <4> HIDE DEF x, here
      <4>2. Reading(x \o u, ps, here) = Reading(u, ps, Reading(x, ps, here))
        BY <1>1, <4>1, ReadingOn
      <4>3. QED  BY <4>2 DEF x
    <3>2. Reading(t \o w, ps, here) = Reading(w, ps, Reading(t, ps, here))
      BY <1>1, <1>2, ReadingOn
    <3>3. Reading(t, ps, here) = there
      BY <2>2 DEF there
    <3>4. QED  BY <2>4, <2>5, <3>1, <3>2, <3>3
  <2>7. Row \cap S \in SUBSET Row /\ (a \cup b) \cup (Row \cap S) = any \cup (R \cup S)
    BY <1>1, <2>2
  <2>8. m = at + Len(p \o q)
    BY <2>1
  <2> HIDE DEF m, k, here
  <2>9. Reading(v, ps, here) = Place(a \cup b, Row \cap S, outer, at + Len(p \o q))
    BY <2>6, <2>8
  <2>10. QED  BY <2>7, <2>9 DEF here
<1> HIDE DEF v
<1>5. Offers(v, p \o q, R \cup S)
  BY <1>4, Zenon DEF Offers
<1>6. SaysOneOf(Result(v, p \o q), R \cup S)
  BY <1>1, <1>2, <1>5 DEF SaysOneOf, IsText, Result
<1>7. QED  BY <1>3, <1>6, <1>a DEF p, q

-----------------------------------------------------------------------------
(* The conditions on one column.                                           *)

\* With its parameters before it, the condition is satisfied by the rows.
SatisfiedAt(token, more, rows, ps, at) ==
  at \in Nat /\ Fits(ps, at, more) => Satisfying(token, ps, at) = rows

LEMMA ConditionMeans ==
  ASSUME NEW token \in Token, token.kind \notin {"AND", "OR", "(", ")"},
         NEW more \in Seq(Value), Len(more) = Placeholders(token), NEW rows \in SUBSET Row,
         \A ps, at : SatisfiedAt(token, more, rows, ps, at)
  PROVE  Says(Result(<<token>>, more), rows) /\ <<token>> # <<>>
<1>1. ASSUME NEW any, NEW all, NEW outer, NEW at, NEW ps
      PROVE  MeansAt(<<token>>, more, rows, any, all, outer, at, ps)
  <2>1. SUFFICES ASSUME all \in SUBSET Row, at \in Nat, Fits(ps, at, more)
                 PROVE  Reading(<<token>>, ps, Place(any, all, outer, at))
                          = Place(any, all \cap rows, outer, at + Len(more))
    BY DEF MeansAt
  <2> DEFINE here == Place(any, all, outer, at)
  <2>2. here.any = any /\ here.all = all /\ here.outer = outer /\ here.at = at
    BY DEF Place
  <2> HIDE DEF here
  <2>3. Satisfying(token, ps, at) = rows
    <3>1. SatisfiedAt(token, more, rows, ps, at)
      BY Zenon
    <3>2. QED  BY <2>1, <3>1 DEF SatisfiedAt
  <2>4. Read(here, token, ps)
          = Place(here.any, here.all \cap Satisfying(token, ps, here.at), here.outer,
                  here.at + Placeholders(token))
    BY DEF Read
  <2>5. Reading(<<token>>, ps, here) = Place(any, all \cap rows, outer, at + Len(more))
    BY <2>2, <2>3, <2>4, ReadingToken
  <2>6. QED  BY <2>5 DEF here
<1>2. Means(<<token>>, more, rows)
  BY <1>1, Zenon DEF Means
<1>3. <<token>> \in Seq(Token) /\ <<token>> # <<>>
  OBVIOUS
<1> DEFINE text == <<token>>
<1> HIDE DEF text
<1>4. Means(text, more, rows) /\ text \in Seq(Token) => Says(Result(text, more), rows)
  BY DEF Says, IsText, Result
<1>5. QED  BY <1>2, <1>3, <1>4 DEF text

LEMMA NullTests ==
  ASSUME NEW column \in Seq(Identifier)
  PROVE  /\ Says(Result(<<[kind |-> "IS_NULL", column |-> column]>>, <<>>),
                 {row \in Row : row[column] = Null})
         /\ Says(Result(<<[kind |-> "IS_NOT_NULL", column |-> column]>>, <<>>),
                 {row \in Row : row[column] # Null})
<1> DEFINE token == [kind |-> "IS_NULL", column |-> column]
           other == [kind |-> "IS_NOT_NULL", column |-> column]
           rows == {row \in Row : row[column] = Null}
           rest == {row \in Row : row[column] # Null}
<1>1. /\ token \in Token /\ token.kind = "IS_NULL" /\ token.column = column
      /\ other \in Token /\ other.kind = "IS_NOT_NULL" /\ other.column = column
  BY DEF Token
<1> HIDE DEF token, other
<1>2. /\ Placeholders(token) = 0 /\ Placeholders(other) = 0
      /\ \A ps, at : Satisfying(token, ps, at) = rows
      /\ \A ps, at : Satisfying(other, ps, at) = rest
  BY <1>1 DEF Placeholders, Satisfying
<1>3. rows \in SUBSET Row /\ rest \in SUBSET Row /\ <<>> \in Seq(Value) /\ Len(<<>>) = 0
  OBVIOUS
<1> HIDE DEF rows, rest
<1>4. /\ \A ps, at : SatisfiedAt(token, <<>>, rows, ps, at)
      /\ \A ps, at : SatisfiedAt(other, <<>>, rest, ps, at)
  BY <1>2 DEF SatisfiedAt
<1>5. Says(Result(<<token>>, <<>>), rows)
  BY <1>1, <1>2, <1>3, <1>4, ConditionMeans
<1>6. Says(Result(<<other>>, <<>>), rest)
  BY <1>1, <1>2, <1>3, <1>4, ConditionMeans
<1>7. QED  BY <1>5, <1>6 DEF token, other, rows, rest

\* The operators of the two languages compare alike.
LEMMA OperatorsAgree ==
  \A c \in DOMAIN Comparison : \A a, b : Compares(Comparison[c], a, b) <=> Related(c, a, b)
<1>1. DOMAIN Comparison =
        {"COMPARE_EQUAL", "COMPARE_NOTEQUAL", "COMPARE_LESSTHAN", "COMPARE_GREATERTHAN",
         "COMPARE_LESSTHANOREQUALTO", "COMPARE_GREATERTHANOREQUALTO"}
  BY DEF Comparison
<1>2. /\ Comparison["COMPARE_EQUAL"] = "=" /\ Comparison["COMPARE_NOTEQUAL"] = "<>"
      /\ Comparison["COMPARE_LESSTHAN"] = "<" /\ Comparison["COMPARE_GREATERTHAN"] = ">"
      /\ Comparison["COMPARE_LESSTHANOREQUALTO"] = "<="
      /\ Comparison["COMPARE_GREATERTHANOREQUALTO"] = ">="
  BY DEF Comparison
<1>3. ASSUME NEW a, NEW b
      PROVE  /\ Compares("=", a, b) <=> Related("COMPARE_EQUAL", a, b)
             /\ Compares("<>", a, b) <=> Related("COMPARE_NOTEQUAL", a, b)
             /\ Compares("<", a, b) <=> Related("COMPARE_LESSTHAN", a, b)
             /\ Compares(">", a, b) <=> Related("COMPARE_GREATERTHAN", a, b)
             /\ Compares("<=", a, b) <=> Related("COMPARE_LESSTHANOREQUALTO", a, b)
             /\ Compares(">=", a, b) <=> Related("COMPARE_GREATERTHANOREQUALTO", a, b)
  BY DEF Compares, Related
<1>4. QED  BY <1>1, <1>2, <1>3

LEMMA ComparisonMeans ==
  ASSUME NEW column \in Seq(Identifier), NEW c \in DOMAIN Comparison, NEW v \in Value
  PROVE  Says(Result(<<[kind |-> "?", column |-> column, op |-> Comparison[c]]>>, <<v>>),
              {row \in Row : Related(c, row[column], v)})
<1> DEFINE token == [kind |-> "?", column |-> column, op |-> Comparison[c]]
           rows == {row \in Row : Related(c, row[column], v)}
           more == <<v>>
<1>1. token \in Token /\ token.kind = "?" /\ token.column = column /\ token.op = Comparison[c]
  BY DEF Token
<1> HIDE DEF token
<1>2. /\ Placeholders(token) = 1 /\ Len(more) = 1 /\ more[1] = v /\ more \in Seq(Value)
      /\ rows \in SUBSET Row
  BY <1>1 DEF Placeholders
<1> HIDE DEF more
<1>3. ASSUME NEW ps, NEW at  PROVE SatisfiedAt(token, more, rows, ps, at)
  <2>1. SUFFICES ASSUME at \in Nat, Fits(ps, at, more)  PROVE Satisfying(token, ps, at) = rows
    BY DEF SatisfiedAt
  <2>2. ps[at] = v
    <3>1. 1 \in 1 .. Len(more) /\ at + 1 - 1 = at
      BY <1>2, <2>1
    <3>2. QED  BY <1>2, <2>1, <3>1 DEF Fits
  <2>3. Satisfying(token, ps, at) = {row \in Row : Compares(Comparison[c], row[column], v)}
    BY <1>1, <2>2 DEF Satisfying
  <2>4. \A row \in Row :
          Compares(Comparison[c], row[column], v) <=> Related(c, row[column], v)
    BY OperatorsAgree
  <2>5. QED  BY <2>3, <2>4
<1> HIDE DEF rows
<1>4. Says(Result(<<token>>, more), rows)
  BY <1>1, <1>2, <1>3, ConditionMeans
<1>5. QED  BY <1>4 DEF token, rows, more

LEMMA InMeans ==
  ASSUME NEW column \in Seq(Identifier), NEW values \in Seq(Value)
  PROVE  Says(Result(<<[kind |-> "IN", column |-> column, size |-> Len(values)]>>, values),
              {row \in Row : \E i \in DOMAIN values :
                               row[column] # Null /\ row[column] = values[i]})
<1> DEFINE token == [kind |-> "IN", column |-> column, size |-> Len(values)]
           rows == {row \in Row : \E i \in DOMAIN values :
                                    row[column] # Null /\ row[column] = values[i]}
<1>0. Len(values) \in Nat /\ DOMAIN values = 1 .. Len(values)
  OBVIOUS
<1>1. token \in Token /\ token.kind = "IN" /\ token.column = column /\ token.size = Len(values)
  BY <1>0 DEF Token
<1> HIDE DEF token
<1>2. Placeholders(token) = Len(values) /\ rows \in SUBSET Row
  BY <1>1 DEF Placeholders
<1>3. ASSUME NEW ps, NEW at  PROVE SatisfiedAt(token, values, rows, ps, at)
  <2>1. SUFFICES ASSUME at \in Nat, Fits(ps, at, values)  PROVE Satisfying(token, ps, at) = rows
    BY DEF SatisfiedAt
  <2>2. Satisfying(token, ps, at) =
          {row \in Row : \E i \in at .. at + Len(values) - 1 : Compares("=", row[column], ps[i])}
    BY <1>1 DEF Satisfying
  <2>3. \A a, b : Compares("=", a, b) <=> a # Null /\ a = b
    BY DEF Compares
  <2>4. ASSUME NEW row \in Row
        PROVE  (\E i \in at .. at + Len(values) - 1 : Compares("=", row[column], ps[i]))
                 <=> \E i \in DOMAIN values : row[column] # Null /\ row[column] = values[i]
    <3>1. ASSUME NEW i \in at .. at + Len(values) - 1, Compares("=", row[column], ps[i])
          PROVE  \E j \in DOMAIN values : row[column] # Null /\ row[column] = values[j]
      <4> DEFINE j == i - at + 1
      <4>1. j \in 1 .. Len(values) /\ at + j - 1 = i
        BY <1>0, <2>1, <3>1
      <4> HIDE DEF j
      <4>2. ps[i] = values[j]
        BY <2>1, <4>1 DEF Fits
      <4>3. QED  BY <1>0, <2>3, <3>1, <4>1, <4>2
    <3>2. ASSUME NEW j \in DOMAIN values, row[column] # Null, row[column] = values[j]
          PROVE  \E i \in at .. at + Len(values) - 1 : Compares("=", row[column], ps[i])
      <4> DEFINE i == at + j - 1
      <4>1. i \in at .. at + Len(values) - 1 /\ j \in 1 .. Len(values)
        BY <1>0, <2>1, <3>2
      <4>2. ps[i] = values[j]
        BY <2>1, <4>1 DEF Fits
      <4> HIDE DEF i
      <4>3. QED  BY <2>3, <3>2, <4>1, <4>2
    <3>3. QED  BY <3>1, <3>2
  <2>5. QED  BY <2>2, <2>4
<1> HIDE DEF rows
<1>4. Says(Result(<<token>>, values), rows)
  BY <1>1, <1>2, <1>3, ConditionMeans
<1>5. QED  BY <1>4 DEF token, rows

-----------------------------------------------------------------------------
(* Conjunctions.                                                           *)

LEMMA JoinedSomething ==
  ASSUME NEW t \in Seq(Token), NEW u \in Seq(Token), u # <<>>
  PROVE  Joined(t, "AND", u) # <<>>
<1>1. CASE t = <<>>
  BY <1>1 DEF Joined
<1>2. CASE t # <<>>
  <2> DEFINE w == Word("AND")
             x == t \o w
  <2>1. w \in Seq(Token)
    BY Words
  <2> HIDE DEF w
  <2>2. x \in Seq(Token)
    BY <2>1
  <2>3. Joined(t, "AND", u) = x \o u
    BY <1>2 DEF Joined, w
  <2> HIDE DEF x
  <2>4. Len(x \o u) = Len(x) + Len(u) /\ Len(x) \in Nat /\ Len(u) \in Nat /\ Len(u) # 0
    BY <2>2, ConcatProperties
  <2>5. Len(x \o u) # 0
    BY <2>4
  <2>6. QED  BY <2>3, <2>5
<1>3. QED  BY <1>1, <1>2

\* What the children of a conjunction say.
ChildrenSay(children, holds) ==
  /\ Len(children) \in Nat /\ DOMAIN children = 1 .. Len(children)
  /\ \A i \in 1 .. Len(children) : children[i] # Throws /\ Says(children[i], holds[i])

AllHold(holds, n) == {row \in Row : \A i \in 1 .. n : row \in holds[i]}
OneHolds(holds, n) == {row \in Row : \E i \in 1 .. n : row \in holds[i]}

LEMMA MoreHold ==
  ASSUME NEW n \in Nat, NEW holds, holds[n + 1] \in SUBSET Row
  PROVE  /\ AllHold(holds, 0) = Row /\ AllHold(holds, n + 1) = AllHold(holds, n) \cap holds[n + 1]
         /\ OneHolds(holds, 0) = {} /\ OneHolds(holds, n + 1) = OneHolds(holds, n) \cup holds[n + 1]
<1>1. 1 .. n + 1 = (1 .. n) \cup {n + 1} /\ 1 .. 0 = {}
  OBVIOUS
<1>2. QED  BY <1>1 DEF AllHold, OneHolds

\* In and out of parentheses, the conjunction of the children holds where all do.
LEMMA AndMeans ==
  ASSUME NEW children, NEW holds, ChildrenSay(children, holds)
  PROVE  /\ Says(CreateExpression(children, "AND"), AllHold(holds, Len(children)))
         /\ (Len(children) # 0 /\ \A i \in 1 .. Len(children) : children[i].text # <<>>)
              => CreateExpression(children, "AND").text # <<>>
<1>1. /\ Len(children) \in Nat /\ DOMAIN children = 1 .. Len(children)
      /\ \A i \in 1 .. Len(children) : children[i] # Throws /\ Says(children[i], holds[i])
  BY DEF ChildrenSay
<1>a. PICK f : ResultsThrough(f, children, "AND")
  <2>1. Len(children) \in Nat /\ \A i \in DOMAIN children : children[i] # Throws
    BY <1>1
  <2>2. QED  BY <2>1, EntriesSteps, Zenon
<1>2. /\ f[0] = Result(<<>>, <<>>)
      /\ CreateExpression(children, "AND") =
           Result(Parenthesized(f[Len(children)].text), f[Len(children)].params)
      /\ \A i \in 1 .. Len(children) :
           f[i] = Result(Joined(f[i - 1].text, "AND", children[i].text),
                         f[i - 1].params \o children[i].params)
  BY <1>a DEF ResultsThrough
<1> DEFINE texts == \A i \in 1 .. Len(children) : children[i].text # <<>>
           S == {n \in Nat : n <= Len(children) =>
                   Says(f[n], AllHold(holds, n)) /\ (n # 0 /\ texts => f[n].text # <<>>)}
<1>3. 0 \in S
  <2>1. AllHold(holds, 0) = Row
    BY DEF AllHold
  <2>2. QED  BY <1>2, <2>1, SaysNothing
<1>4. ASSUME NEW n \in Nat, n \in S  PROVE n + 1 \in S
  <2>1. SUFFICES ASSUME n + 1 <= Len(children)
                 PROVE  /\ Says(f[n + 1], AllHold(holds, n + 1))
                        /\ texts => f[n + 1].text # <<>>
    OBVIOUS
  <2> DEFINE k == n + 1
  <2>2. k \in 1 .. Len(children) /\ k - 1 = n
    BY <1>1, <2>1
  <2>3. Says(f[n], AllHold(holds, n)) /\ Says(children[k], holds[k])
    BY <1>1, <1>4, <2>1, <2>2
  <2>4. AllHold(holds, k) = AllHold(holds, n) \cap holds[k]
    <3>1. holds[n + 1] \in SUBSET Row
      BY <2>3 DEF Says
    <3>2. QED  BY <3>1, MoreHold
  <2> HIDE DEF k
  <2>5. f[k] = Result(Joined(f[n].text, "AND", children[k].text),
                      f[n].params \o children[k].params)
    BY <1>2, <2>2
  <2>6. Says(f[k], AllHold(holds, k))
    <3> DEFINE r == f[n]  s == children[k]  R == AllHold(holds, n)  V == holds[k]
    <3> HIDE DEF r, s, R, V
    <3>1. Says(r, R) /\ Says(s, V) =>
            Says(Result(Joined(r.text, "AND", s.text), r.params \o s.params), R \cap V)
      BY SaysBoth
    <3>2. QED  BY <2>3, <2>4, <2>5, <3>1 DEF r, s, R, V
  <2>7. texts => f[k].text # <<>>
    <3>1. f[k].text = Joined(f[n].text, "AND", children[k].text)
      BY <2>5 DEF Result
    <3>2. f[n].text \in Seq(Token) /\ children[k].text \in Seq(Token)
      BY <2>3 DEF Says, IsText
    <3>3. children[k].text # <<>> => Joined(f[n].text, "AND", children[k].text) # <<>>
      <4> DEFINE t == f[n].text  u == children[k].text
      <4> HIDE DEF t, u
      <4>1. t \in Seq(Token) /\ u \in Seq(Token) /\ u # <<>> => Joined(t, "AND", u) # <<>>
        BY JoinedSomething
      <4>2. QED  BY <3>2, <4>1 DEF t, u
    <3>4. QED  BY <2>2, <3>1, <3>3
  <2>8. QED  BY <2>6, <2>7 DEF k
<1> HIDE DEF S, texts
<1>5. Nat \subseteq S
  BY <1>3, <1>4, Induction
<1> DEFINE r == f[Len(children)]
           R == AllHold(holds, Len(children))
<1>6. Says(r, R) /\ (Len(children) # 0 /\ texts => r.text # <<>>)
  BY <1>1, <1>5 DEF S
<1>7. CreateExpression(children, "AND") = Result(Parenthesized(r.text), r.params)
  BY <1>2
<1> HIDE DEF r, R
<1>8. CASE r.text = <<>>
  <2>1. Parenthesized(r.text) = r.text
    BY <1>8 DEF Parenthesized
  <2>2. Says(Result(r.text, r.params), R)
    BY <1>6 DEF Says, IsText, Result
  <2>3. QED  BY <1>6, <1>7, <1>8, <2>1, <2>2 DEF R, texts
<1>9. CASE r.text # <<>>
  <2>1. SaysOneOf(r, R)
    BY <1>6, FirstAlternative
  <2>2. Says(Result(Parenthesized(r.text), r.params), R) /\ Parenthesized(r.text) # <<>>
    BY <1>9, <2>1, OneOfInParentheses
  <2>3. QED  BY <1>7, <2>2 DEF R, Result
<1>10. QED  BY <1>8, <1>9

\* The disjunction holds where one child does, as long as each has a text.
LEMMA OrMeans ==
  ASSUME NEW children, NEW holds, ChildrenSay(children, holds), Len(children) # 0,
         \A i \in 1 .. Len(children) : children[i].text # <<>>
  PROVE  /\ Says(CreateExpression(children, "OR"), OneHolds(holds, Len(children)))
         /\ CreateExpression(children, "OR").text # <<>>
<1>1. /\ Len(children) \in Nat /\ DOMAIN children = 1 .. Len(children)
      /\ \A i \in 1 .. Len(children) : children[i] # Throws /\ Says(children[i], holds[i])
  BY DEF ChildrenSay
<1>a. PICK f : ResultsThrough(f, children, "OR")
  <2>1. Len(children) \in Nat /\ \A i \in DOMAIN children : children[i] # Throws
    BY <1>1
  <2>2. QED  BY <2>1, EntriesSteps, Zenon
<1>2. /\ f[0] = Result(<<>>, <<>>)
      /\ CreateExpression(children, "OR") =
           Result(Parenthesized(f[Len(children)].text), f[Len(children)].params)
      /\ \A i \in 1 .. Len(children) :
           f[i] = Result(Joined(f[i - 1].text, "OR", children[i].text),
                         f[i - 1].params \o children[i].params)
  BY <1>a DEF ResultsThrough
<1> DEFINE S == {n \in Nat : n # 0 /\ n <= Len(children) =>
                   SaysOneOf(f[n], OneHolds(holds, n)) /\ f[n].text # <<>>}
<1>3. 0 \in S
  OBVIOUS
<1>4. ASSUME NEW n \in Nat, n \in S  PROVE n + 1 \in S
  <2>1. SUFFICES ASSUME n + 1 <= Len(children)
                 PROVE  SaysOneOf(f[n + 1], OneHolds(holds, n + 1)) /\ f[n + 1].text # <<>>
    OBVIOUS
  <2> DEFINE k == n + 1
  <2>2. k \in 1 .. Len(children) /\ k - 1 = n /\ k # 0
    BY <1>1, <2>1
  <2>3. Says(children[k], holds[k]) /\ children[k].text # <<>>
    BY <1>1, <2>2
  <2>4. OneHolds(holds, k) = OneHolds(holds, n) \cup holds[k] /\ OneHolds(holds, 0) = {}
    <3>1. holds[n + 1] \in SUBSET Row
      BY <2>3 DEF Says
    <3>2. QED  BY <3>1, MoreHold
  <2>a. n # 0 => SaysOneOf(f[n], OneHolds(holds, n)) /\ f[n].text # <<>>
    BY <1>1, <1>4, <2>1
  <2> HIDE DEF k
  <2>5. f[k] = Result(Joined(f[n].text, "OR", children[k].text),
                      f[n].params \o children[k].params)
    BY <1>2, <2>2
  <2>6. CASE n = 0
    <3>1. f[n].text = <<>> /\ f[n].params = <<>>
      BY <1>2, <2>6 DEF Result
    <3>2. children[k].params \in Seq(Value)
      BY <2>3 DEF Says, IsText
    <3>3. <<>> \o children[k].params = children[k].params
      BY <3>2
    <3>4. f[k] = Result(children[k].text, children[k].params)
      BY <2>3, <2>5, <3>1, <3>3 DEF Joined
    <3>5. OneHolds(holds, k) = holds[k]
      BY <2>4, <2>6
    <3>6. SaysOneOf(children[k], holds[k])
      BY <2>3, FirstAlternative
    <3>7. SaysOneOf(f[k], holds[k]) /\ f[k].text # <<>>
      BY <2>3, <3>4, <3>6 DEF SaysOneOf, IsText, Result
    <3>8. QED  BY <3>5, <3>7 DEF k
  <2>7. CASE n # 0
    <3>1. f[k].text = Joined(f[n].text, "OR", children[k].text)
      BY <2>5 DEF Result
    <3>2. /\ SaysOneOf(Result(Joined(f[n].text, "OR", children[k].text),
                              f[n].params \o children[k].params),
                       OneHolds(holds, n) \cup holds[k])
          /\ Joined(f[n].text, "OR", children[k].text) # <<>>
      BY <2>3, <2>7, <2>a, NextAlternative
    <3>3. QED  BY <2>4, <2>5, <3>1, <3>2 DEF k
  <2>8. QED  BY <2>6, <2>7
<1> HIDE DEF S
<1>5. Nat \subseteq S
  BY <1>3, <1>4, Induction
<1> DEFINE r == f[Len(children)]
           R == OneHolds(holds, Len(children))
<1>6. SaysOneOf(r, R) /\ r.text # <<>>
  BY <1>1, <1>5 DEF S
<1>7. CreateExpression(children, "OR") = Result(Parenthesized(r.text), r.params)
  BY <1>2
<1> HIDE DEF r, R
<1>8. Says(Result(Parenthesized(r.text), r.params), R) /\ Parenthesized(r.text) # <<>>
  BY <1>6, OneOfInParentheses
<1>9. QED  BY <1>7, <1>8 DEF R, Result

-----------------------------------------------------------------------------
(* Filters of every depth.                                                 *)

LEMMA StaticFilters ==
  \A n \in 0 .. Depth : Static[n] \subseteq FilterTree[n]
<1> DEFINE S == {n \in Nat : n <= Depth => Static[n] \subseteq FilterTree[n]}
<1>1. 0 \in S
  <2>1. Static[0] = Simple /\ Simple \subseteq FilterTree[0]
    <3>1. 0 \in 0 .. Depth
      BY FilterAssumption
    <3>2. Static[0] = Simple
      BY <3>1, StaticIs
    <3>3. Simple \subseteq FilterTree[0]
      BY <3>1, TreeIs
    <3>4. QED  BY <3>2, <3>3
  <2>2. QED  BY <2>1
<1>2. ASSUME NEW n \in Nat, n \in S  PROVE n + 1 \in S
  <2>1. SUFFICES ASSUME n + 1 <= Depth  PROVE Static[n + 1] \subseteq FilterTree[n + 1]
    OBVIOUS
  <2>2. n + 1 \in 0 .. Depth /\ (n + 1) - 1 = n /\ n + 1 # 0 /\ Static[n] \subseteq FilterTree[n]
    BY <1>2, <2>1, FilterAssumption
  <2>3. Static[n + 1] = Simple \cup Compound(Static[n], Static[n])
    BY <2>2, StaticIs
  <2>4. Simple \cup Compound(FilterTree[n], Static[n]) \subseteq FilterTree[n + 1]
    BY <2>2, TreeIs
  <2>5. Compound(Static[n], Static[n]) \subseteq Compound(FilterTree[n], Static[n])
    <3> DEFINE A == Static[n]
               B == FilterTree[n]
    <3> HIDE DEF A, B
    <3>1. A \subseteq B => SomeOf(A) \subseteq SomeOf(B)
      BY SeqMonotonic DEF SomeOf
    <3>2. A \subseteq B => Compound(A, A) \subseteq Compound(B, A)
      BY <3>1 DEF Compound
    <3>3. QED  BY <2>2, <3>2 DEF A, B
  <2>6. QED  BY <2>3, <2>4, <2>5
<1> HIDE DEF S
<1>3. Nat \subseteq S
  BY <1>1, <1>2, Induction
<1>4. QED  BY <1>3, FilterAssumption DEF S

LEMMA SimpleTranslates ==
  ASSUME NEW column \in Seq(Identifier), NEW filter \in Simple, NEW below, NEW under,
         TransformFilter(column, filter, below) # Throws
  PROVE  /\ Says(TransformFilter(column, filter, below), FilterHolds(column, filter, under))
         /\ TransformFilter(column, filter, below).text # <<>>
<1> DEFINE r == TransformFilter(column, filter, below)
           R == FilterHolds(column, filter, under)
<1>1. CASE filter.filter_type = "IS_NULL"
  <2>1. r = Result(<<[kind |-> "IS_NULL", column |-> column]>>, <<>>)
    BY <1>1 DEF TransformFilter
  <2>2. R = {row \in Row : row[column] = Null}
    BY <1>1 DEF FilterHolds
  <2>3. Says(r, R)
    BY <2>1, <2>2, NullTests, Zenon
  <2>4. QED  BY <2>1, <2>3 DEF Result
<1>2. CASE filter.filter_type = "IS_NOT_NULL"
  <2>1. r = Result(<<[kind |-> "IS_NOT_NULL", column |-> column]>>, <<>>)
    BY <1>2 DEF TransformFilter
  <2>2. R = {row \in Row : row[column] # Null}
    BY <1>2 DEF FilterHolds
  <2>3. Says(r, R)
    BY <2>1, <2>2, NullTests, Zenon
  <2>4. QED  BY <2>1, <2>3 DEF Result
<1>3. CASE filter.filter_type = "CONSTANT_COMPARISON"
  <2> DEFINE c == filter.comparison
             v == filter.constant
  <2>1. r = TransformConstantFilter(column, filter)
    BY <1>3 DEF TransformFilter
  <2>2. c \in DOMAIN Comparison
    BY <2>1 DEF TransformConstantFilter
  <2>3. r = Result(<<[kind |-> "?", column |-> column, op |-> Comparison[c]]>>, <<v>>)
    BY <2>1, <2>2 DEF TransformConstantFilter
  <2>4. R = {row \in Row : Related(c, row[column], v)}
    BY <1>3 DEF FilterHolds
  <2>5. v \in Value
    BY <1>3 DEF Simple
  <2> HIDE DEF c, v
  <2>6. QED  BY <2>2, <2>3, <2>4, <2>5, ComparisonMeans DEF Result
<1>4. CASE filter.filter_type = "IN_FILTER"
  <2> DEFINE values == filter.values
  <2>1. r = Result(<<[kind |-> "IN", column |-> column, size |-> Len(values)]>>, values)
    BY <1>4 DEF TransformFilter
  <2>2. R = {row \in Row : \E i \in DOMAIN values :
                             row[column] # Null /\ row[column] = values[i]}
    BY <1>4 DEF FilterHolds
  <2>3. values \in Seq(Value)
    BY <1>4 DEF Simple, SomeOf
  <2> HIDE DEF values
  <2>4. Says(r, R)
    BY <2>1, <2>2, <2>3, InMeans, Zenon
  <2>5. QED  BY <2>1, <2>4 DEF Result
<1>5. CASE filter.filter_type = "EXPRESSION"
  <2>1. r = Throws
    BY <1>5 DEF TransformFilter
  <2>2. QED  BY <2>1
<1>6. QED  BY <1>1, <1>2, <1>3, <1>4, <1>5 DEF Simple

Translates(n) ==
  \A x \in Filtered(n) :
    Transformed[n][x] # Throws =>
      /\ Says(Transformed[n][x], Holding[n][x])
      /\ x[2] \in Static[n] => Transformed[n][x].text # <<>>

\* What f has for child filters of a column.
Below(f, column, child_filters) == [i \in DOMAIN child_filters |-> f[<<column, child_filters[i]>>]]

\* The results for child filters say what the child filters do.
LEMMA ChildrenTranslate ==
  ASSUME NEW n \in 0 .. Depth, Translates(n), NEW column \in Seq(Identifier),
         NEW child_filters \in Seq(FilterTree[n]), NEW op,
         CreateExpression(Below(Transformed[n], column, child_filters), op) # Throws
  PROVE  LET children == Below(Transformed[n], column, child_filters)
         IN  /\ ChildrenSay(children, Below(Holding[n], column, child_filters))
             /\ Len(children) = Len(child_filters)
             /\ child_filters \in Seq(Static[n]) =>
                  \A i \in 1 .. Len(children) : children[i].text # <<>>
<1> DEFINE children == Below(Transformed[n], column, child_filters)
           holds == Below(Holding[n], column, child_filters)
<1>0. /\ children = [i \in DOMAIN child_filters |-> Transformed[n][<<column, child_filters[i]>>]]
      /\ holds = [i \in DOMAIN child_filters |-> Holding[n][<<column, child_filters[i]>>]]
      /\ CreateExpression(children, op) # Throws
  BY DEF Below
<1> HIDE DEF children, holds
<1>1. Len(child_filters) \in Nat /\ DOMAIN child_filters = 1 .. Len(child_filters)
  OBVIOUS
<1>2. DOMAIN children = 1 .. Len(child_filters) /\ Len(children) = Len(child_filters)
  BY <1>0, <1>1
<1>3. \A i \in DOMAIN children : children[i] # Throws
  BY <1>0 DEF CreateExpression
<1>4. ASSUME NEW i \in 1 .. Len(children)
      PROVE  /\ children[i] # Throws /\ Says(children[i], holds[i])
             /\ child_filters \in Seq(Static[n]) => children[i].text # <<>>
  <2> DEFINE x == <<column, child_filters[i]>>
  <2>1. child_filters[i] \in FilterTree[n]
    BY <1>2
  <2>2. x \in Filtered(n) /\ x[2] = child_filters[i]
    BY <2>1 DEF Filtered
  <2>3. children[i] = Transformed[n][x] /\ holds[i] = Holding[n][x]
    BY <1>0, <1>1, <1>2
  <2>4. child_filters \in Seq(Static[n]) => x[2] \in Static[n]
    BY <1>2, <2>2
  <2> HIDE DEF x
  <2>5. Transformed[n][x] # Throws
    BY <1>2, <1>3, <2>3
  <2>6. QED  BY <2>2, <2>3, <2>4, <2>5 DEF Translates
<1>5. ChildrenSay(children, holds)
  BY <1>1, <1>2, <1>4 DEF ChildrenSay
<1>6. QED  BY <1>2, <1>4, <1>5 DEF children, holds

LEMMA CompoundTranslates ==
  ASSUME NEW n \in Nat, n + 1 \in 0 .. Depth, Translates(n),
         NEW column \in Seq(Identifier), NEW filter \in Compound(FilterTree[n], Static[n]),
         TransformFilter(column, filter, Transformed[n]) # Throws
  PROVE  /\ Says(TransformFilter(column, filter, Transformed[n]),
                 FilterHolds(column, filter, Holding[n]))
         /\ filter \in Static[n + 1] =>
              TransformFilter(column, filter, Transformed[n]).text # <<>>
<1> DEFINE r == TransformFilter(column, filter, Transformed[n])
           R == FilterHolds(column, filter, Holding[n])
           inside == filter.child_filters
           children == Below(Transformed[n], column, inside)
           holds == Below(Holding[n], column, inside)
<1>0. n \in 0 .. Depth
  BY FilterAssumption
<1>1. filter \in Static[n + 1] => filter \in Simple \cup Compound(Static[n], Static[n])
  <2>1. n + 1 # 0 /\ (n + 1) - 1 = n
    OBVIOUS
  <2>2. QED  BY <2>1, StaticIs
<1>2. CASE filter.filter_type = "CONJUNCTION_AND"
  <2>1. inside \in Seq(FilterTree[n]) /\ inside # <<>>
    BY <1>2 DEF Compound, SomeOf
  <2>2. filter \in Static[n + 1] => inside \in Seq(Static[n])
    BY <1>1, <1>2 DEF Compound, Simple, SomeOf
  <2>3. r = CreateExpression(children, "AND")
    BY <1>2 DEF TransformFilter, Below
  <2>4. Len(inside) # 0 /\ DOMAIN inside = 1 .. Len(inside)
    BY <2>1
  <2>5. R = AllHold(holds, Len(inside))
    BY <1>2, <2>4 DEF FilterHolds, AllHold, Below
  <2> HIDE DEF inside, R
  <2>6. CreateExpression(children, "AND") # Throws
    BY <2>3
  <2>7. /\ ChildrenSay(children, holds) /\ Len(children) = Len(inside)
        /\ inside \in Seq(Static[n]) => \A i \in 1 .. Len(children) : children[i].text # <<>>
    BY <1>0, <2>1, <2>6, ChildrenTranslate
  <2> HIDE DEF r, children, holds
  <2>8. /\ Says(CreateExpression(children, "AND"), AllHold(holds, Len(children)))
        /\ (Len(children) # 0 /\ \A i \in 1 .. Len(children) : children[i].text # <<>>)
             => CreateExpression(children, "AND").text # <<>>
    BY <2>7, AndMeans
  <2>9. Says(r, R) /\ (filter \in Static[n + 1] => r.text # <<>>)
    BY <2>2, <2>3, <2>4, <2>5, <2>7, <2>8
  <2>10. QED  BY <2>9 DEF r, R
<1>3. CASE filter.filter_type = "CONJUNCTION_OR"
  <2>1. inside \in Seq(Static[n]) /\ inside # <<>>
    BY <1>3 DEF Compound, SomeOf
  <2>2. inside \in Seq(FilterTree[n])
    <3>1. Static[n] \subseteq FilterTree[n]
      BY <1>0, StaticFilters
    <3> HIDE DEF inside
    <3>2. QED  BY <2>1, <3>1, SeqMonotonic
  <2>3. r = CreateExpression(children, "OR")
    BY <1>3 DEF TransformFilter, Below
  <2>4. Len(inside) # 0 /\ DOMAIN inside = 1 .. Len(inside)
    BY <2>1
  <2>5. R = OneHolds(holds, Len(inside))
    BY <1>3, <2>4 DEF FilterHolds, OneHolds, Below
  <2> HIDE DEF inside, R
  <2>6. CreateExpression(children, "OR") # Throws
    BY <2>3
  <2>7. /\ ChildrenSay(children, holds) /\ Len(children) = Len(inside)
        /\ \A i \in 1 .. Len(children) : children[i].text # <<>>
    BY <1>0, <2>1, <2>2, <2>6, ChildrenTranslate
  <2> HIDE DEF r, children, holds
  <2>8. /\ Says(CreateExpression(children, "OR"), OneHolds(holds, Len(children)))
        /\ CreateExpression(children, "OR").text # <<>>
    BY <2>4, <2>7, OrMeans
  <2>9. Says(r, R) /\ r.text # <<>>
    BY <2>3, <2>5, <2>7, <2>8
  <2>10. QED  BY <2>9 DEF r, R
<1>4. CASE filter.filter_type = "STRUCT_EXTRACT"
  <2> DEFINE x == <<Append(column, filter.child_name), filter.child_filter>>
  <2>1. filter.child_name \in Identifier /\ filter.child_filter \in FilterTree[n]
    BY <1>4 DEF Compound
  <2>2. x \in Filtered(n) /\ x[2] = filter.child_filter
    <3>1. Append(column, filter.child_name) \in Seq(Identifier)
      BY <2>1, AppendProperties
    <3>2. QED  BY <2>1, <3>1 DEF Filtered
  <2>3. filter \in Static[n + 1] => x[2] \in Static[n]
    BY <1>1, <1>4 DEF Compound, Simple
  <2>4. r = Transformed[n][x] /\ R = Holding[n][x]
    BY <1>4 DEF TransformFilter, FilterHolds
  <2> HIDE DEF x
  <2>5. Says(r, R) /\ (filter \in Static[n + 1] => r.text # <<>>)
    <3> HIDE DEF R
    <3>1. QED  BY <2>2, <2>3, <2>4 DEF Translates
  <2>6. QED  BY <2>5
<1>5. CASE filter.filter_type = "OPTIONAL_FILTER"
  <2> DEFINE x == <<column, filter.child_filter>>
  <2>1. filter.child_filter \in FilterTree[n]
    BY <1>5 DEF Compound
  <2>2. x \in Filtered(n) /\ x[2] = filter.child_filter
    BY <2>1 DEF Filtered
  <2>3. filter \in Static[n + 1] => x[2] \in Static[n]
    BY <1>1, <1>5 DEF Compound, Simple
  <2>4. r = Transformed[n][x] /\ R = Holding[n][x]
    BY <1>5 DEF TransformFilter, FilterHolds
  <2> HIDE DEF x
  <2>5. Says(r, R) /\ (filter \in Static[n + 1] => r.text # <<>>)
    <3> HIDE DEF R
    <3>1. QED  BY <2>2, <2>3, <2>4 DEF Translates
  <2>6. QED  BY <2>5
<1>6. QED  BY <1>2, <1>3, <1>4, <1>5 DEF Compound

\* What TransformFilter returns for a filter means what the filter does, in any
\* place of any clause and however deep the filter is; the text is only empty
\* where a dynamic filter is involved.
THEOREM FilterTranslation ==
  \A n \in 0 .. Depth : Translates(n)
<1> DEFINE S == {n \in Nat : n <= Depth => Translates(n)}
<1>1. ASSUME NEW n \in 0 .. Depth, NEW x \in Filtered(n), x[2] \in Simple, Transformed[n][x] # Throws
      PROVE  Says(Transformed[n][x], Holding[n][x]) /\ Transformed[n][x].text # <<>>
  <2> DEFINE below == IF n = 0 THEN <<>> ELSE Transformed[n - 1]
             under == IF n = 0 THEN <<>> ELSE Holding[n - 1]
  <2>1. Transformed[n][x] = TransformFilter(x[1], x[2], below)
    BY TransformedIs
  <2>2. Holding[n][x] = FilterHolds(x[1], x[2], under)
    BY HoldingIs
  <2>3. x[1] \in Seq(Identifier)
    BY DEF Filtered
  <2> HIDE DEF below, under
  <2> DEFINE column == x[1]  filter == x[2]
  <2>4. column \in Seq(Identifier) /\ filter \in Simple /\ TransformFilter(column, filter, below) # Throws
    BY <1>1, <2>1, <2>3
  <2> HIDE DEF column, filter
  <2>5. /\ Says(TransformFilter(column, filter, below), FilterHolds(column, filter, under))
        /\ TransformFilter(column, filter, below).text # <<>>
    BY <2>4, SimpleTranslates
  <2>6. QED  BY <2>1, <2>2, <2>5 DEF column, filter
<1>2. ASSUME NEW n \in 0 .. Depth, NEW x \in Filtered(n), x[2] \in [filter_type : {"DYNAMIC_FILTER"}]
      PROVE  Says(Transformed[n][x], Holding[n][x])
  <2>1. x[2].filter_type = "DYNAMIC_FILTER"
    BY <1>2
  <2>2. Transformed[n][x] = Result(<<>>, <<>>)
    <3> DEFINE below == IF n = 0 THEN <<>> ELSE Transformed[n - 1]
    <3>1. Transformed[n][x] = TransformFilter(x[1], x[2], below)
      BY TransformedIs
    <3> HIDE DEF below
    <3>2. QED  BY <2>1, <3>1 DEF TransformFilter
  <2>3. Holding[n][x] = Row
    <3> DEFINE under == IF n = 0 THEN <<>> ELSE Holding[n - 1]
    <3>1. Holding[n][x] = FilterHolds(x[1], x[2], under)
      BY HoldingIs
    <3> HIDE DEF under
    <3>2. QED  BY <2>1, <3>1 DEF FilterHolds
  <2>4. QED  BY <2>2, <2>3, SaysNothing
\* A dynamic filter is none of the static ones.
<1>3. ASSUME NEW n \in 0 .. Depth, NEW filter \in Static[n]  PROVE filter.filter_type # "DYNAMIC_FILTER"
  <2>1. filter \in Simple \/ filter \in Compound(Static[n - 1], Static[n - 1])
    BY StaticIs
  <2>2. QED  BY <2>1 DEF Simple, Compound
<1>4. 0 \in S
  <2>1. SUFFICES ASSUME NEW x \in Filtered(0), Transformed[0][x] # Throws
                 PROVE  /\ Says(Transformed[0][x], Holding[0][x])
                        /\ x[2] \in Static[0] => Transformed[0][x].text # <<>>
    BY DEF Translates
  <2>2. 0 \in 0 .. Depth
    BY FilterAssumption
  <2>3. x[2] \in Simple \/ x[2] \in [filter_type : {"DYNAMIC_FILTER"}]
    <3>1. FilterTree[0] = Simple \cup [filter_type : {"DYNAMIC_FILTER"}] \cup {}
      BY <2>2, TreeIs
    <3>2. QED  BY <3>1 DEF Filtered
  <2>4. x[2] \in [filter_type : {"DYNAMIC_FILTER"}] => x[2] \notin Static[0]
    BY <1>3, <2>2
  <2>5. QED  BY <1>1, <1>2, <2>1, <2>2, <2>3, <2>4
<1>5. ASSUME NEW n \in Nat, n \in S  PROVE n + 1 \in S
  <2>1. SUFFICES ASSUME n + 1 <= Depth  PROVE Translates(n + 1)
    OBVIOUS
  <2>2. n + 1 \in 0 .. Depth /\ (n + 1) - 1 = n /\ n + 1 # 0 /\ n \in 0 .. Depth /\ Translates(n)
    BY <1>5, <2>1, FilterAssumption
  <2>3. SUFFICES ASSUME NEW x \in Filtered(n + 1), Transformed[n + 1][x] # Throws
                 PROVE  /\ Says(Transformed[n + 1][x], Holding[n + 1][x])
                        /\ x[2] \in Static[n + 1] => Transformed[n + 1][x].text # <<>>
    BY DEF Translates
  <2>4. \/ x[2] \in Simple \/ x[2] \in [filter_type : {"DYNAMIC_FILTER"}]
        \/ x[2] \in Compound(FilterTree[n], Static[n])
    <3>1. FilterTree[n + 1] = Simple \cup [filter_type : {"DYNAMIC_FILTER"}]
                                \cup Compound(FilterTree[n], Static[n])
      BY <2>2, TreeIs
    <3>2. QED  BY <3>1 DEF Filtered
  <2>5. CASE x[2] \in Simple
    BY <1>1, <2>2, <2>3, <2>5
  <2>6. CASE x[2] \in [filter_type : {"DYNAMIC_FILTER"}]
    <3>1. x[2] \notin Static[n + 1]
      BY <1>3, <2>2, <2>6
    <3>2. QED  BY <1>2, <2>2, <2>6, <3>1
  <2>7. CASE x[2] \in Compound(FilterTree[n], Static[n])
    <3> DEFINE column == x[1]  filter == x[2]
    <3>1. /\ Transformed[n + 1][x] = TransformFilter(column, filter, Transformed[n])
          /\ Holding[n + 1][x] = FilterHolds(column, filter, Holding[n])
      BY <2>2, TransformedIs, HoldingIs
    <3>2. /\ column \in Seq(Identifier) /\ filter \in Compound(FilterTree[n], Static[n])
          /\ TransformFilter(column, filter, Transformed[n]) # Throws
      BY <2>3, <2>7, <3>1 DEF Filtered
    <3> HIDE DEF column, filter
    <3>3. /\ Says(TransformFilter(column, filter, Transformed[n]),
                  FilterHolds(column, filter, Holding[n]))
          /\ filter \in Static[n + 1] =>
               TransformFilter(column, filter, Transformed[n]).text # <<>>
      BY <2>2, <3>2, CompoundTranslates
    <3>4. QED  BY <3>1, <3>3 DEF column, filter
  <2>8. QED  BY <2>4, <2>5, <2>6, <2>7
<1> HIDE DEF S
<1>6. Nat \subseteq S
  BY <1>4, <1>5, Induction
<1>7. QED  BY <1>6, FilterAssumption DEF S

-----------------------------------------------------------------------------
(* The clause.                                                             *)

\* The rows that the filters gone through hold of.
RowsSoFar == {row \in Row : \A i \in DOMAIN filters \ next : Pushable(i) => row \in Holds(i)}

\* What there is of the clause always means what is done of the filters.
PushdownInv ==
  /\ column_ids \in ColumnIds
  /\ DOMAIN filters \subseteq DOMAIN column_ids
  /\ \A i \in DOMAIN filters : filters[i] \in Filter
  /\ next \subseteq DOMAIN filters
  /\ threw \in BOOLEAN
  /\ ~threw => Says(Result(where_clause, params), RowsSoFar)

LEMMA PathOf ==
  ASSUME PushdownInv, NEW i \in DOMAIN filters, Pushable(i)
  PROVE  /\ <<Path(i), filters[i]>> \in Filtered(Depth)
         /\ Transformed[Depth][<<Path(i), filters[i]>>] # Throws =>
              Says(Transformed[Depth][<<Path(i), filters[i]>>], Holds(i))
<1>1. column_ids \in Seq(Nat \cup {Virtual}) /\ i \in DOMAIN column_ids
  BY FilterAssumption DEF PushdownInv
<1>2. column_ids[i] \in Nat /\ column_ids[i] < Len(Name)
  <2>1. column_ids[i] \in Nat \cup {Virtual}
    BY <1>1
  <2>2. QED  BY <2>1 DEF Pushable
<1>3. Name[column_ids[i] + 1] \in Identifier
  <2> DEFINE k == column_ids[i]
  <2>1. k \in Nat /\ k < Len(Name)
    BY <1>2
  <2> HIDE DEF k
  <2>2. k + 1 \in 1 .. Len(Name) /\ Name \in Seq(Identifier)
    BY <2>1, FilterAssumption
  <2>3. Name[k + 1] \in Identifier
    BY <2>2, ElementOfSeq
  <2>4. QED  BY <2>3 DEF k
<1>4. Path(i) \in Seq(Identifier)
  BY <1>3 DEF Path
<1> DEFINE x == <<Path(i), filters[i]>>
<1>5. filters[i] \in FilterTree[Depth]
  BY FilterAssumption DEF PushdownInv
<1>6. x \in Filtered(Depth)
  BY <1>4, <1>5 DEF Filtered
<1>7. Holds(i) = Holding[Depth][x]
  BY DEF Holds
<1> HIDE DEF x
<1>8. Translates(Depth)
  BY FilterTranslation, FilterAssumption
<1>9. Transformed[Depth][x] # Throws => Says(Transformed[Depth][x], Holding[Depth][x])
  BY <1>6, <1>8 DEF Translates
<1>10. QED  BY <1>6, <1>7, <1>9 DEF x

LEMMA PushdownInvInit ==
  PushdownInit => PushdownInv
<1>1. SUFFICES ASSUME PushdownInit  PROVE PushdownInv
  OBVIOUS
<1>2. PICK s \in SUBSET DOMAIN column_ids : filters \in [s -> Filter]
  BY <1>1 DEF PushdownInit
<1>3. RowsSoFar = Row
  BY <1>1 DEF PushdownInit, RowsSoFar
<1>4. Says(Result(where_clause, params), RowsSoFar)
  BY <1>1, <1>3, SaysNothing DEF PushdownInit
<1>5. QED  BY <1>1, <1>2, <1>4 DEF PushdownInit, PushdownInv

LEMMA PushdownInvNext ==
  PushdownInv /\ [PushdownNext]_pushdown_vars => PushdownInv'
<1>1. SUFFICES ASSUME PushdownInv, [PushdownNext]_pushdown_vars  PROVE PushdownInv'
  OBVIOUS
<1>2. CASE UNCHANGED pushdown_vars
  <2>1. RowsSoFar' = RowsSoFar
    BY <1>2 DEF pushdown_vars, RowsSoFar, Pushable, Holds, Path
  <2>2. QED  BY <1>1, <1>2, <2>1 DEF pushdown_vars, PushdownInv
<1>3. CASE TransformFilters
  <2>1. PICK i \in next : next' = next \ {i} /\ (Skip(i) \/ Throw(i) \/ Push(i))
    BY <1>3 DEF TransformFilters
  <2>2. /\ column_ids' = column_ids /\ filters' = filters /\ threw = FALSE
        /\ i \in DOMAIN filters /\ i \notin DOMAIN filters \ next
        /\ DOMAIN filters \ next' = (DOMAIN filters \ next) \cup {i}
    BY <1>1, <1>3, <2>1 DEF TransformFilters, PushdownInv
  <2>3. /\ column_ids' \in ColumnIds /\ DOMAIN filters' \subseteq DOMAIN column_ids'
        /\ (\A j \in DOMAIN filters : filters[j] \in Filter)'
        /\ next' \subseteq DOMAIN filters'
    BY <1>1, <2>1, <2>2 DEF PushdownInv
  <2>4. RowsSoFar' =
          {row \in Row : \A j \in (DOMAIN filters \ next) \cup {i} : Pushable(j) => row \in Holds(j)}
    BY <2>2 DEF RowsSoFar, Pushable, Holds, Path
  <2>5. Says(Result(where_clause, params), RowsSoFar)
    BY <1>1, <2>2 DEF PushdownInv
  <2>6. CASE Skip(i)
    <3>1. RowsSoFar' = RowsSoFar
      BY <2>4, <2>6 DEF Skip, RowsSoFar
    <3>2. QED  BY <1>1, <2>3, <2>5, <2>6, <3>1 DEF Skip, PushdownInv
  <2>7. CASE Throw(i)
    BY <2>3, <2>7 DEF Throw, PushdownInv
  <2>8. CASE Push(i)
    <3> DEFINE r == Transformed[Depth][<<Path(i), filters[i]>>]
    <3>1. /\ Pushable(i) /\ r # Throws /\ threw' = threw
          /\ where_clause' = Joined(where_clause, "AND", r.text)
          /\ params' = params \o r.params
      BY <2>8 DEF Push
    <3>2. Says(r, Holds(i))
      BY <1>1, <2>2, <3>1, PathOf
    <3>3. RowsSoFar' = RowsSoFar \cap Holds(i)
      <4>1. Holds(i) \subseteq Row
        BY <3>2 DEF Says
      <4>2. QED  BY <2>4, <3>1, <4>1 DEF RowsSoFar
    <3> HIDE DEF r
    <3>4. Says(Result(Joined(where_clause, "AND", r.text), params \o r.params),
               RowsSoFar \cap Holds(i))
      <4> DEFINE s == Result(where_clause, params)
      <4>1. s.text = where_clause /\ s.params = params
        BY DEF Result
      <4> HIDE DEF s
      <4> DEFINE R == RowsSoFar  H == Holds(i)
      <4>2. Says(s, R) /\ Says(r, H)
        BY <2>5, <3>2 DEF s
      <4> HIDE DEF R, H
      <4>3. Says(Result(Joined(s.text, "AND", r.text), s.params \o r.params), R \cap H)
        BY <4>2, SaysBoth
      <4>4. QED  BY <4>1, <4>3 DEF R, H
    <3>5. Says(Result(where_clause', params'), RowsSoFar')
      BY <3>1, <3>3, <3>4
    <3>6. QED  BY <1>1, <2>3, <3>1, <3>5 DEF PushdownInv
  <2>9. QED  BY <2>1, <2>6, <2>7, <2>8
<1>4. QED  BY <1>1, <1>2, <1>3 DEF PushdownNext

\* The clause so far means the filters gone through so far, at every step.
THEOREM PushdownInvInvariant ==
  PushdownSpec => []PushdownInv
<1>1. QED  BY PushdownInvInit, PushdownInvNext, PTL DEF PushdownSpec

\* The clause selects the rows that the filters on columns of the table hold of.
LEMMA ClauseSelects ==
  PushdownInv => WhereIsTheFilters
<1>1. SUFFICES ASSUME PushdownInv, next = {}, ~threw
               PROVE  LET end == Reading(where_clause, params, Beginning)
                      IN  /\ end.at = Len(params) + 1
                          /\ end.any \cup end.all =
                               {row \in Row : \A i \in DOMAIN filters : Pushable(i) => row \in Holds(i)}
  BY DEF WhereIsTheFilters, Finished
<1>2. /\ where_clause \in Seq(Token) /\ params \in Seq(Value) /\ RowsSoFar \in SUBSET Row
      /\ Means(where_clause, params, RowsSoFar)
  BY <1>1 DEF PushdownInv, Says, IsText, Result
<1>3. MeansAt(where_clause, params, RowsSoFar, {}, Row, <<>>, 1, params)
  BY <1>2, Zenon DEF Means
<1>4. Fits(params, 1, params)
  BY <1>2 DEF Fits
<1>5. Reading(where_clause, params, Beginning)
        = Place({}, Row \cap RowsSoFar, <<>>, 1 + Len(params))
  BY <1>3, <1>4 DEF MeansAt, Beginning
<1>6. RowsSoFar = {row \in Row : \A i \in DOMAIN filters : Pushable(i) => row \in Holds(i)}
  BY <1>1 DEF RowsSoFar
<1> DEFINE end == Reading(where_clause, params, Beginning)
<1>7. end.any = {} /\ end.all = Row \cap RowsSoFar /\ end.at = 1 + Len(params)
  BY <1>5 DEF Place
<1>8. Len(params) \in Nat /\ Row \cap RowsSoFar = RowsSoFar
  BY <1>2
<1>9. QED  BY <1>6, <1>7, <1>8

\* When TransformFilters returns a clause, it selects exactly the rows that the
\* filters hold of, and its parameters are as many as its placeholders.
THEOREM WhereIsTheFiltersTheorem ==
  PushdownSpec => []WhereIsTheFilters
<1>1. QED  BY PushdownInvInvariant, ClauseSelects, PTL

-----------------------------------------------------------------------------
(* Statistics: what has been read is true of a table that the              *)
(* driver's answer is about.                                               *)

TrueRowCount == \E t \in described : estimated_row_count = Len(t)

TrueNullCount(c) ==
  \E t \in described : column_statistics[c].null_count = Cardinality(Nulls(t, c))

TrueMin(c) ==
  \E t \in described : \A v \in Values(t, c) : column_statistics[c].min_value <= v

TrueMax(c) ==
  \E t \in described : \A v \in Values(t, c) : v <= column_statistics[c].max_value

Facts ==
  /\ estimated_row_count # None => TrueRowCount
  /\ \A c \in Column :
       /\ column_statistics[c].null_count # None => TrueNullCount(c)
       /\ column_statistics[c].min_value # None => TrueMin(c)
       /\ column_statistics[c].max_value # None => TrueMax(c)

Empty ==
  pc = "idle" =>
    estimated_row_count = None /\ column_statistics = [c \in Column |-> NoStatistics]

IInv == TypeOK /\ Facts /\ Empty

StatisticsRecord ==
  [distinct_count : Nat \cup {None}, null_count : Nat \cup {None},
   min_value : Nat \cup {None}, max_value : Nat \cup {None}]

-----------------------------------------------------------------------------
(* Lemmas about the statistics of a table.                                 *)

LEMMA TableType ==
  ASSUME NEW t \in Table
  PROVE  /\ t \in Seq([Column -> Nat]) /\ Len(t) \in Nat /\ DOMAIN t = 1 .. Len(t)
         /\ \A i \in DOMAIN t, c \in Column : t[i][c] \in Nat
<1>1. t \in Seq([Column -> Nat])
  BY StatisticsAssumption
<1>2. QED  BY <1>1

\* The nulls of a column are some of the rows, and can be counted.
LEMMA NullsCounted ==
  ASSUME NEW t \in Table, NEW c \in Column
  PROVE  /\ IsFiniteSet(Nulls(t, c)) /\ Cardinality(Nulls(t, c)) \in Nat
         /\ Cardinality(Nulls(t, c)) = Len(t) => Nulls(t, c) = DOMAIN t
<1>1. Len(t) \in Nat /\ DOMAIN t = 1 .. Len(t)
  BY TableType
<1>a. 1 \in Int /\ Len(t) \in Int /\ Len(t) - 1 + 1 = Len(t) /\ (1 > Len(t) => Len(t) = 0)
  BY <1>1
<1>b. /\ IsFiniteSet(1 .. Len(t))
      /\ Cardinality(1 .. Len(t)) = IF 1 > Len(t) THEN 0 ELSE Len(t) - 1 + 1
  BY <1>a, FS_Interval
<1>2. IsFiniteSet(1 .. Len(t)) /\ Cardinality(1 .. Len(t)) = Len(t)
  BY <1>a, <1>b
<1>3. Nulls(t, c) \in SUBSET (1 .. Len(t))
  BY <1>1 DEF Nulls
<1>4. QED  BY <1>1, <1>2, <1>3, FS_Subset, FS_CardinalityType

\* So can its values.
LEMMA ValuesCounted ==
  ASSUME NEW t \in Table, NEW c \in Column
  PROVE  Values(t, c) \subseteq Nat /\ Cardinality(Values(t, c)) \in Nat
<1> DEFINE all == {t[i][c] : i \in DOMAIN t}
           f == [i \in DOMAIN t |-> t[i][c]]
<1>1. Len(t) \in Nat /\ DOMAIN t = 1 .. Len(t) /\ IsFiniteSet(DOMAIN t)
  BY TableType, FS_Interval
<1>2. f \in Surjection(DOMAIN t, all)
  BY DEF Surjection
<1>3. IsFiniteSet(all)
  BY <1>1, <1>2, FS_Surjection
<1>4. Values(t, c) \in SUBSET all
  BY DEF Values
<1>5. Cardinality(Values(t, c)) \in Nat
  BY <1>3, <1>4, FS_Subset, FS_CardinalityType
<1>6. all \subseteq Nat
  BY TableType
<1>7. QED  BY <1>4, <1>5, <1>6

\* What an entry may be: a number, and true of its table.
LEMMA EntryIsTrue ==
  ASSUME NEW t \in Table, NEW c \in Column, NEW e \in Statistics(t, c), e.value # Binary
  PROVE  /\ e.value \in Nat
         /\ e.key = "nulls" => e.value = Cardinality(Nulls(t, c))
         /\ e.key = "min" => \A v \in Values(t, c) : e.value <= v
         /\ e.key = "max" => \A v \in Values(t, c) : v <= e.value
         /\ e.key \in {"nulls", "distinct", "min", "max", "other"}
<1>1. Cardinality(Nulls(t, c)) \in Nat /\ Cardinality(Values(t, c)) \in Nat
      /\ Values(t, c) \subseteq Nat
  BY NullsCounted, ValuesCounted
<1>2. CASE e \in {[key |-> "nulls", value |-> Cardinality(Nulls(t, c))],
                  [key |-> "distinct", value |-> Cardinality(Values(t, c))],
                  [key |-> "other", value |-> 1]}
  BY <1>1, <1>2
<1>3. CASE \E v \in {w \in Values(t, c) : \A x \in Values(t, c) : w <= x} :
             e = [key |-> "min", value |-> IF c \in Text THEN Binary ELSE v]
  BY <1>1, <1>3
<1>4. CASE \E v \in {w \in Values(t, c) : \A x \in Values(t, c) : x <= w} :
             e = [key |-> "max", value |-> IF c \in Text THEN Binary ELSE v]
  BY <1>1, <1>4
<1>5. QED  BY <1>2, <1>3, <1>4 DEF Statistics

\* An update changes the field of its key and no other.
LEMMA UpdatedFields ==
  ASSUME NEW s \in StatisticsRecord, NEW value \in Nat,
         NEW key \in {"nulls", "distinct", "min", "max", "other"}
  PROVE  /\ Updated(s, key, value) \in StatisticsRecord
         /\ Updated(s, key, value).null_count = IF key = "nulls" THEN value ELSE s.null_count
         /\ Updated(s, key, value).min_value = IF key = "min" THEN value ELSE s.min_value
         /\ Updated(s, key, value).max_value = IF key = "max" THEN value ELSE s.max_value
<1>1. CASE key = "nulls"
  BY <1>1 DEF Updated, StatisticsRecord
<1>2. CASE key = "distinct"
  BY <1>2 DEF Updated, StatisticsRecord
<1>3. CASE key = "min"
  BY <1>3 DEF Updated, StatisticsRecord
<1>4. CASE key = "max"
  BY <1>4 DEF Updated, StatisticsRecord
<1>5. CASE key = "other"
  BY <1>5 DEF Updated, StatisticsRecord
<1>6. QED  BY <1>1, <1>2, <1>3, <1>4, <1>5

-----------------------------------------------------------------------------
LEMMA NoneRead ==
  /\ [c \in Column |-> NoStatistics] \in [Column -> StatisticsRecord]
  /\ \A c \in Column : /\ [d \in Column |-> NoStatistics][c].null_count = None
                       /\ [d \in Column |-> NoStatistics][c].min_value = None
                       /\ [d \in Column |-> NoStatistics][c].max_value = None
  BY DEF NoStatistics, StatisticsRecord

LEMMA InitIInv == Init => IInv
<1> HAVE Init
<1>1. TypeOK
  BY NoneRead DEF Init, TypeOK, StatisticsRecord
<1>2. Facts /\ Empty
  BY NoneRead DEF Init, Facts, Empty
<1>3. QED  BY <1>1, <1>2 DEF IInv

LEMMA StepIInv == IInv /\ [Next]_vars => IInv'
<1> SUFFICES ASSUME IInv, [Next]_vars
             PROVE  IInv'
  OBVIOUS
<1>0. TypeOK /\ Facts /\ Empty /\ column_statistics \in [Column -> StatisticsRecord]
  BY DEF IInv, TypeOK, StatisticsRecord
<1>1. CASE UNCHANGED vars
  BY <1>0, <1>1 DEF IInv, TypeOK, Facts, Empty, TrueRowCount, TrueNullCount, TrueMin, TrueMax, vars
<1>2. CASE GetStatistics
  <2>1. estimated_row_count' = None /\ column_statistics' = [c \in Column |-> NoStatistics]
    BY <1>0, <1>2 DEF GetStatistics, Empty, bind_data
  <2>2. Facts' /\ Empty'
    BY <2>1, NoneRead DEF Facts, Empty
  <2>3. TypeOK'
    BY <1>0, <1>2 DEF GetStatistics, TypeOK, bind_data
  <2>4. QED  BY <2>2, <2>3 DEF IInv
<1>3. CASE ReadTableStatistic
  <2>1. PICK t \in described : \E value \in RowCounts(t) :
          estimated_row_count' = IF value >= 0 THEN value ELSE estimated_row_count
    BY <1>3 DEF ReadTableStatistic
  <2>2. t \in Table /\ Len(t) \in Nat
    BY <1>0, TableType DEF TypeOK
  <2>3. estimated_row_count' = Len(t) \/ estimated_row_count' = estimated_row_count
    BY <2>1, <2>2 DEF RowCounts
  <2>4. TypeOK'
    BY <1>0, <1>3, <2>2, <2>3 DEF ReadTableStatistic, TypeOK
  <2>5. estimated_row_count' # None => TrueRowCount'
    BY <1>0, <1>3, <2>3 DEF ReadTableStatistic, Facts, TrueRowCount
  <2>6. Facts' /\ Empty'
    BY <1>0, <1>3, <2>5
       DEF ReadTableStatistic, Facts, Empty, TrueNullCount, TrueMin, TrueMax
  <2>7. QED  BY <2>4, <2>6 DEF IInv
<1>4. CASE ReadColumnStatistic
  <2>1. PICK t \in described, c \in Column : \E e \in Statistics(t, c) :
          /\ e.value # Binary
          /\ column_statistics' =
               [column_statistics EXCEPT ![c] = Updated(column_statistics[c], e.key, e.value)]
    BY <1>4 DEF ReadColumnStatistic, GotValue
  <2>2. PICK e \in Statistics(t, c) :
          /\ e.value # Binary
          /\ column_statistics' =
               [column_statistics EXCEPT ![c] = Updated(column_statistics[c], e.key, e.value)]
    BY <2>1
  <2>3. t \in Table
    BY <1>0 DEF TypeOK
  <2>4. /\ e.value \in Nat
        /\ e.key = "nulls" => e.value = Cardinality(Nulls(t, c))
        /\ e.key = "min" => \A v \in Values(t, c) : e.value <= v
        /\ e.key = "max" => \A v \in Values(t, c) : v <= e.value
        /\ e.key \in {"nulls", "distinct", "min", "max", "other"}
    BY <2>2, <2>3, EntryIsTrue
  <2> DEFINE s == column_statistics[c]
             u == Updated(s, e.key, e.value)
  <2>5. s \in StatisticsRecord
    BY <1>0
  <2>a. e.key \in {"nulls", "distinct", "min", "max", "other"} /\ e.value \in Nat
    BY <2>4
  <2> HIDE DEF s
  <2>6. /\ u \in StatisticsRecord
        /\ u.null_count = IF e.key = "nulls" THEN e.value ELSE s.null_count
        /\ u.min_value = IF e.key = "min" THEN e.value ELSE s.min_value
        /\ u.max_value = IF e.key = "max" THEN e.value ELSE s.max_value
    BY <2>5, <2>a, UpdatedFields, Zenon
  <2>7. /\ column_statistics'[c] = u
        /\ \A d \in Column : d # c => column_statistics'[d] = column_statistics[d]
        /\ column_statistics' \in [Column -> StatisticsRecord]
    BY <1>0, <2>2, <2>6 DEF s
  <2> HIDE DEF u
  <2>8. UNCHANGED <<table, pc, described, estimated_row_count>> /\ pc = "reading"
    BY <1>4 DEF ReadColumnStatistic, GotValue
  <2>9. TypeOK'
    BY <1>0, <2>7, <2>8 DEF TypeOK, StatisticsRecord
  <2>10. ASSUME NEW d \in Column
         PROVE  /\ column_statistics'[d].null_count # None => TrueNullCount(d)'
                /\ column_statistics'[d].min_value # None => TrueMin(d)'
                /\ column_statistics'[d].max_value # None => TrueMax(d)'
    <3>1. CASE d # c
      <4>1. column_statistics'[d] = column_statistics[d]
        BY <2>7, <3>1
      <4>2. QED
        BY <1>0, <2>8, <4>1 DEF Facts, TrueNullCount, TrueMin, TrueMax
    <3>2. CASE d = c
      <4>1. column_statistics'[d].null_count # None => TrueNullCount(d)'
        <5>1. CASE e.key = "nulls"
          BY <2>4, <2>6, <2>7, <2>8, <3>2, <5>1 DEF TrueNullCount
        <5>2. CASE e.key # "nulls"
          BY <1>0, <2>6, <2>7, <2>8, <3>2, <5>2 DEF Facts, s, TrueNullCount
        <5>3. QED  BY <5>1, <5>2
      <4>2. column_statistics'[d].min_value # None => TrueMin(d)'
        <5>1. CASE e.key = "min"
          BY <2>4, <2>6, <2>7, <2>8, <3>2, <5>1 DEF TrueMin
        <5>2. CASE e.key # "min"
          BY <1>0, <2>6, <2>7, <2>8, <3>2, <5>2 DEF Facts, s, TrueMin
        <5>3. QED  BY <5>1, <5>2
      <4>3. column_statistics'[d].max_value # None => TrueMax(d)'
        <5>1. CASE e.key = "max"
          BY <2>4, <2>6, <2>7, <2>8, <3>2, <5>1 DEF TrueMax
        <5>2. CASE e.key # "max"
          BY <1>0, <2>6, <2>7, <2>8, <3>2, <5>2 DEF Facts, s, TrueMax
        <5>3. QED  BY <5>1, <5>2
      <4>4. QED  BY <4>1, <4>2, <4>3
    <3>3. QED  BY <3>1, <3>2
  <2>11. estimated_row_count' # None => TrueRowCount'
    BY <1>0, <2>8 DEF Facts, TrueRowCount
  <2>12. Facts'
    BY <2>10, <2>11 DEF Facts
  <2>13. Empty'
    BY <2>8 DEF Empty
  <2>14. QED  BY <2>9, <2>12, <2>13 DEF IInv
<1>5. CASE EndOfStatistics
  BY <1>0, <1>5 DEF EndOfStatistics, IInv, TypeOK, Facts, Empty, TrueRowCount,
                    TrueNullCount, TrueMin, TrueMax, bind_data
<1>6. CASE Unbind
  <2>1. Facts' /\ Empty'
    BY <1>6, NoneRead DEF Unbind, Facts, Empty
  <2>2. TypeOK'
    BY <1>0, <1>6, NoneRead DEF Unbind, TypeOK, StatisticsRecord
  <2>3. QED  BY <2>1, <2>2 DEF IInv
<1>7. CASE Alter
  BY <1>0, <1>7 DEF Alter, IInv, TypeOK, Facts, Empty, TrueRowCount, TrueNullCount,
                    TrueMin, TrueMax, bind_data
<1>8. QED
  BY <1>1, <1>2, <1>3, <1>4, <1>5, <1>6, <1>7 DEF Next

\* What has been read is true of a table the answer is about, at every step.
THEOREM IInvInvariant == Spec => []IInv
<1>1. QED  BY InitIInv, StepIInv, PTL DEF Spec

-----------------------------------------------------------------------------
(* Theorems.                                                               *)

\* Every statistic is absent or a number.
THEOREM TypeCorrect == Spec => []TypeOK
<1>1. IInv => TypeOK
  BY DEF IInv
<1>2. QED  BY <1>1, IInvInvariant, PTL

\* The optimizer is never told that a row of the table cannot exist, when the
\* statistics are about the table as it is and about no other.
THEOREM NoRowIsDeniedTheorem == Spec => []NoRowIsDenied
<1>1. IInv => NoRowIsDenied
  <2> SUFFICES ASSUME IInv, described = {table},
                      NEW i \in DOMAIN table, NEW c \in Column
               PROVE  Believed(c, table[i][c])
    BY DEF NoRowIsDenied
  <2>1. table \in Table /\ TypeOK /\ Facts
    BY DEF IInv, TypeOK
  <2>2. table[i][c] \in Nat /\ Len(table) \in Nat
    BY <2>1, TableType
  <2>3. /\ IsFiniteSet(Nulls(table, c))
        /\ Cardinality(Nulls(table, c)) = Len(table) => Nulls(table, c) = DOMAIN table
    BY <2>1, NullsCounted
  <2>4. CASE table[i][c] = NullValue
    <3>1. i \in Nulls(table, c)
      BY <2>4 DEF Nulls
    <3>2. Cardinality(Nulls(table, c)) # 0
      BY <2>3, <3>1, FS_EmptySet
    <3>3. CanHaveNull(c)
      BY <2>1, <3>2 DEF CanHaveNull, CountsKnown, Facts, TrueNullCount
    <3>4. QED  BY <2>4, <3>3 DEF Believed
  <2>5. CASE table[i][c] # NullValue
    <3>1. Cardinality(Nulls(table, c)) # Len(table)
      BY <2>3, <2>5 DEF Nulls
    <3>2. CanHaveValid(c)
      <4> SUFFICES ASSUME CountsKnown(c)
                   PROVE  column_statistics[c].null_count # estimated_row_count
        BY DEF CanHaveValid
      <4>1. column_statistics[c].null_count = Cardinality(Nulls(table, c))
        BY <2>1 DEF CountsKnown, Facts, TrueNullCount
      <4>2. estimated_row_count = Len(table)
        BY <2>1 DEF CountsKnown, Facts, TrueRowCount
      <4>3. QED  BY <3>1, <4>1, <4>2
    <3>3. table[i][c] \in Values(table, c)
      BY <2>5 DEF Values
    <3>4. InBounds(c, table[i][c])
      BY <2>1, <3>3 DEF InBounds, Facts, TrueMin, TrueMax
    <3>5. QED  BY <2>5, <3>2, <3>4 DEF Believed
  <2>6. QED  BY <2>4, <2>5
<1>2. QED  BY <1>1, IInvInvariant, PTL

=============================================================================
