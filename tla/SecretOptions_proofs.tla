------------------------- MODULE SecretOptions_proofs -------------------------
(***************************************************************************)
(* The options of a connection are those of the call and, where the call   *)
(* is silent, those of the secret, for every set of keys, values, secrets  *)
(* and calls.  First what the lists of options are made of, then the merge *)
(* as a function of the call and the secret, then the steps.               *)
(***************************************************************************)
EXTENDS SecretOptions, FiniteSetTheorems, WellFoundedInduction, TLAPS

\* Induction, for a set of numbers in place of a predicate.
LEMMA Induction ==
  ASSUME NEW S, 0 \in S, \A n \in Nat : n \in S => n + 1 \in S
  PROVE  Nat \subseteq S
<1>1. SUFFICES ASSUME Nat \ S # {}  PROVE FALSE
  OBVIOUS
<1>2. PICK x \in Nat \ S : \A y \in Nat \ S : ~(<<y, x>> \in OpToRel(<, Nat))
  <2>1. Nat \ S \subseteq Nat
    OBVIOUS
  <2>2. QED  BY ONLY <1>1, <2>1, NatLessThanWellFounded, WFMin
<1>3. x # 0 /\ x - 1 \in Nat /\ x - 1 < x
  OBVIOUS
<1>4. x - 1 \notin S
  <2>1. x - 1 \in S => (x - 1) + 1 \in S
    BY <1>3
  <2>2. (x - 1) + 1 = x
    OBVIOUS
  <2>3. QED  BY <2>1, <2>2
<1>5. <<x - 1, x>> \in OpToRel(<, Nat)
  BY <1>3, Zenon DEF OpToRel
<1>6. QED  BY <1>2, <1>3, <1>4, <1>5, Zenon

\* What Keep has kept of the first elements.
Keeps(s, K, n, f) ==
  f = [i \in 0 .. n |->
         IF i = 0 THEN <<>>
         ELSE IF s[i] \in K THEN Append(f[i - 1], s[i]) ELSE f[i - 1]]

\* The recursive function that Keep is defined by exists.
LEMMA KeepExists ==
  ASSUME NEW s, NEW K, NEW n \in Nat
  PROVE  \E f : Keeps(s, K, n, f)
<1> DEFINE Next1(f, i) == IF i = 0 THEN <<>>
                          ELSE IF s[i] \in K THEN Append(f[i - 1], s[i]) ELSE f[i - 1]
           S == {m \in Nat : \E f : Keeps(s, K, m, f)}
<1>1. 0 \in S
  <2>1. Keeps(s, K, 0, [i \in 0 .. 0 |-> <<>>])
    BY DEF Keeps
  <2>2. QED  BY <2>1
<1>2. ASSUME NEW m \in Nat, m \in S  PROVE m + 1 \in S
  <2>1. PICK f : Keeps(s, K, m, f)
    BY <1>2
  <2> DEFINE g == [i \in 0 .. m + 1 |-> IF i = m + 1 THEN Next1(f, i) ELSE f[i]]
  <2>2. ASSUME NEW i \in 0 .. m + 1  PROVE g[i] = Next1(g, i)
    <3>1. CASE i = m + 1
      BY <2>1, <3>1
    <3>2. CASE i \in 0 .. m
      <4>1. g[i] = f[i] /\ f[i] = Next1(f, i)
        BY <2>1, <3>2 DEF Keeps
      <4>2. i # 0 => g[i - 1] = f[i - 1]
        BY <3>2
      <4>3. QED  BY <4>1, <4>2
    <3>3. QED  BY <3>1, <3>2
  <2>3. g = [i \in 0 .. m + 1 |-> Next1(g, i)]
    BY <2>2
  <2>4. Keeps(s, K, m + 1, g)
    BY <2>3 DEF Keeps
  <2> HIDE DEF g
  <2>5. m + 1 \in Nat
    OBVIOUS
  <2>6. QED  BY <2>4, <2>5
<1> HIDE DEF S
<1>3. Nat \subseteq S
  BY <1>1, <1>2, Induction
<1>4. QED  BY <1>3 DEF S

\* What Keep returns, one element at a time.
LEMMA KeepSteps ==
  ASSUME NEW T, NEW s \in Seq(T), NEW K
  PROVE  \E f : /\ f[0] = <<>> /\ Keep(s, K) = f[Len(s)]
                /\ \A n \in 0 .. Len(s) : f[n] \in Seq(T)
                /\ \A n \in 1 .. Len(s) :
                     f[n] = IF s[n] \in K THEN Append(f[n - 1], s[n]) ELSE f[n - 1]
<1> DEFINE f == CHOOSE g : Keeps(s, K, Len(s), g)
<1>1. Len(s) \in Nat /\ \A n \in 1 .. Len(s) : s[n] \in T
  OBVIOUS
<1>2. Keeps(s, K, Len(s), f)
  BY <1>1, KeepExists, Zenon
<1>3. Keep(s, K) = f[Len(s)]
  BY DEF Keep, Keeps
<1> HIDE DEF f
<1>4. /\ f[0] = <<>>
      /\ \A n \in 1 .. Len(s) : f[n] = IF s[n] \in K THEN Append(f[n - 1], s[n]) ELSE f[n - 1]
  <2>1. ASSUME NEW n \in 0 .. Len(s)
        PROVE  f[n] = IF n = 0 THEN <<>>
                      ELSE IF s[n] \in K THEN Append(f[n - 1], s[n]) ELSE f[n - 1]
    BY <1>2, Zenon DEF Keeps
  <2>2. QED  BY <1>1, <2>1
<1> DEFINE S == {n \in Nat : n <= Len(s) => f[n] \in Seq(T)}
<1>5. 0 \in S
  <2>1. f[0] \in Seq(T)
    BY <1>4
  <2>2. QED  BY <2>1
<1>6. ASSUME NEW n \in Nat, n \in S  PROVE n + 1 \in S
  <2>1. SUFFICES ASSUME n + 1 <= Len(s)
                 PROVE  f[n + 1] \in Seq(T)
    OBVIOUS
  <2>2. f[n] \in Seq(T) /\ n + 1 \in 1 .. Len(s) /\ (n + 1) - 1 = n
    BY <1>1, <1>6, <2>1
  <2>3. f[n + 1] = IF s[n + 1] \in K THEN Append(f[n], s[n + 1]) ELSE f[n]
    BY <1>4, <2>2
  <2>4. s[n + 1] \in T
    BY <1>1, <2>2
  <2>5. QED  BY <2>2, <2>3, <2>4
<1> HIDE DEF S
<1>7. Nat \subseteq S
  BY <1>5, <1>6, Induction
<1>8. \A n \in 0 .. Len(s) : f[n] \in Seq(T)
  BY <1>1, <1>7 DEF S
<1>9. QED  BY <1>3, <1>4, <1>8

-----------------------------------------------------------------------------
(* Lists of options.                                                       *)

\* What Keep returns has the elements of the test and no others.
LEMMA KeepElements ==
  ASSUME NEW T, NEW s \in Seq(T), NEW K
  PROVE  /\ Keep(s, K) \in Seq(T)
         /\ \A i \in DOMAIN Keep(s, K) :
              Keep(s, K)[i] \in K /\ \E j \in DOMAIN s : s[j] = Keep(s, K)[i]
         /\ \A j \in DOMAIN s :
              s[j] \in K => \E i \in DOMAIN Keep(s, K) : Keep(s, K)[i] = s[j]
<1>1. Len(s) \in Nat /\ DOMAIN s = 1 .. Len(s)
  OBVIOUS
<1>2. PICK f : /\ f[0] = <<>> /\ Keep(s, K) = f[Len(s)]
               /\ \A n \in 0 .. Len(s) : f[n] \in Seq(T)
               /\ \A n \in 1 .. Len(s) :
                    f[n] = IF s[n] \in K THEN Append(f[n - 1], s[n]) ELSE f[n - 1]
  BY KeepSteps
<1> DEFINE P(n) == /\ \A i \in DOMAIN f[n] :
                        f[n][i] \in K /\ \E j \in 1 .. n : s[j] = f[n][i]
                   /\ \A j \in 1 .. n : s[j] \in K => \E i \in DOMAIN f[n] : f[n][i] = s[j]
           S == {n \in Nat : n <= Len(s) => P(n)}
<1>3. 0 \in S
  BY <1>2
<1>4. ASSUME NEW n \in Nat, n \in S  PROVE n + 1 \in S
  <2>1. SUFFICES ASSUME n + 1 <= Len(s)  PROVE P(n + 1)
    OBVIOUS
  <2>2. n + 1 \in 1 .. Len(s) /\ n \in 0 .. Len(s) /\ (n + 1) - 1 = n
    BY <1>1, <2>1
  <2>3. f[n] \in Seq(T) /\ s[n + 1] \in T /\ P(n)
    BY <1>1, <1>2, <1>4, <2>2
  <2>4. CASE s[n + 1] \in K
    <3>1. f[n + 1] = Append(f[n], s[n + 1])
      BY <1>2, <2>2, <2>4
    <3>2. /\ DOMAIN f[n + 1] = 1 .. Len(f[n]) + 1 /\ DOMAIN f[n] = 1 .. Len(f[n])
          /\ Len(f[n]) \in Nat /\ f[n + 1][Len(f[n]) + 1] = s[n + 1]
          /\ \A i \in DOMAIN f[n] : f[n + 1][i] = f[n][i]
      BY <2>3, <3>1
    <3>3. ASSUME NEW i \in DOMAIN f[n + 1]
          PROVE  f[n + 1][i] \in K /\ \E j \in 1 .. n + 1 : s[j] = f[n + 1][i]
      <4>1. CASE i = Len(f[n]) + 1
        BY <2>4, <3>2, <4>1
      <4>2. CASE i \in DOMAIN f[n]
        BY <2>3, <3>2, <4>2
      <4>3. QED  BY <3>2, <4>1, <4>2
    <3>4. ASSUME NEW j \in 1 .. n + 1, s[j] \in K
          PROVE  \E i \in DOMAIN f[n + 1] : f[n + 1][i] = s[j]
      <4>1. CASE j = n + 1
        BY <3>2, <4>1
      <4>2. CASE j \in 1 .. n
        BY <2>3, <3>2, <3>4, <4>2
      <4>3. QED  BY <4>1, <4>2
    <3>5. QED  BY <3>3, <3>4
  <2>5. CASE s[n + 1] \notin K
    <3>1. f[n + 1] = f[n]
      BY <1>2, <2>2, <2>5
    <3>2. QED  BY <2>3, <2>5, <3>1
  <2>6. QED  BY <2>4, <2>5
<1> HIDE DEF P
<1>5. Nat \subseteq S
  <2> HIDE DEF S
  <2>1. QED  BY <1>3, <1>4, Induction
<1>6. P(Len(s)) /\ f[Len(s)] \in Seq(T)
  BY <1>1, <1>2, <1>5
<1>7. P(Len(s)) /\ f[Len(s)] = Keep(s, K) /\ 1 .. Len(s) = DOMAIN s /\ Keep(s, K) \in Seq(T)
  BY <1>1, <1>2, <1>6
<1>8. QED  BY <1>7, Zenon DEF P

\* Place i holds the last option with a key.
LastAt(s, key, i) ==
  i \in DOMAIN s /\ s[i].key = key /\ \A j \in DOMAIN s : j > i => s[j].key # key

\* An option that is there has a last place, and its value there is LastOf.
LEMMA LastOfIs ==
  ASSUME NEW T, NEW s \in Seq(T), NEW key, NEW i, LastAt(s, key, i)
  PROVE  LastOf(s, key) = s[i].value
<1> DEFINE at == {j \in DOMAIN s : s[j].key = key}
<1>1. DOMAIN s = 1 .. Len(s) /\ Len(s) \in Nat
  OBVIOUS
<1>2. i \in at /\ at \subseteq Nat /\ \A j \in at : i >= j
  BY <1>1 DEF LastAt
<1>3. at # {} /\ Max(at) = i
  <2> HIDE DEF at
  <2>1. Max(at) \in at /\ \A j \in at : Max(at) >= j
    BY <1>2, Zenon DEF Max
  <2>2. Max(at) \in Nat /\ i \in Nat /\ i >= Max(at) /\ Max(at) >= i
    BY <1>2, <2>1
  <2>3. Max(at) = i
    BY ONLY <2>2
  <2>4. QED  BY <1>2, <2>3
<1>4. QED  BY <1>3 DEF LastOf

LEMMA LastExists ==
  ASSUME NEW T, NEW s \in Seq(T), NEW key, HasKey(s, key)
  PROVE  \E i : LastAt(s, key, i)
<1>1. DOMAIN s = 1 .. Len(s) /\ Len(s) \in Nat
  OBVIOUS
<1> DEFINE S == {n \in Nat : \A i \in DOMAIN s :
                               s[i].key = key /\ Len(s) - i <= n => \E j : LastAt(s, key, j)}
<1>2. 0 \in S
  BY <1>1 DEF LastAt
<1>3. ASSUME NEW n \in Nat, n \in S  PROVE n + 1 \in S
  <2>1. SUFFICES ASSUME NEW i \in DOMAIN s, s[i].key = key, Len(s) - i <= n + 1
                 PROVE  \E j : LastAt(s, key, j)
    OBVIOUS
  <2>2. CASE LastAt(s, key, i)
    BY <2>2
  <2>3. CASE ~LastAt(s, key, i)
    <3>1. PICK j \in DOMAIN s : j > i /\ s[j].key = key
      BY <2>1, <2>3 DEF LastAt
    <3>2. Len(s) - j <= n
      BY <1>1, <2>1, <3>1
    <3>3. QED  BY <1>3, <3>1, <3>2
  <2>4. QED  BY <2>2, <2>3
<1> HIDE DEF S
<1>4. Nat \subseteq S
  BY <1>2, <1>3, Induction
<1>5. PICK i \in DOMAIN s : s[i].key = key
  BY DEF HasKey, KeysOf
<1>6. Len(s) - i \in Nat
  BY <1>1
<1>7. QED  BY <1>4, <1>5, <1>6 DEF S

\* What is not there reads as the empty string.
LEMMA LastOfNone ==
  ASSUME NEW s, NEW key, ~HasKey(s, key)
  PROVE  LastOf(s, key) = Empty
BY DEF LastOf, HasKey, KeysOf

\* The values that a list gives a key.
ValuesOf(s, key) == {s[i].value : i \in {j \in DOMAIN s : s[j].key = key}}

\* LastOf is one of them, and the only one when there is only one.
LEMMA LastOfValue ==
  ASSUME NEW T, NEW s \in Seq(T), NEW key, HasKey(s, key)
  PROVE  LastOf(s, key) \in ValuesOf(s, key)
<1>1. PICK i : LastAt(s, key, i)
  BY LastExists
<1>2. LastOf(s, key) = s[i].value
  BY <1>1, LastOfIs
<1>3. QED  BY <1>1, <1>2 DEF LastAt, ValuesOf

\* One more option at the end.
LEMMA LastOfAppend ==
  ASSUME NEW T, NEW s \in Seq(T), NEW o \in T, NEW key
  PROVE  LastOf(Append(s, o), key) = IF o.key = key THEN o.value ELSE LastOf(s, key)
<1> DEFINE t == Append(s, o)
<1>1. /\ t \in Seq(T) /\ Len(s) \in Nat
      /\ DOMAIN s = 1 .. Len(s) /\ DOMAIN t = 1 .. Len(s) + 1
      /\ t[Len(s) + 1] = o /\ \A i \in DOMAIN s : t[i] = s[i]
  OBVIOUS
<1> HIDE DEF t
<1>2. CASE o.key = key
  <2>1. LastAt(t, key, Len(s) + 1)
    BY <1>1, <1>2 DEF LastAt
  <2>2. LastOf(t, key) = t[Len(s) + 1].value
    BY <1>1, <2>1, LastOfIs
  <2>3. QED  BY <1>1, <1>2, <2>2 DEF t
<1>3. CASE o.key # key /\ HasKey(s, key)
  <2>1. PICK i : LastAt(s, key, i)
    BY <1>3, LastExists
  <2>2. LastAt(t, key, i) /\ i \in DOMAIN s
    BY <1>1, <1>3, <2>1 DEF LastAt
  <2>3. LastOf(t, key) = t[i].value /\ LastOf(s, key) = s[i].value
    BY <1>1, <2>1, <2>2, LastOfIs
  <2>4. QED  BY <1>1, <1>3, <2>2, <2>3 DEF t
<1>4. CASE o.key # key /\ ~HasKey(s, key)
  <2>1. ~HasKey(t, key)
    BY <1>1, <1>4 DEF HasKey, KeysOf
  <2>2. QED  BY <1>4, <2>1, LastOfNone DEF t
<1>5. QED  BY <1>2, <1>3, <1>4

\* A test that every option with a key passes leaves its last value as it is.
LEMMA LastOfKeep ==
  ASSUME NEW T, NEW s \in Seq(T), NEW K, NEW key,
         \A i \in DOMAIN s : s[i].key = key => s[i] \in K
  PROVE  LastOf(Keep(s, K), key) = LastOf(s, key)
<1>1. Len(s) \in Nat /\ DOMAIN s = 1 .. Len(s)
  OBVIOUS
<1>2. PICK f : /\ f[0] = <<>> /\ Keep(s, K) = f[Len(s)]
               /\ \A n \in 0 .. Len(s) : f[n] \in Seq(T)
               /\ \A n \in 1 .. Len(s) :
                    f[n] = IF s[n] \in K THEN Append(f[n - 1], s[n]) ELSE f[n - 1]
  BY KeepSteps
<1> DEFINE First(m) == [i \in 1 .. m |-> s[i]]
<1>3. First(0) = <<>> /\ First(Len(s)) = s
  BY <1>1
<1>4. ASSUME NEW n \in Nat, n + 1 <= Len(s)
      PROVE  First(n) \in Seq(T) /\ First(n + 1) = Append(First(n), s[n + 1])
  <2>1. \A i \in 1 .. n : s[i] \in T
    BY <1>1, <1>4
  <2>2. First(n) \in Seq(T)
    BY <2>1
  <2>3. QED  BY <2>2
<1> HIDE DEF First
<1> DEFINE S == {n \in Nat : n <= Len(s) => LastOf(f[n], key) = LastOf(First(n), key)}
<1>5. 0 \in S
  BY <1>2, <1>3
<1>6. ASSUME NEW n \in Nat, n \in S  PROVE n + 1 \in S
  <2>1. SUFFICES ASSUME n + 1 <= Len(s)
                 PROVE  LastOf(f[n + 1], key) = LastOf(First(n + 1), key)
    OBVIOUS
  <2>2. n + 1 \in 1 .. Len(s) /\ n \in 0 .. Len(s) /\ (n + 1) - 1 = n
    BY <1>1, <2>1
  <2>3. f[n] \in Seq(T) /\ s[n + 1] \in T
    BY <1>1, <1>2, <2>2
  <2>4. LastOf(f[n], key) = LastOf(First(n), key)
    BY <1>1, <1>6, <2>1
  <2>5. f[n + 1] = IF s[n + 1] \in K THEN Append(f[n], s[n + 1]) ELSE f[n]
    BY <1>2, <2>2
  <2>6. s[n + 1].key = key => s[n + 1] \in K
    BY <1>1, <2>2
  <2>7. First(n) \in Seq(T) /\ First(n + 1) = Append(First(n), s[n + 1])
    BY <1>4, <2>1
  <2>8. LastOf(First(n + 1), key) = IF s[n + 1].key = key THEN s[n + 1].value
                                                         ELSE LastOf(First(n), key)
    <3> DEFINE t == First(n)
               o == s[n + 1]
    <3>1. t \in Seq(T) /\ o \in T
      BY <2>3, <2>7
    <3> HIDE DEF t, o
    <3>2. LastOf(Append(t, o), key) = IF o.key = key THEN o.value ELSE LastOf(t, key)
      BY <3>1, LastOfAppend
    <3>3. QED  BY <2>7, <3>2 DEF t, o
  <2>9. LastOf(Append(f[n], s[n + 1]), key) = IF s[n + 1].key = key THEN s[n + 1].value
                                                                   ELSE LastOf(f[n], key)
    BY <2>3, LastOfAppend
  <2>10. QED  BY <2>4, <2>5, <2>6, <2>8, <2>9
<1>7. Nat \subseteq S
  <2> HIDE DEF S
  <2>1. QED  BY <1>5, <1>6, Induction
<1>8. QED  BY <1>1, <1>2, <1>3, <1>7

\* Two lists, one after the other: both give their values, the second the last one.
LEMMA Concatenation ==
  ASSUME NEW T, NEW s \in Seq(T), NEW t \in Seq(T), NEW key
  PROVE  /\ ValuesOf(s \o t, key) = ValuesOf(s, key) \cup ValuesOf(t, key)
         /\ HasKey(s \o t, key) <=> HasKey(s, key) \/ HasKey(t, key)
         /\ LastOf(s \o t, key) = IF HasKey(t, key) THEN LastOf(t, key) ELSE LastOf(s, key)
<1> DEFINE u == s \o t
<1>1. /\ u \in Seq(T) /\ Len(s) \in Nat /\ Len(t) \in Nat
      /\ DOMAIN s = 1 .. Len(s) /\ DOMAIN t = 1 .. Len(t) /\ DOMAIN u = 1 .. Len(s) + Len(t)
  OBVIOUS
<1>2. \A i \in DOMAIN s : i \in DOMAIN u /\ u[i] = s[i]
  OBVIOUS
<1>3. \A i \in DOMAIN t : Len(s) + i \in DOMAIN u /\ u[Len(s) + i] = t[i]
  OBVIOUS
<1>4. \A i \in DOMAIN u : \/ i \in DOMAIN s
                          \/ \E j \in DOMAIN t : i = Len(s) + j
  <2>1. \A i \in DOMAIN u : i \notin DOMAIN s => i - Len(s) \in DOMAIN t /\ i = Len(s) + (i - Len(s))
    BY <1>1
  <2>2. QED  BY <2>1
<1> HIDE DEF u
<1>5. HasKey(u, key) <=> HasKey(s, key) \/ HasKey(t, key)
  <2>1. HasKey(u, key) => HasKey(s, key) \/ HasKey(t, key)
    BY <1>2, <1>3, <1>4 DEF HasKey, KeysOf
  <2>2. HasKey(s, key) => HasKey(u, key)
    BY <1>2 DEF HasKey, KeysOf
  <2>3. HasKey(t, key) => HasKey(u, key)
    BY <1>3 DEF HasKey, KeysOf
  <2>4. QED  BY <2>1, <2>2, <2>3
<1>6. ValuesOf(u, key) = ValuesOf(s, key) \cup ValuesOf(t, key)
  <2>1. ValuesOf(u, key) \subseteq ValuesOf(s, key) \cup ValuesOf(t, key)
    BY <1>2, <1>3, <1>4 DEF ValuesOf
  <2>2. ValuesOf(s, key) \subseteq ValuesOf(u, key)
    BY <1>2 DEF ValuesOf
  <2>3. ValuesOf(t, key) \subseteq ValuesOf(u, key)
    BY <1>3 DEF ValuesOf
  <2>4. QED  BY <2>1, <2>2, <2>3
<1>7. LastOf(u, key) = IF HasKey(t, key) THEN LastOf(t, key) ELSE LastOf(s, key)
  <2>1. CASE HasKey(t, key)
    <3>1. PICK i : LastAt(t, key, i)
      BY <2>1, LastExists
    <3>2. ASSUME NEW j \in DOMAIN u, j > Len(s) + i  PROVE u[j].key # key
      <4>1. j \notin DOMAIN s /\ i \in Nat
        BY <1>1, <3>1, <3>2 DEF LastAt
      <4>2. PICK k \in DOMAIN t : j = Len(s) + k
        BY <1>4, <4>1
      <4>3. k > i
        BY <1>1, <3>2, <4>1, <4>2
      <4>4. QED  BY <1>3, <3>1, <4>2, <4>3 DEF LastAt
    <3>3. LastAt(u, key, Len(s) + i)
      BY <1>3, <3>1, <3>2 DEF LastAt
    <3>4. LastOf(u, key) = u[Len(s) + i].value /\ LastOf(t, key) = t[i].value
      BY <1>1, <3>1, <3>3, LastOfIs
    <3>5. QED  BY <1>3, <2>1, <3>1, <3>4 DEF LastAt
  <2>2. CASE ~HasKey(t, key) /\ HasKey(s, key)
    <3>1. PICK i : LastAt(s, key, i)
      BY <2>2, LastExists
    <3>2. \A j \in DOMAIN t : u[Len(s) + j].key # key
      BY <1>3, <2>2 DEF HasKey, KeysOf
    <3>3. LastAt(u, key, i)
      BY <1>1, <1>2, <1>4, <3>1, <3>2 DEF LastAt
    <3>4. LastOf(u, key) = u[i].value /\ LastOf(s, key) = s[i].value
      BY <1>1, <3>1, <3>3, LastOfIs
    <3>5. QED  BY <1>2, <2>2, <3>1, <3>4 DEF LastAt
  <2>3. CASE ~HasKey(t, key) /\ ~HasKey(s, key)
    BY <1>5, <2>3, LastOfNone
  <2>4. QED  BY <2>1, <2>2, <2>3
<1>8. QED  BY <1>5, <1>6, <1>7 DEF u

-----------------------------------------------------------------------------
(* The lists of the merge.                                                 *)

\* What a secret may hold.
SecretMap == {m \in UNION {[keys -> Value] : keys \in SUBSET Key} : IsFiniteSet(DOMAIN m)}

\* SetToSeq lists a finite set.
LEMMA SetToSeqLists ==
  ASSUME NEW S, IsFiniteSet(S)
  PROVE  SetToSeq(S) \in Seq(S) /\ {SetToSeq(S)[i] : i \in DOMAIN SetToSeq(S)} = S
<1> DEFINE n == Cardinality(S)
           f == SetToSeq(S)
<1>1. n \in Nat /\ \E g : g \in Bijection(1 .. n, S)
  BY FS_CardinalityType DEF ExistsBijection
<1>2. f \in [1 .. n -> S] /\ IsInjective(f)
  <2>1. \E g \in [1 .. n -> S] : IsInjective(g)
    BY <1>1 DEF Bijection, Injection, IsInjective
  <2>2. QED  BY <2>1, Zenon DEF SetToSeq
<1> HIDE DEF f, n
<1>3. f \in Injection(1 .. n, S)
  BY <1>2 DEF Injection, IsInjective
<1>4. Cardinality(1 .. n) = Cardinality(S)
  BY <1>1, FS_Interval DEF n
<1>5. f \in Surjection(1 .. n, S)
  BY <1>3, <1>4, FS_Injection
<1>6. f \in Seq(S) /\ {f[i] : i \in DOMAIN f} = S
  BY <1>1, <1>2, <1>5 DEF Surjection
<1>7. QED  BY <1>6 DEF f

\* AllOptions gives every key of the secret its value there, and no other key.
LEMMA AllOptionsFacts ==
  ASSUME NEW m \in SecretMap
  PROVE  /\ AllOptions(m) \in Seq(AnOption)
         /\ KeysOf(AllOptions(m)) = DOMAIN m
         /\ \A i \in DOMAIN AllOptions(m) : AllOptions(m)[i].value = m[AllOptions(m)[i].key]
<1> DEFINE keys == SetToSeq(DOMAIN m)
<1>1. DOMAIN m \subseteq Key /\ m \in [DOMAIN m -> Value] /\ IsFiniteSet(DOMAIN m)
  BY DEF SecretMap
<1>2. keys \in Seq(DOMAIN m) /\ {keys[i] : i \in DOMAIN keys} = DOMAIN m
  BY <1>1, SetToSeqLists
<1> HIDE DEF keys
<1>3. AllOptions(m) = [i \in DOMAIN keys |-> Option(keys[i], m[keys[i]])]
  BY DEF AllOptions, keys
<1>4. \A i \in DOMAIN keys : keys[i] \in DOMAIN m
  BY <1>2
<1>5. DOMAIN keys = 1 .. Len(keys) /\ Len(keys) \in Nat
  BY <1>2
<1>6. \A i \in DOMAIN keys : Option(keys[i], m[keys[i]]) \in AnOption
  BY <1>1, <1>4 DEF Option, AnOption
<1>7. AllOptions(m) \in Seq(AnOption)
  BY <1>3, <1>5, <1>6
<1>8. \A i \in DOMAIN keys : AllOptions(m)[i].key = keys[i] /\ AllOptions(m)[i].value = m[keys[i]]
  BY <1>3 DEF Option
<1>9. DOMAIN AllOptions(m) = DOMAIN keys
  BY <1>3
<1>10. KeysOf(AllOptions(m)) = DOMAIN m
  BY <1>2, <1>8, <1>9 DEF KeysOf
<1>11. QED  BY <1>7, <1>8, <1>9, <1>10

\* What a secret says of a key, and of a key it has not.
LEMMA AllOptionsValues ==
  ASSUME NEW m \in SecretMap, NEW key
  PROVE  /\ HasKey(AllOptions(m), key) <=> key \in DOMAIN m
         /\ ValuesOf(AllOptions(m), key) = IF key \in DOMAIN m THEN {m[key]} ELSE {}
         /\ LastOf(AllOptions(m), key) = IF key \in DOMAIN m THEN m[key] ELSE Empty
<1> DEFINE O == AllOptions(m)
<1>1. /\ O \in Seq(AnOption) /\ KeysOf(O) = DOMAIN m
      /\ \A i \in DOMAIN O : O[i].value = m[O[i].key]
  BY AllOptionsFacts
<1> HIDE DEF O
<1>2. HasKey(O, key) <=> key \in DOMAIN m
  BY <1>1 DEF HasKey
<1>3. ValuesOf(O, key) \subseteq {m[key]} /\ (ValuesOf(O, key) # {} <=> HasKey(O, key))
  BY <1>1 DEF ValuesOf, HasKey, KeysOf
<1>4. ValuesOf(O, key) = IF key \in DOMAIN m THEN {m[key]} ELSE {}
  BY <1>2, <1>3
<1>5. LastOf(O, key) = IF key \in DOMAIN m THEN m[key] ELSE Empty
  BY <1>1, <1>2, <1>4, LastOfValue, LastOfNone
<1>6. QED  BY <1>2, <1>4, <1>5 DEF O

\* Only and Without split a list by its keys.
LEMMA OnlyFacts ==
  ASSUME NEW s \in Seq(AnOption), NEW keys, NEW key
  PROVE  /\ Only(s, keys) \in Seq(AnOption)
         /\ HasKey(Only(s, keys), key) <=> HasKey(s, key) /\ key \in keys
         /\ ValuesOf(Only(s, keys), key) = IF key \in keys THEN ValuesOf(s, key) ELSE {}
         /\ key \in keys => LastOf(Only(s, keys), key) = LastOf(s, key)
<1> DEFINE K == {o \in AnOption : o.key \in keys}
           t == Keep(s, K)
<1>1. /\ t \in Seq(AnOption)
      /\ \A i \in DOMAIN t : t[i] \in K /\ \E j \in DOMAIN s : s[j] = t[i]
      /\ \A j \in DOMAIN s : s[j] \in K => \E i \in DOMAIN t : t[i] = s[j]
  <2> HIDE DEF K
  <2>1. QED  BY KeepElements
<1>2. \A j \in DOMAIN s : s[j] \in K <=> s[j].key \in keys
  OBVIOUS
<1>3. key \in keys => LastOf(t, key) = LastOf(s, key)
  <2>1. key \in keys => \A j \in DOMAIN s : s[j].key = key => s[j] \in K
    BY <1>2
  <2> HIDE DEF K
  <2>2. QED  BY <2>1, LastOfKeep
<1>4. \A i \in DOMAIN t : t[i].key \in keys
  BY <1>1
<1>5. t = Only(s, keys)
  BY DEF Only
<1> HIDE DEF K, t
<1>6. HasKey(t, key) <=> HasKey(s, key) /\ key \in keys
  BY <1>1, <1>2, <1>4 DEF HasKey, KeysOf
<1>7. ValuesOf(t, key) = IF key \in keys THEN ValuesOf(s, key) ELSE {}
  <2>1. ValuesOf(t, key) \subseteq ValuesOf(s, key)
    BY <1>1 DEF ValuesOf
  <2>2. key \in keys => ValuesOf(s, key) \subseteq ValuesOf(t, key)
    BY <1>1, <1>2 DEF ValuesOf
  <2>3. key \notin keys => ValuesOf(t, key) = {}
    BY <1>4 DEF ValuesOf
  <2>4. QED  BY <2>1, <2>2, <2>3
<1>8. QED  BY <1>1, <1>3, <1>5, <1>6, <1>7

LEMMA WithoutFacts ==
  ASSUME NEW s \in Seq(AnOption), NEW keys, NEW key
  PROVE  /\ Without(s, keys) \in Seq(AnOption)
         /\ HasKey(Without(s, keys), key) <=> HasKey(s, key) /\ key \notin keys
         /\ ValuesOf(Without(s, keys), key) = IF key \in keys THEN {} ELSE ValuesOf(s, key)
         /\ key \notin keys => LastOf(Without(s, keys), key) = LastOf(s, key)
<1> DEFINE rest == {o.key : o \in AnOption} \ keys
<1>1. {o \in AnOption : o.key \notin keys} = {o \in AnOption : o.key \in rest}
  OBVIOUS
<1>2. Without(s, keys) = Only(s, rest)
  BY <1>1 DEF Without, Only
<1>3. HasKey(s, key) => key \in {o.key : o \in AnOption}
  BY DEF HasKey, KeysOf
<1>4. ~HasKey(s, key) => ValuesOf(s, key) = {} /\ LastOf(s, key) = Empty
  BY LastOfNone DEF ValuesOf, HasKey, KeysOf
<1> HIDE DEF rest
<1>5. /\ Only(s, rest) \in Seq(AnOption)
      /\ HasKey(Only(s, rest), key) <=> HasKey(s, key) /\ key \in rest
      /\ ValuesOf(Only(s, rest), key) = IF key \in rest THEN ValuesOf(s, key) ELSE {}
      /\ key \in rest => LastOf(Only(s, rest), key) = LastOf(s, key)
  BY OnlyFacts
<1>6. key \in rest <=> key \in {o.key : o \in AnOption} /\ key \notin keys
  BY DEF rest
<1>7. ~HasKey(Only(s, rest), key) => LastOf(Only(s, rest), key) = Empty
  BY LastOfNone
<1>8. QED  BY <1>2, <1>3, <1>4, <1>5, <1>6, <1>7

\* The merge: of every key but "secret", what the call gives it, or what the
\* secret says of it when the call gives nothing or its uri stands aside.
LEMMA MergeFacts ==
  ASSUME explicit_options \in Seq(AnOption), found.secret_map \in SecretMap,
         NEW key, key # "secret"
  PROVE  /\ MergeSecretOptions \in Seq(AnOption)
         /\ IF HasKey(explicit_options, key) /\ ~StandsAside(key)
            THEN /\ ValuesOf(MergeSecretOptions, key) = ValuesOf(explicit_options, key)
                 /\ LastOf(MergeSecretOptions, key) = LastOf(explicit_options, key)
            ELSE IF key \in DOMAIN found.secret_map
            THEN /\ ValuesOf(MergeSecretOptions, key) = {found.secret_map[key]}
                 /\ LastOf(MergeSecretOptions, key) = found.secret_map[key]
            ELSE ValuesOf(MergeSecretOptions, key) = {}
<1> DEFINE E == explicit_options
           m == found.secret_map
           O == AllOptions(m)
           K == (KeysOf(E) \ {"secret"}) \ (IF UriWasLookup(O) THEN {"uri"} ELSE {})
           W == Without(O, K)
           X == Only(E, K)
<1>1. MergeSecretOptions = W \o X
  BY DEF MergeSecretOptions
<1>2. O \in Seq(AnOption)
  BY AllOptionsFacts
<1>3. /\ HasKey(O, key) <=> key \in DOMAIN m
      /\ ValuesOf(O, key) = IF key \in DOMAIN m THEN {m[key]} ELSE {}
      /\ LastOf(O, key) = IF key \in DOMAIN m THEN m[key] ELSE Empty
  BY AllOptionsValues
<1>4. UriWasLookup(O) <=> ByScope /\ "uri" \in DOMAIN m
  <2>1. HasKey(O, "uri") <=> "uri" \in DOMAIN m
    BY AllOptionsValues
  <2>2. found = NoSecret => DOMAIN m = {}
    BY DEF NoSecret
  <2>3. QED  BY <2>1, <2>2 DEF UriWasLookup
<1>5. key \in K <=> HasKey(E, key) /\ ~StandsAside(key)
  <2> HIDE DEF O, m
  <2>1. QED  BY <1>4 DEF HasKey, StandsAside, m
<1> HIDE DEF K, O, m
<1>6. /\ W \in Seq(AnOption)
      /\ HasKey(W, key) <=> HasKey(O, key) /\ key \notin K
      /\ ValuesOf(W, key) = IF key \in K THEN {} ELSE ValuesOf(O, key)
      /\ key \notin K => LastOf(W, key) = LastOf(O, key)
  BY <1>2, WithoutFacts
<1>7. /\ X \in Seq(AnOption)
      /\ HasKey(X, key) <=> HasKey(E, key) /\ key \in K
      /\ ValuesOf(X, key) = IF key \in K THEN ValuesOf(E, key) ELSE {}
      /\ key \in K => LastOf(X, key) = LastOf(E, key)
  BY OnlyFacts
<1> HIDE DEF W, X
<1>8. /\ W \o X \in Seq(AnOption)
      /\ ValuesOf(W \o X, key) = ValuesOf(W, key) \cup ValuesOf(X, key)
      /\ LastOf(W \o X, key) = IF HasKey(X, key) THEN LastOf(X, key) ELSE LastOf(W, key)
  BY <1>6, <1>7, Concatenation
<1>9. CASE key \in K
  <2>1. ValuesOf(W \o X, key) = ValuesOf(E, key) /\ LastOf(W \o X, key) = LastOf(E, key)
    BY <1>5, <1>6, <1>7, <1>8, <1>9
  <2>2. QED  BY <1>1, <1>5, <1>8, <1>9, <2>1
<1>10. CASE key \notin K
  <2>1. ValuesOf(W \o X, key) = ValuesOf(O, key) /\ LastOf(W \o X, key) = LastOf(O, key)
    BY <1>6, <1>7, <1>8, <1>10
  <2>2. QED  BY <1>1, <1>3, <1>5, <1>8, <1>10, <2>1 DEF m
<1>11. QED  BY <1>9, <1>10

\* What the database is told of a key is what the options say of it: all of it,
\* or for a driver, entrypoint and uri the last of it, if that is not empty.
LEMMA DatabaseFacts ==
  ASSUME NEW G \in Seq(AnOption)
  PROVE  /\ ~HasKey(DatabaseOptions(G), "secret")
         /\ \A key : key # "secret" =>
              /\ ValuesOf(DatabaseOptions(G), key) \subseteq ValuesOf(G, key)
              /\ LastOf(DatabaseOptions(G), key) = LastOf(G, key)
<1> DEFINE three == {"driver", "entrypoint", "uri"}
           K == {k \in three : LastOf(G, k) # Empty}
           once == Keep(<<"driver", "entrypoint", "uri">>, K)
           F == [i \in DOMAIN once |-> Option(once[i], LastOf(G, once[i]))]
           W == Without(G, {"driver", "entrypoint", "uri", "secret"})
           T == AnOption \cup [key : three, value : {LastOf(G, k) : k \in three}]
<1>1. DatabaseOptions(G) = F \o W
  BY DEF DatabaseOptions
<1>2. /\ once \in Seq(three)
      /\ \A i \in DOMAIN once : once[i] \in K
      /\ \A k \in K : \E i \in DOMAIN once : once[i] = k
  <2> DEFINE s == <<"driver", "entrypoint", "uri">>
  <2>1. s \in Seq(three) /\ \A k \in three : \E j \in DOMAIN s : s[j] = k
    <3>1. s[1] = "driver" /\ s[2] = "entrypoint" /\ s[3] = "uri" /\ DOMAIN s = 1 .. 3
      OBVIOUS
    <3>2. QED  BY <3>1
  <2>2. K \subseteq three
    OBVIOUS
  <2> HIDE DEF s, K, three
  <2>3. /\ Keep(s, K) \in Seq(three)
        /\ \A i \in DOMAIN Keep(s, K) : Keep(s, K)[i] \in K
        /\ \A j \in DOMAIN s : s[j] \in K => \E i \in DOMAIN Keep(s, K) : Keep(s, K)[i] = s[j]
    BY <2>1, KeepElements
  <2>4. once = Keep(s, K)
    BY DEF s
  <2> HIDE DEF once
  <2>5. QED  BY <2>1, <2>2, <2>3, <2>4
<1> HIDE DEF once
<1>3. /\ DOMAIN F = DOMAIN once /\ DOMAIN once = 1 .. Len(once) /\ Len(once) \in Nat
      /\ \A i \in DOMAIN once : F[i].key = once[i] /\ F[i].value = LastOf(G, once[i])
  BY <1>2 DEF Option
<1>4. F \in Seq(T)
  <2>1. ASSUME NEW i \in DOMAIN once  PROVE F[i] \in T
    BY <1>2, <2>1 DEF Option
  <2> HIDE DEF T, F
  <2>2. F = [i \in 1 .. Len(once) |-> F[i]]
    BY <1>3 DEF F
  <2>3. QED  BY <1>3, <2>1, <2>2
<1> HIDE DEF F
<1>5. ASSUME NEW key
      PROVE  /\ HasKey(F, key) <=> key \in K
             /\ ValuesOf(F, key) = IF key \in K THEN {LastOf(G, key)} ELSE {}
  <2>1. HasKey(F, key) <=> key \in K
    BY <1>2, <1>3 DEF HasKey, KeysOf
  <2>2. ValuesOf(F, key) \subseteq {LastOf(G, key)}
    BY <1>3 DEF ValuesOf
  <2>3. ValuesOf(F, key) # {} <=> HasKey(F, key)
    BY DEF ValuesOf, HasKey, KeysOf
  <2>4. QED  BY <2>1, <2>2, <2>3
<1>6. ASSUME NEW key
      PROVE  LastOf(F, key) = IF key \in K THEN LastOf(G, key) ELSE Empty
  BY <1>4, <1>5, LastOfValue, LastOfNone
<1>7. ASSUME NEW key
      PROVE  /\ HasKey(W, key) <=> HasKey(G, key) /\ key \notin three \cup {"secret"}
             /\ ValuesOf(W, key) = IF key \in three \cup {"secret"} THEN {} ELSE ValuesOf(G, key)
             /\ key \notin three \cup {"secret"} => LastOf(W, key) = LastOf(G, key)
  <2> DEFINE all == {"driver", "entrypoint", "uri", "secret"}
  <2>1. all = three \cup {"secret"}
    OBVIOUS
  <2> HIDE DEF all
  <2>2. /\ HasKey(Without(G, all), key) <=> HasKey(G, key) /\ key \notin all
        /\ ValuesOf(Without(G, all), key) = IF key \in all THEN {} ELSE ValuesOf(G, key)
        /\ key \notin all => LastOf(Without(G, all), key) = LastOf(G, key)
    BY WithoutFacts
  <2>3. W = Without(G, all)
    BY DEF all
  <2> HIDE DEF W, three
  <2>4. QED  BY <2>1, <2>2, <2>3
<1>8. W \in Seq(T)
  <2>1. W \in Seq(AnOption)
    BY WithoutFacts
  <2> HIDE DEF W
  <2>2. W = [i \in 1 .. Len(W) |-> W[i]] /\ Len(W) \in Nat /\ \A i \in 1 .. Len(W) : W[i] \in T
    BY <2>1
  <2> HIDE DEF T
  <2>3. QED  BY <2>2
<1>9. \A k \in K : k \in three /\ LastOf(G, k) # Empty
  OBVIOUS
<1>10. \A k \in three \ K : LastOf(G, k) = Empty
  OBVIOUS
<1> HIDE DEF W, K, T
<1>11. ASSUME NEW key
       PROVE  /\ ValuesOf(F \o W, key) = ValuesOf(F, key) \cup ValuesOf(W, key)
              /\ HasKey(F \o W, key) <=> HasKey(F, key) \/ HasKey(W, key)
              /\ LastOf(F \o W, key) = IF HasKey(W, key) THEN LastOf(W, key) ELSE LastOf(F, key)
  BY <1>4, <1>8, Concatenation
<1>12. ~HasKey(F \o W, "secret")
  BY <1>5, <1>7, <1>9, <1>11
<1>13. ASSUME NEW key, key # "secret"
       PROVE  /\ ValuesOf(F \o W, key) \subseteq ValuesOf(G, key)
              /\ LastOf(F \o W, key) = LastOf(G, key)
  <2> HIDE DEF three
  <2>1. CASE key \in three
    <3>1. ~HasKey(W, key) /\ ValuesOf(W, key) = {}
      BY <1>7, <2>1
    <3>2. LastOf(F \o W, key) = LastOf(G, key)
      BY <1>6, <1>10, <1>11, <2>1, <3>1
    <3>3. key \in K => LastOf(G, key) \in ValuesOf(G, key)
      BY <1>9, LastOfNone, LastOfValue
    <3>4. QED  BY <1>5, <1>11, <3>1, <3>2, <3>3
  <2>2. CASE key \notin three
    <3>1. key \notin K
      BY <1>9, <2>2
    <3>2. ValuesOf(F, key) = {} /\ LastOf(F, key) = Empty
      BY <1>5, <1>6, <3>1
    <3>3. /\ HasKey(W, key) <=> HasKey(G, key)
          /\ ValuesOf(W, key) = ValuesOf(G, key) /\ LastOf(W, key) = LastOf(G, key)
      BY <1>7, <1>13, <2>2
    <3>4. QED  BY <1>11, <3>2, <3>3, LastOfNone
  <2>3. QED  BY <2>1, <2>2
<1>14. QED  BY <1>1, <1>12, <1>13

-----------------------------------------------------------------------------
(* The inductive invariant: secrets and lists are what they should be, and *)
(* a connection has the options that the merge makes of the call and of    *)
(* the secret that was found, not of the one stored by then.               *)

Secret == [type : {"none", "other", "adbc"}, scope : Scope \cup {Empty}, secret_map : SecretMap]

Stores == secrets \in [{"memory", "local_file"} -> [Name -> Secret]]
Lookups == explicit_options \in Seq(AnOption) /\ found \in Secret
Merged == pc = "connected" => set_options = DatabaseOptions(MergeSecretOptions)

IInv == Stores /\ Lookups /\ Merged

\* The secrets that can be created are secrets.
LEMMA SecretTypes == NoSecret \in Secret /\ AdbcSecrets \subseteq Secret
<1>1. NoSecret \in Secret
  <2>1. <<>> \in [{} -> Value] /\ DOMAIN <<>> = {}
    OBVIOUS
  <2>2. <<>> \in SecretMap
    BY <2>1, FS_EmptySet DEF SecretMap
  <2>3. QED  BY <2>2 DEF NoSecret, Secret
<1>2. ASSUME NEW p \in Parameters, NEW e \in ExtraOptions
      PROVE  SecretMaps(p, e) \subseteq SecretMap
  <2> DEFINE Written(k) ==
               (IF k \in DOMAIN p THEN {p[k]} ELSE {})
                 \cup (IF k \in DOMAIN e THEN {IF e[k] = Null THEN Empty ELSE e[k]} ELSE {})
             keys == DOMAIN p \cup DOMAIN e
  <2>1. /\ DOMAIN p \subseteq Key /\ IsFiniteSet(DOMAIN p) /\ p \in [DOMAIN p -> Value]
        /\ DOMAIN e \subseteq Key /\ IsFiniteSet(DOMAIN e) /\ e \in [DOMAIN e -> Value]
        /\ Empty \in Value
    BY OptionsAssumption
  <2>2. keys \in SUBSET Key /\ IsFiniteSet(keys)
    BY <2>1, FS_Union
  <2>3. \A k \in keys : Written(k) \subseteq Value
    BY <2>1
  <2> HIDE DEF Written, keys
  <2>4. ASSUME NEW m \in [keys -> UNION {Written(k) : k \in keys}]
        PROVE  m \in SecretMap
    <3>1. m \in [keys -> Value]
      BY <2>3
    <3>2. QED  BY <2>2, <3>1 DEF SecretMap
  <2>5. SecretMaps(p, e) = {m \in [keys -> UNION {Written(k) : k \in keys}] :
                              \A k \in keys : m[k] \in Written(k)}
    BY DEF SecretMaps, Written, keys
  <2>6. QED  BY <2>4, <2>5
<1>3. AdbcSecrets \subseteq Secret
  BY <1>2 DEF AdbcSecrets, Secret
<1>4. QED  BY <1>1, <1>3

\* The lists that a call is made with are lists of options.
LEMMA CallTypes ==
  /\ \A fields \in ConnectOptions :
       ExtractStruct(fields) \in Seq(AnOption) /\ ExtractMap(fields) \in Seq(AnOption)
  /\ \A options \in AttachOptions, path \in Path :
       ExtractAttach(options, path) \in Seq(AnOption)
<1>1. ASSUME NEW fields \in ConnectOptions
      PROVE  ExtractStruct(fields) \in Seq(AnOption) /\ ExtractMap(fields) \in Seq(AnOption)
  <2>1. fields \in Seq(AnOption) /\ Empty \in Value
    BY <1>1, OptionsAssumption
  <2>2. ExtractStruct(fields) \in Seq(AnOption)
    <3> DEFINE K == {o \in AnOption : o.value # Null}
    <3>1. ExtractStruct(fields) = Keep(fields, K)
      BY DEF ExtractStruct
    <3> HIDE DEF K
    <3>2. QED  BY <2>1, <3>1, KeepElements
  <2>3. ASSUME NEW i \in DOMAIN fields
        PROVE  (IF fields[i].value = Null THEN Option(fields[i].key, Empty) ELSE fields[i])
                  \in AnOption
    <3>1. fields[i] \in AnOption
      BY <2>1
    <3>2. QED  BY <2>1, <3>1 DEF AnOption, Option
  <2>4. ExtractMap(fields) \in Seq(AnOption)
    BY <2>1, <2>3 DEF ExtractMap
  <2>5. QED  BY <2>2, <2>4
<1>2. ASSUME NEW options \in AttachOptions, NEW path \in Path
      PROVE  ExtractAttach(options, path) \in Seq(AnOption)
  <2> DEFINE Lowered(s) == [i \in DOMAIN s |-> Option(Lower[s[i].key], s[i].value)]
             own == Without(Lowered(options), {"batch_size"})
             all == own \o Lowered(path.pairs)
  <2>1. /\ options \in Seq(AnOption) /\ path.pairs \in Seq(AnOption) /\ path.uri \in Value
        /\ Lower \in [Key -> Key] /\ "uri" \in Key
    BY <1>2, OptionsAssumption
  <2>2. ASSUME NEW s \in Seq(AnOption)  PROVE Lowered(s) \in Seq(AnOption)
    <3>1. ASSUME NEW i \in DOMAIN s  PROVE Option(Lower[s[i].key], s[i].value) \in AnOption
      <4>1. s[i] \in AnOption
        BY <3>1
      <4>2. QED  BY <2>1, <4>1 DEF AnOption, Option
    <3>2. QED  BY <3>1
  <2> HIDE DEF Lowered
  <2>3. own \in Seq(AnOption)
    BY <2>1, <2>2, WithoutFacts
  <2> HIDE DEF own
  <2>4. all \in Seq(AnOption)
    BY <2>1, <2>2, <2>3
  <2> HIDE DEF all
  <2>5. Append(all, Option("uri", path.uri)) \in Seq(AnOption)
    <3>1. Option("uri", path.uri) \in AnOption
      BY <2>1 DEF AnOption, Option
    <3>2. QED  BY <2>4, <3>1
  <2>6. ExtractAttach(options, path) =
          IF path.uri # Empty /\ ~HasKey(all, "uri") THEN Append(all, Option("uri", path.uri))
                                                     ELSE all
    BY DEF ExtractAttach, all, own, Lowered
  <2>7. QED  BY <2>4, <2>5, <2>6
<1>3. QED  BY <1>1, <1>2

LEMMA IInvInit == Init => IInv
<1> SUFFICES ASSUME Init  PROVE IInv
  OBVIOUS
<1>1. Stores
  BY SecretTypes DEF Init, Stores
<1>2. Lookups
  BY SecretTypes DEF Init, Lookups
<1>3. Merged
  BY DEF Init, Merged
<1>4. QED  BY <1>1, <1>2, <1>3 DEF IInv

\* A stored secret is a secret.
LEMMA StoredTypes ==
  ASSUME Stores, NEW storage \in {"memory", "local_file"}
  PROVE  Stored(storage) \in Secret /\ \A uri : Covering(storage, uri) \subseteq Secret
<1>1. \A n \in Name : secrets[storage][n] \in Secret
  BY DEF Stores
<1>2. QED  BY <1>1, SecretTypes DEF Stored, Covering

LEMMA IInvStep == IInv /\ [Next]_vars => IInv'
<1> SUFFICES ASSUME IInv, [Next]_vars  PROVE IInv'
  OBVIOUS
<1>0. Stores /\ Lookups /\ Merged
  BY DEF IInv
<1>1. ASSUME NEW storage \in {"memory", "local_file"}, NEW name \in Name,
             UNCHANGED <<pc, explicit_options, found, set_options>>,
             NEW s \in Secret, secrets' = [secrets EXCEPT ![storage][name] = s]
      PROVE  IInv'
  <2>1. Stores'
    BY <1>0, <1>1 DEF Stores
  <2>2. Lookups'
    BY <1>0, <1>1 DEF Lookups
  <2>3. Merged'
    BY <1>0, <1>1 DEF Merged, MergeSecretOptions, UriWasLookup, ByScope, ByName, SecretName, CallUri
  <2>4. QED  BY <2>1, <2>2, <2>3 DEF IInv
<1>2. ASSUME NEW storage \in DOMAIN secrets, NEW name \in Name,
             \/ CreateAdbcSecret(storage, name)
             \/ CreateOtherSecret(storage, name)
             \/ DropSecret(storage, name)
      PROVE  IInv'
  <2>1. storage \in {"memory", "local_file"}
    BY <1>0, <1>2 DEF Stores
  <2>2. CASE CreateAdbcSecret(storage, name)
    BY <1>1, <2>1, <2>2, SecretTypes DEF CreateAdbcSecret
  <2>3. CASE CreateOtherSecret(storage, name)
    <3> DEFINE m == [k \in {"region"} |-> <<"east">>]
    <3>1. m \in [{"region"} -> Value] /\ {"region"} \in SUBSET Key /\ DOMAIN m = {"region"}
      BY OptionsAssumption
    <3>2. IsFiniteSet(DOMAIN m)
      BY <3>1, FS_Singleton
    <3> HIDE DEF m
    <3>3. m \in SecretMap
      BY <3>1, <3>2 DEF SecretMap
    <3>4. [type |-> "other", scope |-> Empty, secret_map |-> m] \in Secret
      BY <3>3 DEF Secret
    <3>5. QED  BY <1>1, <2>1, <2>3, <3>4 DEF CreateOtherSecret, m
  <2>4. CASE DropSecret(storage, name)
    BY <1>1, <2>1, <2>4, SecretTypes DEF DropSecret
  <2>5. QED  BY <1>2, <2>2, <2>3, <2>4
<1>3. ASSUME NEW options \in Seq(AnOption), Call(options)  PROVE IInv'
  <2>1. Stores' /\ Lookups' /\ Merged'
    BY <1>0, <1>3 DEF Call, Stores, Lookups, Merged
  <2>2. QED  BY <2>1 DEF IInv
<1>4. CASE AdbcConnect
  BY <1>3, <1>4, CallTypes DEF AdbcConnect
<1>5. CASE AdbcAttach
  BY <1>3, <1>5, CallTypes DEF AdbcAttach
<1>6. ASSUME UNCHANGED <<secrets, explicit_options, set_options>>, found' \in Secret,
             pc' # "connected"
      PROVE  IInv'
  BY <1>0, <1>6 DEF IInv, Stores, Lookups, Merged
<1>7. CASE AdbcGetSecretByUri
  <2>1. \A uri : LookupSecret(uri) \subseteq Secret
    <3>1. \A uri : Covering("memory", uri) \cup Covering("local_file", uri) \subseteq Secret
      BY <1>0, StoredTypes
    <3>2. QED  BY <3>1 DEF LookupSecret, Best
  <2>2. found' \in Secret
    BY <1>7, <2>1, SecretTypes DEF AdbcGetSecretByUri
  <2>3. QED  BY <1>6, <1>7, <2>2 DEF AdbcGetSecretByUri
<1>8. CASE NoLookup
  BY <1>0, <1>6, <1>8 DEF NoLookup, Lookups
<1>9. CASE GetSecretInMemory
  BY <1>0, <1>6, <1>9, StoredTypes DEF GetSecretInMemory
<1>10. CASE GetSecretInFile
  BY <1>0, <1>6, <1>10, StoredTypes DEF GetSecretInFile
<1>11. CASE CreateConnectionFromOptions
  <2>1. UNCHANGED <<secrets, explicit_options, found>>
    BY <1>11 DEF CreateConnectionFromOptions
  <2>2. MergeSecretOptions' = MergeSecretOptions
    BY <2>1 DEF MergeSecretOptions, UriWasLookup, ByScope, ByName, SecretName, CallUri
  <2>3. pc' = "connected" => set_options' = DatabaseOptions(MergeSecretOptions)
    BY <1>11 DEF CreateConnectionFromOptions
  <2>4. Merged'
    BY <2>2, <2>3 DEF Merged
  <2>5. QED  BY <1>0, <2>1, <2>4 DEF IInv, Stores, Lookups
<1>12. CASE Return
  <2>1. <<>> \in Seq(AnOption)
    OBVIOUS
  <2>2. QED  BY <1>0, <1>12, <2>1, SecretTypes DEF Return, IInv, Stores, Lookups, Merged
<1>13. CASE UNCHANGED vars
  <2>1. UNCHANGED <<secrets, pc, explicit_options, found, set_options>>
    BY <1>13 DEF vars
  <2>2. MergeSecretOptions' = MergeSecretOptions
    BY <2>1 DEF MergeSecretOptions, UriWasLookup, ByScope, ByName, SecretName, CallUri
  <2>3. QED  BY <1>0, <2>1, <2>2 DEF IInv, Stores, Lookups, Merged
<1>14. QED
  BY <1>2, <1>4, <1>5, <1>7, <1>8, <1>9, <1>10, <1>11, <1>12, <1>13 DEF Next

\* The invariant gives what a caller may rely on.
LEMMA IInvGives == IInv => OptionsAsDocumented
<1> SUFFICES ASSUME IInv, pc = "connected"
             PROVE  /\ ~HasKey(set_options, "secret")
                    /\ \A key \in (Key \cup DOMAIN found.secret_map) \ {"secret"} :
                         IF HasKey(explicit_options, key) /\ ~StandsAside(key)
                         THEN ExplicitWins(key) ELSE SecretFillsIn(key)
  BY DEF OptionsAsDocumented
<1> DEFINE G == MergeSecretOptions
           m == found.secret_map
<1>1. explicit_options \in Seq(AnOption) /\ m \in SecretMap
  BY DEF IInv, Lookups, Secret
<1>2. set_options = DatabaseOptions(G)
  BY DEF IInv, Merged
<1>3. G \in Seq(AnOption)
  <2>1. "uri" # "secret"
    OBVIOUS
  <2>2. QED  BY <1>1, <2>1, MergeFacts
<1>4. ASSUME NEW key, key # "secret"
      PROVE  IF HasKey(explicit_options, key) /\ ~StandsAside(key)
             THEN /\ ValuesOf(G, key) = ValuesOf(explicit_options, key)
                  /\ LastOf(G, key) = LastOf(explicit_options, key)
             ELSE IF key \in DOMAIN m
             THEN ValuesOf(G, key) = {m[key]} /\ LastOf(G, key) = m[key]
             ELSE ValuesOf(G, key) = {}
  BY <1>1, <1>4, MergeFacts
<1> HIDE DEF G
<1>5. /\ ~HasKey(DatabaseOptions(G), "secret")
      /\ \A key : key # "secret" =>
           /\ ValuesOf(DatabaseOptions(G), key) \subseteq ValuesOf(G, key)
           /\ LastOf(DatabaseOptions(G), key) = LastOf(G, key)
  BY <1>3, DatabaseFacts
<1>6. ASSUME NEW key, key # "secret"
      PROVE  IF HasKey(explicit_options, key) /\ ~StandsAside(key)
             THEN ExplicitWins(key) ELSE SecretFillsIn(key)
  <2>1. ValuesSet(key) = ValuesOf(set_options, key)
    BY DEF ValuesSet, ValuesOf
  <2>2. ValuesGiven(key) = ValuesOf(explicit_options, key)
    BY DEF ValuesGiven, ValuesOf
  <2>3. /\ ValuesOf(set_options, key) \subseteq ValuesOf(G, key)
        /\ LastOf(set_options, key) = LastOf(G, key)
    BY <1>2, <1>5, <1>6
  <2>4. CASE HasKey(explicit_options, key) /\ ~StandsAside(key)
    BY <1>4, <1>6, <2>1, <2>2, <2>3, <2>4 DEF ExplicitWins
  <2>5. CASE ~(HasKey(explicit_options, key) /\ ~StandsAside(key))
    BY <1>4, <1>6, <2>1, <2>3, <2>5 DEF SecretFillsIn
  <2>6. QED  BY <2>4, <2>5
<1>7. QED  BY <1>2, <1>5, <1>6

\* The invariant holds in every state.
THEOREM Invariance == Spec => []IInv
<1>1. Init => IInv
  BY IInvInit
<1>2. IInv /\ [Next]_vars => IInv'
  BY IInvStep
<1>3. QED  BY <1>1, <1>2, PTL DEF Spec

\* A connection is made with what its call said and, where the call said nothing,
\* with what the secret found for it says, however many options, secrets and
\* sessions there are and whatever became of the secret since it was found.
THEOREM OptionsAreMerged == Spec => []OptionsAsDocumented
<1>1. IInv => OptionsAsDocumented
  BY IInvGives
<1>2. QED  BY <1>1, Invariance, PTL

=============================================================================
