---------------------------- MODULE GuacStream_proofs ----------------------------
(***************************************************************************)
(* The text of instructions and the stream that finds them again, for any  *)
(* instructions and any size of the buffer.                                *)
(*                                                                         *)
(* The argument. FlattenSeq and Number are computed step by step; a list   *)
(* of their intermediate results, which exists by induction, says what     *)
(* they are (Accumulates, Counts). Hence the text of an instruction        *)
(* consists of its elements, each between two cuts (TextCuts), and         *)
(* wherever a text begins as it does, ReadSome and Parse find each element *)
(* at its cut or see that it is not yet there in full (FoundAtCut). So     *)
(* buffer and wire together always hold the instructions that were sent    *)
(* and not yet returned (Holds).                                           *)
(*                                                                         *)
(* The induction theorems of the library take an operator, which no prover *)
(* here can instantiate; NatSetInduction takes a set.                      *)
(***************************************************************************)
EXTENDS GuacStream, SequenceTheorems, WellFoundedInduction, TLAPS

-----------------------------------------------------------------------------
(***************************************************************************)
(* Induction and concatenation.                                            *)
(***************************************************************************)
(* Induction, over a set instead of an operator. *)
LEMMA NatSetInduction ==
    ASSUME NEW T, 0 \in T, \A n \in Nat : n \in T => n + 1 \in T
    PROVE  Nat \subseteq T
  <1> DEFINE R == OpToRel(<, Nat)
             U == Nat \ T
  <1>1. SUFFICES ASSUME U # {} PROVE FALSE
    OBVIOUS
  <1>2. IsWellFoundedOn(R, Nat)
    BY NatLessThanWellFounded
  <1>3. \E x \in U : \A y \in U : ~ (<<y, x>> \in R)
    <2> HIDE DEF R
    <2> QED
      BY <1>1, <1>2, WFMin, U \subseteq Nat
  <1>4. PICK x \in U : \A y \in U : ~ (<<y, x>> \in R)
    BY <1>3
  <1>5. \A y \in Nat : y < x => <<y, x>> \in R
    BY x \in Nat DEF OpToRel
  <1>6. x \in Nat /\ x \notin T /\ x # 0
    OBVIOUS
  <1>7. x - 1 \in Nat /\ x - 1 < x /\ (x - 1) + 1 = x
    BY <1>6
  <1>8. x - 1 \in T
    <2> HIDE DEF R
    <2> QED
      BY <1>4, <1>5, <1>7
  <1> QED
    BY <1>6, <1>7, <1>8

(* g lists the concatenations of the first 0, 1, 2 ... of the sequences s. *)
Accumulates(g, s, S) ==
    /\ g \in [0..Len(s) -> Seq(S)]
    /\ g[0] = <<>>
    /\ \A i \in 1..Len(s) : g[i] = g[i-1] \o s[i]

(* The concatenation of s is the last of this list. *)
LEMMA FlattenIsLast ==
    ASSUME NEW S, NEW s \in Seq(Seq(S)), NEW g, Accumulates(g, s, S)
    PROVE  FlattenSeq(s) = g[Len(s)]
  <1> DEFINE n == Len(s)
             Eq(f) == f = [i \in 1..n |-> IF i = 1 THEN s[i] ELSE f[i-1] \o s[i]]
             h == [i \in 1..n |-> g[i]]
             f == CHOOSE f : Eq(f)
             T == {m \in Nat : m \in 1..n => f[m] = g[m]}
  <1>0. n \in Nat /\ \A i \in 1..n : s[i] \in Seq(S) /\ (<<>> \o s[i]) = s[i]
    BY ConcatEmptySeq
  <1>1. g[0] = <<>> /\ \A i \in 1..n : g[i] = g[i-1] \o s[i]
    BY DEF Accumulates
  <1>2. CASE n = 0
    BY <1>1, <1>2, s = <<>> DEF FlattenSeq
  <1>3. CASE n # 0
    <2>1. n >= 1
      BY <1>0, <1>3
    <2>2. FlattenSeq(s) = f[n]
      BY <1>3 DEF FlattenSeq
    <2> HIDE DEF n
    <2>3. g[1] = s[1]
      <3>1. 1 \in 1..n
        BY <1>0, <2>1
      <3>2. g[1] = g[1 - 1] \o s[1]
        BY <1>1, <3>1
      <3> QED
        BY <1>0, <1>1, <3>1, <3>2, 1 - 1 = 0
    <2>4. ASSUME NEW i \in 1..n
          PROVE  h[i] = IF i = 1 THEN s[i] ELSE h[i-1] \o s[i]
      <3>1. CASE i = 1
        BY <2>3, <3>1
      <3>2. CASE i # 1
        <4>1. i - 1 \in 1..n
          BY <1>0, <3>2
        <4>2. h[i] = g[i] /\ h[i-1] = g[i-1]
          BY <4>1
        <4> QED
          BY <1>1, <3>2, <4>2
      <3> QED
        BY <3>1, <3>2
    <2>5. Eq(h)
      BY <2>4
    <2>6. Eq(f)
      BY <2>5
    <2>7. \A i \in 1..n : f[i] = IF i = 1 THEN s[i] ELSE f[i-1] \o s[i]
      <3> HIDE DEF f
      <3> QED
        BY <2>6
    <2> HIDE DEF f, Eq, h
    <2>8. 0 \in T
      OBVIOUS
    <2>9. ASSUME NEW m \in Nat, m \in T, m + 1 \in 1..n
          PROVE  f[m + 1] = g[m + 1]
      <3>1. CASE m = 0
        BY <2>1, <2>3, <2>7, <3>1
      <3>2. CASE m # 0
        <4>1. m \in 1..n /\ m + 1 # 1 /\ (m + 1) - 1 = m
          BY <1>0, <2>9, <3>2
        <4>2. f[m] = g[m]
          BY <2>9, <4>1
        <4>3. f[m + 1] = f[m] \o s[m + 1]
          BY <2>7, <2>9, <4>1
        <4>4. g[m + 1] = g[m] \o s[m + 1]
          BY <1>1, <2>9, <4>1
        <4> QED
          BY <4>2, <4>3, <4>4
      <3> QED
        BY <3>1, <3>2
    <2>10. \A m \in Nat : m \in T => m + 1 \in T
      BY <2>9
    <2>11. Nat \subseteq T
      <3> HIDE DEF T
      <3> QED
        BY <2>8, <2>10, NatSetInduction
    <2> QED
      BY <1>0, <2>1, <2>2, <2>11 DEF n
  <1> QED
    BY <1>2, <1>3

(* Every sequence of sequences has such a list. *)
LEMMA Accumulation ==
    ASSUME NEW S, NEW s \in Seq(Seq(S))
    PROVE  \E g : Accumulates(g, s, S)
  <1> DEFINE n == Len(s)
             Upto(g, m) == /\ g \in [0..n -> Seq(S)]
                           /\ g[0] = <<>>
                           /\ \A i \in 1..n : i <= m => g[i] = g[i-1] \o s[i]
             T == {m \in Nat : \E g : Upto(g, m)}
  <1>0. n \in Nat /\ \A i \in 1..n : s[i] \in Seq(S)
    OBVIOUS
  <1>1. 0 \in T
    <2>1. Upto([i \in 0..n |-> <<>>], 0)
      BY <1>0
    <2> QED
      BY <2>1
  <1>2. ASSUME NEW m \in Nat, m \in T
        PROVE  m + 1 \in T
    <2>1. PICK g : Upto(g, m)
      BY <1>2
    <2>2. CASE m + 1 \in 1..n
      <3> DEFINE h == [g EXCEPT ![m + 1] = g[m] \o s[m + 1]]
      <3> HIDE DEF n
      <3>1. m \in 0..n /\ m + 1 \in 0..n
        BY <1>0, <2>2
      <3>2. g[m] \o s[m + 1] \in Seq(S)
        BY <1>0, <2>1, <2>2, <3>1
      <3>3. h \in [0..n -> Seq(S)] /\ h[0] = <<>>
        <4>1. g \in [0..n -> Seq(S)] /\ g[0] = <<>> /\ m + 1 # 0
          BY <2>1
        <4> QED
          BY <1>0, <3>1, <3>2, <4>1
      <3>4. ASSUME NEW i \in 1..n, i <= m + 1
            PROVE  h[i] = h[i-1] \o s[i]
        <4>1. CASE i = m + 1
          BY <2>1, <3>1, <4>1, (m + 1) - 1 = m, m # m + 1
        <4>2. CASE i # m + 1
          BY <1>0, <2>1, <3>4, <4>2, i \in 0..n, i - 1 \in 0..n, i <= m, i - 1 # m + 1
        <4> QED
          BY <4>1, <4>2
      <3>5. Upto(h, m + 1)
        BY <3>3, <3>4
      <3> HIDE DEF Upto, h
      <3> QED
        BY <3>5
    <2>3. CASE m + 1 \notin 1..n
      <3>1. Upto(g, m + 1)
        BY <1>0, <2>1, <2>3
      <3> HIDE DEF Upto
      <3> QED
        BY <3>1
    <2> QED
      BY <2>2, <2>3
  <1>3. n \in T
    <2> HIDE DEF T
    <2> QED
      BY <1>0, <1>1, <1>2, NatSetInduction
  <1>4. PICK g : Upto(g, n)
    BY <1>3
  <1>5. Accumulates(g, s, S)
    <2>1. \A i \in 1..n : i <= n
      BY <1>0
    <2>2. \A i \in 1..n : g[i] = g[i-1] \o s[i]
      BY <1>4, <2>1
    <2> QED
      BY <1>4, <2>2 DEF Accumulates
  <1> QED
    BY <1>5

(* Concatenation may be regrouped. *)
Regrouped(x, y, z) == (x \o y) \o z = x \o (y \o z)

LEMMA Regroup ==
    ASSUME NEW S, NEW x \in Seq(S), NEW y \in Seq(S), NEW z \in Seq(S)
    PROVE  Regrouped(x, y, z)
  BY ConcatAssociative DEF Regrouped

(* The concatenation of no sequence, its type, one more at the end, one *)
(* more in front.                                                       *)
LEMMA FlattenEmpty == FlattenSeq(<<>>) = <<>>
  BY DEF FlattenSeq

LEMMA FlattenType ==
    ASSUME NEW S, NEW s \in Seq(Seq(S))
    PROVE  FlattenSeq(s) \in Seq(S)
  <1>1. PICK g : Accumulates(g, s, S)
    BY Accumulation
  <1> QED
    BY <1>1, FlattenIsLast, Len(s) \in 0..Len(s) DEF Accumulates

LEMMA FlattenAppend ==
    ASSUME NEW S, NEW s \in Seq(Seq(S)), NEW x \in Seq(S)
    PROVE  FlattenSeq(Append(s, x)) = FlattenSeq(s) \o x
  <1> DEFINE t == Append(s, x)
             n == Len(s)
  <1>1. PICK g : Accumulates(g, s, S)
    BY Accumulation
  <1>2. /\ g \in [0..n -> Seq(S)] /\ g[0] = <<>>
        /\ \A i \in 1..n : g[i] = g[i-1] \o s[i]
    BY <1>1 DEF Accumulates
  <1> DEFINE h == [i \in 0..(n + 1) |-> IF i = n + 1 THEN g[n] \o x ELSE g[i]]
  <1>3. /\ n \in Nat /\ Len(t) = n + 1 /\ t \in Seq(Seq(S)) /\ t[n + 1] = x
        /\ \A i \in 1..n : t[i] = s[i]
    OBVIOUS
  <1> HIDE DEF n, t
  <1>4. h \in [0..(n + 1) -> Seq(S)] /\ h[0] = <<>> /\ h[n + 1] = g[n] \o x
    BY <1>2, <1>3
  <1>5. ASSUME NEW i \in 1..(n + 1)
        PROVE  h[i] = h[i-1] \o t[i]
    <2>1. CASE i = n + 1
      BY <1>3, <1>4, <2>1, (n + 1) - 1 = n, n # n + 1, n \in 0..(n + 1)
    <2>2. CASE i # n + 1
      <3>1. i \in 1..n /\ i - 1 \in 0..(n + 1) /\ i \in 0..(n + 1) /\ i - 1 # n + 1
        BY <1>3, <2>2
      <3>2. h[i] = g[i] /\ h[i-1] = g[i-1]
        BY <2>2, <3>1
      <3> QED
        BY <1>2, <1>3, <3>1, <3>2
    <2> QED
      BY <2>1, <2>2
  <1>6. Accumulates(h, t, S)
    BY <1>3, <1>4, <1>5 DEF Accumulates
  <1>7. FlattenSeq(t) = h[n + 1] /\ FlattenSeq(s) = g[n]
    BY <1>1, <1>3, <1>6, FlattenIsLast DEF n
  <1> QED
    BY <1>4, <1>7 DEF t

LEMMA FlattenCons ==
    ASSUME NEW S, NEW s \in Seq(Seq(S)), NEW x \in Seq(S)
    PROVE  FlattenSeq(<<x>> \o s) = x \o FlattenSeq(s)
  <1> DEFINE t == <<x>> \o s
             n == Len(s)
  <1>1. PICK g : Accumulates(g, s, S)
    BY Accumulation
  <1>2. /\ g \in [0..n -> Seq(S)] /\ g[0] = <<>>
        /\ \A i \in 1..n : g[i] = g[i-1] \o s[i]
    BY <1>1 DEF Accumulates
  <1> DEFINE h == [i \in 0..(n + 1) |-> IF i = 0 THEN <<>> ELSE x \o g[i-1]]
  <1>3. /\ n \in Nat /\ Len(t) = n + 1 /\ t \in Seq(Seq(S)) /\ t[1] = x
        /\ \A i \in 1..n : t[i + 1] = s[i] /\ s[i] \in Seq(S)
    <2>1. <<x>> \in Seq(Seq(S)) /\ Len(<<x>>) = 1 /\ <<x>>[1] = x
      OBVIOUS
    <2> HIDE DEF n
    <2> QED
      BY <2>1, ConcatProperties DEF n
  <1> HIDE DEF n, t
  <1>4. h \in [0..(n + 1) -> Seq(S)] /\ h[0] = <<>>
    BY <1>2, <1>3
  <1>5. ASSUME NEW i \in 1..(n + 1)
        PROVE  h[i] = h[i-1] \o t[i]
    <2>1. CASE i = 1
      BY <1>2, <1>3, <1>4, <2>1
    <2>2. CASE i # 1
      <3>1. i - 1 \in 1..n /\ (i - 1) + 1 = i /\ (i - 1) - 1 \in 0..n /\ i \in 0..(n+1)
            /\ i - 1 \in 0..(n + 1) /\ i - 1 # 0 /\ i # 0 /\ i - 1 \in 0..n
        BY <1>3, <2>2
      <3>2. g[i - 1] = g[(i - 1) - 1] \o s[i - 1] /\ t[i] = s[i - 1]
        BY <1>2, <1>3, <3>1
      <3>3. h[i] = x \o g[i - 1] /\ h[i - 1] = x \o g[(i - 1) - 1]
        BY <3>1
      <3>4. x \o (g[(i - 1) - 1] \o s[i - 1]) = (x \o g[(i - 1) - 1]) \o s[i - 1]
        <4>1. g[(i - 1) - 1] \in Seq(S) /\ s[i - 1] \in Seq(S)
          BY <1>2, <1>3, <3>1
        <4>2. Regrouped(x, g[(i - 1) - 1], s[i - 1])
          BY <4>1, Regroup
        <4> QED
          BY <4>2 DEF Regrouped
      <3> QED
        BY <3>2, <3>3, <3>4
    <2> QED
      BY <2>1, <2>2
  <1>6. Accumulates(h, t, S)
    BY <1>3, <1>4, <1>5 DEF Accumulates
  <1>7. FlattenSeq(t) = h[n + 1] /\ FlattenSeq(s) = g[n]
    BY <1>1, <1>3, <1>6, FlattenIsLast DEF n
  <1>8. h[n + 1] = x \o g[n]
    BY <1>3, (n + 1) - 1 = n, n + 1 # 0
  <1> QED
    BY <1>7, <1>8 DEF t

-----------------------------------------------------------------------------
(***************************************************************************)
(* Digits.                                                                 *)
(***************************************************************************)
(* The ten digits are read as they are written. *)
LEMMA DigitOf ==
    ASSUME NEW d \in 0..9
    PROVE  /\ DigitChars[d + 1] \in Digits
           /\ Digit(DigitChars[d + 1]) = d
  <1>1. DigitChars[d + 1] \in Digits
    BY DEF Digits, ToSet, DigitChars
  <1>2. \A e \in 0..9 : DigitChars[e + 1] = DigitChars[d + 1] => e = d
    BY DEF DigitChars
  <1> QED
    BY <1>1, <1>2 DEF Digit

(* g lists the numbers that the first 0, 1, 2 ... of the digits ds stand for. *)
Counts(g, ds) ==
    /\ g \in [0..Len(ds) -> Nat]
    /\ g[0] = 0
    /\ \A i \in 1..Len(ds) : g[i] = 10 * g[i-1] + Digit(ds[i])

(* Number is the last of this list. *)
LEMMA NumberIsLast ==
    ASSUME NEW S, NEW ds \in Seq(S), NEW g, Counts(g, ds)
    PROVE  Number(ds) = g[Len(ds)]
  <1> DEFINE n == Len(ds)
             Eq(f) == f = [i \in 0..n |-> IF i = 0 THEN 0 ELSE 10 * f[i - 1] + Digit(ds[i])]
             f == CHOOSE f : Eq(f)
             T == {m \in Nat : m \in 0..n => f[m] = g[m]}
  <1>0. n \in Nat
    OBVIOUS
  <1>1. Number(ds) = f[n]
    BY DEF Number
  <1>2. /\ g \in [0..n -> Nat] /\ g[0] = 0
        /\ \A i \in 1..n : g[i] = 10 * g[i-1] + Digit(ds[i])
    BY DEF Counts
  <1> HIDE DEF n
  <1>3. Eq(g)
    <2>1. \A i \in 0..n : g[i] = IF i = 0 THEN 0 ELSE 10 * g[i - 1] + Digit(ds[i])
      BY <1>0, <1>2
    <2> QED
      BY <1>2, <2>1
  <1>4. Eq(f)
    BY <1>3
  <1>5. \A i \in 0..n : f[i] = IF i = 0 THEN 0 ELSE 10 * f[i - 1] + Digit(ds[i])
    <2> HIDE DEF f
    <2> QED
      BY <1>4
  <1> HIDE DEF f, Eq
  <1>6. 0 \in T
    BY <1>0, <1>2, <1>5
  <1>7. ASSUME NEW m \in Nat, m \in T, m + 1 \in 0..n
        PROVE  f[m + 1] = g[m + 1]
    <2>1. m + 1 # 0 /\ (m + 1) - 1 = m /\ m \in 0..n /\ m + 1 \in 1..n
      BY <1>0, <1>7
    <2>2. f[m] = g[m]
      BY <1>7, <2>1
    <2>3. f[m + 1] = 10 * f[m] + Digit(ds[m + 1])
      BY <1>5, <1>7, <2>1
    <2>4. g[m + 1] = 10 * g[m] + Digit(ds[m + 1])
      BY <1>2, <2>1
    <2> QED
      BY <2>2, <2>3, <2>4
  <1>8. Nat \subseteq T
    <2>1. \A m \in Nat : m \in T => m + 1 \in T
      BY <1>7
    <2> HIDE DEF T
    <2> QED
      BY <1>6, <2>1, NatSetInduction
  <1> QED
    BY <1>0, <1>1, <1>8 DEF n

(* One digit more. *)
LEMMA CountsAppend ==
    ASSUME NEW S, NEW ds \in Seq(S), NEW c \in S, NEW g, Counts(g, ds),
           Digit(c) \in Nat
    PROVE  \E h : Counts(h, Append(ds, c)) /\ h[Len(ds) + 1] = 10 * g[Len(ds)] + Digit(c)
  <1> DEFINE n == Len(ds)
             t == Append(ds, c)
             h == [i \in 0..(n + 1) |-> IF i = n + 1 THEN 10 * g[n] + Digit(c) ELSE g[i]]
  <1>1. /\ n \in Nat /\ Len(t) = n + 1 /\ t[n + 1] = c
        /\ \A i \in 1..n : t[i] = ds[i]
    OBVIOUS
  <1>2. /\ g \in [0..n -> Nat] /\ g[0] = 0
        /\ \A i \in 1..n : g[i] = 10 * g[i-1] + Digit(ds[i])
    BY DEF Counts
  <1> HIDE DEF n, t
  <1>3. h \in [0..(n + 1) -> Nat]
    <2>1. g[n] \in Nat
      BY <1>1, <1>2
    <2> QED
      BY <1>1, <1>2, <2>1
  <1>4. h[0] = 0 /\ h[n + 1] = 10 * g[n] + Digit(c)
    BY <1>1, <1>2
  <1>5. ASSUME NEW i \in 1..(n + 1)
        PROVE  h[i] = 10 * h[i-1] + Digit(t[i])
    <2>1. CASE i = n + 1
      <3>1. (n + 1) - 1 = n /\ n # n + 1 /\ n \in 0..(n + 1)
        BY <1>1
      <3>2. h[n] = g[n]
        BY <3>1
      <3> QED
        BY <1>1, <1>4, <2>1, <3>1, <3>2
    <2>2. CASE i # n + 1
      <3>1. i \in 1..n /\ i - 1 \in 0..(n + 1) /\ i \in 0..(n + 1) /\ i - 1 # n + 1
        BY <1>1, <2>2
      <3>2. h[i] = g[i] /\ h[i-1] = g[i-1]
        BY <2>2, <3>1
      <3> QED
        BY <1>1, <1>2, <3>1, <3>2
    <2> QED
      BY <2>1, <2>2
  <1>6. Counts(h, t)
    BY <1>1, <1>3, <1>4, <1>5 DEF Counts
  <1> QED
    BY <1>4, <1>6 DEF n, t

(* A number is what its digits stand for. *)
LEMMA DecimalOf ==
    ASSUME NEW n \in Nat
    PROVE  /\ Decimal(n) \in Seq(Digits) /\ Len(Decimal(n)) >= 1
           /\ Number(Decimal(n)) = n
  <1> DEFINE Body(f, m) == IF m < 10 THEN <<DigitChars[m + 1]>>
                           ELSE Append(f[m \div 10], DigitChars[(m % 10) + 1])
             Eq(f) == f = [m \in 0..n |-> Body(f, m)]
             text == CHOOSE f : Eq(f)
             Upto(f, k) == /\ f = [m \in 0..n |-> f[m]]
                           /\ \A m \in 0..n : m <= k => f[m] = Body(f, m)
             T == {k \in Nat : \E f : Upto(f, k)}
  <1>1. \A m \in Nat : m >= 10 => m \div 10 \in Nat /\ m \div 10 < m
    OBVIOUS
  <1>2. \A m \in Nat : m % 10 \in 0..9 /\ m = 10 * (m \div 10) + (m % 10)
    OBVIOUS
  <1>3. Decimal(n) = text[n]
    BY DEF Decimal
  <1>4. 0 \in T
    <2> DEFINE f == [m \in 0..n |-> <<DigitChars[m + 1]>>]
    <2>1. Upto(f, 0)
      <3>1. f = [m \in 0..n |-> f[m]]
        OBVIOUS
      <3>2. \A m \in 0..n : m <= 0 => f[m] = Body(f, m)
        OBVIOUS
      <3> QED
        BY <3>1, <3>2
    <2> HIDE DEF f, Upto
    <2> QED
      BY <2>1
  <1>5. ASSUME NEW k \in Nat, k \in T
        PROVE  k + 1 \in T
    <2>1. PICK f : Upto(f, k)
      BY <1>5
    <2> DEFINE h == [m \in 0..n |-> IF m = k + 1 THEN Body(f, k + 1) ELSE f[m]]
    <2>2. h = [m \in 0..n |-> h[m]]
      OBVIOUS
    <2>3. ASSUME NEW m \in 0..n, m <= k + 1
          PROVE  h[m] = Body(h, m)
      <3>1. h[m] = Body(f, m)
        <4>1. CASE m = k + 1
          BY <4>1
        <4>2. CASE m # k + 1
          <5>1. h[m] = f[m] /\ m <= k
            BY <2>3, <4>2
          <5> QED
            BY <2>1, <5>1
        <4> QED
          BY <4>1, <4>2
      <3>2. m >= 10 => h[m \div 10] = f[m \div 10]
        <4> SUFFICES ASSUME m >= 10 PROVE h[m \div 10] = f[m \div 10]
          OBVIOUS
        <4>1. m \div 10 \in Nat /\ m \div 10 < m
          BY <1>1
        <4>2. m \div 10 \in 0..n /\ m \div 10 # k + 1
          BY <2>3, <4>1
        <4> QED
          BY <4>2
      <3> HIDE DEF h
      <3>3. CASE m < 10
        BY <3>1, <3>3
      <3>4. CASE ~(m < 10)
        BY <3>1, <3>2, <3>4
      <3> QED
        BY <3>3, <3>4
    <2>4. Upto(h, k + 1)
      <3> HIDE DEF Body, h
      <3> QED
        BY <2>2, <2>3
    <2> HIDE DEF h, Upto
    <2> QED
      BY <2>4
  <1>6. n \in T
    <2> HIDE DEF T
    <2> QED
      BY <1>4, <1>5, NatSetInduction
  <1>7. Eq(text)
    <2>1. PICK f : Upto(f, n)
      BY <1>6
    <2>2. Eq(f)
      <3> HIDE DEF Body
      <3>1. \A m \in 0..n : f[m] = Body(f, m)
        BY <2>1
      <3> QED
        BY <2>1, <3>1
    <2> HIDE DEF Eq
    <2> QED
      BY <2>2
  <1>8. \A m \in 0..n : text[m] = Body(text, m)
    <2> HIDE DEF text, Body
    <2> QED
      BY <1>7
  <1> HIDE DEF text, Eq, T, Upto
  <1> DEFINE Right(m) == /\ text[m] \in Seq(Digits) /\ Len(text[m]) >= 1
                         /\ \E g : Counts(g, text[m]) /\ g[Len(text[m])] = m
             U == {k \in Nat : \A m \in 0..n : m <= k => Right(m)}
  <1>9. ASSUME NEW m \in 0..n, m < 10 PROVE Right(m)
    <2>1. text[m] = <<DigitChars[m + 1]>>
      BY <1>8, <1>9
    <2>2. DigitChars[m + 1] \in Digits /\ Digit(DigitChars[m + 1]) = m
      BY <1>9, DigitOf
    <2>3. Counts([i \in 0..1 |-> IF i = 0 THEN 0 ELSE m], <<DigitChars[m + 1]>>)
      BY <2>2 DEF Counts
    <2>4. Len(text[m]) = 1 /\ text[m] \in Seq(Digits)
      BY <2>1, <2>2
    <2> QED
      BY <2>1, <2>3, <2>4
  <1>10. ASSUME NEW m \in 0..n, m >= 10, Right(m \div 10) PROVE Right(m)
    <2> DEFINE t == text[m \div 10]
               c == DigitChars[(m % 10) + 1]
    <2>1. text[m] = Append(t, c)
      <3>1. text[m] = Body(text, m)
        <4> HIDE DEF Body
        <4> QED
          BY <1>8
      <3>2. ~(m < 10)
        BY <1>10
      <3> HIDE DEF t, c
      <3> QED
        BY <3>1, <3>2 DEF t, c
    <2>2. c \in Digits /\ Digit(c) = m % 10 /\ m % 10 \in Nat
      BY <1>2, DigitOf
    <2>3. PICK g : Counts(g, t) /\ g[Len(t)] = m \div 10
      BY <1>10
    <2>4. t \in Seq(Digits)
      BY <1>10
    <2> HIDE DEF t, c
    <2>5. PICK h : Counts(h, Append(t, c)) /\ h[Len(t) + 1] = 10 * g[Len(t)] + Digit(c)
      BY <2>2, <2>3, <2>4, CountsAppend
    <2>6. h[Len(t) + 1] = m
      BY <1>2, <2>2, <2>3, <2>5
    <2>7. Append(t, c) \in Seq(Digits) /\ Len(Append(t, c)) = Len(t) + 1 /\ Len(t) \in Nat
      BY <2>2, <2>4
    <2> QED
      BY <2>1, <2>5, <2>6, <2>7
  <1> HIDE DEF Right
  <1>11. 0 \in U
    BY <1>9
  <1>12. ASSUME NEW k \in Nat, k \in U PROVE k + 1 \in U
    <2>1. ASSUME NEW m \in 0..n, m <= k + 1 PROVE Right(m)
      <3>1. CASE m < 10
        BY <1>9, <3>1
      <3>2. CASE m >= 10
        <4>1. m \div 10 \in Nat /\ m \div 10 < m
          BY <1>1, <3>2
        <4>2. m \div 10 \in 0..n /\ m \div 10 <= k
          BY <2>1, <4>1
        <4> QED
          BY <1>10, <1>12, <3>2, <4>2
      <3> QED
        BY <3>1, <3>2
    <2> QED
      BY <2>1
  <1>13. n \in U
    <2> HIDE DEF U
    <2> QED
      BY <1>11, <1>12, NatSetInduction
  <1>14. Right(n)
    BY <1>13
  <1>15. PICK g : Counts(g, text[n]) /\ g[Len(text[n])] = n
    BY <1>14 DEF Right
  <1>16. Number(text[n]) = n
    BY <1>14, <1>15, NumberIsLast DEF Right
  <1> QED
    BY <1>3, <1>14, <1>16 DEF Right

-----------------------------------------------------------------------------
(***************************************************************************)
(* Sequences, runes and bytes, elements.                                   *)
(***************************************************************************)
(* s is a and, behind it, c. *)
IsJoined(s, a, c) ==
    /\ Len(a) \in Nat /\ Len(c) \in Nat /\ Len(s) = Len(a) + Len(c)
    /\ \A m \in 1..Len(a) : s[m] = a[m]
    /\ \A m \in 1..Len(c) : s[Len(a) + m] = c[m]

(* What a concatenation looks like. *)
LEMMA Joined ==
    ASSUME NEW S, NEW a \in Seq(S), NEW c \in Seq(S)
    PROVE  a \o c \in Seq(S) /\ IsJoined(a \o c, a, c)
  <1>1. Len(a) \in Nat /\ Len(c) \in Nat
    OBVIOUS
  <1> QED
    BY <1>1 DEF IsJoined

(* A sequence is the concatenation of its elements. *)
LEMMA FlattenSingletons ==
    ASSUME NEW S, NEW t \in Seq(S), NEW s, s = [i \in DOMAIN t |-> <<t[i]>>]
    PROVE  FlattenSeq(s) = t
  <1> DEFINE n == Len(t)
             g == [i \in 0..n |-> SubSeq(t, 1, i)]
  <1>1. /\ n \in Nat /\ s \in Seq(Seq(S)) /\ Len(s) = n
        /\ \A i \in 1..n : s[i] = <<t[i]>> /\ t[i] \in S
    <2>1. n \in Nat /\ DOMAIN t = 1..n /\ \A i \in 1..n : t[i] \in S
      OBVIOUS
    <2> HIDE DEF n
    <2>2. s = [i \in 1..n |-> <<t[i]>>]
      BY <2>1
    <2>3. \A i \in 1..n : s[i] = <<t[i]>> /\ <<t[i]>> \in Seq(S)
      BY <2>1, <2>2
    <2>4. s \in [1..n -> Seq(S)]
      BY <2>2, <2>3
    <2> QED
      BY <2>1, <2>3, <2>4
  <1>2. \A i \in 0..n : SubSeq(t, 1, i) \in Seq(S)
    OBVIOUS
  <1>3. g \in [0..n -> Seq(S)] /\ g[0] = <<>>
    BY <1>1, <1>2
  <1>4. ASSUME NEW i \in 1..n
        PROVE  g[i] = g[i-1] \o s[i]
    <2>1. SubSeq(t, 1, i) = SubSeq(t, 1, i-1) \o <<t[i]>>
      <3>1. 1 \in 1..Len(t) /\ i \in 1..Len(t)
        BY <1>1
      <3> QED
        BY <3>1, SubSeqRecursiveSecond
    <2>2. i \in 0..n /\ i - 1 \in 0..n
      BY <1>1
    <2> QED
      BY <1>1, <2>1, <2>2
  <1>5. Accumulates(g, s, S)
    <2> HIDE DEF g, n
    <2> QED
      BY <1>1, <1>3, <1>4 DEF Accumulates
  <1>6. FlattenSeq(s) = g[n]
    <2> HIDE DEF g
    <2> QED
      BY <1>1, <1>5, FlattenIsLast
  <1>7. g[n] = t
    BY <1>1, SubSeqFull
  <1> QED
    BY <1>6, <1>7

(* A character of one byte is none of the others. *)
LEMMA OneByteIs ==
    /\ Digits = {"0", "1", "2", "3", "4", "5", "6", "7", "8", "9"}
    /\ "." \notin Digits
    /\ \A c \in OneByte : c \notin {"w", "?"} \cup WideBytes
  <1>1. DOMAIN DigitChars = 1..10
    BY DEF DigitChars
  <1>2. Digits = {DigitChars[i] : i \in 1..10}
    BY <1>1 DEF Digits, ToSet
  <1>3. Digits = {"0", "1", "2", "3", "4", "5", "6", "7", "8", "9"}
    BY <1>2 DEF DigitChars
  <1>4. \A c \in OneByte : c \notin {"w", "?"} \cup WideBytes
    BY <1>3, LettersAssumption DEF OneByte, WideBytes
  <1> QED
    BY <1>3, <1>4

(* Characters of one byte are sent and read as they are. *)
LEMMA Utf8OneByte ==
    ASSUME NEW t \in Seq(OneByte)
    PROVE  Utf8(t) = t
  <1> DEFINE s == [i \in DOMAIN t |->
                CASE t[i] = "w" -> <<"w1", "w2">>
                  [] t[i] = "?" -> <<"?1", "?2", "?3">>
                  [] OTHER -> <<t[i]>>]
  <1>1. s = [i \in DOMAIN t |-> <<t[i]>>]
    <2>1. \A i \in DOMAIN t : t[i] # "w" /\ t[i] # "?"
      BY OneByteIs
    <2> QED
      BY <2>1
  <1>2. Utf8(t) = FlattenSeq(s)
    BY DEF Utf8
  <1> HIDE DEF s
  <1> QED
    BY <1>1, <1>2, FlattenSingletons

LEMMA RunesOneByte ==
    ASSUME NEW t \in Seq(OneByte)
    PROVE  Runes(t) = t
  <1> DEFINE Whole(i) == t[i] = "w1" /\ i < Len(t) /\ t[i + 1] = "w2"
             Follows(i) == t[i] = "w2" /\ i > 1 /\ t[i - 1] = "w1"
             s == [i \in DOMAIN t |-> IF Whole(i) THEN <<"w">>
                                      ELSE IF Follows(i) THEN <<>>
                                      ELSE IF t[i] = "w1" \/ t[i] = "w2" THEN <<"?">>
                                      ELSE <<t[i]>>]
  <1>1. s = [i \in DOMAIN t |-> <<t[i]>>]
    <2>1. \A i \in DOMAIN t : t[i] # "w1" /\ t[i] # "w2"
      BY OneByteIs DEF WideBytes
    <2> QED
      BY <2>1
  <1>2. Runes(t) = FlattenSeq(s)
    BY DEF Runes
  <1> HIDE DEF s
  <1> QED
    BY <1>1, <1>2, FlattenSingletons

(* Where each of the sequences s ends in their concatenation. *)
Cuts(b, s) ==
    /\ b \in [0..Len(s) -> Nat]
    /\ b[0] = 0 /\ b[Len(s)] = Len(FlattenSeq(s))
    /\ \A j \in 1..Len(s) :
         /\ b[j] = b[j-1] + Len(s[j])
         /\ b[j] <= Len(FlattenSeq(s))
         /\ \A m \in 1..Len(s[j]) : FlattenSeq(s)[b[j-1] + m] = s[j][m]

(* Every sequence of sequences has such cuts. *)
LEMMA CutsExist ==
    ASSUME NEW S, NEW s \in Seq(Seq(S))
    PROVE  \E b : Cuts(b, s)
  <1> DEFINE n == Len(s)
  <1>1. PICK g : Accumulates(g, s, S)
    BY Accumulation
  <1>2. /\ g \in [0..n -> Seq(S)] /\ g[0] = <<>>
        /\ \A i \in 1..n : g[i] = g[i-1] \o s[i]
    BY <1>1 DEF Accumulates
  <1>3. n \in Nat /\ \A i \in 1..n : s[i] \in Seq(S)
    OBVIOUS
  <1>4. FlattenSeq(s) = g[n]
    BY <1>1, FlattenIsLast
  <1> HIDE DEF n
  <1>5. ASSUME NEW i \in 1..n
        PROVE  /\ Len(g[i]) = Len(g[i-1]) + Len(s[i])
               /\ \A m \in 1..Len(g[i-1]) : g[i][m] = g[i-1][m]
               /\ \A m \in 1..Len(s[i]) : g[i][Len(g[i-1]) + m] = s[i][m]
    <2>1. i - 1 \in 0..n
      BY <1>3
    <2>3. g[i-1] \in Seq(S) /\ s[i] \in Seq(S) /\ g[i] = g[i-1] \o s[i]
      BY <1>2, <1>3, <2>1
    <2>4. g[i-1] \in Seq(S) /\ s[i] \in Seq(S)
      BY <2>3
    <2>5. IsJoined(g[i-1] \o s[i], g[i-1], s[i])
      BY <2>4, Joined
    <2> QED
      BY <2>3, <2>5 DEF IsJoined
  <1> DEFINE Before(j, k) == /\ Len(g[j]) <= Len(g[k])
                             /\ \A m \in 1..Len(g[j]) : g[k][m] = g[j][m]
             T == {k \in Nat : k <= n => \A j \in 0..k : Before(j, k)}
  <1>6. 0 \in T
    <2>1. Before(0, 0)
      BY <1>2, <1>3
    <2> HIDE DEF Before
    <2> QED
      BY <2>1
  <1>7. ASSUME NEW k \in Nat, k \in T, k + 1 <= n, NEW j \in 0..(k + 1)
        PROVE  Before(j, k + 1)
    <2>1. k + 1 \in 1..n /\ (k + 1) - 1 = k /\ k \in 0..n /\ j \in 0..n /\ k + 1 \in 0..n
      BY <1>3, <1>7
    <2>2. /\ Len(g[k + 1]) = Len(g[k]) + Len(s[k + 1])
          /\ \A m \in 1..Len(g[k]) : g[k + 1][m] = g[k][m]
      <3> DEFINE i == k + 1
      <3>1. i \in 1..n /\ i - 1 = k
        BY <2>1
      <3> HIDE DEF i
      <3>2. /\ Len(g[i]) = Len(g[i - 1]) + Len(s[i])
            /\ \A m \in 1..Len(g[i - 1]) : g[i][m] = g[i - 1][m]
        BY <1>5, <3>1
      <3> QED
        BY <3>1, <3>2 DEF i
    <2>3. Len(g[j]) \in Nat /\ Len(g[k]) \in Nat /\ Len(s[k + 1]) \in Nat /\ Len(g[k + 1]) \in Nat
      BY <1>2, <1>3, <2>1
    <2>4. CASE j = k + 1
      BY <2>3, <2>4
    <2>5. CASE j # k + 1
      <3>1. Before(j, k)
        BY <1>7, <2>1, <2>5
      <3>2. Len(g[j]) <= Len(g[k + 1])
        <4> DEFINE x == Len(g[j])
                   y == Len(g[k])
                   z == Len(s[k + 1])
                   u == Len(g[k + 1])
        <4>1. x \in Nat /\ y \in Nat /\ z \in Nat /\ u = y + z /\ x <= y
          BY <2>2, <2>3, <3>1
        <4> HIDE DEF x, y, z, u
        <4>2. x <= u
          BY <4>1
        <4> QED
          BY <4>2 DEF x, u
      <3>3. \A m \in 1..Len(g[j]) : m \in 1..Len(g[k])
        BY <2>3, <3>1
      <3> QED
        BY <2>2, <3>1, <3>2, <3>3
    <2> QED
      BY <2>4, <2>5
  <1>8. n \in T
    <2>1. \A k \in Nat : k \in T => k + 1 \in T
      <3> HIDE DEF Before
      <3> QED
        BY <1>7
    <2> HIDE DEF T
    <2> QED
      BY <1>3, <1>6, <2>1, NatSetInduction
  <1> DEFINE b == [i \in 0..n |-> Len(g[i])]
  <1>9. b \in [0..n -> Nat] /\ b[0] = 0 /\ b[n] = Len(g[n])
    BY <1>2, <1>3
  <1>10. ASSUME NEW j \in 1..n
         PROVE  /\ b[j] = b[j-1] + Len(s[j])
                /\ b[j] <= Len(g[n])
                /\ \A m \in 1..Len(s[j]) : g[n][b[j-1] + m] = s[j][m]
    <2>1. j \in 0..n /\ j - 1 \in 0..n /\ b[j] = Len(g[j]) /\ b[j-1] = Len(g[j-1])
      BY <1>3
    <2>2. Before(j, n)
      BY <1>3, <1>8, <2>1
    <2>3. /\ Len(g[j]) = Len(g[j-1]) + Len(s[j])
          /\ \A m \in 1..Len(s[j]) : g[j][Len(g[j-1]) + m] = s[j][m]
      BY <1>5
    <2>4. Len(g[j-1]) \in Nat /\ Len(s[j]) \in Nat
      BY <1>2, <1>3, <2>1
    <2> HIDE DEF b
    <2>5. \A m \in 1..Len(s[j]) : Len(g[j-1]) + m \in 1..Len(g[j])
      <3> DEFINE x == Len(g[j-1])
                 y == Len(s[j])
      <3>1. Len(g[j]) = x + y /\ x \in Nat /\ y \in Nat
        BY <2>3, <2>4
      <3> HIDE DEF x, y
      <3>2. \A m \in 1..y : x + m \in 1..(x + y)
        BY <3>1
      <3> QED
        BY <3>1, <3>2 DEF x, y
    <2> QED
      BY <2>1, <2>2, <2>3, <2>5
  <1>11. Cuts(b, s)
    <2> HIDE DEF b
    <2> QED
      BY <1>4, <1>9, <1>10 DEF Cuts, n
  <1> QED
    BY <1>11

-----------------------------------------------------------------------------
(* The elements of an instruction as guacd writes them. *)
ElementsOf(ins) ==
    [i \in DOMAIN ins |-> Element(Len(ins[i]), ins[i], IF i = Len(ins) THEN ";" ELSE ",")]

(* e is d, a dot, chars and end. *)
Looks(e, d, chars, end) ==
    /\ Len(e) = Len(d) + 1 + Len(chars) + 1
    /\ \A m \in 1..Len(d) : e[m] = d[m]
    /\ e[Len(d) + 1] = "."
    /\ \A m \in 1..Len(chars) : e[Len(d) + 1 + m] = chars[m]
    /\ e[Len(d) + 1 + Len(chars) + 1] = end

(* An element looks like its size, a dot, its characters and its end. *)
LEMMA ElementLook ==
    ASSUME NEW S, Digits \subseteq S, "." \in S, NEW chars \in Seq(S), NEW end \in S,
           NEW d, d = Decimal(Len(chars)),
           NEW e, e = Element(Len(chars), chars, end)
    PROVE  e \in Seq(S) /\ Looks(e, d, chars, end)
  <1>1. d \in Seq(S) /\ Len(d) \in Nat /\ Len(chars) \in Nat
    <2>1. Len(chars) \in Nat
      OBVIOUS
    <2>2. d \in Seq(Digits)
      BY <2>1, DecimalOf
    <2> QED
      BY <2>1, <2>2, SeqMonotonic
  <1>2. e = ((d \o <<".">>) \o chars) \o <<end>>
    BY DEF Element
  <1> DEFINE p == d \o <<".">>
             q == p \o chars
  <1>3. /\ p \in Seq(S) /\ Len(p) = Len(d) + 1 /\ p[Len(d) + 1] = "."
        /\ \A m \in 1..Len(d) : p[m] = d[m]
    BY <1>1
  <1> HIDE DEF p
  <1>4. /\ q \in Seq(S) /\ Len(q) = Len(p) + Len(chars)
        /\ \A m \in 1..Len(p) : q[m] = p[m]
        /\ \A m \in 1..Len(chars) : q[Len(p) + m] = chars[m]
    BY <1>1, <1>3
  <1> HIDE DEF q
  <1>5. /\ e \in Seq(S) /\ Len(e) = Len(q) + 1 /\ e[Len(q) + 1] = end
        /\ \A m \in 1..Len(q) : e[m] = q[m]
    <2>1. e = q \o <<end>>
      BY <1>2 DEF p, q
    <2> DEFINE c == <<end>>
    <2>2. c \in Seq(S) /\ Len(c) = 1 /\ c[1] = end
      OBVIOUS
    <2> HIDE DEF c
    <2>3. q \in Seq(S)
      BY <1>4
    <2>4. q \o c \in Seq(S) /\ IsJoined(q \o c, q, c)
      BY <2>2, <2>3, Joined
    <2>5. (q \o c)[Len(q) + 1] = c[1]
      BY <2>2, <2>4, 1 \in 1..Len(c) DEF IsJoined
    <2> QED
      BY <2>1, <2>2, <2>4, <2>5 DEF c, IsJoined
  <1>6. \A m \in 1..Len(d) : e[m] = d[m]
    BY <1>1, <1>3, <1>4, <1>5
  <1>7. e[Len(d) + 1] = "."
    BY <1>1, <1>3, <1>4, <1>5
  <1>8. \A m \in 1..Len(chars) : e[Len(d) + 1 + m] = chars[m]
    <2> SUFFICES ASSUME NEW m \in 1..Len(chars) PROVE e[Len(d) + 1 + m] = chars[m]
      OBVIOUS
    <2>1. Len(p) + m \in 1..Len(q) /\ Len(p) + m = Len(d) + 1 + m
      BY <1>1, <1>3, <1>4
    <2> QED
      BY <1>4, <1>5, <2>1
  <1> QED
    BY <1>1, <1>3, <1>4, <1>5, <1>6, <1>7, <1>8 DEF Looks

(* What begins at i is an element of these characters that ends at last with *)
(* end, as far as the text goes.                                             *)
Found(text, i, last, chars, end) ==
    /\ DotAt(text, i) \in Nat
    /\ DotAt(text, i) > Len(text) => Len(text) < last
    /\ DotAt(text, i) <= Len(text) =>
         /\ DotAt(text, i) > i
         /\ text[DotAt(text, i)] = "."
         /\ TerminatorAt(text, i) = last
         /\ last <= Len(text) =>
              /\ text[last] = end
              /\ SubSeq(text, DotAt(text, i) + 1, last - 1) = chars

(* Where a text goes on as an element does, as far as it goes, Parse *)
(* finds that element, or sees that it is not there in full.         *)
LEMMA ElementFound ==
    ASSUME NEW S, Digits \subseteq S, "." \in S,
           NEW chars \in Seq(S), NEW sep \in S,
           NEW e, e = Element(Len(chars), chars, sep),
           NEW text \in Seq(S), NEW i \in Nat, i >= 1, i <= Len(text) + 1,
           \A m \in 1..Len(e) : i - 1 + m <= Len(text) => text[i - 1 + m] = e[m]
    PROVE  Found(text, i, i - 1 + Len(e), chars, sep)
  <1> DEFINE d == Decimal(Len(chars))
             n == Len(chars)
             L == Len(text)
             dot == DotAt(text, i)
             after == {j \in i..L : text[j] \notin Digits}
  <1>1. /\ n \in Nat /\ L \in Nat /\ d \in Seq(Digits) /\ Len(d) >= 1 /\ Len(d) \in Nat
        /\ Number(d) = n /\ d \in Seq(S)
    <2>1. n \in Nat /\ L \in Nat
      OBVIOUS
    <2>2. d \in Seq(Digits) /\ Len(d) >= 1 /\ Number(d) = n
      BY <2>1, DecimalOf
    <2> HIDE DEF d, n, L
    <2>3. d \in Seq(S)
      BY <2>2, SeqMonotonic
    <2> QED
      BY <2>1, <2>2, <2>3
  <1>2. /\ Len(e) = Len(d) + 1 + n + 1
        /\ \A m \in 1..Len(d) : e[m] = d[m]
        /\ e[Len(d) + 1] = "."
        /\ \A m \in 1..n : e[Len(d) + 1 + m] = chars[m]
        /\ e[Len(d) + 1 + n + 1] = sep
    <2>1. d = Decimal(Len(chars))
      OBVIOUS
    <2> HIDE DEF d
    <2>2. Looks(e, d, chars, sep)
      BY <2>1, ElementLook
    <2> QED
      BY <2>2 DEF Looks
  <1>3. dot = IF after = {} THEN L + 1 ELSE Min(after)
    BY DEF DotAt
  <1>4. TerminatorAt(text, i) = dot + Number(SubSeq(text, i, dot - 1)) + 1
    BY DEF TerminatorAt
  <1>0. \A m \in Nat : m >= 1 /\ m <= Len(e) /\ i - 1 + m <= L => text[i - 1 + m] = e[m]
    <2>1. Len(e) \in Nat
      <3> HIDE DEF d, n
      <3> QED
        BY <1>1, <1>2
    <2>2. \A m \in Nat : m >= 1 /\ m <= Len(e) => m \in 1..Len(e)
      <3> DEFINE x == Len(e)
      <3>1. x \in Nat
        BY <2>1
      <3> HIDE DEF x
      <3>2. \A m \in Nat : m >= 1 /\ m <= x => m \in 1..x
        BY <3>1
      <3> QED
        BY <3>2 DEF x
    <2> QED
      BY <2>2
  <1> HIDE DEF d, n, L, dot
  <1>5. \A j \in Nat : j >= i /\ j <= L /\ j < i + Len(d) =>
            text[j] = d[j - i + 1] /\ text[j] \in Digits
    <2> SUFFICES ASSUME NEW j \in Nat, j >= i, j <= L, j < i + Len(d)
                 PROVE  text[j] = d[j - i + 1] /\ text[j] \in Digits
      OBVIOUS
    <2>1. j - i + 1 \in 1..Len(d) /\ j - i + 1 <= Len(e) /\ i - 1 + (j - i + 1) = j /\ j - i + 1 \in Nat
      BY <1>1, <1>2
    <2> DEFINE m == j - i + 1
    <2>2. text[j] = e[j - i + 1]
      <3>1. m \in Nat /\ m >= 1 /\ m <= Len(e) /\ i - 1 + m = j
        BY <2>1, <1>1, <1>2
      <3> HIDE DEF m
      <3>2. text[i - 1 + m] = e[m]
        BY <1>0, <3>1
      <3> QED
        BY <3>1, <3>2 DEF m
    <2> QED
      BY <1>1, <1>2, <2>1, <2>2
  <1>6. CASE i + Len(d) <= L
    <2>1. text[i + Len(d)] = "."
      <3>1. i - 1 + (Len(d) + 1) = i + Len(d) /\ Len(d) + 1 <= Len(e) /\ Len(d) + 1 \in Nat /\ Len(d) + 1 >= 1
        BY <1>1, <1>2
      <3> QED
        BY <1>0, <1>2, <1>6, <3>1
    <2>2. "." \notin Digits
      BY OneByteIs
    <2>3. i + Len(d) \in after
      BY <1>1, <1>6, <2>1, <2>2
    <2>4. \A j \in after : i + Len(d) <= j
      BY <1>1, <1>5
    <2>5. dot = i + Len(d)
      <3>1. \A j \in after : j \in Nat
        BY <1>1
      <3>2. \A x \in after : (\A y \in after : x <= y) => x = i + Len(d)
        <4> DEFINE z == i + Len(d)
        <4>1. z \in Nat /\ z \in after /\ \A y \in after : z <= y
          BY <1>1, <2>3, <2>4
        <4> HIDE DEF after, z
        <4> SUFFICES ASSUME NEW x \in after, \A y \in after : x <= y PROVE x = z
          BY DEF z
        <4>2. x <= z /\ z <= x /\ x \in Nat
          BY <3>1, <4>1
        <4> QED
          BY <4>1, <4>2
      <3> HIDE DEF after
      <3>3. dot = Min(after)
        BY <1>3, <2>3
      <3>4. Min(after) \in after /\ \A y \in after : Min(after) <= y
        BY <2>3, <2>4 DEF Min
      <3> QED
        BY <3>2, <3>3, <3>4
    <2>6. SubSeq(text, i, dot - 1) = d
      <3> DEFINE s == SubSeq(text, i, dot - 1)
      <3>1. s \in Seq(S) /\ Len(s) = Len(d) /\ \A m \in 1..Len(d) : s[m] = text[i + m - 1]
        BY <1>1, <1>6, <2>5 DEF L
      <3>2. \A m \in 1..Len(d) : text[i + m - 1] = d[m]
        <4> SUFFICES ASSUME NEW m \in 1..Len(d) PROVE text[i + m - 1] = d[m]
          OBVIOUS
        <4>1. i + m - 1 \in Nat /\ i + m - 1 >= i /\ i + m - 1 <= L /\ i + m - 1 < i + Len(d)
              /\ (i + m - 1) - i + 1 = m
          BY <1>1, <1>6
        <4> QED
          BY <1>5, <4>1
      <3> HIDE DEF s
      <3>4. s = d
        BY <1>1, <3>1, <3>2, SeqEqual
      <3> QED
        BY <3>4 DEF s
    <2>7. TerminatorAt(text, i) = i - 1 + Len(e)
      <3>1. TerminatorAt(text, i) = dot + n + 1
        BY <1>1, <1>4, <2>6
      <3> QED
        BY <1>1, <1>2, <2>5, <3>1
    <2>8. ASSUME i - 1 + Len(e) <= L
          PROVE  /\ text[i - 1 + Len(e)] = sep
                 /\ SubSeq(text, dot + 1, (i - 1 + Len(e)) - 1) = chars
      <3>1. text[i - 1 + Len(e)] = sep
        <4>1. Len(e) \in Nat /\ Len(e) >= 1 /\ Len(e) <= Len(e)
          BY <1>1, <1>2
        <4> QED
          BY <1>0, <1>2, <2>8, <4>1
      <3> DEFINE s == SubSeq(text, dot + 1, (i - 1 + Len(e)) - 1)
      <3>2. s \in Seq(S) /\ Len(s) = n /\ \A m \in 1..n : s[m] = text[dot + m]
        <4>1. dot + 1 = i + Len(d) + 1 /\ (i - 1 + Len(e)) - 1 = i + Len(d) + n
          BY <1>1, <1>2, <2>5
        <4>2. i + Len(d) + n <= L
          BY <1>1, <1>2, <2>8
        <4> DEFINE p == dot + 1
                   q == (i - 1 + Len(e)) - 1
        <4>3. p \in Nat /\ q \in Nat /\ p >= 1 /\ q <= L /\ q - p + 1 = n /\ p <= q + 1 /\ dot \in Nat
          <5>1. p = i + Len(d) + 1 /\ q = i + Len(d) + n /\ dot = i + Len(d)
            BY <2>5, <4>1
          <5> HIDE DEF p, q
          <5> QED
            BY <1>1, <4>2, <5>1
        <4> HIDE DEF p, q
        <4>4. \A j \in p..q : text[j] \in S
          BY <1>1, <4>3 DEF L
        <4>5. /\ SubSeq(text, p, q) \in Seq(S)
              /\ Len(SubSeq(text, p, q)) = n
              /\ \A m \in 1..n : SubSeq(text, p, q)[m] = text[p + m - 1]
          BY <1>1, <4>3, <4>4, SubSeqProperties
        <4>6. \A m \in 1..n : p + m - 1 = dot + m
          BY <1>1, <4>3 DEF p
        <4> QED
          BY <4>5, <4>6 DEF p, q
      <3>3. \A m \in 1..n : text[dot + m] = chars[m]
        <4> SUFFICES ASSUME NEW m \in 1..n PROVE text[dot + m] = chars[m]
          OBVIOUS
        <4>1. i - 1 + (Len(d) + 1 + m) = dot + m /\ Len(d) + 1 + m \in Nat /\ Len(d) + 1 + m >= 1
              /\ Len(d) + 1 + m <= Len(e) /\ i - 1 + (Len(d) + 1 + m) <= L
          BY <1>1, <1>2, <2>5, <2>8
        <4>2. text[i - 1 + (Len(d) + 1 + m)] = e[Len(d) + 1 + m]
          BY <1>0, <4>1
        <4> QED
          BY <1>2, <4>1, <4>2
      <3> HIDE DEF s
      <3>4. s = chars
        BY <3>2, <3>3, SeqEqual DEF n
      <3> QED
        BY <3>1, <3>4 DEF s
    <2> QED
      BY <1>1, <1>6, <2>1, <2>5, <2>7, <2>8 DEF L, dot, Found
  <1>7. CASE ~(i + Len(d) <= L)
    <2>1. after = {}
      BY <1>1, <1>5, <1>7
    <2>2. dot = L + 1
      BY <1>3, <2>1
    <2> QED
      BY <1>1, <1>2, <1>7, <2>2 DEF L, dot, Found
  <1> QED
    BY <1>6, <1>7

-----------------------------------------------------------------------------
(***************************************************************************)
(* What Parse finds.                                                       *)
(***************************************************************************)
(* The minimum of a set of naturals. *)
LEMMA MinIs ==
    ASSUME NEW T, T \subseteq Nat, T # {}
    PROVE  Min(T) \in T /\ \A x \in T : Min(T) <= x
  <1> DEFINE R == OpToRel(<, Nat)
  <1>1. IsWellFoundedOn(R, Nat)
    BY NatLessThanWellFounded
  <1>2. \E x \in T : \A y \in T : ~ (<<y, x>> \in R)
    <2> HIDE DEF R
    <2> QED
      BY <1>1, WFMin
  <1>3. PICK x \in T : \A y \in T : ~ (<<y, x>> \in R)
    BY <1>2
  <1>4. \A y \in T : x <= y
    <2> SUFFICES ASSUME NEW y \in T PROVE x <= y
      OBVIOUS
    <2>1. ~(y < x)
      BY <1>3, x \in Nat, y \in Nat DEF OpToRel
    <2> QED
      BY <2>1, x \in Nat, y \in Nat
  <1> QED
    BY <1>4 DEF Min

(* Where the digits end, only digits have been. *)
LEMMA DotIs ==
    ASSUME NEW S, NEW text \in Seq(S), NEW i \in Nat, i >= 1, i <= Len(text) + 1
    PROVE  /\ DotAt(text, i) \in Nat /\ DotAt(text, i) >= i /\ DotAt(text, i) <= Len(text) + 1
           /\ \A k \in Nat : k >= i /\ k < DotAt(text, i) => text[k] \in Digits
  <1> DEFINE L == Len(text)
             dot == DotAt(text, i)
             after == {j \in i..L : text[j] \notin Digits}
  <1>1. dot = IF after = {} THEN L + 1 ELSE Min(after)
    BY DEF DotAt
  <1>2. L \in Nat /\ i <= L + 1
    OBVIOUS
  <1> HIDE DEF L, dot
  <1>3. CASE after = {}
    <2>1. dot = L + 1
      BY <1>1, <1>3
    <2>2. \A k \in Nat : k >= i /\ k < dot => text[k] \in Digits
      BY <1>2, <1>3, <2>1
    <2> QED
      BY <1>2, <2>1, <2>2 DEF L, dot
  <1>4. CASE after # {}
    <2>1. after \subseteq Nat
      BY <1>2
    <2>2. dot = Min(after)
      BY <1>1, <1>4
    <2>3. dot \in after /\ \A x \in after : dot <= x
      <3> HIDE DEF after
      <3> QED
        BY <1>4, <2>1, <2>2, MinIs
    <2>4. dot \in Nat /\ dot >= i /\ dot <= L
      BY <1>2, <2>3
    <2>5. \A k \in Nat : k >= i /\ k < dot => text[k] \in Digits
      <3> SUFFICES ASSUME NEW k \in Nat, k >= i, k < dot PROVE text[k] \in Digits
        OBVIOUS
      <3>1. k \notin after
        <4> HIDE DEF after
        <4> QED
          BY <2>3, <2>4
      <3>2. k \in i..L
        BY <1>2, <2>4
      <3> QED
        BY <3>1, <3>2
    <2> QED
      BY <1>2, <2>4, <2>5 DEF L, dot
  <1> QED
    BY <1>3, <1>4

(* Every sequence of digits has such a list, so it stands for a natural *)
(* number.                                                              *)
LEMMA CountsExist ==
    ASSUME NEW ds \in Seq(Digits)
    PROVE  \E g : Counts(g, ds)
  <1> DEFINE n == Len(ds)
             Upto(g, m) == /\ g \in [0..n -> Nat]
                           /\ g[0] = 0
                           /\ \A i \in 1..n : i <= m => g[i] = 10 * g[i-1] + Digit(ds[i])
             T == {m \in Nat : \E g : Upto(g, m)}
  <1>0. n \in Nat /\ \A i \in 1..n : ds[i] \in Digits
    OBVIOUS
  <1>9. \A c \in Digits : Digit(c) \in Nat
    <2> SUFFICES ASSUME NEW c \in Digits PROVE Digit(c) \in Nat
      OBVIOUS
    <2>1. \E d \in 0..9 : DigitChars[d + 1] = c
      <3>1. DOMAIN DigitChars = 1..10
        BY DEF DigitChars
      <3>2. PICK i \in 1..10 : DigitChars[i] = c
        BY <3>1 DEF Digits, ToSet
      <3>3. i - 1 \in 0..9 /\ (i - 1) + 1 = i
        OBVIOUS
      <3> QED
        BY <3>2, <3>3
    <2>2. Digit(c) \in 0..9
      BY <2>1 DEF Digit
    <2> QED
      BY <2>2
  <1>1. 0 \in T
    <2>1. Upto([i \in 0..n |-> 0], 0)
      BY <1>0
    <2> QED
      BY <2>1
  <1>2. ASSUME NEW m \in Nat, m \in T
        PROVE  m + 1 \in T
    <2>1. PICK g : Upto(g, m)
      BY <1>2
    <2>2. CASE m + 1 \in 1..n
      <3> DEFINE h == [g EXCEPT ![m + 1] = 10 * g[m] + Digit(ds[m + 1])]
      <3> HIDE DEF n
      <3>1. m \in 0..n /\ m + 1 \in 0..n
        BY <1>0, <2>2
      <3>2. 10 * g[m] + Digit(ds[m + 1]) \in Nat
        BY <1>0, <1>9, <2>1, <2>2, <3>1
      <3>3. h \in [0..n -> Nat] /\ h[0] = 0
        <4>1. g \in [0..n -> Nat] /\ g[0] = 0 /\ m + 1 # 0
          BY <2>1
        <4> QED
          BY <1>0, <3>1, <3>2, <4>1
      <3>4. ASSUME NEW i \in 1..n, i <= m + 1
            PROVE  h[i] = 10 * h[i-1] + Digit(ds[i])
        <4>1. CASE i = m + 1
          BY <2>1, <3>1, <4>1, (m + 1) - 1 = m, m # m + 1
        <4>2. CASE i # m + 1
          BY <1>0, <2>1, <3>4, <4>2, i \in 0..n, i - 1 \in 0..n, i <= m, i - 1 # m + 1
        <4> QED
          BY <4>1, <4>2
      <3>5. Upto(h, m + 1)
        BY <3>3, <3>4
      <3> HIDE DEF Upto, h
      <3> QED
        BY <3>5
    <2>3. CASE m + 1 \notin 1..n
      <3>1. Upto(g, m + 1)
        BY <1>0, <2>1, <2>3
      <3> HIDE DEF Upto
      <3> QED
        BY <3>1
    <2> QED
      BY <2>2, <2>3
  <1>3. n \in T
    <2> HIDE DEF T
    <2> QED
      BY <1>0, <1>1, <1>2, NatSetInduction
  <1>4. PICK g : Upto(g, n)
    BY <1>3
  <1>5. Counts(g, ds)
    <2>1. \A i \in 1..n : i <= n
      BY <1>0
    <2>2. \A i \in 1..n : g[i] = 10 * g[i-1] + Digit(ds[i])
      BY <1>4, <2>1
    <2> QED
      BY <1>4, <2>2 DEF Counts
  <1> QED
    BY <1>5

LEMMA NumberType ==
    ASSUME NEW ds \in Seq(Digits)
    PROVE  Number(ds) \in Nat
  <1>1. PICK g : Counts(g, ds)
    BY CountsExist
  <1>2. Number(ds) = g[Len(ds)] /\ Len(ds) \in 0..Len(ds)
    BY <1>1, NumberIsLast
  <1> QED
    BY <1>1, <1>2 DEF Counts

(* The terminator of an element is behind its dot. *)
LEMMA TerminatorIs ==
    ASSUME NEW S, NEW text \in Seq(S), NEW i \in Nat, i >= 1, i <= Len(text) + 1
    PROVE  TerminatorAt(text, i) \in Nat /\ TerminatorAt(text, i) > DotAt(text, i)
  <1> DEFINE dot == DotAt(text, i)
             ds == SubSeq(text, i, dot - 1)
  <1>1. /\ dot \in Nat /\ dot >= i /\ dot <= Len(text) + 1
        /\ \A k \in Nat : k >= i /\ k < dot => text[k] \in Digits
    BY DotIs
  <1>2. TerminatorAt(text, i) = dot + Number(ds) + 1
    BY DEF TerminatorAt
  <1> HIDE DEF dot
  <1>3. ds \in Seq(Digits)
    <2>1. i \in Int /\ dot - 1 \in Int /\ \A k \in i..(dot - 1) : text[k] \in Digits
      BY <1>1
    <2> QED
      BY <2>1, SubSeqProperties
  <1>4. Number(ds) \in Nat
    <2> HIDE DEF ds
    <2> QED
      BY <1>3, NumberType
  <1> HIDE DEF ds
  <1> QED
    BY <1>1, <1>2, <1>4 DEF dot

(* What Parse finds from i on, given what it finds behind. *)
ParseFrom(f, text, i) ==
    LET dot == DotAt(text, i)
        end == TerminatorAt(text, i)
    IN  IF i > Len(text) THEN <<>>
        ELSE IF dot = i \/ dot > Len(text) \/ text[dot] # "." \/ end > Len(text)
        THEN <<Corrupt>>
        ELSE <<SubSeq(text, dot + 1, end - 1)>>
               \o (IF text[end] = ";" THEN <<>> ELSE f[end + 1])

(* Parse only depends on what it finds further on. *)
LEMMA ParseFromLater ==
    ASSUME NEW S, NEW text \in Seq(S), NEW i \in Nat, i >= 1, i <= Len(text) + 1,
           NEW f, NEW h, \A k \in Nat : k > i /\ k <= Len(text) + 1 => f[k] = h[k]
    PROVE  ParseFrom(f, text, i) = ParseFrom(h, text, i)
  <1> DEFINE dot == DotAt(text, i)
             end == TerminatorAt(text, i)
  <1>1. dot \in Nat /\ dot >= i /\ dot <= Len(text) + 1
    BY DotIs
  <1>2. end \in Nat /\ end > dot
    BY TerminatorIs
  <1> HIDE DEF dot, end
  <1>3. end <= Len(text) => f[end + 1] = h[end + 1]
    <2> SUFFICES ASSUME end <= Len(text) PROVE f[end + 1] = h[end + 1]
      OBVIOUS
    <2>1. end + 1 \in Nat /\ end + 1 > i /\ end + 1 <= Len(text) + 1
      BY <1>1, <1>2
    <2> QED
      BY <2>1
  <1>4. CASE end > Len(text)
    BY <1>4 DEF ParseFrom, dot, end
  <1>5. CASE ~(end > Len(text))
    <2>1. end <= Len(text)
      BY <1>2, <1>5
    <2>2. f[end + 1] = h[end + 1]
      BY <1>3, <2>1
    <2> QED
      BY <2>2 DEF ParseFrom, dot, end
  <1> QED
    BY <1>4, <1>5

(* Parse unfolded: each element, then what follows. *)
LEMMA ParseUnfolds ==
    ASSUME NEW S, NEW text \in Seq(S)
    PROVE  \E f : /\ Parse(text) = f[1]
                  /\ \A i \in 1..Len(text) + 1 : f[i] = ParseFrom(f, text, i)
  <1> DEFINE N == Len(text) + 1
             Eq(f) == f = [i \in 1..N |-> ParseFrom(f, text, i)]
             from == CHOOSE f : Eq(f)
             Upto(f, m) == /\ f = [i \in 1..N |-> f[i]]
                           /\ \A i \in 1..N : i + m >= N => f[i] = ParseFrom(f, text, i)
             T == {m \in Nat : \E f : Upto(f, m)}
  <1>1. Parse(text) = from[1]
    BY DEF Parse, ParseFrom
  <1>2. N \in Nat /\ N >= 1
    OBVIOUS
  <1>3. \A f, h : \A i \in 1..N :
          (\A k \in Nat : k > i /\ k <= N => f[k] = h[k])
            => ParseFrom(f, text, i) = ParseFrom(h, text, i)
    BY ParseFromLater
  <1> HIDE DEF N
  <1>4. 0 \in T
    <2> DEFINE e == [i \in 1..N |-> <<>>]
               f == [i \in 1..N |-> IF i = N THEN ParseFrom(e, text, N) ELSE <<>>]
    <2>1. f = [i \in 1..N |-> f[i]]
      OBVIOUS
    <2>2. ASSUME NEW i \in 1..N, i + 0 >= N PROVE f[i] = ParseFrom(f, text, i)
      <3>1. i = N
        BY <1>2, <2>2
      <3>2. \A k \in Nat : k > i /\ k <= N => e[k] = f[k]
        BY <1>2, <3>1
      <3>3. f[i] = ParseFrom(e, text, i)
        BY <3>1
      <3> HIDE DEF e, f
      <3> QED
        BY <1>3, <3>2, <3>3
    <2>3. Upto(f, 0)
      <3> HIDE DEF f
      <3> QED
        BY <2>1, <2>2
    <2> HIDE DEF Upto, f
    <2> QED
      BY <2>3
  <1>5. ASSUME NEW m \in Nat, m \in T
        PROVE  m + 1 \in T
    <2>1. PICK f : Upto(f, m)
      BY <1>5
    <2> DEFINE c == N - (m + 1)
               h == [i \in 1..N |-> IF i = c THEN ParseFrom(f, text, i) ELSE f[i]]
    <2>2. h = [i \in 1..N |-> h[i]]
      OBVIOUS
    <2>3. c \in Int /\ \A i \in 1..N : i + (m + 1) >= N <=> i >= c
      BY <1>2
    <2>4. \A i \in 1..N : i > c => i + m >= N
      BY <1>2
    <2> HIDE DEF c
    <2>5. ASSUME NEW i \in 1..N, i + (m + 1) >= N
          PROVE  h[i] = ParseFrom(h, text, i)
      <3>1. h[i] = ParseFrom(f, text, i)
        <4>1. CASE i = c
          BY <4>1
        <4>2. CASE i # c
          <5>1. i + m >= N
            BY <2>3, <2>4, <2>5, <4>2
          <5>2. f[i] = ParseFrom(f, text, i)
            BY <2>1, <5>1
          <5> QED
            BY <4>2, <5>2
        <4> QED
          BY <4>1, <4>2
      <3>2. \A k \in Nat : k > i /\ k <= N => f[k] = h[k]
        <4> SUFFICES ASSUME NEW k \in Nat, k > i, k <= N PROVE f[k] = h[k]
          OBVIOUS
        <4>1. k \in 1..N /\ k # c
          BY <1>2, <2>3, <2>5
        <4> QED
          BY <4>1
      <3> HIDE DEF h
      <3>3. ParseFrom(f, text, i) = ParseFrom(h, text, i)
        BY <1>3, <3>2
      <3> QED
        BY <3>1, <3>3
    <2>6. Upto(h, m + 1)
      <3> HIDE DEF h
      <3> QED
        BY <2>2, <2>5
    <2> HIDE DEF Upto, h
    <2> QED
      BY <2>6
  <1>6. N \in T
    <2> HIDE DEF T
    <2> QED
      BY <1>2, <1>4, <1>5, NatSetInduction
  <1>7. PICK f : Upto(f, N)
    BY <1>6
  <1>8. Eq(f)
    <2>1. \A i \in 1..N : f[i] = ParseFrom(f, text, i)
      <3>1. \A i \in 1..N : i + N >= N
        BY <1>2
      <3> QED
        BY <1>7, <3>1
    <2> QED
      BY <1>7, <2>1
  <1>9. Eq(from)
    <2> HIDE DEF Eq
    <2> QED
      BY <1>8
  <1> HIDE DEF from
  <1>10. \A i \in 1..N : from[i] = ParseFrom(from, text, i)
    BY <1>9
  <1> QED
    BY <1>1, <1>10 DEF N

-----------------------------------------------------------------------------
(***************************************************************************)
(* The text of an instruction.                                             *)
(***************************************************************************)
(* What the protocol itself is written in has one byte. *)
LEMMA OneByteHas == Digits \subseteq OneByte /\ {".", ",", ";"} \subseteq OneByte
  BY DEF OneByte

(* What ends the element j. *)
EndOf(ins, j) == IF j = Len(ins) THEN ";" ELSE ","

(* Functions on 1..n are the sequences of length n. *)
LEMMA IsSequence ==
    ASSUME NEW U, NEW n \in Nat, NEW s \in [1..n -> U]
    PROVE  s \in Seq(U) /\ Len(s) = n /\ DOMAIN s = 1..n
  OBVIOUS

(* The text of an instruction is the concatenation of its elements. *)
LEMMA ProtocolTextIs ==
    ASSUME NEW S, Digits \subseteq S, {".", ",", ";"} \subseteq S, NEW ins \in Seq(Seq(S))
    PROVE  /\ ElementsOf(ins) \in Seq(Seq(S)) /\ Len(ElementsOf(ins)) = Len(ins)
           /\ \A j \in 1..Len(ins) :
                ElementsOf(ins)[j] = Element(Len(ins[j]), ins[j], EndOf(ins, j))
           /\ ProtocolText(ins) = FlattenSeq(ElementsOf(ins))
           /\ ProtocolText(ins) \in Seq(S)
  <1> DEFINE n == Len(ins)
             E == ElementsOf(ins)
  <1>1. n \in Nat /\ DOMAIN ins = 1..n /\ \A j \in 1..n : ins[j] \in Seq(S)
    <2>1. \A j \in 1..Len(ins) : ins[j] \in Seq(S)
      BY ElementOfSeq
    <2> HIDE DEF E
    <2> QED
      BY <2>1, LenProperties
  <1>2. E = [j \in 1..n |-> Element(Len(ins[j]), ins[j], EndOf(ins, j))]
    BY <1>1 DEF ElementsOf, EndOf
  <1> HIDE DEF n, E
  <1>3. ASSUME NEW j \in 1..n
        PROVE  Element(Len(ins[j]), ins[j], EndOf(ins, j)) \in Seq(S)
    <2>1. EndOf(ins, j) \in S /\ "." \in S
      BY DEF EndOf
    <2> DEFINE d == Decimal(Len(ins[j]))
               e == Element(Len(ins[j]), ins[j], EndOf(ins, j))
    <2>2. d = Decimal(Len(ins[j])) /\ e = Element(Len(ins[j]), ins[j], EndOf(ins, j))
      OBVIOUS
    <2> HIDE DEF d, e
    <2>3. e \in Seq(S)
      BY <1>1, <2>1, <2>2, ElementLook
    <2> QED
      BY <2>2, <2>3
  <1>4. E \in [1..n -> Seq(S)]
    BY <1>2, <1>3
  <1>5. E \in Seq(Seq(S)) /\ Len(E) = n /\ \A j \in 1..n : E[j] = Element(Len(ins[j]), ins[j], EndOf(ins, j))
    <2>1. DOMAIN E = 1..n /\ E \in Seq(Seq(S))
      BY <1>1, <1>4, IsSequence
    <2>2. Len(E) = n
      BY <1>1, <1>4, IsSequence
    <2> QED
      BY <1>2, <2>1, <2>2
  <1>6. ProtocolText(ins) = FlattenSeq(E)
    <2>1. [j \in DOMAIN ins |-> Element([i \in DOMAIN ins |-> Len(ins[i])][j], ins[j], IF j = Len(ins) THEN ";" ELSE ",")] = E
      BY <1>1, <1>2 DEF EndOf, n
    <2> QED
      BY <2>1 DEF ProtocolText, Text
  <1> QED
    BY <1>5, <1>6, FlattenType DEF n, E

(* Where each of its elements ends in the text of an instruction. *)
TextCuts(b, ins) ==
    /\ b \in [0..Len(ins) -> Nat]
    /\ b[0] = 0 /\ b[Len(ins)] = Len(ProtocolText(ins))
    /\ \A j \in 1..Len(ins) : b[j-1] < b[j] /\ b[j] <= Len(ProtocolText(ins))
    /\ \A j \in 1..Len(ins), m \in Nat :
         m >= 1 /\ m <= b[j] - b[j-1] =>
           ProtocolText(ins)[b[j-1] + m] = Element(Len(ins[j]), ins[j], EndOf(ins, j))[m]
    /\ \A j \in 1..Len(ins) :
         b[j] - b[j-1] = Len(Element(Len(ins[j]), ins[j], EndOf(ins, j)))

(* Every instruction has such cuts. *)
LEMMA TextCutsExist ==
    ASSUME NEW ins \in Seq(Seq(OneByte))
    PROVE  \E b : TextCuts(b, ins)
  <1> DEFINE n == Len(ins)
             E == ElementsOf(ins)
             T == ProtocolText(ins)
  <1>1. /\ E \in Seq(Seq(OneByte)) /\ Len(E) = n
        /\ \A j \in 1..n : E[j] = Element(Len(ins[j]), ins[j], EndOf(ins, j))
        /\ T = FlattenSeq(E) /\ T \in Seq(OneByte)
    BY ProtocolTextIs, OneByteHas
  <1>2. PICK b : Cuts(b, E)
    <2> HIDE DEF E
    <2> QED
      BY <1>1, CutsExist
  <1>3. n \in Nat /\ \A j \in 1..n : ins[j] \in Seq(OneByte) /\ E[j] \in Seq(OneByte)
    <2> HIDE DEF E
    <2> QED
      BY <1>1
  <1> HIDE DEF n, E, T
  <1>4. /\ b \in [0..n -> Nat] /\ b[0] = 0 /\ b[n] = Len(T)
        /\ \A j \in 1..n :
             /\ b[j] = b[j-1] + Len(E[j])
             /\ b[j] <= Len(T)
             /\ \A m \in 1..Len(E[j]) : T[b[j-1] + m] = E[j][m]
    BY <1>1, <1>2 DEF Cuts
  <1>5. ASSUME NEW j \in 1..n
        PROVE  /\ b[j-1] < b[j] /\ b[j] - b[j-1] = Len(E[j])
               /\ \A m \in Nat : m >= 1 /\ m <= b[j] - b[j-1] => T[b[j-1] + m] = E[j][m]
    <2>1. j - 1 \in 0..n /\ j \in 0..n
      BY <1>3
    <2>2. b[j] \in Nat /\ b[j-1] \in Nat /\ b[j] = b[j-1] + Len(E[j]) /\ Len(E[j]) \in Nat
      BY <1>3, <1>4, <2>1
    <2>3. E[j] # <<>>
      <3>1. E[j] = ((Decimal(Len(ins[j])) \o <<".">>) \o ins[j]) \o <<EndOf(ins, j)>>
        BY <1>1 DEF Element
      <3>2. Decimal(Len(ins[j])) \o <<".">> \in Seq(OneByte)
        <4>1. Len(ins[j]) \in Nat
          BY <1>3
        <4>2. Decimal(Len(ins[j])) \in Seq(Digits)
          BY <4>1, DecimalOf
        <4>3. Decimal(Len(ins[j])) \in Seq(OneByte)
          BY <4>2, OneByteHas, SeqMonotonic
        <4>4. "." \in OneByte
          BY OneByteHas
        <4>5. <<".">> \in Seq(OneByte)
          BY <4>4
        <4> QED
          BY <4>3, <4>5
      <3>3. (Decimal(Len(ins[j])) \o <<".">>) \o ins[j] \in Seq(OneByte)
        BY <1>3, <3>2
      <3>4. EndOf(ins, j) \in OneByte
        BY OneByteHas DEF EndOf
      <3> DEFINE p == (Decimal(Len(ins[j])) \o <<".">>) \o ins[j]
      <3> HIDE DEF p
      <3>5. p \in Seq(OneByte) /\ <<EndOf(ins, j)>> \in Seq(OneByte)
        BY <3>3, <3>4 DEF p
      <3>6. p \o <<EndOf(ins, j)>> # <<>>
        BY <3>5, ConcatEqualIffEmpty
      <3> QED
        BY <3>1, <3>6 DEF p
    <2>4. Len(E[j]) > 0
      BY <1>3, <2>3, EmptySeq
    <2>5. b[j] - b[j-1] = Len(E[j]) /\ b[j-1] < b[j]
      BY <2>2, <2>4
    <2>6. \A m \in Nat : m >= 1 /\ m <= b[j] - b[j-1] => m \in 1..Len(E[j])
      BY <2>2, <2>5
    <2> QED
      BY <1>4, <2>5, <2>6
  <1>6. TextCuts(b, ins)
    <2>1. \A j \in 1..n, m \in Nat : m >= 1 /\ m <= b[j] - b[j-1] =>
            T[b[j-1] + m] = Element(Len(ins[j]), ins[j], EndOf(ins, j))[m]
      BY <1>1, <1>5
    <2>2. \A j \in 1..n : b[j] - b[j-1] = Len(Element(Len(ins[j]), ins[j], EndOf(ins, j)))
      BY <1>1, <1>5
    <2> QED
      BY <1>4, <1>5, <2>1, <2>2 DEF TextCuts, n, T
  <1> QED
    BY <1>6

(* In what begins with the text of an instruction, as far as it goes, each *)
(* element is found where it is.                                           *)
Begins(text, ins) ==
    \A m \in Nat : m >= 1 /\ m <= Len(text) /\ m <= Len(ProtocolText(ins)) =>
      text[m] = ProtocolText(ins)[m]

LEMMA FoundAtCut ==
    ASSUME NEW ins \in Seq(Seq(OneByte)), NEW b, TextCuts(b, ins),
           NEW text \in Seq(OneByte), Begins(text, ins),
           NEW j \in 1..Len(ins), b[j-1] <= Len(text)
    PROVE  Found(text, b[j-1] + 1, b[j], ins[j], EndOf(ins, j))
  <1> DEFINE e == Element(Len(ins[j]), ins[j], EndOf(ins, j))
             i == b[j-1] + 1
             sep == EndOf(ins, j)
             chars == ins[j]
  <1>1. Len(ins) \in Nat /\ j - 1 \in 0..Len(ins) /\ j \in 0..Len(ins) /\ chars \in Seq(OneByte)
    OBVIOUS
  <1>2. /\ b[j-1] \in Nat /\ b[j] \in Nat /\ b[j] <= Len(ProtocolText(ins))
        /\ b[j] - b[j-1] = Len(e)
        /\ \A m \in Nat : m >= 1 /\ m <= b[j] - b[j-1] => ProtocolText(ins)[b[j-1] + m] = e[m]
    BY <1>1 DEF TextCuts
  <1>3. sep \in OneByte /\ "." \in OneByte /\ Digits \subseteq OneByte
    BY OneByteHas DEF EndOf
  <1>4. e = Element(Len(chars), chars, sep)
    OBVIOUS
  <1>5. i \in Nat /\ i >= 1 /\ i <= Len(text) + 1 /\ i - 1 = b[j-1] /\ i - 1 + Len(e) = b[j]
    <2> DEFINE x == b[j-1]
               y == b[j]
               z == Len(e)
    <2>1. x \in Nat /\ y \in Nat /\ y - x = z /\ x <= Len(text) /\ Len(text) \in Nat
      BY <1>2
    <2> HIDE DEF x, y, z
    <2>2. x + 1 \in Nat /\ x + 1 >= 1 /\ x + 1 <= Len(text) + 1 /\ (x + 1) - 1 = x /\ (x + 1) - 1 + z = y
      BY <2>1
    <2> QED
      BY <2>2 DEF x, y, z
  <1> HIDE DEF e, i, sep, chars
  <1>6. \A m \in 1..Len(e) : i - 1 + m <= Len(text) => text[i - 1 + m] = e[m]
    <2> SUFFICES ASSUME NEW m \in 1..Len(e), b[j-1] + m <= Len(text)
                 PROVE  text[b[j-1] + m] = e[m]
      BY <1>5
    <2>1. m \in Nat /\ m >= 1 /\ m <= b[j] - b[j-1]
      BY <1>2
    <2>2. b[j-1] + m \in Nat /\ b[j-1] + m >= 1 /\ b[j-1] + m <= Len(ProtocolText(ins))
      <3> DEFINE x == b[j-1]
                 y == b[j]
                 z == Len(ProtocolText(ins))
      <3>1. x \in Nat /\ y \in Nat /\ y <= z /\ m \in Nat /\ m >= 1 /\ m <= y - x
            /\ z \in Nat
        <4>1. ProtocolText(ins) \in Seq(OneByte)
          BY OneByteHas, ProtocolTextIs
        <4> QED
          BY <1>2, <2>1, <4>1
      <3> HIDE DEF x, y, z
      <3>2. x + m \in Nat /\ x + m >= 1 /\ x + m <= z
        BY <3>1
      <3> QED
        BY <3>2 DEF x, z
    <2> QED
      BY <1>2, <2>1, <2>2 DEF Begins
  <1>7. Found(text, i, i - 1 + Len(e), chars, sep)
    BY <1>1, <1>3, <1>4, <1>5, <1>6, ElementFound
  <1> QED
    BY <1>5, <1>7 DEF i, sep, chars

-----------------------------------------------------------------------------
(***************************************************************************)
(* What is written is read again.                                          *)
(***************************************************************************)
(* Parse returns the instruction of a text. *)
THEOREM ParseText ==
    ASSUME NEW ins \in Seq(Seq(OneByte)), ins # <<>>
    PROVE  Parse(ProtocolText(ins)) = ins
  <1> DEFINE T == ProtocolText(ins)
             n == Len(ins)
  <1>1. T \in Seq(OneByte)
    BY ProtocolTextIs, OneByteHas
  <1>2. n \in Nat /\ n >= 1
    BY EmptySeq
  <1>3. PICK b : TextCuts(b, ins)
    BY TextCutsExist
  <1>4. PICK f : /\ Parse(T) = f[1]
                 /\ \A i \in 1..Len(T) + 1 : f[i] = ParseFrom(f, T, i)
    BY <1>1, ParseUnfolds
  <1>5. Begins(T, ins)
    BY DEF Begins
  <1>6. /\ b \in [0..n -> Nat] /\ b[0] = 0 /\ b[n] = Len(T)
        /\ \A j \in 1..n : b[j-1] < b[j] /\ b[j] <= Len(T)
    BY <1>3 DEF TextCuts
  <1>7. Len(T) \in Nat
    BY <1>1
  <1> HIDE DEF T, n
  <1>8. ASSUME NEW j \in 1..n
        PROVE  f[b[j-1] + 1] = <<ins[j]>> \o (IF j = n THEN <<>> ELSE f[b[j] + 1])
    <2> DEFINE i == b[j-1] + 1
               dot == DotAt(T, i)
               end == TerminatorAt(T, i)
    <2>1. b[j-1] \in Nat /\ b[j] \in Nat /\ b[j-1] < b[j] /\ b[j] <= Len(T)
      <3>1. j - 1 \in 0..n /\ j \in 0..n
        BY <1>2
      <3> QED
        BY <1>6, <3>1
    <2>2. i \in 1..Len(T) + 1 /\ i \in Nat /\ i >= 1 /\ i <= Len(T)
      <3> DEFINE x == b[j-1]
                 y == b[j]
      <3>1. x \in Nat /\ y \in Nat /\ x < y /\ y <= Len(T)
        BY <2>1
      <3> HIDE DEF x, y
      <3>2. x + 1 \in 1..Len(T) + 1 /\ x + 1 \in Nat /\ x + 1 >= 1 /\ x + 1 <= Len(T)
        BY <1>7, <3>1
      <3> QED
        BY <3>2 DEF x
    <2>3. Found(T, i, b[j], ins[j], EndOf(ins, j))
      <3>1. b[j-1] <= Len(T)
        BY <1>7, <2>1
      <3> QED
        BY <1>1, <1>3, <1>5, <3>1, FoundAtCut DEF n
    <2>4. dot \in Nat /\ dot <= Len(T)
      BY <1>7, <2>1, <2>3 DEF Found
    <2>5. dot > i /\ T[dot] = "." /\ end = b[j]
      BY <2>3, <2>4 DEF Found
    <2>6. T[end] = EndOf(ins, j) /\ SubSeq(T, dot + 1, end - 1) = ins[j]
      BY <2>1, <2>3, <2>4, <2>5 DEF Found
    <2>7. f[i] = ParseFrom(f, T, i)
      BY <1>4, <2>2
    <2>8. ~(i > Len(T)) /\ ~(dot = i) /\ ~(dot > Len(T)) /\ ~(end > Len(T))
      <3> HIDE DEF dot, end, i
      <3> QED
        BY <1>7, <2>1, <2>2, <2>4, <2>5
    <2>9. f[i] = <<ins[j]>> \o (IF T[end] = ";" THEN <<>> ELSE f[end + 1])
      BY <2>5, <2>6, <2>7, <2>8 DEF ParseFrom
    <2> HIDE DEF dot, end
    <2>10. T[end] = ";" <=> j = n
      BY <2>6 DEF EndOf, n
    <2> QED
      BY <2>5, <2>9, <2>10
  <1> DEFINE R == {k \in Nat : k \in 1..n => f[b[n-k] + 1] = SubSeq(ins, n - k + 1, n)}
  <1>9. ins \in Seq(Seq(OneByte)) /\ n = Len(ins)
    BY DEF n
  <1>10. 0 \in R
    OBVIOUS
  <1>11. ASSUME NEW k \in Nat, k \in R, k + 1 \in 1..n
         PROVE  f[b[n - (k + 1)] + 1] = SubSeq(ins, n - (k + 1) + 1, n)
    <2> DEFINE j == n - k
    <2>1. j \in 1..n /\ n - (k + 1) = j - 1 /\ n - (k + 1) + 1 = j
      BY <1>2, <1>11
    <2>2. f[b[j-1] + 1] = <<ins[j]>> \o (IF j = n THEN <<>> ELSE f[b[j] + 1])
      <3> HIDE DEF j
      <3> QED
        BY <1>8, <2>1
    <2>3. SubSeq(ins, j, n) = <<ins[j]>> \o SubSeq(ins, j + 1, n)
      <3>1. j \in 1..Len(ins) /\ n \in j..Len(ins)
        BY <1>2, <1>9, <2>1
      <3> HIDE DEF j
      <3> QED
        BY <1>9, <3>1, SubSeqRecursiveFirst
    <2>4. CASE k = 0
      <3>1. j = n /\ SubSeq(ins, j + 1, n) = <<>>
        <4>1. j = n /\ j + 1 \in Int /\ n \in Int /\ n < j + 1
          BY <1>2, <2>4
        <4> HIDE DEF j
        <4> QED
          BY <4>1, SubSeqEmpty
      <3> HIDE DEF j
      <3> QED
        BY <2>1, <2>2, <2>3, <3>1
    <2>5. CASE k # 0
      <3>1. k \in 1..n /\ j # n
        BY <1>2, <1>11, <2>5
      <3>2. f[b[j] + 1] = SubSeq(ins, j + 1, n)
        BY <1>11, <3>1
      <3> HIDE DEF j
      <3> QED
        BY <2>1, <2>2, <2>3, <3>1, <3>2
    <2> QED
      BY <2>4, <2>5
  <1>12. Nat \subseteq R
    <2>1. \A k \in Nat : k \in R => k + 1 \in R
      BY <1>11
    <2> HIDE DEF R
    <2> QED
      BY <1>10, <2>1, NatSetInduction
  <1>13. f[b[n - n] + 1] = SubSeq(ins, n - n + 1, n)
    <2>1. n \in R
      <3> HIDE DEF R
      <3> QED
        BY <1>2, <1>12
    <2>2. n \in 1..n
      BY <1>2
    <2> QED
      BY <2>1, <2>2
  <1>14. f[1] = SubSeq(ins, 1, n)
    <2>1. n - n = 0 /\ 0 + 1 = 1
      BY <1>2
    <2>2. f[b[0] + 1] = SubSeq(ins, 0 + 1, n)
      BY <1>13, <2>1
    <2> QED
      BY <1>6, <2>1, <2>2
  <1> QED
    BY <1>4, <1>9, <1>14, SubSeqFull DEF T

(* Lengths in bytes and in characters are the same without wide characters. *)
LEMMA StringIsProtocolText ==
    ASSUME NEW ins \in Seq(Seq(OneByte))
    PROVE  String(ins) = ProtocolText(ins)
  <1>1. \A i \in DOMAIN ins : Utf8(ins[i]) = ins[i]
    <2>1. \A i \in DOMAIN ins : ins[i] \in Seq(OneByte)
      BY ElementOfSeq, LenProperties
    <2> QED
      BY <2>1, Utf8OneByte
  <1>2. [i \in DOMAIN ins |-> Len(Utf8(ins[i]))] = [i \in DOMAIN ins |-> Len(ins[i])]
    BY <1>1
  <1> QED
    BY <1>2 DEF String, ProtocolText

(* The text of an instruction with an opcode is not that of an internal one. *)
LEMMA TextBegins ==
    ASSUME NEW ins \in Seq(Seq(OneByte)), ins # <<>>, ins[1] # <<>>
    PROVE  ~(ProtocolText(ins)[1] = "0" /\ ProtocolText(ins)[2] = ".")
  <1> DEFINE T == ProtocolText(ins)
             n == Len(ins[1])
             d == Decimal(n)
             e == Element(n, ins[1], EndOf(ins, 1))
  <1>1. 1 \in 1..Len(ins) /\ ins[1] \in Seq(OneByte)
    <2>1. Len(ins) \in Nat /\ Len(ins) >= 1
      BY EmptySeq
    <2>2. 1 \in 1..Len(ins)
      BY <2>1
    <2> QED
      BY <2>2, ElementOfSeq
  <1>2. n \in Nat /\ n # 0
    BY <1>1, EmptySeq
  <1>3. PICK b : TextCuts(b, ins)
    BY TextCutsExist
  <1>4. /\ b[0] = 0 /\ b[1] - b[0] = Len(e)
        /\ \A m \in Nat : m >= 1 /\ m <= Len(e) => T[m] = e[m]
    <2>1. b[0] = 0 /\ b[1] - b[1 - 1] = Len(e) /\ 1 - 1 = 0
      BY <1>1, <1>3 DEF TextCuts
    <2>2. \A m \in Nat : m >= 1 /\ m <= b[1] - b[1-1] => T[b[1 - 1] + m] = e[m]
      <3> HIDE DEF n
      <3> QED
        BY <1>1, <1>3 DEF TextCuts, n
    <2>3. \A m \in Nat : 0 + m = m
      OBVIOUS
    <2> HIDE DEF T, e
    <2> QED
      BY <2>1, <2>2, <2>3
  <1>5. d \in Seq(Digits) /\ Len(d) >= 1 /\ Number(d) = n /\ Len(d) \in Nat
    <2> HIDE DEF n
    <2>1. d \in Seq(Digits) /\ Len(d) >= 1 /\ Number(d) = n
      BY <1>2, DecimalOf
    <2> HIDE DEF d
    <2> QED
      BY <2>1
  <1>6. Looks(e, d, ins[1], EndOf(ins, 1))
    <2>1. EndOf(ins, 1) \in OneByte /\ "." \in OneByte /\ Digits \subseteq OneByte
      BY OneByteHas DEF EndOf
    <2>2. d = Decimal(Len(ins[1])) /\ e = Element(Len(ins[1]), ins[1], EndOf(ins, 1))
      OBVIOUS
    <2> HIDE DEF d, e, n
    <2> QED
      BY <1>1, <2>1, <2>2, ElementLook
  <1> HIDE DEF T, e, d
  <1>7. SUFFICES ASSUME T[1] = "0", T[2] = "." PROVE FALSE
    BY DEF T
  <1>8. Len(e) = Len(d) + 1 + n + 1 /\ \A m \in 1..Len(d) : e[m] = d[m]
    BY <1>6 DEF Looks
  <1> HIDE DEF n
  <1>9. T[1] = e[1] /\ T[2] = e[2]
    <2>1. 1 <= Len(e) /\ 2 <= Len(e)
      BY <1>2, <1>5, <1>8
    <2> QED
      BY <1>4, <2>1
  <1>10. Len(d) = 1
    <2>1. ASSUME Len(d) >= 2 PROVE FALSE
      <3>1. 2 \in 1..Len(d)
        BY <1>5, <2>1
      <3>2. d[2] \in Digits /\ e[2] = d[2]
        BY <1>5, <1>8, <3>1
      <3> QED
        BY <1>7, <1>9, <3>2, OneByteIs
    <2> DEFINE x == Len(d)
    <2>2. x \in Nat /\ x >= 1 /\ ~(x >= 2)
      BY <1>5, <2>1
    <2> HIDE DEF x
    <2>3. x = 1
      BY <2>2
    <2> QED
      BY <2>3 DEF x
  <1>11. d[1] = "0"
    BY <1>5, <1>7, <1>8, <1>9, 1 \in 1..Len(d)
  <1>12. Number(d) = 0
    <2>1. DigitChars[0 + 1] = "0" /\ 0 \in 0..9
      BY DEF DigitChars
    <2>2. Digit("0") = 0
      BY <2>1, DigitOf
    <2> DEFINE g == [i \in 0..1 |-> 0]
    <2>3. Counts(g, d)
      <3>1. \A i \in 1..1 : g[i] = 10 * g[i-1] + Digit(d[i])
        BY <1>11, <2>2
      <3>2. g \in [0..1 -> Nat] /\ g[0] = 0
        OBVIOUS
      <3> HIDE DEF g
      <3> QED
        BY <1>10, <3>1, <3>2 DEF Counts
    <2>4. g[1] = 0
      OBVIOUS
    <2> HIDE DEF g
    <2>5. Number(d) = g[Len(d)]
      BY <1>5, <2>3, NumberIsLast
    <2> QED
      BY <1>10, <2>4, <2>5
  <1> QED
    BY <1>2, <1>5, <1>12

-----------------------------------------------------------------------------
(***************************************************************************)
(* What the stream holds.                                                  *)
(***************************************************************************)
(* The text of a list of instructions. *)
TextOf(list) == FlattenSeq([i \in DOMAIN list |-> ProtocolText(list[i])])

(* The last element that was taken, if any, ends where parsing goes on. *)
AtElement(ins) ==
    \E b : TextCuts(b, ins) /\ \E j \in 1..Len(ins) : parseStart = b[j-1]

(* What guacd has sent and ReadSome has not returned. *)
Holds(list) ==
    /\ buffer \in Seq(OneByte) /\ wire \in Seq(OneByte)
    /\ buffer \o wire = TextOf(list)
    /\ parseStart <= Len(buffer)
    /\ list = <<>> => parseStart = 0
    /\ list # <<>> => AtElement(list[1])

(* The texts of a list, of the empty one, and of one by its first *)
(* instruction.                                                   *)
LEMMA TextsType ==
    ASSUME NEW list \in Seq(Seq(Seq(OneByte)))
    PROVE  /\ [i \in DOMAIN list |-> ProtocolText(list[i])] \in Seq(Seq(OneByte))
           /\ TextOf(list) \in Seq(OneByte)
  <1> DEFINE n == Len(list)
             t == [i \in DOMAIN list |-> ProtocolText(list[i])]
  <1>1. n \in Nat /\ DOMAIN list = 1..n
    BY LenProperties
  <1>2. \A i \in 1..n : ProtocolText(list[i]) \in Seq(OneByte)
    <2> SUFFICES ASSUME NEW i \in 1..n PROVE ProtocolText(list[i]) \in Seq(OneByte)
      OBVIOUS
    <2>1. list[i] \in Seq(Seq(OneByte))
      BY ElementOfSeq
    <2> QED
      BY <2>1, ProtocolTextIs, OneByteHas
  <1> HIDE DEF n
  <1>3. t \in [1..n -> Seq(OneByte)]
    BY <1>1, <1>2
  <1> HIDE DEF t
  <1>4. t \in Seq(Seq(OneByte))
    BY <1>1, <1>3, IsSequence
  <1>5. FlattenSeq(t) \in Seq(OneByte)
    BY <1>4, FlattenType
  <1> QED
    BY <1>4, <1>5 DEF t, TextOf

LEMMA TextOfNone == TextOf(<<>>) = <<>>
  <1>1. [i \in DOMAIN <<>> |-> ProtocolText(<<>>[i])] = <<>>
    OBVIOUS
  <1> QED
    BY <1>1, FlattenEmpty DEF TextOf

LEMMA TextOfFirst ==
    ASSUME NEW list \in Seq(Seq(Seq(OneByte))), list # <<>>
    PROVE  /\ list[1] \in Seq(Seq(OneByte)) /\ Tail(list) \in Seq(Seq(Seq(OneByte)))
           /\ ProtocolText(list[1]) \in Seq(OneByte)
           /\ TextOf(list) = ProtocolText(list[1]) \o TextOf(Tail(list))
  <1> DEFINE n == Len(list)
             x == ProtocolText(list[1])
             r == Tail(list)
             t == [i \in DOMAIN list |-> ProtocolText(list[i])]
             u == [i \in DOMAIN r |-> ProtocolText(r[i])]
  <1>1. n \in Nat /\ n >= 1 /\ DOMAIN list = 1..n
    BY LenProperties, EmptySeq
  <1>2. list[1] \in Seq(Seq(OneByte))
    <2>1. 1 \in 1..Len(list)
      BY <1>1
    <2> QED
      BY <2>1, ElementOfSeq
  <1>3. x \in Seq(OneByte)
    BY <1>2, ProtocolTextIs, OneByteHas
  <1>4. r \in Seq(Seq(Seq(OneByte))) /\ Len(r) = n - 1 /\ \A i \in 1..Len(r) : r[i] = list[i+1]
    BY HeadTailProperties
  <1>5. DOMAIN r = 1..(n - 1)
    BY <1>4, LenProperties
  <1>6. t \in Seq(Seq(OneByte)) /\ u \in Seq(Seq(OneByte)) /\ FlattenSeq(t) = TextOf(list)
        /\ FlattenSeq(u) = TextOf(r)
    <2> HIDE DEF r
    <2> QED
      BY <1>4, TextsType DEF TextOf
  <1>7. Len(t) = n /\ Len(u) = n - 1
    <2>1. DOMAIN t = 1..n /\ DOMAIN u = 1..(n - 1)
      BY <1>1, <1>5
    <2> HIDE DEF t, u, n
    <2>2. DOMAIN t = 1..Len(t) /\ DOMAIN u = 1..Len(u) /\ Len(t) \in Nat /\ Len(u) \in Nat
      BY <1>6, LenProperties
    <2> QED
      BY <1>1, <2>1, <2>2
  <1>8. t[1] = x /\ \A i \in 1..(n-1) : t[i + 1] = u[i]
    <2>1. \A i \in 1..(n-1) : i + 1 \in DOMAIN list /\ i \in DOMAIN r /\ i \in 1..Len(r)
      BY <1>1, <1>4, <1>5
    <2> HIDE DEF r, n
    <2> QED
      BY <1>1, <1>4, <2>1
  <1> HIDE DEF n, t, u, r, x
  <1>9. t = <<x>> \o u
    <2> DEFINE v == <<x>>
    <2>1. v \in Seq(Seq(OneByte)) /\ Len(v) = 1 /\ v[1] = x
      BY <1>3
    <2> HIDE DEF v
    <2>2. v \o u \in Seq(Seq(OneByte)) /\ IsJoined(v \o u, v, u)
      BY <1>6, <2>1, Joined
    <2>3. /\ Len(v \o u) = n /\ (v \o u)[1] = x
          /\ \A m \in 1..(n-1) : (v \o u)[1 + m] = u[m]
      BY <1>1, <1>7, <2>1, <2>2 DEF IsJoined
    <2>4. \A i \in 1..n : t[i] = (v \o u)[i]
      <3> SUFFICES ASSUME NEW i \in 1..n PROVE t[i] = (v \o u)[i]
        OBVIOUS
      <3>1. CASE i = 1
        BY <1>8, <2>3, <3>1
      <3>2. CASE i # 1
        <4>1. i - 1 \in 1..(n-1) /\ (i - 1) + 1 = i /\ 1 + (i - 1) = i
          BY <1>1, <3>2
        <4> QED
          BY <1>8, <2>3, <4>1
      <3> QED
        BY <3>1, <3>2
    <2>5. t = v \o u
      <3> DEFINE s == v \o u
      <3>1. s \in Seq(Seq(OneByte)) /\ Len(s) = Len(t) /\ \A i \in 1..Len(t) : t[i] = s[i]
        BY <1>7, <2>2, <2>3, <2>4
      <3> HIDE DEF s
      <3> QED
        BY <1>6, <3>1, SeqEqual DEF s
    <2> QED
      BY <2>5 DEF v
  <1>10. FlattenSeq(<<x>> \o u) = x \o FlattenSeq(u)
    BY <1>3, <1>6, FlattenCons
  <1> QED
    BY <1>2, <1>3, <1>4, <1>6, <1>9, <1>10 DEF r, x

(* What the stream holds begins with the first instruction. *)
LEMMA BufferBegins ==
    ASSUME NEW list \in Seq(Seq(Seq(OneByte))), list # <<>>, Holds(list)
    PROVE  Begins(buffer, list[1])
  <1> DEFINE x == ProtocolText(list[1])
             y == TextOf(Tail(list))
  <1>1. x \in Seq(OneByte) /\ y \in Seq(OneByte) /\ buffer \o wire = x \o y
    BY TextOfFirst, TextsType DEF Holds
  <1>2. buffer \in Seq(OneByte) /\ wire \in Seq(OneByte)
    BY DEF Holds
  <1> HIDE DEF x, y
  <1>3. IsJoined(buffer \o wire, buffer, wire) /\ IsJoined(x \o y, x, y)
    BY <1>1, <1>2, Joined
  <1>4. ASSUME NEW m \in Nat, m >= 1, m <= Len(buffer), m <= Len(x)
        PROVE  buffer[m] = x[m]
    <2>1. m \in 1..Len(buffer) /\ m \in 1..Len(x)
      BY <1>1, <1>2, <1>4
    <2>2. (buffer \o wire)[m] = buffer[m] /\ (x \o y)[m] = x[m]
      BY <1>3, <2>1 DEF IsJoined
    <2> QED
      BY <1>1, <2>2
  <1> QED
    BY <1>4 DEF Begins, x

(* Where the element begins that ReadSome looks at, what it finds there. *)
Seen(ins, b, j) ==
    /\ TextCuts(b, ins) /\ j \in 1..Len(ins) /\ parseStart = b[j-1]
    /\ Found(buffer, parseStart + 1, b[j], ins[j], EndOf(ins, j))
    /\ b[j-1] \in Nat /\ b[j] \in Nat /\ b[j] <= Len(ProtocolText(ins))

(* At the next element, ReadSome finds that element or knows that it is *)
(* not there yet.                                                       *)
LEMMA Sees ==
    ASSUME NEW list \in Seq(Seq(Seq(OneByte))), list # <<>>, Holds(list)
    PROVE  \E b, j : Seen(list[1], b, j)
  <1> DEFINE ins == list[1]
  <1>1. ins \in Seq(Seq(OneByte))
    BY TextOfFirst
  <1>2. PICK b : TextCuts(b, ins) /\ \E j \in 1..Len(ins) : parseStart = b[j-1]
    BY DEF Holds, AtElement
  <1>3. PICK j \in 1..Len(ins) : parseStart = b[j-1]
    BY <1>2
  <1>4. Begins(buffer, ins)
    BY BufferBegins
  <1>5. buffer \in Seq(OneByte) /\ parseStart <= Len(buffer)
    BY DEF Holds
  <1> HIDE DEF ins
  <1>6. Found(buffer, b[j-1] + 1, b[j], ins[j], EndOf(ins, j))
    BY <1>1, <1>2, <1>3, <1>4, <1>5, FoundAtCut
  <1>7. j - 1 \in 0..Len(ins) /\ j \in 0..Len(ins)
    BY <1>1
  <1>8. b[j-1] \in Nat /\ b[j] \in Nat /\ b[j] <= Len(ProtocolText(ins))
    BY <1>2, <1>7 DEF TextCuts
  <1>9. Seen(ins, b, j)
    BY <1>2, <1>3, <1>6, <1>8 DEF Seen
  <1> QED
    BY <1>9 DEF ins

(* With nothing sent, nothing is found. *)
LEMMA NothingArrived ==
    ASSUME Holds(<<>>)
    PROVE  buffer = <<>> /\ wire = <<>> /\ ~Arrived
  <1>1. buffer \in Seq(OneByte) /\ wire \in Seq(OneByte) /\ buffer \o wire = <<>> /\ parseStart = 0
    BY TextOfNone DEF Holds
  <1>2. buffer = <<>> /\ wire = <<>>
    BY <1>1, ConcatEqualIffEmpty
  <1>3. DotAt(<<>>, 0 + 1) = 1
    BY DEF DotAt
  <1> QED
    BY <1>1, <1>2, <1>3 DEF Arrived, Dot

(* A plain instruction is never refused, however it was cut. *)
LEMMA NothingRefused ==
    ASSUME NEW list \in PlainLists, Holds(list)
    PROVE  ~Refuse
  <1> SUFFICES ASSUME Refuse PROVE FALSE
    OBVIOUS
  <1>1. Arrived /\ (buffer[Dot] = "." => buffer[Terminator] \notin {",", ";"})
    BY DEF Refuse
  <1>2. list # <<>>
    BY <1>1, NothingArrived
  <1>3. PICK b, j : Seen(list[1], b, j)
    BY <1>2, Sees DEF PlainLists
  <1>4. Found(buffer, parseStart + 1, b[j], list[1][j], EndOf(list[1], j))
    BY <1>3 DEF Seen
  <1>5. Dot <= Len(buffer) /\ buffer[Dot] = "." /\ Terminator = b[j]
    BY <1>1, <1>4 DEF Found, Arrived, Dot, Terminator
  <1>6. Terminator <= Len(buffer)
    BY <1>1, <1>5 DEF Arrived
  <1>7. buffer[Terminator] = EndOf(list[1], j)
    BY <1>4, <1>5, <1>6 DEF Found, Dot
  <1> QED
    BY <1>1, <1>5, <1>7 DEF EndOf

(* Taking an element leaves what the stream holds. *)
LEMMA TakesElement ==
    ASSUME NEW list \in PlainLists, Holds(list), TakeElement
    PROVE  Holds(list)'
  <1>1. /\ Arrived /\ buffer[Dot] = "." /\ buffer[Terminator] = ","
        /\ parseStart' = Terminator /\ UNCHANGED <<wire, buffer>>
    BY DEF TakeElement
  <1>2. list # <<>>
    BY <1>1, NothingArrived
  <1>3. PICK b, j : Seen(list[1], b, j)
    BY <1>2, Sees DEF PlainLists
  <1>4. /\ Found(buffer, parseStart + 1, b[j], list[1][j], EndOf(list[1], j))
        /\ TextCuts(b, list[1]) /\ j \in 1..Len(list[1])
    BY <1>3 DEF Seen
  <1>5. Terminator = b[j] /\ Terminator <= Len(buffer)
    BY <1>1, <1>4 DEF Found, Arrived, Dot, Terminator
  <1>6. EndOf(list[1], j) = ","
    BY <1>1, <1>4, <1>5 DEF Found, Arrived, Dot
  <1>7. j + 1 \in 1..Len(list[1]) /\ (j + 1) - 1 = j
    <2>1. j # Len(list[1])
      BY <1>6 DEF EndOf
    <2>2. Len(list[1]) \in Nat
      BY <1>2, TextOfFirst DEF PlainLists
    <2> QED
      BY <1>4, <2>1, <2>2
  <1>8. AtElement(list[1])'
    <2>1. parseStart' = b[(j + 1) - 1]
      BY <1>1, <1>5, <1>7
    <2>2. \E k \in 1..Len(list[1]) : parseStart' = b[k - 1]
      BY <1>7, <2>1
    <2> QED
      BY <1>4, <2>2 DEF AtElement
  <1> QED
    BY <1>1, <1>2, <1>5, <1>8 DEF Holds

(* An instruction is returned whole, the first of those the stream holds, *)
(* and the others are left.                                               *)
LEMMA TakesInstruction ==
    ASSUME NEW list \in PlainLists, Holds(list), TakeInstruction
    PROVE  /\ list # <<>> /\ Tail(list) \in PlainLists
           /\ got' = ProtocolText(list[1])
           /\ Holds(Tail(list))'
  <1>1. /\ Arrived /\ buffer[Dot] = "." /\ buffer[Terminator] = ";"
        /\ got' = SubSeq(buffer, 1, Terminator)
        /\ buffer' = SubSeq(buffer, Terminator + 1, Len(buffer))
        /\ parseStart' = 0 /\ wire' = wire
    BY DEF TakeInstruction
  <1>2. list # <<>>
    BY <1>1, NothingArrived
  <1>0. list \in Seq(Seq(Seq(OneByte)))
    BY DEF PlainLists
  <1>3. PICK b, j : Seen(list[1], b, j)
    BY <1>2, <1>0, Sees
  <1>4. /\ Found(buffer, parseStart + 1, b[j], list[1][j], EndOf(list[1], j))
        /\ TextCuts(b, list[1]) /\ j \in 1..Len(list[1])
    BY <1>3 DEF Seen
  <1>5. Terminator = b[j] /\ Terminator <= Len(buffer)
    BY <1>1, <1>4 DEF Found, Arrived, Dot, Terminator
  <1>6. j = Len(list[1])
    <2>1. EndOf(list[1], j) = ";"
      BY <1>1, <1>4, <1>5 DEF Found, Arrived, Dot
    <2> QED
      BY <2>1 DEF EndOf
  <1> DEFINE x == ProtocolText(list[1])
             r == Tail(list)
             n == Len(x)
  <1>7. x \in Seq(OneByte) /\ r \in Seq(Seq(Seq(OneByte))) /\ TextOf(r) \in Seq(OneByte)
        /\ TextOf(list) = x \o TextOf(r)
    BY <1>0, <1>2, TextOfFirst, TextsType
  <1>8. Terminator = n /\ n \in Nat
    BY <1>4, <1>5, <1>6, <1>7 DEF TextCuts
  <1>9. buffer \in Seq(OneByte) /\ wire \in Seq(OneByte) /\ buffer \o wire = x \o TextOf(r)
    BY <1>7 DEF Holds
  <1>10. r \in PlainLists
    <2>1. Len(r) = Len(list) - 1 /\ \A i \in 1..Len(r) : r[i] = list[i + 1]
      BY <1>0, <1>2, HeadTailProperties
    <2>2. \A i \in 1..Len(list) : Plain(list[i])
      BY DEF PlainLists
    <2>3. \A i \in 1..Len(r) : i + 1 \in 1..Len(list)
      <3> DEFINE z == Len(list)
                 y == Len(r)
      <3>1. z \in Nat /\ y = z - 1
        BY <1>0, <2>1
      <3> HIDE DEF z, y
      <3>2. \A i \in 1..y : i + 1 \in 1..z
        BY <3>1
      <3> QED
        BY <3>2 DEF z, y
    <2> HIDE DEF r
    <2> QED
      BY <1>7, <2>1, <2>2, <2>3 DEF PlainLists
  <1> HIDE DEF x, n
  <1>11. got' = x
    <2> DEFINE s == SubSeq(buffer, 1, n)
    <2>1. n <= Len(buffer)
      BY <1>5, <1>8
    <2>2. s \in Seq(OneByte) /\ Len(s) = n /\ \A i \in 1..n : s[i] = buffer[i]
      BY <1>8, <1>9, <2>1
    <2>3. Begins(buffer, list[1])
      BY <1>0, <1>2, BufferBegins
    <2>4. \A i \in 1..n : buffer[i] = x[i]
      BY <1>8, <1>9, <2>1, <2>3 DEF Begins, x, n
    <2>5. got' = s
      BY <1>1, <1>8
    <2> HIDE DEF s
    <2>6. s = x
      BY <1>7, <1>8, <2>2, <2>4, SeqEqual DEF n
    <2> QED
      BY <2>5, <2>6
  <1>12. buffer = x \o buffer' /\ buffer' \in Seq(OneByte)
    <2>1. n + 1 \in 1..Len(buffer) + 1 /\ n \in 0..Len(buffer)
      BY <1>5, <1>8, <1>9
    <2>2. SubSeq(buffer, 1, n) \o SubSeq(buffer, n + 1, Len(buffer)) = SubSeq(buffer, 1, Len(buffer))
      <3>1. 1 \in 1..Len(buffer)+1 /\ n \in 1-1..Len(buffer) /\ Len(buffer) \in n..Len(buffer)
        BY <1>9, <2>1
      <3> QED
        BY <1>9, <3>1, ConcatAdjacentSubSeq
    <2>3. SubSeq(buffer, 1, Len(buffer)) = buffer
      BY <1>9, SubSeqFull
    <2>4. SubSeq(buffer, n + 1, Len(buffer)) \in Seq(OneByte)
      BY <1>9, <2>1
    <2> QED
      BY <1>1, <1>8, <1>11, <2>2, <2>3, <2>4
  <1>13. buffer' \o wire' = TextOf(r)
    <2> DEFINE p == buffer'
    <2>1. (x \o p) \o wire = x \o TextOf(r) /\ p \in Seq(OneByte)
      BY <1>9, <1>12
    <2> HIDE DEF p
    <2>2. (x \o p) \o wire = x \o (p \o wire)
      <3>1. Regrouped(x, p, wire)
        BY <1>7, <1>9, <2>1, Regroup
      <3> QED
        BY <3>1 DEF Regrouped
    <2>3. p \o wire \in Seq(OneByte)
      BY <1>9, <2>1
    <2> DEFINE q == p \o wire
    <2>4. x \o q = x \o TextOf(r) /\ q \in Seq(OneByte)
      BY <2>1, <2>2, <2>3
    <2> HIDE DEF q
    <2>5. q = TextOf(r)
      BY <1>7, <2>4, ConcatSimplifications
    <2> QED
      BY <1>1, <2>5 DEF p, q
  <1>14. r # <<>> => AtElement(r[1])'
    <2> SUFFICES ASSUME r # <<>> PROVE AtElement(r[1])'
      OBVIOUS
    <2>1. r[1] \in Seq(Seq(OneByte)) /\ 1 \in 1..Len(r)
      <3>1. 1 \in 1..Len(r)
        <4> HIDE DEF r
        <4> QED
          BY <1>7, EmptySeq
      <3> HIDE DEF r
      <3> QED
        BY <1>7, <3>1, ElementOfSeq
    <2>2. PICK c : TextCuts(c, r[1])
      BY <2>1, TextCutsExist
    <2>3. 1 \in 1..Len(r[1])
      <3>1. r[1] # <<>>
        BY <1>10, <2>1 DEF PlainLists, Plain
      <3> HIDE DEF r
      <3> QED
        BY <2>1, <3>1, EmptySeq
    <2>4. c[1 - 1] = 0
      BY <2>2 DEF TextCuts
    <2>5. \E k \in 1..Len(r[1]) : parseStart' = c[k-1]
      BY <1>1, <2>3, <2>4
    <2> HIDE DEF r
    <2> QED
      BY <2>2, <2>5 DEF AtElement
  <1> HIDE DEF r
  <1>15. Holds(r)'
    <2>1. parseStart' <= Len(buffer')
      <3> DEFINE z == Len(buffer')
      <3>1. z \in Nat
        BY <1>12, LenProperties
      <3>2. parseStart' = 0
        BY <1>1
      <3> HIDE DEF z
      <3>3. 0 <= z
        BY <3>1
      <3> QED
        BY <3>2, <3>3 DEF z
    <2> QED
      BY <1>1, <1>9, <1>12, <1>13, <1>14, <2>1 DEF Holds
  <1> QED
    BY <1>2, <1>10, <1>11, <1>15 DEF x, r

-----------------------------------------------------------------------------
(***************************************************************************)
(* Reads of the network.                                                   *)
(***************************************************************************)
(* While the buffer has room for one read, nothing is dropped. *)
LEMMA ReadsAll ==
    ASSUME buffer \in Seq(OneByte), wire \in Seq(OneByte),
           Len(buffer) <= 2 * MaxGuacMessage, ReadMore
    PROVE  /\ buffer' \in Seq(OneByte) /\ wire' \in Seq(OneByte)
           /\ buffer' \o wire' = buffer \o wire
           /\ wire # <<>> /\ Len(buffer) <= Len(buffer')
           /\ buffer # <<>> => buffer' # <<>>
           /\ parseStart' = parseStart
  <1>1. PICK n \in 1..MaxGuacMessage :
       /\ n <= Len(wire)
       /\ wire' = SubSeq(wire, n + 1, Len(wire))
       /\ LET runes == Runes(SubSeq(wire, 1, n))
              fits == Len(runes) <= Capacity - offset - Len(buffer)
              room == Capacity - (IF fits THEN offset ELSE 0) - Len(buffer)
          IN  buffer' = buffer \o SubSeq(runes, 1, IF fits THEN Len(runes)
                                                   ELSE Min({room, Len(runes)}))
    BY DEF ReadMore
  <1>2. MaxGuacMessage \in Nat /\ Len(wire) \in Nat /\ Len(buffer) \in Nat /\ n \in Nat /\ n >= 1
        /\ n <= MaxGuacMessage
    BY MessageAssumption, LenProperties
  <1> DEFINE first == SubSeq(wire, 1, n)
             rest == SubSeq(wire, n + 1, Len(wire))
  <1>3. first \in Seq(OneByte) /\ Len(first) = n /\ rest \in Seq(OneByte)
    BY <1>1, <1>2
  <1>4. first \o rest = wire
    <2>1. 1 \in 1..Len(wire)+1 /\ n \in 1-1..Len(wire) /\ Len(wire) \in n..Len(wire)
      BY <1>1, <1>2
    <2>2. SubSeq(wire, 1, n) \o SubSeq(wire, n + 1, Len(wire)) = SubSeq(wire, 1, Len(wire))
      BY <2>1, ConcatAdjacentSubSeq
    <2> QED
      BY <2>2, SubSeqFull
  <1> HIDE DEF first
  <1>5. Runes(first) = first
    BY <1>3, RunesOneByte
  <1>6. SubSeq(first, 1, n) = first
    BY <1>3, SubSeqFull
  <1> DEFINE fits == n <= Capacity - offset - Len(buffer)
             room == Capacity - (IF fits THEN offset ELSE 0) - Len(buffer)
             size == IF fits THEN n ELSE Min({room, n})
  <1>7. buffer' = buffer \o SubSeq(first, 1, size)
    BY <1>1, <1>3, <1>5 DEF first
  <1>8. size = n
    <2>1. CASE fits
      BY <2>1
    <2>2. CASE ~fits
      <3> DEFINE r == Capacity - 0 - Len(buffer)
                 l == Len(buffer)
      <3>1. l \in Nat /\ l <= 2 * MaxGuacMessage /\ r = 3 * MaxGuacMessage - 0 - l
        BY <1>2 DEF Capacity
      <3>2. size = Min({r, n})
        BY <2>2
      <3> HIDE DEF r, l
      <3>3. r \in Nat /\ n <= r
        BY <1>2, <3>1
      <3>4. {r, n} \subseteq Nat /\ {r, n} # {}
        BY <1>2, <3>3
      <3> DEFINE T == {r, n}
      <3>5. T \subseteq Nat /\ T # {} /\ n \in T /\ \A x \in T : n <= x /\ x \in Nat
        BY <1>2, <3>3, <3>4
      <3> HIDE DEF T, size
      <3>6. Min(T) \in T /\ Min(T) <= n
        BY <3>5, MinIs
      <3>7. Min(T) = n
        <4> DEFINE m == Min(T)
        <4>1. m \in Nat /\ m <= n /\ n <= m
          BY <3>5, <3>6
        <4> HIDE DEF m
        <4>2. m = n
          BY <1>2, <4>1
        <4> QED
          BY <4>2 DEF m
      <3> QED
        BY <3>2, <3>7 DEF T
    <2> QED
      BY <2>1, <2>2
  <1> HIDE DEF size, rest
  <1>9. buffer' = buffer \o first /\ wire' = rest
    BY <1>1, <1>6, <1>7, <1>8 DEF rest
  <1>10. (buffer \o first) \o rest = buffer \o (first \o rest)
    <2>1. Regrouped(buffer, first, rest)
      BY <1>3, Regroup
    <2> QED
      BY <2>1 DEF Regrouped
  <1>11. buffer \o first \in Seq(OneByte) /\ IsJoined(buffer \o first, buffer, first)
    BY <1>3, Joined
  <1>12. Len(buffer) <= Len(buffer')
    <2> DEFINE x == Len(buffer)
               y == Len(buffer')
    <2>1. x \in Nat /\ y = x + n
      BY <1>2, <1>3, <1>9, <1>11 DEF IsJoined
    <2> HIDE DEF x, y
    <2>2. x <= y
      BY <1>2, <2>1
    <2> QED
      BY <2>2 DEF x, y
  <1>13. buffer # <<>> => buffer' # <<>>
    BY <1>3, <1>9, ConcatEqualIffEmpty
  <1>14. wire # <<>>
    <2>1. Len(wire) >= 1
      BY <1>1, <1>2
    <2>2. Len(<<>>) = 0
      OBVIOUS
    <2> QED
      BY <2>1, <2>2
  <1>15. parseStart' = parseStart
    BY DEF ReadMore
  <1> QED
    BY <1>3, <1>4, <1>9, <1>10, <1>11, <1>12, <1>13, <1>14, <1>15

(* ReadSome reads only when the first instruction is not there in full. *)
LEMMA ReadsMore ==
    ASSUME NEW list \in PlainLists, Holds(list), ReadMore
    PROVE  Holds(list)' /\ (buffer # <<>> => buffer' # <<>>)
  <1>1. ~Arrived
    BY DEF ReadMore
  <1>0. list \in Seq(Seq(Seq(OneByte)))
    BY DEF PlainLists
  <1>2. /\ buffer \in Seq(OneByte) /\ wire \in Seq(OneByte) /\ buffer \o wire = TextOf(list)
        /\ parseStart <= Len(buffer)
        /\ list = <<>> => parseStart = 0
        /\ list # <<>> => AtElement(list[1])
    BY DEF Holds
  <1>3. Len(buffer) <= 2 * MaxGuacMessage
    <2>1. CASE list = <<>>
      <3>1. buffer = <<>>
        BY <2>1, NothingArrived
      <3>2. Len(<<>>) = 0 /\ 0 <= 2 * MaxGuacMessage
        BY MessageAssumption
      <3> QED
        BY <3>1, <3>2
    <2>2. CASE list # <<>>
      <3>1. PICK b, j : Seen(list[1], b, j)
        BY <1>0, <2>2, Sees
      <3>2. Found(buffer, parseStart + 1, b[j], list[1][j], EndOf(list[1], j))
            /\ b[j] \in Nat /\ b[j] <= Len(ProtocolText(list[1]))
        BY <3>1 DEF Seen
      <3>3. Len(buffer) < b[j]
        <4>1. CASE Dot > Len(buffer)
          BY <3>2, <4>1 DEF Found, Dot
        <4>2. CASE Dot <= Len(buffer)
          <5>1. buffer[Dot] = "." /\ Terminator = b[j] /\ ~(Terminator <= Len(buffer))
            BY <1>1, <3>2, <4>2 DEF Found, Arrived, Dot, Terminator
          <5>2. Len(buffer) \in Nat
            BY <1>2, LenProperties
          <5> QED
            BY <3>2, <5>1, <5>2
        <4>3. Dot \in Nat /\ Len(buffer) \in Nat
          BY <1>2, <3>2, LenProperties DEF Found, Dot
        <4> QED
          BY <4>1, <4>2, <4>3
      <3>4. Plain(list[1])
        <4>1. 1 \in 1..Len(list)
          BY <1>0, <2>2, EmptySeq
        <4> QED
          BY <4>1 DEF PlainLists
      <3>5. Len(ProtocolText(list[1])) <= 2 * MaxGuacMessage + 1
        BY <3>4 DEF Plain
      <3>6. Len(buffer) \in Nat /\ Len(ProtocolText(list[1])) \in Nat
        <4>1. ProtocolText(list[1]) \in Seq(OneByte)
          BY <1>0, <2>2, TextOfFirst
        <4> QED
          BY <1>2, <4>1, LenProperties
      <3> DEFINE x == Len(buffer)
                 y == Len(ProtocolText(list[1]))
                 z == b[j]
      <3>7. x \in Nat /\ y \in Nat /\ z \in Nat /\ x < z /\ z <= y /\ y <= 2 * MaxGuacMessage + 1
        BY <3>2, <3>3, <3>5, <3>6
      <3> HIDE DEF x, y, z
      <3>8. x <= 2 * MaxGuacMessage
        BY <3>7, MessageAssumption
      <3> QED
        BY <3>8 DEF x
    <2> QED
      BY <2>1, <2>2
  <1>4. /\ buffer' \in Seq(OneByte) /\ wire' \in Seq(OneByte)
        /\ buffer' \o wire' = buffer \o wire
        /\ Len(buffer) <= Len(buffer')
        /\ buffer # <<>> => buffer' # <<>>
        /\ parseStart' = parseStart
    BY <1>2, <1>3, ReadsAll
  <1>5. parseStart' <= Len(buffer')
    <2>1. parseStart \in Nat
      <3>1. CASE list = <<>>
        BY <1>2, <3>1
      <3>2. CASE list # <<>>
        <4>1. PICK b, j : Seen(list[1], b, j)
          BY <1>0, <3>2, Sees
        <4> QED
          BY <4>1 DEF Seen
      <3> QED
        BY <3>1, <3>2
    <2> DEFINE x == Len(buffer)
               y == Len(buffer')
    <2>2. x \in Nat /\ y \in Nat /\ parseStart <= x /\ x <= y
      BY <1>2, <1>4, LenProperties
    <2> HIDE DEF x, y
    <2>3. parseStart <= y
      BY <2>1, <2>2
    <2> QED
      BY <1>4, <2>3 DEF y
  <1>6. list # <<>> => AtElement(list[1])'
    BY <1>2, <1>4 DEF AtElement
  <1> QED
    BY <1>2, <1>4, <1>5, <1>6 DEF Holds

(* One character that begins no instruction. *)
HoldsNothingElse(c) ==
    /\ parseStart = 0
    /\ \/ buffer = <<>> /\ wire = <<c>>
       \/ buffer = <<c>> /\ wire = <<>>

(* Such a character is never taken for an element. *)
LEMMA OneCharacter ==
    ASSUME NEW c \in Letters, HoldsNothingElse(c), ReadSomeStep
    PROVE  ~TakeElement /\ ~TakeInstruction /\ (ReadMore => HoldsNothingElse(c)')
  <1>1. c \in OneByte /\ c \notin Digits /\ c # "."
    BY LettersAssumption DEF OneByte
  <1>2. ASSUME Arrived PROVE buffer[Dot] # "."
    <2>1. CASE buffer = <<>>
      <3>1. DotAt(<<>>, 0 + 1) = 1
        BY DEF DotAt
      <3> QED
        BY <1>2, <2>1, <3>1 DEF HoldsNothingElse, Arrived, Dot
    <2>2. CASE buffer = <<c>>
      <3> DEFINE after == {j \in 1..1 : <<c>>[j] \notin Digits}
      <3>1. after = {1}
        BY <1>1
      <3>2. {1} \subseteq Nat /\ {1} # {}
        OBVIOUS
      <3>3. Min({1}) = 1
        BY <3>2, MinIs
      <3>4. DotAt(<<c>>, 0 + 1) = 1
        <4>1. {j \in (0+1)..Len(<<c>>) : <<c>>[j] \notin Digits} = {1}
          BY <3>1
        <4> QED
          BY <3>3, <4>1 DEF DotAt
      <3> QED
        BY <1>1, <2>2, <3>4 DEF HoldsNothingElse, Dot
    <2> QED
      BY <2>1, <2>2 DEF HoldsNothingElse
  <1>3. ASSUME ReadMore PROVE HoldsNothingElse(c)'
    <2>1. buffer \in Seq(OneByte) /\ wire \in Seq(OneByte)
      <3> DEFINE s == <<c>>
      <3>1. <<>> \in Seq(OneByte) /\ s \in Seq(OneByte)
        BY <1>1
      <3>2. buffer \in {<<>>, s} /\ wire \in {<<>>, s}
        BY DEF HoldsNothingElse
      <3> HIDE DEF s
      <3> QED
        BY <3>1, <3>2
    <2>2. Len(buffer) <= 2 * MaxGuacMessage
      <3>1. Len(<<>>) = 0 /\ Len(<<c>>) = 1
        OBVIOUS
      <3> QED
        BY <3>1, MessageAssumption DEF HoldsNothingElse
    <2>3. /\ buffer' \in Seq(OneByte) /\ wire' \in Seq(OneByte)
          /\ buffer' \o wire' = buffer \o wire /\ wire # <<>> /\ parseStart' = parseStart
      BY <1>3, <2>1, <2>2, ReadsAll
    <2>4. buffer = <<>> /\ wire = <<c>>
      BY <2>3 DEF HoldsNothingElse
    <2>5. buffer' \o wire' = <<c>>
      <3>1. <<>> \o wire = wire
        BY <2>1, ConcatEmptySeq
      <3>2. buffer \o wire = <<>> \o wire
        BY <2>4
      <3> DEFINE p == buffer' \o wire'
                 o == buffer \o wire
      <3>3. p = o /\ o = wire
        BY <2>3, <3>1, <3>2
      <3> HIDE DEF p, o
      <3>4. p = <<c>>
        BY <2>4, <3>3
      <3> QED
        BY <3>4 DEF p
    <2> DEFINE p == buffer'
               q == wire'
    <2>6. p \in Seq(OneByte) /\ q \in Seq(OneByte) /\ p \o q = <<c>>
      BY <2>3, <2>5
    <2> HIDE DEF p, q
    <2>7. (p = <<>> /\ q = <<c>>) \/ (p = <<c>> /\ q = <<>>)
      <3>1. IsJoined(p \o q, p, q)
        BY <2>6, Joined
      <3>2. Len(p) + Len(q) = 1 /\ Len(p) \in Nat /\ Len(q) \in Nat
        BY <2>6, <3>1 DEF IsJoined
      <3>3. Len(p) = 0 \/ Len(q) = 0
        <4> DEFINE x == Len(p)
                   y == Len(q)
        <4>1. x \in Nat /\ y \in Nat /\ x + y = 1
          BY <3>2
        <4> HIDE DEF x, y
        <4>2. x = 0 \/ y = 0
          BY <4>1
        <4> QED
          BY <4>2 DEF x, y
      <3>4. p = <<>> \/ q = <<>>
        BY <2>6, <3>3, EmptySeq
      <3>5. p \o <<>> = p /\ <<>> \o q = q
        BY <2>6, ConcatEmptySeq
      <3> QED
        BY <2>6, <3>4, <3>5
    <2> QED
      BY <2>3, <2>7 DEF HoldsNothingElse, p, q
  <1> QED
    BY <1>2, <1>3 DEF TakeElement, TakeInstruction

-----------------------------------------------------------------------------
(***************************************************************************)
(* Types. They hold for every character, wide ones included.               *)
(***************************************************************************)
(* Bytes and runes are characters. *)
LEMMA Utf8Type ==
    ASSUME NEW t \in Seq(Characters)
    PROVE  Utf8(t) \in Seq(Characters)
  <1> DEFINE s == [i \in DOMAIN t |->
                CASE t[i] = "w" -> <<"w1", "w2">>
                  [] t[i] = "?" -> <<"?1", "?2", "?3">>
                  [] OTHER -> <<t[i]>>]
             n == Len(t)
             U == Seq(Characters)
  <1>1. n \in Nat /\ DOMAIN t = 1..n /\ \A i \in 1..n : t[i] \in Characters
    BY LenProperties, ElementOfSeq
  <1>2. <<"w1", "w2">> \in U /\ <<"?1", "?2", "?3">> \in U
    BY DEF Characters, WideBytes
  <1>3. \A c \in Characters : <<c>> \in U
    OBVIOUS
  <1> HIDE DEF n, U
  <1>4. \A i \in 1..n : s[i] \in U
    BY <1>1, <1>2, <1>3
  <1>5. s \in [1..n -> U]
    BY <1>1, <1>4
  <1> HIDE DEF s
  <1>6. s \in Seq(Seq(Characters))
    BY <1>1, <1>5, IsSequence DEF U
  <1>7. FlattenSeq(s) \in Seq(Characters)
    BY <1>6, FlattenType
  <1> QED
    BY <1>7 DEF Utf8, s

LEMMA RunesType ==
    ASSUME NEW t \in Seq(Characters)
    PROVE  Runes(t) \in Seq(Characters)
  <1> DEFINE First(i) == t[i] = "w1"
             Second(i) == t[i] = "w2"
             Whole(i) == First(i) /\ i < Len(t) /\ Second(i + 1)
             Follows(i) == Second(i) /\ i > 1 /\ First(i - 1)
             Rune(i) == IF Whole(i) THEN <<"w">>
                 ELSE IF Follows(i) THEN <<>>
                 ELSE IF First(i) \/ Second(i) THEN <<"?">>
                 ELSE <<t[i]>>
             s == [i \in DOMAIN t |-> Rune(i)]
             n == Len(t)
             U == Seq(Characters)
  <1>1. n \in Nat /\ DOMAIN t = 1..n /\ \A i \in 1..n : t[i] \in Characters
    BY LenProperties, ElementOfSeq
  <1>2. <<"w">> \in U /\ <<"?">> \in U /\ <<>> \in U
    BY DEF Characters, WideBytes
  <1>3. \A c \in Characters : <<c>> \in U
    OBVIOUS
  <1>r. Runes(t) = FlattenSeq(s)
    BY DEF Runes
  <1>4. \A i \in 1..n : Rune(i) \in U
    <2> HIDE DEF n, U, Whole, Follows, First, Second
    <2> QED
      BY <1>1, <1>2, <1>3
  <1>5. s \in [1..n -> U]
    <2> HIDE DEF n, U, Rune
    <2> QED
      BY <1>1, <1>4
  <1> HIDE DEF s
  <1>6. s \in Seq(Seq(Characters))
    <2> HIDE DEF n
    <2> QED
      BY <1>1, <1>5, IsSequence DEF U
  <1>7. FlattenSeq(s) \in Seq(Characters)
    BY <1>6, FlattenType
  <1> QED
    BY <1>7, <1>r

(* The two parts into which a sequence is cut. *)
LEMMA Cut ==
    ASSUME NEW S, NEW s \in Seq(S), NEW k \in 0..Len(s)
    PROVE  /\ SubSeq(s, 1, k) \in Seq(S) /\ Len(SubSeq(s, 1, k)) = k
           /\ SubSeq(s, k + 1, Len(s)) \in Seq(S)
           /\ Len(SubSeq(s, k + 1, Len(s))) = Len(s) - k
  <1> DEFINE n == Len(s)
             m == k + 1
  <1>1. n \in Nat /\ \A i \in 1..n : s[i] \in S
    BY LenProperties, ElementOfSeq
  <1>2. k \in 0..n /\ m = k + 1
    OBVIOUS
  <1>3. 1 \in Int /\ k \in Int /\ \A i \in 1..k : s[i] \in S
    BY <1>1
  <1>4. m \in Int /\ n \in Int /\ \A i \in m..n : s[i] \in S
    BY <1>1
  <1>5. SubSeq(s, 1, k) \in Seq(S) /\ Len(SubSeq(s, 1, k)) = IF 1 <= k THEN k - 1 + 1 ELSE 0
    BY <1>3, SubSeqProperties
  <1> HIDE DEF n, m
  <1>6. SubSeq(s, m, n) \in Seq(S) /\ Len(SubSeq(s, m, n)) = IF m <= n THEN n - m + 1 ELSE 0
    BY <1>4, SubSeqProperties
  <1>7. (IF 1 <= k THEN k - 1 + 1 ELSE 0) = k /\ (IF m <= n THEN n - m + 1 ELSE 0) = n - k
    BY <1>1, <1>2
  <1> QED
    BY <1>5, <1>6, <1>7 DEF n, m

(* An element that has arrived ends in the buffer. *)
LEMMA TerminatorType ==
    ASSUME StreamTypeOK
    PROVE  /\ Terminator \in Nat
           /\ Arrived /\ buffer[Dot] = "." => Terminator \in 0..Len(buffer)
  <1>1. buffer \in Seq(Characters) /\ parseStart \in 0..Len(buffer) /\ Len(buffer) \in Nat
    BY LenProperties DEF StreamTypeOK
  <1>2. parseStart + 1 \in Nat /\ parseStart + 1 >= 1 /\ parseStart + 1 <= Len(buffer) + 1
    BY <1>1
  <1>3. Terminator \in Nat
    BY <1>1, <1>2, TerminatorIs DEF Terminator
  <1>4. Arrived /\ buffer[Dot] = "." => Terminator <= Len(buffer)
    BY DEF Arrived
  <1> QED
    BY <1>1, <1>3, <1>4

(* A read never goes beyond the array, whether the buffer is moved back *)
(* or not.                                                              *)
LEMMA ReadMoreType ==
    ASSUME StreamTypeOK, ReadMore
    PROVE  StreamTypeOK'
  <1>1. PICK n \in 1..MaxGuacMessage :
       /\ n <= Len(wire)
       /\ wire' = SubSeq(wire, n + 1, Len(wire))
       /\ LET runes == Runes(SubSeq(wire, 1, n))
              fits == Len(runes) <= Capacity - offset - Len(buffer)
              room == Capacity - (IF fits THEN offset ELSE 0) - Len(buffer)
          IN  /\ offset' = IF fits THEN offset ELSE 0
              /\ buffer' = buffer \o SubSeq(runes, 1, IF fits THEN Len(runes)
                                                      ELSE Min({room, Len(runes)}))
    BY DEF ReadMore
  <1> DEFINE runes == Runes(SubSeq(wire, 1, n))
             l == Len(runes)
             b == Len(buffer)
             room == Capacity - b
             k == IF l <= Capacity - offset - b THEN l ELSE Min({room, l})
             more == SubSeq(runes, 1, k)
  <1>2. /\ buffer \in Seq(Characters) /\ wire \in Seq(Characters)
        /\ offset \in Nat /\ offset + b <= Capacity /\ b \in Nat
        /\ Capacity \in Nat /\ parseStart \in 0..b
    BY LenProperties, MessageAssumption DEF StreamTypeOK, Capacity
  <1>3. n \in 0..Len(wire) /\ n \in Nat
    BY <1>1, <1>2, LenProperties
  <1>4. SubSeq(wire, 1, n) \in Seq(Characters) /\ wire' \in Seq(Characters)
    BY <1>1, <1>2, <1>3, Cut
  <1>5. runes \in Seq(Characters) /\ l \in Nat
    BY <1>4, RunesType, LenProperties
  <1> HIDE DEF runes
  <1>6. k \in 0..l /\ (l <= Capacity - offset - b \/ k <= room)
    <2>1. room \in Nat
      BY <1>2
    <2> HIDE DEF l, b, room
    <2> DEFINE T == {room, l}
    <2>2. T \subseteq Nat /\ T # {} /\ room \in T /\ l \in T
      BY <1>5, <2>1
    <2>3. Min(T) \in T /\ \A x \in T : Min(T) <= x
      <3> HIDE DEF T
      <3> QED
        BY <2>2, MinIs
    <2>4. Min(T) \in Nat /\ Min(T) <= room /\ Min(T) <= l
      <3> HIDE DEF T
      <3> QED
        BY <2>2, <2>3
    <2> QED
      BY <1>5, <2>4
  <1>7. buffer' = buffer \o more
        /\ offset' = IF l <= Capacity - offset - b THEN offset ELSE 0
    <2>1. CASE l <= Capacity - offset - b
      BY <1>1, <2>1 DEF runes
    <2>2. CASE ~(l <= Capacity - offset - b)
      <3>1. Capacity - 0 - b = room
        BY <1>2
      <3> QED
        BY <1>1, <2>2, <3>1 DEF runes
    <2> QED
      BY <2>1, <2>2
  <1>8. (l <= Capacity - offset - b => k = l)
    OBVIOUS
  <1> HIDE DEF k
  <1>9. more \in Seq(Characters) /\ Len(more) = k
    BY <1>5, <1>6, Cut
  <1> HIDE DEF more
  <1>10. buffer' \in Seq(Characters) /\ Len(buffer') = b + k
    BY <1>2, <1>7, <1>9, Joined DEF IsJoined
  <1>11. offset' \in Nat /\ offset' + (b + k) <= Capacity /\ parseStart \in 0..(b + k)
    <2> HIDE DEF l, b
    <2> QED
      BY <1>2, <1>5, <1>6, <1>7, <1>8 DEF room
  <1>12. offset' \in Nat /\ offset' + Len(buffer') <= Capacity /\ parseStart \in 0..Len(buffer')
    BY <1>10, <1>11
  <1>13. UNCHANGED <<parseStart, call, got, failed, calm>>
    BY DEF ReadMore
  <1> QED
    BY <1>4, <1>10, <1>12, <1>13 DEF StreamTypeOK, Capacity

(* The steps of ReadSome keep the types of the stream. *)
LEMMA ReadSomeType ==
    ASSUME StreamTypeOK, ReadSomeStep
    PROVE  StreamTypeOK'
  <1>1. CASE TakeElement
    BY <1>1, TerminatorType DEF TakeElement, StreamTypeOK, Capacity
  <1>2. CASE TakeInstruction
    <2>1. Terminator \in 0..Len(buffer) /\ buffer \in Seq(Characters)
      BY <1>2, TerminatorType DEF TakeInstruction, StreamTypeOK
    <2>2. /\ got' \in Seq(Characters) /\ buffer' \in Seq(Characters)
          /\ Len(buffer') = Len(buffer) - Terminator
      BY <1>2, <2>1, Cut DEF TakeInstruction
    <2>3. offset \in Nat /\ offset + Len(buffer) <= Capacity /\ Len(buffer) \in Nat
      BY <2>1, LenProperties DEF StreamTypeOK
    <2>4. offset' = offset + Terminator
      BY <1>2 DEF TakeInstruction
    <2>5. offset' \in Nat /\ offset' + Len(buffer') <= Capacity /\ 0 \in 0..Len(buffer')
      <3> DEFINE b == Len(buffer)
                 c == Len(buffer')
      <3>1. b \in Nat /\ c = b - Terminator /\ Terminator \in 0..b /\ offset + b <= Capacity
        BY <2>1, <2>2, <2>3
      <3>2. Capacity \in Nat
        BY MessageAssumption DEF Capacity
      <3> HIDE DEF b, c
      <3>3. offset' \in Nat /\ offset' + c <= Capacity /\ 0 \in 0..c
        BY <2>3, <2>4, <3>1, <3>2
      <3> QED
        BY <3>3 DEF c
    <2>6. /\ parseStart' = 0 /\ call' = "returns"
          /\ UNCHANGED <<wire, failed, calm>>
      BY <1>2 DEF TakeInstruction
    <2> QED
      BY <2>2, <2>5, <2>6 DEF StreamTypeOK, Capacity
  <1>3. CASE Refuse
    <2>1. parseStart' \in 0..Len(buffer)
      BY <1>3, TerminatorType DEF Refuse, StreamTypeOK
    <2> QED
      BY <1>3, <2>1 DEF Refuse, StreamTypeOK, Capacity
  <1>4. CASE ReadMore
    BY <1>4, ReadMoreType
  <1>5. CASE ReadFails
    BY <1>5 DEF ReadFails, StreamTypeOK, Capacity
  <1> QED
    BY <1>1, <1>2, <1>3, <1>4, <1>5 DEF ReadSomeStep
=============================================================================
