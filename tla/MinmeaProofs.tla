---------------------------- MODULE MinmeaProofs ----------------------------
(***************************************************************************)
(* Proofs about Minmea, for every width of an int, every set of characters *)
(* and every length of a field: what minmea_scan reads and what            *)
(* gps_testTask makes of it.                                               *)
(***************************************************************************)
EXTENDS Minmea, SequenceTheorems, WellFoundedInduction, TLAPS

-----------------------------------------------------------------------------
(* Recursive functions.  The induction is stated with sets, because the    *)
(* provers cannot instantiate the library's theorems about operators.      *)

\* Induction over the characters of a field that minmea_scan passes: a set
\* that has 0 and with each k below n also k + 1 has every number up to n.
LEMMA Induction ==
    ASSUME NEW n \in Nat, NEW S, 0 \in S, \A k \in 0..(n - 1) : k \in S => k + 1 \in S
    PROVE  \A k \in 0..n : k \in S
<1> DEFINE R == {p \in Nat \X Nat : p[1] < p[2]}
           T == {k \in 0..n : k \notin S}
<1> SUFFICES ASSUME T # {} PROVE FALSE
    OBVIOUS
<1>1. IsWellFoundedOn(R, Nat)
      BY NatLessThanWellFounded, Zenon DEF OpToRel
<1>2. T \subseteq Nat
      OBVIOUS
<1>3. PICK i \in T : \A j \in T : ~(<<j, i>> \in R)
  <2> HIDE DEF R, T
  <2> QED BY <1>1, <1>2, WFMin, Zenon
<1>4. i \in 1..n /\ i \notin S /\ i - 1 \in 0..(n - 1)
      OBVIOUS
<1>5. i - 1 \notin S
      BY <1>4
<1>6. i - 1 \in T /\ <<i - 1, i>> \in R
      BY <1>4, <1>5
<1> QED BY <1>3, <1>6

\* A number computed digit by digit exists, whatever the digits do to it.
LEMMA Recursion ==
    ASSUME NEW n \in Nat, NEW base \in Nat, NEW G \in [1..n -> [Nat -> Nat]]
    PROVE  \E f \in [0..n -> Nat] : f[0] = base /\ \A k \in 1..n : f[k] = G[k][f[k - 1]]
<1> DEFINE Rec(f, m) == f[0] = base /\ \A k \in 1..m : f[k] = G[k][f[k - 1]]
           S == {m \in 0..n : \E f \in [0..m -> Nat] : Rec(f, m)}
<1>1. 0 \in S
  <2> DEFINE f == [k \in 0..0 |-> base]
  <2>1. f \in [0..0 -> Nat] /\ Rec(f, 0)
        OBVIOUS
  <2>2. \E e \in [0..0 -> Nat] : Rec(e, 0)
    <3> HIDE DEF Rec, f
    <3> QED BY <2>1
  <2> QED BY <2>2
<1>2. ASSUME NEW m \in 0..(n - 1), m \in S PROVE m + 1 \in S
  <2>1. PICK f \in [0..m -> Nat] : Rec(f, m)
        BY <1>2
  <2> DEFINE g == [k \in 0..(m + 1) |-> IF k = m + 1 THEN G[m + 1][f[m]] ELSE f[k]]
  <2>2. g \in [0..(m + 1) -> Nat]
    <3>1. m + 1 \in 1..n /\ f[m] \in Nat
          OBVIOUS
    <3>2. G[m + 1][f[m]] \in Nat
          BY <3>1
    <3>3. ASSUME NEW k \in 0..(m + 1)
          PROVE  (IF k = m + 1 THEN G[m + 1][f[m]] ELSE f[k]) \in Nat
      <4>1. CASE k = m + 1
            BY <3>2, <4>1
      <4>2. CASE k # m + 1
        <5>1. k \in 0..m
              BY <4>2
        <5> QED BY <4>2, <5>1
      <4> QED BY <4>1, <4>2
    <3> QED BY <3>3
  <2>3. Rec(g, m + 1)
    <3>1. g[0] = base
          BY <2>1
    <3>2. ASSUME NEW k \in 1..(m + 1) PROVE g[k] = G[k][g[k - 1]]
      <4>1. g[k - 1] = f[k - 1]
            OBVIOUS
      <4>2. CASE k = m + 1
        <5>1. g[k] = G[m + 1][f[m]] /\ k - 1 = m
              BY <4>2
        <5> HIDE DEF g
        <5> QED BY <4>1, <4>2, <5>1
      <4>3. CASE k # m + 1
        <5>1. k \in 1..m /\ g[k] = f[k]
              BY <4>3
        <5> HIDE DEF g
        <5> QED BY <2>1, <4>1, <5>1
      <4> QED BY <4>2, <4>3
    <3> QED BY <3>1, <3>2
  <2>4. \E e \in [0..(m + 1) -> Nat] : Rec(e, m + 1)
    <3> HIDE DEF Rec, g
    <3> QED BY <2>2, <2>3
  <2>5. m + 1 \in 0..n
        OBVIOUS
  <2> HIDE DEF Rec
  <2> QED BY <2>4, <2>5
<1>3. n \in S
  <2>1. \A k \in 0..n : k \in S
    <3> HIDE DEF S
    <3> QED BY <1>1, <1>2, Induction
  <2>2. n \in 0..n
        OBVIOUS
  <2> QED BY <2>1, <2>2, Zenon
<1> QED BY <1>3

-----------------------------------------------------------------------------
(* Powers of ten and the number of a text *)

\* The powers of ten.
LEMMA PowerLemma ==
    /\ Power \in [0..MaxLength -> Nat]
    /\ Power[0] = 1
    /\ \A k \in 1..MaxLength : Power[k] = 10 * Power[k - 1]
<1> DEFINE Rec(f) == f = [k \in 0..MaxLength |-> IF k = 0 THEN 1 ELSE 10 * f[k - 1]]
           G == [k \in 1..MaxLength |-> [v \in Nat |-> 10 * v]]
<1>0. MaxLength \in Nat
      BY MinmeaAssumption
<1>1. PICK f \in [0..MaxLength -> Nat] :
          f[0] = 1 /\ \A k \in 1..MaxLength : f[k] = G[k][f[k - 1]]
  <2>1. G \in [1..MaxLength -> [Nat -> Nat]]
        OBVIOUS
  <2>2. 1 \in Nat
        OBVIOUS
  <2> HIDE DEF G
  <2> QED BY <1>0, <2>1, <2>2, Recursion, Zenon
<1>2. Rec(f)
  <2> DEFINE h == [k \in 0..MaxLength |-> IF k = 0 THEN 1 ELSE 10 * f[k - 1]]
  <2>1. ASSUME NEW k \in 0..MaxLength PROVE f[k] = h[k]
    <3>1. CASE k = 0
          BY <1>1, <3>1
    <3>2. CASE k # 0
      <4>1. k \in 1..MaxLength /\ f[k - 1] \in Nat
            BY <1>0, <3>2
      <4> QED BY <1>1, <4>1
    <3> QED BY <3>1, <3>2
  <2> QED BY <2>1
<1>3. Rec(Power)
  <2>1. Power = CHOOSE g : Rec(g)
        BY Zenon DEF Power
  <2>2. \E g : Rec(g)
    <3> HIDE DEF Rec
    <3> QED BY <1>2
  <2> HIDE DEF Rec
  <2> QED BY <2>1, <2>2, Zenon
<1>4. Power[0] = 1 /\ \A k \in 1..MaxLength : Power[k] = 10 * Power[k - 1]
      BY <1>0, <1>3
<1>5. \A k \in 0..MaxLength : Power[k] \in Nat
  <2> DEFINE S == {k \in 0..MaxLength : Power[k] \in Nat}
  <2>1. 0 \in S
        BY <1>0, <1>4
  <2>2. ASSUME NEW k \in 0..(MaxLength - 1), k \in S PROVE k + 1 \in S
    <3>1. k + 1 \in 1..MaxLength /\ (k + 1) - 1 = k
          BY <1>0
    <3>2. Power[k + 1] = 10 * Power[k]
          BY <1>4, <3>1
    <3> QED BY <2>2, <3>1, <3>2
  <2>3. \A k \in 0..MaxLength : k \in S
    <3> HIDE DEF S
    <3> QED BY <1>0, <2>1, <2>2, Induction
  <2> QED BY <2>3
<1>6. Power \in [0..MaxLength -> Nat]
      BY <1>3, <1>5
<1> QED BY <1>4, <1>6

\* One character more of a text.
Digit(v, c) == IF isdigit(c) THEN 10 * v + (c - 48) ELSE v

\* The number of a text, computed from the left.
UpTo(f, s) ==
    f = [k \in 0..Len(s) |-> IF k = 0 THEN 0
                             ELSE IF isdigit(s[k]) THEN 10 * f[k - 1] + (s[k] - 48)
                             ELSE f[k - 1]]

\* Number is the last value of that computation.
LEMMA NumberLemma ==
    ASSUME NEW s \in Seq(Nat)
    PROVE  \E f \in [0..Len(s) -> Nat] :
              /\ f[0] = 0
              /\ \A k \in 1..Len(s) : f[k] = Digit(f[k - 1], s[k])
              /\ Number(s) = f[Len(s)]
<1> DEFINE n == Len(s)
           G == [k \in 1..n |-> [v \in Nat |-> Digit(v, s[k])]]
<1>0. n \in Nat /\ \A k \in 1..n : s[k] \in Nat
      OBVIOUS
<1>1. PICK f \in [0..n -> Nat] : f[0] = 0 /\ \A k \in 1..n : f[k] = G[k][f[k - 1]]
  <2>1. G \in [1..n -> [Nat -> Nat]]
    <3>1. ASSUME NEW k \in 1..n, NEW v \in Nat PROVE Digit(v, s[k]) \in Nat
          BY <1>0 DEF Digit, isdigit
    <3> QED BY <3>1
  <2> HIDE DEF G, n
  <2> QED BY <1>0, <2>1, Recursion
<1>2. \A k \in 1..n : f[k] = Digit(f[k - 1], s[k])
  <2> SUFFICES ASSUME NEW k \in 1..n PROVE f[k] = Digit(f[k - 1], s[k])
      OBVIOUS
  <2>1. f[k - 1] \in Nat
        BY <1>0
  <2> QED BY <1>1, <2>1
<1>3. UpTo(f, s)
  <2> DEFINE h == [k \in 0..Len(s) |-> IF k = 0 THEN 0
                                       ELSE IF isdigit(s[k]) THEN 10 * f[k - 1] + (s[k] - 48)
                                       ELSE f[k - 1]]
  <2>1. ASSUME NEW k \in 0..n PROVE f[k] = h[k]
    <3>1. CASE k = 0
          BY <1>1, <3>1
    <3>2. CASE k # 0
      <4>1. k \in 1..n
            BY <1>0, <3>2
      <4> QED BY <1>2, <3>2, <4>1 DEF Digit
    <3> QED BY <3>1, <3>2
  <2>2. f = h
        BY <2>1
  <2> QED BY <2>2 DEF UpTo
<1> DEFINE g == CHOOSE e : UpTo(e, s)
<1>4. UpTo(g, s)
      BY <1>3, Zenon
<1>5. Number(s) = g[n]
      BY Zenon DEF Number, UpTo
<1>6. \A k \in 0..n : f[k] = g[k]
  <2> DEFINE S == {k \in 0..n : f[k] = g[k]}
  <2> HIDE DEF g
  <2>1. 0 \in S
        BY <1>0, <1>1, <1>4 DEF UpTo
  <2>2. ASSUME NEW k \in 0..(n - 1), k \in S PROVE k + 1 \in S
    <3>1. k + 1 \in 1..n /\ (k + 1) - 1 = k /\ k + 1 \in 0..n /\ k + 1 # 0
          BY <1>0
    <3>2. f[k + 1] = Digit(f[k], s[k + 1])
          BY <1>2, <3>1
    <3>3. g[k + 1] = Digit(g[k], s[k + 1])
          BY <1>4, <3>1 DEF UpTo, Digit
    <3> QED BY <2>2, <3>1, <3>2, <3>3
  <2>3. \A k \in 0..n : k \in S
    <3> HIDE DEF S, n
    <3> QED BY <1>0, <2>1, <2>2, Induction
  <2> QED BY <2>3
<1>7. Number(s) = f[n]
      BY <1>0, <1>5, <1>6
<1> QED BY <1>1, <1>2, <1>7

\* The number of no digits, its type, and what one character more makes of it.
LEMMA NumberAppend ==
    /\ Number(<<>>) = 0
    /\ \A s \in Seq(Nat) : Number(s) \in Nat
    /\ \A s \in Seq(Nat), c \in Nat : Number(Append(s, c)) = Digit(Number(s), c)
<1>1. Number(<<>>) = 0
  <2>1. <<>> \in Seq(Nat) /\ Len(<<>>) = 0
        OBVIOUS
  <2> QED BY <2>1, NumberLemma
<1>2. ASSUME NEW s \in Seq(Nat) PROVE Number(s) \in Nat
  <2>1. Len(s) \in 0..Len(s)
        OBVIOUS
  <2> QED BY <2>1, NumberLemma
<1>3. ASSUME NEW s \in Seq(Nat), NEW c \in Nat
      PROVE  Number(Append(s, c)) = Digit(Number(s), c)
  <2> DEFINE t == Append(s, c)  n == Len(s)
  <2>1. /\ t \in Seq(Nat) /\ Len(t) = n + 1 /\ n \in Nat /\ t[n + 1] = c
        /\ \A k \in 1..n : t[k] = s[k]
        OBVIOUS
  <2>2. PICK f \in [0..n -> Nat] :
            /\ f[0] = 0 /\ Number(s) = f[n]
            /\ \A k \in 1..n : f[k] = Digit(f[k - 1], s[k])
        BY NumberLemma
  <2>3. PICK g \in [0..(n + 1) -> Nat] :
            /\ g[0] = 0 /\ Number(t) = g[n + 1]
            /\ \A k \in 1..(n + 1) : g[k] = Digit(g[k - 1], t[k])
    <3> HIDE DEF t
    <3>1. \E g \in [0..Len(t) -> Nat] :
             /\ g[0] = 0 /\ Number(t) = g[Len(t)]
             /\ \A k \in 1..Len(t) : g[k] = Digit(g[k - 1], t[k])
          BY <2>1, NumberLemma, Zenon
    <3>2. Len(t) = n + 1
          BY <2>1
    <3> QED BY <3>1, <3>2, Zenon
  <2> HIDE DEF t, n
  <2> DEFINE S == {k \in 0..n : f[k] = g[k]}
  <2>4. 0 \in S
        BY <2>1, <2>2, <2>3
  <2>5. ASSUME NEW k \in 0..(n - 1), k \in S PROVE k + 1 \in S
    <3>1. k + 1 \in 1..n /\ (k + 1) - 1 = k /\ k + 1 \in 1..(n + 1)
          BY <2>1
    <3>2. f[k + 1] = Digit(f[k], s[k + 1]) /\ g[k + 1] = Digit(g[k], t[k + 1])
          BY <2>2, <2>3, <3>1
    <3> QED BY <2>1, <2>5, <3>1, <3>2
  <2>6. n \in S
    <3>1. \A k \in 0..n : k \in S
      <4> HIDE DEF S
      <4> QED BY <2>1, <2>4, <2>5, Induction
    <3> QED BY <2>1, <3>1
  <2>7. g[n + 1] = Digit(g[n], c)
    <3>1. n + 1 \in 1..(n + 1) /\ (n + 1) - 1 = n
          BY <2>1
    <3> QED BY <2>1, <2>3, <3>1
  <2> QED BY <2>2, <2>3, <2>6, <2>7 DEF t
<1> QED BY <1>1, <1>2, <1>3

-----------------------------------------------------------------------------
(* The parts of the text *)

\* Appending a character to a field, seen in its parts.
LEMMA AppendLemma ==
    ASSUME NEW s \in Seq(Nat), NEW c \in Nat
    PROVE  /\ Append(s, c) \in Seq(Nat) /\ Len(Append(s, c)) = Len(s) + 1
           /\ Len(s) \in Nat /\ Append(s, c)[Len(s) + 1] = c
           /\ \A i \in 1..Len(s) : Append(s, c)[i] = s[i] /\ s[i] \in Nat
           /\ \A i \in 1..(Len(s) + 1) : Append(s, c)[i] \in Nat
OBVIOUS

\* The end of a longer text is the longer end.
LEMMA SubSeqAppend ==
    ASSUME NEW s \in Seq(Nat), NEW c \in Nat, NEW m \in 1..(Len(s) + 1)
    PROVE  /\ SubSeq(s, m, Len(s)) \in Seq(Nat)
           /\ SubSeq(Append(s, c), m, Len(s) + 1) = Append(SubSeq(s, m, Len(s)), c)
<1> DEFINE t == Append(s, c)  n == Len(s)
           a == SubSeq(s, m, n)  b == SubSeq(t, m, n + 1)
<1>1. /\ t \in Seq(Nat) /\ n \in Nat /\ t[n + 1] = c
      /\ \A i \in 1..n : t[i] = s[i] /\ s[i] \in Nat
      /\ \A i \in 1..(n + 1) : t[i] \in Nat
      BY AppendLemma
<1>2. m \in Int /\ n \in Int /\ n + 1 \in Int /\ 1 <= m /\ m <= n + 1
      BY <1>1
<1>3. /\ \A i \in m..n : s[i] \in Nat
      /\ \A i \in m..(n + 1) : t[i] \in Nat
      BY <1>1, <1>2
<1> HIDE DEF t, n
<1>4. /\ a \in Seq(Nat) /\ Len(a) = n - m + 1
      /\ \A i \in 1..(n - m + 1) : a[i] = s[m + i - 1]
  <2>1. /\ a \in Seq(Nat) /\ Len(a) = IF m <= n THEN n - m + 1 ELSE 0
        /\ \A i \in 1..(n - m + 1) : a[i] = s[m + i - 1]
        BY <1>2, <1>3, SubSeqProperties
  <2> HIDE DEF a
  <2> QED BY <1>2, <2>1
<1>5. /\ b \in Seq(Nat) /\ Len(b) = n - m + 2
      /\ \A i \in 1..(n - m + 2) : b[i] = t[m + i - 1]
  <2>1. /\ b \in Seq(Nat) /\ Len(b) = IF m <= n + 1 THEN (n + 1) - m + 1 ELSE 0
        /\ \A i \in 1..((n + 1) - m + 1) : b[i] = t[m + i - 1]
        BY <1>2, <1>3, SubSeqProperties
  <2>2. (n + 1) - m + 1 = n - m + 2
        BY <1>2
  <2> HIDE DEF b
  <2> QED BY <1>2, <2>1, <2>2
<1> HIDE DEF a, b
<1>6. /\ Append(a, c) \in Seq(Nat) /\ Len(Append(a, c)) = n - m + 2
      /\ Append(a, c)[n - m + 2] = c
      /\ \A i \in 1..(n - m + 1) : Append(a, c)[i] = a[i]
  <2>1. (n - m + 1) + 1 = n - m + 2
        BY <1>2
  <2> QED BY <1>2, <1>4, <2>1, AppendLemma
<1>7. ASSUME NEW i \in 1..(n - m + 2) PROVE b[i] = Append(a, c)[i]
  <2>1. CASE i = n - m + 2
    <3>1. m + i - 1 = n + 1
          BY <1>2, <2>1
    <3> QED BY <1>1, <1>5, <1>6, <2>1, <3>1
  <2>2. CASE i # n - m + 2
    <3>1. i \in 1..(n - m + 1) /\ m + i - 1 \in 1..n
          BY <1>2, <2>2
    <3> QED BY <1>1, <1>4, <1>5, <1>6, <3>1
  <2> QED BY <2>1, <2>2
<1>8. b = Append(a, c)
      BY <1>5, <1>6, <1>7, SeqEqual
<1> QED BY <1>4, <1>8 DEF a, b, t, n

\* The beginning of a longer text is the beginning of the text.
LEMMA SubSeqPrefix ==
    ASSUME NEW s \in Seq(Nat), NEW c \in Nat, NEW k \in 0..Len(s)
    PROVE  /\ SubSeq(Append(s, c), 1, k) = SubSeq(s, 1, k)
           /\ SubSeq(s, 1, k) \in Seq(Nat)
<1> DEFINE t == Append(s, c)
<1>1. k \in Int /\ 1 \in Int /\ \A i \in 1..k : t[i] = s[i] /\ s[i] \in Nat /\ t[i] \in Nat
      BY AppendLemma
<1>2. /\ SubSeq(s, 1, k) \in Seq(Nat) /\ Len(SubSeq(s, 1, k)) = IF 1 <= k THEN k - 1 + 1 ELSE 0
      /\ \A i \in 1..(k - 1 + 1) : SubSeq(s, 1, k)[i] = s[1 + i - 1]
  <2>1. \A i \in 1..k : s[i] \in Nat
        BY <1>1
  <2> QED BY <1>1, <2>1, SubSeqProperties
<1>3. /\ SubSeq(t, 1, k) \in Seq(Nat) /\ Len(SubSeq(t, 1, k)) = IF 1 <= k THEN k - 1 + 1 ELSE 0
      /\ \A i \in 1..(k - 1 + 1) : SubSeq(t, 1, k)[i] = t[1 + i - 1]
  <2>1. \A i \in 1..k : t[i] \in Nat
        BY <1>1
  <2> HIDE DEF t
  <2> QED BY <1>1, <2>1, SubSeqProperties
<1>4. ASSUME NEW i \in 1..Len(SubSeq(t, 1, k)) PROVE SubSeq(t, 1, k)[i] = SubSeq(s, 1, k)[i]
  <2> HIDE DEF t
  <2>1. i \in 1..k /\ i \in 1..(k - 1 + 1) /\ 1 + i - 1 = i
        BY <1>1, <1>3
  <2> QED BY <1>1, <1>2, <1>3, <2>1
<1>5. SubSeq(t, 1, k) = SubSeq(s, 1, k)
  <2> HIDE DEF t
  <2> QED BY <1>2, <1>3, <1>4, SeqEqual
<1> QED BY <1>2, <1>5

\* Appending to the second of two parts appends to the whole.
LEMMA ConcatAppend ==
    ASSUME NEW a \in Seq(Nat), NEW b \in Seq(Nat), NEW c \in Nat
    PROVE  /\ a \o Append(b, c) = Append(a \o b, c)
           /\ a \o b \in Seq(Nat) /\ Len(a \o b) = Len(a) + Len(b)
<1>1. Append(b, c) = b \o <<c>> /\ <<c>> \in Seq(Nat)
      OBVIOUS
<1>2. a \o b \in Seq(Nat) /\ Len(a \o b) = Len(a) + Len(b)
      BY ConcatProperties
<1>3. Append(a \o b, c) = (a \o b) \o <<c>>
      BY <1>2
<1> QED BY <1>1, <1>2, <1>3, ConcatAssociative

\* The least element of a set of positions.
LEMMA MinLemma ==
    ASSUME NEW S, S \subseteq Nat, S # {}
    PROVE  Min(S) \in S /\ \A j \in S : Min(S) <= j
<1> DEFINE R == {p \in Nat \X Nat : p[1] < p[2]}
<1>1. IsWellFoundedOn(R, Nat)
      BY NatLessThanWellFounded, Zenon DEF OpToRel
<1>2. PICK i \in S : \A j \in S : ~(<<j, i>> \in R)
      BY <1>1, WFMin, Zenon
<1>3. \A j \in S : i <= j
  <2> SUFFICES ASSUME NEW j \in S, ~(i <= j) PROVE FALSE
      OBVIOUS
  <2>1. <<j, i>> \in R
        BY SMT
  <2> QED BY <2>1, <1>2, Zenon
<1> QED BY <1>3, Zenon DEF Min

Signs == {Plus, Minus}
Blank(t) == \A i \in 1..Len(t) : t[i] = Space
Rest(t) == SelectInSeq(t, LAMBDA c : c # Space)
Field(t) == IF Rest(t) = 0 THEN <<>> ELSE SubSeq(t, Rest(t), Len(t))
BodyOf(t) == IF Field(t) # <<>> /\ Field(t)[1] \in Signs THEN Tail(Field(t)) ELSE Field(t)
PointOf(b) == SelectInSeq(b, LAMBDA c : c = Point)
IntOf(b) == IF PointOf(b) = 0 THEN b ELSE SubSeq(b, 1, PointOf(b) - 1)
FracOf(b) == IF PointOf(b) = 0 THEN <<>> ELSE SubSeq(b, PointOf(b) + 1, Len(b))

\* The text the properties speak of, as functions of a sequence.
LEMMA PartsOf ==
    /\ Body = BodyOf(text)
    /\ PointAt = PointOf(Body)
    /\ IntegerDigits = IntOf(Body)
    /\ FractionDigits = FracOf(Body)
    /\ IsBlank = Blank(text)
<1>1. Body = BodyOf(text)
      BY Zenon DEF Body, BodyOf, Field, Rest, Signs
<1>2. PointAt = PointOf(Body)
      BY Zenon DEF PointAt, PointOf
<1>3. IntegerDigits = IntOf(Body) /\ FractionDigits = FracOf(Body)
      BY <1>2, Zenon DEF IntegerDigits, FractionDigits, IntOf, FracOf
<1>4. IsBlank = Blank(text)
      BY Zenon DEF IsBlank, Blank
<1> QED BY <1>1, <1>2, <1>3, <1>4

\* Where the leading spaces of a field end.
LEMMA RestLemma ==
    ASSUME NEW t \in Seq(Nat)
    PROVE  /\ Blank(t) => Rest(t) = 0
           /\ ~Blank(t) => /\ Rest(t) \in 1..Len(t) /\ t[Rest(t)] # Space
                           /\ \A i \in 1..(Rest(t) - 1) : t[i] = Space
<1> DEFINE I == {i \in 1..Len(t) : t[i] # Space}
<1>1. Rest(t) = IF I # {} THEN Min(I) ELSE 0
      BY Zenon DEF Rest, SelectInSeq
<1>2. Len(t) \in Nat /\ I \subseteq Nat
      OBVIOUS
<1>3. CASE Blank(t)
      BY <1>1, <1>3 DEF Blank
<1>4. CASE ~Blank(t)
  <2>1. I # {}
        BY <1>4 DEF Blank
  <2>2. Rest(t) \in I /\ \A j \in I : Rest(t) <= j
    <3> HIDE DEF I
    <3> QED BY <1>1, <1>2, <2>1, MinLemma
  <2>3. ASSUME NEW i \in 1..(Rest(t) - 1) PROVE t[i] = Space
        BY <1>2, <2>2
  <2> QED BY <1>4, <2>2, <2>3
<1> QED BY <1>3, <1>4

\* Where the point of a number is.
LEMMA PointLemma ==
    ASSUME NEW b \in Seq(Nat)
    PROVE  \/ PointOf(b) = 0 /\ \A i \in 1..Len(b) : b[i] # Point
           \/ /\ PointOf(b) \in 1..Len(b) /\ b[PointOf(b)] = Point
              /\ \A i \in 1..(PointOf(b) - 1) : b[i] # Point
<1> DEFINE I == {i \in 1..Len(b) : b[i] = Point}
<1>1. PointOf(b) = IF I # {} THEN Min(I) ELSE 0
      BY Zenon DEF PointOf, SelectInSeq
<1>2. Len(b) \in Nat /\ I \subseteq Nat
      OBVIOUS
<1>3. CASE I = {}
      BY <1>1, <1>3
<1>4. CASE I # {}
  <2>2. PointOf(b) \in I /\ \A j \in I : PointOf(b) <= j
    <3> HIDE DEF I
    <3> QED BY <1>1, <1>2, <1>4, MinLemma
  <2>3. ASSUME NEW i \in 1..(PointOf(b) - 1) PROVE b[i] # Point
        BY <1>2, <2>2
  <2> QED BY <2>2, <2>3
<1> QED BY <1>3, <1>4

\* A character more is a character more of the body, but for the leading
\* spaces and a sign in front.
LEMMA BodyAppend ==
    ASSUME NEW t \in Seq(Nat), NEW c \in Nat
    PROVE  /\ BodyOf(t) \in Seq(Nat) /\ Len(BodyOf(t)) <= Len(t)
           /\ Blank(t) => BodyOf(t) = <<>>
           /\ Blank(Append(t, c)) <=> Blank(t) /\ c = Space
           /\ BodyOf(Append(t, c)) = IF Blank(t) /\ c \in {Space, Plus, Minus}
                                     THEN <<>> ELSE Append(BodyOf(t), c)
<1> DEFINE u == Append(t, c)  n == Len(t)
<1>1. /\ u \in Seq(Nat) /\ Len(u) = n + 1 /\ n \in Nat /\ u[n + 1] = c
      /\ \A i \in 1..n : u[i] = t[i] /\ t[i] \in Nat
      BY AppendLemma
<1> HIDE DEF u
<1>2. Blank(u) <=> Blank(t) /\ c = Space
  <2>1. ASSUME Blank(u) PROVE Blank(t) /\ c = Space
    <3>1. \A i \in 1..n : i \in 1..(n + 1)
          BY <1>1
    <3>2. n + 1 \in 1..(n + 1)
          BY <1>1
    <3> QED BY <1>1, <2>1, <3>1, <3>2 DEF Blank
  <2>2. ASSUME Blank(t), c = Space PROVE Blank(u)
    <3>1. \A i \in 1..(n + 1) : i = n + 1 \/ i \in 1..n
          BY <1>1
    <3> QED BY <1>1, <2>2, <3>1 DEF Blank
  <2> QED BY <2>1, <2>2
<1>3. ASSUME Blank(t) PROVE BodyOf(t) = <<>>
      BY <1>3, RestLemma DEF BodyOf, Field
<1>4. ASSUME ~Blank(t)
      PROVE  /\ Field(t) = SubSeq(t, Rest(t), n) /\ Field(t) \in Seq(Nat)
             /\ Len(Field(t)) \in 1..n /\ Field(t) # <<>>
  <2>1. Rest(t) \in 1..n
        BY <1>4, RestLemma
  <2>2. Rest(t) \in Int /\ n \in Int /\ \A i \in Rest(t)..n : t[i] \in Nat
        BY <1>1, <2>1
  <2>3. Field(t) = SubSeq(t, Rest(t), n)
        BY <2>1 DEF Field
  <2>4. Field(t) \in Seq(Nat) /\ Len(Field(t)) = IF Rest(t) <= n THEN n - Rest(t) + 1 ELSE 0
        BY <2>2, <2>3, SubSeqProperties
  <2>5. Len(Field(t)) \in 1..n
        BY <1>1, <2>1, <2>4
  <2>6. Field(t) # <<>>
        BY <2>5
  <2> QED BY <2>3, <2>4, <2>5, <2>6
<1>5. BodyOf(t) \in Seq(Nat) /\ Len(BodyOf(t)) <= n
  <2>1. CASE Blank(t)
        BY <1>1, <1>3, <2>1
  <2>2. CASE ~Blank(t)
    <3>1. /\ Tail(Field(t)) \in Seq(Nat) /\ Len(Tail(Field(t))) = Len(Field(t)) - 1
          BY <1>4, <2>2, HeadTailProperties
    <3> QED BY <1>1, <1>4, <2>2, <3>1 DEF BodyOf
  <2> QED BY <2>1, <2>2
<1>6. CASE Blank(t)
  <2>1. ASSUME c = Space PROVE BodyOf(u) = <<>>
    <3>1. Rest(u) = 0
          BY <1>1, <1>2, <1>6, <2>1, RestLemma
    <3> QED BY <3>1 DEF BodyOf, Field
  <2>2. ASSUME c # Space
        PROVE  BodyOf(u) = IF c \in Signs THEN <<>> ELSE Append(BodyOf(t), c)
    <3>1. Rest(u) = n + 1
      <4>1. Rest(u) \in 1..(n + 1) /\ u[Rest(u)] # Space
            BY <1>1, <1>2, <2>2, RestLemma
      <4>2. Rest(u) \notin 1..n
            BY <1>1, <1>6, <4>1 DEF Blank
      <4> QED BY <1>1, <4>1, <4>2
    <3>2. Field(u) = <<c>>
      <4>1. Field(u) = SubSeq(u, n + 1, n + 1)
            BY <1>1, <3>1 DEF Field
      <4>2. SubSeq(u, n + 1, n + 1) = Append(SubSeq(t, n + 1, n), c)
        <5>1. n + 1 \in 1..(n + 1)
              BY <1>1
        <5> QED BY <5>1, SubSeqAppend DEF u
      <4>3. SubSeq(t, n + 1, n) = <<>>
            BY <1>1, SubSeqEmpty
      <4>4. Append(<<>>, c) = <<c>>
            OBVIOUS
      <4> QED BY <4>1, <4>2, <4>3, <4>4, Zenon
    <3>3. c \in Signs => BodyOf(u) = <<>>
          BY <3>2 DEF BodyOf
    <3>4. c \notin Signs => BodyOf(u) = <<c>>
          BY <3>2 DEF BodyOf
    <3>5. Append(BodyOf(t), c) = <<c>>
          BY <1>3, <1>6
    <3> QED BY <3>3, <3>4, <3>5
  <2>3. BodyOf(u) = IF c \in {Space, Plus, Minus} THEN <<>> ELSE Append(BodyOf(t), c)
    <3>1. CASE c = Space
          BY <2>1, <3>1
    <3>2. CASE c # Space
          BY <2>2, <3>2, Zenon DEF Signs
    <3> QED BY <3>1, <3>2
  <2> QED BY <1>2, <1>3, <1>5, <1>6, <2>3 DEF u
<1>7. CASE ~Blank(t)
  <2>1. Rest(t) \in 1..n /\ t[Rest(t)] # Space /\ \A i \in 1..(Rest(t) - 1) : t[i] = Space
        BY <1>7, RestLemma
  <2>2. Rest(u) \in 1..(n + 1) /\ u[Rest(u)] # Space /\ \A i \in 1..(Rest(u) - 1) : u[i] = Space
        BY <1>1, <1>2, <1>7, RestLemma
  <2>3. Rest(u) = Rest(t)
    <3> DEFINE r == Rest(t)  q == Rest(u)
    <3>0. r \in 1..n /\ q \in 1..(n + 1) /\ n \in Nat
          BY <1>1, <2>1, <2>2
    <3> HIDE DEF r, q
    <3>1. ~(q < r)
      <4> SUFFICES ASSUME q < r PROVE FALSE
          OBVIOUS
      <4>1. q \in 1..(r - 1) /\ q \in 1..n
            BY <3>0
      <4> QED BY <1>1, <2>1, <2>2, <4>1 DEF r, q
    <3>2. ~(r < q)
      <4> SUFFICES ASSUME r < q PROVE FALSE
          OBVIOUS
      <4>1. r \in 1..(q - 1) /\ r \in 1..n
            BY <3>0
      <4> QED BY <1>1, <2>1, <2>2, <4>1 DEF r, q
    <3>3. q = r
          BY <3>0, <3>1, <3>2
    <3> QED BY <3>3 DEF r, q
  <2>4. Field(u) = Append(Field(t), c)
    <3>0. Rest(u) # 0 /\ Len(u) = n + 1
          BY <1>1, <2>2
    <3>1. Field(u) = SubSeq(u, Rest(t), n + 1)
          BY <2>3, <3>0, Zenon DEF Field
    <3>2. Rest(t) \in 1..(n + 1)
          BY <1>1, <2>1
    <3> QED BY <1>4, <1>7, <3>1, <3>2, SubSeqAppend DEF u
  <2> DEFINE f == Field(t)
  <2>5. /\ f \in Seq(Nat) /\ f # <<>> /\ Len(f) \in Nat /\ Len(f) >= 1
        BY <1>4, <1>7
  <2> HIDE DEF f
  <2>6. Append(f, c)[1] = f[1] /\ Append(f, c) # <<>>
        BY <2>5
  <2>7. Tail(Append(f, c)) = Append(Tail(f), c)
        BY <2>5
  <2>8. BodyOf(u) = Append(BodyOf(t), c)
        BY <2>4, <2>5, <2>6, <2>7 DEF BodyOf, f
  <2> QED BY <1>2, <1>5, <1>7, <2>8 DEF u
<1> QED BY <1>6, <1>7

\* The parts of a body before and behind the point.
LEMMA PartsLemma ==
    ASSUME NEW b \in Seq(Nat)
    PROVE  /\ IntOf(b) \in Seq(Nat) /\ FracOf(b) \in Seq(Nat)
           /\ Len(IntOf(b)) + Len(FracOf(b)) <= Len(b)
           /\ PointOf(b) = 0 => IntOf(b) = b /\ FracOf(b) = <<>>
           /\ PointOf(b) # 0 =>
                 /\ PointOf(b) = Len(IntOf(b)) + 1
                 /\ Len(FracOf(b)) = Len(b) - PointOf(b)
                 /\ \A i \in 1..Len(FracOf(b)) : FracOf(b)[i] = b[PointOf(b) + i]
<1> DEFINE p == PointOf(b)  n == Len(b)
<1>1. n \in Nat /\ \A i \in 1..n : b[i] \in Nat
      OBVIOUS
<1>2. CASE p = 0
  <2>1. IntOf(b) = b /\ FracOf(b) = <<>>
        BY <1>2 DEF IntOf, FracOf
  <2> QED BY <1>1, <1>2, <2>1
<1>3. CASE p # 0
  <2>1. p \in 1..n
        BY <1>3, PointLemma
  <2> DEFINE a == SubSeq(b, 1, p - 1)  f == SubSeq(b, p + 1, n)
  <2>2. IntOf(b) = a /\ FracOf(b) = f
        BY <1>3 DEF IntOf, FracOf
  <2> HIDE DEF p
  <2>3. a \in Seq(Nat) /\ Len(a) = p - 1
    <3>1. p - 1 \in Int /\ 1 \in Int /\ \A i \in 1..(p - 1) : b[i] \in Nat
          BY <1>1, <2>1
    <3>2. a \in Seq(Nat) /\ Len(a) = IF 1 <= p - 1 THEN (p - 1) - 1 + 1 ELSE 0
          BY <3>1, SubSeqProperties
    <3> HIDE DEF a
    <3> QED BY <1>1, <2>1, <3>2
  <2>4. f \in Seq(Nat) /\ Len(f) = n - p /\ \A i \in 1..(n - p) : f[i] = b[p + i]
    <3>1. p + 1 \in Int /\ n \in Int /\ \A i \in (p + 1)..n : b[i] \in Nat
          BY <1>1, <2>1
    <3>2. /\ f \in Seq(Nat) /\ Len(f) = IF p + 1 <= n THEN n - (p + 1) + 1 ELSE 0
          /\ \A i \in 1..(n - (p + 1) + 1) : f[i] = b[(p + 1) + i - 1]
          BY <3>1, SubSeqProperties
    <3> HIDE DEF f
    <3>3. Len(f) = n - p
          BY <1>1, <2>1, <3>2
    <3>4. ASSUME NEW i \in 1..(n - p) PROVE f[i] = b[p + i]
      <4>1. i \in 1..(n - (p + 1) + 1) /\ (p + 1) + i - 1 = p + i
            BY <1>1, <2>1
      <4> QED BY <3>2, <4>1
    <3> QED BY <3>2, <3>3, <3>4
  <2> HIDE DEF a, f
  <2>5. Len(a) + Len(f) <= n /\ p = Len(a) + 1
        BY <1>1, <2>1, <2>3, <2>4
  <2> QED BY <1>3, <2>2, <2>3, <2>4, <2>5 DEF p
<1> QED BY <1>2, <1>3

\* A character more is a digit more before the point, the point, or a
\* character more behind it.
LEMMA PartsAppend ==
    ASSUME NEW b \in Seq(Nat), NEW c \in Nat
    PROVE  LET u == Append(b, c) IN
           /\ PointOf(b) = 0 /\ c = Point =>
                 /\ PointOf(u) = Len(b) + 1 /\ IntOf(u) = IntOf(b)
                 /\ FracOf(u) = FracOf(b) /\ FracOf(b) = <<>>
           /\ PointOf(b) = 0 /\ c # Point =>
                 /\ PointOf(u) = 0 /\ IntOf(u) = Append(IntOf(b), c)
                 /\ FracOf(u) = FracOf(b) /\ FracOf(b) = <<>>
           /\ PointOf(b) # 0 =>
                 /\ PointOf(u) = PointOf(b) /\ IntOf(u) = IntOf(b)
                 /\ FracOf(u) = Append(FracOf(b), c)
<1> DEFINE u == Append(b, c)  n == Len(b)
<1>1. /\ u \in Seq(Nat) /\ Len(u) = n + 1 /\ n \in Nat /\ u[n + 1] = c
      /\ \A i \in 1..n : u[i] = b[i] /\ b[i] \in Nat
      BY AppendLemma
<1> HIDE DEF u
<1>2. ASSUME PointOf(b) = 0, c = Point
      PROVE  /\ PointOf(u) = n + 1 /\ IntOf(u) = IntOf(b)
             /\ FracOf(u) = FracOf(b) /\ FracOf(b) = <<>>
  <2>1. PointOf(u) = n + 1
    <3> DEFINE q == PointOf(u)
    <3>0. \A i \in 1..n : b[i] # Point
          BY <1>2, PointLemma
    <3>1. \A i \in 1..n : u[i] # Point
          BY <1>1, <3>0
    <3>2. n + 1 \in 1..(n + 1)
          BY <1>1
    <3>3. q \in 1..(n + 1) /\ u[q] = Point
          BY <1>1, <1>2, <3>2, PointLemma
    <3> HIDE DEF q
    <3>4. q \notin 1..n
          BY <3>1, <3>3
    <3>5. q = n + 1
          BY <1>1, <3>3, <3>4
    <3> QED BY <3>5 DEF q
  <2>2. IntOf(b) = b /\ FracOf(b) = <<>>
        BY <1>2 DEF IntOf, FracOf
  <2>3. IntOf(u) = SubSeq(u, 1, (n + 1) - 1) /\ FracOf(u) = SubSeq(u, (n + 1) + 1, n + 1)
        BY <1>1, <2>1 DEF IntOf, FracOf
  <2>4. SubSeq(u, (n + 1) + 1, n + 1) = <<>>
        BY <1>1, SubSeqEmpty
  <2>5. SubSeq(u, 1, n) = SubSeq(b, 1, n)
    <3>1. n \in 0..n
          BY <1>1
    <3> QED BY <3>1, SubSeqPrefix DEF u
  <2>6. SubSeq(b, 1, n) = b
        BY SubSeqFull
  <2>7. (n + 1) - 1 = n
        BY <1>1
  <2> QED BY <2>1, <2>2, <2>3, <2>4, <2>5, <2>6, <2>7
<1>3. ASSUME PointOf(b) = 0, c # Point
      PROVE  /\ PointOf(u) = 0 /\ IntOf(u) = Append(IntOf(b), c)
             /\ FracOf(u) = FracOf(b) /\ FracOf(b) = <<>>
  <2>1. PointOf(u) = 0
    <3> DEFINE q == PointOf(u)
    <3>0. \A i \in 1..n : b[i] # Point
          BY <1>3, PointLemma
    <3>1. \A i \in 1..n : u[i] # Point
          BY <1>1, <3>0
    <3>2. q = 0 \/ (q \in 1..(n + 1) /\ u[q] = Point)
          BY <1>1, PointLemma
    <3> HIDE DEF q
    <3>3. q = 0
          BY <1>1, <1>3, <3>1, <3>2
    <3> QED BY <3>3 DEF q
  <2> QED BY <1>3, <2>1 DEF IntOf, FracOf, u
<1>4. ASSUME PointOf(b) # 0
      PROVE  /\ PointOf(u) = PointOf(b) /\ IntOf(u) = IntOf(b)
             /\ FracOf(u) = Append(FracOf(b), c)
  <2> DEFINE p == PointOf(b)  q == PointOf(u)
  <2>1. p \in 1..n /\ b[p] = Point /\ \A i \in 1..(p - 1) : b[i] # Point
        BY <1>4, PointLemma
  <2>2. p \in 1..(n + 1) /\ u[p] = Point
        BY <1>1, <2>1
  <2>3. q \in 1..(n + 1) /\ u[q] = Point /\ \A i \in 1..(q - 1) : u[i] # Point
        BY <1>1, <2>2, PointLemma
  <2> HIDE DEF p, q
  <2>4. q = p
    <3>1. ~(q < p)
      <4> SUFFICES ASSUME q < p PROVE FALSE
          OBVIOUS
      <4>1. q \in 1..(p - 1) /\ q \in 1..n
            BY <1>1, <2>1, <2>3
      <4> QED BY <1>1, <2>1, <2>3, <4>1
    <3>2. ~(p < q)
      <4> SUFFICES ASSUME p < q PROVE FALSE
          OBVIOUS
      <4>1. p \in 1..(q - 1)
            BY <1>1, <2>1, <2>3
      <4> QED BY <2>2, <2>3, <4>1
    <3> QED BY <1>1, <2>1, <2>3, <3>1, <3>2
  <2>5. /\ IntOf(b) = SubSeq(b, 1, p - 1) /\ FracOf(b) = SubSeq(b, p + 1, n)
        BY <1>4 DEF IntOf, FracOf, p
  <2>6. /\ IntOf(u) = SubSeq(u, 1, p - 1) /\ FracOf(u) = SubSeq(u, p + 1, n + 1)
    <3>1. PointOf(u) = p /\ PointOf(u) # 0
          BY <2>1, <2>4 DEF q
    <3> QED BY <1>1, <3>1, Zenon DEF IntOf, FracOf
  <2>7. SubSeq(u, 1, p - 1) = SubSeq(b, 1, p - 1)
    <3>1. p - 1 \in 0..n
          BY <1>1, <2>1
    <3> QED BY <3>1, SubSeqPrefix DEF u
  <2>8. SubSeq(u, p + 1, n + 1) = Append(SubSeq(b, p + 1, n), c)
    <3>1. p + 1 \in 1..(n + 1)
          BY <1>1, <2>1
    <3> QED BY <3>1, SubSeqAppend DEF u
  <2> QED BY <2>4, <2>5, <2>6, <2>7, <2>8 DEF p, q
<1> QED BY <1>2, <1>3, <1>4 DEF u

-----------------------------------------------------------------------------
(* The invariant of the scan *)

\* No power of ten with as many decimals as a field can have is a multiple of
\* the range of an int, so that the scale of minmea_scan never comes to zero:
\* with 32 bits, fewer than 32 decimals.
ScaleNonzero == \A k \in 0..MaxLength : Power[k] % (2 * (MaxInt + 1)) # 0

\* Something other than a digit behind the point, and the one kind of it that
\* minmea_scan accepts.
Spoilt == \E i \in 1..Len(FractionDigits) : ~isdigit(FractionDigits[i])
SignBehindPoint == PointAt = 1 /\ Len(Body) > 1 /\ Body[2] \in {Plus, Minus}

\* The locals of minmea_scan hold the number with k decimals: all that were
\* read, or as many as there was room for.
Kept(k) ==
    /\ state = "scan" => k = Len(FractionDigits)
    /\ state = "cut" =>
          /\ k < Len(FractionDigits) /\ Shown(k + 1) > MaxInt
          /\ Number(IntegerDigits \o FractionDigits) > MaxInt
    /\ \/ Len(IntegerDigits) + Len(FractionDigits) = 0 /\ value = -1
       \/ Len(IntegerDigits) + k > 0 /\ value = Shown(k) /\ value <= MaxInt
    /\ PointAt # 0 => (Power[k] - scale) % (2 * (MaxInt + 1)) = 0
    /\ PointAt # 0 /\ ScaleFits => scale = Power[k]
    /\ Number(IntegerDigits) * Power[k] <= Shown(k)
    /\ Shown(k) < (Number(IntegerDigits) + 1) * Power[k]

\* The text is a number, or the beginning of one, up to where the scan stopped.
Clean ==
    /\ sign \in {-1, 0, 1} /\ scale \in Int
    /\ IsBlank <=> sign = 0 /\ value = -1 /\ scale = 0
    /\ \A i \in 1..Len(IntegerDigits) : isdigit(IntegerDigits[i])
    /\ state = "scan" => ~Spoilt
    /\ PointAt = 0 => scale = 0 /\ state = "scan"
    /\ ~Spoilt => (sign = -1 <=> Minus \in Range(text))
    /\ Number(IntegerDigits) <= MaxInt
    /\ \E k \in 0..Len(FractionDigits) : Kept(k)

TextOK == text \in Seq(Nat) /\ Len(text) <= MaxLength
Scanning == Clean \/ (Spoilt /\ (ScaleNonzero => SignBehindPoint))

FieldInv ==
    /\ TextOK
    /\ state \in {"scan", "cut", "error", "done"}
    /\ state \in {"scan", "cut"} => Scanning
    /\ ScaleNonzero => ReadsTheNumbers
    /\ FloatIsTruncation
    /\ DegreesOfText

-----------------------------------------------------------------------------
(* Arithmetic *)

\* What Wrap leaves alone: every product of minmea_scan that fits an int.
LEMMA WrapSmall ==
    ASSUME NEW x \in Int, -(MaxInt + 1) <= x, x <= MaxInt
    PROVE  Wrap(x) = x
<1> DEFINE n == 2 * (MaxInt + 1)  y == x + MaxInt + 1
<1>1. MaxInt \in Nat
      BY MinmeaAssumption
<1>2. n \in Nat \ {0} /\ y \in Int /\ 0 <= y /\ y < n
      BY <1>1
<1>3. y % n = y
  <2> HIDE DEF n, y
  <2> QED BY <1>2
<1> QED BY <1>1, <1>3 DEF Wrap

\* A multiple has no remainder, and what has none is a multiple.
LEMMA Multiple ==
    ASSUME NEW n \in Nat \ {0}
    PROVE  /\ \A q \in Int : (q * n) % n = 0
           /\ \A x \in Int : x % n = 0 => x = (x \div n) * n /\ x \div n \in Int
           /\ \A x \in Int : x = (x \div n) * n + (x % n) /\ x \div n \in Int
<1>1. ASSUME NEW q \in Int PROVE (q * n) % n = 0
      OBVIOUS
<1>2. ASSUME NEW x \in Int PROVE x = (x \div n) * n + (x % n) /\ x \div n \in Int
      OBVIOUS
<1>3. ASSUME NEW x \in Int, x % n = 0 PROVE x = (x \div n) * n /\ x \div n \in Int
      BY <1>2, <1>3
<1> QED BY <1>1, <1>2, <1>3

\* The wrapped scale of minmea_scan differs from the power of ten by a multiple
\* of the range of an int.
LEMMA WrapCongruent ==
    ASSUME NEW a \in Int, NEW b \in Int, (a - b) % (2 * (MaxInt + 1)) = 0
    PROVE  /\ Wrap(10 * b) \in Int
           /\ (10 * a - Wrap(10 * b)) % (2 * (MaxInt + 1)) = 0
<1> DEFINE n == 2 * (MaxInt + 1)
           h == MaxInt + 1
           x == 10 * b + MaxInt + 1
           q == (a - b) \div n
           r == x \div n
<1>1. MaxInt \in Nat /\ n \in Nat \ {0} /\ h \in Nat /\ x \in Int /\ a - b \in Int
      /\ x = 10 * b + h
      BY MinmeaAssumption
<1>2. Wrap(10 * b) = (x % n) - h
      BY Zenon DEF Wrap
<1>3. a - b = q * n /\ q \in Int
  <2> DEFINE y == a - b
  <2>1. y \in Int /\ y % n = 0
        OBVIOUS
  <2> HIDE DEF n, y
  <2>2. y = (y \div n) * n /\ y \div n \in Int
        BY <1>1, <2>1, Multiple
  <2> QED BY <2>2 DEF y
<1>4. x = r * n + (x % n) /\ r \in Int /\ x % n \in Int
  <2> HIDE DEF n, x
  <2>1. x % n \in Int
        BY <1>1
  <2> QED BY <1>1, <2>1, Multiple
<1> HIDE DEF n, h, x, q, r
<1> DEFINE m == x % n  g == r * n
<1>5. Wrap(10 * b) = 10 * b - g /\ Wrap(10 * b) \in Int /\ g \in Int
  <2>1. Wrap(10 * b) = m - h /\ x = g + m /\ m \in Int /\ x = 10 * b + h
        BY <1>1, <1>2, <1>4
  <2>2. g \in Int
        BY <1>1, <1>4
  <2> HIDE DEF m, g
  <2> QED BY <1>1, <2>1, <2>2
<1>6. 10 * a - Wrap(10 * b) = (10 * q + r) * n
  <2>1. 10 * a - Wrap(10 * b) = 10 * (a - b) + g
    <3> HIDE DEF g
    <3> QED BY <1>5
  <2>2. 10 * (q * n) + r * n = (10 * q + r) * n
        BY <1>1, <1>3, <1>4
  <2> QED BY <1>3, <2>1, <2>2
<1>7. ((10 * q + r) * n) % n = 0
  <2>1. 10 * q + r \in Int
        BY <1>3, <1>4
  <2> QED BY <1>1, <2>1, Multiple
<1> QED BY <1>5, <1>6, <1>7 DEF n

\* The test of minmea.c:174 tells whether the number with one digit more fits.
LEMMA OutOfBitsLemma ==
    ASSUME NEW v \in Nat, NEW d \in 0..9
    PROVE  OutOfBits(v, d) <=> 10 * v + d > MaxInt
<1>1. MaxInt \in Nat /\ MaxInt > 9
      BY MinmeaAssumption
<1> QED BY <1>1 DEF OutOfBits

\* One decimal more keeps the integer part.
LEMMA OneDecimalMore ==
    ASSUME NEW a \in Nat, NEW p \in Nat, NEW v \in Nat, NEW d \in 0..9,
           a * p <= v, v < (a + 1) * p
    PROVE  a * (10 * p) <= 10 * v + d /\ 10 * v + d < (a + 1) * (10 * p)
<1> DEFINE x == a * p  y == (a + 1) * p
<1>1. x \in Nat /\ y \in Nat
      OBVIOUS
<1>2. a * (10 * p) = 10 * x /\ (a + 1) * (10 * p) = 10 * y
      OBVIOUS
<1> HIDE DEF x, y
<1>3. x <= v /\ v < y
      BY DEF x, y
<1> QED BY <1>1, <1>2, <1>3

\* A number with a nonzero integer part is no smaller than its scale.
LEMMA ScaleBelow ==
    ASSUME NEW a \in Nat \ {0}, NEW p \in Nat, NEW v \in Nat, a * p <= v
    PROVE  p <= v
<1>1. a * p \in Nat /\ p <= a * p
      OBVIOUS
<1> QED BY <1>1

\* app.c:868-871 on a positive pair: the quotients are exact and no product is
\* too wide.
LEMMA DegreesPositive ==
    ASSUME NEW a \in Nat, NEW s \in Nat, NEW v \in Nat,
           a * s <= v, v < (a + 1) * s, v <= MaxInt
    PROVE  /\ Degrees(v, s) = 60 * s * (a \div 100) + (v - (a \div 100) * 100 * s)
           /\ v # 0 => Degrees(-v, s) = 60 * s * (-(a \div 100)) + (-v + (a \div 100) * 100 * s)
<1> DEFINE t == a \div 100
<1>0. MaxInt \in Nat
      BY MinmeaAssumption
<1>1. s # 0
  <2> SUFFICES ASSUME s = 0 PROVE FALSE
      OBVIOUS
  <2>1. (a + 1) * s = 0
        OBVIOUS
  <2> QED BY <2>1
<1>2. v \div s = a
  <2>1. (a + 1) * s = a * s + s
        OBVIOUS
  <2> QED BY <1>1, <2>1
<1>3. t \in Nat /\ t * 100 <= a
      OBVIOUS
<1> HIDE DEF t
<1>4. /\ t * s \in Nat /\ (t * s) * 100 = (t * 100) * s
      /\ (t * 100) * s <= a * s /\ a * s \in Nat /\ t * s <= (t * s) * 100
      BY <1>3
<1> DEFINE x == t * s  y == x * 100
<1>5. x \in Nat /\ y \in Nat /\ x <= y /\ y <= v
      BY <1>4
<1>6. t * 100 * s = y
      BY <1>3, <1>4
<1>7. Degrees(v, s) = 60 * s * t + (v - y)
  <2>1. Quot(Quot(v, s), 100) = t
        BY <1>2 DEF Quot, t
  <2>2. Degrees(v, s) = 60 * s * t + Wrap(v - Wrap(Wrap(t * s) * 100))
        BY <2>1, Zenon DEF Degrees
  <2> HIDE DEF x
  <2>3. Wrap(x) = x /\ Wrap(x * 100) = x * 100 /\ Wrap(v - x * 100) = v - x * 100
    <3>1. Wrap(x) = x
          BY <1>0, <1>5, WrapSmall
    <3>2. Wrap(x * 100) = x * 100
          BY <1>0, <1>5, WrapSmall
    <3>3. Wrap(v - x * 100) = v - x * 100
          BY <1>0, <1>5, WrapSmall
    <3> QED BY <3>1, <3>2, <3>3
  <2> QED BY <2>2, <2>3 DEF x
<1>8. ASSUME v # 0 PROVE Degrees(-v, s) = 60 * s * (-t) + (-v + y)
  <2>1. Quot(Quot(-v, s), 100) = -t
    <3>1. Quot(-v, s) = -a
          BY <1>2, <1>8 DEF Quot
    <3>2. CASE a = 0
          BY <3>1, <3>2 DEF Quot, t
    <3>3. CASE a # 0
          BY <3>1, <3>3 DEF Quot, t
    <3> QED BY <3>2, <3>3
  <2>2. Degrees(-v, s) = 60 * s * (-t) + Wrap(-v - Wrap(Wrap((-t) * s) * 100))
        BY <2>1, Zenon DEF Degrees
  <2>3. (-t) * s = -x
        BY <1>3
  <2> HIDE DEF x
  <2>4. Wrap(-x) = -x
        BY <1>0, <1>5, WrapSmall
  <2>5. (-x) * 100 = -y /\ Wrap(-y) = -y
        BY <1>0, <1>5, WrapSmall
  <2>6. Wrap(-v - (-y)) = -v + y
    <3>1. -v - (-y) = -v + y
          BY <1>5
    <3>2. Wrap(-v + y) = -v + y
          BY <1>0, <1>5, WrapSmall
    <3> QED BY <3>1, <3>2
  <2> QED BY <2>2, <2>3, <2>4, <2>5, <2>6
<1> QED BY <1>6, <1>7, <1>8 DEF t

-----------------------------------------------------------------------------
(* One character more *)

\* The parts of the text so far, as minmea_scan has split it.
LEMMA Parts ==
    ASSUME TextOK
    PROVE  /\ Body \in Seq(Nat) /\ Len(Body) <= MaxLength
           /\ IntegerDigits \in Seq(Nat) /\ FractionDigits \in Seq(Nat)
           /\ Len(IntegerDigits) + Len(FractionDigits) <= MaxLength
           /\ Len(IntegerDigits) \in Nat /\ Len(FractionDigits) \in Nat
           /\ PointAt \in Nat
           /\ PointAt = 0 => IntegerDigits = Body /\ FractionDigits = <<>>
           /\ PointAt # 0 =>
                 /\ PointAt = Len(IntegerDigits) + 1
                 /\ Len(FractionDigits) = Len(Body) - PointAt
                 /\ \A i \in 1..Len(FractionDigits) : FractionDigits[i] = Body[PointAt + i]
           /\ IsBlank => /\ Body = <<>> /\ PointAt = 0
                         /\ IntegerDigits = <<>> /\ FractionDigits = <<>>
<1>0. text \in Seq(Nat) /\ Len(text) \in Nat /\ Len(text) <= MaxLength /\ MaxLength \in Nat
      BY MinmeaAssumption DEF TextOK
<1>1. Body \in Seq(Nat) /\ Len(Body) <= Len(text) /\ (IsBlank => Body = <<>>)
  <2>1. Body = BodyOf(text) /\ IsBlank = Blank(text)
        BY PartsOf
  <2>2. 0 \in Nat
        OBVIOUS
  <2> QED BY <1>0, <2>1, <2>2, BodyAppend
<1>2. /\ PointAt = PointOf(Body) /\ IntegerDigits = IntOf(Body)
      /\ FractionDigits = FracOf(Body)
      BY PartsOf
<1>3. PointAt \in Nat /\ (Body = <<>> => PointAt = 0)
  <2>1. Len(Body) \in Nat
        BY <1>1
  <2>2. PointOf(Body) = 0 \/ PointOf(Body) \in 1..Len(Body)
        BY <1>1, PointLemma
  <2>3. Body = <<>> => Len(Body) = 0
        OBVIOUS
  <2> QED BY <1>2, <2>1, <2>2, <2>3
<1>4. /\ IntOf(Body) \in Seq(Nat) /\ FracOf(Body) \in Seq(Nat)
      /\ Len(IntOf(Body)) + Len(FracOf(Body)) <= Len(Body)
      /\ PointOf(Body) = 0 => IntOf(Body) = Body /\ FracOf(Body) = <<>>
      /\ PointOf(Body) # 0 =>
            /\ PointOf(Body) = Len(IntOf(Body)) + 1
            /\ Len(FracOf(Body)) = Len(Body) - PointOf(Body)
            /\ \A i \in 1..Len(FracOf(Body)) : FracOf(Body)[i] = Body[PointOf(Body) + i]
      BY <1>1, PartsLemma
<1>5. Len(Body) \in Nat /\ Len(IntOf(Body)) \in Nat /\ Len(FracOf(Body)) \in Nat
      BY <1>1, <1>4
<1>6. /\ PointAt = 0 => IntegerDigits = Body /\ FractionDigits = <<>>
      /\ PointAt # 0 =>
            /\ PointAt = Len(IntegerDigits) + 1
            /\ Len(FractionDigits) = Len(Body) - PointAt
            /\ \A i \in 1..Len(FractionDigits) : FractionDigits[i] = Body[PointAt + i]
      BY <1>2, <1>4, Zenon
<1>7. /\ Len(Body) <= MaxLength /\ Len(IntegerDigits) + Len(FractionDigits) <= MaxLength
      /\ Len(IntegerDigits) \in Nat /\ Len(FractionDigits) \in Nat
  <2> DEFINE x == Len(IntegerDigits)  y == Len(FractionDigits)  z == Len(Body)
  <2>1. x \in Nat /\ y \in Nat /\ z \in Nat /\ z <= Len(text)
        BY <1>1, <1>2, <1>5
  <2>2. x + y <= z
        BY <1>2, <1>4, Zenon
  <2> HIDE DEF x, y, z
  <2>3. z <= MaxLength /\ x + y <= MaxLength
        BY <1>0, <2>1, <2>2
  <2> QED BY <2>1, <2>3 DEF x, y, z
<1>8. IntegerDigits \in Seq(Nat) /\ FractionDigits \in Seq(Nat)
      BY <1>2, <1>4
<1>9. IsBlank => /\ Body = <<>> /\ PointAt = 0
                 /\ IntegerDigits = <<>> /\ FractionDigits = <<>>
      BY <1>1, <1>3, <1>6, Zenon
<1> QED BY <1>1, <1>3, <1>6, <1>7, <1>8, <1>9

\* The same after a step.
LEMMA PartsOfNext ==
    /\ Body' = BodyOf(text')
    /\ PointAt' = PointOf(Body')
    /\ IntegerDigits' = IntOf(Body')
    /\ FractionDigits' = FracOf(Body')
    /\ IsBlank' = Blank(text')
<1>1. (/\ Body = BodyOf(text)
       /\ PointAt = PointOf(Body)
       /\ IntegerDigits = IntOf(Body)
       /\ FractionDigits = FracOf(Body)
       /\ IsBlank = Blank(text))'
      BY PartsOf, PTL
<1> QED BY <1>1

\* A character before the number: a blank or the sign.
Leading(c) == IsBlank /\ c \in {Space, Plus, Minus}

\* What the next character that minmea_scan reads does to the parts: it belongs
\* to the blanks and the sign, ends the integer part, or makes a part longer.
LEMMA Grow ==
    ASSUME TextOK, NEW c \in Nat, Len(text) < MaxLength, text' = Append(text, c)
    PROVE  /\ TextOK'
           /\ IsBlank' <=> IsBlank /\ c = Space
           /\ (Minus \in Range(text))' <=> Minus \in Range(text) \/ c = Minus
           /\ Leading(c) => /\ Body' = <<>> /\ PointAt' = 0
                            /\ IntegerDigits' = <<>> /\ FractionDigits' = <<>>
           /\ ~Leading(c) =>
                 /\ Body' = Append(Body, c)
                 /\ PointAt = 0 /\ c = Point =>
                       /\ PointAt' = Len(IntegerDigits) + 1
                       /\ IntegerDigits' = IntegerDigits /\ FractionDigits' = <<>>
                 /\ PointAt = 0 /\ c # Point =>
                       /\ PointAt' = 0 /\ FractionDigits' = <<>>
                       /\ IntegerDigits' = Append(IntegerDigits, c)
                 /\ PointAt # 0 =>
                       /\ PointAt' = PointAt /\ IntegerDigits' = IntegerDigits
                       /\ FractionDigits' = Append(FractionDigits, c)
<1>0. text \in Seq(Nat) /\ Len(text) \in Nat /\ MaxLength \in Nat
      BY MinmeaAssumption DEF TextOK
<1>1. TextOK'
      BY <1>0, AppendLemma DEF TextOK
<1>2. /\ BodyOf(text) \in Seq(Nat) /\ (Blank(text') <=> Blank(text) /\ c = Space)
      /\ BodyOf(text') = IF Blank(text) /\ c \in {Space, Plus, Minus}
                         THEN <<>> ELSE Append(BodyOf(text), c)
      BY <1>0, BodyAppend
<1>3. /\ Body = BodyOf(text) /\ PointAt = PointOf(Body) /\ IntegerDigits = IntOf(Body)
      /\ FractionDigits = FracOf(Body) /\ IsBlank = Blank(text)
      BY PartsOf
<1>4. IsBlank' <=> IsBlank /\ c = Space
      BY <1>2, <1>3, PartsOfNext
<1>5. (Minus \in Range(text))' <=> Minus \in Range(text) \/ c = Minus
  <2>1. Range(text) = {text[i] : i \in 1..Len(text)} /\ Range(text') = {text'[i] : i \in 1..Len(text')}
    <3>1. DOMAIN text = 1..Len(text)
          BY <1>0
    <3>2. DOMAIN text' = 1..Len(text')
          BY <1>1 DEF TextOK
    <3> QED BY <3>1, <3>2 DEF Range
  <2>2. /\ Len(text') = Len(text) + 1 /\ text'[Len(text) + 1] = c
        /\ \A i \in 1..Len(text) : text'[i] = text[i]
        BY <1>0, AppendLemma
  <2> QED BY <1>0, <2>1, <2>2
<1>6. ASSUME Leading(c)
      PROVE  Body' = <<>> /\ PointAt' = 0 /\ IntegerDigits' = <<>> /\ FractionDigits' = <<>>
  <2>1. Body' = <<>>
        BY <1>2, <1>3, <1>6, PartsOfNext DEF Leading
  <2>2. PointOf(<<>>) = 0
    <3>1. <<>> \in Seq(Nat) /\ Len(<<>>) = 0
          OBVIOUS
    <3>2. PointOf(<<>>) = 0 \/ PointOf(<<>>) \in 1..Len(<<>>)
          BY <3>1, PointLemma
    <3> QED BY <3>1, <3>2
  <2>3. IntOf(<<>>) = <<>> /\ FracOf(<<>>) = <<>>
        BY <2>2 DEF IntOf, FracOf
  <2> QED BY <2>1, <2>2, <2>3, PartsOfNext
<1>7. ASSUME ~Leading(c)
      PROVE  /\ Body' = Append(Body, c)
             /\ PointAt = 0 /\ c = Point =>
                   /\ PointAt' = Len(IntegerDigits) + 1
                   /\ IntegerDigits' = IntegerDigits /\ FractionDigits' = <<>>
             /\ PointAt = 0 /\ c # Point =>
                   /\ PointAt' = 0 /\ FractionDigits' = <<>>
                   /\ IntegerDigits' = Append(IntegerDigits, c)
             /\ PointAt # 0 =>
                   /\ PointAt' = PointAt /\ IntegerDigits' = IntegerDigits
                   /\ FractionDigits' = Append(FractionDigits, c)
  <2>1. Body' = Append(Body, c) /\ Body \in Seq(Nat)
        BY <1>2, <1>3, <1>7, PartsOfNext DEF Leading
  <2>2. PointAt = 0 => IntOf(Body) = Body
        BY <1>3, <2>1, PartsLemma
  <2>3. /\ PointAt = 0 /\ c = Point =>
              /\ PointAt' = Len(Body) + 1 /\ IntegerDigits' = IntegerDigits
              /\ FractionDigits' = <<>>
        /\ PointAt = 0 /\ c # Point =>
              /\ PointAt' = 0 /\ IntegerDigits' = Append(IntegerDigits, c)
              /\ FractionDigits' = <<>>
        /\ PointAt # 0 =>
              /\ PointAt' = PointAt /\ IntegerDigits' = IntegerDigits
              /\ FractionDigits' = Append(FractionDigits, c)
    <3> DEFINE u == Append(Body, c)
    <3>1. /\ PointOf(Body) = 0 /\ c = Point =>
                /\ PointOf(u) = Len(Body) + 1 /\ IntOf(u) = IntOf(Body)
                /\ FracOf(u) = <<>>
          /\ PointOf(Body) = 0 /\ c # Point =>
                /\ PointOf(u) = 0 /\ IntOf(u) = Append(IntOf(Body), c)
                /\ FracOf(u) = <<>>
          /\ PointOf(Body) # 0 =>
                /\ PointOf(u) = PointOf(Body) /\ IntOf(u) = IntOf(Body)
                /\ FracOf(u) = Append(FracOf(Body), c)
      <4> HIDE DEF u
      <4>1. PointOf(Body) = 0 => FracOf(Body) = <<>>
            BY <2>1, PartsLemma
      <4> QED BY <2>1, <4>1, PartsAppend DEF u
    <3>2. PointAt' = PointOf(u) /\ IntegerDigits' = IntOf(u) /\ FractionDigits' = FracOf(u)
          BY <2>1, PartsOfNext
    <3> HIDE DEF u
    <3> QED BY <1>3, <3>1, <3>2
  <2> QED BY <1>3, <2>1, <2>2, <2>3
<1> QED BY <1>1, <1>4, <1>5, <1>6, <1>7

\* The number with k decimals, of an integer part and a fraction.
ShownOf(a, f, k) == Number(a \o SubSeq(f, 1, k))

\* The decimals one by one: what the digits of minmea_scan add up to.
LEMMA ShownLemma ==
    ASSUME NEW a \in Seq(Nat), NEW f \in Seq(Nat)
    PROVE  /\ \A k \in 0..Len(f) : ShownOf(a, f, k) \in Nat
           /\ ShownOf(a, f, 0) = Number(a)
           /\ ShownOf(a, f, Len(f)) = Number(a \o f)
           /\ Number(a) \in Nat /\ Number(a \o f) \in Nat
<1>1. ASSUME NEW k \in 0..Len(f) PROVE ShownOf(a, f, k) \in Nat
  <2>1. SubSeq(f, 1, k) \in Seq(Nat)
        BY SubSeqPrefix, 0 \in Nat
  <2>2. a \o SubSeq(f, 1, k) \in Seq(Nat)
        BY <2>1, ConcatAppend, 0 \in Nat
  <2> QED BY <2>2, NumberAppend DEF ShownOf
<1>2. SubSeq(f, 1, 0) = <<>> /\ a \o <<>> = a
      OBVIOUS
<1>3. SubSeq(f, 1, Len(f)) = f
      OBVIOUS
<1>4. a \o f \in Seq(Nat)
      OBVIOUS
<1> QED BY <1>1, <1>2, <1>3, <1>4, NumberAppend DEF ShownOf

\* One decimal more leaves the number with fewer decimals as it was.
LEMMA ShownAppend ==
    ASSUME NEW a \in Seq(Nat), NEW f \in Seq(Nat), NEW c \in Nat
    PROVE  /\ \A k \in 0..Len(f) : ShownOf(a, Append(f, c), k) = ShownOf(a, f, k)
           /\ ShownOf(a, Append(f, c), Len(f) + 1) = Digit(ShownOf(a, f, Len(f)), c)
           /\ Number(a \o Append(f, c)) = Digit(Number(a \o f), c)
<1>1. \A k \in 0..Len(f) : ShownOf(a, Append(f, c), k) = ShownOf(a, f, k)
      BY SubSeqPrefix DEF ShownOf
<1>2. Number(a \o Append(f, c)) = Digit(Number(a \o f), c)
  <2>1. a \o Append(f, c) = Append(a \o f, c) /\ a \o f \in Seq(Nat)
        BY ConcatAppend
  <2> QED BY <2>1, NumberAppend
<1>3. ShownOf(a, Append(f, c), Len(f) + 1) = Number(a \o Append(f, c))
  <2>1. Append(f, c) \in Seq(Nat) /\ Len(Append(f, c)) = Len(f) + 1
        BY AppendLemma
  <2> QED BY <2>1, ShownLemma
<1>4. ShownOf(a, f, Len(f)) = Number(a \o f)
      BY ShownLemma
<1> QED BY <1>1, <1>2, <1>3, <1>4

\* The properties' own names for these.
LEMMA ShownIs ==
    \A k : /\ Shown(k) = ShownOf(IntegerDigits, FractionDigits, k)
           /\ Shown(k)' = ShownOf(IntegerDigits', FractionDigits', k)
BY Zenon DEF Shown, ShownOf

-----------------------------------------------------------------------------
(* The steps of the scan preserve the invariant *)

\* minmea_scan goes on: nothing is promised yet beyond the state of the scan.
LEMMA StillScanning ==
    ASSUME TextOK', state' \in {"scan", "cut"}, Scanning'
    PROVE  FieldInv'
<1>1. state' # "error" /\ state' # "done"
      OBVIOUS
<1> QED BY <1>1 DEF FieldInv, ReadsTheNumbers, FloatIsTruncation, DegreesOfText

\* minmea_scan gives up on a field that is no number it can hold.
LEMMA Refused ==
    ASSUME TextOK', state' = "error", ScaleNonzero => ~IsBlank' /\ ~(IsDecimal' /\ Fits')
    PROVE  FieldInv'
<1>1. state' # "scan" /\ state' # "cut" /\ state' # "done"
      OBVIOUS
<1> QED BY <1>1 DEF FieldInv, ReadsTheNumbers, FloatIsTruncation, DegreesOfText

\* What is not a digit behind the point stays there.
LEMMA SpoiltStays ==
    ASSUME TextOK, NEW c \in Nat, Len(text) < MaxLength, text' = Append(text, c), Spoilt
    PROVE  /\ Spoilt' /\ ~IsBlank' /\ ~IsDecimal'
           /\ SignBehindPoint => SignBehindPoint'
<1>1. PointAt # 0 /\ ~IsBlank
  <2>1. FractionDigits # <<>>
        BY DEF Spoilt
  <2> QED BY <2>1, Parts
<1>2. /\ PointAt' = PointAt /\ FractionDigits' = Append(FractionDigits, c)
      /\ Body' = Append(Body, c) /\ ~IsBlank'
      BY <1>1, Grow DEF Leading
<1>3. FractionDigits \in Seq(Nat) /\ Body \in Seq(Nat)
      BY Parts
<1>4. Spoilt'
  <2>1. PICK i \in 1..Len(FractionDigits) : ~isdigit(FractionDigits[i])
        BY DEF Spoilt
  <2>2. i \in 1..Len(FractionDigits') /\ FractionDigits'[i] = FractionDigits[i]
        BY <1>2, <1>3, AppendLemma
  <2>3. ~isdigit(FractionDigits'[i])
        BY <2>1, <2>2
  <2> QED BY <2>2, <2>3 DEF Spoilt
<1>5. ~IsDecimal'
      BY <1>4 DEF Spoilt, IsDecimal
<1>6. ASSUME SignBehindPoint PROVE SignBehindPoint'
  <2>1. Len(Body) > 1 /\ Body[2] \in {Plus, Minus} /\ PointAt = 1
        BY <1>6 DEF SignBehindPoint
  <2>2. Len(Body') > 1 /\ Body'[2] = Body[2]
        BY <1>2, <1>3, <2>1, AppendLemma
  <2> QED BY <1>2, <2>1, <2>2 DEF SignBehindPoint
<1> QED BY <1>2, <1>4, <1>5, <1>6

\* Whatever minmea_scan does behind such a character.
LEMMA SpoiltStep ==
    ASSUME TextOK, NEW c \in Nat, ReadChar(c), Spoilt, ScaleNonzero => SignBehindPoint
    PROVE  FieldInv'
<1>1. Len(text) < MaxLength /\ text' = Append(text, c)
      BY DEF ReadChar
<1>2. TextOK'
      BY <1>1, Grow
<1>3. Spoilt' /\ ~IsBlank' /\ ~IsDecimal' /\ (ScaleNonzero => SignBehindPoint')
      BY <1>1, SpoiltStays
<1>4. CASE state' = "error"
      BY <1>2, <1>3, <1>4, Refused
<1>5. CASE state' \in {"scan", "cut"}
  <2>1. Scanning'
        BY <1>3 DEF Scanning
  <2> QED BY <1>2, <1>5, <2>1, StillScanning
<1>6. state' \in {"scan", "cut", "error"}
      BY DEF ReadChar, ScanChar, SkipChar, SignChar, DigitChar, PointChar, SpaceChar,
             OtherChar, Become
<1> QED BY <1>4, <1>5, <1>6

\* What the locals are while minmea_scan reads a number.
LEMMA CleanScan ==
    ASSUME TextOK, Clean, state = "scan"
    PROVE  /\ Kept(Len(FractionDigits))
           /\ Shown(Len(FractionDigits)) \in Nat
           /\ Shown(Len(FractionDigits)) <= MaxInt
           /\ Shown(Len(FractionDigits)) = Number(IntegerDigits \o FractionDigits)
           /\ FractionDigits = <<>> =>
                 Shown(Len(FractionDigits)) = Number(IntegerDigits)
           /\ (IF value = -1 THEN 0 ELSE value) = Shown(Len(FractionDigits))
           /\ Number(IntegerDigits) \in Nat
<1> DEFINE n == Len(FractionDigits)
<1>1. IntegerDigits \in Seq(Nat) /\ FractionDigits \in Seq(Nat) /\ n \in Nat
      BY Parts
<1>2. PICK k \in 0..n : Kept(k)
      BY DEF Clean
<1>3. k = n
      BY <1>2 DEF Kept
<1>4. Kept(n)
      BY <1>2, <1>3
<1>5. /\ Shown(n) \in Nat /\ Shown(n) = Number(IntegerDigits \o FractionDigits)
      /\ Shown(0) = Number(IntegerDigits) /\ Number(IntegerDigits) \in Nat
  <2>1. n \in 0..n
        BY <1>1
  <2> QED BY <1>1, <2>1, ShownLemma, ShownIs
<1>6. FractionDigits = <<>> => Shown(n) = Number(IntegerDigits)
  <2>1. FractionDigits = <<>> => n = 0
        OBVIOUS
  <2> QED BY <1>5, <2>1
<1>7. (IF value = -1 THEN 0 ELSE value) = Shown(n) /\ Shown(n) <= MaxInt
  <2>1. CASE value = -1
    <3>1. Len(IntegerDigits) + n = 0 /\ Len(IntegerDigits) \in Nat
          BY <1>1, <1>4, <1>5, <2>1 DEF Kept
    <3>2. IntegerDigits = <<>> /\ FractionDigits = <<>>
      <4>1. Len(IntegerDigits) = 0 /\ n = 0
            BY <1>1, <3>1
      <4> QED BY <1>1, <4>1
    <3>3. Shown(n) = 0
          BY <1>6, <3>2, NumberAppend
    <3> QED BY <2>1, <3>3, MinmeaAssumption
  <2>2. CASE value # -1
        BY <1>4, <2>2 DEF Kept
  <2> QED BY <2>1, <2>2
<1> QED BY <1>4, <1>5, <1>6, <1>7

\* No digits, no number.
LEMMA NothingShown ==
    ShownOf(<<>>, <<>>, 0) = 0 /\ Number(<<>>) = 0
<1> DEFINE e == <<>>
<1>1. e \in Seq(Nat)
      OBVIOUS
<1>2. Number(e) = 0
      BY NumberAppend
<1> HIDE DEF e
<1>3. ShownOf(e, e, 0) = Number(e)
      BY <1>1, ShownLemma
<1> QED BY <1>2, <1>3 DEF e

\* minmea.c: a sign, and the one place behind the point where it is taken.
LEMMA SignStep ==
    ASSUME TextOK, NEW c \in Nat, Len(text) < MaxLength, text' = Append(text, c),
           Clean, state = "scan", SignChar(c)
    PROVE  FieldInv'
<1>1. /\ c \in {Plus, Minus} /\ sign = 0 /\ value = -1 /\ state' = "scan"
      /\ sign' = (IF c = Plus THEN 1 ELSE -1) /\ value' = -1 /\ scale' = scale
      BY DEF SignChar, Become
<1>2. TextOK'
      BY Grow
<1>3. IntegerDigits = <<>> /\ FractionDigits = <<>>
  <2>1. /\ IntegerDigits \in Seq(Nat) /\ FractionDigits \in Seq(Nat)
        /\ Len(IntegerDigits) \in Nat /\ Len(FractionDigits) \in Nat
        BY Parts
  <2>2. Len(IntegerDigits) + Len(FractionDigits) = 0
        BY <1>1, CleanScan DEF Kept
  <2>3. Len(IntegerDigits) = 0 /\ Len(FractionDigits) = 0
        BY <2>1, <2>2
  <2> QED BY <2>1, <2>3
<1>4. CASE IsBlank
  <2>1. /\ IntegerDigits' = <<>> /\ FractionDigits' = <<>> /\ PointAt' = 0 /\ ~IsBlank'
        BY <1>1, <1>4, Grow DEF Leading, Space, Plus, Minus
  <2>2. Len(IntegerDigits') = 0 /\ Len(FractionDigits') = 0
        BY <2>1
  <2>3. scale' = 0
        BY <1>1, <1>4 DEF Clean
  <2>4. ~Spoilt'
        BY <2>2 DEF Spoilt
  <2>5. sign' = -1 <=> (Minus \in Range(text))'
    <3>1. ~Spoilt
          BY DEF Clean
    <3>2. Minus \notin Range(text)
          BY <1>1, <3>1 DEF Clean
    <3>3. (Minus \in Range(text))' <=> c = Minus
          BY <3>2, Grow
    <3> QED BY <1>1, <3>3 DEF Plus, Minus
  <2>6. Number(IntegerDigits') = 0 /\ Shown(0)' = 0
        BY <2>1, NothingShown, ShownIs
  <2>7. Kept(0)'
    <3>1. Power[0] = 1
          BY PowerLemma
    <3> QED BY <1>1, <2>1, <2>2, <2>6, <3>1 DEF Kept
  <2>8. Clean'
    <3>1. 0 \in 0..Len(FractionDigits') /\ Number(IntegerDigits') <= MaxInt
          BY <2>2, <2>6, MinmeaAssumption
    <3>2. sign' \in {-1, 0, 1} /\ sign' # 0
          BY <1>1
    <3> QED BY <1>1, <2>1, <2>2, <2>3, <2>4, <2>5, <2>7, <3>1, <3>2 DEF Clean
  <2> QED BY <1>1, <1>2, <2>8, StillScanning DEF Scanning
<1>5. CASE ~IsBlank
  <2>1. PointAt # 0
        BY <1>1, <1>5 DEF Clean
  <2>2. Body \in Seq(Nat) /\ PointAt = 1 /\ Len(Body) = 1
        BY <1>3, <2>1, Parts
  <2>3. /\ PointAt' = 1 /\ Body' = Append(Body, c)
        /\ FractionDigits' = Append(<<>>, c)
        BY <1>3, <1>5, <2>1, <2>2, Grow DEF Leading
  <2>4. SignBehindPoint'
    <3>1. Len(Body') = 2 /\ Body'[2] = c
          BY <2>2, <2>3, AppendLemma
    <3> QED BY <1>1, <2>3, <3>1 DEF SignBehindPoint
  <2>5. Spoilt'
    <3>1. Len(FractionDigits') = 1 /\ FractionDigits'[1] = c
          BY <2>3
    <3>2. ~isdigit(c)
          BY <1>1 DEF isdigit, Plus, Minus
    <3> QED BY <3>1, <3>2 DEF Spoilt
  <2> QED BY <1>1, <1>2, <2>4, <2>5, StillScanning DEF Scanning
<1> QED BY <1>4, <1>5

\* minmea.c: the point, and a second one once the scale has come to zero.
LEMMA PointStep ==
    ASSUME TextOK, NEW c \in Nat, Len(text) < MaxLength, text' = Append(text, c),
           Clean, state = "scan", PointChar(c)
    PROVE  FieldInv'
<1>1. /\ c = Point /\ scale = 0 /\ scale' = 1 /\ state' = "scan"
      /\ sign' = sign /\ value' = value
      BY DEF PointChar, Become
<1>2. TextOK' /\ ~IsBlank' /\ ~Leading(c)
      BY <1>1, Grow DEF Leading, Space, Plus, Minus, Point
<1>3. IntegerDigits \in Seq(Nat) /\ FractionDigits \in Seq(Nat)
      BY Parts
<1>4. CASE PointAt = 0
  <2>1. /\ PointAt' = Len(IntegerDigits) + 1 /\ PointAt' # 0
        /\ IntegerDigits' = IntegerDigits /\ FractionDigits' = FractionDigits
        /\ FractionDigits = <<>>
        BY <1>1, <1>2, <1>4, Grow, Parts
  <2>2. Len(FractionDigits) = 0
        BY <2>1
  <2>3. Kept(0)
        BY <2>2, CleanScan
  <2>4. Shown(0)' = Shown(0)
        BY <2>1, ShownIs
  <2>5. Power[0] = 1 /\ (Power[0] - 1) % (2 * (MaxInt + 1)) = 0
        BY PowerLemma, MinmeaAssumption
  <2>6. Kept(0)'
        BY <1>1, <2>1, <2>2, <2>3, <2>4, <2>5 DEF Kept
  <2>7. ~Spoilt' /\ ~Spoilt
        BY <2>1, <2>2 DEF Spoilt
  <2>8. (Minus \in Range(text))' <=> Minus \in Range(text)
        BY <1>1, Grow DEF Minus, Point
  <2>9. sign' \in {-1, 0, 1} /\ scale' # 0
        BY <1>1 DEF Clean
  <2>10. /\ \A i \in 1..Len(IntegerDigits') : isdigit(IntegerDigits'[i])
         /\ Number(IntegerDigits') <= MaxInt
         /\ sign' = -1 <=> (Minus \in Range(text))'
         BY <1>1, <2>1, <2>7, <2>8 DEF Clean
  <2>11. 0 \in 0..Len(FractionDigits')
         BY <2>1, <2>2
  <2>12. Clean'
         BY <1>1, <1>2, <2>1, <2>6, <2>7, <2>9, <2>10, <2>11 DEF Clean
  <2> QED BY <1>1, <1>2, <2>12, StillScanning DEF Scanning
<1>5. CASE PointAt # 0
  <2>1. FractionDigits' = Append(FractionDigits, c)
        BY <1>2, <1>5, Grow
  <2>2. Spoilt'
    <3>1. Len(FractionDigits') = Len(FractionDigits) + 1 /\ Len(FractionDigits) \in Nat
          /\ FractionDigits'[Len(FractionDigits) + 1] = c
          BY <1>3, <2>1, AppendLemma
    <3>2. ~isdigit(c)
          BY <1>1 DEF isdigit, Point
    <3>3. Len(FractionDigits) + 1 \in 1..Len(FractionDigits')
          BY <3>1
    <3> QED BY <3>1, <3>2, <3>3 DEF Spoilt
  <2>3. ~ScaleNonzero
    <3>1. (Power[Len(FractionDigits)] - 0) % (2 * (MaxInt + 1)) = 0
          BY <1>1, <1>5, CleanScan DEF Kept
    <3>2. Len(FractionDigits) \in 0..MaxLength
          BY Parts, MinmeaAssumption
    <3>3. Power[Len(FractionDigits)] \in Nat
          BY <3>2, PowerLemma
    <3>4. Power[Len(FractionDigits)] - 0 = Power[Len(FractionDigits)]
          BY <3>3
    <3> QED BY <3>1, <3>2, <3>4 DEF ScaleNonzero
  <2> QED BY <1>1, <1>2, <2>2, <2>3, StillScanning DEF Scanning
<1> QED BY <1>4, <1>5

\* minmea.c: a leading space.
LEMMA SpaceStep ==
    ASSUME TextOK, NEW c \in Nat, Len(text) < MaxLength, text' = Append(text, c),
           Clean, state = "scan", SpaceChar(c)
    PROVE  FieldInv'
<1>1. /\ c = Space /\ sign = 0 /\ value = -1 /\ scale = 0
      /\ sign' = 0 /\ value' = -1 /\ scale' = 0 /\ state' = "scan"
      BY DEF SpaceChar
<1>2. IsBlank
      BY <1>1 DEF Clean
<1>3. /\ TextOK' /\ IsBlank' /\ PointAt' = 0
      /\ IntegerDigits' = <<>> /\ FractionDigits' = <<>>
      BY <1>1, <1>2, Grow DEF Leading
<1>4. Len(IntegerDigits') = 0 /\ Len(FractionDigits') = 0
      BY <1>3
<1>5. (Minus \in Range(text))' <=> Minus \in Range(text)
      BY <1>1, Grow DEF Minus, Space
<1>6. Number(IntegerDigits') = 0 /\ Shown(0)' = 0
      BY <1>3, NothingShown, ShownIs
<1>7. Kept(0)'
  <2>1. Power[0] = 1
        BY PowerLemma
  <2> QED BY <1>1, <1>3, <1>4, <1>6, <2>1 DEF Kept
<1>8. ~Spoilt' /\ Minus \notin Range(text)
      BY <1>1, <1>4 DEF Spoilt, Clean
<1>9. 0 \in 0..Len(FractionDigits') /\ Number(IntegerDigits') <= MaxInt
      BY <1>4, <1>6, MinmeaAssumption
<1>10. Clean'
       BY <1>1, <1>3, <1>4, <1>5, <1>7, <1>8, <1>9 DEF Clean
<1> QED BY <1>1, <1>3, <1>10, StillScanning DEF Scanning

\* minmea.c: any other character.
LEMMA OtherStep ==
    ASSUME TextOK, NEW c \in Nat, Len(text) < MaxLength, text' = Append(text, c),
           Clean, state = "scan", OtherChar(c)
    PROVE  FieldInv'
<1>1. ~Taken(c) /\ state' = "error"
      BY DEF OtherChar, Become
<1>2. ~Leading(c) /\ ~isdigit(c)
      BY <1>1 DEF Leading, Clean, Taken
<1>3. TextOK' /\ ~IsBlank'
      BY <1>2, Grow DEF Leading
<1>4. IntegerDigits \in Seq(Nat) /\ FractionDigits \in Seq(Nat)
      BY Parts
<1>5. CASE PointAt = 0
  <2>1. c # Point
        BY <1>1, <1>5 DEF Clean, Taken
  <2>2. IntegerDigits' = Append(IntegerDigits, c)
        BY <1>2, <1>5, <2>1, Grow
  <2>3. /\ Len(IntegerDigits) + 1 \in 1..Len(IntegerDigits')
        /\ IntegerDigits'[Len(IntegerDigits) + 1] = c
        BY <1>4, <2>2, AppendLemma
  <2>4. ~IsDecimal'
        BY <1>2, <2>3 DEF IsDecimal
  <2> QED BY <1>1, <1>3, <2>4, Refused
<1>6. CASE PointAt # 0
  <2>1. FractionDigits' = Append(FractionDigits, c)
        BY <1>2, <1>6, Grow
  <2>2. /\ Len(FractionDigits) + 1 \in 1..Len(FractionDigits')
        /\ FractionDigits'[Len(FractionDigits) + 1] = c
        BY <1>4, <2>1, AppendLemma
  <2>3. ~IsDecimal'
        BY <1>2, <2>2 DEF IsDecimal
  <2> QED BY <1>1, <1>3, <2>3, Refused
<1> QED BY <1>5, <1>6

\* A fraction that can still be raised by a decimal.
LEMMA Room ==
    ASSUME TextOK, PointAt # 0
    PROVE  /\ Len(FractionDigits) \in Nat /\ Len(FractionDigits) + 1 \in 0..MaxLength
           /\ Power[Len(FractionDigits)] \in Nat
           /\ Power[Len(FractionDigits) + 1] = 10 * Power[Len(FractionDigits)]
<1> DEFINE n == Len(FractionDigits)
<1>1. n \in Nat /\ n + 1 \in 1..MaxLength
      BY Parts, MinmeaAssumption
<1>2. n \in 0..MaxLength
  <2> HIDE DEF n
  <2> QED BY <1>1, MinmeaAssumption
<1> HIDE DEF n
<1>3. Power[n] \in Nat
      BY <1>2, PowerLemma
<1>4. Power[n + 1] = 10 * Power[n]
  <2>1. (n + 1) - 1 = n
        BY <1>1
  <2> QED BY <1>1, <2>1, PowerLemma
<1> QED BY <1>1, <1>3, <1>4 DEF n

\* A scale that fits with one decimal more fits without it.
LEMMA ScaleFitted ==
    ASSUME TextOK, PointAt # 0, NEW c \in Nat, FractionDigits' = Append(FractionDigits, c),
           IntegerDigits' = IntegerDigits, ScaleFits'
    PROVE  ScaleFits
<1> DEFINE n == Len(FractionDigits)
<1>1. Len(FractionDigits') = n + 1
      BY Parts, AppendLemma
<1>2. Power[n] \in Nat /\ Power[n + 1] = 10 * Power[n]
      BY Room
<1>3. Number(IntegerDigits) # 0 \/ Power[n + 1] <= MaxInt
      BY <1>1 DEF ScaleFits
<1> DEFINE p == Power[n]
<1>4. p \in Nat /\ Power[n + 1] = 10 * p
      BY <1>2
<1>5. Power[n + 1] <= MaxInt => p <= MaxInt
  <2> HIDE DEF p, n
  <2> QED BY <1>4, MinmeaAssumption
<1> QED BY <1>3, <1>5 DEF ScaleFits

\* The sign and the characters behind the point, one character later.
LEMMA SignKept ==
    ASSUME TextOK, NEW c \in Nat, Len(text) < MaxLength, text' = Append(text, c),
           PointAt # 0
    PROVE  /\ Spoilt' <=> Spoilt \/ ~isdigit(c)
           /\ isdigit(c) => ((Minus \in Range(text))' <=> Minus \in Range(text))
<1>1. FractionDigits' = Append(FractionDigits, c) /\ FractionDigits \in Seq(Nat)
      BY Parts, Grow DEF Leading
<1>2. /\ Len(FractionDigits') = Len(FractionDigits) + 1 /\ Len(FractionDigits) \in Nat
      /\ FractionDigits'[Len(FractionDigits) + 1] = c
      /\ \A i \in 1..Len(FractionDigits) : FractionDigits'[i] = FractionDigits[i]
      BY <1>1, AppendLemma
<1>3. Spoilt' <=> Spoilt \/ ~isdigit(c)
  <2>1. ASSUME Spoilt' PROVE Spoilt \/ ~isdigit(c)
    <3>1. PICK i \in 1..Len(FractionDigits') : ~isdigit(FractionDigits'[i])
          BY <2>1 DEF Spoilt
    <3>2. CASE i = Len(FractionDigits) + 1
          BY <1>2, <3>1, <3>2
    <3>3. CASE i # Len(FractionDigits) + 1
      <4>1. i \in 1..Len(FractionDigits)
            BY <1>2, <3>3
      <4> QED BY <1>2, <3>1, <4>1 DEF Spoilt
    <3> QED BY <3>2, <3>3
  <2>2. ASSUME ~isdigit(c) PROVE Spoilt'
    <3>1. Len(FractionDigits) + 1 \in 1..Len(FractionDigits')
          BY <1>2
    <3> QED BY <1>2, <2>2, <3>1 DEF Spoilt
  <2>3. Spoilt => Spoilt'
        BY SpoiltStays
  <2> QED BY <2>1, <2>2, <2>3
<1>4. ASSUME isdigit(c) PROVE (Minus \in Range(text))' <=> Minus \in Range(text)
  <2>1. c # Minus
        BY <1>4 DEF isdigit, Minus
  <2> QED BY <2>1, Grow
<1> QED BY <1>3, <1>4

\* minmea.c: behind the break the field is skipped.
LEMMA SkipStep ==
    ASSUME TextOK, NEW c \in Nat, Len(text) < MaxLength, text' = Append(text, c),
           Clean, SkipChar(c)
    PROVE  FieldInv'
<1> DEFINE n == Len(FractionDigits)
<1>1. /\ state = "cut" /\ state' = "cut" /\ sign' = sign /\ value' = value /\ scale' = scale
      BY DEF SkipChar
<1>2. PointAt # 0 /\ ~IsBlank
  <2>1. PointAt # 0
        BY <1>1 DEF Clean
  <2> QED BY <2>1, Parts
<1>3. /\ TextOK' /\ ~IsBlank' /\ PointAt' = PointAt /\ IntegerDigits' = IntegerDigits
      /\ FractionDigits' = Append(FractionDigits, c)
      BY <1>2, Grow DEF Leading
<1>4. /\ IntegerDigits \in Seq(Nat) /\ FractionDigits \in Seq(Nat) /\ n \in Nat
      /\ Len(FractionDigits') = n + 1 /\ Len(IntegerDigits) \in Nat
      BY <1>3, Parts, AppendLemma
<1>5. PICK k \in 0..n : Kept(k)
      BY DEF Clean
<1>6. k < n /\ k + 1 \in 0..n /\ k \in 0..n
      BY <1>1, <1>4, <1>5 DEF Kept
<1>7. Shown(k)' = Shown(k) /\ Shown(k + 1)' = Shown(k + 1)
      BY <1>3, <1>4, <1>6, ShownAppend, ShownIs
<1>8. Number(IntegerDigits \o FractionDigits)' > MaxInt
  <2> DEFINE m == Number(IntegerDigits \o FractionDigits)
  <2>1. m > MaxInt /\ m \in Nat
        BY <1>1, <1>4, <1>5, ShownLemma DEF Kept
  <2>2. Number(IntegerDigits \o FractionDigits)' = Digit(m, c)
        BY <1>3, <1>4, ShownAppend
  <2> HIDE DEF m
  <2>3. Digit(m, c) > MaxInt
        BY <2>1, MinmeaAssumption DEF Digit, isdigit
  <2> QED BY <2>2, <2>3
<1>9. ScaleFits' => ScaleFits
      BY <1>2, <1>3, ScaleFitted
<1>10. Kept(k)'
  <2>1. Len(IntegerDigits) + k > 0 /\ value = Shown(k) /\ value <= MaxInt
        BY <1>4, <1>5, <1>6 DEF Kept
  <2>2. /\ (Power[k] - scale) % (2 * (MaxInt + 1)) = 0 /\ (ScaleFits => scale = Power[k])
        /\ Number(IntegerDigits) * Power[k] <= Shown(k)
        /\ Shown(k) < (Number(IntegerDigits) + 1) * Power[k]
        /\ Shown(k + 1) > MaxInt
        BY <1>1, <1>2, <1>5 DEF Kept
  <2>3. k < Len(FractionDigits')
        BY <1>4, <1>6
  <2>4. /\ Number(IntegerDigits') * Power[k] <= Shown(k)'
        /\ Shown(k)' < (Number(IntegerDigits') + 1) * Power[k]
        BY <1>3, <1>7, <2>2, Zenon
  <2>5. state' = "scan" => k = Len(FractionDigits')
        BY <1>1
  <2>6. /\ Len(IntegerDigits') + k > 0 /\ value' = Shown(k)' /\ value' <= MaxInt
        /\ (Power[k] - scale') % (2 * (MaxInt + 1)) = 0 /\ (ScaleFits' => scale' = Power[k])
        /\ Shown(k + 1)' > MaxInt
        BY <1>1, <1>3, <1>7, <1>9, <2>1, <2>2, Zenon
  <2> QED BY <1>8, <2>3, <2>4, <2>5, <2>6, Zenon DEF Kept
<1>11. Clean'
  <2>1. k \in 0..Len(FractionDigits')
        BY <1>4, <1>6
  <2>2. /\ sign' \in {-1, 0, 1} /\ scale' \in Int
        /\ ~(sign' = 0 /\ value' = -1 /\ scale' = 0)
        /\ \A i \in 1..Len(IntegerDigits') : isdigit(IntegerDigits'[i])
        /\ Number(IntegerDigits') <= MaxInt /\ PointAt' # 0 /\ state' # "scan"
        BY <1>1, <1>2, <1>3 DEF Clean
  <2>3. ~Spoilt' => (sign' = -1 <=> (Minus \in Range(text))')
        BY <1>1, <1>2, SignKept DEF Clean
  <2> QED BY <1>3, <1>10, <2>1, <2>2, <2>3, Zenon DEF Clean
<1> QED BY <1>1, <1>3, <1>11, StillScanning DEF Scanning

\* minmea.c: a digit of the integer part.
LEMMA IntegerDigitStep ==
    ASSUME TextOK, NEW c \in Nat, Len(text) < MaxLength, text' = Append(text, c),
           Clean, state = "scan", DigitChar(c), PointAt = 0
    PROVE  FieldInv'
<1> DEFINE d == c - 48
           m == Number(IntegerDigits)
<1>1. isdigit(c) /\ d \in 0..9
      BY DEF DigitChar, isdigit
<1>2. scale = 0
      BY DEF Clean
<1>3. /\ IntegerDigits \in Seq(Nat) /\ FractionDigits = <<>> /\ Len(FractionDigits) = 0
      BY Parts
<1>4. ~Leading(c) /\ c # Point /\ c # Space /\ c # Minus
      BY <1>1 DEF Leading, isdigit, Point, Space, Plus, Minus
<1>5. /\ TextOK' /\ ~IsBlank' /\ PointAt' = 0 /\ FractionDigits' = <<>>
      /\ IntegerDigits' = Append(IntegerDigits, c)
      /\ (Minus \in Range(text))' <=> Minus \in Range(text)
      BY <1>4, Grow
<1>6. m \in Nat /\ m <= MaxInt /\ (IF value = -1 THEN 0 ELSE value) = m
      BY <1>3, CleanScan
<1>7. Number(IntegerDigits') = 10 * m + d
      BY <1>1, <1>3, <1>5, NumberAppend DEF Digit
<1>8. /\ OutOfBits(m, d) => state' = "error"
      /\ ~OutOfBits(m, d) => /\ sign' = sign /\ value' = Wrap(10 * m + d)
                             /\ scale' = 0 /\ state' = "scan"
      BY <1>2, <1>6 DEF DigitChar, Become, NextScale
<1> HIDE DEF m, d
<1>9. CASE OutOfBits(m, d)
  <2>1. ~Fits'
        BY <1>1, <1>6, <1>7, <1>9, OutOfBitsLemma, MinmeaAssumption DEF Fits
  <2> QED BY <1>5, <1>8, <1>9, <2>1, Refused
<1>10. CASE ~OutOfBits(m, d)
  <2> DEFINE w == 10 * m + d
  <2>1. w \in Nat /\ w <= MaxInt
        BY <1>1, <1>6, <1>10, OutOfBitsLemma, MinmeaAssumption
  <2>2. /\ sign' = sign /\ value' = w /\ scale' = 0 /\ state' = "scan"
        /\ Number(IntegerDigits') = w
    <3>1. Wrap(w) = w
      <4> HIDE DEF w
      <4> QED BY <2>1, WrapSmall, MinmeaAssumption
    <3> QED BY <1>7, <1>8, <1>10, <3>1
  <2> HIDE DEF w
  <2>3. IntegerDigits' \in Seq(Nat) /\ Len(IntegerDigits') = Len(IntegerDigits) + 1
        /\ Len(IntegerDigits) \in Nat
        BY <1>3, <1>5, AppendLemma
  <2>4. Len(FractionDigits') = 0 /\ FractionDigits' \in Seq(Nat)
        BY <1>5
  <2>5. Shown(0)' = w
        BY <2>2, <2>3, <2>4, ShownLemma, ShownIs
  <2>6. Kept(0)'
    <3>1. Power[0] = 1 /\ w * 1 <= w /\ w < (w + 1) * 1
          BY <2>1, PowerLemma
    <3>2. Len(IntegerDigits') + 0 > 0
          BY <2>3
    <3> QED BY <1>5, <2>1, <2>2, <2>4, <2>5, <3>1, <3>2 DEF Kept
  <2>7. \A i \in 1..Len(IntegerDigits') : isdigit(IntegerDigits'[i])
    <3>1. ASSUME NEW i \in 1..Len(IntegerDigits') PROVE isdigit(IntegerDigits'[i])
      <4>1. CASE i = Len(IntegerDigits) + 1
            BY <1>1, <1>3, <1>5, <4>1, AppendLemma
      <4>2. CASE i # Len(IntegerDigits) + 1
        <5>1. i \in 1..Len(IntegerDigits)
              BY <2>3, <4>2
        <5>2. IntegerDigits'[i] = IntegerDigits[i]
              BY <1>3, <1>5, <5>1, AppendLemma
        <5> QED BY <5>1, <5>2 DEF Clean
      <4> QED BY <4>1, <4>2
    <3> QED BY <3>1
  <2>8. ~Spoilt' /\ ~Spoilt
        BY <1>3, <2>4 DEF Spoilt
  <2>9. sign' \in {-1, 0, 1} /\ (sign' = -1 <=> (Minus \in Range(text))')
        BY <1>5, <2>2, <2>8 DEF Clean
  <2>10. 0 \in 0..Len(FractionDigits') /\ scale' \in Int /\ value' # -1
         BY <2>1, <2>2, <2>4
  <2>11. Clean'
         BY <1>5, <2>1, <2>2, <2>6, <2>7, <2>8, <2>9, <2>10 DEF Clean
  <2> QED BY <1>5, <2>2, <2>11, StillScanning DEF Scanning
<1> QED BY <1>9, <1>10

\* minmea.c: a decimal, with room for it or without.
LEMMA DecimalStep ==
    ASSUME TextOK, NEW c \in Nat, Len(text) < MaxLength, text' = Append(text, c),
           Clean, state = "scan", DigitChar(c), PointAt # 0
    PROVE  FieldInv'
<1>0. PICK n \in Nat : n = Len(FractionDigits)
      BY Parts
<1> DEFINE d == c - 48
           a == Number(IntegerDigits)
           v == Shown(n)
           p == Power[n]
           r == 2 * (MaxInt + 1)
<1>1. isdigit(c) /\ d \in 0..9
      BY DEF DigitChar, isdigit
<1>2. ~IsBlank
      BY Parts
<1>3. /\ TextOK' /\ ~IsBlank' /\ PointAt' = PointAt /\ IntegerDigits' = IntegerDigits
      /\ FractionDigits' = Append(FractionDigits, c)
      BY <1>2, Grow DEF Leading
<1>4. /\ IntegerDigits \in Seq(Nat) /\ FractionDigits \in Seq(Nat) /\ n \in Nat
      /\ Len(FractionDigits') = n + 1 /\ Len(IntegerDigits) \in Nat
      BY <1>0, <1>3, Parts, AppendLemma
<1>5. /\ v \in Nat /\ v <= MaxInt /\ (IF value = -1 THEN 0 ELSE value) = v
      /\ v = Number(IntegerDigits \o FractionDigits) /\ a \in Nat
      BY <1>0, CleanScan
<1>6. /\ Shown(n)' = v /\ Shown(n + 1)' = 10 * v + d
      /\ Number(IntegerDigits \o FractionDigits)' = 10 * v + d
  <2>1. n \in 0..n
        BY <1>4
  <2>2. Shown(n)' = v /\ Shown(n + 1)' = Digit(v, c)
        BY <1>0, <1>3, <1>4, <2>1, ShownAppend, ShownIs
  <2>3. Number(IntegerDigits \o FractionDigits)' = Digit(v, c)
        BY <1>3, <1>4, <1>5, ShownAppend
  <2> QED BY <1>1, <2>2, <2>3 DEF Digit
<1>7. /\ p \in Nat /\ Power[n + 1] = 10 * p /\ n \in 0..MaxLength
  <2>1. n + 1 \in 0..MaxLength /\ n \in Nat /\ MaxLength \in Nat
        BY <1>0, Room, MinmeaAssumption
  <2>2. n \in 0..MaxLength
        BY <2>1
  <2> QED BY <1>0, <2>2, Room
<1>8. /\ (p - scale) % r = 0 /\ (ScaleFits => scale = p) /\ scale \in Int
      /\ a * p <= v /\ v < (a + 1) * p
      BY <1>0, CleanScan DEF Kept, Clean
<1>9. ~Spoilt' /\ ~Spoilt /\ (sign = -1 <=> (Minus \in Range(text))')
      BY <1>1, SignKept DEF Clean
<1>10. ScaleFits' => ScaleFits
       BY <1>3, ScaleFitted
<1>11. /\ sign \in {-1, 0, 1} /\ a <= MaxInt
       /\ \A i \in 1..Len(IntegerDigits') : isdigit(IntegerDigits'[i])
       BY <1>3 DEF Clean
<1>12. /\ OutOfBits(v, d) =>
            /\ sign' = sign /\ value' = v /\ scale' = scale
            /\ state' = IF scale # 0 THEN "cut" ELSE "error"
       /\ ~OutOfBits(v, d) =>
            /\ sign' = sign /\ value' = Wrap(10 * v + d)
            /\ scale' = NextScale /\ state' = "scan"
       BY <1>5 DEF DigitChar, Become
<1>13. OutOfBits(v, d) <=> 10 * v + d > MaxInt
       BY <1>1, <1>5, OutOfBitsLemma
<1>14. CASE OutOfBits(v, d) /\ scale = 0
  <2>1. ~ScaleNonzero
    <3>1. p - 0 = p
          BY <1>7
    <3> QED BY <1>7, <1>8, <1>14, <3>1 DEF ScaleNonzero
  <2> QED BY <1>3, <1>12, <1>14, <2>1, Refused
<1>15. CASE OutOfBits(v, d) /\ scale # 0
  <2>1. /\ sign' = sign /\ value' = v /\ scale' = scale /\ state' = "cut"
        BY <1>12, <1>15
  <2>2. 10 * v + d > MaxInt
        BY <1>13, <1>15
  <2>3. Len(IntegerDigits) + n > 0
    <3>1. value # -1
          BY <1>1, <1>5, <2>2, MinmeaAssumption
    <3> QED BY <1>0, <3>1, CleanScan DEF Kept
  <2>4. /\ n < Len(FractionDigits') /\ Len(IntegerDigits') + n > 0 /\ value' = Shown(n)'
        /\ value' <= MaxInt
        BY <1>3, <1>4, <1>5, <1>6, <2>1, <2>3
  <2>5. /\ Shown(n + 1)' > MaxInt /\ Number(IntegerDigits \o FractionDigits)' > MaxInt
        BY <1>6, <2>2
  <2>6. /\ (Power[n] - scale') % (2 * (MaxInt + 1)) = 0
        /\ ScaleFits' => scale' = Power[n]
        BY <1>8, <1>10, <2>1, Zenon
  <2>7. /\ Number(IntegerDigits') * Power[n] <= Shown(n)'
        /\ Shown(n)' < (Number(IntegerDigits') + 1) * Power[n]
        BY <1>3, <1>6, <1>8, Zenon
  <2>8. state' # "scan"
        BY <2>1
  <2>9. Kept(n)'
        BY <2>4, <2>5, <2>6, <2>7, <2>8, Zenon DEF Kept
  <2>10. n \in 0..Len(FractionDigits')
         BY <1>4
  <2>11. value' # -1 /\ scale' \in Int
         BY <1>5, <1>8, <2>1
  <2>12. Clean'
         BY <1>3, <1>9, <1>11, <2>1, <2>8, <2>9, <2>10, <2>11, Zenon DEF Clean
  <2> QED BY <1>3, <2>1, <2>12, StillScanning DEF Scanning
<1>16. CASE ~OutOfBits(v, d)
  <2> DEFINE w == 10 * v + d
  <2>1. w \in Nat /\ w <= MaxInt
    <3> HIDE DEF v, d
    <3>1. ~(10 * v + d > MaxInt)
          BY <1>13, <1>16, Zenon
    <3>2. v \in Nat /\ d \in 0..9 /\ MaxInt \in Nat
          BY <1>1, <1>5, MinmeaAssumption, Zenon
    <3> QED BY <3>1, <3>2
  <2>2. sign' = sign /\ value' = w /\ scale' = NextScale /\ state' = "scan"
    <3>1. Wrap(w) = w
      <4> HIDE DEF w
      <4> QED BY <2>1, WrapSmall, MinmeaAssumption
    <3> QED BY <1>12, <1>16, <3>1
  <2>3. NextScale = Wrap(10 * scale)
    <3>1. Wrap(0) = 0
          BY WrapSmall, MinmeaAssumption
    <3>2. CASE scale = 0
          BY <3>1, <3>2 DEF NextScale
    <3>3. CASE scale # 0
          BY <3>3 DEF NextScale
    <3> QED BY <3>2, <3>3
  <2>4. scale' \in Int /\ (Power[n + 1] - scale') % (2 * (MaxInt + 1)) = 0
    <3>1. p \in Int
          BY <1>7
    <3>2. /\ Wrap(10 * scale) \in Int
          /\ (10 * p - Wrap(10 * scale)) % (2 * (MaxInt + 1)) = 0
      <4> HIDE DEF p
      <4> QED BY <1>8, <3>1, WrapCongruent DEF r
    <3> QED BY <1>7, <2>2, <2>3, <3>2, Zenon
  <2>5. a * (10 * p) <= w /\ w < (a + 1) * (10 * p)
    <3> HIDE DEF a, p, v, d
    <3> QED BY <1>1, <1>5, <1>7, <1>8, OneDecimalMore
  <2>6. ScaleFits' => scale' = Power[n + 1]
    <3> SUFFICES ASSUME ScaleFits' PROVE scale' = 10 * p
        BY <1>7
    <3>1. 10 * p <= MaxInt
      <4>1. CASE a = 0
        <5>1. Power[n + 1] <= MaxInt
              BY <1>3, <1>4, <4>1 DEF ScaleFits
        <5> QED BY <1>7, <5>1
      <4>2. CASE a # 0
        <5> DEFINE q == 10 * p
        <5>1. q \in Nat /\ a * q <= w /\ a \in Nat \ {0}
          <6> HIDE DEF a, p, w
          <6> QED BY <1>5, <1>7, <2>5, <4>2
        <5>2. q <= w
          <6> HIDE DEF q, a, w
          <6> QED BY <2>1, <5>1, ScaleBelow
        <5> HIDE DEF q, w
        <5>3. q <= MaxInt
              BY <2>1, <5>1, <5>2, MinmeaAssumption
        <5> QED BY <5>3 DEF q
      <4> QED BY <4>1, <4>2
    <3>2. Wrap(10 * p) = 10 * p
      <4> HIDE DEF p
      <4> QED BY <1>7, <3>1, WrapSmall, MinmeaAssumption
    <3>3. scale = p
          BY <1>8, <1>10
    <3> QED BY <2>2, <2>3, <3>2, <3>3, Zenon
  <2>7. Shown(n + 1)' = w
        BY <1>6
  <2>8. /\ Number(IntegerDigits') * Power[n + 1] <= Shown(n + 1)'
        /\ Shown(n + 1)' < (Number(IntegerDigits') + 1) * Power[n + 1]
        BY <1>3, <1>7, <2>5, <2>7, Zenon
  <2>9. /\ n + 1 = Len(FractionDigits') /\ Len(IntegerDigits') + (n + 1) > 0
        /\ n + 1 \in 0..Len(FractionDigits') /\ value' <= MaxInt /\ value' # -1
        BY <1>3, <1>4, <2>1, <2>2
  <2>10. state' # "cut"
         BY <2>2
  <2>11. Kept(n + 1)'
         BY <2>2, <2>4, <2>6, <2>7, <2>8, <2>9, <2>10, Zenon DEF Kept
  <2>12. Clean'
         BY <1>3, <1>9, <1>11, <2>2, <2>4, <2>9, <2>11, Zenon DEF Clean
  <2> QED BY <1>3, <2>2, <2>12, StillScanning DEF Scanning
<1> QED BY <1>14, <1>15, <1>16

\* The end of the field leaves its text alone.
LEMMA SameParts ==
    ASSUME text' = text
    PROVE  /\ Body' = Body /\ PointAt' = PointAt
           /\ IntegerDigits' = IntegerDigits /\ FractionDigits' = FractionDigits
           /\ IsBlank' = IsBlank /\ TextOK' = TextOK
           /\ IsDecimal' = IsDecimal /\ Fits' = Fits /\ ScaleFits' = ScaleFits
           /\ \A k : Shown(k)' = Shown(k)
           /\ (Minus \in Range(text))' = (Minus \in Range(text))
<1>1. /\ Body' = Body /\ PointAt' = PointAt
      /\ IntegerDigits' = IntegerDigits /\ FractionDigits' = FractionDigits
      /\ IsBlank' = IsBlank
      BY PartsOf, PartsOfNext
<1>2. TextOK' = TextOK
      BY DEF TextOK
<1>3. IsDecimal' = IsDecimal /\ Fits' = Fits /\ ScaleFits' = ScaleFits
      BY <1>1, Zenon DEF IsDecimal, Fits, ScaleFits
<1>4. \A k : Shown(k)' = Shown(k)
      BY <1>1, ShownIs
<1> QED BY <1>1, <1>2, <1>3, <1>4

\* The equation of DegreesOfText, for the pair <<v, s>>.
DegreesSay(v, s, whole, minus) ==
    Degrees(v, s) = 60 * s * (IF minus THEN -(whole \div 100) ELSE whole \div 100)
                    + (IF v >= 0 THEN v - (whole \div 100) * 100 * s
                       ELSE v + (whole \div 100) * 100 * s)

\* minmea.c: the end of a field that holds a number.
LEMMA NumberEnds ==
    ASSUME TextOK, Clean, text' = text, value # -1,
           state \in {"scan", "cut"}, state' = "done",
           value' = (IF sign = 0 THEN value ELSE value * sign),
           scale' = (IF scale = 0 THEN 1 ELSE scale)
    PROVE  FieldInv'
<1>0. PICK n \in Nat : n = Len(FractionDigits)
      BY Parts
<1>1. PICK k \in 0..n : Kept(k)
      BY <1>0 DEF Clean
<1> DEFINE a == Number(IntegerDigits)
           v == Shown(k)
           p == Power[k]
<1>2. /\ IntegerDigits \in Seq(Nat) /\ FractionDigits \in Seq(Nat)
      /\ Len(IntegerDigits) \in Nat /\ k \in 0..MaxLength
      BY <1>0, Parts, MinmeaAssumption
<1>3. a \in Nat /\ v \in Nat /\ p \in Nat
      BY <1>0, <1>2, ShownLemma, ShownIs, PowerLemma
<1>4. /\ Len(IntegerDigits) + k > 0 /\ value = v /\ v <= MaxInt
      /\ a * p <= v /\ v < (a + 1) * p
      BY <1>1 DEF Kept
<1>5. TextOK' /\ state' \in {"scan", "cut", "error", "done"}
      /\ state' # "error" /\ state' # "scan" /\ state' # "cut"
      BY SameParts
<1>6. ReadsTheNumbers'
  <2>1. CASE IsDecimal
    <3>1. IsDecimal' /\ Fits'
          BY <2>1, SameParts DEF Clean, Fits
    <3> QED BY <1>5, <3>1 DEF ReadsTheNumbers
  <2>2. CASE ~IsDecimal
    <3>1. IntegerDigits \o FractionDigits # <<>>
      <4>1. Len(IntegerDigits) + Len(FractionDigits) > 0
            BY <1>0, <1>2, <1>4
      <4>2. Len(IntegerDigits \o FractionDigits) > 0
            BY <1>2, <4>1
      <4> QED BY <4>2
    <3>2. Spoilt
          BY <2>2, <3>1 DEF IsDecimal, Clean, Spoilt
    <3>3. state = "cut"
          BY <3>2 DEF Clean
    <3>4. Number(IntegerDigits \o FractionDigits) > MaxInt
          BY <1>1, <3>3 DEF Kept
    <3>5. ~IsDecimal' /\ Number(IntegerDigits \o FractionDigits)' > MaxInt
          BY <2>2, <3>4, SameParts
    <3> QED BY <1>5, <3>5 DEF ReadsTheNumbers
  <2> QED BY <2>1, <2>2
<1>7. ASSUME IsDecimal, ScaleFits
      PROVE  /\ scale' = p
             /\ value' = (IF Minus \in Range(text) THEN -1 ELSE 1) * v
             /\ k < Len(FractionDigits) => Shown(k + 1) > MaxInt
             /\ value' = IF Minus \in Range(text) THEN -v ELSE v
  <2>1. ~Spoilt
        BY <1>7 DEF IsDecimal, Spoilt
  <2>2. sign = -1 <=> Minus \in Range(text)
        BY <2>1 DEF Clean
  <2>3. sign \in {-1, 0, 1}
        BY DEF Clean
  <2>4. value' = IF Minus \in Range(text) THEN -v ELSE v
    <3> HIDE DEF v
    <3>1. CASE sign = -1
          BY <1>3, <1>4, <2>2, <3>1
    <3>2. CASE sign = 0
          BY <1>3, <1>4, <2>2, <3>2
    <3>3. CASE sign = 1
          BY <1>3, <1>4, <2>2, <3>3
    <3> QED BY <2>3, <3>1, <3>2, <3>3
  <2>5. value' = (IF Minus \in Range(text) THEN -1 ELSE 1) * v
    <3> HIDE DEF v
    <3> QED BY <1>3, <2>4
  <2>6. scale' = p
    <3>1. CASE PointAt = 0
      <4>1. scale = 0
            BY <3>1 DEF Clean
      <4>2. k = 0
        <5>1. Len(FractionDigits) = 0
              BY <3>1, Parts
        <5> QED BY <1>0, <5>1
      <4> QED BY <4>1, <4>2, PowerLemma
    <3>2. CASE PointAt # 0
      <4>1. scale = p
            BY <1>1, <1>7, <3>2 DEF Kept
      <4>2. p # 0
        <5> SUFFICES ASSUME p = 0 PROVE FALSE
            OBVIOUS
        <5> HIDE DEF p, a, v
        <5>1. (a + 1) * p = 0
              BY <1>3
        <5> QED BY <1>3, <1>4, <5>1
      <4> QED BY <4>1, <4>2
    <3> QED BY <3>1, <3>2
  <2>7. k < Len(FractionDigits) => Shown(k + 1) > MaxInt
    <3>1. ASSUME k < Len(FractionDigits) PROVE Shown(k + 1) > MaxInt
      <4>1. state # "scan"
            BY <1>0, <1>1, <3>1 DEF Kept
      <4> QED BY <1>1, <4>1 DEF Kept
    <3> QED BY <3>1
  <2> QED BY <2>4, <2>5, <2>6, <2>7
<1>8. FloatIsTruncation'
  <2> SUFFICES ASSUME IsDecimal', ScaleFits'
               PROVE  (\E kept \in 0..Len(FractionDigits) :
                          /\ scale = Power[kept]
                          /\ value = (IF Minus \in Range(text) THEN -1 ELSE 1) * Shown(kept)
                          /\ kept < Len(FractionDigits) => Shown(kept + 1) > MaxInt)'
      BY DEF FloatIsTruncation
  <2>1. IsDecimal /\ ScaleFits
        BY SameParts
  <2>2. /\ scale' = Power[k]
        /\ value' = (IF (Minus \in Range(text))' THEN -1 ELSE 1) * Shown(k)'
        /\ k < Len(FractionDigits') => Shown(k + 1)' > MaxInt
        BY <1>7, <2>1, SameParts
  <2>3. k \in 0..Len(FractionDigits')
        BY <1>0, SameParts
  <2> QED BY <2>2, <2>3
<1>9. ASSUME IsDecimal, ScaleFits
      PROVE  DegreesSay(value', scale', a, Minus \in Range(text))
  <2> DEFINE t == a \div 100
  <2>1. scale' = p /\ value' = IF Minus \in Range(text) THEN -v ELSE v
        BY <1>7, <1>9
  <2>2. /\ Degrees(v, p) = 60 * p * t + (v - t * 100 * p)
        /\ v # 0 => Degrees(-v, p) = 60 * p * (-t) + (-v + t * 100 * p)
    <3> HIDE DEF a, v, p
    <3> QED BY <1>3, <1>4, DegreesPositive
  <2>3. t \in Nat
        BY <1>3
  <2>4. v = 0 => a = 0
    <3> SUFFICES ASSUME v = 0, a # 0 PROVE FALSE
        OBVIOUS
    <3> HIDE DEF a, v, p
    <3>1. p <= v
          BY <1>3, <1>4, ScaleBelow
    <3>2. p = 0
          BY <1>3, <3>1
    <3>3. (a + 1) * p = 0
          BY <1>3, <3>2
    <3> QED BY <1>3, <1>4, <3>3
  <2>5. a = 0 => t = 0
        OBVIOUS
  <2> SUFFICES Degrees(value', scale') =
                 60 * scale' * (IF Minus \in Range(text) THEN -t ELSE t)
                 + (IF value' >= 0 THEN value' - t * 100 * scale'
                    ELSE value' + t * 100 * scale')
      BY Zenon DEF DegreesSay
  <2> HIDE DEF a, v, p, t
  <2>6. CASE Minus \notin Range(text)
        BY <1>3, <2>1, <2>2, <2>6
  <2>7. CASE Minus \in Range(text) /\ v = 0
    <3>0. v = 0 /\ t = 0
          BY <2>4, <2>5, <2>7
    <3>1. -0 = 0
      <4>1. \A x \in Int : -x = 0 - x
            OBVIOUS
      <4>2. 0 \in Int /\ 0 - 0 = 0
            OBVIOUS
      <4> QED BY <4>1, <4>2, Zenon
    <3>2. -v = v /\ -t = t
          BY <3>0, <3>1, Zenon
    <3>3. v >= 0
          BY <3>0
    <3> QED BY <2>1, <2>2, <2>7, <3>2, <3>3
  <2>8. CASE Minus \in Range(text) /\ v # 0
    <3>1. ~(-v >= 0)
          BY <1>3, <2>8
    <3> QED BY <2>1, <2>2, <2>8, <3>1
  <2> QED BY <2>6, <2>7, <2>8
<1>10. DegreesOfText'
  <2>1. /\ IsDecimal' = IsDecimal /\ ScaleFits' = ScaleFits /\ Number(IntegerDigits') = a
        /\ (Minus \in Range(text))' = (Minus \in Range(text))
        BY SameParts
  <2>2. IsDecimal' /\ ScaleFits' =>
           DegreesSay(value', scale', Number(IntegerDigits'), (Minus \in Range(text))')
    <3> HIDE DEF a
    <3> QED BY <1>9, <2>1, Zenon
  <2> QED BY <2>2, Zenon DEF DegreesOfText, DegreesSay
<1> QED BY <1>5, <1>6, <1>8, <1>10 DEF FieldInv

\* minmea.c: the end of the field.
LEMMA EndStep ==
    ASSUME FieldInv, FieldEnd
    PROVE  FieldInv'
<1>1. TextOK /\ text' = text /\ state \in {"scan", "cut"} /\ Scanning
      BY DEF FieldInv, FieldEnd
<1>2. TextOK' /\ IsBlank' = IsBlank /\ IsDecimal' = IsDecimal
      BY <1>1, SameParts
<1>3. CASE Clean
  <2>1. CASE value = -1 /\ (sign # 0 \/ scale # 0) /\ Become(sign, value, scale, "error")
    <3>1. ~IsBlank
          BY <1>3, <2>1 DEF Clean
    <3>2. ~IsDecimal
      <4>0. PICK k \in 0..Len(FractionDigits) : Kept(k)
            BY <1>3 DEF Clean
      <4>1. /\ IntegerDigits \in Seq(Nat) /\ FractionDigits \in Seq(Nat)
            /\ Len(IntegerDigits) \in Nat /\ Len(FractionDigits) \in Nat
            BY <1>1, Parts
      <4>2. Shown(k) \in Nat
            BY <4>1, ShownLemma, ShownIs
      <4>3. Len(IntegerDigits) + Len(FractionDigits) = 0
            BY <2>1, <4>0, <4>2 DEF Kept
      <4>4. Len(IntegerDigits) = 0 /\ Len(FractionDigits) = 0
            BY <4>1, <4>3
      <4>5. IntegerDigits = <<>> /\ FractionDigits = <<>>
            BY <4>1, <4>4
      <4>6. IntegerDigits \o FractionDigits = <<>>
            BY <4>5
      <4> QED BY <4>6 DEF IsDecimal
    <3>3. state' = "error"
          BY <2>1 DEF Become
    <3> QED BY <1>2, <3>1, <3>2, <3>3, Refused
  <2>2. CASE value = -1 /\ sign = 0 /\ scale = 0 /\ Become(sign, 0, 0, "done")
    <3>1. IsBlank /\ state' = "done"
          BY <1>3, <2>2 DEF Clean, Become
    <3>2. ~IsDecimal
      <4>1. IntegerDigits = <<>> /\ FractionDigits = <<>>
            BY <1>1, <3>1, Parts
      <4>2. IntegerDigits \o FractionDigits = <<>>
            BY <4>1
      <4> QED BY <4>2 DEF IsDecimal
    <3> QED BY <1>2, <3>1, <3>2
            DEF FieldInv, ReadsTheNumbers, FloatIsTruncation, DegreesOfText
  <2>3. CASE /\ value # -1
             /\ Become(sign, IF sign = 0 THEN value ELSE value * sign,
                       IF scale = 0 THEN 1 ELSE scale, "done")
        BY <1>1, <1>3, <2>3, NumberEnds DEF Become
  <2> QED BY <2>1, <2>2, <2>3 DEF FieldEnd
<1>4. CASE Spoilt /\ (ScaleNonzero => SignBehindPoint)
  <2>1. ~IsBlank /\ ~IsDecimal
    <3>1. FractionDigits # <<>>
          BY <1>4 DEF Spoilt
    <3>2. ~IsBlank
          BY <1>1, <3>1, Parts
    <3> QED BY <1>4, <3>2 DEF Spoilt, IsDecimal
  <2>2. state' \in {"error", "done"}
        BY DEF FieldEnd, Become
  <2>3. ScaleNonzero => SignBehindPoint'
        BY <1>1, <1>4, SameParts DEF SignBehindPoint
  <2>4. ScaleNonzero => ReadsTheNumbers'
        BY <1>2, <2>1, <2>2, <2>3 DEF ReadsTheNumbers, SignBehindPoint
  <2> QED BY <1>2, <2>1, <2>2, <2>4 DEF FieldInv, FloatIsTruncation, DegreesOfText
<1> QED BY <1>1, <1>3, <1>4 DEF Scanning

-----------------------------------------------------------------------------
(* The theorems *)

\* The locals of minmea_scan before the first character.
LEMMA FieldInvInit ==
    ASSUME Init
    PROVE  FieldInv
<1>1. text = <<>> /\ sign = 0 /\ value = -1 /\ scale = 0 /\ state = "scan"
      BY DEF Init
<1>2. TextOK /\ IsBlank
  <2>1. <<>> \in Seq(Nat) /\ Len(<<>>) = 0
        OBVIOUS
  <2> QED BY <1>1, <2>1, MinmeaAssumption DEF TextOK, IsBlank
<1>3. PointAt = 0 /\ IntegerDigits = <<>> /\ FractionDigits = <<>>
      BY <1>2, Parts
<1>4. Len(IntegerDigits) = 0 /\ Len(FractionDigits) = 0 /\ ~Spoilt
      BY <1>3 DEF Spoilt
<1>5. Number(IntegerDigits) = 0 /\ Shown(0) = 0
      BY <1>3, NothingShown, ShownIs
<1>6. Kept(0)
  <2>1. Power[0] = 1
        BY PowerLemma
  <2> QED BY <1>1, <1>3, <1>4, <1>5, <2>1 DEF Kept
<1>7. Minus \notin Range(text)
  <2>1. DOMAIN text = {}
        BY <1>1
  <2> QED BY <2>1 DEF Range
<1>8. Clean
  <2>1. 0 \in 0..Len(FractionDigits) /\ Number(IntegerDigits) <= MaxInt
        BY <1>4, <1>5, MinmeaAssumption
  <2> QED BY <1>1, <1>2, <1>3, <1>4, <1>6, <1>7, <2>1 DEF Clean
<1> QED BY <1>1, <1>2, <1>8
        DEF FieldInv, Scanning, ReadsTheNumbers, FloatIsTruncation, DegreesOfText

\* Every character, and the end of the field, preserves the invariant.
LEMMA FieldInvNext ==
    ASSUME FieldInv, [Next]_vars
    PROVE  FieldInv'
<1>1. ASSUME NEW c \in Char, ReadChar(c) PROVE FieldInv'
  <2>1. c \in Nat /\ TextOK /\ Len(text) < MaxLength /\ text' = Append(text, c)
        BY <1>1, MinmeaAssumption DEF FieldInv, ReadChar
  <2>2. Scanning
        BY <1>1 DEF FieldInv, ReadChar, ScanChar, SkipChar
  <2>3. CASE Spoilt /\ (ScaleNonzero => SignBehindPoint)
        BY <1>1, <2>1, <2>3, SpoiltStep
  <2>4. CASE Clean
    <3>1. ASSUME state = "scan", SignChar(c) PROVE FieldInv'
          BY <2>1, <2>4, <3>1, SignStep
    <3>2. ASSUME state = "scan", DigitChar(c) PROVE FieldInv'
          BY <2>1, <2>4, <3>2, IntegerDigitStep, DecimalStep
    <3>3. ASSUME state = "scan", PointChar(c) PROVE FieldInv'
          BY <2>1, <2>4, <3>3, PointStep
    <3>4. ASSUME state = "scan", SpaceChar(c) PROVE FieldInv'
          BY <2>1, <2>4, <3>4, SpaceStep
    <3>5. ASSUME state = "scan", OtherChar(c) PROVE FieldInv'
          BY <2>1, <2>4, <3>5, OtherStep
    <3>6. ASSUME SkipChar(c) PROVE FieldInv'
          BY <2>1, <2>4, <3>6, SkipStep
    <3> QED BY <1>1, <3>1, <3>2, <3>3, <3>4, <3>5, <3>6 DEF ReadChar, ScanChar
  <2> QED BY <2>2, <2>3, <2>4 DEF Scanning
<1>2. ASSUME FieldEnd PROVE FieldInv'
      BY <1>2, EndStep
<1>3. ASSUME UNCHANGED vars PROVE FieldInv'
  <2>1. /\ text' = text /\ sign' = sign /\ value' = value /\ scale' = scale
        /\ state' = state
        BY <1>3 DEF vars
  <2>2. /\ Body' = Body /\ PointAt' = PointAt
        /\ IntegerDigits' = IntegerDigits /\ FractionDigits' = FractionDigits
        /\ IsBlank' = IsBlank /\ TextOK' = TextOK
        /\ IsDecimal' = IsDecimal /\ Fits' = Fits /\ ScaleFits' = ScaleFits
        /\ \A k : Shown(k)' = Shown(k)
        BY <2>1, SameParts
  <2>3. Spoilt' = Spoilt /\ SignBehindPoint' = SignBehindPoint
        BY <2>2, Zenon DEF Spoilt, SignBehindPoint
  <2>4. \A k : Kept(k)' = Kept(k)
        BY <2>1, <2>2, Zenon DEF Kept
  <2>5. Clean' = Clean
        BY <2>1, <2>2, <2>3, <2>4, Zenon DEF Clean
  <2>6. Scanning' = Scanning
        BY <2>3, <2>5, Zenon DEF Scanning
  <2>7. ReadsTheNumbers' = ReadsTheNumbers
        BY <2>1, <2>2, Zenon DEF ReadsTheNumbers
  <2>8. FloatIsTruncation' = FloatIsTruncation
        BY <2>1, <2>2, Zenon DEF FloatIsTruncation
  <2>9. DegreesOfText' = DegreesOfText
        BY <2>1, <2>2, Zenon DEF DegreesOfText
  <2> QED BY <2>1, <2>2, <2>6, <2>7, <2>8, <2>9, Zenon DEF FieldInv
<1> QED BY <1>1, <1>2, <1>3 DEF Next

\* The invariant of minmea_scan's case 'f'.
LEMMA FieldInvariant ==
    Spec => []FieldInv
BY FieldInvInit, FieldInvNext, PTL DEF Spec

\* minmea.c 'f': a field is read exactly if it is a number whose integer part
\* fits an int, or empty, but for the two kinds of fields that ReadsTheNumbers
\* names.  The hypothesis is that the scale cannot wrap to zero.
THEOREM FieldsRead ==
    ASSUME ScaleNonzero
    PROVE  Spec => []ReadsTheNumbers
<1>1. FieldInv => ReadsTheNumbers
      BY DEF FieldInv
<1> QED BY <1>1, FieldInvariant, PTL

\* minmea.c "truncate extra precision": what is read is the number, cut after
\* as many decimals as an int has room for and no earlier.
THEOREM PrecisionIsTruncated ==
    Spec => []FloatIsTruncation
<1>1. FieldInv => FloatIsTruncation
      BY DEF FieldInv
<1> QED BY <1>1, FieldInvariant, PTL

\* app.c:868-871: the degrees that gps_testTask computes are those of the text,
\* on either side of the equator, without an overflow.
THEOREM DegreesAreOfText ==
    Spec => []DegreesOfText
<1>1. FieldInv => DegreesOfText
      BY DEF FieldInv
<1> QED BY <1>1, FieldInvariant, PTL
=============================================================================
