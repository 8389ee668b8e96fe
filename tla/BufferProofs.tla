---------------------------- MODULE BufferProofs ----------------------------
(***************************************************************************)
(* Proofs about Buffer for every size of the ring and every set of bytes:  *)
(* the indices stay in range, the ring implements BoundedFifo, and a query *)
(* returns the first occurrence of its pattern.                            *)
(***************************************************************************)
EXTENDS Buffer, SequenceTheorems, WellFoundedInduction, TLAPS

-----------------------------------------------------------------------------
(* Modular arithmetic, once: below 2n the remainder is a conditional       *)
(* subtraction, which the provers handle linearly.                         *)

\* The remainder of a number below 2n.
LEMMA ModLemma ==
    ASSUME NEW x \in Int, NEW n \in Nat \ {0}, 0 <= x, x < 2 * n
    PROVE  x % n = IF x < n THEN x ELSE x - n
  OBVIOUS

\* The remainder of 2n, which Buffer_Query takes of an empty ring.
LEMMA ModTwice ==
    ASSUME NEW n \in Nat \ {0}
    PROVE  (2 * n) % n = 0
  OBVIOUS

\* Ahead(i, j), the C expression of Buffer_Size, without the remainder.
LEMMA AheadLemma ==
    ASSUME NEW i \in Index, NEW j \in Index
    PROVE  /\ Ahead(i, j) = IF j <= i THEN i - j ELSE i - j + MaxSize
           /\ Ahead(i, j) \in Index
  <1> DEFINE x == i - j + MaxSize
  <1>1. MaxSize \in Nat \ {0} /\ i \in Int /\ j \in Int
    BY BufferAssumption DEF Index
  <1>2. x \in Int /\ 0 <= x /\ x < 2 * MaxSize
    BY <1>1 DEF Index
  <1>3. Ahead(i, j) = x % MaxSize
    BY DEF Ahead
  <1>4. Ahead(i, j) = IF x < MaxSize THEN x ELSE x - MaxSize
    <2> HIDE DEF x
    <2> QED BY <1>1, <1>2, <1>3, ModLemma
  <1> QED BY <1>1, <1>4 DEF Index

\* Step(i, k), the advance of front and rear, without the remainder.
LEMMA StepLemma ==
    ASSUME NEW i \in Index, NEW k \in 0..MaxSize
    PROVE  /\ Step(i, k) = IF i + k < MaxSize THEN i + k ELSE i + k - MaxSize
           /\ Step(i, k) \in Index
  <1> DEFINE x == i + k
  <1>1. MaxSize \in Nat \ {0} /\ i \in Int /\ k \in Int
    BY BufferAssumption DEF Index
  <1>2. x \in Int /\ 0 <= x /\ x < 2 * MaxSize
    BY <1>1 DEF Index
  <1>3. Step(i, k) = x % MaxSize
    BY DEF Step
  <1>4. Step(i, k) = IF x < MaxSize THEN x ELSE x - MaxSize
    <2> HIDE DEF x
    <2> QED BY <1>1, <1>2, <1>3, ModLemma
  <1> QED BY <1>1, <1>4 DEF Index

\* The facts about an array of bytes that the steps below use.
LEMMA ArrayLemma ==
    ASSUME NEW data \in Array
    PROVE  /\ data \in Seq(Byte)
           /\ Len(data) \in 0..MaxLength
           /\ \A k \in 1..Len(data) : data[k] \in Byte
  BY BufferAssumption DEF Array

-----------------------------------------------------------------------------
(* Type correctness *)

\* Buffer_Init establishes the types.
LEMMA InitTypeOK == Buffer_Init => TypeOK
  <1> SUFFICES ASSUME Buffer_Init PROVE TypeOK
    OBVIOUS
  <1>1. 0 \in Index
    BY BufferAssumption DEF Index
  <1>2. buffer \in [Index -> Byte]
    BY BufferAssumption DEF Buffer_Init
  <1>3. <<>> \in Array
    BY BufferAssumption DEF Array
  <1> QED BY <1>1, <1>2, <1>3 DEF Buffer_Init, TypeOK

\* Every call of buffer.c keeps front and rear inside the array.
LEMMA NextTypeOK == TypeOK /\ [Next]_vars => TypeOK'
  <1> SUFFICES ASSUME TypeOK, [Next]_vars PROVE TypeOK'
    OBVIOUS
  <1> USE DEF TypeOK
  <1>0. Buffer_Size \in Index
    BY AheadLemma DEF Buffer_Size
  <1>1. ASSUME NEW data \in Array, Buffer_Puts(data) PROVE TypeOK'
    <2>0. Len(data) \in Nat /\ MaxSize \in Nat /\ Buffer_Size \in Nat
      BY <1>0, ArrayLemma, BufferAssumption DEF Index
    <2>1. CASE MaxSize - Buffer_Size <= Len(data)
      <3>1. ok' = FALSE /\ UNCHANGED <<front, rear, buffer, out>>
        BY <1>1, <2>0, <2>1 DEF Buffer_Puts
      <3> QED BY <3>1
    <2>2. CASE ~(MaxSize - Buffer_Size <= Len(data))
      <3>1. /\ rear' = Step(rear, Len(data)) /\ buffer' = Written(data) 
            /\ ok' = TRUE /\ front' = front /\ out' = out
        BY <1>1, <2>2 DEF Buffer_Puts
      <3>2. Len(data) \in 0..MaxSize
        BY <1>0, <2>2, ArrayLemma, BufferAssumption DEF Index
      <3>3. rear' \in Index
        BY <3>1, <3>2, StepLemma
      <3>4. Written(data) \in [Index -> Byte]
        BY ArrayLemma DEF Written
      <3> QED BY <3>1, <3>3, <3>4
    <2> QED BY <2>1, <2>2
  <1>2. ASSUME NEW length \in 0..MaxLength, Buffer_Gets(length) PROVE TypeOK'
    <2>0. length \in Nat /\ Buffer_Size \in Nat
      BY <1>0, BufferAssumption DEF Index
    <2>1. CASE Buffer_Size < length
      <3>1. ok' = FALSE /\ UNCHANGED <<front, rear, buffer, out>>
        BY <1>2, <2>0, <2>1 DEF Buffer_Gets
      <3> QED BY <3>1
    <2>2. CASE ~(Buffer_Size < length)
      <3>1. /\ front' = Step(front, length) /\ ok' = TRUE 
            /\ out' = [k \in 1..length |-> buffer[Step(front, k)]]
            /\ rear' = rear /\ buffer' = buffer
        BY <1>2, <2>2 DEF Buffer_Gets
      <3>2. length \in 0..MaxSize
        BY <1>0, <2>2, BufferAssumption DEF Index
      <3>3. front' \in Index
        BY <3>1, <3>2, StepLemma
      <3>4. \A k \in 1..length : Step(front, k) \in Index
        BY <3>2, StepLemma, BufferAssumption
      <3>5. out' \in [1..length -> Byte]
        BY <3>1, <3>4
      <3>6. out' \in Array
        BY <3>5 DEF Array
      <3> QED BY <3>1, <3>3, <3>6
    <2> QED BY <2>1, <2>2
  <1>3. CASE Buffer_Clear
    <2>1. 0 \in Index
      BY BufferAssumption DEF Index
    <2> QED BY <1>3, <2>1 DEF Buffer_Clear
  <1>4. CASE UNCHANGED vars
    BY <1>4 DEF vars
  <1> QED BY <1>1, <1>2, <1>3, <1>4 DEF Next

\* front and rear of the ring (buffer.c) never leave the array, for any size.
THEOREM BufferTypeOK == Spec => []TypeOK
  BY InitTypeOK, NextTypeOK, PTL DEF Spec

-----------------------------------------------------------------------------
(* The ring implements BoundedFifo *)

\* The queue that the ring represents: its length and its elements.
LEMMA ContentsLemma ==
    ASSUME TypeOK
    PROVE  /\ Buffer_Size \in Index
           /\ \A k \in 1..Buffer_Size : Step(front, k) \in Index
           /\ Contents \in Seq(Byte)
           /\ Len(Contents) = Buffer_Size
  <1>1. Buffer_Size \in Index
    BY AheadLemma DEF TypeOK, Buffer_Size
  <1>2. ASSUME NEW k \in 1..Buffer_Size PROVE Step(front, k) \in Index
    <2>1. k \in 0..MaxSize
      BY <1>1, BufferAssumption DEF Index
    <2> QED BY <2>1, StepLemma DEF TypeOK
  <1>3. Buffer_Size \in Nat
    BY <1>1, BufferAssumption DEF Index
  <1>4. Contents \in [1..Buffer_Size -> Byte]
    BY <1>2 DEF Contents, TypeOK
  <1> QED BY <1>1, <1>2, <1>3, <1>4

\* A put that fits appends its bytes: the cells written are the free ones, so
\* nothing queued is overwritten wherever the ring wraps.
LEMMA PutsAppends ==
    ASSUME TypeOK, NEW data \in Array,
           MaxSize - Buffer_Size > Len(data), Buffer_Puts(data)
    PROVE  Contents' = Contents \o data
  <1> DEFINE size == Buffer_Size
             n    == Len(data)
  <1>1. /\ MaxSize \in Nat \ {0} /\ size \in Index /\ n \in Nat
        /\ front \in Index /\ rear \in Index /\ size + n < MaxSize
    BY ContentsLemma, ArrayLemma, BufferAssumption DEF TypeOK, Index
  <1>2. /\ rear' = Step(rear, n) /\ buffer' = Written(data) /\ front' = front
    BY <1>1 DEF Buffer_Puts, Index
  <1>3. size = IF front <= rear THEN rear - front ELSE rear - front + MaxSize
    BY <1>1, AheadLemma DEF Buffer_Size
  <1>4. /\ rear' = IF rear + n < MaxSize THEN rear + n ELSE rear + n - MaxSize
        /\ rear' \in Index
    <2>1. n \in 0..MaxSize
      BY <1>1 DEF Index
    <2> QED BY <1>1, <1>2, <2>1, StepLemma
  <1>5. Buffer_Size' = size + n
    <2>1. Buffer_Size' = Ahead(rear', front)
      BY <1>2 DEF Buffer_Size, Ahead
    <2>2. Buffer_Size' = IF front <= rear' THEN rear' - front ELSE rear' - front + MaxSize
      BY <1>1, <1>4, <2>1, AheadLemma
    <2> QED BY <1>1, <1>3, <1>4, <2>2 DEF Index
  <1>6. TypeOK'
    BY NextTypeOK DEF Next
  <1>7. Contents' \in Seq(Byte) /\ Len(Contents') = size + n
    <2>1. (Contents \in Seq(Byte) /\ Len(Contents) = Buffer_Size)'
      BY <1>6, ContentsLemma, PTL
    <2> QED BY <1>5, <2>1
  <1>8. Contents \o data \in Seq(Byte) /\ Len(Contents \o data) = size + n
    BY ContentsLemma, ArrayLemma, ConcatProperties
  <1>9. ASSUME NEW k \in 1..(size + n)
        PROVE  Contents'[k] = (Contents \o data)[k]
    <2>1. k \in 0..MaxSize
      BY <1>1 DEF Index
    <2>2. /\ Step(front, k) = IF front + k < MaxSize THEN front + k ELSE front + k - MaxSize
          /\ Step(front, k) \in Index
      BY <1>1, <2>1, StepLemma
    <2>3. Contents'[k] = buffer'[Step(front, k)]
      BY <1>2, <1>5 DEF Contents, Step
    <2> DEFINE cell == Step(front, k)
    <2>4. Ahead(cell, rear) = IF rear <= cell THEN cell - rear ELSE cell - rear + MaxSize
      BY <1>1, <2>2, AheadLemma
    <2>5. Contents'[k] = IF Ahead(cell, rear) \in 1..n
                         THEN data[Ahead(cell, rear)] ELSE buffer[cell]
      BY <1>2, <2>2, <2>3 DEF Written
    <2>6. (Contents \o data)[k] = IF k <= size THEN Contents[k] ELSE data[k - size]
      BY ContentsLemma, ArrayLemma, ConcatProperties
    <2>7. CASE k <= size
      <3>1. Contents[k] = buffer[cell]
        BY <2>7 DEF Contents
      <3>2. Ahead(cell, rear) \notin 1..n
        BY <1>1, <1>3, <2>2, <2>4, <2>7 DEF Index
      <3> QED BY <2>5, <2>6, <2>7, <3>1, <3>2
    <2>8. CASE ~(k <= size)
      <3>1. Ahead(cell, rear) = k - size /\ k - size \in 1..n
        BY <1>1, <1>3, <2>2, <2>4, <2>8 DEF Index
      <3> QED BY <2>5, <2>6, <2>8, <3>1
    <2> QED BY <2>7, <2>8
  <1> HIDE DEF size, n
  <1> QED BY <1>7, <1>8, <1>9, SeqEqual

\* A get that succeeds returns the oldest bytes and leaves the others.
LEMMA GetsRemoves ==
    ASSUME TypeOK, NEW length \in 0..MaxLength,
           Buffer_Size >= length, Buffer_Gets(length)
    PROVE  /\ out' = SubSeq(Contents, 1, length)
           /\ Contents' = SubSeq(Contents, length + 1, Len(Contents))
  <1> DEFINE size == Buffer_Size
  <1>1. /\ MaxSize \in Nat \ {0} /\ size \in Index /\ length \in Nat
        /\ front \in Index /\ rear \in Index /\ length <= size
    BY ContentsLemma, BufferAssumption DEF TypeOK, Index
  <1>2. /\ front' = Step(front, length)
        /\ out' = [k \in 1..length |-> buffer[Step(front, k)]]
        /\ rear' = rear /\ buffer' = buffer
    BY <1>1 DEF Buffer_Gets, Index
  <1>3. size = IF front <= rear THEN rear - front ELSE rear - front + MaxSize
    BY <1>1, AheadLemma DEF Buffer_Size
  <1>4. /\ front' = IF front + length < MaxSize THEN front + length ELSE front + length - MaxSize
        /\ front' \in Index
    <2>1. length \in 0..MaxSize
      BY <1>1 DEF Index
    <2> QED BY <1>1, <1>2, <2>1, StepLemma
  <1>5. Buffer_Size' = size - length
    <2>1. Buffer_Size' = Ahead(rear, front')
      BY <1>2 DEF Buffer_Size, Ahead
    <2>2. Buffer_Size' = IF front' <= rear THEN rear - front' ELSE rear - front' + MaxSize
      BY <1>1, <1>4, <2>1, AheadLemma
    <2> QED BY <1>1, <1>3, <1>4, <2>2 DEF Index
  <1>6. Contents \in Seq(Byte) /\ Len(Contents) = size
    BY ContentsLemma
  <1>7. out' = SubSeq(Contents, 1, length)
    BY <1>1, <1>2, <1>6 DEF Contents, Index
  <1>8. Contents' = SubSeq(Contents, length + 1, Len(Contents))
    <2>1. Contents' = [k \in 1..(size - length) |-> buffer[Step(front', k)]]
      BY <1>2, <1>5 DEF Contents, Step
    <2>2. SubSeq(Contents, length + 1, size) =
              [k \in 1..(size - length) |-> Contents[length + k]]
      BY <1>1, <1>6 DEF Index
    <2>3. ASSUME NEW k \in 1..(size - length)
          PROVE  buffer[Step(front', k)] = Contents[length + k]
      <3>1. length + k \in 1..size /\ k \in 0..MaxSize /\ length + k \in 0..MaxSize
        BY <1>1 DEF Index
      <3>2. Step(front', k) = IF front' + k < MaxSize THEN front' + k ELSE front' + k - MaxSize
        BY <1>4, <3>1, StepLemma
      <3>3. Step(front, length + k) = IF front + (length + k) < MaxSize
                                      THEN front + (length + k)
                                      ELSE front + (length + k) - MaxSize
        BY <1>1, <3>1, StepLemma
      <3>4. Step(front', k) = Step(front, length + k)
        BY <1>1, <1>4, <3>1, <3>2, <3>3 DEF Index
      <3> QED BY <3>1, <3>4 DEF Contents
    <2> QED BY <1>6, <2>1, <2>2, <2>3
  <1> QED BY <1>7, <1>8

\* Every step of the ring is a step of the queue, or leaves it as it was.
LEMMA StepRefines == TypeOK /\ [Next]_vars => [Fifo!Next]_(Fifo!vars)
  <1> SUFFICES ASSUME TypeOK, [Next]_vars PROVE [Fifo!Next]_(Fifo!vars)
    OBVIOUS
  <1>0. /\ MaxSize \in Nat \ {0} /\ Buffer_Size \in Nat
        /\ Contents \in Seq(Byte) /\ Len(Contents) = Buffer_Size
    BY ContentsLemma, BufferAssumption DEF Index
  <1>1. ASSUME NEW data \in Array, Buffer_Puts(data) PROVE Fifo!Next
    <2>0. Len(data) \in Nat /\ data \in Fifo!Array
      BY ArrayLemma DEF Array, Fifo!Array
    <2>1. CASE MaxSize - Buffer_Size > Len(data)
      <3>1. Contents' = Contents \o data
        BY <1>1, <2>1, PutsAppends
      <3>2. out' = out /\ ok' = TRUE
        BY <1>0, <1>1, <2>0, <2>1 DEF Buffer_Puts
      <3>3. Len(Contents) + Len(data) <= MaxSize - 1
        BY <1>0, <2>0, <2>1
      <3>4. Fifo!Puts(data)
        BY <3>1, <3>2, <3>3 DEF Fifo!Puts
      <3> QED BY <2>0, <3>4 DEF Fifo!Next
    <2>2. CASE ~(MaxSize - Buffer_Size > Len(data))
      <3>1. ok' = FALSE /\ UNCHANGED <<front, rear, buffer, out>>
        BY <1>0, <1>1, <2>0, <2>2 DEF Buffer_Puts
      <3>2. Contents' = Contents
        BY <3>1 DEF Contents, Buffer_Size, Ahead, Step
      <3>3. Len(Contents) + Len(data) > MaxSize - 1
        BY <1>0, <2>0, <2>2
      <3>4. Fifo!Puts(data)
        BY <3>1, <3>2, <3>3 DEF Fifo!Puts
      <3> QED BY <2>0, <3>4 DEF Fifo!Next
    <2> QED BY <2>1, <2>2
  <1>2. ASSUME NEW length \in 0..MaxLength, Buffer_Gets(length) PROVE Fifo!Next
    <2>0. length \in Nat
      BY BufferAssumption
    <2>1. CASE Buffer_Size >= length
      <3>1. /\ out' = SubSeq(Contents, 1, length)
            /\ Contents' = SubSeq(Contents, length + 1, Len(Contents))
        BY <1>2, <2>1, GetsRemoves
      <3>2. ok' = TRUE /\ length <= Len(Contents)
        BY <1>0, <1>2, <2>0, <2>1 DEF Buffer_Gets
      <3>3. Fifo!Gets(length)
        BY <3>1, <3>2 DEF Fifo!Gets
      <3> QED BY <3>3 DEF Fifo!Next
    <2>2. CASE ~(Buffer_Size >= length)
      <3>1. ok' = FALSE /\ UNCHANGED <<front, rear, buffer, out>>
        BY <1>0, <1>2, <2>0, <2>2 DEF Buffer_Gets
      <3>2. Contents' = Contents
        BY <3>1 DEF Contents, Buffer_Size, Ahead, Step
      <3>3. length > Len(Contents)
        BY <1>0, <2>0, <2>2
      <3>4. Fifo!Gets(length)
        BY <3>1, <3>2, <3>3 DEF Fifo!Gets
      <3> QED BY <3>4 DEF Fifo!Next
    <2> QED BY <2>1, <2>2
  <1>3. CASE Buffer_Clear
    <2>1. front' = 0 /\ rear' = 0 /\ ok' = ok /\ out' = out
      BY <1>3 DEF Buffer_Clear
    <2>2. 0 \in Index
      BY <1>0 DEF Index
    <2>3. Buffer_Size' = 0
      BY <1>0, <2>1, <2>2, AheadLemma DEF Buffer_Size, Ahead
    <2>4. Contents' = <<>>
      BY <2>3 DEF Contents
    <2>5. Fifo!Clear
      BY <2>1, <2>4 DEF Fifo!Clear
    <2> QED BY <2>5 DEF Fifo!Next
  <1>4. CASE UNCHANGED vars
    BY <1>4 DEF vars, Fifo!vars, Contents, Buffer_Size, Ahead, Step
  <1> QED BY <1>1, <1>2, <1>3, <1>4 DEF Next

\* buffer.c implements the bounded queue that gps.c relies on, for every
\* size of the ring: all-or-nothing puts and gets in first-in first-out order.
THEOREM BufferImplementsFifo == Spec => FifoSpec
  <1>1. Buffer_Init => Fifo!Init
    <2> SUFFICES ASSUME Buffer_Init PROVE Fifo!Init
      OBVIOUS
    <2>1. 0 \in Index /\ MaxSize \in Nat \ {0}
      BY BufferAssumption DEF Index
    <2>2. Buffer_Size = 0
      BY <2>1, AheadLemma DEF Buffer_Init, Buffer_Size
    <2>3. Contents = <<>>
      BY <2>2 DEF Contents
    <2> QED BY <2>3 DEF Buffer_Init, Fifo!Init
  <1> QED BY <1>1, BufferTypeOK, StepRefines, PTL DEF Spec, FifoSpec, Fifo!Spec
-----------------------------------------------------------------------------
(* Buffer_Query returns the first occurrence.  The scan is a recursive     *)
(* function: its existence and its invariant are shown by induction over   *)
(* the cells, stated with sets so that the provers can use it.             *)

\* Induction over the cells that the loop of Buffer_Query passes: a set that
\* has 0 and with each k below n also k + 1 has every number up to n.
LEMMA Induction ==
    ASSUME NEW n \in Nat, NEW S, 0 \in S, \A k \in 0..(n - 1) : k \in S => k + 1 \in S
    PROVE  \A k \in 0..n : k \in S
  <1> DEFINE R == {p \in Nat \X Nat : p[1] < p[2]}
             T == {k \in 0..n : k \notin S}
  <1> SUFFICES ASSUME T # {} PROVE FALSE
    OBVIOUS
  <1>1. IsWellFoundedOn(R, Nat)
    BY NatLessThanWellFounded, Zenon DEF OpToRel
  <1>2. T \subseteq Nat
    OBVIOUS
  <1>3. PICK i \in T : \A j \in T : ~(<<j, i>> \in R)
    <2> HIDE DEF R, T
    <2> QED BY <1>1, <1>2, WFMin, Zenon
  <1>4. i \in 1..n /\ i \notin S /\ i - 1 \in 0..(n - 1)
    OBVIOUS
  <1>5. i - 1 \notin S
    BY <1>4
  <1>6. i - 1 \in T /\ <<i - 1, i>> \in R
    BY <1>4, <1>5
  <1> QED BY <1>3, <1>6

\* What the loop of Buffer_Query does to its locals: the scan before the first
\* cell and after each following one.
ScanOf(f, pattern, startPosition, size) ==
    f = [k \in 0..size |->
            IF k = 0 THEN Restart
            ELSE QueryStep(pattern, f[k - 1], Step(startPosition, k - 1))]

\* The loop of Buffer_Query has a result for every number of cells.
LEMMA ScanExists ==
    ASSUME NEW pattern, NEW startPosition, NEW size \in Nat
    PROVE  \E f : ScanOf(f, pattern, startPosition, size)
  <1> DEFINE S == {n \in 0..size : \E f : ScanOf(f, pattern, startPosition, n)}
             Q(a, k) == QueryStep(pattern, a, Step(startPosition, k - 1))
             Rec(f, n) == f = [k \in 0..n |-> IF k = 0 THEN Restart ELSE Q(f[k - 1], k)]
  <1>0. \A f, n : ScanOf(f, pattern, startPosition, n) <=> Rec(f, n)
    BY DEF ScanOf
  <1> HIDE DEF Q
  <1>1. 0 \in S
    <2>1. Rec([k \in 0..0 |-> Restart], 0)
      OBVIOUS
    <2> HIDE DEF Rec
    <2>2. \E f : ScanOf(f, pattern, startPosition, 0)
      BY <1>0, <2>1, Zenon
    <2> QED BY <2>2
  <1>2. ASSUME NEW n \in 0..(size - 1), n \in S PROVE n + 1 \in S
    <2>1. PICK f : Rec(f, n)
      BY <1>0, <1>2
    <2> DEFINE g == [k \in 0..(n + 1) |-> IF k = n + 1 THEN Q(f[n], n + 1) ELSE f[k]]
    <2>2. ASSUME NEW k \in 0..(n + 1)
          PROVE  g[k] = IF k = 0 THEN Restart ELSE Q(g[k - 1], k)
      <3>1. CASE k = n + 1
        BY <3>1
      <3>2. CASE k # n + 1
        <4>1. k \in 0..n /\ g[k] = f[k]
          BY <3>2
        <4>2. f[k] = IF k = 0 THEN Restart ELSE Q(f[k - 1], k)
          BY <2>1, <4>1
        <4>3. k # 0 => g[k - 1] = f[k - 1]
          BY <4>1
        <4> QED BY <4>1, <4>2, <4>3
      <3> QED BY <3>1, <3>2
    <2>3. Rec(g, n + 1)
      <3> DEFINE h == [k \in 0..(n + 1) |-> IF k = 0 THEN Restart ELSE Q(g[k - 1], k)]
      <3>1. \A k \in 0..(n + 1) : g[k] = h[k]
        BY <2>2
      <3>2. g = h
        BY <3>1
      <3> QED BY <3>2
    <2>4. \E e : ScanOf(e, pattern, startPosition, n + 1)
      <3> HIDE DEF Rec, g
      <3> QED BY <1>0, <2>3, Zenon
    <2>5. n + 1 \in 0..size
      OBVIOUS
    <2> QED BY <2>4, <2>5, Zenon
  <1>3. size \in S
    <2> HIDE DEF S
    <2> QED BY <1>1, <1>2, Induction
  <1> QED BY <1>3

\* The scan of Buffer_Query, as the value of the recursive definition.
LEMMA QueryLemma ==
    ASSUME NEW pattern, NEW startPosition,
           Ahead(rear + 1, startPosition) \in Nat
    PROVE  \E f : /\ ScanOf(f, pattern, startPosition, Ahead(rear + 1, startPosition))
                  /\ Buffer_Query(pattern, startPosition) =
                         IF f[Ahead(rear + 1, startPosition)].matched = Len(pattern)
                         THEN f[Ahead(rear + 1, startPosition)].at ELSE NoIndex
  <1> DEFINE size == Ahead(rear + 1, startPosition)
             f == CHOOSE g : ScanOf(g, pattern, startPosition, size)
  <1>1. ScanOf(f, pattern, startPosition, size)
    <2>1. \E g : ScanOf(g, pattern, startPosition, size)
      <3>1. size \in Nat
        OBVIOUS
      <3> HIDE DEF size
      <3> QED BY <3>1, ScanExists
    <2> HIDE DEF size
    <2> QED BY <2>1, Zenon
  <1>2. Buffer_Query(pattern, startPosition) =
            IF f[size].matched = Len(pattern) THEN f[size].at ELSE NoIndex
    BY Zenon DEF Buffer_Query, ScanOf
  <1> HIDE DEF f
  <1> QED BY <1>1, <1>2
\* A query from place b + 1 of the queue passes the cells of the bytes that are
\* left from there on, the k-th of them at Step(front, b + k), wherever the ring
\* wraps.
LEMMA QueryCells ==
    ASSUME TypeOK, NEW b \in 0..Buffer_Size
    PROVE  /\ Buffer_Size \in Nat
           /\ Ahead(rear + 1, Place(b + 1)) = Buffer_Size - b
           /\ \A k \in 1..(Buffer_Size - b) : Step(Place(b + 1), k - 1) = Step(front, b + k)
  <1> DEFINE start == Place(b + 1)
  <1>1. MaxSize \in Nat \ {0} /\ front \in Index /\ rear \in Index
    BY BufferAssumption DEF TypeOK
  <1>2. /\ Buffer_Size = IF front <= rear THEN rear - front ELSE rear - front + MaxSize
        /\ Buffer_Size \in Index
    BY <1>1, AheadLemma DEF Buffer_Size
  <1>3. b \in Nat /\ b + 1 \in 0..MaxSize /\ (b + 1) - 1 = b /\ b \in 0..MaxSize
    BY <1>1, <1>2 DEF Index
  <1>4. /\ start = IF front + b + 1 < MaxSize THEN front + b + 1 ELSE front + b + 1 - MaxSize
        /\ start \in Index
    <2> DEFINE first == Buffer_StartPostion
    <2>1. 1 \in 0..MaxSize
      BY <1>1
    <2>2. /\ first = IF front + 1 < MaxSize THEN front + 1 ELSE front + 1 - MaxSize
          /\ first \in Index
      BY <1>1, <2>1, StepLemma DEF Buffer_StartPostion
    <2>3. start = Step(first, b)
      BY <1>3 DEF Place
    <2> HIDE DEF first, start
    <2>4. /\ start = IF first + b < MaxSize THEN first + b ELSE first + b - MaxSize
          /\ start \in Index
      BY <1>3, <2>2, <2>3, StepLemma
    <2> QED BY <1>1, <1>2, <1>3, <2>2, <2>4 DEF Index
  <1>5. Ahead(rear + 1, start) = Buffer_Size - b
    <2> HIDE DEF start
    <2> DEFINE x == (rear + 1) - start + MaxSize
    <2>1. x \in Int /\ 0 <= x /\ x <= 2 * MaxSize
      BY <1>1, <1>4 DEF Index
    <2>2. Ahead(rear + 1, start) = x % MaxSize
      BY Zenon DEF Ahead
    <2>3. CASE x < 2 * MaxSize
      <3>1. x % MaxSize = IF x < MaxSize THEN x ELSE x - MaxSize
        <4> HIDE DEF x
        <4> QED BY <1>1, <2>1, <2>3, ModLemma
      <3> QED BY <1>1, <1>2, <1>3, <1>4, <2>2, <2>3, <3>1 DEF Index
    <2>4. CASE x = 2 * MaxSize
      <3>1. x % MaxSize = 0
        <4> HIDE DEF x
        <4> QED BY <1>1, <2>4, ModTwice
      <3>2. start = 0 /\ rear = MaxSize - 1
        BY <1>1, <1>4, <2>4 DEF Index
      <3>3. Buffer_Size - b = 0
        BY <1>1, <1>2, <1>3, <1>4, <3>2 DEF Index
      <3> QED BY <2>2, <3>1, <3>3
    <2> QED BY <1>1, <2>1, <2>3, <2>4
  <1>6. ASSUME NEW k \in 1..(Buffer_Size - b) PROVE Step(start, k - 1) = Step(front, b + k)
    <2> HIDE DEF start
    <2>1. b + k \in 0..MaxSize /\ k - 1 \in 0..MaxSize
      BY <1>1, <1>2, <1>3 DEF Index
    <2>2. Step(start, k - 1) = IF start + (k - 1) < MaxSize THEN start + (k - 1)
                               ELSE start + (k - 1) - MaxSize
      BY <1>4, <2>1, StepLemma
    <2>3. Step(front, b + k) = IF front + (b + k) < MaxSize THEN front + (b + k)
                               ELSE front + (b + k) - MaxSize
      BY <1>1, <2>1, StepLemma
    <2> QED BY <1>1, <1>2, <1>3, <1>4, <2>1, <2>2, <2>3 DEF Index
  <1> QED BY <1>1, <1>2, <1>5, <1>6 DEF Index

\* The first occurrence is the one no earlier one precedes.
LEMMA FirstIs ==
    ASSUME NEW p, NEW from \in Nat, NEW s \in from..Buffer_Size, Buffer_Size \in Nat,
           Occurs(p, s), \A j \in from..(s - 1) : ~Occurs(p, j)
    PROVE  FirstOccurrence(p, from) = Step(front, s)
  <1> DEFINE First(k) == Occurs(p, k) /\ \A j \in from..(k - 1) : ~Occurs(p, j)
             c == CHOOSE k \in from..Buffer_Size : First(k)
  <1>1. c \in from..Buffer_Size /\ First(c)
    <2>1. First(s)
      OBVIOUS
    <2> HIDE DEF First
    <2> QED BY <2>1
  <1>2. c = s
    <2> HIDE DEF c
    <2>1. ~(c < s)
      BY <1>1
    <2>2. ~(s < c)
      BY <1>1
    <2> QED BY <1>1, <2>1, <2>2
  <1>3. FirstOccurrence(p, from) = Step(front, c)
    BY Zenon DEF FirstOccurrence
  <1> QED BY <1>2, <1>3

\* A scan from place b + 1 that has passed the place k holds the place s of a
\* partial match: its bytes agree with the pattern, it ends at place k unless
\* it is complete, and no occurrence begins between b and it.
ScanInv(p, state, b, k) ==
    /\ state.matched \in 0..Len(p)
    /\ \E s \in (b + 1)..(k + 1) :
          /\ s + state.matched <= k + 1
          /\ state.matched < Len(p) => s + state.matched = k + 1
          /\ state.matched > 0 => state.at = Step(front, s)
          /\ \A i \in 1..state.matched : Contents[s + i - 1] = p[i]
          /\ \A j \in (b + 1)..(s - 1) : ~Occurs(p, j)

\* One turn of the loop of Buffer_Query keeps the invariant.  A mismatch after
\* m bytes loses no occurrence that began inside them, as none of them but the
\* first is the first byte of the pattern.
LEMMA QueryStepInv ==
    ASSUME TypeOK, NEW p \in SearchPattern, NEW state, NEW b \in Nat,
           NEW k \in b..(Buffer_Size - 1),
           ScanInv(p, state, b, k)
    PROVE  ScanInv(p, QueryStep(p, state, Step(front, k + 1)), b, k + 1)
  <1> DEFINE cell == Step(front, k + 1)
             m    == state.matched
             L    == Len(p)
             c    == buffer[cell]
             new  == QueryStep(p, state, cell)
  <1>1. /\ Len(p) \in Nat /\ Len(p) > 0 /\ \A j \in 2..Len(p) : p[j] # p[1]
        /\ Buffer_Size \in Nat /\ Len(Contents) = Buffer_Size
        /\ k \in Nat /\ k + 1 \in 1..Buffer_Size
    BY ArrayLemma, ContentsLemma, BufferAssumption DEF SearchPattern, Index
  <1>2. c = Contents[k + 1]
    BY <1>1 DEF Contents
  <1>3. m \in 0..L
    BY DEF ScanInv
  <1>4. PICK s \in (b + 1)..(k + 1) :
            /\ s + m <= k + 1
            /\ m < L => s + m = k + 1
            /\ m > 0 => state.at = Step(front, s)
            /\ \A i \in 1..m : Contents[s + i - 1] = p[i]
            /\ \A j \in (b + 1)..(s - 1) : ~Occurs(p, j)
    BY Zenon DEF ScanInv
  <1>5. CASE m = L
    <2>1. new = state
      BY <1>5 DEF QueryStep
    <2>2. s \in (b + 1)..((k + 1) + 1) /\ s + m <= (k + 1) + 1 /\ ~(m < L)
      BY <1>1, <1>3, <1>4, <1>5
    <2>3. ScanInv(p, state, b, k + 1)
      BY <1>3, <1>4, <2>2, Zenon DEF ScanInv
    <2> QED BY <2>1, <2>3
  <1>6. CASE m < L /\ c = p[m + 1]
    <2> DEFINE at == IF m = 0 THEN cell ELSE state.at
    <2>1. new = [matched |-> m + 1, at |-> at]
      BY <1>1, <1>3, <1>6 DEF QueryStep, Longer, Restart
    <2>2. new.matched = m + 1 /\ new.at = at
      BY <2>1
    <2>3. at = Step(front, s)
      BY <1>1, <1>3, <1>4, <1>6
    <2>4. ASSUME NEW i \in 1..(m + 1) PROVE Contents[s + i - 1] = p[i]
      <3>1. CASE i = m + 1
        <4>1. s + i - 1 = k + 1
          <5> HIDE DEF m, L
          <5> QED BY <1>1, <1>3, <1>4, <1>6, <3>1 DEF L
        <4> HIDE DEF m
        <4> QED BY <1>2, <1>6, <3>1, <4>1
      <3>2. CASE i # m + 1
        <4>1. i \in 1..m
          BY <1>1, <1>3, <3>2
        <4> QED BY <1>4, <4>1
      <3> QED BY <3>1, <3>2
    <2>5. m + 1 \in 0..L /\ s \in (b + 1)..((k + 1) + 1) /\ s + (m + 1) = (k + 1) + 1
      <3> HIDE DEF m, L
      <3> QED BY <1>1, <1>3, <1>4, <1>6 DEF L
    <2> HIDE DEF new, at, m
    <2>6. ScanInv(p, new, b, k + 1)
      BY <1>1, <1>4, <2>2, <2>3, <2>4, <2>5 DEF ScanInv
    <2> QED BY <2>6 DEF new
  <1>7. ASSUME m < L, c # p[m + 1]
        PROVE  \A j \in (b + 1)..k : ~Occurs(p, j)
    <2> SUFFICES ASSUME NEW j \in (b + 1)..k, j >= s, Occurs(p, j) PROVE FALSE
      BY <1>1, <1>4
    <2>1. \A i \in 1..L : Contents[j + i - 1] = p[i]
      BY DEF Occurs
    <2>2. CASE j = s
      <3>1. m + 1 \in 1..L /\ j + (m + 1) - 1 = k + 1
        BY <1>1, <1>3, <1>4, <1>7, <2>2
      <3> QED BY <1>2, <1>7, <2>1, <3>1
    <2>3. CASE j > s
      <3>1. /\ j - s + 1 \in 1..m /\ j - s + 1 \in 2..L 
            /\ s + (j - s + 1) - 1 = j /\ 1 \in 1..L /\ j + 1 - 1 = j
        BY <1>1, <1>3, <1>4, <1>7, <2>3
      <3>2. Contents[j] = p[1]
        BY <2>1, <3>1
      <3>3. Contents[j] = p[j - s + 1]
        BY <1>4, <3>1
      <3> QED BY <1>1, <3>1, <3>2, <3>3
    <2> QED BY <1>1, <1>4, <2>2, <2>3
  <1>8. CASE m < L /\ c # p[m + 1] /\ c = p[1]
    <2>1. new = [matched |-> 1, at |-> cell]
      BY <1>1, <1>3, <1>8 DEF QueryStep, Longer, Restart
    <2>2. new.matched = 1 /\ new.at = cell
      BY <2>1
    <2>3. \A j \in (b + 1)..k : ~Occurs(p, j)
      BY <1>7, <1>8
    <2>4. /\ 1 \in 0..L /\ k + 1 \in (b + 1)..((k + 1) + 1) /\ (k + 1) - 1 = k
      BY <1>1
    <2>5. ASSUME NEW i \in 1..1 PROVE Contents[(k + 1) + i - 1] = p[i]
      <3>1. i = 1 /\ (k + 1) + i - 1 = k + 1
        BY <1>1
      <3> QED BY <1>2, <1>8, <3>1
    <2> HIDE DEF new
    <2>6. ScanInv(p, new, b, k + 1)
      BY <1>1, <2>2, <2>3, <2>4, <2>5 DEF ScanInv
    <2> QED BY <2>6 DEF new
  <1>9. CASE m < L /\ c # p[m + 1] /\ c # p[1]
    <2>1. new = [matched |-> 0, at |-> NoIndex]
      BY <1>1, <1>3, <1>9 DEF QueryStep, Longer, Restart
    <2>2. new.matched = 0
      BY <2>1
    <2>3. \A j \in (b + 1)..(k + 1) : ~Occurs(p, j)
      <3>1. \A j \in (b + 1)..k : ~Occurs(p, j)
        BY <1>7, <1>9
      <3>2. ~Occurs(p, k + 1)
        <4> SUFFICES ASSUME Occurs(p, k + 1) PROVE FALSE
          OBVIOUS
        <4>1. 1 \in 1..L /\ (k + 1) + 1 - 1 = k + 1
          BY <1>1
        <4>2. Contents[(k + 1) + 1 - 1] = p[1]
          BY <4>1 DEF Occurs
        <4> QED BY <1>2, <1>9, <4>1, <4>2
      <3> QED BY <1>1, <3>1, <3>2
    <2>4. /\ 0 \in 0..L /\ k + 2 \in (b + 1)..((k + 1) + 1) /\ (k + 2) - 1 = k + 1
          /\ (k + 2) + 0 = (k + 1) + 1
      BY <1>1
    <2> HIDE DEF new
    <2>5. ScanInv(p, new, b, k + 1)
      BY <1>1, <2>2, <2>3, <2>4 DEF ScanInv
    <2> QED BY <2>5 DEF new
  <1> QED BY <1>1, <1>3, <1>5, <1>6, <1>8, <1>9
\* What Buffer_Query found from place b + 1 on when its loop has ended: the
\* first occurrence, if there is one in the rest of the queue.
LEMMA QueryResult ==
    ASSUME TypeOK, NEW p \in SearchPattern, NEW b \in 0..Buffer_Size
    PROVE  \/ /\ Buffer_Query(p, Place(b + 1)) = NoIndex
              /\ \A j \in (b + 1)..Buffer_Size : ~Occurs(p, j)
           \/ \E s \in (b + 1)..Buffer_Size :
                 /\ Buffer_Query(p, Place(b + 1)) = Step(front, s)
                 /\ Occurs(p, s)
                 /\ \A j \in (b + 1)..(s - 1) : ~Occurs(p, j)
  <1> DEFINE start == Place(b + 1)
             whole == Buffer_Size
             size  == whole - b
  <1>1. /\ whole \in Nat /\ b \in Nat /\ size \in Nat /\ b + size = whole
        /\ Ahead(rear + 1, start) = size /\ Len(Contents) = whole
        /\ \A k \in 1..size : Step(start, k - 1) = Step(front, b + k)
    BY QueryCells, ContentsLemma
  <1>2. Len(p) \in Nat /\ Len(p) > 0
    BY ArrayLemma DEF SearchPattern
  <1>3. PICK f : /\ ScanOf(f, p, start, size)
                 /\ Buffer_Query(p, start) =
                        IF f[size].matched = Len(p) THEN f[size].at ELSE NoIndex
    <2> HIDE DEF size, start
    <2> QED BY <1>1, QueryLemma
  <1> DEFINE S == {k \in 0..size : ScanInv(p, f[k], b, b + k)}
  <1>4. 0 \in S
    <2>1. f[0] = Restart
      <3> HIDE DEF size, start
      <3> QED BY <1>1, <1>3 DEF ScanOf
    <2>2. f[0].matched = 0
      BY <2>1 DEF Restart
    <2>3. /\ 0 \in 0..Len(p) /\ b + 1 \in (b + 1)..(b + 0 + 1)
          /\ (b + 1) + 0 = b + 0 + 1 /\ (b + 1) - 1 = b
      BY <1>1, <1>2
    <2>4. ScanInv(p, f[0], b, b + 0)
      BY <1>1, <1>2, <2>2, <2>3 DEF ScanInv
    <2> HIDE DEF size
    <2> QED BY <1>1, <2>4
  <1>5. ASSUME NEW k \in 0..(size - 1), k \in S PROVE k + 1 \in S
    <2>1. /\ k + 1 \in 1..size /\ (k + 1) - 1 = k /\ k + 1 # 0 /\ k + 1 \in 0..size
          /\ b + k \in b..(whole - 1) /\ b + (k + 1) = (b + k) + 1
      BY <1>1
    <2>2. f[k + 1] = QueryStep(p, f[k], Step(start, (k + 1) - 1))
      <3> HIDE DEF start, size
      <3> QED BY <1>3, <2>1 DEF ScanOf
    <2>3. Step(start, (k + 1) - 1) = Step(front, (b + k) + 1)
      <3> HIDE DEF start, size
      <3> QED BY <1>1, <2>1
    <2>4. ScanInv(p, f[k], b, b + k)
      BY <1>5
    <2>5. ScanInv(p, f[k + 1], b, (b + k) + 1)
      BY <1>1, <2>1, <2>2, <2>3, <2>4, QueryStepInv
    <2> HIDE DEF size
    <2> QED BY <2>1, <2>5
  <1>6. ScanInv(p, f[size], b, whole)
    <2>1. size \in S
      <3>0. size \in Nat
        BY <1>1
      <3> HIDE DEF S, size
      <3>1. \A k \in 0..size : k \in S
        BY <1>4, <1>5, <3>0, Induction
      <3> QED BY <3>0, <3>1
    <2> HIDE DEF size, whole
    <2> QED BY <1>1, <2>1
  <1> DEFINE m == f[size].matched
  <1>7. PICK s \in (b + 1)..(whole + 1) :
            /\ s + m <= whole + 1
            /\ m < Len(p) => s + m = whole + 1
            /\ m > 0 => f[size].at = Step(front, s)
            /\ \A i \in 1..m : Contents[s + i - 1] = p[i]
            /\ \A j \in (b + 1)..(s - 1) : ~Occurs(p, j)
    BY <1>6, Zenon DEF ScanInv
  <1>8. m \in 0..Len(p)
    BY <1>6 DEF ScanInv
  <1> HIDE DEF m, size, whole
  <1>9. CASE m = Len(p)
    <2>1. Buffer_Query(p, start) = Step(front, s)
      BY <1>2, <1>3, <1>7, <1>9 DEF m
    <2>2. s \in (b + 1)..whole /\ s + Len(p) - 1 <= Len(Contents)
      BY <1>1, <1>2, <1>7, <1>9
    <2>3. Occurs(p, s)
      BY <1>7, <1>9, <2>2 DEF Occurs
    <2> QED BY <1>7, <2>1, <2>2, <2>3 DEF whole
  <1>10. CASE m # Len(p)
    <2>1. Buffer_Query(p, start) = NoIndex
      BY <1>3, <1>10 DEF m
    <2>2. ASSUME NEW j \in (b + 1)..whole, Occurs(p, j) PROVE FALSE
      <3>1. j + Len(p) - 1 <= whole
        BY <1>1, <2>2 DEF Occurs
      <3>2. j \in (b + 1)..(s - 1)
        BY <1>1, <1>2, <1>7, <1>8, <1>10, <3>1
      <3> QED BY <1>7, <2>2, <3>2
    <2> QED BY <2>1, <2>2 DEF whole
  <1> QED BY <1>9, <1>10

\* Buffer_Query returns the first occurrence of "VTG", "\r\n" or a header in
\* the queue from any place of it on, or -1, for every size of the ring and
\* every pattern whose first byte does not recur.
THEOREM QueryIsFirst == Spec => []QueryFindsFirst
  <1>1. TypeOK => QueryFindsFirst
    <2> SUFFICES ASSUME TypeOK, NEW p \in SearchPattern, NEW from \in 1..(Buffer_Size + 1)
                 PROVE  Buffer_Query(p, Place(from)) = FirstOccurrence(p, from)
      BY DEF QueryFindsFirst
    <2> DEFINE b == from - 1
    <2>1. Buffer_Size \in Nat
      BY ContentsLemma, BufferAssumption DEF Index
    <2>2. b \in 0..Buffer_Size /\ b + 1 = from /\ from \in Nat
      BY <2>1
    <2> HIDE DEF b
    <2>3. \/ /\ Buffer_Query(p, Place(from)) = NoIndex
             /\ \A j \in from..Buffer_Size : ~Occurs(p, j)
          \/ \E s \in from..Buffer_Size :
                /\ Buffer_Query(p, Place(from)) = Step(front, s)
                /\ Occurs(p, s)
                /\ \A j \in from..(s - 1) : ~Occurs(p, j)
      BY <2>2, QueryResult
    <2>4. CASE \A j \in from..Buffer_Size : ~Occurs(p, j)
      <3>1. FirstOccurrence(p, from) = NoIndex
        BY <2>4, Zenon DEF FirstOccurrence
      <3> QED BY <2>3, <2>4, <3>1
    <2>5. ASSUME NEW s \in from..Buffer_Size,
                 Buffer_Query(p, Place(from)) = Step(front, s),
                 Occurs(p, s), \A j \in from..(s - 1) : ~Occurs(p, j)
          PROVE  Buffer_Query(p, Place(from)) = FirstOccurrence(p, from)
      BY <2>1, <2>2, <2>5, FirstIs
    <2> QED BY <2>3, <2>4, <2>5
  <1> QED BY <1>1, BufferTypeOK, PTL

\* The Buffer_Gets of Buffer_Size2(index) + 1 bytes that GPS_Update makes for a
\* line end found at index, by a query from the header that it found before,
\* takes exactly the queue up to the end of the match, the header included, and
\* cannot fail, for every size of the ring and every place of the header.
THEOREM FrameIsWhole == Spec => []FrameEndsAtMatch
  <1>1. TypeOK => FrameEndsAtMatch
    <2> SUFFICES ASSUME TypeOK, NEW p \in SearchPattern, Len(p) = 2,
                        NEW from \in 1..Buffer_Size,
                        Buffer_Query(p, Place(from)) # NoIndex
                 PROVE  LET index == Buffer_Query(p, Place(from))
                            len   == Buffer_Size2(index) + 1
                        IN  /\ len \in (from + 1)..Buffer_Size
                            /\ SubSeq(Contents, len - 1, len) = p
                            /\ \A k \in from..(len - 2) : ~Occurs(p, k)
      BY DEF FrameEndsAtMatch
    <2> DEFINE index == Buffer_Query(p, Place(from))
               b     == from - 1
    <2>0. Buffer_Size \in Nat
      BY ContentsLemma, BufferAssumption DEF Index
    <2>1. PICK s \in from..Buffer_Size :
              /\ index = Step(front, s)
              /\ Occurs(p, s)
              /\ \A j \in from..(s - 1) : ~Occurs(p, j)
      <3>1. b \in 0..Buffer_Size /\ b + 1 = from
        BY <2>0
      <3> HIDE DEF b
      <3> QED BY <3>1, QueryResult
    <2> HIDE DEF index
    <2>2. /\ MaxSize \in Nat \ {0} /\ front \in Index /\ Buffer_Size \in Index
          /\ Contents \in Seq(Byte) /\ Len(Contents) = Buffer_Size
      BY ContentsLemma, BufferAssumption DEF TypeOK
    <2>3. s \in 0..MaxSize /\ s < MaxSize /\ s \in Nat \ {0} /\ from \in Nat /\ from <= s
      BY <2>0, <2>2 DEF Index
    <2>4. /\ index = IF front + s < MaxSize THEN front + s ELSE front + s - MaxSize
          /\ index \in Index
      BY <2>1, <2>2, <2>3, StepLemma
    <2>5. Buffer_Size2(index) = s
      <3>1. Buffer_Size2(index) = IF front <= index THEN index - front ELSE index - front + MaxSize
        BY <2>2, <2>4, AheadLemma DEF Buffer_Size2
      <3> QED BY <2>2, <2>3, <2>4, <3>1 DEF Index
    <2>6. /\ s + 1 \in (from + 1)..Buffer_Size
          /\ Contents[s] = p[1] /\ Contents[s + 1] = p[2]
      <3>1. s + Len(p) - 1 <= Len(Contents)
        BY <2>1 DEF Occurs
      <3>2. /\ 1 \in 1..Len(p) /\ 2 \in 1..Len(p)
            /\ s + 1 - 1 = s /\ s + 2 - 1 = s + 1
        BY <2>3
      <3>3. Contents[s + 1 - 1] = p[1] /\ Contents[s + 2 - 1] = p[2]
        BY <2>1, <3>2 DEF Occurs
      <3> QED BY <2>2, <2>3, <3>1, <3>2, <3>3 DEF Index
    <2>7. SubSeq(Contents, s, s + 1) = p
      <3>1. p \in Seq(Byte)
        BY ArrayLemma DEF SearchPattern
      <3>2. /\ SubSeq(Contents, s, s + 1) \in Seq(Byte)
            /\ Len(SubSeq(Contents, s, s + 1)) = 2
            /\ SubSeq(Contents, s, s + 1)[1] = Contents[s]
            /\ SubSeq(Contents, s, s + 1)[2] = Contents[s + 1]
        BY <2>2, <2>3, <2>6, SubSeqProperties DEF Index
      <3> DEFINE q == SubSeq(Contents, s, s + 1)
      <3> HIDE DEF q
      <3>3. q \in Seq(Byte) /\ Len(q) = Len(p) /\ q[1] = p[1] /\ q[2] = p[2]
        BY <2>6, <3>2 DEF q
      <3>4. q = p
        BY <3>1, <3>3, SeqEqual
      <3> QED BY <3>4 DEF q
    <2>8. (s + 1) - 1 = s /\ (s + 1) - 2 = s - 1
      BY <2>3
    <2> QED BY <2>1, <2>5, <2>6, <2>7, <2>8 DEF index
  <1> QED BY <1>1, BufferTypeOK, PTL
=============================================================================
