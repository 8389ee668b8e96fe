------------------------------- MODULE Buffer -------------------------------
(***************************************************************************)
(* firmware/libs/utils/src/buffer.c: the ring buffer that holds what the   *)
(* GPS chip sent until GPS_Update has found a whole frame in it.           *)
(*                                                                         *)
(* front is the cell last read and rear the cell last written, so          *)
(* front = rear means empty and one cell always stays unused.  An action   *)
(* is one call; the calls do not overlap here.                             *)
(***************************************************************************)
EXTENDS Integers, Sequences

CONSTANTS Byte,       \* the values a cell can hold
          Nul, Space, \* what Buffer_Init writes
          MaxSize,    \* buffer->maxSize
          MaxLength   \* bound: the longest array passed to Puts or Gets

ASSUME BufferAssumption ==
    /\ MaxSize \in Nat \ {0}
    /\ MaxLength \in Nat
    /\ Nul \in Byte
    /\ Space \in Byte

VARIABLES front, rear, buffer,
          ok,         \* what the last Puts or Gets returned
          out         \* the array the last successful Gets filled

vars == <<front, rear, buffer, ok, out>>

Index == 0..(MaxSize - 1)
Array == UNION {[1..n -> Byte] : n \in 0..MaxLength}

\* The C expression (i - j + maxSize) % maxSize: how far i is ahead of j.
Ahead(i, j) == (i - j + MaxSize) % MaxSize
\* Mutant: an index is advanced without the modulo.
StepNoWrap(i, k) == i + k
Step(i, k)  == (i + k) % MaxSize

Buffer_Size         == Ahead(rear, front)
\* Mutant: the distance is taken from the first byte, not from front.
Size2FromStart(index) == Ahead(index, front + 1)
Buffer_Size2(index) == Ahead(index, front)
Buffer_StartPostion == Step(front, 1)

Buffer_Init ==
    /\ front = 0
    /\ rear = 0
    /\ buffer = [i \in Index |-> IF i = 0 THEN Space ELSE Nul]
    /\ ok = TRUE
    /\ out = <<>>

\* The copy loop: cell rear + k gets data[k].
Written(data) ==
    [i \in Index |-> LET k == Ahead(i, rear) IN
                     IF k \in 1..Len(data) THEN data[k] ELSE buffer[i]]

\* Mutant: a put may fill the cell that must stay unused.
PutsFull(data) ==
    \/ /\ MaxSize - Buffer_Size < Len(data)
       /\ ok' = FALSE
       /\ UNCHANGED <<front, rear, buffer, out>>
    \/ /\ MaxSize - Buffer_Size >= Len(data)
       /\ rear' = Step(rear, Len(data))
       /\ buffer' = Written(data)
       /\ ok' = TRUE
       /\ UNCHANGED <<front, out>>

Buffer_Puts(data) ==
    \/ /\ MaxSize - Buffer_Size <= Len(data)
       /\ ok' = FALSE
       /\ UNCHANGED <<front, rear, buffer, out>>
    \/ /\ MaxSize - Buffer_Size > Len(data)
       /\ rear' = Step(rear, Len(data))
       /\ buffer' = Written(data)
       /\ ok' = TRUE
       /\ UNCHANGED <<front, out>>

Buffer_Gets(length) ==
    \/ /\ Buffer_Size < length
       /\ ok' = FALSE
       /\ UNCHANGED <<front, rear, buffer, out>>
    \/ /\ Buffer_Size >= length
       /\ front' = Step(front, length)
       /\ out' = [k \in 1..length |-> buffer[Step(front, k)]]
       /\ ok' = TRUE
       /\ UNCHANGED <<rear, buffer>>

Buffer_Clear ==
    /\ front' = 0
    /\ rear' = 0
    /\ UNCHANGED <<buffer, ok, out>>

Next == \/ \E data \in Array : Buffer_Puts(data)
        \/ \E length \in 0..MaxLength : Buffer_Gets(length)
        \/ Buffer_Clear

Spec == Buffer_Init /\ [][Next]_vars

-----------------------------------------------------------------------------
(* Buffer_Query: one pass over the cells from startPosition to rear.  The  *)
(* scan keeps how many bytes of the pattern match and where they began; a  *)
(* mismatch restarts it, with the mismatching byte as a first byte.        *)

NoIndex == -1

Longer(scan, index) ==
    [matched |-> scan.matched + 1,
     at      |-> IF scan.matched = 0 THEN index ELSE scan.at]
Restart == [matched |-> 0, at |-> NoIndex]

\* Mutant: after a mismatch the scan goes on with the next byte.
QueryStepSkips(pattern, scan, index) ==
    IF scan.matched = Len(pattern) THEN scan
    ELSE IF buffer[index] = pattern[scan.matched + 1] THEN Longer(scan, index)
    ELSE Restart

QueryStep(pattern, scan, index) ==
    IF scan.matched = Len(pattern) THEN scan
    ELSE IF buffer[index] = pattern[scan.matched + 1] THEN Longer(scan, index)
    ELSE IF buffer[index] = pattern[1] THEN Longer(Restart, index)
    ELSE Restart

Buffer_Query(pattern, startPosition) ==
    LET size == Ahead(rear + 1, startPosition)
        scan[k \in 0..size] ==
            IF k = 0 THEN Restart
            ELSE QueryStep(pattern, scan[k - 1], Step(startPosition, k - 1))
    IN  IF scan[size].matched = Len(pattern) THEN scan[size].at ELSE NoIndex

-----------------------------------------------------------------------------
(* Properties *)

\* The bytes a reader will get, oldest first.
Contents == [k \in 1..Buffer_Size |-> buffer[Step(front, k)]]

\* front and rear stay inside the array and every cell holds a byte.
TypeOK ==
    /\ front \in Index
    /\ rear \in Index
    /\ buffer \in [Index -> Byte]
    /\ ok \in BOOLEAN
    /\ out \in Array

\* The ring (buffer.c) is a first-in first-out queue of MaxSize - 1 bytes: a
\* put that returns true appended all its bytes, a get that returns true
\* removed the oldest ones, one that returns false changed nothing.
Fifo == INSTANCE BoundedFifo WITH contents <- Contents, Capacity <- MaxSize - 1
FifoSpec == Fifo!Spec

\* Where the pattern first occurs in the queue from place from on: the cell,
\* or NoIndex.
Occurs(pattern, k) ==
    /\ k + Len(pattern) - 1 <= Len(Contents)
    /\ \A j \in 1..Len(pattern) : Contents[k + j - 1] = pattern[j]
FirstOccurrence(pattern, from) ==
    IF \E k \in from..Buffer_Size : Occurs(pattern, k)
    THEN Step(front, CHOOSE k \in from..Buffer_Size :
                        /\ Occurs(pattern, k)
                        /\ \A j \in from..(k - 1) : ~Occurs(pattern, j))
    ELSE NoIndex

\* The patterns whose first byte does not recur, as in every call of gps.c
\* ("VTG", "\r\n", "$PGKC", aa f0): the restart of the scan skips no match.
SearchPattern == {p \in Array : Len(p) > 0 /\ \A j \in 2..Len(p) : p[j] # p[1]}

\* The cell of the k-th byte of the queue, counted from Buffer_StartPostion.
Place(k) == Step(Buffer_StartPostion, k - 1)

\* Buffer_Query, from Buffer_StartPostion or from any later place of the queue
\* (a header found before), wherever the ring wraps and whatever stale bytes
\* lie outside front..rear, returns the cell of the first occurrence from there
\* on inside the queue, or -1 when there is none.  The place after the last
\* byte, from which nothing can be found, is a start too.
QueryFindsFirst ==
    \A p \in SearchPattern : \A from \in 1..(Buffer_Size + 1) :
        Buffer_Query(p, Place(from)) = FirstOccurrence(p, from)

\* GPS_Update asks for "\r\n" from the cell where it found the header and then
\* takes Buffer_Size2(index) + 1 bytes.  Wherever in the queue the header lies,
\* that is the queue up to and including both bytes of the first line end after
\* it: the frame holds the header, and the Gets that follows cannot fail.
FrameEndsAtMatch ==
    \A p \in {q \in SearchPattern : Len(q) = 2} : \A from \in 1..Buffer_Size :
        LET index == Buffer_Query(p, Place(from))
            len   == Buffer_Size2(index) + 1
        IN  index # NoIndex =>
                /\ len \in (from + 1)..Buffer_Size
                /\ SubSeq(Contents, len - 1, len) = p
                /\ \A k \in from..(len - 2) : ~Occurs(p, k)
=============================================================================
