---------------------------- MODULE BoundedFifo ----------------------------
(***************************************************************************)
(* What buffer.h promises of a Buffer_t: a first-in first-out queue of     *)
(* bytes of bounded capacity whose operations are all-or-nothing.          *)
(* The module Buffer (the ring with front and rear) implements it.         *)
(***************************************************************************)
EXTENDS Naturals, Sequences

CONSTANTS Byte,       \* the values a cell can hold
          Capacity,   \* the most bytes the queue ever holds
          MaxLength   \* the longest array passed to Puts or Gets

VARIABLES contents,   \* the queued bytes, oldest first
          ok,         \* what the last Puts or Gets returned
          out         \* the array the last successful Gets filled

vars == <<contents, ok, out>>

Array == UNION {[1..n -> Byte] : n \in 0..MaxLength}

Init == contents = <<>> /\ ok = TRUE /\ out = <<>>

\* A put appends every byte, or none when they do not all fit.
Puts(data) ==
    /\ out' = out
    /\ \/ /\ Len(contents) + Len(data) <= Capacity
          /\ contents' = contents \o data
          /\ ok' = TRUE
       \/ /\ Len(contents) + Len(data) > Capacity
          /\ contents' = contents
          /\ ok' = FALSE

\* A get removes the n oldest bytes, or none when there are fewer.
Gets(n) ==
    \/ /\ n <= Len(contents)
       /\ out' = SubSeq(contents, 1, n)
       /\ contents' = SubSeq(contents, n + 1, Len(contents))
       /\ ok' = TRUE
    \/ /\ n > Len(contents)
       /\ ok' = FALSE
       /\ UNCHANGED <<contents, out>>

Clear == contents' = <<>> /\ UNCHANGED <<ok, out>>

Next == \/ \E data \in Array : Puts(data)
        \/ \E n \in 0..MaxLength : Gets(n)
        \/ Clear

Spec == Init /\ [][Next]_vars
=============================================================================
