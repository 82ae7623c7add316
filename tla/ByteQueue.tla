------------------------------ MODULE ByteQueue ------------------------------
(***************************************************************************)
(* What a CircularBuffer promises the two threads at its ends: a bounded   *)
(* first-in first-out queue of bytes.  A chunk is put in whole or refused, *)
(* and a chunk taken out is the head of the queue, removed in one step.    *)
(***************************************************************************)
EXTENDS Integers, Sequences

CONSTANTS
    Byte,       \* the values of a byte
    Size        \* the bytes of storage, m_uiSize

VARIABLES
    queue,      \* the bytes put in and not yet taken out, oldest first
    taken       \* the chunk handed out by the last Take

vars == <<queue, taken>>

Init == queue = <<>> /\ taken = <<>>

\* A chunk (the part of queue' beyond queue) is appended if it leaves a byte free.
Put ==
    /\ queue' \in Seq(Byte)
    /\ Len(queue) <= Len(queue') /\ Len(queue') < Size
    /\ SubSeq(queue', 1, Len(queue)) = queue
    /\ UNCHANGED taken

\* The n oldest bytes are handed out.
Take ==
    \E n \in 0..Len(queue) :
        /\ taken' = SubSeq(queue, 1, n)
        /\ queue' = SubSeq(queue, n + 1, Len(queue))

Next == Put \/ Take

Spec == Init /\ [][Next]_vars
=============================================================================
