----------------------------- MODULE ByteStream -----------------------------
(***************************************************************************)
(* What a connection promises the applications at its two ends: the bytes  *)
(* one of them has written reach the other in the order of the writing,    *)
(* each of them once, and all of them in the end.  No segments, no         *)
(* acknowledgements, no timers.                                            *)
(***************************************************************************)
EXTENDS Integers, Sequences

CONSTANT StreamLen      \* bound: bytes the application writes in all

VARIABLES
    written,    \* how many bytes touSend has accepted
    received    \* the bytes touRecv has returned, as positions of the stream

vars == <<written, received>>

Init == written = 0 /\ received = <<>>

\* touSend accepts a chunk, of any size.
Write ==
    /\ written' \in (written + 1)..StreamLen
    /\ UNCHANGED received

\* touRecv returns the next bytes of the stream, as many as it likes.
Read ==
    /\ \E n \in (Len(received) + 1)..written : received' = [p \in 1..n |-> p]
    /\ UNCHANGED written

Next == Write \/ Read

Safety == Init /\ [][Next]_vars

Spec == Safety /\ WF_vars(Read)
=============================================================================
