---------------------------- MODULE MCTimerHeap ----------------------------
(***************************************************************************)
(* TimerHeap, for TLC: three sockets, an application thread and the timer,   *)
(* and a limit for postpone_timer that some heaps reach and some do not.   *)
(***************************************************************************)
EXTENDS TimerHeap
=============================================================================
