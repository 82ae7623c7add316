------------------------------ MODULE MCLocks ------------------------------
\* Instances of Locks: the timer thread and up to two application threads.
EXTENDS Locks, TLC

CONSTANTS a1, a2
Alike == Permutations(Callers)
=============================================================================
