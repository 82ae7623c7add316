----------------------------- MODULE MCTiming -----------------------------
\* An instance of Timing whose clock wraps in the middle of the connection.
EXTENDS Timing
===========================================================================
