-------------------------------- MODULE Ssca --------------------------------
(***************************************************************************)
(* Congestion control as its two callers drive it.  The thread inside      *)
(* processTou::run calls addwnd() for every acknowledgement that is not a  *)
(* duplicate and, for a duplicate, setdwnd() and then ck_num_dupack(),     *)
(* under two different mutexes; the timer thread calls settwnd() whenever  *)
(* a retransmission timer fires, in between too.                           *)
(***************************************************************************)
EXTENDS Congestion

VARIABLES
    cc,        \* the congestion fields of the control block
    run,       \* "idle", or "check" between setdwnd() and ck_num_dupack()
    rexmits    \* fast retransmissions of the present loss episode

vars == <<cc, run, rexmits>>

Init == cc = InitCc /\ run = "idle" /\ rexmits = 0

\* proc_ack: the ACK moves snd_una, or lies below it.
AckNotDuplicate ==
    /\ run = "idle"
    /\ cc' = addwnd(cc)
    /\ rexmits' = 0
    /\ UNCHANGED run

\* ACK_EQUALTO_UNA, first call: the window.
DupAck ==
    /\ run = "idle"
    /\ cc' = setdwnd(cc, TRUE)
    /\ run' = "check"
    /\ UNCHANGED rexmits

\* ACK_EQUALTO_UNA, second call: retransmit on the very third duplicate.
CheckDupAck ==
    /\ run = "check"
    /\ rexmits' = IF ck_num_dupack(cc) THEN rexmits + 1 ELSE rexmits
    /\ run' = "idle"
    /\ UNCHANGED cc

\* proc_sndpkt on the timer thread.
Timeout ==
    /\ cc' = settwnd(cc)
    /\ rexmits' = 0
    /\ UNCHANGED run

Next == AckNotDuplicate \/ DupAck \/ CheckDupAck \/ Timeout

Spec == Init /\ [][Next]_vars
-----------------------------------------------------------------------------
\* The fields keep their ranges (the two window fields are natural numbers).
TypeOK ==
    /\ cc \in CcRecords
    /\ run \in {"idle", "check"}
    /\ rexmits \in Nat

\* addwnd() divides by snd_cwnd, and the sender's loop runs on the window: it
\* is never below one segment and never above what ckSize allows, although
\* setdwnd() assigns ssthresh + 3 segments without calling ckSize.
WindowBounds == cc.snd_cwnd \in SMSS..MaxWnd

\* The window fast recovery falls back to is at least two segments, and never
\* larger than the inflated window it replaces.
RecoveryDeflates ==
    /\ cc.snd_ssthresh >= 2 * SMSS
    /\ cc.cc_state = "FR" => cc.snd_ssthresh <= cc.snd_cwnd

\* Fast recovery is entered exactly when the duplicate count reaches the
\* threshold, and every exit (addwnd, settwnd) restarts the count.
RecoveryIffThreshold == (cc.cc_state = "FR") <=> (cc.dupackcount >= Thresh)

\* In one episode (between two acknowledgements that are not duplicates, or
\* timeouts) the missing segment is fast-retransmitted once, whatever number
\* of duplicates follows the third.
OneRexmitPerEpisode == rexmits <= 1

\* Leaving recovery for congestion avoidance never enlarges the window.
NoGrowthOnExit ==
    [][cc.cc_state = "FR" /\ cc'.cc_state = "CA"
          => cc'.snd_cwnd <= cc.snd_cwnd]_vars
=============================================================================
