----------------------------- MODULE Congestion -----------------------------
(***************************************************************************)
(* The congestion control arithmetic of class ssca (tou_ss_ca.cpp): pure   *)
(* operators on the record                                                 *)
(*                                                                         *)
(*   cc = [cc_state, snd_cwnd, snd_ssthresh, dupackcount]                  *)
(*                                                                         *)
(* of the four fields of tou_cb that ssca owns.  Each of them runs under   *)
(* sscamutex in the code, so a call is one step of whoever makes it: Ssca  *)
(* composes them into a machine of their own and Sender into the sending   *)
(* half of a connection.                                                   *)
(***************************************************************************)
EXTENDS Integers

CONSTANTS
    SMSS,            \* TOU_SMSS, the sender's maximum segment size
    MaxWnd,          \* TOU_MAX_CIRCULAR_BUF / 2, what ckSize clamps to
    MaxSsthresh,     \* TOU_MAX_SSTHRESH, larger than any window
    Thresh           \* TCPREXMTTHRESH, duplicate ACKs before a fast retransmit

\* 5 * SMSS is the least window setdwnd() can ask for (2 * SMSS + 3 * SMSS),
\* and it asks for MaxWnd / 2 + 3 * SMSS at most: it does not clamp, and it
\* stays under MaxWnd because 6 MB / 2 is far above 6 * 1456.
ASSUME CongestionAssumption ==
    /\ SMSS \in Nat \ {0}
    /\ MaxWnd \in Nat /\ MaxWnd >= 6 * SMSS
    /\ MaxSsthresh \in Nat /\ MaxSsthresh >= MaxWnd
    /\ Thresh \in Nat \ {0}

CcStates == {"SS", "CA", "FR"}

CcRecords == [cc_state : CcStates, snd_cwnd : Nat, snd_ssthresh : Nat,
              dupackcount : 0..(Thresh + 1)]

\* What touConnect and touAccept leave in the control block before the first
\* byte is sent: two segments of window, slow start.
InitCc == [cc_state |-> "SS", snd_cwnd |-> 2 * SMSS,
           snd_ssthresh |-> MaxSsthresh, dupackcount |-> 0]

\* Fault for ckSize: no clamp at all.
ckSizeUnclamped(wnd) == wnd

ckSize(wnd) == IF wnd > MaxWnd THEN MaxWnd ELSE wnd

\* Fault for Halved: the floor of two segments is forgotten.
HalvedNoFloor(cc) == cc.snd_cwnd \div 2

\* Half the window and never less than two segments: the new ssthresh.
Halved(cc) == IF cc.snd_cwnd \div 2 > 2 * SMSS THEN cc.snd_cwnd \div 2
                                               ELSE 2 * SMSS

\* The linear growth of congestion avoidance, in whole bytes.
Linear(cc) == ckSize(cc.snd_cwnd + (SMSS * SMSS) \div cc.snd_cwnd)

\* Fault for addwnd: the duplicate count survives the end of a recovery.
addwndKeepsCount(cc) ==
    IF cc.cc_state = "FR"
    THEN [cc EXCEPT !.cc_state = "CA", !.snd_cwnd = cc.snd_ssthresh]
    ELSE [cc EXCEPT !.snd_cwnd = ckSize(@ + SMSS), !.dupackcount = 0]

\* Fault for addwnd: recovery ends with growth instead of deflation.
addwndGrowsOnExit(cc) ==
    [cc EXCEPT !.cc_state = IF @ = "SS" THEN "SS" ELSE "CA",
               !.snd_cwnd = ckSize(@ + SMSS), !.dupackcount = 0]

\* addwnd(): one acknowledgement's worth of growth, or the end of a recovery.
addwnd(cc) ==
    LET grown(state, wnd) == [cc EXCEPT !.cc_state = state, !.snd_cwnd = wnd,
                                        !.dupackcount = 0]
    IN IF cc.cc_state = "FR" THEN grown("CA", ckSize(cc.snd_ssthresh))
       ELSE IF cc.cc_state = "SS" /\ cc.snd_cwnd < cc.snd_ssthresh
       THEN grown("SS", ckSize(cc.snd_cwnd + SMSS))
       ELSE grown("CA", Linear(cc))

\* settwnd(): a timer fired.
settwnd(cc) == [cc_state |-> "SS", snd_cwnd |-> SMSS,
                snd_ssthresh |-> Halved(cc), dupackcount |-> 0]

\* The code's dupackcount is a short that goes on counting; only Thresh and
\* "beyond Thresh" are told apart, so the count saturates at Thresh + 1.
Counted(cc, same) ==
    [cc EXCEPT !.dupackcount = IF ~same THEN 1
                               ELSE IF @ > Thresh THEN @ ELSE @ + 1]

\* setdwnd(ack_seq), same being ack_seq = snd_una: a duplicate ACK.
setdwnd(cc, same) ==
    LET counted == Counted(cc, same)
    IN IF cc.cc_state = "FR"
       THEN [counted EXCEPT !.snd_cwnd = ckSize(@ + SMSS)]
       ELSE IF counted.dupackcount >= Thresh
       THEN [counted EXCEPT !.cc_state = "FR", !.snd_ssthresh = Halved(cc),
                            !.snd_cwnd = Halved(cc) + 3 * SMSS]
       ELSE counted

\* getwnd(): the window a sender may have outstanding, awnd being the peer's.
getwnd(cc, awnd) == ckSize(IF cc.snd_cwnd < awnd THEN cc.snd_cwnd ELSE awnd)

\* Fault for ck_num_dupack: what its comment says, "above or equal to 3".
ck_num_dupackAtLeast(cc) == cc.dupackcount >= Thresh

\* ck_num_dupack(), of class sockTb: does this duplicate ACK start the fast
\* retransmission?
ck_num_dupack(cc) == cc.dupackcount = Thresh
=============================================================================
