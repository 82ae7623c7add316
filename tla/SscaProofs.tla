----------------------------- MODULE SscaProofs -----------------------------
(***************************************************************************)
(* The safety invariants of Ssca for every segment size, window limit and  *)
(* threshold that CongestionAssumption allows.                             *)
(***************************************************************************)
EXTENDS Ssca, TLAPS

\* Counting fast retransmissions needs to know where the count stands: none
\* before the threshold, none while the third duplicate is being checked.
EpisodeInv ==
    /\ rexmits <= 1
    /\ run = "idle" /\ cc.dupackcount < Thresh => rexmits = 0
    /\ run = "check" /\ cc.dupackcount <= Thresh => rexmits = 0

IInv ==
    /\ TypeOK
    /\ WindowBounds
    /\ RecoveryDeflates
    /\ RecoveryIffThreshold
    /\ EpisodeInv

\* The window halved is a window: between two segments and MaxWnd - 3 * SMSS.
LEMMA HalvedBounds ==
    ASSUME NEW c \in CcRecords, c.snd_cwnd \in SMSS..MaxWnd
    PROVE  /\ Halved(c) \in Nat
           /\ Halved(c) >= 2 * SMSS
           /\ Halved(c) + 3 * SMSS <= MaxWnd
<1>1. c.snd_cwnd \in Nat
  BY DEF CcRecords
<1>2. c.snd_cwnd \div 2 \in Nat /\ 2 * (c.snd_cwnd \div 2) <= c.snd_cwnd
  BY <1>1
<1> QED
  BY <1>1, <1>2, CongestionAssumption DEF Halved

\* The growth of congestion avoidance stays between the window and MaxWnd.
LEMMA LinearBounds ==
    ASSUME NEW c \in CcRecords, c.snd_cwnd \in SMSS..MaxWnd
    PROVE  Linear(c) \in Nat /\ Linear(c) \in SMSS..MaxWnd
<1>1. c.snd_cwnd \in Nat \ {0}
  BY CongestionAssumption DEF CcRecords
<1>2. SMSS * SMSS \in Nat
  BY CongestionAssumption
<1>3. \A a \in Nat, b \in Nat \ {0} : a \div b \in Nat
  OBVIOUS
<1>4. (SMSS * SMSS) \div c.snd_cwnd \in Nat
  BY <1>1, <1>2, <1>3
<1> QED
  BY <1>1, <1>4, CongestionAssumption DEF Linear, ckSize

\* What each call of ssca does to a record that satisfies the part of the
\* invariant that is about the window.
WndInv(c) ==
    /\ c \in CcRecords
    /\ c.snd_cwnd \in SMSS..MaxWnd
    /\ c.snd_ssthresh >= 2 * SMSS
    /\ c.cc_state = "FR" => c.snd_ssthresh <= c.snd_cwnd
    /\ c.cc_state = "FR" <=> c.dupackcount >= Thresh

\* A congestion record with every field replaced.
Replaced(c, s, w, t, d) ==
    [c EXCEPT !.cc_state = s, !.snd_cwnd = w, !.snd_ssthresh = t,
              !.dupackcount = d]

\* addwnd() ends every recovery and clears the count.
LEMMA AddwndPreserves ==
    ASSUME NEW c, WndInv(c)
    PROVE  /\ WndInv(addwnd(c))
           /\ addwnd(c).dupackcount = 0
           /\ c.cc_state = "FR" => addwnd(c).snd_cwnd <= c.snd_cwnd
<1>1. /\ c \in CcRecords
      /\ c.snd_ssthresh \in Nat /\ c.snd_ssthresh >= 2 * SMSS
      /\ c.snd_cwnd \in Nat /\ c.snd_cwnd \in SMSS..MaxWnd
  BY DEF WndInv, CcRecords
<1>2. ASSUME NEW s \in {"SS", "CA"}, NEW w \in Nat, w \in SMSS..MaxWnd,
             addwnd(c) = Replaced(c, s, w, c.snd_ssthresh, 0)
      PROVE  WndInv(addwnd(c)) /\ addwnd(c).dupackcount = 0
                               /\ addwnd(c).snd_cwnd = w
  <2>1. s \in CcStates /\ 0 \in 0..(Thresh + 1) /\ s # "FR" /\ ~(0 >= Thresh)
    BY CongestionAssumption DEF CcStates
  <2> DEFINE res == Replaced(c, s, w, c.snd_ssthresh, 0)
  <2>2. res \in CcRecords /\ res.cc_state = s /\ res.snd_cwnd = w
        /\ res.snd_ssthresh = c.snd_ssthresh /\ res.dupackcount = 0
    BY <1>1, <1>2, <2>1 DEF CcRecords, Replaced
  <2> HIDE DEF res
  <2>3. /\ addwnd(c) \in CcRecords
        /\ addwnd(c).cc_state = s
        /\ addwnd(c).snd_cwnd = w
        /\ addwnd(c).snd_ssthresh = c.snd_ssthresh
        /\ addwnd(c).dupackcount = 0
    BY <1>2, <2>2 DEF res
  <2> QED
    BY <1>1, <1>2, <2>1, <2>3 DEF WndInv
<1>3. Linear(c) \in Nat /\ Linear(c) \in SMSS..MaxWnd
  BY <1>1, LinearBounds
<1>4. CASE c.cc_state = "SS" /\ c.snd_cwnd < c.snd_ssthresh
  <2>1. addwnd(c) = Replaced(c, "SS", ckSize(c.snd_cwnd + SMSS),
                           c.snd_ssthresh, 0)
    BY <1>1, <1>4 DEF addwnd, CcRecords, Replaced
  <2>2. /\ ckSize(c.snd_cwnd + SMSS) \in Nat
        /\ ckSize(c.snd_cwnd + SMSS) \in SMSS..MaxWnd
    BY <1>1, CongestionAssumption DEF ckSize
  <2> QED
    BY <1>2, <1>4, <2>1, <2>2
<1>5. CASE c.cc_state = "SS" /\ ~(c.snd_cwnd < c.snd_ssthresh)
  <2>1. addwnd(c) = Replaced(c, "CA", Linear(c), c.snd_ssthresh, 0)
    BY <1>1, <1>5 DEF addwnd, CcRecords, Replaced
  <2> QED
    BY <1>2, <1>3, <1>5, <2>1
<1>6. CASE c.cc_state = "CA"
  <2>1. addwnd(c) = Replaced(c, "CA", Linear(c), c.snd_ssthresh, 0)
    BY <1>1, <1>6 DEF addwnd, CcRecords, Replaced
  <2> QED
    BY <1>2, <1>3, <1>6, <2>1
<1>7. CASE c.cc_state = "FR"
  <2>1. addwnd(c) = Replaced(c, "CA", ckSize(c.snd_ssthresh),
                           c.snd_ssthresh, 0)
    BY <1>1, <1>7 DEF addwnd, CcRecords, Replaced
  <2>2. c.snd_ssthresh <= c.snd_cwnd
    BY <1>7 DEF WndInv
  <2>3. /\ ckSize(c.snd_ssthresh) \in Nat
        /\ ckSize(c.snd_ssthresh) \in SMSS..MaxWnd
        /\ ckSize(c.snd_ssthresh) <= c.snd_cwnd
    BY <1>1, <2>2, CongestionAssumption DEF ckSize
  <2> QED
    BY <1>2, <2>1, <2>3
<1> QED
  BY <1>1, <1>4, <1>5, <1>6, <1>7 DEF CcRecords, CcStates

\* settwnd() falls back to one segment of slow start.
LEMMA SettwndPreserves ==
    ASSUME NEW c, WndInv(c)
    PROVE  WndInv(settwnd(c)) /\ settwnd(c).dupackcount = 0
<1>1. Halved(c) \in Nat /\ Halved(c) >= 2 * SMSS
  BY HalvedBounds DEF WndInv
<1> QED
  BY <1>1, CongestionAssumption DEF WndInv, settwnd, CcRecords, CcStates

\* setdwnd() counts one more duplicate, up to the saturation of the count.
LEMMA SetdwndPreserves ==
    ASSUME NEW c, WndInv(c)
    PROVE  /\ WndInv(setdwnd(c, TRUE))
           /\ setdwnd(c, TRUE).dupackcount =
                 IF c.dupackcount > Thresh THEN c.dupackcount
                                           ELSE c.dupackcount + 1
           /\ c.cc_state = "FR" => setdwnd(c, TRUE).cc_state = "FR"
<1> DEFINE n == IF c.dupackcount > Thresh THEN c.dupackcount
                                          ELSE c.dupackcount + 1
<1>1. /\ c \in CcRecords
      /\ c.cc_state \in CcStates
      /\ c.dupackcount \in 0..(Thresh + 1)
      /\ c.snd_ssthresh \in Nat /\ c.snd_ssthresh >= 2 * SMSS
      /\ c.snd_cwnd \in Nat /\ c.snd_cwnd \in SMSS..MaxWnd
  BY DEF WndInv, CcRecords
<1>2. /\ n \in 0..(Thresh + 1)
      /\ Counted(c, TRUE) = [c EXCEPT !.dupackcount = n]
  BY <1>1, CongestionAssumption DEF Counted, CcRecords
<1>3. ASSUME NEW s \in CcStates, NEW w \in Nat, NEW t \in Nat,
             w \in SMSS..MaxWnd, t >= 2 * SMSS, s = "FR" => t <= w,
             (s = "FR") <=> (n >= Thresh),
             setdwnd(c, TRUE) = Replaced(c, s, w, t, n)
      PROVE  /\ WndInv(setdwnd(c, TRUE))
             /\ setdwnd(c, TRUE).dupackcount = n
             /\ setdwnd(c, TRUE).cc_state = s
  <2> HIDE DEF n
  <2> DEFINE res == Replaced(c, s, w, t, n)
  <2>1. res \in CcRecords /\ res.cc_state = s /\ res.snd_cwnd = w
        /\ res.snd_ssthresh = t /\ res.dupackcount = n
    BY <1>1, <1>2, <1>3 DEF CcRecords, Replaced
  <2> HIDE DEF res
  <2>2. /\ setdwnd(c, TRUE) \in CcRecords
        /\ setdwnd(c, TRUE).cc_state = s
        /\ setdwnd(c, TRUE).snd_cwnd = w
        /\ setdwnd(c, TRUE).snd_ssthresh = t
        /\ setdwnd(c, TRUE).dupackcount = n
    BY <1>3, <2>1 DEF res
  <2> QED
    BY <1>3, <2>2 DEF WndInv
<1>4. CASE c.cc_state = "FR"
  <2>1. n >= Thresh /\ c.snd_ssthresh <= c.snd_cwnd
    BY <1>1, <1>4, CongestionAssumption DEF WndInv
  <2> HIDE DEF n
  <2>2. setdwnd(c, TRUE) = Replaced(c, "FR", ckSize(c.snd_cwnd + SMSS),
                                  c.snd_ssthresh, n)
    BY <1>1, <1>2, <1>4 DEF setdwnd, CcRecords, Replaced
  <2>3. /\ ckSize(c.snd_cwnd + SMSS) \in Nat
        /\ ckSize(c.snd_cwnd + SMSS) \in SMSS..MaxWnd
        /\ c.snd_ssthresh <= ckSize(c.snd_cwnd + SMSS)
    BY <1>1, <2>1, CongestionAssumption DEF ckSize
  <2> QED
    BY <1>1, <1>3, <1>4, <2>1, <2>2, <2>3 DEF CcStates, n
<1>5. CASE c.cc_state # "FR" /\ n >= Thresh
  <2>1. /\ Halved(c) \in Nat
        /\ Halved(c) >= 2 * SMSS
        /\ Halved(c) + 3 * SMSS <= MaxWnd
    BY <1>1, HalvedBounds
  <2> HIDE DEF n
  <2>2. setdwnd(c, TRUE) = Replaced(c, "FR", Halved(c) + 3 * SMSS, Halved(c), n)
    BY <1>1, <1>2, <1>5 DEF setdwnd, CcRecords, Replaced
  <2>3. /\ Halved(c) + 3 * SMSS \in Nat
        /\ Halved(c) + 3 * SMSS \in SMSS..MaxWnd
        /\ Halved(c) <= Halved(c) + 3 * SMSS
    BY <2>1, CongestionAssumption
  <2> QED
    BY <1>3, <1>5, <2>1, <2>2, <2>3 DEF CcStates, n
<1>6. CASE c.cc_state # "FR" /\ ~(n >= Thresh)
  <2> HIDE DEF n
  <2>1. setdwnd(c, TRUE) = Replaced(c, c.cc_state, c.snd_cwnd,
                                  c.snd_ssthresh, n)
    BY <1>1, <1>2, <1>6 DEF setdwnd, CcRecords, Replaced
  <2> QED
    BY <1>1, <1>3, <1>6, <2>1 DEF n
<1> QED
  BY <1>4, <1>5, <1>6

\* The record part of IInv is WndInv(cc).
LEMMA IInvWnd == IInv <=> WndInv(cc) /\ TypeOK /\ EpisodeInv
BY DEF IInv, WndInv, TypeOK, WindowBounds, RecoveryDeflates,
       RecoveryIffThreshold

\* IInv holds initially.
LEMMA InitIInv == Init => IInv
BY CongestionAssumption
DEF Init, InitCc, IInv, TypeOK, WindowBounds, RecoveryDeflates,
    RecoveryIffThreshold, EpisodeInv, CcRecords, CcStates

\* IInv is inductive.
LEMMA NextIInv == IInv /\ [Next]_vars => IInv'
<1> SUFFICES ASSUME IInv, [Next]_vars
             PROVE  WndInv(cc') /\ TypeOK' /\ EpisodeInv'
  BY DEF IInv, WndInv, TypeOK, WindowBounds, RecoveryDeflates,
         RecoveryIffThreshold
<1>0. WndInv(cc) /\ TypeOK /\ EpisodeInv
  BY IInvWnd
<1>1. CASE AckNotDuplicate
  <2>1. WndInv(cc') /\ cc'.dupackcount = 0
    BY <1>0, <1>1, AddwndPreserves DEF AckNotDuplicate
  <2> QED
    BY <1>0, <1>1, <2>1, CongestionAssumption
    DEF AckNotDuplicate, TypeOK, WndInv, EpisodeInv
<1>2. CASE DupAck
  <2>1. /\ WndInv(cc')
        /\ cc'.dupackcount = IF cc.dupackcount > Thresh THEN cc.dupackcount
                                                      ELSE cc.dupackcount + 1
    BY <1>0, <1>2, SetdwndPreserves DEF DupAck
  <2>2. cc.dupackcount \in Nat /\ cc'.dupackcount \in Nat /\ cc' \in CcRecords
    BY <1>0, <2>1, CongestionAssumption DEF WndInv, CcRecords
  <2>3. run = "idle" /\ run' = "check" /\ rexmits' = rexmits
    BY <1>2 DEF DupAck
  <2>4. cc'.dupackcount <= Thresh => cc.dupackcount < Thresh
    BY <2>1, <2>2, CongestionAssumption
  <2>5. EpisodeInv'
    BY <1>0, <2>3, <2>4 DEF EpisodeInv
  <2> QED
    BY <1>0, <2>1, <2>2, <2>3, <2>5 DEF TypeOK
<1>3. CASE CheckDupAck
  BY <1>0, <1>3, CongestionAssumption
  DEF CheckDupAck, TypeOK, WndInv, EpisodeInv, CcRecords, ck_num_dupack
<1>4. CASE Timeout
  <2>1. WndInv(cc') /\ cc'.dupackcount = 0
    BY <1>0, <1>4, SettwndPreserves DEF Timeout
  <2> QED
    BY <1>0, <1>4, <2>1, CongestionAssumption
    DEF Timeout, TypeOK, WndInv, EpisodeInv
<1>5. CASE UNCHANGED vars
  BY <1>0, <1>5 DEF vars, TypeOK, EpisodeInv
<1> QED
  BY <1>1, <1>2, <1>3, <1>4, <1>5 DEF Next

\* The window never leaves SMSS..MaxWnd although setdwnd() does not clamp,
\* recovery is on exactly from the threshold on, and one loss episode
\* fast-retransmits at most once.
THEOREM SscaSafe ==
    Spec => [](/\ TypeOK /\ WindowBounds /\ RecoveryDeflates
               /\ RecoveryIffThreshold /\ OneRexmitPerEpisode)
<1>1. IInv => /\ TypeOK /\ WindowBounds /\ RecoveryDeflates
              /\ RecoveryIffThreshold /\ OneRexmitPerEpisode
  BY DEF IInv, EpisodeInv, OneRexmitPerEpisode
<1> QED
  BY <1>1, InitIInv, NextIInv, PTL DEF Spec

\* Falling back from recovery to congestion avoidance never enlarges the
\* window.
THEOREM SscaDeflates == Spec => NoGrowthOnExit
<1>1. ASSUME IInv, [Next]_vars
      PROVE  [cc.cc_state = "FR" /\ cc'.cc_state = "CA"
                => cc'.snd_cwnd <= cc.snd_cwnd]_vars
  <2>0. WndInv(cc)
    BY <1>1, IInvWnd
  <2>1. CASE AckNotDuplicate
    BY <2>0, <2>1, AddwndPreserves DEF AckNotDuplicate
  <2>2. CASE DupAck
    BY <2>0, <2>2, SetdwndPreserves DEF DupAck
  <2>3. CASE CheckDupAck
    BY <2>3 DEF CheckDupAck
  <2>4. CASE Timeout
    BY <2>4 DEF Timeout, settwnd
  <2>5. CASE UNCHANGED vars
    BY <2>5
  <2> QED
    BY <1>1, <2>1, <2>2, <2>3, <2>4, <2>5 DEF Next
<1> QED
  BY <1>1, InitIInv, NextIInv, PTL DEF Spec, NoGrowthOnExit
=============================================================================
