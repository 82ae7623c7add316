------------------------------- MODULE Timing -------------------------------
(***************************************************************************)
(* The times of one connection: the estimate of the round trip and the     *)
(* retransmission timeout, when a segment on the timer heap is sent again, *)
(* and when a delayed acknowledgement goes out.                            *)
(*                                                                         *)
(* real is the time that passes; the program reads it through getTimeMs,   *)
(* which starts again from 0 at Wrap.  The timer thread makes its rounds   *)
(* at most Period apart.  Data flows one way.  Segments are numbered 1, 2, *)
(* ..., the segment s ending at sequence number s.  A node carries beside  *)
(* the code's ms and xmitms what really happened to its segment: when it   *)
(* was last sent (at), how often (times), and the lowest and the highest   *)
(* timeout in force since (low, high).                                     *)
(***************************************************************************)
EXTENDS Integers, FiniteSetsExt

CONSTANTS MinRtt,         \* the least sample cal_rto takes, 10 ms
          InitTimeo,      \* TOU_INIT_TIMEO
          Delayed,        \* TIMER_DELAYED_ACK_TIME
          Prompt,         \* TIMER_PROMPT_ACK_TIME
          Wrap,           \* where getTimeMs starts again, 10^9 ms
          Period,         \* the longest time between two rounds of the timer
          Ticks,          \* the steps in which time passes
          Starts,         \* the times at which the connection may start
          PostponeBelow,  \* 8 nodes: fewer are all postponed
          MaxSeq,         \* bound: segments
          MaxTimes,       \* bound: no fast retransmission of what was sent so often
          MaxReal         \* bound: time

ASSUME TimingAssumption ==
    /\ {MinRtt, InitTimeo, Delayed, Prompt, Wrap, Period, PostponeBelow, MaxSeq, MaxTimes, MaxReal} \subseteq Nat
    /\ Ticks \subseteq Nat \ {0} /\ Starts \subseteq 0 .. MaxReal
    /\ MinRtt >= 8 /\ InitTimeo >= MinRtt /\ Wrap > 0

VARIABLES sends,                     \* this end sends the data, or it receives it
          real, since,               \* the time, and the time since the timer's last round
          rtt, rto,                  \* tc.t_rtt, tc.t_rto
          heap,                      \* the timer heap: segment -> node
          snd_nxt, snd_una,
          deleting,                  \* run() is between proc_ack and delete_timer
          progress,                  \* when snd_una last moved
          dead,                      \* an assertion failed
          delack, queued,            \* t_delack_state; the ack deque has a node
          nagle, push,               \* nagle_ackms and push_ackms of that node
          runstate, waiting,         \* socktb->runstate; minhp_recv has a segment
          owed                       \* when the data came that is not acknowledged yet

sendVars == <<rtt, rto, heap, snd_nxt, snd_una, deleting, progress, dead>>
ackVars == <<delack, queued, nagle, push, runstate, waiting, owed>>
vars == <<sends, real, since, sendVars, ackVars>>

NoTime == -1

getTimeMs == real % Wrap

-----------------------------------------------------------------------------
(***************************************************************************)
(* cal_rto.  t_rtt_alpha is 1/8 and weighs the old estimate; both terms    *)
(* are truncated.                                                          *)
(***************************************************************************)
Sampled(node) == IF getTimeMs - node.xmitms < MinRtt THEN MinRtt ELSE getTimeMs - node.xmitms

\* Fault for Estimate: the terms are rounded up.
EstimateRounded(old, sample) == (old + 7 * sample + 7) \div 8 + 1

Estimate(old, sample) == old \div 8 + (7 * sample) \div 8

\* The heap left, once the estimate is made from node s.
Recalculated(s, left) ==
    /\ rtt' = Estimate(rtt, Sampled(heap[s]))
    /\ rto' = 2 * rtt'
    /\ heap' = [u \in left |->
                   [heap[u] EXCEPT !.low = Min({@, rto'}), !.high = Max({@, rto'})]]

\* A node of the heap, to be sent again at ms.
Node(ms, xmitms, times) ==
    [ms |-> ms, xmitms |-> xmitms, at |-> real, times |-> times, low |-> rto, high |-> rto]

Init ==
    /\ sends \in BOOLEAN
    /\ real \in Starts /\ since = 0
    /\ rtt = InitTimeo /\ rto = InitTimeo
    /\ heap = [s \in {} |-> 0] /\ snd_nxt = 0 /\ snd_una = 0
    /\ deleting = FALSE /\ progress = real /\ dead = FALSE
    /\ delack = "XMIT" /\ queued = FALSE
    /\ nagle = 0 /\ push = 0 /\ owed = NoTime
    /\ runstate = "GET_PKT" /\ waiting = FALSE

\* Time passes, as long as the timer's next round is not due.
Tick(d) ==
    /\ since + d <= Period /\ real + d <= MaxReal
    /\ real' = real + d /\ since' = since + d
    /\ UNCHANGED <<sendVars, ackVars>>

SendSegment ==
    /\ sends /\ ~dead /\ snd_nxt < MaxSeq
    /\ snd_nxt' = snd_nxt + 1
    /\ heap' = [s \in DOMAIN heap \cup {snd_nxt'} |->
                   IF s \in DOMAIN heap THEN heap[s]
                   ELSE Node(getTimeMs + rto, getTimeMs, 1)]
    /\ UNCHANGED <<real, since, rtt, rto, snd_una, deleting, progress, dead, ackVars>>

ProcAck(u) ==
    /\ ~dead /\ ~deleting
    /\ u \in snd_una + 1 .. snd_nxt
    /\ snd_una' = u /\ deleting' = TRUE /\ progress' = real
    /\ UNCHANGED <<real, since, rtt, rto, heap, snd_nxt, dead, ackVars>>

\* Only the segment that ends at the acknowledgement is measured, and only
\* if it was sent once.
DeleteTimer ==
    LET left == {s \in DOMAIN heap : s > snd_una} IN
    /\ ~dead /\ deleting
    /\ deleting' = FALSE
    /\ IF snd_una \in DOMAIN heap /\ heap[snd_una].xmitms >= 0
       THEN Recalculated(snd_una, left)
       ELSE heap' = [s \in left |-> heap[s]] /\ UNCHANGED <<rtt, rto>>
    /\ UNCHANGED <<real, since, snd_nxt, snd_una, progress, dead, ackVars>>

\* rexmit_for_dup_ack: the oldest node, its timer set for one timeout.
RexmitDupAck ==
    LET s == snd_una + 1 IN
    /\ ~dead /\ ~deleting /\ s \in DOMAIN heap /\ heap[s].times < MaxTimes
    /\ heap' = [u \in {v \in DOMAIN heap : v >= s} |->
                   IF u = s THEN Node(getTimeMs + rto, -1, heap[s].times + 1) ELSE heap[u]]
    /\ UNCHANGED <<real, since, rtt, rto, snd_nxt, snd_una, deleting, progress, dead, ackVars>>

\* Fault for Refired: the node keeps a time that can be measured from.
RefiredSampled(node) == Node(getTimeMs + 2 * rto, getTimeMs, node.times + 1)

\* Fault for Refired: the new time counts from the first transmission.
RefiredFromXmit(node) == Node(node.xmitms + 2 * rto, -1, node.times + 1)

\* proc_sndpkt: the node that is sent again waits two timeouts.
Refired(node) == Node(getTimeMs + 2 * rto, -1, node.times + 1)

\* Fault for Fires: a node is sent again once only.
FiresOnce(node) == node.xmitms >= 0 /\ node.ms < getTimeMs

Fires(node) == node.ms < getTimeMs

\* Fault for Top: the heap the other way round.
TopNewest(left) == Max(left)

Top(left) == Min(left)

(***************************************************************************)
(* proc_sndpkt: what is acknowledged is cleared, the oldest segment sent   *)
(* again if its time has come, and the others postponed if they are few.   *)
(***************************************************************************)
Rexmit ==
    LET left == {s \in DOMAIN heap : s > snd_una}
        top == Top(left)
        later == left \ {top}
        postpones == Cardinality(left) < PostponeBelow IN
    IF left = {} \/ ~Fires(heap[top])
    THEN heap' = [s \in left |-> heap[s]] /\ UNCHANGED dead
    ELSE /\ dead' = (postpones /\ \E s \in later : heap[s].xmitms <= 0)
         /\ heap' = [s \in left |->
                        IF s = top THEN Refired(heap[s])
                        ELSE IF postpones
                        THEN [heap[s] EXCEPT !.ms = heap[s].xmitms + 2 * rto]
                        ELSE heap[s]]

(***************************************************************************)
(* The end that takes the data.  A run() is one step: what it does with    *)
(* one segment, and whether there is room, are Receiver's.  Data that      *)
(* comes in order is acknowledged at once unless the state is QUE: then it *)
(* waits for the timer or for the next segment.  Data past a gap, or that  *)
(* fills one, sets the state IMMED, which is acknowledged at once, unless  *)
(* the recovery finds the buffer full.                                     *)
(***************************************************************************)
Rearmed == queued' = TRUE /\ push' = getTimeMs + Prompt /\ nagle' = getTimeMs + Delayed

Owing == IF owed = NoTime THEN real ELSE owed

\* processTou::proc_delack, in the state that run() has left.
proc_delack(state) ==
    /\ Rearmed
    /\ IF state = "QUE"
       THEN delack' = "XMIT" /\ owed' = Owing
       ELSE delack' = "QUE" /\ owed' = NoTime

\* PROCESS_PKT_RECOVERY with a segment waiting: it empties the heap, or comes to
\* the next gap.
RecoverDone ==
    /\ waiting' \in BOOLEAN /\ runstate' = "GET_PKT"
    /\ proc_delack("IMMED")

\* Or it finds the buffer full: run() ends without proc_delack, and the timer
\* leaves the state IMMED alone.
RecoverFull ==
    /\ delack' = "IMMED" /\ runstate' = "PKT_RECOVERY"
    /\ owed' = Owing
    /\ UNCHANGED <<queued, nagle, push, waiting>>

\* run() with the segment that is expected, which may fill a gap.
RunMatch ==
    /\ ~sends /\ ~dead /\ runstate = "GET_PKT"
    /\ IF waiting
       THEN RecoverDone \/ RecoverFull
       ELSE proc_delack(delack) /\ UNCHANGED <<runstate, waiting>>
    /\ UNCHANGED <<real, since, sendVars>>

\* run() with a segment past a gap.
RunMore ==
    /\ ~sends /\ ~dead /\ runstate = "GET_PKT"
    /\ waiting' = TRUE
    /\ proc_delack("IMMED")
    /\ UNCHANGED <<real, since, sendVars, runstate>>

\* run() after one whose recovery found the buffer full.
RunResume ==
    /\ ~sends /\ ~dead /\ runstate = "PKT_RECOVERY"
    /\ RecoverDone \/ RecoverFull
    /\ UNCHANGED <<real, since, sendVars>>

\* Fault for AckDue: XMIT waits like the others.
AckDuePromptly == delack # "IMMED" /\ push < getTimeMs

\* proc_delack_xmit leaves what is IMMED to run().
AckDue == delack # "IMMED" /\ (IF delack = "XMIT" THEN nagle ELSE push) < getTimeMs

TimerDelack ==
    IF queued /\ AckDue
    THEN /\ Rearmed
         /\ delack' = IF delack = "XMIT" THEN "QUEXMIT" ELSE "EXPXMIT"
         /\ owed' = NoTime
         /\ UNCHANGED <<runstate, waiting>>
    ELSE UNCHANGED ackVars

\* A round of doit().
Round ==
    /\ ~dead
    /\ since' = 0
    /\ TimerDelack /\ Rexmit
    /\ UNCHANGED <<real, rtt, rto, snd_nxt, snd_una, deleting, progress>>

Next ==
    /\ \/ \E d \in Ticks : Tick(d)
       \/ SendSegment \/ (\E u \in 1 .. MaxSeq : ProcAck(u)) \/ DeleteTimer \/ RexmitDupAck
       \/ RunMatch \/ RunMore \/ RunResume
       \/ Round
    /\ UNCHANGED sends

Spec == Init /\ [][Next]_vars

-----------------------------------------------------------------------------
Wrapped(t) == t \div Wrap # real \div Wrap

Nodes ==
    [ms : Nat, xmitms : Nat \cup {-1}, at : Nat, times : Nat \ {0}, low : Nat, high : Nat]

(***************************************************************************)
(* Types, with the bounds of the estimate that cal_rto's floor and its     *)
(* truncation leave: never so low that a timeout is no time at all.        *)
(***************************************************************************)
TypeOK ==
    /\ sends \in BOOLEAN /\ real \in Nat /\ since \in 0 .. Period
    /\ rtt \in (7 * MinRtt) \div 8 .. Max({InitTimeo, MaxReal})
    /\ rto \in {2 * rtt, InitTimeo}
    /\ DOMAIN heap \subseteq 1 .. snd_nxt
    /\ \A s \in DOMAIN heap : heap[s] \in Nodes
    /\ snd_nxt \in 0 .. MaxSeq /\ snd_una \in 0 .. snd_nxt
    /\ progress \in Nat /\ deleting \in BOOLEAN /\ dead \in BOOLEAN /\ queued \in BOOLEAN
    /\ delack \in {"XMIT", "QUE", "QUEXMIT", "EXPXMIT", "IMMED"}
    /\ runstate \in {"GET_PKT", "PKT_RECOVERY"} /\ waiting \in BOOLEAN
    /\ nagle \in Nat /\ push \in Nat /\ owed \in Nat \cup {NoTime}

(***************************************************************************)
(* The timer sends a segment again only when, since it was last sent, more *)
(* time has passed than the lowest timeout in force since: over the wrap   *)
(* of the clock too, and whatever estimates, retransmissions and           *)
(* postponements came between.                                             *)
(***************************************************************************)
NeverEarly ==
    [][Round =>
          \A s \in DOMAIN heap \cap DOMAIN heap' :
              heap'[s].times > heap[s].times => real - heap[s].at > heap[s].low]_vars

(***************************************************************************)
(* An estimate is made only from a segment sent once, whose age is then    *)
(* the true round trip (short of the turns the clock has made since, and   *)
(* never below the least sample), and it lies between the old estimate and *)
(* the sample, but for what the truncations take: less than 2 ms.          *)
(***************************************************************************)
SamplesTrue ==
    [][rtt' # rtt =>
          LET node == heap[snd_una]
              turns == real \div Wrap - node.at \div Wrap
              age == real - node.at - turns * Wrap
              sample == Max({age, MinRtt}) IN
          /\ node.times = 1
          /\ rtt' \in Min({rtt, sample}) - 1 .. Max({rtt, sample})]_vars

(***************************************************************************)
(* The oldest unacknowledged segment is sent again within two timeouts and *)
(* a round of the timer from when it was last sent, or from the last       *)
(* progress, unless the clock has wrapped since: then its time may lie     *)
(* beyond any the clock will ever show.                                    *)
(***************************************************************************)
Punctual ==
    LET node == heap[snd_una + 1] IN
    snd_una + 1 \in DOMAIN heap =>
        \/ dead
        \/ real - Max({node.at, progress}) <= 2 * node.high + Period
        \/ Wrapped(node.at)

(***************************************************************************)
(* Data that waits for its acknowledgement waits no longer than the        *)
(* delayed acknowledgement's time and one round of the timer, unless the   *)
(* clock has wrapped since, or the last run() left its recovery unfinished *)
(* for want of room: then it waits for the next run(), however late.       *)
(***************************************************************************)
AckPunctual ==
    owed # NoTime =>
        \/ runstate = "PKT_RECOVERY"
        \/ real - owed <= Delayed + Period
        \/ Wrapped(owed)

(***************************************************************************)
(* postpone_timer's assertion that no later segment was ever sent again    *)
(* fails only over a segment sent in the millisecond getTimeMs calls 0.    *)
(***************************************************************************)
AssertsAtZero == dead => \E s \in DOMAIN heap : heap[s].times = 1 /\ heap[s].at % Wrap = 0
=============================================================================
