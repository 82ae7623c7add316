---------------------------- MODULE TimingProofs ----------------------------
(***************************************************************************)
(* Theorems about Timing, for every value of the constants: however slow   *)
(* the timer's rounds are, whatever the timeouts, and however often the    *)
(* clock has started again.                                                *)
(***************************************************************************)
EXTENDS Timing, TLAPS

-----------------------------------------------------------------------------
(* Arithmetic.                                                             *)

\* The lesser of two.
LEMMA MinTwo ==
    ASSUME NEW a \in Int, NEW b \in Int
    PROVE  Min({a, b}) = IF a <= b THEN a ELSE b
<1> DEFINE m == IF a <= b THEN a ELSE b
<1>1. m \in {a, b} /\ \A y \in {a, b} : m <= y
  OBVIOUS
<1>2. Min({a, b}) \in {a, b} /\ \A y \in {a, b} : Min({a, b}) <= y
  BY <1>1 DEF Min
<1> QED
  BY <1>1, <1>2

\* The greater likewise.
LEMMA MaxTwo ==
    ASSUME NEW a \in Int, NEW b \in Int
    PROVE  Max({a, b}) = IF a >= b THEN a ELSE b
<1> DEFINE m == IF a >= b THEN a ELSE b
<1>1. m \in {a, b} /\ \A y \in {a, b} : m >= y
  OBVIOUS
<1>2. Max({a, b}) \in {a, b} /\ \A y \in {a, b} : Max({a, b}) >= y
  BY <1>1 DEF Max
<1> QED
  BY <1>1, <1>2

Shown(t) == t % Wrap       \* what getTimeMs returns at time t
Turn(t) == t \div Wrap     \* how often it has started again by then

\* The clock shows the time but for its turns.
LEMMA Reading ==
    ASSUME NEW t \in Nat
    PROVE  /\ Turn(t) \in Nat /\ Shown(t) \in Nat /\ Shown(t) < Wrap
           /\ Turn(t) * Wrap \in Nat
           /\ t = Turn(t) * Wrap + Shown(t)
           /\ Shown(t) <= t
<1>0. Wrap \in Nat /\ Wrap > 0
  BY TimingAssumption DEF TimingAssumption
<1>1. /\ t \div Wrap \in Nat /\ t % Wrap \in Nat /\ t % Wrap < Wrap
      /\ t = Wrap * (t \div Wrap) + (t % Wrap)
  BY <1>0
<1>2. Wrap * (t \div Wrap) = (t \div Wrap) * Wrap /\ (t \div Wrap) * Wrap \in Nat
  BY <1>0, <1>1
<1> QED
  BY <1>1, <1>2 DEF Shown, Turn

\* What the clock shows grows no faster than time, and as fast as time as long
\* as it does not start again.
LEMMA Clock ==
    ASSUME NEW a \in Nat, NEW b \in Nat, a <= b
    PROVE  /\ Turn(a) <= Turn(b)
           /\ Shown(b) - Shown(a) <= b - a
           /\ Turn(a) = Turn(b) => Shown(b) - Shown(a) = b - a
           /\ Shown(b) - Shown(a) = b - a - (Turn(b) - Turn(a)) * Wrap
<1> DEFINE p == Turn(a)
           q == Turn(b)
<1>0. Wrap \in Nat /\ Wrap > 0
  BY TimingAssumption DEF TimingAssumption
<1>1. /\ p \in Nat /\ q \in Nat /\ Shown(a) \in Nat /\ Shown(b) \in Nat
      /\ p * Wrap \in Nat /\ q * Wrap \in Nat
      /\ a = p * Wrap + Shown(a) /\ b = q * Wrap + Shown(b)
      /\ Shown(a) < Wrap /\ Shown(b) < Wrap
  BY Reading
<1> HIDE DEF p, q
<1>2. p <= q
  <2> SUFFICES ASSUME q + 1 <= p PROVE FALSE
    BY <1>1
  <2>1. (q + 1) * Wrap <= p * Wrap
    BY <1>0, <1>1
  <2>2. (q + 1) * Wrap = q * Wrap + Wrap
    BY <1>0, <1>1
  <2> QED
    BY <1>0, <1>1, <2>1, <2>2
<1>3. (q - p) * Wrap = q * Wrap - p * Wrap /\ (q - p) * Wrap \in Nat
  BY <1>0, <1>1, <1>2
<1>4. Shown(b) - Shown(a) = b - a - (q - p) * Wrap
  BY <1>1, <1>3
<1>5. p = q => (q - p) * Wrap = 0
  BY <1>0, <1>1
<1> QED
  BY <1>1, <1>2, <1>3, <1>4, <1>5 DEF p, q

\* An estimate lies between its two terms but for the truncations, and never
\* below what the least sample leaves.
LEMMA EstimateBounds ==
    ASSUME NEW old \in Nat, NEW sample \in Nat
    PROVE  /\ Estimate(old, sample) \in Nat
           /\ Estimate(old, sample) >= Min({old, sample}) - 1
           /\ Estimate(old, sample) <= Max({old, sample})
           /\ sample >= MinRtt => Estimate(old, sample) >= (7 * MinRtt) \div 8
<1>0. MinRtt \in Nat
  BY TimingAssumption DEF TimingAssumption
<1>1. Min({old, sample}) = IF old <= sample THEN old ELSE sample
  BY MinTwo
<1>2. Max({old, sample}) = IF old >= sample THEN old ELSE sample
  BY MaxTwo
<1>3. /\ old \div 8 \in Nat /\ (7 * sample) \div 8 \in Nat
      /\ 8 * (old \div 8) <= old /\ old <= 8 * (old \div 8) + 7
      /\ 8 * ((7 * sample) \div 8) <= 7 * sample
      /\ 7 * sample <= 8 * ((7 * sample) \div 8) + 7
  OBVIOUS
<1>4. ASSUME sample >= MinRtt
      PROVE  (7 * sample) \div 8 >= (7 * MinRtt) \div 8
  BY <1>0, <1>4
<1>5. (7 * MinRtt) \div 8 \in Nat
  BY <1>0
<1> QED
  BY <1>1, <1>2, <1>3, <1>4, <1>5 DEF Estimate
-----------------------------------------------------------------------------
(* The inductive invariant.                                                *)

\* When the timer made its last round.
LastRound == real - since

\* Every segment not acknowledged is on the heap.
Held == snd_una + 1 .. snd_nxt \subseteq DOMAIN heap

\* A node's time of transmission is that of the segment's only transmission, or
\* none if it was sent again; only the oldest segment has ever been.
NodeTrue(s) ==
    /\ heap[s].at <= real
    /\ heap[s].times = 1 => heap[s].xmitms = Shown(heap[s].at)
    /\ heap[s].times # 1 => heap[s].xmitms = -1 /\ s <= snd_una + 1
    /\ heap[s].low <= rto /\ rto <= heap[s].high

\* When a node is due.
NodeDue(s) ==
    /\ Shown(heap[s].at) + heap[s].low <= heap[s].ms
    /\ heap[s].ms <= Shown(heap[s].at) + 2 * heap[s].high

\* The timer's last round passed the oldest segment over because it had not been
\* sent, was not the oldest, or was not due, and not because it forgot it.
OldestSeen ==
    snd_una + 1 \in DOMAIN heap =>
        \/ LastRound <= heap[snd_una + 1].at
        \/ LastRound <= progress
        \/ Turn(heap[snd_una + 1].at) # Turn(LastRound)
        \/ Shown(LastRound) <= heap[snd_una + 1].ms

\* The state that the timer leaves alone is the one an unfinished recovery leaves.
Muted == delack = "IMMED" <=> runstate = "PKT_RECOVERY"

\* Data that waits for the timer has a node in the ack deque, which the timer's
\* last round passed over for the like reasons.
OwedSeen ==
    owed # NoTime /\ runstate # "PKT_RECOVERY" =>
        /\ delack = "XMIT" /\ queued /\ owed <= real
        /\ nagle = Shown(owed) + Delayed
        /\ \/ LastRound <= owed
           \/ Turn(owed) # Turn(LastRound)
           \/ Shown(LastRound) <= nagle

IInv ==
    /\ TypeOK
    /\ since <= real /\ real <= MaxReal /\ progress <= real
    /\ Held
    /\ \A s \in DOMAIN heap : NodeTrue(s)
    /\ ~dead => \A s \in DOMAIN heap : NodeDue(s)
    /\ ~dead => OldestSeen
    /\ Muted /\ OwedSeen
    /\ AssertsAtZero

\* What the constants are.
LEMMA Constants ==
    /\ MinRtt \in Nat /\ InitTimeo \in Nat /\ Delayed \in Nat /\ Prompt \in Nat
    /\ Wrap \in Nat /\ Period \in Nat /\ MaxSeq \in Nat /\ MaxReal \in Nat
    /\ Ticks \subseteq Nat \ {0} /\ Starts \subseteq 0 .. MaxReal
    /\ MinRtt >= 8 /\ InitTimeo >= MinRtt /\ Wrap > 0
  BY TimingAssumption DEF TimingAssumption

\* The timeout is some time, and the estimate has its bounds.
LEMMA TimeoutType ==
    ASSUME TypeOK
    PROVE  rtt \in Nat /\ rto \in Nat /\ rto >= 7
<1>1. Max({InitTimeo, MaxReal}) \in Nat
  BY Constants, MaxTwo
<1>2. (7 * MinRtt) \div 8 \in Nat /\ (7 * MinRtt) \div 8 >= 7
  BY Constants
<1> QED
  BY <1>1, <1>2, Constants DEF TypeOK

\* What the code reads off the clock.
LEMMA Now ==
    ASSUME TypeOK
    PROVE  /\ getTimeMs = Shown(real) /\ Shown(real) \in Nat
           /\ getTimeMs + rto \in Nat /\ getTimeMs + 2 * rto \in Nat
<1>1. real \in Nat /\ rto \in Nat
  BY TimeoutType DEF TypeOK
<1>2. Shown(real) \in Nat
  BY <1>1, Reading
<1>3. getTimeMs = Shown(real)
  BY DEF getTimeMs, Shown
<1> QED
  BY <1>1, <1>2, <1>3

\* The invariant holds at the start.
LEMMA InitIInv == Init => IInv
<1> SUFFICES ASSUME Init PROVE IInv
  OBVIOUS
<1>1. DOMAIN heap = {}
  BY DEF Init
<1>2. /\ real \in Nat /\ real <= MaxReal /\ since = 0 /\ since \in 0 .. Period
      /\ snd_una = 0 /\ snd_nxt = 0 /\ progress = real
  BY Constants DEF Init
<1>3. InitTimeo \in (7 * MinRtt) \div 8 .. Max({InitTimeo, MaxReal})
  <2>1. Max({InitTimeo, MaxReal}) = IF InitTimeo >= MaxReal THEN InitTimeo ELSE MaxReal
    BY Constants, MaxTwo
  <2> QED
    BY <2>1, Constants
<1>4. TypeOK
  <2>1. /\ sends \in BOOLEAN /\ deleting \in BOOLEAN /\ dead \in BOOLEAN
        /\ queued \in BOOLEAN /\ waiting \in BOOLEAN
    BY Zenon DEF Init
  <2>2. /\ rtt \in (7 * MinRtt) \div 8 .. Max({InitTimeo, MaxReal})
        /\ rto \in {2 * rtt, InitTimeo}
    BY <1>3 DEF Init
  <2>3. /\ DOMAIN heap \subseteq 1 .. snd_nxt
        /\ \A s \in DOMAIN heap : heap[s] \in Nodes
    BY <1>1
  <2>4. /\ snd_nxt \in 0 .. MaxSeq /\ snd_una \in 0 .. snd_nxt /\ progress \in Nat
        /\ delack \in {"XMIT", "QUE", "QUEXMIT", "EXPXMIT", "IMMED"}
        /\ runstate \in {"GET_PKT", "PKT_RECOVERY"}
        /\ nagle \in Nat /\ push \in Nat /\ owed \in Nat \cup {NoTime}
    BY <1>2, Constants DEF Init
  <2> QED
    BY <1>2, <2>1, <2>2, <2>3, <2>4 DEF TypeOK
<1>5. Held
  BY <1>1, <1>2 DEF Held
<1> QED
  BY <1>1, <1>2, <1>4, <1>5 DEF IInv, Init, OldestSeen, Muted, OwedSeen, AssertsAtZero
-----------------------------------------------------------------------------
(* Every step preserves it.                                                *)

\* What a node of the heap holds.
LEMMA NodeType ==
    ASSUME TypeOK, NEW s \in DOMAIN heap
    PROVE  /\ s \in Nat /\ s <= snd_nxt
           /\ heap[s].ms \in Nat /\ heap[s].xmitms \in Int
           /\ heap[s].at \in Nat /\ heap[s].times \in Nat \ {0}
           /\ heap[s].low \in Nat /\ heap[s].high \in Nat
<1>1. heap[s] \in Nodes /\ s \in 1 .. snd_nxt /\ snd_nxt \in Nat
  BY DEF TypeOK
<1> QED
  BY <1>1 DEF Nodes

\* A node made by Node is of its type, and true.
LEMMA NodeMade ==
    ASSUME TypeOK, NEW ms \in Nat, NEW xmitms \in Nat \cup {-1}, NEW times \in Nat \ {0}
    PROVE  /\ Node(ms, xmitms, times) \in Nodes
           /\ Node(ms, xmitms, times).ms = ms
           /\ Node(ms, xmitms, times).xmitms = xmitms
           /\ Node(ms, xmitms, times).at = real
           /\ Node(ms, xmitms, times).times = times
           /\ Node(ms, xmitms, times).low = rto
           /\ Node(ms, xmitms, times).high = rto
  BY TimeoutType DEF Node, Nodes, TypeOK

\* Time passing changes nothing but the time.
LEMMA TickIInv ==
    ASSUME IInv, NEW d \in Ticks, Tick(d), UNCHANGED sends
    PROVE  IInv'
<1>1. /\ d \in Nat /\ real \in Nat /\ since \in 0 .. Period
      /\ real' = real + d /\ since' = since + d /\ real + d <= MaxReal
      /\ since + d <= Period
      /\ UNCHANGED <<sendVars, ackVars, sends>>
  BY Constants DEF Tick, IInv, TypeOK
<1>2. LastRound' = LastRound
  BY <1>1, Constants DEF LastRound
<1>3. TypeOK'
  <2>1. /\ real' \in Nat /\ since' \in 0 .. Period
    BY <1>1, Constants
  <2> QED
    BY <1>1, <2>1 DEF IInv, TypeOK, sendVars, ackVars
<1>4. Held' /\ AssertsAtZero'
  BY <1>1 DEF IInv, Held, AssertsAtZero, sendVars
<1>5. \A s \in DOMAIN heap' : NodeTrue(s)'
  BY <1>1, NodeType DEF IInv, NodeTrue, sendVars
<1>6. ~dead' => \A s \in DOMAIN heap' : NodeDue(s)'
  BY <1>1 DEF IInv, NodeDue, sendVars
<1>7. ~dead' => OldestSeen'
  BY <1>1, <1>2 DEF IInv, OldestSeen, sendVars
<1>8. Muted' /\ OwedSeen'
  BY <1>1, <1>2 DEF IInv, Muted, OwedSeen, ackVars, TypeOK, NoTime
<1>9. since' <= real' /\ real' <= MaxReal /\ progress' <= real'
  BY <1>1, Constants DEF IInv, sendVars, TypeOK
<1> QED
  BY <1>3, <1>4, <1>5, <1>6, <1>7, <1>8, <1>9 DEF IInv

\* The parts about the acknowledgements this end owes do not depend on the nodes.
LEMMA OwedKept ==
    ASSUME IInv, UNCHANGED <<real, since, ackVars>>
    PROVE  Muted' /\ OwedSeen' /\ LastRound' = LastRound
  BY DEF IInv, Muted, OwedSeen, LastRound, ackVars

\* A segment sent makes a node that is due one timeout from now.
LEMMA SendSegmentIInv ==
    ASSUME IInv, SendSegment, UNCHANGED sends
    PROVE  IInv'
<1> DEFINE new == Node(getTimeMs + rto, getTimeMs, 1)
<1>1. /\ ~dead /\ snd_nxt < MaxSeq /\ snd_nxt' = snd_nxt + 1
      /\ DOMAIN heap' = DOMAIN heap \cup {snd_nxt + 1}
      /\ \A s \in DOMAIN heap' : heap'[s] = IF s \in DOMAIN heap THEN heap[s] ELSE new
      /\ UNCHANGED <<real, since, rtt, rto, snd_una, deleting, progress, dead, ackVars, sends>>
  BY DEF SendSegment
<1>2. /\ snd_nxt \in Nat /\ snd_una \in 0 .. snd_nxt /\ real \in Nat /\ since \in Nat
      /\ since <= real /\ progress \in Nat
  BY Constants DEF IInv, TypeOK
<1>3. /\ getTimeMs \in Nat /\ getTimeMs = Shown(real)
      /\ getTimeMs + rto \in Nat /\ rto \in Nat
  BY <1>2, Now, TimeoutType DEF IInv
<1>4. /\ new \in Nodes /\ new.ms = Shown(real) + rto /\ new.xmitms = Shown(real)
      /\ new.at = real /\ new.times = 1 /\ new.low = rto /\ new.high = rto
  BY <1>3, NodeMade DEF IInv
<1> HIDE DEF new
<1>5. LastRound' = LastRound /\ Muted' /\ OwedSeen' /\ LastRound <= real
  BY <1>1, <1>2, OwedKept DEF LastRound
<1>6. TypeOK'
  <2>1. DOMAIN heap' \subseteq 1 .. snd_nxt'
    BY <1>1, <1>2 DEF IInv, TypeOK
  <2>2. \A s \in DOMAIN heap' : heap'[s] \in Nodes
    BY <1>1, <1>4 DEF IInv, TypeOK
  <2>3. snd_nxt' \in 0 .. MaxSeq /\ snd_una' \in 0 .. snd_nxt'
    BY <1>1, <1>2, Constants
  <2> QED
    BY <1>1, <2>1, <2>2, <2>3 DEF IInv, TypeOK, ackVars
<1>7. Held'
  BY <1>1, <1>2 DEF IInv, Held
<1>8. \A s \in DOMAIN heap' : NodeTrue(s)'
  BY <1>1, <1>2, <1>3, <1>4, NodeType DEF IInv, NodeTrue
<1>9. \A s \in DOMAIN heap' : NodeDue(s)'
  <2> SUFFICES ASSUME NEW s \in DOMAIN heap' PROVE NodeDue(s)'
    OBVIOUS
  <2>1. CASE s \in DOMAIN heap
    BY <1>1, <2>1 DEF IInv, NodeDue
  <2>2. CASE s \notin DOMAIN heap
    <3>1. heap'[s] = new /\ Shown(real) \in Nat /\ rto \in Nat
      BY <1>1, <1>3, <2>2
    <3>2. heap'[s].ms = Shown(heap'[s].at) + heap'[s].low
      BY <1>4, <3>1
    <3>3. heap'[s].low = rto /\ heap'[s].high = rto /\ Shown(heap'[s].at) \in Nat
      BY <1>4, <3>1
    <3> QED
      BY <3>1, <3>2, <3>3 DEF NodeDue
  <2> QED
    BY <2>1, <2>2
<1>10. OldestSeen'
  <2> SUFFICES ASSUME snd_una + 1 \in DOMAIN heap' PROVE OldestSeen'
    BY <1>1 DEF OldestSeen
  <2>1. CASE snd_una + 1 \in DOMAIN heap
    BY <1>1, <1>5, <2>1 DEF IInv, OldestSeen
  <2>2. CASE snd_una + 1 \notin DOMAIN heap
    BY <1>1, <1>4, <1>5, <2>2 DEF OldestSeen
  <2> QED
    BY <2>1, <2>2
<1>11. AssertsAtZero'
  BY <1>1 DEF AssertsAtZero
<1> QED
  BY <1>1, <1>5, <1>6, <1>7, <1>8, <1>9, <1>10, <1>11 DEF IInv

\* An acknowledgement makes another segment the oldest, as of now.
LEMMA ProcAckIInv ==
    ASSUME IInv, NEW u \in 1 .. MaxSeq, ProcAck(u), UNCHANGED sends
    PROVE  IInv'
<1>1. /\ ~dead /\ u \in snd_una + 1 .. snd_nxt /\ snd_una' = u
      /\ deleting' = TRUE /\ progress' = real
      /\ UNCHANGED <<real, since, rtt, rto, heap, snd_nxt, dead, ackVars, sends>>
  BY DEF ProcAck
<1>2. /\ snd_nxt \in Nat /\ snd_una \in 0 .. snd_nxt /\ real \in Nat /\ since \in Nat
      /\ since <= real
  BY Constants DEF IInv, TypeOK
<1>3. LastRound' = LastRound /\ Muted' /\ OwedSeen' /\ LastRound <= real
  BY <1>1, <1>2, OwedKept DEF LastRound
<1>4. TypeOK'
  <2>1. snd_una' \in 0 .. snd_nxt' /\ progress' \in Nat
    BY <1>1, <1>2
  <2>2. deleting' \in BOOLEAN /\ UNCHANGED <<sends, dead, queued>>
    BY <1>1 DEF ackVars
  <2> QED
    BY <1>1, <2>1, <2>2 DEF IInv, TypeOK, ackVars
<1>5. Held'
  BY <1>1, <1>2 DEF IInv, Held
<1>6. \A s \in DOMAIN heap' : NodeTrue(s)'
  BY <1>1, <1>2, NodeType DEF IInv, NodeTrue
<1>7. \A s \in DOMAIN heap' : NodeDue(s)'
  BY <1>1 DEF IInv, NodeDue
<1>8. OldestSeen' /\ AssertsAtZero' /\ progress' <= real'
  BY <1>1, <1>2, <1>3 DEF OldestSeen, AssertsAtZero
<1> QED
  BY <1>1, <1>3, <1>4, <1>5, <1>6, <1>7, <1>8 DEF IInv

\* A node that can be measured from gives the true age of a segment sent once.
LEMMA SampleTrue ==
    ASSUME IInv, NEW s \in DOMAIN heap, heap[s].xmitms >= 0
    PROVE  /\ heap[s].times = 1
           /\ Sampled(heap[s]) = Max({Shown(real) - Shown(heap[s].at), MinRtt})
           /\ Sampled(heap[s]) \in Nat /\ Sampled(heap[s]) >= MinRtt
           /\ Sampled(heap[s]) <= Max({InitTimeo, MaxReal})
<1>1. NodeTrue(s) /\ heap[s].at \in Nat /\ real \in Nat /\ real <= MaxReal
  BY NodeType DEF IInv, TypeOK
<1>2. heap[s].times = 1 /\ heap[s].xmitms = Shown(heap[s].at)
  BY <1>1 DEF NodeTrue
<1>3. /\ getTimeMs = Shown(real) /\ Shown(real) \in Nat /\ Shown(real) <= real
      /\ Shown(heap[s].at) \in Nat
  BY <1>1, Now, Reading DEF IInv
<1>4. Max({Shown(real) - Shown(heap[s].at), MinRtt})
      = IF Shown(real) - Shown(heap[s].at) >= MinRtt
        THEN Shown(real) - Shown(heap[s].at) ELSE MinRtt
  BY <1>3, Constants, MaxTwo
<1>5. Sampled(heap[s]) = Max({Shown(real) - Shown(heap[s].at), MinRtt})
  BY <1>2, <1>3, <1>4, Constants DEF Sampled
<1>6. Max({InitTimeo, MaxReal}) = IF InitTimeo >= MaxReal THEN InitTimeo ELSE MaxReal
  BY Constants, MaxTwo
<1> QED
  BY <1>1, <1>2, <1>3, <1>4, <1>5, <1>6, Constants

\* The estimate stays within its bounds.
LEMMA EstimateType ==
    ASSUME TypeOK, NEW sample \in Nat, sample >= MinRtt,
           sample <= Max({InitTimeo, MaxReal})
    PROVE  /\ Estimate(rtt, sample) \in (7 * MinRtt) \div 8 .. Max({InitTimeo, MaxReal})
           /\ Estimate(rtt, sample) \in Nat
<1>1. /\ rtt \in Nat /\ rtt <= Max({InitTimeo, MaxReal})
      /\ Max({InitTimeo, MaxReal}) \in Nat
  BY TimeoutType, Constants, MaxTwo DEF TypeOK
<1>2. Max({rtt, sample}) = IF rtt >= sample THEN rtt ELSE sample
  BY <1>1, MaxTwo
<1>3. (7 * MinRtt) \div 8 \in Nat
  BY Constants
<1> QED
  BY <1>1, <1>2, <1>3, EstimateBounds

\* What is acknowledged leaves the heap, and the timeout may change.
LEMMA DeleteTimerIInv ==
    ASSUME IInv, DeleteTimer, UNCHANGED sends
    PROVE  IInv'
<1> DEFINE left == {s \in DOMAIN heap : s > snd_una}
<1>1. /\ ~dead /\ deleting' = FALSE
      /\ UNCHANGED <<real, since, snd_nxt, snd_una, progress, dead, ackVars, sends>>
  BY DEF DeleteTimer
<1>2. /\ rtt' \in (7 * MinRtt) \div 8 .. Max({InitTimeo, MaxReal})
      /\ rto' \in {2 * rtt', InitTimeo}
      /\ rto' \in Nat
      /\ DOMAIN heap' = left
      /\ \A s \in left : /\ heap'[s] \in Nodes
                        /\ heap'[s].ms = heap[s].ms /\ heap'[s].xmitms = heap[s].xmitms
                        /\ heap'[s].at = heap[s].at /\ heap'[s].times = heap[s].times
                        /\ heap'[s].low <= heap[s].low /\ heap'[s].low <= rto'
                        /\ heap'[s].high >= heap[s].high /\ heap'[s].high >= rto'
  <2>1. CASE snd_una \in DOMAIN heap /\ heap[snd_una].xmitms >= 0
    <3> DEFINE sample == Sampled(heap[snd_una])
    <3>1. /\ sample \in Nat /\ sample >= MinRtt /\ sample <= Max({InitTimeo, MaxReal})
      BY <2>1, SampleTrue
    <3>2. heap' = [u \in left |-> [heap[u] EXCEPT !.low = Min({@, rto'}),
                                                 !.high = Max({@, rto'})]]
      BY <2>1 DEF DeleteTimer, Recalculated
    <3>3. /\ rto' = 2 * rtt' /\ rto' \in Nat
          /\ rtt' \in (7 * MinRtt) \div 8 .. Max({InitTimeo, MaxReal})
      <4>1. rtt' = Estimate(rtt, sample) /\ rto' = 2 * rtt'
        BY <2>1 DEF DeleteTimer, Recalculated
      <4>2. /\ Estimate(rtt, sample) \in (7 * MinRtt) \div 8 .. Max({InitTimeo, MaxReal})
            /\ Estimate(rtt, sample) \in Nat
        BY <3>1, EstimateType DEF IInv
      <4> QED
        BY <4>1, <4>2
    <3>4. ASSUME NEW s \in left
          PROVE  /\ heap'[s] \in Nodes
                 /\ heap'[s].ms = heap[s].ms /\ heap'[s].xmitms = heap[s].xmitms
                 /\ heap'[s].at = heap[s].at /\ heap'[s].times = heap[s].times
                 /\ heap'[s].low <= heap[s].low /\ heap'[s].low <= rto'
                 /\ heap'[s].high >= heap[s].high /\ heap'[s].high >= rto'
      <4>1. /\ heap[s] \in Nodes /\ heap[s].low \in Nat /\ heap[s].high \in Nat
        BY NodeType DEF IInv, TypeOK
      <4>2. Min({heap[s].low, rto'}) = IF heap[s].low <= rto' THEN heap[s].low ELSE rto'
        BY <3>3, <4>1, MinTwo
      <4>3. Max({heap[s].high, rto'}) = IF heap[s].high >= rto' THEN heap[s].high ELSE rto'
        BY <3>3, <4>1, MaxTwo
      <4> DEFINE lower == [heap[s] EXCEPT !.low = Min({heap[s].low, rto'})]
      <4>4. heap'[s] = [lower EXCEPT !.high = Max({heap[s].high, rto'})]
        BY Zenon, <3>2
      <4>5. /\ lower \in Nodes /\ lower.ms = heap[s].ms /\ lower.xmitms = heap[s].xmitms
            /\ lower.at = heap[s].at /\ lower.times = heap[s].times
            /\ lower.low = Min({heap[s].low, rto'}) /\ lower.high = heap[s].high
        BY <3>3, <4>1, <4>2 DEF Nodes
      <4> HIDE DEF lower
      <4> QED
        BY <3>3, <4>1, <4>2, <4>3, <4>4, <4>5 DEF Nodes
    <3> QED
      BY <3>2, <3>3, <3>4
  <2>2. CASE ~(snd_una \in DOMAIN heap /\ heap[snd_una].xmitms >= 0)
    <3>1. heap' = [s \in left |-> heap[s]] /\ UNCHANGED <<rtt, rto>>
      BY <2>2 DEF DeleteTimer
    <3>2. rto \in Nat
      BY TimeoutType DEF IInv
    <3>3. \A s \in left : NodeTrue(s) /\ heap[s] \in Nodes /\ heap[s].low \in Nat
                         /\ heap[s].high \in Nat
      BY NodeType DEF IInv, TypeOK
    <3> QED
      BY <3>1, <3>2, <3>3 DEF IInv, TypeOK, NodeTrue
  <2> QED
    BY <2>1, <2>2
<1>3. /\ snd_nxt \in Nat /\ snd_una \in 0 .. snd_nxt
  BY DEF IInv, TypeOK
<1>4. LastRound' = LastRound /\ Muted' /\ OwedSeen'
  BY <1>1, OwedKept
<1>5. TypeOK'
  BY <1>1, <1>2 DEF IInv, TypeOK, ackVars
<1>6. Held'
  BY <1>1, <1>2, <1>3 DEF IInv, Held
<1>7. \A s \in DOMAIN heap' : NodeTrue(s)'
  BY <1>1, <1>2 DEF IInv, NodeTrue
<1>8. \A s \in DOMAIN heap' : NodeDue(s)'
  <2> SUFFICES ASSUME NEW s \in DOMAIN heap' PROVE NodeDue(s)'
    OBVIOUS
  <2>1. s \in DOMAIN heap /\ NodeDue(s) /\ s \in left
    BY <1>1, <1>2 DEF IInv
  <2>2. /\ heap[s].at \in Nat /\ heap[s].low \in Nat /\ heap[s].high \in Nat
        /\ heap[s].ms \in Nat
        /\ heap'[s].low \in Nat /\ heap'[s].high \in Nat
    BY <1>2, <2>1, NodeType DEF IInv, Nodes
  <2>3. Shown(heap[s].at) \in Nat
    BY <2>2, Reading
  <2> QED
    BY <1>2, <2>1, <2>2, <2>3 DEF NodeDue
<1>9. OldestSeen'
  BY <1>1, <1>2, <1>4 DEF IInv, OldestSeen
<1>10. AssertsAtZero'
  BY <1>1 DEF AssertsAtZero
<1> QED
  BY <1>1, <1>4, <1>5, <1>6, <1>7, <1>8, <1>9, <1>10 DEF IInv

\* A fast retransmission sets the node of the oldest for one timeout.
LEMMA RexmitDupAckIInv ==
    ASSUME IInv, RexmitDupAck, UNCHANGED sends
    PROVE  IInv'
<1> DEFINE s0 == snd_una + 1
           left == {v \in DOMAIN heap : v >= s0}
           new == Node(getTimeMs + rto, -1, heap[s0].times + 1)
<1>1. /\ ~dead /\ s0 \in DOMAIN heap
      /\ DOMAIN heap' = left
      /\ \A s \in left : heap'[s] = IF s = s0 THEN new ELSE heap[s]
      /\ UNCHANGED <<real, since, rtt, rto, snd_nxt, snd_una, deleting, progress, dead,
                     ackVars, sends>>
  BY DEF RexmitDupAck
<1>2. /\ snd_nxt \in Nat /\ snd_una \in 0 .. snd_nxt /\ real \in Nat /\ since \in Nat
      /\ since <= real
  BY Constants DEF IInv, TypeOK
<1>3. getTimeMs = Shown(real) /\ Shown(real) \in Nat /\ rto \in Nat
  BY Now, TimeoutType DEF IInv
<1>4. /\ new \in Nodes /\ new.ms = Shown(real) + rto /\ new.xmitms = -1 /\ new.at = real
      /\ new.times # 1 /\ new.low = rto /\ new.high = rto
  <2> DEFINE due == getTimeMs + rto
             again == heap[s0].times + 1
  <2>1. TypeOK
    BY DEF IInv
  <2>2. heap[s0].times \in Nat \ {0}
    BY <1>1, <2>1, NodeType
  <2>3. again \in Nat \ {0} /\ again # 1
    BY <2>2
  <2>4. due \in Nat /\ due = Shown(real) + rto
    BY <1>3
  <2> HIDE DEF due, again
  <2>5. /\ Node(due, -1, again) \in Nodes
        /\ Node(due, -1, again).ms = due
        /\ Node(due, -1, again).xmitms = -1
        /\ Node(due, -1, again).at = real
        /\ Node(due, -1, again).times = again
        /\ Node(due, -1, again).low = rto
        /\ Node(due, -1, again).high = rto
    BY <2>1, <2>3, <2>4, NodeMade
  <2>6. new = Node(due, -1, again)
    BY DEF due, again
  <2> HIDE DEF new
  <2> QED
    BY <2>3, <2>4, <2>5, <2>6
<1> HIDE DEF new
<1>5. LastRound' = LastRound /\ Muted' /\ OwedSeen' /\ LastRound <= real
  BY <1>1, <1>2, OwedKept DEF LastRound
<1>6. TypeOK'
  BY <1>1, <1>4 DEF IInv, TypeOK, ackVars
<1>7. Held'
  BY <1>1, <1>2 DEF IInv, Held
<1>8. \A s \in DOMAIN heap' : NodeTrue(s)'
  BY <1>1, <1>2, <1>3, <1>4 DEF IInv, NodeTrue
<1>9. \A s \in DOMAIN heap' : NodeDue(s)'
  <2> SUFFICES ASSUME NEW s \in DOMAIN heap' PROVE NodeDue(s)'
    OBVIOUS
  <2>1. CASE s # s0
    BY <1>1, <2>1 DEF IInv, NodeDue
  <2>2. CASE s = s0
    <3>1. heap'[s] = new
      BY <1>1, <2>2
    <3> QED
      BY <1>3, <1>4, <3>1 DEF NodeDue
  <2> QED
    BY <2>1, <2>2
<1>10. OldestSeen'
  BY <1>1, <1>2, <1>4, <1>5 DEF OldestSeen
<1>11. AssertsAtZero'
  BY <1>1 DEF AssertsAtZero
<1> QED
  BY <1>1, <1>5, <1>6, <1>7, <1>8, <1>9, <1>10, <1>11 DEF IInv

\* A run() of the end that takes the data disturbs only what it owes.
LEMMA RunIInv ==
    ASSUME IInv, UNCHANGED <<real, since, sendVars, sends>>,
           delack' \in {"XMIT", "QUE", "QUEXMIT", "EXPXMIT", "IMMED"},
           runstate' \in {"GET_PKT", "PKT_RECOVERY"}, waiting' \in BOOLEAN,
           queued' \in BOOLEAN, nagle' \in Nat, push' \in Nat,
           owed' \in Nat \cup {NoTime},
           Muted', OwedSeen'
    PROVE  IInv'
<1>1. TypeOK'
  BY DEF IInv, TypeOK, sendVars
<1>2. Held' /\ AssertsAtZero' /\ LastRound' = LastRound
  BY DEF IInv, Held, AssertsAtZero, LastRound, sendVars
<1>3. \A s \in DOMAIN heap' : NodeTrue(s)'
  BY DEF IInv, NodeTrue, sendVars
<1>4. ~dead' => OldestSeen' /\ \A s \in DOMAIN heap' : NodeDue(s)'
  BY <1>2 DEF IInv, NodeDue, OldestSeen, sendVars
<1> QED
  BY <1>1, <1>2, <1>3, <1>4 DEF IInv, sendVars

\* Data that comes is acknowledged, or owed from now at the earliest, where no
\* recovery was left unfinished.
LEMMA procDelackIInv ==
    ASSUME IInv, NEW state, proc_delack(state),
           state = "QUE" => runstate # "PKT_RECOVERY" /\ delack = "QUE",
           runstate' = "GET_PKT", waiting' \in BOOLEAN,
           UNCHANGED <<real, since, sendVars, sends>>
    PROVE  IInv'
<1>1. /\ queued' = TRUE /\ push' = getTimeMs + Prompt /\ nagle' = getTimeMs + Delayed
      /\ \/ state = "QUE" /\ delack' = "XMIT" /\ owed' = Owing
         \/ delack' = "QUE" /\ owed' = NoTime
  BY DEF proc_delack, Rearmed
<1>2. /\ real \in Nat /\ since \in Nat /\ since <= real
      /\ getTimeMs = Shown(real) /\ Shown(real) \in Nat
  BY Now, Constants DEF IInv, TypeOK
<1>3. LastRound' = LastRound /\ LastRound <= real
  BY <1>2 DEF LastRound
<1>4. owed' = NoTime \/ (owed' = real /\ delack' = "XMIT")
  <2>1. CASE state = "QUE"
    <3>1. owed = NoTime
      BY <2>1 DEF IInv, OwedSeen
    <3> QED
      BY <1>1, <3>1 DEF Owing
  <2> QED
    BY <1>1, <2>1
<1>5. /\ nagle' \in Nat /\ push' \in Nat
      /\ delack' \in {"XMIT", "QUE"} /\ owed' \in Nat \cup {NoTime}
  BY <1>1, <1>2, <1>4, Constants
<1>6. OwedSeen'
  BY <1>1, <1>2, <1>3, <1>4 DEF OwedSeen
<1>7. Muted'
  BY <1>5 DEF Muted
<1> QED
  BY <1>1, <1>5, <1>6, <1>7, RunIInv

\* A recovery that finds the buffer full leaves the data to the next run().
LEMMA RecoverIInv ==
    ASSUME IInv, RecoverDone \/ RecoverFull, UNCHANGED <<real, since, sendVars, sends>>
    PROVE  IInv'
<1>1. CASE RecoverDone
  BY <1>1, procDelackIInv DEF RecoverDone
<1>2. CASE RecoverFull
  <2>1. owed' \in Nat \cup {NoTime}
    BY <1>2 DEF RecoverFull, Owing, IInv, TypeOK
  <2>2. /\ queued' \in BOOLEAN /\ waiting' \in BOOLEAN
        /\ nagle' \in Nat /\ push' \in Nat
    BY <1>2 DEF RecoverFull, IInv, TypeOK
  <2>3. delack' = "IMMED" /\ runstate' = "PKT_RECOVERY" /\ Muted' /\ OwedSeen'
    BY <1>2 DEF RecoverFull, Muted, OwedSeen
  <2> QED
    BY <2>1, <2>2, <2>3, RunIInv
<1> QED
  BY <1>1, <1>2

\* So every run() preserves the invariant.
LEMMA RunsIInv ==
    ASSUME IInv, RunMatch \/ RunMore \/ RunResume, UNCHANGED sends
    PROVE  IInv'
<1>1. UNCHANGED <<real, since, sendVars, sends>>
  BY DEF RunMatch, RunMore, RunResume
<1>2. CASE RunMatch
  <2>1. CASE waiting
    BY <1>1, <1>2, <2>1, RecoverIInv DEF RunMatch
  <2>2. CASE ~waiting
    <3>1. /\ proc_delack(delack) /\ runstate # "PKT_RECOVERY" /\ runstate' = "GET_PKT"
          /\ waiting' \in BOOLEAN
      BY <1>2, <2>2 DEF RunMatch, IInv, TypeOK
    <3> QED
      BY <1>1, <3>1, procDelackIInv
  <2> QED
    BY <2>1, <2>2
<1>3. CASE RunMore
  BY <1>1, <1>3, procDelackIInv DEF RunMore
<1>4. CASE RunResume
  BY <1>1, <1>4, RecoverIInv DEF RunResume
<1> QED
  BY <1>2, <1>3, <1>4

\* The least of a set is the member below all others.
LEMMA MinIs ==
    ASSUME NEW S \in SUBSET Int, NEW m \in S, \A y \in S : m <= y
    PROVE  Min(S) = m
<1>1. Min(S) \in S /\ \A y \in S : Min(S) <= y
  BY DEF Min
<1>2. Min(S) \in Int /\ m \in Int /\ Min(S) <= m /\ m <= Min(S)
  BY <1>1
<1> QED
  BY <1>2

Left == {s \in DOMAIN heap : s > snd_una}
Oldest == snd_una + 1
Postponed(node) == [node EXCEPT !.ms = node.xmitms + 2 * rto]

\* The node proc_sndpkt looks at is that of the oldest segment.
LEMMA TopIs ==
    ASSUME IInv, Left # {}
    PROVE  Oldest \in Left /\ Top(Left) = Oldest
<1>1. /\ snd_nxt \in Nat /\ snd_una \in 0 .. snd_nxt /\ DOMAIN heap \subseteq 1 .. snd_nxt
      /\ snd_una + 1 .. snd_nxt \subseteq DOMAIN heap
  BY DEF IInv, TypeOK, Held
<1>2. Left \in SUBSET Int /\ \A s \in Left : Oldest <= s
  BY <1>1 DEF Left, Oldest
<1>3. Oldest \in Left
  BY <1>1 DEF Left, Oldest
<1> QED
  BY <1>2, <1>3, MinIs DEF Top

\* What proc_sndpkt does to the nodes.
LEMMA RexmitEffect ==
    ASSUME IInv, Rexmit, ~dead
    PROVE  /\ DOMAIN heap' = Left
           /\ \A s \in Left :
                 \/ heap'[s] = heap[s] /\ (s = Oldest => ~Fires(heap[s]))
                 \/ heap'[s] = Refired(heap[s]) /\ s = Oldest /\ Fires(heap[s])
                 \/ /\ heap'[s] = Postponed(heap[s]) /\ s # Oldest
                    /\ dead' \/ heap[s].xmitms > 0
           /\ dead' \in BOOLEAN
           /\ dead' => \E s \in Left \ {Oldest} : heap[s].xmitms <= 0
<1> DEFINE later == Left \ {Oldest}
           postpones == Cardinality(Left) < PostponeBelow
<1>1. CASE Left = {} \/ ~Fires(heap[Oldest])
  <2>1. heap' = [s \in Left |-> heap[s]] /\ dead' = dead
    BY <1>1, TopIs DEF Rexmit, Left
  <2>2. dead' = FALSE
    BY <2>1 DEF IInv, TypeOK
  <2> QED
    BY <1>1, <2>1, <2>2
<1>2. CASE Left # {} /\ Fires(heap[Oldest])
  <2>1. Oldest \in Left /\ Top(Left) = Oldest
    BY <1>2, TopIs
  <2>2. /\ dead' = (postpones /\ \E s \in later : heap[s].xmitms <= 0)
        /\ heap' = [s \in Left |->
                      IF s = Oldest THEN Refired(heap[s])
                      ELSE IF postpones THEN Postponed(heap[s]) ELSE heap[s]]
    BY <1>2, <2>1, Zenon DEF Rexmit, Left, Postponed
  <2>3. \A s \in Left : heap[s].xmitms \in Int
    BY NodeType DEF IInv, Left
  <2> HIDE DEF postpones
  <2>4. CASE postpones
    <3>1. dead' = (\E s \in later : heap[s].xmitms <= 0)
      BY <2>2, <2>4
    <3>2. \A s \in Left : heap'[s] = IF s = Oldest THEN Refired(heap[s])
                                     ELSE Postponed(heap[s])
      BY <2>2, <2>4
    <3>3. DOMAIN heap' = Left
      BY <2>2
    <3> QED
      BY <1>2, <2>3, <3>1, <3>2, <3>3
  <2>5. CASE ~postpones
    <3>1. dead' = FALSE
      BY <2>2, <2>5
    <3>2. \A s \in Left : heap'[s] = IF s = Oldest THEN Refired(heap[s]) ELSE heap[s]
      BY <2>2, <2>5
    <3>3. DOMAIN heap' = Left
      BY <2>2
    <3> QED
      BY <1>2, <3>1, <3>2, <3>3
  <2> QED
    BY <2>4, <2>5
<1> QED
  BY <1>1, <1>2

\* A round sends again what is due and notes what is not.
LEMMA RoundIInv ==
    ASSUME IInv, Round, UNCHANGED sends
    PROVE  IInv'
<1>1. /\ ~dead /\ since' = 0 /\ TimerDelack /\ Rexmit
      /\ UNCHANGED <<real, rtt, rto, snd_nxt, snd_una, deleting, progress, sends>>
  BY DEF Round
<1>2. /\ snd_nxt \in Nat /\ snd_una \in 0 .. snd_nxt /\ real \in Nat
      /\ getTimeMs = Shown(real) /\ Shown(real) \in Nat
      /\ getTimeMs + 2 * rto \in Nat /\ rto \in Nat /\ rto >= 7
  BY Now, TimeoutType DEF IInv, TypeOK
<1>3. LastRound' = real
  BY <1>1, <1>2 DEF LastRound
<1>4. /\ DOMAIN heap' = Left
      /\ \A s \in Left :
            \/ heap'[s] = heap[s] /\ (s = Oldest => ~Fires(heap[s]))
            \/ heap'[s] = Refired(heap[s]) /\ s = Oldest
            \/ /\ heap'[s] = Postponed(heap[s]) /\ s # Oldest
               /\ dead' \/ heap[s].xmitms > 0
      /\ dead' \in BOOLEAN
      /\ dead' => \E s \in Left \ {Oldest} : heap[s].xmitms <= 0
  BY <1>1, RexmitEffect
<1>5. \A s \in Left : /\ s \in DOMAIN heap /\ s > snd_una /\ s \in Nat
                     /\ heap[s] \in Nodes /\ NodeTrue(s) /\ NodeDue(s)
  BY <1>1, NodeType DEF IInv, TypeOK, Left
<1>6. ASSUME NEW s \in Left
      PROVE  /\ Refired(heap[s]) \in Nodes
             /\ Refired(heap[s]).ms = Shown(real) + 2 * rto
             /\ Refired(heap[s]).xmitms = -1 /\ Refired(heap[s]).at = real
             /\ Refired(heap[s]).times # 1
             /\ Refired(heap[s]).low = rto /\ Refired(heap[s]).high = rto
  <2>1. heap[s].times + 1 \in Nat \ {0} /\ heap[s].times + 1 # 1
    BY <1>5, NodeType DEF IInv
  <2>2. TypeOK
    BY DEF IInv
  <2>3. Refired(heap[s]) = Node(getTimeMs + 2 * rto, -1, heap[s].times + 1)
    BY DEF Refired
  <2>4. -1 \in Nat \cup {-1}
    OBVIOUS
  <2> DEFINE ms == getTimeMs + 2 * rto
             times == heap[s].times + 1
  <2>5. /\ ms \in Nat /\ ms = Shown(real) + 2 * rto
        /\ times \in Nat \ {0} /\ times # 1 /\ Refired(heap[s]) = Node(ms, -1, times)
    BY <1>2, <2>1, <2>3
  <2> HIDE DEF ms, times
  <2> QED
    BY <2>2, <2>4, <2>5, NodeMade
<1>7. ASSUME NEW s \in Left
      PROVE  /\ Postponed(heap[s]) \in Nodes
             /\ Postponed(heap[s]).ms = heap[s].xmitms + 2 * rto
             /\ Postponed(heap[s]).xmitms = heap[s].xmitms
             /\ Postponed(heap[s]).at = heap[s].at
             /\ Postponed(heap[s]).times = heap[s].times
             /\ Postponed(heap[s]).low = heap[s].low
             /\ Postponed(heap[s]).high = heap[s].high
  BY <1>2, <1>5 DEF Postponed, Nodes
<1>8. TypeOK'
  <2>1. /\ DOMAIN heap' \subseteq 1 .. snd_nxt'
        /\ \A s \in DOMAIN heap' : heap'[s] \in Nodes
    BY <1>1, <1>4, <1>5, <1>6, <1>7 DEF IInv, TypeOK, Left
  <2>2. /\ queued' \in BOOLEAN /\ nagle' \in Nat /\ push' \in Nat
        /\ delack' \in {"XMIT", "QUE", "QUEXMIT", "EXPXMIT", "IMMED"}
        /\ runstate' \in {"GET_PKT", "PKT_RECOVERY"} /\ waiting' \in BOOLEAN
        /\ owed' \in Nat \cup {NoTime}
    <3>1. CASE queued /\ AckDue
      <4>1. queued' = TRUE /\ owed' = NoTime
        BY <1>1, <3>1 DEF TimerDelack, Rearmed
      <4>2. /\ delack' \in {"QUEXMIT", "EXPXMIT"}
            /\ nagle' = getTimeMs + Delayed /\ push' = getTimeMs + Prompt
            /\ UNCHANGED <<runstate, waiting>>
        BY <1>1, <3>1 DEF TimerDelack, Rearmed
      <4> QED
        BY <1>2, <4>1, <4>2, Constants DEF IInv, TypeOK
    <3>2. CASE ~(queued /\ AckDue)
      <4>1. UNCHANGED ackVars
        BY <1>1, <3>2 DEF TimerDelack
      <4> QED
        BY <4>1 DEF ackVars, IInv, TypeOK
    <3> QED
      BY <3>1, <3>2
  <2>3. since' \in 0 .. Period
    BY <1>1, Constants
  <2> QED
    BY <1>1, <1>4, <2>1, <2>2, <2>3 DEF IInv, TypeOK
<1>9. Held'
  BY <1>1, <1>2, <1>4 DEF IInv, Held, Left
<1>10. \A s \in DOMAIN heap' : NodeTrue(s)'
  <2> SUFFICES ASSUME NEW s \in Left PROVE NodeTrue(s)'
    BY <1>4
  <2>1. CASE heap'[s] = heap[s]
    BY <1>1, <1>5, <2>1 DEF NodeTrue
  <2>2. CASE heap'[s] = Refired(heap[s]) /\ s = Oldest
    BY <1>1, <1>2, <1>6, <2>2 DEF NodeTrue, Oldest
  <2>3. CASE heap'[s] = Postponed(heap[s])
    BY <1>1, <1>5, <1>7, <2>3 DEF NodeTrue
  <2> QED
    BY <1>4, <2>1, <2>2, <2>3
<1>11. ~dead' => \A s \in DOMAIN heap' : NodeDue(s)'
  <2> SUFFICES ASSUME ~dead', NEW s \in Left PROVE NodeDue(s)'
    BY <1>4
  <2>1. CASE heap'[s] = heap[s]
    BY <1>5, <2>1 DEF NodeDue
  <2>2. CASE heap'[s] = Refired(heap[s])
    BY <1>2, <1>6, <2>2 DEF NodeDue
  <2>3. CASE heap'[s] = Postponed(heap[s]) /\ heap[s].xmitms > 0
    <3>1. /\ heap[s].xmitms = Shown(heap[s].at) /\ heap[s].low <= rto /\ rto <= heap[s].high
      BY <1>5, <2>3, NodeType DEF NodeTrue, IInv
    <3>2. /\ heap[s].low \in Nat /\ heap[s].high \in Nat /\ heap[s].xmitms \in Int
      BY <1>5, NodeType DEF IInv
    <3>3. /\ heap'[s].ms = heap[s].xmitms + 2 * rto
          /\ heap'[s].at = heap[s].at
          /\ heap'[s].low = heap[s].low /\ heap'[s].high = heap[s].high
      BY <1>7, <2>3
    <3> QED
      BY <1>2, <2>3, <3>1, <3>2, <3>3 DEF NodeDue
  <2> QED
    BY <1>4, <2>1, <2>2, <2>3
<1>12. OldestSeen'
  <2> SUFFICES ASSUME Oldest \in Left PROVE OldestSeen'
    BY <1>1, <1>4 DEF OldestSeen, Oldest
  <2>1. CASE heap'[Oldest] = heap[Oldest] /\ ~Fires(heap[Oldest])
    <3>1. heap[Oldest].ms \in Nat
      BY <1>5, NodeType DEF IInv
    <3> QED
      BY <1>1, <1>2, <1>3, <2>1, <3>1 DEF OldestSeen, Fires, Oldest
  <2>2. CASE heap'[Oldest] = Refired(heap[Oldest])
    BY <1>1, <1>2, <1>3, <1>6, <2>2 DEF OldestSeen, Oldest
  <2> QED
    BY <1>4, <2>1, <2>2
<1>13. OwedSeen'
  <2> SUFFICES ASSUME owed' # NoTime, runstate' # "PKT_RECOVERY" PROVE OwedSeen'
    BY DEF OwedSeen
  <2>1. ~(queued /\ AckDue) /\ UNCHANGED ackVars
    BY <1>1 DEF TimerDelack
  <2>2. /\ delack = "XMIT" /\ queued /\ owed <= real /\ nagle = Shown(owed) + Delayed
    BY <2>1 DEF IInv, OwedSeen, ackVars
  <2>3. ~(nagle < getTimeMs) /\ nagle \in Nat
    BY <2>1, <2>2 DEF AckDue, IInv, TypeOK
  <2>4. Shown(real) <= nagle
    BY <1>2, <2>3
  <2> QED
    BY <1>1, <1>3, <2>1, <2>2, <2>4 DEF OwedSeen, ackVars
<1>16. Muted'
  <2>1. CASE queued /\ AckDue
    <3>1. delack # "IMMED" /\ delack' \in {"QUEXMIT", "EXPXMIT"} /\ UNCHANGED runstate
      BY <1>1, <2>1 DEF TimerDelack, AckDue
    <3> QED
      BY <3>1 DEF IInv, Muted
  <2>2. CASE ~(queued /\ AckDue)
    BY <1>1, <2>2 DEF TimerDelack, ackVars, IInv, Muted
  <2> QED
    BY <2>1, <2>2
<1>14. AssertsAtZero'
  <2> SUFFICES ASSUME dead' PROVE AssertsAtZero'
    BY DEF AssertsAtZero
  <2>1. PICK s \in Left \ {Oldest} : heap[s].xmitms <= 0
    BY <1>4
  <2>2. s > snd_una + 1
    BY <1>2, <1>5 DEF Oldest
  <2>3. heap[s].times = 1 /\ heap[s].xmitms = Shown(heap[s].at) /\ heap[s].at \in Nat
    BY <1>2, <1>5, <2>2, NodeType DEF NodeTrue, IInv
  <2>4. Shown(heap[s].at) = 0
    BY <2>1, <2>3, Reading
  <2>5. heap'[s].times = 1 /\ heap'[s].at = heap[s].at
    BY <1>4, <1>7, <2>1, <2>3
  <2> QED
    BY <1>4, <2>4, <2>5 DEF AssertsAtZero, Shown
<1>15. since' <= real' /\ real' <= MaxReal /\ progress' <= real'
  BY <1>1, <1>2 DEF IInv
<1> QED
  BY <1>8, <1>9, <1>10, <1>11, <1>12, <1>13, <1>14, <1>15, <1>16 DEF IInv

\* So does every step, and a step that changes nothing.
LEMMA NextIInv == IInv /\ [Next]_vars => IInv'
<1> SUFFICES ASSUME IInv, [Next]_vars PROVE IInv'
  OBVIOUS
<1>1. ASSUME Next PROVE IInv'
  <2> UNCHANGED sends
    BY <1>1 DEF Next
  <2>1. ASSUME NEW d \in Ticks, Tick(d) PROVE IInv'
    BY <2>1, TickIInv
  <2>2. CASE SendSegment
    BY <2>2, SendSegmentIInv
  <2>3. ASSUME NEW u \in 1 .. MaxSeq, ProcAck(u) PROVE IInv'
    BY <2>3, ProcAckIInv
  <2>4. CASE DeleteTimer
    BY <2>4, DeleteTimerIInv
  <2>5. CASE RexmitDupAck
    BY <2>5, RexmitDupAckIInv
  <2>6. CASE RunMatch \/ RunMore \/ RunResume
    BY <2>6, RunsIInv
  <2>7. CASE Round
    BY <2>7, RoundIInv
  <2> QED
    BY <1>1, <2>1, <2>2, <2>3, <2>4, <2>5, <2>6, <2>7 DEF Next
<1>2. CASE UNCHANGED vars
  <2>1. UNCHANGED <<sends, real, since, sendVars, ackVars>>
    BY <1>2 DEF vars
  <2>2. TypeOK' /\ Held' /\ AssertsAtZero' /\ LastRound' = LastRound
    BY <2>1 DEF IInv, TypeOK, Held, AssertsAtZero, LastRound, sendVars, ackVars
  <2>3. Muted' /\ OwedSeen' /\ (~dead' => OldestSeen')
    BY <2>1, <2>2 DEF IInv, Muted, OwedSeen, OldestSeen, sendVars, ackVars
  <2>4. /\ \A s \in DOMAIN heap' : NodeTrue(s)'
        /\ ~dead' => \A s \in DOMAIN heap' : NodeDue(s)'
    BY <2>1 DEF IInv, NodeTrue, NodeDue, sendVars
  <2>5. since' <= real' /\ real' <= MaxReal /\ progress' <= real'
    BY <2>1 DEF IInv, sendVars
  <2> QED
    BY <2>2, <2>3, <2>4, <2>5 DEF IInv
<1> QED
  BY <1>1, <1>2

\* The oldest segment waits as long as its node and the timer's rounds allow.
LEMMA IInvPunctual == IInv => Punctual
<1> DEFINE node == heap[snd_una + 1]
<1> SUFFICES ASSUME IInv, snd_una + 1 \in DOMAIN heap, ~dead, ~Wrapped(node.at)
             PROVE  real - Max({node.at, progress}) <= 2 * node.high + Period
  BY DEF Punctual
<1>1. /\ node.at \in Nat /\ node.ms \in Nat /\ node.high \in Nat /\ node.low \in Nat
      /\ node.at <= real
      /\ node.ms <= Shown(node.at) + 2 * node.high
  BY NodeType DEF IInv, NodeTrue, NodeDue
<1>2. /\ real \in Nat /\ since \in Nat /\ since <= Period /\ since <= real
      /\ progress \in Nat /\ progress <= real
  BY Constants DEF IInv, TypeOK
<1>3. LastRound \in Nat /\ LastRound = real - since
  BY <1>2 DEF LastRound
<1>4. Turn(node.at) = Turn(real)
  BY DEF Wrapped, Turn
<1> HIDE DEF node
<1>5. Max({node.at, progress}) = IF node.at >= progress THEN node.at ELSE progress
  BY <1>1, <1>2, MaxTwo
<1>6. \/ LastRound <= node.at
      \/ LastRound <= progress
      \/ Turn(node.at) # Turn(LastRound)
      \/ Shown(LastRound) <= node.ms
  BY DEF IInv, OldestSeen, node
<1>7. CASE LastRound <= node.at \/ LastRound <= progress
  BY <1>1, <1>2, <1>3, <1>5, <1>7, Constants
<1>8. CASE node.at < LastRound /\ progress < LastRound
  <2>1. /\ Turn(node.at) \in Nat /\ Turn(LastRound) \in Nat /\ Turn(real) \in Nat
        /\ Shown(node.at) \in Nat /\ Shown(LastRound) \in Nat
    BY <1>1, <1>2, <1>3, Reading
  <2>2. /\ Turn(node.at) <= Turn(LastRound)
        /\ Turn(node.at) = Turn(LastRound) =>
              Shown(LastRound) - Shown(node.at) = LastRound - node.at
    BY <1>1, <1>3, <1>8, Clock
  <2>3. Turn(LastRound) <= Turn(real)
    BY <1>2, <1>3, Clock
  <2>4. Turn(node.at) = Turn(LastRound)
    BY <1>4, <2>1, <2>2, <2>3
  <2>5. Shown(LastRound) <= node.ms
    BY <1>6, <1>3, <1>1, <1>2, <1>8, <2>4
  <2>6. LastRound - node.at <= 2 * node.high
    BY <1>1, <1>3, <2>1, <2>2, <2>4, <2>5
  <2> QED
    BY <1>1, <1>2, <1>3, <1>5, <1>8, <2>6, Constants
<1> QED
  BY <1>1, <1>2, <1>3, <1>7, <1>8

\* Data waits for its acknowledgement as long as its node and the rounds allow.
LEMMA IInvAckPunctual == IInv => AckPunctual
<1> SUFFICES ASSUME IInv, owed # NoTime, runstate # "PKT_RECOVERY", ~Wrapped(owed)
             PROVE  real - owed <= Delayed + Period
  BY DEF AckPunctual
<1>1. /\ real \in Nat /\ since \in Nat /\ since <= Period /\ since <= real
      /\ owed \in Nat /\ owed <= real /\ nagle = Shown(owed) + Delayed
      /\ \/ LastRound <= owed
         \/ Turn(owed) # Turn(LastRound)
         \/ Shown(LastRound) <= nagle
  BY Constants DEF IInv, TypeOK, OwedSeen
<1>2. LastRound \in Nat /\ LastRound = real - since
  BY <1>1 DEF LastRound
<1>3. Turn(owed) = Turn(real)
  BY DEF Wrapped, Turn
<1>4. CASE LastRound <= owed
  BY <1>1, <1>2, <1>4, Constants
<1>5. CASE owed < LastRound
  <2>1. /\ Turn(owed) \in Nat /\ Turn(LastRound) \in Nat /\ Turn(real) \in Nat
        /\ Shown(owed) \in Nat /\ Shown(LastRound) \in Nat
    BY <1>1, <1>2, Reading
  <2>2. /\ Turn(owed) <= Turn(LastRound)
        /\ Turn(owed) = Turn(LastRound) =>
              Shown(LastRound) - Shown(owed) = LastRound - owed
    BY <1>1, <1>2, <1>5, Clock
  <2>3. Turn(LastRound) <= Turn(real)
    BY <1>1, <1>2, Clock
  <2>4. Turn(owed) = Turn(LastRound)
    BY <1>3, <2>1, <2>2, <2>3
  <2> QED
    BY <1>1, <1>2, <1>5, <2>1, <2>2, <2>4, Constants
<1> QED
  BY <1>1, <1>2, <1>4, <1>5
-----------------------------------------------------------------------------
(***************************************************************************)
(* The estimate stays within the bounds of cal_rto; the oldest segment is  *)
(* sent again within two timeouts and a round of the timer; data waits for *)
(* the delayed acknowledgement's time and a round at most, if no recovery  *)
(* was left unfinished; and postpone_timer's assertion fails at the        *)
(* clock's zero only.                                                      *)
(***************************************************************************)
THEOREM TimingSafe == Spec => [](TypeOK /\ Punctual /\ AckPunctual /\ AssertsAtZero)
<1>1. IInv => TypeOK /\ Punctual /\ AckPunctual /\ AssertsAtZero
  BY IInvPunctual, IInvAckPunctual DEF IInv
<1> QED
  BY <1>1, InitIInv, NextIInv, PTL DEF Spec

\* A round sends again only what is due, and the due time is no earlier than the
\* lowest timeout after the last transmission.
LEMMA RoundNotEarly ==
    ASSUME IInv, Round, NEW s \in DOMAIN heap \cap DOMAIN heap',
           heap'[s].times > heap[s].times
    PROVE  real - heap[s].at > heap[s].low
<1>1. ~dead /\ Rexmit
  BY DEF Round
<1>2. /\ s \in Left
      /\ \/ heap'[s] = heap[s]
         \/ Fires(heap[s])
         \/ heap'[s] = Postponed(heap[s])
  BY <1>1, RexmitEffect
<1>3. heap[s] \in Nodes /\ heap[s].times \in Nat
  BY NodeType DEF IInv, TypeOK
<1>4. Postponed(heap[s]).times = heap[s].times
  BY <1>3 DEF Postponed, Nodes
<1>5. Fires(heap[s])
  BY <1>2, <1>3, <1>4
<1>6. /\ heap[s].at \in Nat /\ heap[s].ms \in Nat /\ heap[s].low \in Nat
      /\ heap[s].at <= real /\ Shown(heap[s].at) + heap[s].low <= heap[s].ms
  BY <1>1, NodeType DEF IInv, NodeTrue, NodeDue
<1>7. real \in Nat /\ getTimeMs = Shown(real)
  BY Now DEF IInv, TypeOK
<1>8. heap[s].ms < Shown(real)
  BY <1>5, <1>7 DEF Fires
<1>9. Shown(real) - Shown(heap[s].at) <= real - heap[s].at
  BY <1>6, <1>7, Clock
<1>10. Shown(real) \in Nat /\ Shown(heap[s].at) \in Nat
  BY <1>6, <1>7, Reading
<1> QED
  BY <1>6, <1>7, <1>8, <1>9, <1>10

(***************************************************************************)
(* The timer sends no segment again before its timeout has really passed.  *)
(***************************************************************************)
THEOREM TimingEarly == Spec => NeverEarly
<1>1. IInv /\ [Next]_vars =>
        [Round => \A s \in DOMAIN heap \cap DOMAIN heap' :
            heap'[s].times > heap[s].times => real - heap[s].at > heap[s].low]_vars
  BY RoundNotEarly
<1> QED
  BY <1>1, InitIInv, NextIInv, PTL DEF Spec, NeverEarly

\* Only delete_timer makes an estimate, and it makes it from the true age.
LEMMA EstimateTrue ==
    ASSUME IInv, Next, rtt' # rtt
    PROVE  LET node == heap[snd_una]
               turns == real \div Wrap - node.at \div Wrap
               age == real - node.at - turns * Wrap
               sample == Max({age, MinRtt}) IN
           /\ node.times = 1
           /\ rtt' \in Min({rtt, sample}) - 1 .. Max({rtt, sample})
<1> DEFINE node == heap[snd_una]
           turns == real \div Wrap - node.at \div Wrap
           age == real - node.at - turns * Wrap
           sample == Max({age, MinRtt})
<1>1. DeleteTimer
  <2>1. ASSUME NEW d \in Ticks, Tick(d) PROVE FALSE
    BY <2>1 DEF Tick, sendVars
  <2>2. ASSUME SendSegment PROVE FALSE
    BY <2>2 DEF SendSegment
  <2>3. ASSUME NEW u \in 1 .. MaxSeq, ProcAck(u) PROVE FALSE
    BY <2>3 DEF ProcAck
  <2>4. ASSUME RexmitDupAck PROVE FALSE
    BY <2>4 DEF RexmitDupAck
  <2>5. ASSUME RunMatch \/ RunMore \/ RunResume PROVE FALSE
    BY <2>5 DEF RunMatch, RunMore, RunResume, sendVars
  <2>6. ASSUME Round PROVE FALSE
    BY <2>6 DEF Round
  <2> QED
    BY <2>1, <2>2, <2>3, <2>4, <2>5, <2>6 DEF Next
<1>2. snd_una \in DOMAIN heap /\ node.xmitms >= 0 /\ rtt' = Estimate(rtt, Sampled(node))
  BY <1>1 DEF DeleteTimer, Recalculated
<1>3. /\ node.times = 1
      /\ Sampled(node) = Max({Shown(real) - Shown(node.at), MinRtt})
      /\ Sampled(node) \in Nat
  BY <1>2, SampleTrue
<1>4. node.at \in Nat /\ real \in Nat /\ node.at <= real /\ rtt \in Nat
  BY <1>2, NodeType, TimeoutType DEF IInv, TypeOK, NodeTrue
<1>5. age = Shown(real) - Shown(node.at)
  <2>1. turns = Turn(real) - Turn(node.at)
    BY DEF Turn
  <2>2. Shown(real) - Shown(node.at) = real - node.at - (Turn(real) - Turn(node.at)) * Wrap
    BY <1>4, Clock
  <2> HIDE DEF node, turns
  <2> QED
    BY <2>1, <2>2
<1>6. sample = Sampled(node)
  BY <1>3, <1>5
<1> HIDE DEF node, sample
<1>7. /\ Estimate(rtt, sample) \in Nat
      /\ Estimate(rtt, sample) >= Min({rtt, sample}) - 1
      /\ Estimate(rtt, sample) <= Max({rtt, sample})
  BY <1>3, <1>4, <1>6, EstimateBounds
<1>8. Min({rtt, sample}) \in Nat /\ Max({rtt, sample}) \in Nat
  <2>1. rtt \in Nat /\ sample \in Nat
    BY <1>3, <1>4, <1>6
  <2>2. Min({rtt, sample}) = IF rtt <= sample THEN rtt ELSE sample
    BY <2>1, MinTwo
  <2>3. Max({rtt, sample}) = IF rtt >= sample THEN rtt ELSE sample
    BY <2>1, MaxTwo
  <2> QED
    BY <2>1, <2>2, <2>3
<1>9. node.times = 1 /\ rtt' \in Min({rtt, sample}) - 1 .. Max({rtt, sample})
  BY <1>2, <1>3, <1>6, <1>7, <1>8
<1> QED
  BY <1>9 DEF node, sample

(***************************************************************************)
(* An estimate is made from the true round trip of a segment sent once,    *)
(* and moves towards it without passing it.                                *)
(***************************************************************************)
THEOREM TimingSamples == Spec => SamplesTrue
<1>1. IInv /\ [Next]_vars =>
        [rtt' # rtt =>
            LET node == heap[snd_una]
                turns == real \div Wrap - node.at \div Wrap
                age == real - node.at - turns * Wrap
                sample == Max({age, MinRtt}) IN
            /\ node.times = 1
            /\ rtt' \in Min({rtt, sample}) - 1 .. Max({rtt, sample})]_vars
  BY EstimateTrue
<1> QED
  BY <1>1, InitIInv, NextIInv, PTL DEF Spec, SamplesTrue
=============================================================================
