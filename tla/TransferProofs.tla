--------------------------- MODULE TransferProofs ---------------------------
(***************************************************************************)
(* Part I.  Theorems about Sender, for every number of application         *)
(* threads, every segment size, window, stream and set of writes, and any  *)
(* peer:                                                                   *)
(*   - SenderWindow: types, what is in flight never exceeds the window,    *)
(*     and no segment of no bytes is sent;                                 *)
(*   - SenderNeverStrands: data is never left in the send buffer with      *)
(*     nothing in flight and nobody about to send it;                      *)
(*   - SenderReliable: what is sent and not acknowledged is held, what is  *)
(*     on the wire is what belongs there, and, where touSend and run() do  *)
(*     not overlap, only the oldest segment is sent again and the process  *)
(*     does not end itself; all this of a stream without a zero byte.      *)
(*                                                                         *)
(* Part II.  Theorems about Transfer, for every segment size, window and   *)
(* network, whether or not touSend overlaps with a run(), of a stream      *)
(* without a zero byte and a peer whose buffer takes what its run() asks   *)
(* for:                                                                    *)
(*   - TransferImplementsStream: the two ends are a byte stream;           *)
(*   - TransferAgrees: their numbers keep their order;                     *)
(*   - TransferRests: when nothing will be sent again, all is delivered;   *)
(*   - TransferLives: the peer finds its nodes and, where touSend and      *)
(*     run() do not overlap, neither process ends itself.                  *)
(* Part I shows what the one end keeps, and ReceiverProofs what the other  *)
(* keeps against any network.  What is left is what relates the two: the   *)
(* segments under way, the acknowledgements, and the out-of-order heap.    *)
(***************************************************************************)
EXTENDS Transfer, TLAPS, SequenceTheorems, WellFoundedInduction

(***************************************************************************)
(* Part I: the sending half.                                               *)
(***************************************************************************)
\* ssca's operators keep the congestion window in bounds: see SscaProofs.
Ssca == INSTANCE SscaProofs WITH run <- "idle", rexmits <- 0

SendPcs == {"window", "pop", "sendto", "add"}
RunPcs == {"delete", "dupack", "ckdup", "rexmit"}

\* The nodes on a heap.
On(heap) == {heap[i] : i \in 1..Len(heap)}

Sorted(heap) == \A i, j \in 1..Len(heap) : i <= j => heap[i].pid <= heap[j].pid

\* What the window may be at most.
WindowLimit == IF Awnd < MaxWnd THEN Awnd ELSE MaxWnd
-----------------------------------------------------------------------------
(* The inductive invariant                                                 *)

TypeInv ==
    /\ TypeOK
    /\ Ssca!WndInv(cc)
    /\ 1 <= snd_una /\ snd_una <= snd_nxt
    /\ snd_nxt = popped + 1 /\ popped <= written

\* Who holds send_mtx and run_t_mtx, by where the threads are.
LockInv ==
    /\ \A t \in Threads : sendBy = t <=> pc[t] \in SendPcs
    /\ \A t \in Threads : pc[t] \in RunPcs => runBy = t /\ ack = snd_una
    /\ \A t \in Threads : runBy = t => pc[t] \in RunPcs \cup SendPcs \cup {"send"}
    /\ pc[Timer] \in SendPcs \cup {"send"} => runBy = Timer

\* Unless they may overlap, whoever is in send() is in run(), if anyone is.
SoloInv ==
    ~overlap /\ runBy # NoOne =>
        /\ sendBy \in {NoOne, runBy}
        /\ \A t \in Apps : pc[t] = "send" => t = runBy

\* The window send() works with, and what is in flight.
WindowInv ==
    /\ curwnd <= WindowLimit
    /\ snd_nxt - snd_una <= WindowLimit
    /\ \A t \in Threads : pc[t] = "pop" => popped < written

\* In congestion avoidance the count leaves room for one more byte at least.
CountInv ==
    /\ ~overlap /\ sendBy # NoOne /\ cc.cc_state = "CA" =>
          /\ xmit_cnt > 0 => (xmit_cnt - 1) * SMSS < Room(getwnd(cc, Awnd))
          /\ \A t \in Threads : pc[t] = "pop" => curwnd = getwnd(cc, Awnd)
    /\ NoEmptySegment

\* What the timer thread and sendpkt rely on when they touch a node.
FireInv == pc[Timer] = "fire" => timerheap # <<>>
LenInv == \A n \in On(timerheap) : n.len <= n.pid

\* The segment in hand, from popsndq to tmng.add, is the last one.
HandInv ==
    /\ cur # NoSegment <=> \E t \in Threads : pc[t] \in {"sendto", "add"}
    /\ cur.seq = cur.from
    /\ cur # NoSegment =>
          /\ cur.seq >= 1 /\ cur.seq + cur.len = snd_nxt
          /\ \A n \in On(timerheap) : n.pid <= cur.seq
          /\ ~overlap => cur.len > 0

\* The timer nodes, in the order of the heap.
NodeInv ==
    /\ \A n \in On(timerheap) : n.pid <= snd_nxt /\ Start(n) = n.from
    /\ Sorted(timerheap)

\* The bytes of the timer nodes and of the segment in hand, as intervals.
Spans == {[lo |-> Start(n), hi |-> n.pid] : n \in On(timerheap)}
         \cup {[lo |-> cur.seq, hi |-> cur.seq + cur.len]}

\* x is a sequence number at which a segment may end: it is inside none.
AtBoundary(x) == x <= snd_nxt /\ \A s \in Spans : ~(s.lo < x /\ x < s.hi)

\* Segments do not overlap, and what is acknowledged ends with a segment.
SpanInv ==
    /\ \A s \in Spans : AtBoundary(s.lo) /\ AtBoundary(s.hi)
    /\ AtBoundary(snd_una)

\* Unless touSend overlaps with a run(): what the timer fires is the oldest.
OldestInv ==
    ~overlap =>
        /\ died = "no"
        /\ \A n \in On(timerheap) : n.len > 0
                                    /\ (n.rex => Start(n) <= snd_una)
        /\ pc[Timer] = "fire" =>
              \A n \in On(timerheap) : n.rex => Start(n) < Head(timerheap).pid

\* What holds whatever the bytes of the stream are ...
SafeInv == TypeInv /\ LockInv /\ SoloInv /\ WindowInv /\ CountInv /\ FireInv /\ LenInv

\* ... and what holds of a stream without a zero byte.
StreamInv ==
    /\ HandInv /\ NodeInv /\ SpanInv /\ OldestInv
    /\ UnackedIsHeld /\ WireContent
-----------------------------------------------------------------------------
(* Sequences: the timer heap                                               *)

\* A set of numbers that is not empty has a least element.
LEMMA LeastElement ==
    ASSUME NEW S \in SUBSET Nat, S # {}
    PROVE  \E x \in S : \A y \in S : x <= y
<1> DEFINE Less == OpToRel(<, Nat)
<1>0. S \subseteq Nat
  OBVIOUS
<1>1. IsWellFoundedOn(Less, Nat)
  BY NatLessThanWellFounded
<1>2. \E x \in S : \A y \in S : ~(<<y, x>> \in Less)
  <2> HIDE DEF Less
  <2>1. \A T : T \subseteq Nat /\ T # {}
               => \E x \in T : \A y \in T : ~(<<y, x>> \in Less)
    BY <1>1, WFMin
  <2> QED
    BY <1>0, <2>1
<1>3. PICK x \in S : \A y \in S : ~(<<y, x>> \in Less)
  BY <1>2
<1>4. \A y \in S : <<y, x>> \in Less <=> y < x
  BY <1>0 DEF OpToRel
<1>5. \A y \in S : ~(y < x)
  <2> HIDE DEF Less
  <2> QED
    BY <1>3, <1>4
<1> HIDE DEF Less
<1> QED
  BY <1>0, <1>5

\* Min is what it is called.
LEMMA MinProperties ==
    ASSUME NEW S \in SUBSET Nat, S # {}
    PROVE  Min(S) \in S /\ \A y \in S : Min(S) <= y
BY LeastElement DEF Min

\* What From leaves of a heap, whichever indices I its predicate holds at: the
\* part that begins with the first of them.
LEMMA FromFirst ==
    ASSUME NEW heap \in Seq(Nodes), NEW I \in SUBSET (1..Len(heap)),
           NEW rest,
           rest = LET first == IF I # {} THEN Min(I) ELSE 0
                  IN IF first = 0 THEN <<>> ELSE SubSeq(heap, first, Len(heap))
    PROVE  /\ rest \in Seq(Nodes)
           /\ On(rest) \subseteq On(heap)
           /\ \A i \in I : heap[i] \in On(rest)
           /\ rest # <<>> => \E i \in I : Head(rest) = heap[i]
           /\ Sorted(heap) => Sorted(rest)
<1>1. Len(heap) \in Nat /\ \A i \in 1..Len(heap) : heap[i] \in Nodes
  OBVIOUS
<1>2. CASE I = {}
  BY <1>2 DEF On, Sorted
<1>3. CASE I # {}
  <2>1. Min(I) \in I /\ \A i \in I : Min(I) <= i
    BY <1>1, <1>3, MinProperties
  <2> DEFINE k == Min(I)
             n == Len(heap)
  <2>2. k \in 1..n /\ k # 0
    <3>1. \A i \in I : i \in 1..n /\ i # 0
      BY <1>1
    <3> QED
      BY <2>1, <3>1
  <2>0. rest = SubSeq(heap, k, n)
    BY <1>3, <2>2
  <2>3. \A i \in k..n : heap[i] \in Nodes
    BY <1>1, <2>2
  <2>10. k \in Int /\ n \in Int /\ k <= n
    BY <1>1, <2>2
  <2> HIDE DEF k, n
  <2>4. /\ rest \in Seq(Nodes)
        /\ Len(rest) = n - k + 1
        /\ \A i \in 1..(n - k + 1) : rest[i] = heap[k + i - 1]
    <3>1. /\ SubSeq(heap, k, n) \in Seq(Nodes)
          /\ Len(SubSeq(heap, k, n)) = n - k + 1
          /\ \A i \in 1..(n - k + 1) : SubSeq(heap, k, n)[i] = heap[k + i - 1]
      BY <2>3, <2>10, SubSeqProperties
    <3> QED
      BY <2>0, <3>1
  <2>5. \A i \in 1..Len(rest) : k + i - 1 \in 1..n
    BY <1>1, <2>2, <2>4 DEF n
  <2>6. On(rest) \subseteq On(heap)
    <3> SUFFICES ASSUME NEW i \in 1..Len(rest)
                 PROVE  rest[i] \in On(heap)
      BY DEF On
    <3>1. rest[i] = heap[k + i - 1]
      BY <2>4
    <3>2. k + i - 1 \in 1..Len(heap)
      BY <2>5 DEF n
    <3> QED
      BY <3>1, <3>2 DEF On
  <2>7. ASSUME NEW i \in I
        PROVE  heap[i] \in On(rest)
    <3>1. i - k + 1 \in 1..Len(rest) /\ k + (i - k + 1) - 1 = i
      BY <1>1, <2>1, <2>2, <2>4 DEF n, k
    <3> QED
      BY <2>4, <3>1 DEF On
  <2>8. Head(rest) = heap[k] /\ k \in I
    BY <2>1, <2>2, <2>4 DEF k
  <2>9. Sorted(heap) => Sorted(rest)
    <3> SUFFICES ASSUME Sorted(heap),
                        NEW i \in 1..Len(rest), NEW j \in 1..Len(rest), i <= j
                 PROVE  rest[i].pid <= rest[j].pid
      BY DEF Sorted
    <3>1. k + i - 1 <= k + j - 1
      BY <2>4, <2>10
    <3> QED
      BY <2>4, <2>5, <3>1 DEF Sorted, n
  <2> QED
    BY <2>4, <2>6, <2>7, <2>8, <2>9
<1> QED
  BY <1>2, <1>3

\* Taking the top node away.
LEMMA TailOfHeap ==
    ASSUME NEW heap \in Seq(Nodes), heap # <<>>
    PROVE  /\ Head(heap) \in On(heap) /\ Head(heap) \in Nodes
           /\ Tail(heap) \in Seq(Nodes)
           /\ On(heap) = On(Tail(heap)) \cup {Head(heap)}
           /\ Sorted(heap) => /\ Sorted(Tail(heap))
                              /\ \A n \in On(heap) : Head(heap).pid <= n.pid
<1> DEFINE n == Len(heap)
           rest == Tail(heap)
<1>1. /\ n \in Nat \ {0} /\ \A i \in 1..n : heap[i] \in Nodes
      /\ Head(heap) = heap[1]
  OBVIOUS
<1>2. /\ rest \in Seq(Nodes) /\ Len(rest) = n - 1
      /\ \A i \in 1..(n - 1) : rest[i] = heap[i + 1]
  BY HeadTailProperties
<1> HIDE DEF rest
<1>3. On(heap) = On(rest) \cup {Head(heap)}
  <2>1. \A i \in 1..n : i # 1 => i - 1 \in 1..(n - 1) /\ heap[i] = rest[i - 1]
    BY <1>1, <1>2
  <2>2. \A i \in 1..n : heap[i] \in On(rest) \cup {Head(heap)}
    BY <1>1, <1>2, <2>1 DEF On
  <2>3. \A i \in 1..(n - 1) : rest[i] \in On(heap)
    <3> TAKE i \in 1..(n - 1)
    <3>1. i + 1 \in 1..n /\ rest[i] = heap[i + 1]
      BY <1>1, <1>2
    <3> QED
      BY <3>1 DEF On
  <2>4. On(heap) \subseteq On(rest) \cup {Head(heap)}
    BY <2>2 DEF On
  <2>5. On(rest) \subseteq On(heap)
    BY <1>2, <2>3 DEF On
  <2>6. Head(heap) \in On(heap)
    BY <1>1 DEF On
  <2> QED
    BY <2>4, <2>5, <2>6
<1>4. Sorted(heap) => Sorted(rest)
  <2> SUFFICES ASSUME Sorted(heap),
                      NEW i \in 1..(n - 1), NEW j \in 1..(n - 1), i <= j
               PROVE  rest[i].pid <= rest[j].pid
    BY <1>2 DEF Sorted
  <2>1. i + 1 \in 1..n /\ j + 1 \in 1..n /\ i + 1 <= j + 1
    BY <1>1
  <2>2. heap[i + 1].pid <= heap[j + 1].pid
    BY <2>1 DEF Sorted
  <2> QED
    BY <1>2, <2>2
<1>5. Sorted(heap) => \A m \in On(heap) : Head(heap).pid <= m.pid
  BY <1>1 DEF Sorted, On
<1> QED
  BY <1>1, <1>2, <1>3, <1>4, <1>5 DEF rest

\* RemoveFirst takes the top away if that is what it is asked for.
LEMMA RemoveHead ==
    ASSUME NEW heap \in Seq(Nodes), heap # <<>>
    PROVE  RemoveFirst(heap, Head(heap)) = Tail(heap)
<1> DEFINE I == {i \in 1..Len(heap) : heap[i] = Head(heap)}
           n == Len(heap)
<1>1. n \in Nat \ {0} /\ Head(heap) = heap[1]
  OBVIOUS
<1>2. I \in SUBSET Nat /\ 1 \in I /\ \A i \in I : i >= 1
  BY <1>1
<1>3. Min(I) \in I /\ Min(I) <= 1
  BY <1>2, MinProperties
<1>4. Min(I) = 1
  <2>1. \A i \in I : i <= 1 => i = 1
    BY <1>2
  <2> QED
    BY <1>3, <2>1
<1>5. \E i \in 1..Len(heap) : heap[i] = Head(heap)
  BY <1>1
<1>9. RemoveFirst(heap, Head(heap))
        = RemoveAt(heap, IF I # {} THEN Min(I) ELSE 0)
  BY <1>5 DEF RemoveFirst, SelectInSeq
<1>6. RemoveFirst(heap, Head(heap)) = SubSeq(heap, 1, 0) \o SubSeq(heap, 2, n)
  <2>1. (IF I # {} THEN Min(I) ELSE 0) = 1
    BY <1>2, <1>4
  <2> HIDE DEF I
  <2>2. RemoveFirst(heap, Head(heap)) = RemoveAt(heap, 1)
    BY <1>9, <2>1
  <2> QED
    BY <1>1, <2>2 DEF RemoveAt
<1>7. SubSeq(heap, 1, 0) = <<>> /\ SubSeq(heap, 2, n) = Tail(heap)
  BY SubSeqEmpty, TailIsSubSeq
<1>8. Tail(heap) \in Seq(Nodes)
  BY HeadTailProperties
<1> QED
  BY <1>6, <1>7, <1>8, ConcatEmptySeq

\* A pushed node joins the others, in its place.
LEMMA PushesOne ==
    ASSUME NEW heap \in Seq(Nodes), NEW node \in Nodes,
           NEW h \in Pushes(heap, node)
    PROVE  /\ h \in Seq(Nodes) /\ h # <<>>
           /\ On(h) = On(heap) \cup {node}
           /\ Sorted(heap) => Sorted(h)
<1> DEFINE n == Len(heap)
<1>1. n \in Nat /\ \A i \in 1..n : heap[i] \in Nodes
  OBVIOUS
<1>2. PICK k \in 1..(n + 1) :
         /\ h = InsertAt(heap, k, node)
         /\ \A i \in 1..(Len(h) - 1) : h[i].pid <= h[i + 1].pid
  BY DEF Pushes
<1> DEFINE a == SubSeq(heap, 1, k - 1)
           b == SubSeq(heap, k, n)
           c == a \o <<node>>
<1>3. k \in Nat /\ 1 <= k /\ k <= n + 1
  BY <1>1
<1>4. /\ a \in Seq(Nodes) /\ Len(a) = k - 1
      /\ \A i \in 1..(k - 1) : a[i] = heap[i]
  <2>1. \A i \in 1..(k - 1) : heap[i] \in Nodes
    BY <1>1, <1>3
  <2>2. /\ a \in Seq(Nodes)
        /\ Len(a) = IF 1 <= k - 1 THEN (k - 1) - 1 + 1 ELSE 0
        /\ \A i \in 1..((k - 1) - 1 + 1) : a[i] = heap[1 + i - 1]
    BY <1>3, <2>1, SubSeqProperties
  <2> HIDE DEF a
  <2> QED
    BY <1>3, <2>2
<1>5. /\ b \in Seq(Nodes) /\ Len(b) = n - k + 1
      /\ \A i \in 1..(n - k + 1) : b[i] = heap[k + i - 1]
  <2>1. \A i \in k..n : heap[i] \in Nodes
    BY <1>1, <1>3
  <2>2. /\ b \in Seq(Nodes)
        /\ Len(b) = IF k <= n THEN n - k + 1 ELSE 0
        /\ \A i \in 1..(n - k + 1) : b[i] = heap[k + i - 1]
    BY <1>1, <1>3, <2>1, SubSeqProperties
  <2> HIDE DEF b
  <2> QED
    BY <1>1, <1>3, <2>2
<1>6. <<node>> \in Seq(Nodes) /\ Len(<<node>>) = 1 /\ <<node>>[1] = node
  OBVIOUS
<1> HIDE DEF a, b
<1>7. /\ c \in Seq(Nodes) /\ Len(c) = k
      /\ \A i \in 1..k : c[i] = IF i <= k - 1 THEN heap[i] ELSE node
  <2>1. /\ c \in Seq(Nodes) /\ Len(c) = (k - 1) + 1
        /\ \A i \in 1..((k - 1) + 1) :
              c[i] = IF i <= k - 1 THEN a[i] ELSE <<node>>[i - (k - 1)]
    BY <1>4, <1>6, ConcatProperties
  <2>2. \A i \in 1..k : i <= k - 1 \/ i - (k - 1) = 1
    BY <1>3
  <2> HIDE DEF c
  <2> QED
    BY <1>3, <1>4, <1>6, <2>1, <2>2
<1> HIDE DEF c
<1>8. /\ h \in Seq(Nodes) /\ Len(h) = n + 1
      /\ \A i \in 1..(n + 1) : h[i] = IF i <= k - 1 THEN heap[i]
                                      ELSE IF i = k THEN node ELSE heap[i - 1]
  <2>1. h = c \o b
    BY <1>2 DEF InsertAt, a, b, c
  <2>2. /\ c \o b \in Seq(Nodes) /\ Len(c \o b) = Len(c) + Len(b)
        /\ \A i \in 1..(Len(c) + Len(b)) :
              (c \o b)[i] = IF i <= Len(c) THEN c[i] ELSE b[i - Len(c)]
    BY <1>5, <1>7, ConcatProperties
  <2>3. Len(c) = k /\ Len(b) = n - k + 1 /\ k + (n - k + 1) = n + 1
    BY <1>1, <1>3, <1>5, <1>7
  <2>4. /\ h \in Seq(Nodes) /\ Len(h) = n + 1
        /\ \A i \in 1..(n + 1) : h[i] = IF i <= k THEN c[i] ELSE b[i - k]
    BY <2>1, <2>2, <2>3
  <2>5. \A i \in 1..(n + 1) : ~(i <= k) => b[i - k] = heap[i - 1]
    <3>1. \A i \in 1..(n + 1) : ~(i <= k) => /\ i - k \in 1..(n - k + 1)
                                            /\ k + (i - k) - 1 = i - 1
      BY <1>1, <1>3
    <3> QED
      BY <1>5, <3>1
  <2>6. \A i \in 1..(n + 1) : i <= k => c[i] = IF i <= k - 1 THEN heap[i] ELSE node
    BY <1>3, <1>7
  <2>7. ASSUME NEW i \in 1..(n + 1)
        PROVE  h[i] = IF i <= k - 1 THEN heap[i]
                      ELSE IF i = k THEN node ELSE heap[i - 1]
    <3>1. i \in Nat
      BY <1>1
    <3>2. CASE i <= k - 1
      BY <1>3, <2>4, <2>6, <3>1, <3>2
    <3>3. CASE i = k
      BY <1>3, <2>4, <2>6, <3>3
    <3>4. CASE i > k
      BY <1>3, <2>4, <2>5, <3>1, <3>4
    <3> QED
      BY <1>3, <3>1, <3>2, <3>3, <3>4
  <2> QED
    BY <2>4, <2>7
<1>9. On(h) = On(heap) \cup {node}
  <2>1. \A i \in 1..(n + 1) : h[i] \in On(heap) \cup {node}
    BY <1>1, <1>3, <1>8 DEF On
  <2>2. node \in On(h)
    BY <1>1, <1>3, <1>8 DEF On
  <2>3. ASSUME NEW i \in 1..n PROVE heap[i] \in On(h)
    <3>1. CASE i <= k - 1
      BY <1>1, <1>3, <1>8, <3>1 DEF On
    <3>2. CASE ~(i <= k - 1)
      <4>1. i + 1 \in 1..(n + 1) /\ h[i + 1] = heap[i]
        BY <1>1, <1>3, <1>8, <3>2
      <4> QED
        BY <1>8, <4>1 DEF On
    <3> QED
      BY <3>1, <3>2
  <2> QED
    BY <1>8, <2>1, <2>2, <2>3 DEF On
<1>10. ASSUME Sorted(heap) PROVE Sorted(h)
  <2>1. \A i \in 1..n : heap[i].pid \in Nat
    BY <1>1 DEF Nodes
  <2>2. \A i, j \in 1..n : i <= j => heap[i].pid <= heap[j].pid
    BY <1>10 DEF Sorted
  <2>3. node.pid \in Nat
    BY DEF Nodes
  <2>4. \A i \in 1..(k - 1) : heap[i].pid <= node.pid
    <3>1. k - 1 \in 1..n => heap[k - 1].pid <= node.pid
      BY <1>1, <1>2, <1>3, <1>8
    <3> SUFFICES ASSUME NEW i \in 1..(k - 1)
                 PROVE  heap[i].pid <= node.pid
      OBVIOUS
    <3>2. i \in 1..n /\ k - 1 \in 1..n /\ i <= k - 1
      BY <1>1, <1>3
    <3>3. heap[i].pid <= heap[k - 1].pid
      BY <2>2, <3>2
    <3>4. heap[i].pid \in Nat /\ heap[k - 1].pid \in Nat
      BY <2>1, <3>2
    <3> QED
      BY <2>3, <3>1, <3>2, <3>3, <3>4
  <2>5. \A i \in k..n : node.pid <= heap[i].pid
    <3>1. k \in 1..n => node.pid <= heap[k].pid
      BY <1>1, <1>2, <1>3, <1>8
    <3> SUFFICES ASSUME NEW i \in k..n
                 PROVE  node.pid <= heap[i].pid
      OBVIOUS
    <3>2. i \in 1..n /\ k \in 1..n /\ k <= i
      BY <1>1, <1>3
    <3>3. heap[k].pid <= heap[i].pid
      BY <2>2, <3>2
    <3>4. heap[i].pid \in Nat /\ heap[k].pid \in Nat
      BY <2>1, <3>2
    <3> QED
      BY <2>3, <3>1, <3>2, <3>3, <3>4
  <2> SUFFICES ASSUME NEW i \in 1..(n + 1), NEW j \in 1..(n + 1), i <= j
               PROVE  h[i].pid <= h[j].pid
    BY <1>8 DEF Sorted
  <2>6. CASE i <= k - 1 /\ j <= k - 1
    <3>1. i \in 1..n /\ j \in 1..n
      BY <1>1, <1>3, <2>6
    <3>2. h[i] = heap[i] /\ h[j] = heap[j]
      BY <1>8, <2>6
    <3> QED
      BY <2>2, <3>1, <3>2
  <2>7. CASE i <= k - 1 /\ j = k
    <3>1. i \in 1..(k - 1) /\ ~(k <= k - 1)
      BY <1>3, <2>7
    <3>2. h[i] = heap[i] /\ h[j] = node
      BY <1>8, <2>7, <3>1
    <3> QED
      BY <2>4, <3>1, <3>2
  <2>8. CASE i <= k - 1 /\ j > k
    <3>1. i \in 1..n /\ j - 1 \in 1..n /\ i <= j - 1
      BY <1>1, <1>3, <2>8
    <3>2. h[i] = heap[i] /\ h[j] = heap[j - 1]
      BY <1>1, <1>3, <1>8, <2>8
    <3> QED
      BY <2>2, <3>1, <3>2
  <2>9. CASE i = k /\ j = k
    BY <1>3, <1>8, <2>3, <2>9
  <2>10. CASE i = k /\ j > k
    <3>1. j - 1 \in k..n
      BY <1>1, <1>3, <2>10
    <3>2. h[i] = node /\ h[j] = heap[j - 1]
      BY <1>1, <1>3, <1>8, <2>10
    <3> QED
      BY <2>5, <3>1, <3>2
  <2>11. CASE i > k
    <3>1. i - 1 \in 1..n /\ j - 1 \in 1..n /\ i - 1 <= j - 1
      BY <1>1, <1>3, <2>11
    <3>2. ~(i <= k - 1) /\ i # k /\ ~(j <= k - 1) /\ j # k
      BY <1>1, <1>3, <2>11
    <3>3. h[i] = heap[i - 1] /\ h[j] = heap[j - 1]
      BY <1>8, <3>2
    <3> QED
      BY <2>2, <3>1, <3>3
  <2> QED
    BY <1>1, <1>3, <2>6, <2>7, <2>8, <2>9, <2>10, <2>11
<1>11. h # <<>>
  BY <1>1, <1>8
<1> QED
  BY <1>8, <1>9, <1>10, <1>11

\* What proc_clear_ackedpkt(.., una_seq, ..) keeps.
LEMMA AcknowledgedKeeps ==
    ASSUME NEW heap \in Seq(Nodes), NEW una \in Nat
    PROVE  LET rest == Acknowledged(heap, una)
           IN /\ rest \in Seq(Nodes)
              /\ On(rest) \subseteq On(heap)
              /\ \A n \in On(heap) : n.pid > una => n \in On(rest)
              /\ Sorted(heap) => Sorted(rest)
<1> DEFINE I == {i \in 1..Len(heap) : heap[i].pid >= una}
           rest == From(heap, LAMBDA node : node.pid >= una)
<1>1. rest = LET first == IF I # {} THEN Min(I) ELSE 0
             IN IF first = 0 THEN <<>> ELSE SubSeq(heap, first, Len(heap))
  BY DEF From, SelectInSeq
<1>2. I \in SUBSET (1..Len(heap))
  OBVIOUS
<1> HIDE DEF rest
<1>3. /\ rest \in Seq(Nodes) /\ On(rest) \subseteq On(heap)
      /\ \A i \in I : heap[i] \in On(rest)
      /\ Sorted(heap) => Sorted(rest)
  <2> HIDE DEF I
  <2> QED
    BY <1>1, <1>2, FromFirst
<1>4. \A n \in On(heap) : n.pid > una => n \in On(rest)
  <2>1. \A i \in 1..Len(heap) : heap[i] \in Nodes
    OBVIOUS
  <2>2. \A i \in 1..Len(heap) : heap[i].pid \in Nat
    BY <2>1 DEF Nodes
  <2> QED
    BY <1>3, <2>2 DEF On
<1>5. Acknowledged(heap, una)
        = IF rest # <<>> /\ Head(rest).pid = una THEN Tail(rest) ELSE rest
  BY DEF Acknowledged, rest
<1> HIDE DEF I
<1>6. CASE rest # <<>> /\ Head(rest).pid = una
  <2>1. /\ Tail(rest) \in Seq(Nodes)
        /\ On(rest) = On(Tail(rest)) \cup {Head(rest)}
        /\ Sorted(rest) => Sorted(Tail(rest))
    BY <1>3, <1>6, TailOfHeap
  <2>2. Acknowledged(heap, una) = Tail(rest)
    BY <1>5, <1>6
  <2> QED
    BY <1>3, <1>4, <1>6, <2>1, <2>2
<1>7. CASE ~(rest # <<>> /\ Head(rest).pid = una)
  <2>1. Acknowledged(heap, una) = rest
    BY <1>5, <1>7
  <2> QED
    BY <1>3, <1>4, <2>1
<1> QED
  BY <1>6, <1>7

\* What proc_clear_ackedpkt() of the timer thread keeps.
LEMMA ClearedKeeps ==
    ASSUME NEW heap \in Seq(Nodes), NEW una \in Nat
    PROVE  LET rest == From(heap, LAMBDA node : node.pid > una)
           IN /\ rest \in Seq(Nodes)
              /\ On(rest) \subseteq On(heap)
              /\ \A n \in On(heap) : n.pid > una => n \in On(rest)
              /\ rest # <<>> => Head(rest).pid > una
              /\ Sorted(heap) => Sorted(rest)
<1> DEFINE I == {i \in 1..Len(heap) : heap[i].pid > una}
           rest == From(heap, LAMBDA node : node.pid > una)
<1>1. rest = LET first == IF I # {} THEN Min(I) ELSE 0
             IN IF first = 0 THEN <<>> ELSE SubSeq(heap, first, Len(heap))
  BY DEF From, SelectInSeq
<1>2. I \in SUBSET (1..Len(heap))
  OBVIOUS
<1> HIDE DEF rest
<1>3. /\ rest \in Seq(Nodes) /\ On(rest) \subseteq On(heap)
      /\ \A i \in I : heap[i] \in On(rest)
      /\ rest # <<>> => \E i \in I : Head(rest) = heap[i]
      /\ Sorted(heap) => Sorted(rest)
  <2> HIDE DEF I
  <2> QED
    BY <1>1, <1>2, FromFirst
<1>4. \A n \in On(heap) : n.pid > una => n \in On(rest)
  BY <1>3 DEF On
<1>5. rest # <<>> => Head(rest).pid > una
  BY <1>3
<1> QED
  BY <1>3, <1>4, <1>5 DEF rest

\* What rexmit_for_dup_ack finds.
LEMMA RetransmittedKeeps ==
    ASSUME NEW heap \in Seq(Nodes), NEW una \in Nat
    PROVE  LET rest == From(heap, LAMBDA node : Start(node) >= una)
           IN /\ rest \in Seq(Nodes)
              /\ On(rest) \subseteq On(heap)
              /\ \A n \in On(heap) : Start(n) >= una => n \in On(rest)
              /\ rest # <<>> => Start(Head(rest)) >= una
              /\ Sorted(heap) => Sorted(rest)
<1> DEFINE I == {i \in 1..Len(heap) : Start(heap[i]) >= una}
           rest == From(heap, LAMBDA node : Start(node) >= una)
<1>1. rest = LET first == IF I # {} THEN Min(I) ELSE 0
             IN IF first = 0 THEN <<>> ELSE SubSeq(heap, first, Len(heap))
  BY DEF From, SelectInSeq
<1>2. I \in SUBSET (1..Len(heap))
  OBVIOUS
<1> HIDE DEF rest
<1>3. /\ rest \in Seq(Nodes) /\ On(rest) \subseteq On(heap)
      /\ \A i \in I : heap[i] \in On(rest)
      /\ rest # <<>> => \E i \in I : Head(rest) = heap[i]
      /\ Sorted(heap) => Sorted(rest)
  <2> HIDE DEF I
  <2> QED
    BY <1>1, <1>2, FromFirst
<1>4. \A n \in On(heap) : Start(n) >= una => n \in On(rest)
  BY <1>3 DEF On
<1>5. rest # <<>> => Start(Head(rest)) >= una
  BY <1>3
<1> QED
  BY <1>3, <1>4, <1>5 DEF rest
-----------------------------------------------------------------------------
(* The segments, the network and the window                                *)

\* A segment as the heap keeps it is a node.
LEMMA KeptIsNode ==
    ASSUME NEW segment \in Segments
    PROVE  /\ Kept(segment) \in Nodes
           /\ Kept(segment).len <= Kept(segment).pid
           /\ NulAt = {} => Kept(segment) = [pid |-> segment.seq + segment.len,
                                             from |-> segment.from, rex |-> FALSE,
                                             len |-> segment.len]
<1> DEFINE nuls == {p \in NulAt : segment.from <= p
                                  /\ p < segment.from + segment.len}
           first == CHOOSE p \in nuls : \A q \in nuls : p <= q
<1>1. segment.seq \in Nat /\ segment.from \in Nat /\ segment.len \in Nat
  BY DEF Segments
<1>2. nuls \in SUBSET Nat
  BY SenderAssumption
<1>3. nuls # {} => first \in nuls
  <2> HIDE DEF nuls
  <2> QED
    BY <1>2, LeastElement
<1>4. nuls # {} => /\ first - segment.from \in Nat
                   /\ first - segment.from <= segment.len
  <2> HIDE DEF first
  <2> QED
    BY <1>1, <1>2, <1>3
<1>5. Kept(segment) = [pid |-> segment.seq + segment.len, from |-> segment.from,
                       rex |-> FALSE,
                       len |-> IF nuls = {} THEN segment.len
                               ELSE first - segment.from]
  BY DEF Kept
<1>6. NulAt = {} => nuls = {}
  OBVIOUS
<1> HIDE DEF nuls, first
<1>7. PICK l \in Nat : /\ NulAt = {} => l = segment.len
                       /\ l <= segment.len
                       /\ l = IF nuls = {} THEN segment.len
                              ELSE first - segment.from
  BY <1>1, <1>4, <1>6
<1>8. Kept(segment) = [pid |-> segment.seq + segment.len, from |-> segment.from,
                       rex |-> FALSE, len |-> l]
  BY <1>5, <1>7
<1>9. segment.seq + segment.len \in Nat
  BY <1>1
<1>10. Kept(segment) \in Nodes
  BY <1>1, <1>8, <1>9 DEF Nodes
<1>11. l <= segment.seq + segment.len
  BY <1>1, <1>7
<1>12. Kept(segment).len <= Kept(segment).pid
  BY <1>8, <1>11
<1> QED
  BY <1>7, <1>8, <1>10, <1>12

\* Sending puts nothing else into the network.
LEMMA TransmitAdds ==
    ASSUME NEW segment, Transmit(segment)
    PROVE  BagToSet(dataNet') \subseteq BagToSet(dataNet) \cup {segment}
BY DEF Transmit, BagToSet, SetToBag, (+)

\* Taking a segment from the network adds none.
LEMMA AbsorbRemoves ==
    ASSUME NEW segment, dataNet' = dataNet (-) SetToBag({segment})
    PROVE  BagToSet(dataNet') \subseteq BagToSet(dataNet)
BY DEF BagToSet, SetToBag, (-)

\* What the calls of ssca return: windows within bounds.
LEMMA SscaCalls ==
    ASSUME NEW c, Ssca!WndInv(c)
    PROVE  /\ Ssca!WndInv(addwnd(c)) /\ Ssca!WndInv(settwnd(c))
           /\ Ssca!WndInv(setdwnd(c, TRUE))
           /\ getwnd(c, Awnd) \in Nat /\ getwnd(c, Awnd) <= WindowLimit
           /\ c \in CcRecords
<1>1. /\ Ssca!WndInv(Ssca!addwnd(c)) /\ Ssca!WndInv(Ssca!settwnd(c))
      /\ Ssca!WndInv(Ssca!setdwnd(c, TRUE))
  BY Ssca!AddwndPreserves, Ssca!SettwndPreserves, Ssca!SetdwndPreserves,
     CongestionAssumption
<1>2. Ssca!addwnd(c) = addwnd(c)
  BY DEF Ssca!addwnd, addwnd, Ssca!Linear, Linear, Ssca!ckSize, ckSize
<1>3. Ssca!settwnd(c) = settwnd(c)
  BY DEF Ssca!settwnd, settwnd, Ssca!Halved, Halved
<1>4. Ssca!setdwnd(c, TRUE) = setdwnd(c, TRUE)
  BY DEF Ssca!setdwnd, setdwnd, Ssca!Counted, Counted, Ssca!Halved, Halved,
         Ssca!ckSize, ckSize
<1>5. c \in CcRecords
  BY DEF Ssca!WndInv, Ssca!CcRecords, CcRecords, Ssca!CcStates, CcStates
<1>6. getwnd(c, Awnd) \in Nat /\ getwnd(c, Awnd) <= WindowLimit
  <2>1. c.snd_cwnd \in Nat /\ Awnd \in Nat /\ MaxWnd \in Nat
    BY <1>5, CongestionAssumption, SenderAssumption DEF CcRecords
  <2> QED
    BY <2>1 DEF getwnd, ckSize, WindowLimit
<1> QED
  BY <1>1, <1>2, <1>3, <1>4, <1>5, <1>6

\* cal_num_caxmit: all segments but the last are full ones.
LEMMA CaxmitFits ==
    ASSUME NEW room \in Nat
    PROVE  /\ cal_num_caxmit(room) \in Int
           /\ cal_num_caxmit(room) > 0
                => (cal_num_caxmit(room) - 1) * SMSS < room
<1> DEFINE n == room \div SMSS
           r == room % SMSS
<1>1. SMSS \in Nat /\ SMSS >= 1
  BY CongestionAssumption
<1>2. n \in Nat /\ r \in Nat /\ room = n * SMSS + r
  BY <1>1
<1>3. cal_num_caxmit(room) = IF n % 2 = 0 THEN n
                             ELSE IF r # 0 THEN n + 1 ELSE n - 1
  BY DEF cal_num_caxmit
<1> HIDE DEF n, r
<1>4. /\ (n - 1) * SMSS = n * SMSS - SMSS
      /\ (n + 1 - 1) * SMSS = n * SMSS
      /\ (n - 1 - 1) * SMSS = n * SMSS - 2 * SMSS
  BY <1>1, <1>2
<1>5. n * SMSS \in Nat
  BY <1>1, <1>2
<1>6. /\ (n - 1) * SMSS < room
      /\ r # 0 => (n + 1 - 1) * SMSS < room
      /\ (n - 1 - 1) * SMSS < room
  BY <1>1, <1>2, <1>4, <1>5
<1>7. n - 1 \in Int /\ n + 1 \in Int /\ n \in Int
  BY <1>2
<1> QED
  BY <1>3, <1>6, <1>7
-----------------------------------------------------------------------------
(* The steps                                                               *)



\* The sender against any network that loses segments and delivers
\* acknowledgements at will; what is proved of it holds of Next, and of the
\* sending half of Transfer.
AnyNext ==
    /\ \/ Internal
       \/ \E t \in Threads, a \in Nat :
             died = "no" /\ RunRecv(t, a) /\ UNCHANGED dataNet
       \/ Absorb
    /\ UNCHANGED overlap

\* Where a thread can be.
Labels == {"idle", "poll", "clear", "fire", "settwnd", "send"} \cup SendPcs \cup RunPcs

\* A step of the sender is one of these.
LEMMA StepCases ==
    ASSUME [AnyNext]_vars
    PROVE  /\ overlap' = overlap
           /\ \/ \E t \in Apps, n \in Writes : TouSend(t, n)
              \/ \E t \in Threads : SendStep(t) \/ RunStep(t)
              \/ TimerStep
              \/ \E t \in Threads, a \in Nat : RunRecv(t, a) /\ UNCHANGED dataNet
              \/ Absorb
              \/ UNCHANGED vars
           /\ vars' = vars \/ Absorb \/ died = "no"
BY DEF AnyNext, Internal, vars

\* A thread that goes elsewhere.
LEMMA GotoType ==
    ASSUME NEW t \in Threads, NEW label \in Labels,
           pc \in [Threads -> Labels], Goto(t, label)
    PROVE  /\ pc' \in [Threads -> Labels]
           /\ pc'[t] = label
           /\ \A u \in Threads : u # t => pc'[u] = pc[u]
BY DEF Goto

\* The labels, in the order of TypeOK.
LEMMA LabelsListed ==
    {"idle", "send", "window", "pop", "sendto", "add", "delete", "dupack",
     "ckdup", "rexmit", "poll", "clear", "fire", "settwnd"} = Labels
BY DEF Labels, SendPcs, RunPcs

\* TypeOK, conjunct by conjunct, with a name for the set of labels.
LEMMA TypeParts ==
    TypeOK <=> /\ overlap \in BOOLEAN
               /\ written \in 0..StreamLen /\ popped \in 0..StreamLen
               /\ snd_una \in Nat /\ snd_nxt \in Nat
               /\ cc \in CcRecords
               /\ timerheap \in Seq(Nodes)
               /\ runBy \in Threads \cup {NoOne} /\ sendBy \in Threads \cup {NoOne}
               /\ pc \in [Threads -> Labels]
               /\ ack \in Nat /\ xmit_cnt \in Int /\ curwnd \in Nat
               /\ cur \in Segments
               /\ BagToSet(dataNet) \subseteq Segments
               /\ died \in {"no", "exit", "assert"}
BY LabelsListed DEF TypeOK

\* The end of send().
LEMMA SendReturnType ==
    ASSUME TypeOK, NEW t \in Threads, SendReturn(t)
    PROVE  /\ runBy' \in Threads \cup {NoOne} /\ sendBy' = NoOne
           /\ pc' \in [Threads -> Labels]
           /\ ack' \in Nat /\ xmit_cnt' = 0 /\ curwnd' = 0 /\ cur' = NoSegment
<1>1. Home(t) \in Labels
  BY DEF Home, Labels
<1>2. pc' \in [Threads -> Labels]
  BY <1>1, TypeParts, GotoType DEF SendReturn
<1> QED
  BY <1>2, TypeParts DEF SendReturn

\* Numbers of bytes.
LEMMA RoomType ==
    ASSUME snd_una \in Nat, snd_nxt \in Nat, NEW wnd \in Nat
    PROVE  /\ Room(wnd) \in Nat
           /\ Room(wnd) > 0 => Room(wnd) = snd_una + wnd - snd_nxt
           /\ snd_una + wnd - snd_nxt <= Room(wnd)
BY DEF Room

\* What popsndq takes is in the buffer, and in the window.
LEMMA SegmentLenType ==
    ASSUME TypeInv
    PROVE  /\ SegmentLen \in Nat /\ SegmentLen <= written - popped
           /\ SegmentLen <= Room(curwnd) /\ SegmentLen <= SMSS
           /\ popped < written /\ Room(curwnd) > 0 => SegmentLen > 0
<1>1. /\ snd_una \in Nat /\ snd_nxt \in Nat /\ curwnd \in Nat
      /\ written \in Nat /\ popped \in Nat /\ popped <= written
  BY SenderAssumption DEF TypeInv, TypeOK
<1>2. Room(curwnd) \in Nat /\ SMSS \in Nat /\ SMSS > 0
  BY <1>1, RoomType, CongestionAssumption
<1> QED
  BY <1>1, <1>2 DEF SegmentLen

\* proc_ack moves snd_una forward only.
LEMMA ProcAckMoves ==
    ASSUME TypeInv, NEW a \in Nat, a <= snd_nxt, ProcAck(a)
    PROVE  /\ Ssca!WndInv(cc')
           /\ snd_una' \in Nat /\ snd_una <= snd_una' /\ snd_una' <= snd_nxt
           /\ a > snd_una => snd_una' = a
           /\ a <= snd_una => snd_una' = snd_una
<1>1. Ssca!WndInv(cc) /\ Ssca!WndInv(addwnd(cc))
  BY SscaCalls DEF TypeInv
<1>2. Ssca!WndInv(cc')
  BY <1>1 DEF ProcAck
<1>3. snd_una \in Nat /\ snd_nxt \in Nat /\ snd_una <= snd_nxt
  BY DEF TypeInv, TypeOK
<1>4. snd_una' = IF a > snd_una THEN a ELSE snd_una
  BY DEF ProcAck
<1> QED
  BY <1>2, <1>3, <1>4

\* TypeInv is kept by every step; the duplicate acknowledgement run() counts is
\* still one when it does (LockInv), which keeps the count that of a recovery.
LEMMA TypeNext ==
    ASSUME TypeInv, LockInv, LenInv, FireInv, [AnyNext]_vars
    PROVE  TypeInv'
<1> USE DEF tcb, buffer, sending
<1>1. /\ overlap \in BOOLEAN
      /\ written \in 0..StreamLen /\ popped \in 0..StreamLen
      /\ snd_una \in Nat /\ snd_nxt \in Nat
      /\ timerheap \in Seq(Nodes)
      /\ runBy \in Threads \cup {NoOne} /\ sendBy \in Threads \cup {NoOne}
      /\ pc \in [Threads -> Labels]
      /\ ack \in Nat /\ xmit_cnt \in Int /\ curwnd \in Nat
      /\ cur \in Segments
      /\ BagToSet(dataNet) \subseteq Segments
      /\ died \in {"no", "exit", "assert"}
      /\ 1 <= snd_una /\ snd_una <= snd_nxt
      /\ snd_nxt = popped + 1 /\ popped <= written
  BY TypeParts DEF TypeInv
<1>2. Ssca!WndInv(cc)
  BY DEF TypeInv
<1>3. overlap' \in BOOLEAN
  BY <1>1, StepCases
<1>4. Timer \in Threads /\ \A t \in Apps : t \in Threads
  BY DEF Threads
<1>5. ASSUME /\ written' \in 0..StreamLen /\ popped' \in 0..StreamLen
             /\ snd_una' \in Nat /\ snd_nxt' \in Nat
             /\ 1 <= snd_una' /\ snd_una' <= snd_nxt'
             /\ snd_nxt' = popped' + 1 /\ popped' <= written',
             Ssca!WndInv(cc'), timerheap' \in Seq(Nodes),
             /\ runBy' \in Threads \cup {NoOne} /\ sendBy' \in Threads \cup {NoOne}
             /\ pc' \in [Threads -> Labels] /\ ack' \in Nat,
             xmit_cnt' \in Int /\ curwnd' \in Nat /\ cur' \in Segments,
             BagToSet(dataNet') \subseteq Segments,
             died' \in {"no", "exit", "assert"}
      PROVE  TypeInv'
  <2>1. (cc \in CcRecords)'
    BY <1>5, SscaCalls
  <2>2. TypeOK'
    BY <1>3, <1>5, <2>1, LabelsListed DEF TypeOK
  <2> QED
    BY <1>5, <2>2 DEF TypeInv
<1>6. \A l \in Labels, t \in Threads : Goto(t, l) => pc' \in [Threads -> Labels]
  BY <1>1, GotoType
<1>7. NoSegment \in Segments
  BY DEF NoSegment, Segments
<1>10. ASSUME NEW t \in Apps, NEW n \in Writes, TouSend(t, n)
       PROVE  TypeInv'
  <2>1. n \in Nat /\ StreamLen \in Nat
    BY SenderAssumption
  <2>2. written' \in 0..StreamLen /\ popped <= written'
    BY <1>1, <1>10, <2>1 DEF TouSend
  <2>3. pc' \in [Threads -> Labels]
    BY <1>4, <1>6, <1>10 DEF TouSend, Labels
  <2> QED
    BY <1>1, <1>2, <1>5, <1>10, <2>2, <2>3 DEF TouSend
<1>11. ASSUME NEW t \in Threads, SendEnter(t)
       PROVE  TypeInv'
  <2>1. getwnd(cc, Awnd) \in Nat
    BY <1>2, SscaCalls
  <2>2. xmit_cnt' \in Int
    BY <1>1, <1>11, <2>1, RoomType, CaxmitFits DEF SendEnter
  <2>3. pc' \in [Threads -> Labels]
    BY <1>6, <1>11 DEF SendEnter, Labels, SendPcs
  <2> QED
    BY <1>1, <1>2, <1>5, <1>11, <2>2, <2>3 DEF SendEnter
<1>12. ASSUME NEW t \in Threads, SendWindow(t)
       PROVE  TypeInv'
  <2>1. CASE written = popped
    BY <1>1, <1>2, <1>5, <1>7, <1>12, <2>1, SendReturnType DEF SendWindow, TypeInv
  <2>2. CASE written # popped
    <3>1. curwnd' \in Nat
      BY <1>2, <1>12, <2>2, SscaCalls DEF SendWindow
    <3>2. pc' \in [Threads -> Labels]
      BY <1>6, <1>12, <2>2 DEF SendWindow, Labels, SendPcs
    <3> QED
      BY <1>1, <1>2, <1>5, <1>12, <2>2, <3>1, <3>2 DEF SendWindow
  <2> QED
    BY <2>1, <2>2
<1>13. ASSUME NEW t \in Threads, SendPop(t)
       PROVE  TypeInv'
  <2>1. CASE SendStops
    BY <1>1, <1>2, <1>5, <1>7, <1>13, <2>1, SendReturnType DEF SendPop, TypeInv
  <2>2. CASE ~SendStops
    <3>1. SegmentLen \in Nat /\ SegmentLen <= written - popped
      BY SegmentLenType
    <3>2. StreamLen \in Nat
      BY SenderAssumption
    <3>3. cur' \in Segments
      BY <1>1, <1>13, <2>2, <3>1 DEF SendPop, Segments
    <3>4. /\ popped' = popped + SegmentLen /\ snd_nxt' = snd_nxt + SegmentLen
          /\ UNCHANGED <<written, snd_una, cc, timerheap, dataNet, died, runBy,
                         sendBy, ack, curwnd>>
      BY <1>13, <2>2 DEF SendPop
    <3>5. pc' \in [Threads -> Labels] /\ xmit_cnt' \in Int
      BY <1>1, <1>6, <1>13, <2>2 DEF SendPop, Labels, SendPcs
    <3>6. /\ popped' \in 0..StreamLen /\ snd_nxt' \in Nat /\ snd_una <= snd_nxt'
          /\ snd_nxt' = popped' + 1 /\ popped' <= written
      BY <1>1, <3>1, <3>2, <3>4
    <3> QED
      BY <1>1, <1>2, <1>5, <3>3, <3>4, <3>5, <3>6
  <2> QED
    BY <2>1, <2>2
<1>14. ASSUME NEW t \in Threads, SendOut(t)
       PROVE  TypeInv'
  <2>1. BagToSet(dataNet') \subseteq Segments
    BY <1>1, <1>14, TransmitAdds DEF SendOut
  <2>2. pc' \in [Threads -> Labels]
    BY <1>6, <1>14 DEF SendOut, Labels, SendPcs
  <2> QED
    BY <1>1, <1>2, <1>5, <1>14, <2>1, <2>2 DEF SendOut
<1>15. ASSUME NEW t \in Threads, SendAdd(t)
       PROVE  TypeInv'
  <2>1. timerheap' \in Seq(Nodes)
    BY <1>1, <1>15, KeptIsNode, PushesOne DEF SendAdd
  <2>2. pc' \in [Threads -> Labels]
    BY <1>6, <1>15 DEF SendAdd, Labels, SendPcs
  <2> QED
    BY <1>1, <1>2, <1>5, <1>7, <1>15, <2>1, <2>2 DEF SendAdd
<1>16. ASSUME NEW t \in Threads, NEW a \in Nat, RunRecv(t, a), UNCHANGED dataNet
       PROVE  TypeInv'
  <2>1. CASE a > snd_nxt
    BY <1>1, <1>2, <1>5, <1>16, <2>1 DEF RunRecv
  <2>2. CASE ~(a > snd_nxt)
    <3>1. /\ Ssca!WndInv(cc')
          /\ snd_una' \in Nat /\ snd_una <= snd_una' /\ snd_una' <= snd_nxt
      BY <1>1, <1>16, <2>2, ProcAckMoves DEF RunRecv
    <3>2. pc' \in [Threads -> Labels]
      <4>1. PICK l \in Labels : Goto(t, l)
        BY <1>1, <1>16, <2>2 DEF RunRecv, Labels, RunPcs
      <4> QED
        BY <1>6, <4>1
    <3>3. 1 <= snd_una'
      BY <1>1, <3>1
    <3>4. /\ runBy' = t /\ ack' = a
          /\ UNCHANGED <<written, popped, snd_nxt, timerheap, sendBy, xmit_cnt,
                         curwnd, cur, dataNet, died>>
      BY <1>16, <2>2 DEF RunRecv
    <3> QED
      BY <1>1, <1>5, <3>1, <3>2, <3>3, <3>4
  <2> QED
    BY <2>1, <2>2
<1>17. ASSUME NEW t \in Threads, DeleteTimer(t)
       PROVE  TypeInv'
  <2>1. timerheap' \in Seq(Nodes)
    BY <1>1, <1>17, AcknowledgedKeeps DEF DeleteTimer
  <2>2. pc' \in [Threads -> Labels]
    BY <1>6, <1>17 DEF DeleteTimer, Labels
  <2> QED
    BY <1>1, <1>2, <1>5, <1>17, <2>1, <2>2 DEF DeleteTimer
<1>18. ASSUME NEW t \in Threads, DupAck(t)
       PROVE  TypeInv'
  <2>1. ack = snd_una
    BY <1>18 DEF DupAck, LockInv, RunPcs
  <2>2. Ssca!WndInv(cc')
    BY <1>2, <1>18, <2>1, SscaCalls DEF DupAck
  <2>3. pc' \in [Threads -> Labels]
    BY <1>6, <1>18 DEF DupAck, Labels, RunPcs
  <2> QED
    BY <1>1, <1>5, <1>18, <2>2, <2>3 DEF DupAck
<1>19. ASSUME NEW t \in Threads, CkDupAck(t)
       PROVE  TypeInv'
  <2>1. pc' \in [Threads -> Labels]
    BY <1>6, <1>19 DEF CkDupAck, Labels, RunPcs
  <2> QED
    BY <1>1, <1>2, <1>5, <1>19, <2>1 DEF CkDupAck
<1>20. ASSUME NEW t \in Threads, RexmitDupAck(t)
       PROVE  TypeInv'
  <2> DEFINE rest == From(timerheap, LAMBDA node : Start(node) >= ack)
  <2>1. rest \in Seq(Nodes)
    BY <1>1, RetransmittedKeeps
  <2>2. /\ UNCHANGED <<written, popped, snd_una, snd_nxt, cc, runBy, sendBy, ack,
                       xmit_cnt, curwnd, cur>>
        /\ \/ timerheap' = rest
           \/ rest # <<>> /\ timerheap' \in Pushes(Tail(rest), [Head(rest) EXCEPT !.rex = TRUE])
        /\ \/ UNCHANGED dataNet
           \/ rest # <<>> /\ Start(Head(rest)) = ack /\ Transmit(sendpkt(Head(rest)))
        /\ Goto(t, "send") \/ UNCHANGED pc
        /\ died' \in {"exit", died}
    BY <1>20 DEF RexmitDupAck
  <2> HIDE DEF rest
  <2>3. rest # <<>> => Head(rest) \in Nodes /\ Tail(rest) \in Seq(Nodes)
    BY <2>1, TailOfHeap
  <2>4. rest # <<>> => [Head(rest) EXCEPT !.rex = TRUE] \in Nodes
    BY <2>3 DEF Nodes
  <2>5. timerheap' \in Seq(Nodes)
    BY <2>1, <2>2, <2>3, <2>4, PushesOne
  <2>6. rest # <<>> /\ Start(Head(rest)) = ack => sendpkt(Head(rest)) \in Segments
    BY <1>1, <2>3 DEF sendpkt, Nodes, Segments
  <2>7. BagToSet(dataNet') \subseteq Segments
    BY <1>1, <2>2, <2>6, TransmitAdds
  <2>8. pc' \in [Threads -> Labels]
    BY <1>1, <1>6, <2>2 DEF Labels
  <2> QED
    BY <1>1, <1>2, <1>5, <2>2, <2>5, <2>7, <2>8
<1>21. CASE TimerWakes \/ TimerNoPacket \/ TimerWaits
  <2>1. pc' \in [Threads -> Labels]
    BY <1>4, <1>6, <1>21 DEF TimerWakes, TimerNoPacket, TimerWaits, Labels
  <2> QED
    BY <1>1, <1>2, <1>5, <1>21, <2>1 DEF TimerWakes, TimerNoPacket, TimerWaits
<1>22. CASE TimerClear
  <2>1. timerheap' \in Seq(Nodes)
    BY <1>1, <1>22, ClearedKeeps DEF TimerClear
  <2>2. pc' \in [Threads -> Labels]
    BY <1>4, <1>6, <1>22 DEF TimerClear, Labels
  <2> QED
    BY <1>1, <1>2, <1>5, <1>22, <2>1, <2>2 DEF TimerClear
<1>23. CASE TimerSetsWindow
  <2>1. Ssca!WndInv(cc')
    BY <1>2, <1>23, SscaCalls DEF TimerSetsWindow
  <2>2. pc' \in [Threads -> Labels]
    BY <1>4, <1>6, <1>23 DEF TimerSetsWindow, Labels
  <2> QED
    BY <1>1, <1>5, <1>23, <2>1, <2>2 DEF TimerSetsWindow
<1>24. CASE TimerFires
  <2> DEFINE top == Head(timerheap)
  <2>1. timerheap # <<>>
    BY <1>24 DEF TimerFires, FireInv
  <2>2. top \in Nodes /\ top \in On(timerheap) /\ Tail(timerheap) \in Seq(Nodes)
    BY <1>1, <2>1, TailOfHeap
  <2>3. RemoveFirst(timerheap, top) = Tail(timerheap)
    BY <1>1, <2>1, RemoveHead
  <2>4. /\ Transmit(sendpkt(top))
        /\ timerheap' \in Pushes(RemoveFirst(timerheap, top), [top EXCEPT !.rex = TRUE])
        /\ UNCHANGED pc \/ Goto(Timer, "settwnd")
        /\ died' \in {"assert", died}
        /\ UNCHANGED <<written, popped, snd_una, snd_nxt, cc, runBy, sendBy, ack,
                       xmit_cnt, curwnd, cur>>
    BY <1>24 DEF TimerFires, Fired
  <2>5. top.len <= top.pid
    BY <2>2 DEF LenInv
  <2> HIDE DEF top
  <2>6. [top EXCEPT !.rex = TRUE] \in Nodes
    BY <2>2 DEF Nodes
  <2>7. timerheap' \in Seq(Nodes)
    BY <2>2, <2>3, <2>4, <2>6, PushesOne
  <2>8. sendpkt(top) \in Segments
    BY <2>2, <2>5 DEF sendpkt, Start, Nodes, Segments
  <2>9. BagToSet(dataNet') \subseteq Segments
    BY <1>1, <2>4, <2>8, TransmitAdds
  <2>10. pc' \in [Threads -> Labels]
    BY <1>1, <1>4, <1>6, <2>4 DEF Labels
  <2> QED
    BY <1>1, <1>2, <1>5, <2>4, <2>7, <2>9, <2>10
<1>25. CASE Absorb
  <2>1. BagToSet(dataNet') \subseteq Segments
    BY <1>1, <1>25, AbsorbRemoves DEF Absorb
  <2> QED
    BY <1>1, <1>2, <1>5, <1>25, <2>1 DEF Absorb
<1>26. CASE UNCHANGED vars
  BY <1>1, <1>2, <1>5, <1>26 DEF vars
<1> QED
  BY <1>10, <1>11, <1>12, <1>13, <1>14, <1>15, <1>16, <1>17, <1>18, <1>19,
     <1>20, <1>21, <1>22, <1>23, <1>24, <1>25, <1>26, StepCases
  DEF SendStep, RunStep, TimerStep

\* A thread that goes from one place to another of the same lock keeps LockInv.
LEMMA LockKept ==
    ASSUME LockInv, pc \in [Threads -> Labels],
           NEW t \in Threads, NEW label \in Labels, Goto(t, label),
           pc[t] \in SendPcs <=> label \in SendPcs,
           label \in RunPcs => pc[t] \in RunPcs,
           runBy = t => label \in RunPcs \cup SendPcs \cup {"send"},
           t = Timer /\ label \in SendPcs \cup {"send"} => runBy = Timer,
           UNCHANGED <<runBy, sendBy, ack, snd_una>>
    PROVE  LockInv'
<1>1. pc'[t] = label /\ \A u \in Threads : u # t => pc'[u] = pc[u]
  BY GotoType
<1>2. Timer \in Threads
  BY DEF Threads
<1>3. (\A u \in Threads : sendBy = u <=> pc[u] \in SendPcs)'
  BY <1>1 DEF LockInv
<1>4. (\A u \in Threads : pc[u] \in RunPcs => runBy = u /\ ack = snd_una)'
  BY <1>1 DEF LockInv
<1>5. (\A u \in Threads : runBy = u => pc[u] \in RunPcs \cup SendPcs \cup {"send"})'
  BY <1>1 DEF LockInv
<1>6. (pc[Timer] \in SendPcs \cup {"send"} => runBy = Timer)'
  BY <1>1, <1>2 DEF LockInv
<1> QED
  BY <1>3, <1>4, <1>5, <1>6 DEF LockInv

\* send() gives back what it took.
LEMMA LockReturned ==
    ASSUME LockInv, TypeInv, NEW t \in Threads, pc[t] \in SendPcs,
           SendReturn(t), UNCHANGED snd_una
    PROVE  LockInv'
<1>1. pc \in [Threads -> Labels] /\ NoOne \notin Threads /\ Timer \in Threads
  BY TypeParts, SenderAssumption DEF TypeInv, Threads
<1>2. /\ Home(t) \in {"poll", "idle"} /\ Home(t) \in Labels
      /\ Home(t) \notin SendPcs \cup RunPcs \cup {"send"}
  BY DEF Home, Labels, SendPcs, RunPcs
<1>3. pc'[t] = Home(t) /\ \A u \in Threads : u # t => pc'[u] = pc[u]
  BY <1>1, <1>2, GotoType DEF SendReturn
<1>4. sendBy = t
  BY DEF LockInv
<1>5. /\ sendBy' = NoOne
      /\ runBy = t => runBy' = NoOne
      /\ runBy # t => runBy' = runBy /\ ack' = ack
  BY DEF SendReturn
<1>6. (\A u \in Threads : sendBy = u <=> pc[u] \in SendPcs)'
  BY <1>1, <1>2, <1>3, <1>4, <1>5 DEF LockInv
<1>7. (\A u \in Threads : pc[u] \in RunPcs => runBy = u /\ ack = snd_una)'
  BY <1>1, <1>2, <1>3, <1>4, <1>5 DEF LockInv, SendPcs, RunPcs
<1>8. (\A u \in Threads : runBy = u => pc[u] \in RunPcs \cup SendPcs \cup {"send"})'
  BY <1>1, <1>2, <1>3, <1>5 DEF LockInv
<1>9. (pc[Timer] \in SendPcs \cup {"send"} => runBy = Timer)'
  BY <1>1, <1>2, <1>3, <1>5 DEF LockInv
<1> QED
  BY <1>6, <1>7, <1>8, <1>9 DEF LockInv

\* The mutexes exclude each other's threads.
LEMMA LockNext ==
    ASSUME TypeInv, LockInv, [AnyNext]_vars
    PROVE  LockInv'
<1> USE DEF tcb, buffer, sending
<1>1. /\ pc \in [Threads -> Labels] /\ snd_una \in Nat
      /\ NoOne \notin Threads /\ Timer \in Threads
      /\ \A t \in Apps : t \in Threads /\ t # Timer
  BY TypeParts, SenderAssumption DEF TypeInv, Threads
<1>10. ASSUME NEW t \in Apps, NEW n \in Writes, TouSend(t, n)
       PROVE  LockInv'
  BY <1>1, <1>10, LockKept DEF TouSend, Labels, SendPcs, RunPcs
<1>11. ASSUME NEW t \in Threads, SendEnter(t)
       PROVE  LockInv'
  <2>1. /\ pc'[t] = "window" /\ pc[t] = "send"
        /\ \A u \in Threads : u # t => pc'[u] = pc[u]
    BY <1>1, <1>11, GotoType DEF SendEnter, Labels, SendPcs
  <2>2. sendBy = NoOne /\ sendBy' = t /\ UNCHANGED <<runBy, ack, snd_una>>
    BY <1>11 DEF SendEnter
  <2>3. (\A u \in Threads : sendBy = u <=> pc[u] \in SendPcs)'
    BY <1>1, <2>1, <2>2 DEF LockInv, SendPcs
  <2>4. (\A u \in Threads : pc[u] \in RunPcs => runBy = u /\ ack = snd_una)'
    BY <2>1, <2>2 DEF LockInv, RunPcs
  <2>5. (\A u \in Threads : runBy = u => pc[u] \in RunPcs \cup SendPcs \cup {"send"})'
    BY <2>1, <2>2 DEF LockInv, SendPcs
  <2>6. (pc[Timer] \in SendPcs \cup {"send"} => runBy = Timer)'
    BY <1>1, <2>1, <2>2 DEF LockInv
  <2> QED
    BY <2>3, <2>4, <2>5, <2>6 DEF LockInv
<1>12. ASSUME NEW t \in Threads, SendWindow(t)
       PROVE  LockInv'
  <2>1. CASE written = popped
    BY <1>12, <2>1, LockReturned DEF SendWindow, SendPcs
  <2>2. CASE written # popped
    BY <1>1, <1>12, <2>2, LockKept DEF SendWindow, Labels, SendPcs, RunPcs, LockInv
  <2> QED
    BY <2>1, <2>2
<1>13. ASSUME NEW t \in Threads, SendPop(t)
       PROVE  LockInv'
  <2>1. CASE SendStops
    BY <1>13, <2>1, LockReturned DEF SendPop, SendPcs
  <2>2. CASE ~SendStops
    BY <1>1, <1>13, <2>2, LockKept DEF SendPop, Labels, SendPcs, RunPcs, LockInv
  <2> QED
    BY <2>1, <2>2
<1>14. ASSUME NEW t \in Threads, SendOut(t)
       PROVE  LockInv'
  BY <1>1, <1>14, LockKept DEF SendOut, Labels, SendPcs, RunPcs, LockInv
<1>15. ASSUME NEW t \in Threads, SendAdd(t)
       PROVE  LockInv'
  BY <1>1, <1>15, LockKept DEF SendAdd, Labels, SendPcs, RunPcs, LockInv
<1>16. ASSUME NEW t \in Threads, NEW a \in Nat, RunRecv(t, a), UNCHANGED dataNet
       PROVE  LockInv'
  <2>1. CASE a > snd_nxt
    BY <1>16, <2>1 DEF RunRecv, LockInv
  <2>2. CASE ~(a > snd_nxt)
    <3>1. PICK l \in {"delete", "dupack", "send"} :
             Goto(t, l) /\ (l # "send" => a >= snd_una)
      BY <1>1, <1>16, <2>2 DEF RunRecv
    <3>2. /\ pc'[t] = l /\ \A u \in Threads : u # t => pc'[u] = pc[u]
          /\ pc[t] \in {"poll", "idle"}
      BY <1>1, <1>16, <3>1, GotoType DEF Labels, RunPcs, RunRecv
    <3>3. /\ runBy = NoOne /\ runBy' = t /\ ack' = a /\ sendBy' = sendBy
          /\ snd_una' = IF a > snd_una THEN a ELSE snd_una
      BY <1>16, <2>2 DEF RunRecv, ProcAck
    <3>4. (\A u \in Threads : sendBy = u <=> pc[u] \in SendPcs)'
      BY <3>2, <3>3 DEF LockInv, SendPcs
    <3>5. (\A u \in Threads : pc[u] \in RunPcs => runBy = u /\ ack = snd_una)'
      <4>1. \A u \in Threads : pc[u] \notin RunPcs
        BY <1>1, <3>3 DEF LockInv
      <4>2. l # "send" => a = snd_una'
        BY <1>1, <3>1, <3>3
      <4> QED
        BY <3>2, <3>3, <4>1, <4>2 DEF RunPcs
    <3>6. (\A u \in Threads : runBy = u => pc[u] \in RunPcs \cup SendPcs \cup {"send"})'
      BY <1>1, <3>2, <3>3 DEF RunPcs
    <3>7. (pc[Timer] \in SendPcs \cup {"send"} => runBy = Timer)'
      BY <1>1, <3>2, <3>3 DEF LockInv
    <3> QED
      BY <3>4, <3>5, <3>6, <3>7 DEF LockInv
  <2> QED
    BY <2>1, <2>2
<1>17. ASSUME NEW t \in Threads, DeleteTimer(t)
       PROVE  LockInv'
  BY <1>1, <1>17, LockKept DEF DeleteTimer, Labels, SendPcs, RunPcs, LockInv
<1>18. ASSUME NEW t \in Threads, DupAck(t)
       PROVE  LockInv'
  BY <1>1, <1>18, LockKept DEF DupAck, Labels, SendPcs, RunPcs
<1>19. ASSUME NEW t \in Threads, CkDupAck(t)
       PROVE  LockInv'
  BY <1>1, <1>19, LockKept DEF CkDupAck, Labels, SendPcs, RunPcs, LockInv
<1>20. ASSUME NEW t \in Threads, RexmitDupAck(t)
       PROVE  LockInv'
  <2>1. /\ pc[t] = "rexmit" /\ (Goto(t, "send") \/ UNCHANGED pc)
        /\ UNCHANGED <<runBy, sendBy, ack, snd_una>>
    BY <1>20 DEF RexmitDupAck
  <2>2. CASE Goto(t, "send")
    BY <1>1, <2>1, <2>2, LockKept DEF Labels, SendPcs, RunPcs, LockInv
  <2>3. CASE UNCHANGED pc
    BY <2>1, <2>3 DEF LockInv
  <2> QED
    BY <2>1, <2>2, <2>3
<1>21. CASE TimerStep
  <2>1. /\ pc[Timer] \notin SendPcs \cup RunPcs \cup {"send"}
        /\ UNCHANGED <<runBy, sendBy, ack, snd_una>>
        /\ UNCHANGED pc \/ \E l \in {"poll", "clear", "idle", "fire", "settwnd"} :
                              Goto(Timer, l)
    BY <1>21 DEF TimerStep, TimerWakes, TimerNoPacket, TimerClear, TimerWaits,
                 TimerFires, TimerSetsWindow, SendPcs, RunPcs
  <2>2. CASE UNCHANGED pc
    BY <2>1, <2>2 DEF LockInv
  <2>3. CASE \E l \in {"poll", "clear", "idle", "fire", "settwnd"} : Goto(Timer, l)
    <3>1. runBy # Timer
      BY <1>1, <2>1 DEF LockInv
    <3>2. PICK l \in {"poll", "clear", "idle", "fire", "settwnd"} : Goto(Timer, l)
      BY <2>3
    <3>3. l \in Labels /\ l \notin SendPcs \cup RunPcs \cup {"send"}
      BY DEF Labels, SendPcs, RunPcs
    <3> QED
      BY <1>1, <2>1, <3>1, <3>2, <3>3, LockKept
  <2> QED
    BY <2>1, <2>2, <2>3
<1>22. CASE Absorb
  BY <1>22 DEF Absorb, LockInv
<1>23. CASE UNCHANGED vars
  BY <1>23 DEF vars, LockInv
<1> QED
  BY <1>10, <1>11, <1>12, <1>13, <1>14, <1>15, <1>16, <1>17, <1>18, <1>19,
     <1>20, <1>21, <1>22, <1>23, StepCases DEF SendStep, RunStep
-----------------------------------------------------------------------------
(* What a step does to the timer heap                                      *)

\* A node that has been sent again.
Again(node) == [node EXCEPT !.rex = TRUE]

\* Nodes go, none of those that begin at snd_una or beyond.
Loses ==
    /\ On(timerheap') \subseteq On(timerheap)
    /\ \A n \in On(timerheap) :
          n.pid > snd_una /\ Start(n) >= snd_una => n \in On(timerheap')
    /\ Sorted(timerheap) => Sorted(timerheap')
    /\ UNCHANGED <<snd_una, snd_nxt, cur>>

\* The same, and one node is put back as sent again.
Resends(top) ==
    /\ top \in On(timerheap) /\ Again(top) \in On(timerheap')
    /\ On(timerheap') \subseteq On(timerheap) \cup {Again(top)}
    /\ \A n \in On(timerheap) :
          n # top /\ n.pid > snd_una /\ Start(n) >= snd_una => n \in On(timerheap')
    /\ Sorted(timerheap) => Sorted(timerheap')
    /\ UNCHANGED <<snd_una, snd_nxt, cur>>

\* A node sent again keeps its bytes.
LEMMA AgainSame ==
    ASSUME NEW node \in Nodes
    PROVE  /\ Again(node) \in Nodes
           /\ Again(node).pid = node.pid /\ Again(node).len = node.len
           /\ Again(node).from = node.from /\ Start(Again(node)) = Start(node)
           /\ Again(node).rex = TRUE
BY DEF Nodes, Again, Start

\* rexmit_for_dup_ack loses nodes, or sends the one at snd_una again.
LEMMA RexmitCases ==
    ASSUME TypeInv, LockInv, NEW t \in Threads, RexmitDupAck(t)
    PROVE  /\ timerheap' \in Seq(Nodes) /\ HeapFree /\ pc[t] = "rexmit"
           /\ \/ /\ Loses /\ UNCHANGED dataNet
                 /\ \/ Goto(t, "send") /\ UNCHANGED died
                    \/ \E top \in On(timerheap) :
                          /\ Start(top) > snd_una /\ UNCHANGED pc
                          /\ \A n \in On(timerheap) : Start(n) >= snd_una
                                /\ Sorted(timerheap) => top.pid <= n.pid
              \/ \E top : /\ Resends(top) /\ Start(top) = snd_una
                          /\ Transmit(sendpkt(top))
                          /\ Goto(t, "send") /\ UNCHANGED died
<1> USE DEF tcb, buffer, sending
<1> DEFINE rest == From(timerheap, LAMBDA node : Start(node) >= ack)
<1>0. timerheap \in Seq(Nodes) /\ ack \in Nat
  BY TypeParts DEF TypeInv
<1>1. timerheap \in Seq(Nodes) /\ ack = snd_una /\ snd_una \in Nat
  BY TypeParts DEF TypeInv, LockInv, RexmitDupAck, RunPcs
<1>2. /\ rest \in Seq(Nodes) /\ On(rest) \subseteq On(timerheap)
      /\ \A n \in On(timerheap) : Start(n) >= snd_una => n \in On(rest)
      /\ rest # <<>> => Start(Head(rest)) >= snd_una
      /\ Sorted(timerheap) => Sorted(rest)
  <2>1. /\ rest \in Seq(Nodes) /\ On(rest) \subseteq On(timerheap)
        /\ \A n \in On(timerheap) : Start(n) >= ack => n \in On(rest)
        /\ rest # <<>> => Start(Head(rest)) >= ack
        /\ Sorted(timerheap) => Sorted(rest)
    BY <1>0, RetransmittedKeeps
  <2> HIDE DEF rest
  <2> QED
    BY <1>1, <2>1
<1>3. /\ HeapFree /\ pc[t] = "rexmit" /\ UNCHANGED <<snd_una, snd_nxt, cur>>
      /\ \/ /\ rest = <<>> /\ timerheap' = <<>> /\ Goto(t, "send")
            /\ UNCHANGED <<dataNet, died>>
         \/ /\ rest # <<>> /\ Start(Head(rest)) = ack
            /\ Transmit(sendpkt(Head(rest)))
            /\ timerheap' \in Pushes(Tail(rest), Again(Head(rest)))
            /\ Goto(t, "send") /\ UNCHANGED died
         \/ /\ rest # <<>> /\ Start(Head(rest)) > ack
            /\ timerheap' = rest /\ UNCHANGED <<pc, dataNet>>
  BY <1>1 DEF RexmitDupAck, Again
<1> HIDE DEF rest
<1>4. rest # <<>> =>
         /\ Head(rest) \in Nodes /\ Head(rest) \in On(rest)
         /\ Tail(rest) \in Seq(Nodes) /\ On(rest) = On(Tail(rest)) \cup {Head(rest)}
         /\ Sorted(rest) => /\ Sorted(Tail(rest))
                            /\ \A n \in On(rest) : Head(rest).pid <= n.pid
  BY <1>2, TailOfHeap
<1>5. CASE rest = <<>> /\ timerheap' = <<>>
  BY <1>2, <1>3, <1>5 DEF Loses
<1>6. CASE rest # <<>> /\ Start(Head(rest)) = ack
  <2>1. timerheap' \in Pushes(Tail(rest), Again(Head(rest)))
    BY <1>1, <1>3, <1>6
  <2>2. Again(Head(rest)) \in Nodes
    BY <1>4, <1>6, AgainSame
  <2>3. /\ timerheap' \in Seq(Nodes)
        /\ On(timerheap') = On(Tail(rest)) \cup {Again(Head(rest))}
        /\ Sorted(Tail(rest)) => Sorted(timerheap')
    BY <1>4, <1>6, <2>1, <2>2, PushesOne
  <2>4. Resends(Head(rest))
    BY <1>2, <1>3, <1>4, <1>6, <2>3 DEF Resends
  <2> QED
    BY <1>1, <1>3, <1>6, <2>3, <2>4
<1>7. CASE rest # <<>> /\ Start(Head(rest)) > ack /\ timerheap' = rest
  <2>1. Loses
    BY <1>2, <1>3, <1>7 DEF Loses
  <2>2. \A n \in On(timerheap) : Start(n) >= snd_una /\ Sorted(timerheap)
                                   => Head(rest).pid <= n.pid
    BY <1>2, <1>4, <1>7
  <2>3. Head(rest) \in On(timerheap) /\ Start(Head(rest)) > snd_una
    BY <1>1, <1>2, <1>4, <1>7
  <2>4. Start(Head(rest)) # ack
    BY <1>1, <1>3, <1>4, <1>7 DEF Nodes, Start
  <2>5. UNCHANGED <<pc, dataNet>>
    BY <1>3, <1>7, <2>4
  <2> QED
    BY <1>2, <1>3, <1>7, <2>1, <2>2, <2>3, <2>5
<1> QED
  BY <1>3, <1>5, <1>6, <1>7

\* proc_sndpkt sends the top node again.
LEMMA FireCases ==
    ASSUME TypeInv, FireInv, LenInv, TimerFires
    PROVE  /\ timerheap # <<>> /\ Head(timerheap) \in On(timerheap)
           /\ Resends(Head(timerheap)) /\ Transmit(sendpkt(Head(timerheap)))
           /\ timerheap' # <<>>
           /\ Sorted(timerheap)
                => \A n \in On(timerheap) : Head(timerheap).pid <= n.pid
           /\ \/ Goto(Timer, "settwnd") /\ UNCHANGED died
              \/ /\ \E n \in On(timerheap) : n.pid > Head(timerheap).pid /\ n.rex
                 /\ UNCHANGED pc
<1> DEFINE top == Head(timerheap)
<1>1. timerheap \in Seq(Nodes) /\ timerheap # <<>>
  BY TypeParts DEF TypeInv, FireInv, TimerFires
<1>2. /\ top \in On(timerheap) /\ top \in Nodes
      /\ Tail(timerheap) \in Seq(Nodes)
      /\ On(timerheap) = On(Tail(timerheap)) \cup {top}
      /\ Sorted(timerheap) => /\ Sorted(Tail(timerheap))
                              /\ \A n \in On(timerheap) : top.pid <= n.pid
  BY <1>1, TailOfHeap
<1>3. RemoveFirst(timerheap, top) = Tail(timerheap)
  BY <1>1, RemoveHead
<1>4. /\ Transmit(sendpkt(top)) /\ UNCHANGED <<snd_una, snd_nxt, cur>>
      /\ timerheap' \in Pushes(Tail(timerheap), Again(top))
  BY <1>3 DEF TimerFires, Fired, Again, tcb, sending
<1>5. \/ Goto(Timer, "settwnd") /\ UNCHANGED died
      \/ UNCHANGED pc /\ \E i \in DOMAIN timerheap :
                           timerheap[i].pid > top.pid /\ timerheap[i].rex
  BY DEF TimerFires, Fired
<1>6. DOMAIN timerheap = 1..Len(timerheap)
  BY <1>1
<1>7. \/ Goto(Timer, "settwnd") /\ UNCHANGED died
      \/ UNCHANGED pc /\ \E n \in On(timerheap) : n.pid > top.pid /\ n.rex
  BY <1>5, <1>6 DEF On
<1> HIDE DEF top
<1>8. Again(top) \in Nodes
  BY <1>2, AgainSame
<1>9. /\ timerheap' \in Seq(Nodes) /\ timerheap' # <<>>
      /\ On(timerheap') = On(Tail(timerheap)) \cup {Again(top)}
      /\ Sorted(Tail(timerheap)) => Sorted(timerheap')
  BY <1>2, <1>4, <1>8, PushesOne
<1>10. Resends(top)
  BY <1>2, <1>4, <1>9 DEF Resends
<1> QED
  BY <1>1, <1>2, <1>4, <1>7, <1>9, <1>10 DEF top

\* Every step leaves the heap alone, puts the segment in hand on it, loses
\* nodes, or sends one of them again.
LEMMA HeapCases ==
    ASSUME TypeInv, LockInv, FireInv, LenInv, [AnyNext]_vars
    PROVE  \/ UNCHANGED timerheap
           \/ \E t \in Threads :
                 /\ SendAdd(t)
                 /\ On(timerheap') = On(timerheap) \cup {Kept(cur)}
                 /\ Sorted(timerheap) => Sorted(timerheap')
           \/ Loses /\ (HeapFree \/ TimerClear)
           \/ \E top : Resends(top) /\ HeapFree /\ Start(top) = snd_una
           \/ Resends(Head(timerheap)) /\ TimerFires
<1> USE DEF tcb, buffer, sending
<1>1. timerheap \in Seq(Nodes) /\ snd_una \in Nat /\ ack \in Nat /\ cur \in Segments
  BY TypeParts DEF TypeInv
<1>2. ASSUME NEW t \in Threads, SendAdd(t)
      PROVE  /\ On(timerheap') = On(timerheap) \cup {Kept(cur)}
             /\ Sorted(timerheap) => Sorted(timerheap')
  BY <1>1, <1>2, KeptIsNode, PushesOne DEF SendAdd
<1>3. ASSUME NEW t \in Threads, DeleteTimer(t)
      PROVE  Loses /\ HeapFree
  <2>1. ack = snd_una
    BY <1>3 DEF DeleteTimer, LockInv, RunPcs
  <2>2. /\ HeapFree /\ UNCHANGED <<snd_una, snd_nxt, cur>>
        /\ timerheap' = Acknowledged(timerheap, snd_una)
    BY <1>3, <2>1 DEF DeleteTimer
  <2> QED
    BY <1>1, <2>2, AcknowledgedKeeps DEF Loses
<1>4. ASSUME TimerClear
      PROVE  Loses
  <2>1. /\ UNCHANGED <<snd_una, snd_nxt, cur>>
        /\ timerheap' = From(timerheap, LAMBDA node : node.pid > snd_una)
    BY <1>4 DEF TimerClear
  <2> DEFINE rest == From(timerheap, LAMBDA node : node.pid > snd_una)
  <2>2. /\ On(rest) \subseteq On(timerheap)
        /\ \A n \in On(timerheap) : n.pid > snd_una => n \in On(rest)
        /\ Sorted(timerheap) => Sorted(rest)
    BY <1>1, ClearedKeeps
  <2>3. timerheap' = rest
    BY <2>1
  <2> HIDE DEF rest
  <2> QED
    BY <2>1, <2>2, <2>3 DEF Loses
<1>5. ASSUME NEW t \in Threads, RexmitDupAck(t)
      PROVE  HeapFree /\ (Loses \/ \E top : Resends(top) /\ Start(top) = snd_una)
  BY <1>5, RexmitCases
<1>6. TimerFires => Resends(Head(timerheap))
  BY FireCases
<1>7. ASSUME NEW t \in Threads, SendStep(t), ~SendAdd(t)
      PROVE  UNCHANGED timerheap
  BY <1>7 DEF SendStep, SendEnter, SendWindow, SendPop, SendOut
<1>8. ASSUME NEW t \in Threads, DupAck(t) \/ CkDupAck(t)
      PROVE  UNCHANGED timerheap
  BY <1>8 DEF DupAck, CkDupAck
<1>9. ASSUME TimerStep, ~TimerClear, ~TimerFires
      PROVE  UNCHANGED timerheap
  BY <1>9 DEF TimerStep, TimerWakes, TimerNoPacket, TimerWaits, TimerSetsWindow
<1>10. \A t \in Apps, n \in Writes : TouSend(t, n) => UNCHANGED timerheap
  BY DEF TouSend
<1>11. \A t \in Threads, a \in Nat : RunRecv(t, a) => UNCHANGED timerheap
  BY DEF RunRecv
<1>12. Absorb \/ UNCHANGED vars => UNCHANGED timerheap
  BY DEF Absorb, vars
<1> QED
  BY <1>2, <1>3, <1>4, <1>5, <1>6, <1>7, <1>8, <1>9, <1>10, <1>11, <1>12,
     StepCases DEF RunStep

\* The nodes' lengths, whatever was taken for their end.
LEMMA LenNext ==
    ASSUME TypeInv, LockInv, FireInv, LenInv, [AnyNext]_vars
    PROVE  LenInv'
<1>1. timerheap \in Seq(Nodes) /\ cur \in Segments
  BY TypeParts DEF TypeInv
<1>2. \A n \in On(timerheap) : n \in Nodes
  BY <1>1 DEF On
<1>3. CASE UNCHANGED timerheap
  BY <1>3 DEF LenInv, On
<1>4. CASE On(timerheap') = On(timerheap) \cup {Kept(cur)}
  BY <1>1, <1>4, KeptIsNode DEF LenInv
<1>5. CASE Loses
  BY <1>5 DEF Loses, LenInv
<1>6. ASSUME NEW top, Resends(top)
      PROVE  LenInv'
  BY <1>2, <1>6, AgainSame DEF Resends, LenInv
<1> QED
  BY <1>3, <1>4, <1>5, <1>6, HeapCases

\* Every thread but the timer's stays out of "fire".
LEMMA NotFiring ==
    ASSUME TypeInv, NEW t \in Threads, NEW label \in Labels \ {"fire"},
           Goto(t, label), pc'[Timer] = "fire"
    PROVE  t # Timer /\ pc[Timer] = "fire"
BY TypeParts, GotoType DEF TypeInv, Threads

\* Which steps lead to "fire", or leave the timer thread there.
LEMMA FiringCases ==
    ASSUME TypeInv, [AnyNext]_vars, pc'[Timer] = "fire"
    PROVE  \/ TimerClear /\ timerheap' # <<>>
           \/ TimerFires /\ UNCHANGED pc
           \/ ~TimerFires /\ pc[Timer] = "fire"
<1> USE DEF Labels, SendPcs, RunPcs
<1>1. Timer \in Threads /\ \A t \in Apps : t \in Threads
  BY DEF Threads
<1>2. \A t \in Threads : Home(t) \in Labels \ {"fire"}
  BY DEF Home
<1>3. ASSUME NEW t \in Apps, NEW n \in Writes, TouSend(t, n)
      PROVE  pc[Timer] = "fire"
  BY <1>1, <1>3, NotFiring DEF TouSend
<1>4. ASSUME NEW t \in Threads, SendStep(t)
      PROVE  pc[Timer] = "fire"
  <2>1. \E l \in Labels \ {"fire"} : Goto(t, l)
    BY <1>2, <1>4 DEF SendStep, SendEnter, SendWindow, SendPop, SendOut, SendAdd,
                      SendReturn
  <2> QED
    BY <2>1, NotFiring
<1>5. ASSUME NEW t \in Threads, RunStep(t)
      PROVE  pc[Timer] = "fire"
  <2>1. UNCHANGED pc \/ \E l \in Labels \ {"fire"} : Goto(t, l)
    BY <1>5 DEF RunStep, DeleteTimer, DupAck, CkDupAck, RexmitDupAck
  <2> QED
    BY <2>1, NotFiring
<1>6. ASSUME NEW t \in Threads, NEW a \in Nat, RunRecv(t, a)
      PROVE  pc[Timer] = "fire"
  <2>1. snd_una \in Nat
    BY TypeParts DEF TypeInv
  <2>2. UNCHANGED pc \/ \E l \in Labels \ {"fire"} : Goto(t, l)
    BY <1>6, <2>1 DEF RunRecv
  <2> QED
    BY <2>2, NotFiring
<1>7. CASE TimerWakes \/ TimerNoPacket \/ TimerWaits \/ TimerSetsWindow
  BY <1>1, <1>7, NotFiring DEF TimerWakes, TimerNoPacket, TimerWaits, TimerSetsWindow
<1>8. CASE TimerClear
  <2>1. CASE timerheap' # <<>>
    BY <1>8, <2>1
  <2>2. CASE timerheap' = <<>>
    BY <1>1, <1>8, <2>2, NotFiring DEF TimerClear
  <2> QED
    BY <2>1, <2>2
<1>9. CASE TimerFires
  <2>1. UNCHANGED pc \/ Goto(Timer, "settwnd")
    BY <1>9 DEF TimerFires
  <2> QED
    BY <1>1, <1>9, <2>1, NotFiring
<1>10. CASE Absorb \/ UNCHANGED vars
  BY <1>10 DEF Absorb, vars
<1> QED
  BY <1>3, <1>4, <1>5, <1>6, <1>7, <1>8, <1>9, <1>10, StepCases DEF TimerStep

\* While the timer thread is about to fire nobody else touches the heap.
LEMMA FrozenAtFire ==
    ASSUME TypeInv, LockInv, FireInv, LenInv, [AnyNext]_vars,
           pc[Timer] = "fire", ~TimerFires
    PROVE  UNCHANGED timerheap
<1>1. ~HeapFree
  BY DEF HeapFree
<1>2. \A t \in Threads : ~SendAdd(t)
  BY <1>1 DEF SendAdd
<1>3. ~TimerClear
  BY DEF TimerClear
<1> QED
  BY <1>1, <1>2, <1>3, HeapCases

\* proc_sndpkt never looks at the top of an empty heap.
LEMMA FireNext ==
    ASSUME TypeInv, LockInv, FireInv, LenInv, [AnyNext]_vars
    PROVE  FireInv'
<1>1. CASE TimerClear /\ timerheap' # <<>>
  BY <1>1 DEF FireInv
<1>2. CASE TimerFires
  BY <1>2, FireCases DEF FireInv
<1>3. CASE ~TimerFires /\ pc[Timer] = "fire"
  BY <1>3, FrozenAtFire DEF FireInv
<1> QED
  BY <1>1, <1>2, <1>3, FiringCases DEF FireInv
-----------------------------------------------------------------------------
(* The window                                                              *)

\* Unless they may overlap, a run() of one thread and a send() of another do
\* not: touSend begins when no run() is going on, and run() when no send() is.
LEMMA SoloNext ==
    ASSUME TypeInv, LockInv, SoloInv, [AnyNext]_vars
    PROVE  SoloInv'
<1> USE DEF tcb, buffer, sending
<1>1. /\ pc \in [Threads -> Labels]
      /\ NoOne \notin Threads /\ Timer \in Threads
      /\ \A t \in Apps : t \in Threads /\ t # Timer
  BY TypeParts, SenderAssumption DEF TypeInv, Threads
<1>2. overlap' = overlap
  BY StepCases
<1>3. ASSUME runBy' = runBy, sendBy' \in {sendBy, NoOne},
             \A t \in Apps : pc'[t] = "send" => pc[t] = "send" \/ t = runBy
      PROVE  SoloInv'
  BY <1>2, <1>3 DEF SoloInv
<1>10. ASSUME NEW t \in Apps, NEW n \in Writes, TouSend(t, n)
       PROVE  SoloInv'
  BY <1>2, <1>10 DEF TouSend, SoloInv
<1>11. ASSUME NEW t \in Threads, SendEnter(t)
       PROVE  SoloInv'
  <2>1. /\ pc'[t] = "window" /\ pc[t] = "send"
        /\ \A u \in Threads : u # t => pc'[u] = pc[u]
    BY <1>1, <1>11, GotoType DEF SendEnter, Labels, SendPcs
  <2>2. sendBy' = t /\ runBy' = runBy
    BY <1>11 DEF SendEnter
  <2>3. t = Timer => runBy = Timer
    BY <2>1 DEF LockInv
  <2>4. ~overlap /\ runBy # NoOne => t = runBy
    BY <2>1, <2>3 DEF SoloInv, Threads
  <2> QED
    BY <1>1, <1>2, <2>1, <2>2, <2>4 DEF SoloInv
<1>12. ASSUME NEW t \in Threads, SendReturn(t)
       PROVE  SoloInv'
  <2>1. Home(t) \in Labels /\ Home(t) # "send"
    BY DEF Home, Labels
  <2>2. pc'[t] = Home(t) /\ \A u \in Threads : u # t => pc'[u] = pc[u]
    BY <1>1, <1>12, <2>1, GotoType DEF SendReturn
  <2>3. sendBy' = NoOne /\ (runBy = t => runBy' = NoOne) /\ (runBy # t => runBy' = runBy)
    BY <1>12 DEF SendReturn
  <2> QED
    BY <1>1, <1>2, <2>1, <2>2, <2>3 DEF SoloInv
<1>13. ASSUME NEW t \in Threads, NEW l \in Labels, l # "send" \/ runBy = t,
              Goto(t, l), UNCHANGED <<runBy, sendBy>>
       PROVE  SoloInv'
  <2>1. pc'[t] = l /\ \A u \in Threads : u # t => pc'[u] = pc[u]
    BY <1>1, <1>13, GotoType
  <2> QED
    BY <1>1, <1>3, <1>13, <2>1
<1>14. ASSUME NEW t \in Threads, SendWindow(t) \/ SendPop(t) \/ SendOut(t) \/ SendAdd(t)
       PROVE  SoloInv'
  <2>1. \/ SendReturn(t)
        \/ UNCHANGED <<runBy, sendBy>> /\ \E l \in SendPcs : Goto(t, l)
    BY <1>14 DEF SendWindow, SendPop, SendOut, SendAdd, SendPcs
  <2>2. \A l \in SendPcs : l \in Labels /\ l # "send"
    BY DEF SendPcs, Labels
  <2> QED
    BY <1>12, <1>13, <2>1, <2>2
<1>15. ASSUME NEW t \in Threads, RunStep(t)
       PROVE  SoloInv'
  <2>1. runBy = t
    BY <1>15 DEF RunStep, DeleteTimer, DupAck, CkDupAck, RexmitDupAck, LockInv, RunPcs
  <2>2. /\ UNCHANGED <<runBy, sendBy>>
        /\ UNCHANGED pc \/ \E l \in {"send", "ckdup", "rexmit"} : Goto(t, l)
    BY <1>15 DEF RunStep, DeleteTimer, DupAck, CkDupAck, RexmitDupAck
  <2>3. \A l \in {"send", "ckdup", "rexmit"} : l \in Labels
    BY DEF Labels, RunPcs
  <2> QED
    BY <1>1, <1>3, <1>13, <2>1, <2>2, <2>3
<1>16. ASSUME NEW t \in Threads, NEW a \in Nat, RunRecv(t, a)
       PROVE  SoloInv'
  <2>1. CASE a > snd_nxt
    BY <1>1, <1>3, <1>16, <2>1 DEF RunRecv
  <2>2. CASE ~(a > snd_nxt)
    <3>1. \E l \in Labels : Goto(t, l)
      <4>1. snd_una \in Nat
        BY TypeParts DEF TypeInv
      <4> QED
        BY <1>16, <2>2, <4>1 DEF RunRecv, Labels, RunPcs
    <3>2. \A u \in Threads : u # t => pc'[u] = pc[u]
      BY <1>1, <3>1, GotoType
    <3>3. /\ runBy' = t /\ sendBy' = sendBy
          /\ overlap \/ (sendBy = NoOne /\ \A u \in Apps : pc[u] # "send")
      BY <1>16, <2>2 DEF RunRecv
    <3> QED
      BY <1>1, <1>2, <3>2, <3>3 DEF SoloInv
  <2> QED
    BY <2>1, <2>2
<1>17. CASE TimerStep
  <2>1. /\ UNCHANGED <<runBy, sendBy>>
        /\ UNCHANGED pc \/ \E l \in {"poll", "clear", "idle", "fire", "settwnd"} :
                              Goto(Timer, l)
    BY <1>17 DEF TimerStep, TimerWakes, TimerNoPacket, TimerClear, TimerWaits,
                 TimerFires, TimerSetsWindow
  <2>2. \A l \in {"poll", "clear", "idle", "fire", "settwnd"} : l \in Labels /\ l # "send"
    BY DEF Labels
  <2> QED
    BY <1>1, <1>3, <1>13, <2>1, <2>2
<1>18. CASE Absorb \/ UNCHANGED vars
  BY <1>3, <1>18 DEF Absorb, vars
<1> QED
  BY <1>10, <1>11, <1>14, <1>15, <1>16, <1>17, <1>18, StepCases DEF SendStep

\* What send() works with stays as it is, and so do the threads that are in it.
Quiet ==
    /\ UNCHANGED <<popped, snd_una, snd_nxt, xmit_cnt, curwnd, cur, sendBy>>
    /\ written' \in Nat /\ written <= written'
    /\ \A t \in Threads : pc'[t] \in SendPcs => pc'[t] = pc[t]

\* Only send() itself and proc_ack disturb send().
LEMMA QuietCases ==
    ASSUME TypeInv, LockInv, [AnyNext]_vars
    PROVE  \/ \E t \in Threads : SendStep(t)
           \/ \E t \in Threads, a \in Nat : a <= snd_nxt /\ RunRecv(t, a)
           \/ /\ Quiet
              /\ cc' = cc \/ cc' = settwnd(cc) \/ \E t \in Threads : DupAck(t)
<1> USE DEF tcb, buffer, sending
<1>1. /\ pc \in [Threads -> Labels] /\ Timer \in Threads
      /\ \A t \in Apps : t \in Threads
      /\ written \in Nat /\ snd_nxt \in Nat
  BY TypeParts, SenderAssumption DEF TypeInv, Threads
<1>2. ASSUME NEW t \in Threads, NEW l \in Labels, l \notin SendPcs,
             UNCHANGED pc \/ Goto(t, l),
             UNCHANGED <<popped, snd_una, snd_nxt, xmit_cnt, curwnd, cur, sendBy>>,
             written' \in Nat, written <= written'
      PROVE  Quiet
  <2>1. \A u \in Threads : pc'[u] = pc[u] \/ pc'[u] \notin SendPcs
    BY <1>1, <1>2, GotoType
  <2> QED
    BY <1>2, <2>1 DEF Quiet
<1>3. {"idle", "poll", "clear", "fire", "settwnd", "send", "ckdup", "rexmit"}
        \subseteq Labels \ SendPcs
  BY DEF Labels, SendPcs, RunPcs
<1>4. written \in Nat /\ written <= written
  BY <1>1
<1>5. ASSUME NEW t \in Apps, NEW n \in Writes, TouSend(t, n)
      PROVE  Quiet /\ cc' = cc
  <2>1. n \in Nat
    BY SenderAssumption
  <2>2. written' \in Nat /\ written <= written'
    BY <1>1, <1>5, <2>1 DEF TouSend
  <2>3. Goto(t, "send") /\ cc' = cc
        /\ UNCHANGED <<popped, snd_una, snd_nxt, xmit_cnt, curwnd, cur, sendBy>>
    BY <1>5 DEF TouSend
  <2> QED
    BY <1>1, <1>2, <1>3, <2>2, <2>3
<1>6. ASSUME NEW t \in Threads, RunStep(t)
      PROVE  Quiet /\ (cc' = cc \/ DupAck(t))
  <2>1. /\ UNCHANGED <<written, popped, snd_una, snd_nxt, xmit_cnt, curwnd, cur, sendBy>>
        /\ UNCHANGED pc \/ \E l \in {"send", "ckdup", "rexmit"} : Goto(t, l)
        /\ cc' = cc \/ DupAck(t)
    BY <1>6 DEF RunStep, DeleteTimer, DupAck, CkDupAck, RexmitDupAck
  <2>2. PICK l \in {"send", "ckdup", "rexmit"} : UNCHANGED pc \/ Goto(t, l)
    BY <2>1
  <2>3. written' \in Nat /\ written <= written'
    BY <1>4, <2>1
  <2> QED
    BY <1>2, <1>3, <2>1, <2>2, <2>3
<1>7. ASSUME NEW t \in Threads, NEW a \in Nat, RunRecv(t, a), ~(a <= snd_nxt)
      PROVE  Quiet /\ cc' = cc
  <2>1. a > snd_nxt
    BY <1>1, <1>7
  <2> QED
    BY <1>4, <1>7, <2>1 DEF RunRecv, Quiet
<1>8. CASE TimerStep
  <2>1. /\ UNCHANGED <<written, popped, snd_una, snd_nxt, xmit_cnt, curwnd, cur, sendBy>>
        /\ UNCHANGED pc \/ \E l \in {"poll", "clear", "idle", "fire", "settwnd"} :
                              Goto(Timer, l)
        /\ cc' = cc \/ cc' = settwnd(cc)
    BY <1>8 DEF TimerStep, TimerWakes, TimerNoPacket, TimerClear, TimerWaits,
                TimerFires, TimerSetsWindow
  <2>2. PICK l \in {"poll", "clear", "idle", "fire", "settwnd"} :
           UNCHANGED pc \/ Goto(Timer, l)
    BY <2>1
  <2>3. written' \in Nat /\ written <= written'
    BY <1>4, <2>1
  <2> QED
    BY <1>1, <1>2, <1>3, <2>1, <2>2, <2>3
<1>9. CASE Absorb \/ UNCHANGED vars
  BY <1>4, <1>9 DEF Absorb, vars, Quiet
<1> QED
  BY <1>5, <1>6, <1>7, <1>8, <1>9, StepCases

\* send() is one thread's at a time.
LEMMA OneSender ==
    ASSUME LockInv, NEW t \in Threads, NEW u \in Threads,
           pc[t] \in SendPcs, pc[u] \in SendPcs
    PROVE  t = u
BY DEF LockInv

\* What is in flight fits the window, at every step of send().
LEMMA WindowNext ==
    ASSUME TypeInv, LockInv, WindowInv, [AnyNext]_vars
    PROVE  WindowInv'
<1> USE DEF tcb, buffer, sending
<1>1. /\ pc \in [Threads -> Labels] /\ snd_una \in Nat /\ snd_nxt \in Nat
      /\ written \in Nat /\ popped \in Nat /\ popped <= written
      /\ curwnd \in Nat /\ WindowLimit \in Nat
      /\ snd_una <= snd_nxt
  BY TypeParts, SenderAssumption, CongestionAssumption DEF TypeInv, WindowLimit
<1>2. curwnd <= WindowLimit /\ snd_nxt - snd_una <= WindowLimit
  BY DEF WindowInv
<1>3. CASE Quiet
  <2>1. ASSUME NEW t \in Threads, pc'[t] = "pop"
        PROVE  popped' < written'
    <3>1. pc[t] = "pop"
      BY <1>3, <2>1 DEF Quiet, SendPcs
    <3>2. popped < written /\ popped' = popped /\ written <= written' /\ written' \in Nat
      BY <1>3, <3>1 DEF Quiet, WindowInv
    <3> QED
      BY <1>1, <3>2
  <2> QED
    BY <1>2, <1>3, <2>1 DEF Quiet, WindowInv, WindowLimit
<1>4. ASSUME NEW t \in Threads, NEW l \in Labels, Goto(t, l),
             l = "pop" => popped' < written',
             pc[t] \in SendPcs \/ UNCHANGED <<written, popped>>,
             curwnd' <= WindowLimit, snd_nxt' - snd_una' <= WindowLimit
      PROVE  WindowInv'
  <2>1. ASSUME NEW u \in Threads, pc'[u] = "pop"
        PROVE  popped' < written'
    <3>1. pc'[t] = l /\ (u # t => pc'[u] = pc[u])
      BY <1>1, <1>4, GotoType
    <3> QED
      BY <1>4, <2>1, <3>1, OneSender DEF WindowInv, SendPcs
  <2> QED
    BY <1>4, <2>1 DEF WindowInv, WindowLimit
<1>5. ASSUME NEW t \in Threads, SendReturn(t), pc[t] \in SendPcs,
             UNCHANGED <<snd_una, snd_nxt>>
      PROVE  WindowInv'
  <2>1. Home(t) \in Labels /\ Home(t) # "pop" /\ Goto(t, Home(t)) /\ curwnd' = 0
    BY <1>5 DEF Home, Labels, SendReturn
  <2> QED
    BY <1>1, <1>2, <1>4, <1>5, <2>1
<1>10. ASSUME NEW t \in Threads, SendEnter(t)
       PROVE  WindowInv'
  BY <1>2, <1>4, <1>10 DEF SendEnter, Labels, SendPcs
<1>11. ASSUME NEW t \in Threads, SendWindow(t)
       PROVE  WindowInv'
  <2>1. CASE written = popped
    BY <1>5, <1>11, <2>1 DEF SendWindow, SendPcs
  <2>2. CASE written # popped
    <3>1. curwnd' <= WindowLimit
      BY <1>11, <2>2, SscaCalls DEF SendWindow, TypeInv
    <3>2. popped < written /\ UNCHANGED <<written, popped, snd_una, snd_nxt>>
      BY <1>1, <1>11, <2>2 DEF SendWindow
    <3> QED
      BY <1>2, <1>4, <1>11, <2>2, <3>1, <3>2 DEF SendWindow, Labels, SendPcs
  <2> QED
    BY <2>1, <2>2
<1>12. ASSUME NEW t \in Threads, SendPop(t)
       PROVE  WindowInv'
  <2>1. CASE SendStops
    BY <1>5, <1>12, <2>1 DEF SendPop, SendPcs
  <2>2. CASE ~SendStops
    <3>1. /\ SegmentLen \in Nat /\ SegmentLen <= Room(curwnd)
      BY SegmentLenType
    <3>2. Room(curwnd) \in Nat /\ (Room(curwnd) > 0 => Room(curwnd) = snd_una + curwnd - snd_nxt)
      BY <1>1, RoomType
    <3>3. snd_una' = snd_una /\ snd_nxt' = snd_nxt + SegmentLen /\ curwnd' = curwnd
      BY <1>12, <2>2 DEF SendPop
    <3>4. snd_nxt + SegmentLen - snd_una <= WindowLimit
      BY <1>1, <1>2, <3>1, <3>2
    <3>5. pc[t] = "pop" /\ Goto(t, "sendto")
      BY <1>12, <2>2 DEF SendPop
    <3>6. curwnd' <= WindowLimit /\ snd_nxt' - snd_una' <= WindowLimit
      BY <1>1, <1>2, <3>1, <3>3, <3>4
    <3>7. "sendto" \in Labels /\ pc[t] \in SendPcs
      BY <3>5 DEF Labels, SendPcs
    <3> QED
      BY <1>4, <3>5, <3>6, <3>7
  <2> QED
    BY <2>1, <2>2
<1>13. ASSUME NEW t \in Threads, SendOut(t) \/ SendAdd(t)
       PROVE  WindowInv'
  BY <1>2, <1>4, <1>13 DEF SendOut, SendAdd, Labels, SendPcs
<1>14. ASSUME NEW t \in Threads, NEW a \in Nat, a <= snd_nxt, RunRecv(t, a)
       PROVE  WindowInv'
  <2>1. /\ UNCHANGED <<written, popped, snd_nxt, curwnd>> /\ ProcAck(a)
        /\ \E l \in {"delete", "dupack", "send"} : Goto(t, l)
    BY <1>1, <1>14 DEF RunRecv
  <2>2. snd_una' \in Nat /\ snd_una <= snd_una'
    BY <1>14, <2>1, ProcAckMoves
  <2>3. snd_nxt' - snd_una' <= WindowLimit
    <3>1. \A una \in Nat : snd_una <= una => snd_nxt - una <= WindowLimit
      BY <1>1, <1>2
    <3> QED
      BY <2>1, <2>2, <3>1
  <2>4. PICK l \in {"delete", "dupack", "send"} : Goto(t, l)
    BY <2>1
  <2> QED
    BY <1>2, <1>4, <2>1, <2>3, <2>4 DEF Labels, RunPcs
<1> QED
  BY <1>3, <1>10, <1>11, <1>12, <1>13, <1>14, QuietCases DEF SendStep

\* As long as nothing changes the window under send(), congestion avoidance's
\* count leaves room in it, and what is sent is never empty.
LEMMA CountNext ==
    ASSUME TypeInv, LockInv, SoloInv, WindowInv, CountInv, [AnyNext]_vars
    PROVE  CountInv'
<1> USE DEF tcb, buffer, sending
<1> DEFINE w == getwnd(cc, Awnd)
           Counts == /\ xmit_cnt > 0 => (xmit_cnt - 1) * SMSS < Room(w)
                     /\ \A t \in Threads : pc[t] = "pop" => curwnd = w
<1>1. /\ pc \in [Threads -> Labels] /\ snd_una \in Nat /\ snd_nxt \in Nat
      /\ curwnd \in Nat /\ xmit_cnt \in Int
      /\ SMSS \in Nat /\ SMSS > 0
      /\ NoOne \notin Threads
  BY TypeParts, SenderAssumption, CongestionAssumption DEF TypeInv
<1>2. w \in Nat
  BY SscaCalls DEF TypeInv
<1>3. overlap' = overlap
  BY StepCases
<1>4. ~overlap /\ sendBy # NoOne /\ cc.cc_state = "CA" => Counts
  BY DEF CountInv
<1>5. ASSUME ~overlap => sendBy' = NoOne \/ cc'.cc_state # "CA" \/ Counts',
             ~overlap => \A t \in Threads : pc'[t] = "sendto" => cur'.len > 0
      PROVE  CountInv'
  BY <1>3, <1>5 DEF CountInv, NoEmptySegment
<1>6. ~overlap => \A t \in Threads : pc[t] = "sendto" => cur.len > 0
  BY DEF CountInv, NoEmptySegment
<1> HIDE DEF w, Counts
<1>7. CASE Quiet /\ (cc' = cc \/ cc' = settwnd(cc) \/ \E t \in Threads : DupAck(t))
  <2>1. ~overlap => \A t \in Threads : pc'[t] = "sendto" => cur'.len > 0
    BY <1>6, <1>7 DEF Quiet, SendPcs
  <2>2. CASE cc' = cc
    <3>1. Counts => Counts'
      BY <1>7, <2>2 DEF Quiet, Counts, w, Room, SendPcs
    <3>2. sendBy' = sendBy
      BY <1>7 DEF Quiet
    <3> QED
      BY <1>4, <1>5, <2>1, <2>2, <3>1, <3>2
  <2>3. CASE cc' = settwnd(cc)
    <3>1. cc'.cc_state = "SS"
      BY <2>3 DEF settwnd
    <3> QED
      BY <1>5, <2>1, <3>1
  <2>4. CASE \E t \in Threads : DupAck(t)
    <3>1. PICK t \in Threads : DupAck(t)
      BY <2>4
    <3>2. runBy = t /\ pc[t] = "dupack" /\ sendBy' = sendBy
      BY <3>1 DEF DupAck, LockInv, RunPcs, sending
    <3>3. sendBy # t
      BY <3>2 DEF LockInv, SendPcs
    <3>4. ~overlap => sendBy' = NoOne
      BY <1>1, <3>2, <3>3 DEF SoloInv
    <3> QED
      BY <1>5, <2>1, <3>4
  <2> QED
    BY <1>7, <2>2, <2>3, <2>4
<1>8. ASSUME NEW t \in Threads, NEW l \in Labels, Goto(t, l)
      PROVE  pc'[t] = l /\ \A u \in Threads : u # t => pc'[u] = pc[u]
  BY <1>1, <1>8, GotoType
<1>9. ASSUME NEW t \in Threads, SendReturn(t), pc[t] \in SendPcs
      PROVE  CountInv'
  <2>1. Home(t) \in Labels /\ Home(t) # "sendto" /\ Goto(t, Home(t)) /\ sendBy' = NoOne
    BY <1>9 DEF Home, Labels, SendReturn
  <2>2. \A u \in Threads : pc'[u] # "sendto"
    BY <1>8, <1>9, <2>1, OneSender DEF SendPcs
  <2> QED
    BY <1>5, <2>1, <2>2
<1>10. ASSUME NEW t \in Threads, SendEnter(t)
       PROVE  CountInv'
  <2>1. /\ sendBy = NoOne /\ Goto(t, "window")
        /\ xmit_cnt' = cal_num_caxmit(Room(w))
        /\ UNCHANGED <<snd_una, snd_nxt, cc, cur>>
    BY <1>10 DEF SendEnter, w
  <2>2. \A u \in Threads : pc[u] \notin SendPcs
    BY <1>1, <2>1 DEF LockInv
  <2>3. \A u \in Threads : pc'[u] \notin {"sendto", "pop"}
    BY <1>8, <2>1, <2>2 DEF SendPcs, Labels
  <2>4. Room(w) \in Nat /\ w' = w /\ Room(w)' = Room(w)
    BY <1>1, <1>2, <2>1, RoomType DEF w, Room
  <2>5. Counts'
    <3>1. cal_num_caxmit(Room(w)) > 0
            => (cal_num_caxmit(Room(w)) - 1) * SMSS < Room(w)
      BY <2>4, CaxmitFits
    <3> QED
      BY <2>1, <2>3, <2>4, <3>1 DEF Counts
  <2> QED
    BY <1>5, <2>3, <2>5
<1>11. ASSUME NEW t \in Threads, SendWindow(t)
       PROVE  CountInv'
  <2>1. CASE written = popped
    BY <1>9, <1>11, <2>1 DEF SendWindow, SendPcs
  <2>2. CASE written # popped
    <3>1. /\ curwnd' = w /\ Goto(t, "pop") /\ pc[t] = "window"
          /\ UNCHANGED <<snd_una, snd_nxt, cc, sendBy, xmit_cnt, cur>>
      BY <1>11, <2>2 DEF SendWindow, w
    <3>2. sendBy = t
      BY <3>1 DEF LockInv, SendPcs
    <3>3. w' = w /\ Room(w)' = Room(w)
      BY <3>1 DEF w, Room
    <3>4. Counts => Counts'
      BY <3>1, <3>3 DEF Counts
    <3>5. \A u \in Threads : pc'[u] # "sendto"
      BY <1>8, <3>1, OneSender DEF SendPcs, Labels
    <3> QED
      BY <1>1, <1>4, <1>5, <3>1, <3>2, <3>4, <3>5
  <2> QED
    BY <2>1, <2>2
<1>12. ASSUME NEW t \in Threads, SendPop(t)
       PROVE  CountInv'
  <2>1. CASE SendStops
    BY <1>9, <1>12, <2>1 DEF SendPop, SendPcs
  <2>2. CASE ~SendStops
    <3>1. /\ pc[t] = "pop" /\ Goto(t, "sendto")
          /\ cur' = [seq |-> snd_nxt, from |-> popped + 1, len |-> SegmentLen]
          /\ snd_nxt' = snd_nxt + SegmentLen
          /\ xmit_cnt' = IF cc.cc_state = "CA" THEN xmit_cnt - 1 ELSE xmit_cnt
          /\ UNCHANGED <<snd_una, cc, sendBy, curwnd>>
      BY <1>12, <2>2 DEF SendPop
    <3>2. sendBy = t
      BY <3>1 DEF LockInv, SendPcs
    <3>3. popped < written
      BY <3>1 DEF WindowInv
    <3>4. /\ SegmentLen \in Nat /\ SegmentLen <= SMSS
          /\ Room(curwnd) > 0 => SegmentLen > 0
      BY <3>3, SegmentLenType
    <3>5. \A u \in Threads : pc'[u] # "pop"
      BY <1>8, <3>1, OneSender DEF SendPcs, Labels
    <3>6. Room(w) \in Nat /\ (Room(w) > 0 => Room(w) = snd_una + w - snd_nxt)
      BY <1>1, <1>2, RoomType
    <3>7. (xmit_cnt - 2) * SMSS = (xmit_cnt - 1) * SMSS - SMSS
      BY <1>1
    <3>8. xmit_cnt > 0 => (xmit_cnt - 1) * SMSS >= 0
      BY <1>1
    <3>9. (xmit_cnt - 1) * SMSS \in Int /\ (xmit_cnt - 2) * SMSS \in Int
      BY <1>1
    <3>10. w' = w
      BY <3>1 DEF w
    <3>11. Room(w)' >= snd_una + w - (snd_nxt + SegmentLen)
      BY <1>1, <1>2, <3>1, <3>4, <3>10 DEF Room
    <3>12. ASSUME ~overlap, cc.cc_state = "CA"
           PROVE  Counts' /\ Room(curwnd) > 0
      <4>1. /\ xmit_cnt > 0 /\ curwnd = w
            /\ (xmit_cnt - 1) * SMSS < Room(w)
        BY <1>1, <1>4, <2>2, <3>1, <3>2, <3>12 DEF SendStops, Counts
      <4>2. Room(w) > 0
        BY <3>6, <3>8, <3>9, <4>1
      <4>3. (xmit_cnt - 2) * SMSS < snd_una + w - (snd_nxt + SegmentLen)
        BY <1>1, <1>2, <3>4, <3>6, <3>7, <3>9, <4>1, <4>2
      <4>4. Room(w)' \in Int
        BY <1>1, <1>2, <3>1, <3>4, <3>10 DEF Room
      <4>5. (xmit_cnt - 2) * SMSS < Room(w)'
        BY <1>1, <1>2, <3>4, <3>9, <3>11, <4>3, <4>4
      <4>6. xmit_cnt' - 1 = xmit_cnt - 2
        BY <1>1, <3>1, <3>12
      <4> QED
        BY <3>5, <4>1, <4>2, <4>5, <4>6 DEF Counts
    <3>13. ASSUME cc.cc_state # "CA"
           PROVE  Room(curwnd) > 0
      <4>1. MIN_SEND_SIZE \in Nat /\ MIN_SEND_SIZE >= 1 /\ Room(curwnd) \in Nat
        BY <1>1, SenderAssumption, RoomType
      <4> QED
        BY <2>2, <3>13, <4>1 DEF SendStops
    <3>14. ~overlap => cur'.len > 0
      BY <3>1, <3>4, <3>12, <3>13
    <3> QED
      BY <1>5, <3>1, <3>12, <3>14
  <2> QED
    BY <2>1, <2>2
<1>13. ASSUME NEW t \in Threads, SendOut(t) \/ SendAdd(t)
       PROVE  CountInv'
  <2>1. /\ pc[t] \in {"sendto", "add"}
        /\ Goto(t, "window") \/ Goto(t, "add")
        /\ UNCHANGED <<snd_una, snd_nxt, cc, sendBy, xmit_cnt, curwnd>>
    BY <1>13 DEF SendOut, SendAdd
  <2>2. \A u \in Threads : pc'[u] \notin {"pop", "sendto"}
    BY <1>8, <1>13, OneSender DEF SendPcs, Labels, SendOut, SendAdd
  <2>3. w' = w /\ Room(w)' = Room(w)
    BY <1>13 DEF w, Room, SendOut, SendAdd
  <2>4. Counts => Counts'
    BY <1>13, <2>2, <2>3 DEF Counts, SendOut, SendAdd
  <2>5. sendBy = t /\ UNCHANGED <<cc, sendBy>>
    BY <1>13 DEF SendOut, SendAdd, LockInv, SendPcs
  <2> QED
    BY <1>1, <1>4, <1>5, <2>2, <2>4, <2>5
<1>14. ASSUME NEW t \in Threads, NEW a \in Nat, a <= snd_nxt, RunRecv(t, a)
       PROVE  CountInv'
  <2>1. /\ sendBy' = sendBy /\ (~overlap => sendBy = NoOne)
        /\ \E l \in {"delete", "dupack", "send"} : Goto(t, l)
    BY <1>1, <1>14 DEF RunRecv
  <2>2. ~overlap => \A u \in Threads : pc[u] # "sendto"
    BY <1>1, <2>1 DEF LockInv, SendPcs
  <2>3. ~overlap => \A u \in Threads : pc'[u] # "sendto"
    BY <1>8, <2>1, <2>2 DEF Labels, RunPcs
  <2> QED
    BY <1>5, <2>1, <2>3
<1> QED
  BY <1>7, <1>10, <1>11, <1>12, <1>13, <1>14, QuietCases DEF SendStep
-----------------------------------------------------------------------------
(* The first theorem                                                       *)

\* SafeInv holds at the start ...
LEMMA SafeInit ==
    ASSUME InitSender
    PROVE  SafeInv
<1>1. Timer \in Threads /\ NoOne \notin Threads
  BY SenderAssumption DEF Threads
<1>2. WindowLimit \in Nat /\ StreamLen \in Nat /\ 0 \in 0..StreamLen
  BY SenderAssumption, CongestionAssumption DEF WindowLimit
<1>3. Ssca!WndInv(cc)
  <2>1. /\ SMSS \in Nat /\ SMSS > 0 /\ MaxWnd \in Nat /\ MaxWnd >= 6 * SMSS
        /\ MaxSsthresh \in Nat /\ MaxSsthresh >= MaxWnd
        /\ Thresh \in Nat /\ Thresh > 0
    BY CongestionAssumption
  <2> QED
    BY <2>1 DEF InitSender, InitCc, Ssca!WndInv, Ssca!CcRecords, Ssca!CcStates
<1>4. NoSegment \in Segments
  BY DEF NoSegment, Segments
<1>5. pc \in [Threads -> Labels] /\ \A t \in Threads : pc[t] = "idle"
  BY DEF InitSender, Labels
<1>6. BagToSet(dataNet) = {}
  BY DEF InitSender, EmptyBag, BagToSet, SetToBag
<1>7. TypeInv
  <2>1. overlap \in BOOLEAN /\ cc \in CcRecords
    BY <1>3, SscaCalls, SenderAssumption DEF InitSender
  <2>2. timerheap \in Seq(Nodes)
    BY DEF InitSender
  <2>3. /\ snd_una = 1 /\ snd_nxt = 1 /\ written = 0 /\ popped = 0 /\ ack = 0
        /\ runBy = NoOne /\ sendBy = NoOne /\ xmit_cnt = 0 /\ curwnd = 0
        /\ cur = NoSegment /\ died = "no"
    BY DEF InitSender
  <2>4. TypeOK
    BY <1>2, <1>4, <1>5, <1>6, <2>1, <2>2, <2>3, TypeParts
  <2> QED
    BY <1>3, <2>3, <2>4 DEF TypeInv
<1>8. LockInv
  BY <1>1, <1>5 DEF LockInv, InitSender, SendPcs, RunPcs
<1>9. SoloInv /\ WindowInv /\ CountInv
  BY <1>1, <1>2, <1>5 DEF SoloInv, WindowInv, CountInv, NoEmptySegment, InitSender
<1>10. FireInv /\ LenInv
  BY <1>1, <1>5 DEF FireInv, LenInv, InitSender, On
<1> QED
  BY <1>7, <1>8, <1>9, <1>10 DEF SafeInv

\* ... and is kept by every step.
LEMMA SafeNext ==
    ASSUME SafeInv, [AnyNext]_vars
    PROVE  SafeInv'
BY TypeNext, LockNext, SoloNext, WindowNext, CountNext, FireNext, LenNext
DEF SafeInv

\* What the peer may acknowledge is a number, so Next is a case of AnyNext.
LEMMA NextIsAny ==
    ASSUME TypeInv, [Next]_vars
    PROVE  [AnyNext]_vars
<1>1. timerheap \in Seq(Nodes) /\ cur \in Segments /\ snd_una \in Nat
  BY TypeParts DEF TypeInv
<1>2. \A i \in DOMAIN timerheap : timerheap[i].pid \in Nat
  <2>1. DOMAIN timerheap = 1..Len(timerheap)
        /\ \A i \in 1..Len(timerheap) : timerheap[i] \in Nodes
    BY <1>1
  <2> QED
    BY <2>1 DEF Nodes
<1>3. cur.seq + cur.len \in Nat
  BY <1>1 DEF Segments
<1>4. Acks \subseteq Nat
  BY <1>1, <1>2, <1>3 DEF Acks, Ends
<1> QED
  BY <1>4 DEF Next, AnyNext, Receive

\* Whatever is lost, late, stale or acknowledged twice, and whether or not
\* touSend overlaps with run(): no more than the peer's window and the clamp
\* allow is in flight, and send() sends no empty segment where they do not.
THEOREM SenderWindow == Spec => [](TypeOK /\ FlightBounded /\ NoEmptySegment)
<1>1. InitSender => SafeInv
  BY SafeInit
<1>2. SafeInv /\ [Next]_vars => SafeInv'
  BY SafeNext, NextIsAny DEF SafeInv
<1>3. SafeInv => TypeOK /\ FlightBounded /\ NoEmptySegment
  BY DEF SafeInv, TypeInv, WindowInv, CountInv, FlightBounded, WindowLimit
<1> QED
  BY <1>1, <1>2, <1>3, PTL DEF Spec
-----------------------------------------------------------------------------
(* Nothing is left in the send buffer for ever                             *)

\* t will call send() and is not in it.
WillSend(t) == pc[t] \in {"send"} \cup RunPcs

\* While nothing is in flight, whoever is in send() may send, or somebody else
\* will come.
StrandInv ==
    /\ cc.cc_state = "CA" => cc.snd_cwnd >= 2 * SMSS
    /\ \A t \in Threads : pc[t] = "pop" => curwnd >= SMSS
    /\ \A t \in Threads :
          pc[t] \in SendPcs /\ snd_una = snd_nxt /\ cc.cc_state = "CA"
             => xmit_cnt >= 1 \/ \E u \in Threads : WillSend(u)
    /\ NoStranded

\* Busy, by the threads' places.
LEMMA BusyParts ==
    Busy = {} <=> \A t \in Threads : pc[t] \notin SendPcs /\ ~WillSend(t)
BY DEF Busy, SendPcs, RunPcs, WillSend

\* Congestion avoidance begins with a window of two segments, and keeps it.
LEMMA AvoidanceIsWide ==
    ASSUME NEW c, Ssca!WndInv(c), c.cc_state = "CA" => c.snd_cwnd >= 2 * SMSS
    PROVE  /\ addwnd(c).cc_state = "CA" => addwnd(c).snd_cwnd >= 2 * SMSS
           /\ settwnd(c).cc_state # "CA"
           /\ setdwnd(c, TRUE).cc_state = "CA"
                 => c.cc_state = "CA" /\ setdwnd(c, TRUE).snd_cwnd = c.snd_cwnd
<1>1. /\ SMSS \in Nat /\ SMSS > 0 /\ MaxWnd \in Nat /\ MaxWnd >= 6 * SMSS
  BY CongestionAssumption
<1>2. /\ c \in CcRecords /\ c.snd_cwnd \in Nat /\ c.snd_cwnd >= SMSS
      /\ c.snd_cwnd <= MaxWnd
      /\ c.snd_ssthresh \in Nat /\ c.snd_ssthresh >= 2 * SMSS
      /\ c.cc_state \in {"SS", "CA", "FR"}
  <2>1. c \in CcRecords
    BY SscaCalls
  <2>2. c.snd_cwnd \in SMSS..MaxWnd /\ c.snd_ssthresh >= 2 * SMSS
    BY DEF Ssca!WndInv
  <2> QED
    BY <1>1, <2>1, <2>2 DEF CcRecords, CcStates
<1>3. c = [cc_state |-> c.cc_state, snd_cwnd |-> c.snd_cwnd,
           snd_ssthresh |-> c.snd_ssthresh, dupackcount |-> c.dupackcount]
  BY <1>2 DEF CcRecords
<1>4. settwnd(c).cc_state # "CA"
  BY DEF settwnd
<1>5. setdwnd(c, TRUE).cc_state = "CA"
         => c.cc_state = "CA" /\ setdwnd(c, TRUE).snd_cwnd = c.snd_cwnd
  BY <1>2 DEF setdwnd, Counted, CcRecords
<1>6. ASSUME addwnd(c).cc_state = "CA"
      PROVE  addwnd(c).snd_cwnd >= 2 * SMSS
  <2>1. CASE c.cc_state = "FR"
    <3>1. addwnd(c).snd_cwnd = ckSize(c.snd_ssthresh)
      BY <1>2, <2>1 DEF addwnd, CcRecords
    <3> QED
      BY <1>1, <1>2, <3>1 DEF ckSize
  <2>2. CASE c.cc_state # "FR"
    <3>1. /\ ~(c.cc_state = "SS" /\ c.snd_cwnd < c.snd_ssthresh)
          /\ addwnd(c).snd_cwnd = Linear(c)
      BY <1>2, <1>6, <2>2 DEF addwnd, CcRecords
    <3>2. c.snd_cwnd >= 2 * SMSS
      BY <1>1, <1>2, <2>2, <3>1
    <3>3. (SMSS * SMSS) \div c.snd_cwnd \in Nat
      <4>1. \A x \in Nat, y \in Nat : y > 0 => x \div y \in Nat
        OBVIOUS
      <4>2. SMSS * SMSS \in Nat /\ c.snd_cwnd > 0
        BY <1>1, <1>2
      <4> QED
        BY <1>2, <4>1, <4>2
    <3> HIDE DEF Linear
    <3>4. Linear(c) = ckSize(c.snd_cwnd + (SMSS * SMSS) \div c.snd_cwnd)
      BY DEF Linear
    <3>5. \A g \in Nat : ckSize(c.snd_cwnd + g) >= 2 * SMSS
      BY <1>1, <1>2, <3>2 DEF ckSize
    <3> QED
      BY <3>1, <3>3, <3>4, <3>5
  <2> QED
    BY <2>1, <2>2
<1> QED
  BY <1>4, <1>5, <1>6

\* The window of a sender with nothing in flight, and the count it gives.
LEMMA WindowOpens ==
    ASSUME Awnd > SMSS, TypeInv, cc.cc_state = "CA" => cc.snd_cwnd >= 2 * SMSS
    PROVE  /\ getwnd(cc, Awnd) \in Nat /\ getwnd(cc, Awnd) >= SMSS
           /\ \A w \in Nat : snd_una = snd_nxt => Room(w) = w
           /\ cc.cc_state = "CA" /\ snd_una = snd_nxt
                 => cal_num_caxmit(Room(getwnd(cc, Awnd))) >= 1
<1> DEFINE w == getwnd(cc, Awnd)
<1>1. /\ SMSS \in Nat /\ SMSS > 0 /\ MaxWnd \in Nat /\ MaxWnd >= 6 * SMSS
      /\ Awnd \in Nat /\ cc.snd_cwnd \in Nat /\ cc.snd_cwnd >= SMSS
      /\ snd_una \in Nat /\ snd_nxt \in Nat
  BY CongestionAssumption, SenderAssumption, SscaCalls
  DEF TypeInv, TypeOK, Ssca!WndInv, CcRecords
<1>2. w \in Nat /\ w >= SMSS
  BY <1>1 DEF getwnd, ckSize
<1>3. cc.cc_state = "CA" => w > SMSS
  BY <1>1 DEF getwnd, ckSize
<1>4. \A x \in Nat : snd_una = snd_nxt => Room(x) = x
  BY <1>1 DEF Room
<1> HIDE DEF w
<1>5. ASSUME w > SMSS
      PROVE  cal_num_caxmit(w) >= 1
  <2> DEFINE n == w \div SMSS
             r == w % SMSS
  <2>1. n \in Nat /\ r \in 0 .. (SMSS - 1) /\ w = n * SMSS + r
    BY <1>1, <1>2
  <2>2. cal_num_caxmit(w) = IF n % 2 = 0 THEN n ELSE IF r # 0 THEN n + 1 ELSE n - 1
    BY DEF cal_num_caxmit
  <2> HIDE DEF n, r
  <2>3. n # 0
    <3>1. n = 0 => n * SMSS = 0
      BY <1>1
    <3> QED
      BY <1>1, <1>2, <1>5, <2>1, <3>1
  <2>4. n = 1 => n * SMSS = SMSS
    BY <1>1
  <2>5. n = 1 => r # 0
    BY <1>1, <1>2, <1>5, <2>1, <2>4
  <2> QED
    BY <2>1, <2>2, <2>3, <2>5
<1> QED
  BY <1>2, <1>3, <1>4, <1>5 DEF w

\* A step outside send() leaves what send() works with alone, and it is the end
\* of no run() that has not sent.  If it moves snd_una up, or adds data, its thread
\* will send.
Outside ==
    /\ UNCHANGED <<popped, snd_nxt, xmit_cnt, curwnd>>
    /\ \A t \in Threads : /\ pc[t] \in SendPcs \/ pc'[t] \in SendPcs => pc'[t] = pc[t]
                          /\ WillSend(t) => WillSend(t)'
    /\ \/ /\ UNCHANGED <<written, snd_una>>
          /\ cc' = cc \/ cc' = settwnd(cc) \/ cc' = setdwnd(cc, TRUE)
       \/ /\ \E t \in Threads : WillSend(t)'
          /\ cc' = cc \/ cc' = addwnd(cc)

LEMMA OutsideCases ==
    ASSUME TypeInv, LockInv, [AnyNext]_vars
    PROVE  Outside \/ \E t \in Threads : SendStep(t)
<1> USE DEF tcb, buffer, sending
<1>1. /\ pc \in [Threads -> Labels] /\ Timer \in Threads
      /\ \A t \in Apps : t \in Threads
      /\ snd_una \in Nat /\ snd_nxt \in Nat
  BY TypeParts, SenderAssumption DEF TypeInv, Threads
<1> DEFINE Effects == \/ /\ UNCHANGED <<written, snd_una>>
                         /\ cc' = cc \/ cc' = settwnd(cc) \/ cc' = setdwnd(cc, TRUE)
                      \/ /\ \E t \in Threads : WillSend(t)'
                         /\ cc' = cc \/ cc' = addwnd(cc)
<1>2. ASSUME NEW t \in Threads, NEW l \in Labels, UNCHANGED pc \/ Goto(t, l),
             pc[t] \notin SendPcs, l \notin SendPcs,
             WillSend(t) => l \in {"send"} \cup RunPcs,
             UNCHANGED <<popped, snd_nxt, xmit_cnt, curwnd>>, Effects
      PROVE  Outside
  <2>1. \A u \in Threads : pc'[u] = pc[u] \/ (u = t /\ pc'[u] = l)
    BY <1>1, <1>2, GotoType
  <2> HIDE DEF Effects
  <2>2. \A u \in Threads : /\ pc[u] \in SendPcs \/ pc'[u] \in SendPcs => pc'[u] = pc[u]
                           /\ WillSend(u) => WillSend(u)'
    BY <1>2, <2>1 DEF WillSend
  <2> QED
    BY <1>2, <2>2 DEF Outside, Effects
<1>3. /\ {"idle", "poll", "clear", "fire", "settwnd", "send"} \cup RunPcs
           \subseteq Labels \ SendPcs
      /\ ({"send"} \cup RunPcs) \cap {"idle", "poll", "clear", "fire", "settwnd"} = {}
  BY DEF Labels, SendPcs, RunPcs
<1>4. ASSUME NEW t \in Apps, NEW n \in Writes, TouSend(t, n)
      PROVE  Outside
  <2>1. t \in Threads /\ Goto(t, "send") /\ pc[t] = "idle" /\ cc' = cc
        /\ UNCHANGED <<popped, snd_nxt, xmit_cnt, curwnd>>
    BY <1>1, <1>4 DEF TouSend
  <2>2. WillSend(t)'
    BY <1>1, <2>1, GotoType DEF WillSend, Labels
  <2> QED
    BY <1>2, <1>3, <2>1, <2>2
<1>5. ASSUME NEW t \in Threads, RunStep(t)
      PROVE  Outside
  <2>1. /\ UNCHANGED <<written, popped, snd_una, snd_nxt, xmit_cnt, curwnd>>
        /\ UNCHANGED pc \/ \E l \in {"send", "ckdup", "rexmit"} : Goto(t, l)
        /\ pc[t] \in RunPcs
        /\ cc' = cc \/ cc' = setdwnd(cc, ack = snd_una)
    BY <1>5 DEF RunStep, DeleteTimer, DupAck, CkDupAck, RexmitDupAck, RunPcs
  <2>2. PICK l \in {"send", "ckdup", "rexmit"} : UNCHANGED pc \/ Goto(t, l)
    BY <2>1
  <2>3. (ack = snd_una) = TRUE
    BY <2>1 DEF LockInv
  <2>4. Effects
    BY <2>1, <2>3
  <2>5. l \in {"send"} \cup RunPcs
    BY DEF RunPcs
  <2> QED
    BY <1>2, <1>3, <2>1, <2>2, <2>4, <2>5
<1>6. ASSUME NEW t \in Threads, NEW a \in Nat, RunRecv(t, a)
      PROVE  Outside
  <2>1. /\ UNCHANGED <<written, popped, snd_nxt, xmit_cnt, curwnd>>
        /\ pc[t] \in {"idle", "poll"}
    BY <1>6 DEF RunRecv
  <2>2. ~WillSend(t)
    BY <1>3, <2>1 DEF WillSend
  <2>3. CASE a > snd_nxt
    <3>1. UNCHANGED <<pc, snd_una, cc>>
      BY <1>6, <2>3 DEF RunRecv
    <3> QED
      BY <1>2, <1>3, <2>1, <2>2, <3>1
  <2>4. CASE ~(a > snd_nxt)
    <3>1. PICK l \in {"delete", "dupack", "send"} : Goto(t, l)
      BY <1>1, <1>6, <2>4 DEF RunRecv
    <3>2. l \in {"send"} \cup RunPcs
      BY DEF RunPcs
    <3>3. WillSend(t)'
      BY <1>1, <1>3, <3>1, <3>2, GotoType DEF WillSend
    <3>4. cc' = cc \/ cc' = addwnd(cc)
      BY <1>6, <2>4 DEF RunRecv, ProcAck
    <3> QED
      BY <1>2, <1>3, <2>1, <2>2, <3>1, <3>2, <3>3, <3>4
  <2> QED
    BY <2>3, <2>4
<1>7. CASE TimerStep
  <2>1. /\ UNCHANGED <<written, popped, snd_una, snd_nxt, xmit_cnt, curwnd>>
        /\ UNCHANGED pc \/ \E l \in {"poll", "clear", "idle", "fire", "settwnd"} :
                              Goto(Timer, l)
        /\ pc[Timer] \in {"poll", "clear", "idle", "fire", "settwnd"}
        /\ cc' = cc \/ cc' = settwnd(cc)
    BY <1>7 DEF TimerStep, TimerWakes, TimerNoPacket, TimerClear, TimerWaits,
                TimerFires, TimerSetsWindow
  <2>2. PICK l \in {"poll", "clear", "idle", "fire", "settwnd"} :
           UNCHANGED pc \/ Goto(Timer, l)
    BY <2>1
  <2>3. ~WillSend(Timer)
    BY <1>3, <2>1 DEF WillSend
  <2> QED
    BY <1>1, <1>2, <1>3, <2>1, <2>2, <2>3
<1>8. CASE Absorb \/ UNCHANGED vars
  <2>1. UNCHANGED <<written, popped, snd_una, snd_nxt, xmit_cnt, curwnd, pc, cc>>
    BY <1>8 DEF Absorb, vars
  <2> QED
    BY <2>1 DEF Outside, WillSend
<1> QED
  BY <1>4, <1>5, <1>6, <1>7, <1>8, StepCases

LEMMA StrandNext ==
    ASSUME Awnd > SMSS, TypeInv, LockInv, WindowInv, StrandInv, [AnyNext]_vars
    PROVE  StrandInv'
<1> USE DEF tcb, buffer, sending
<1>1. /\ pc \in [Threads -> Labels] /\ snd_una \in Nat /\ snd_nxt \in Nat
      /\ written \in Nat /\ popped \in Nat /\ popped <= written
      /\ curwnd \in Nat /\ xmit_cnt \in Int /\ Ssca!WndInv(cc)
      /\ SMSS \in Nat /\ SMSS > 0 /\ NoOne \notin Threads
      /\ snd_una <= snd_nxt
  BY TypeParts, SenderAssumption, CongestionAssumption DEF TypeInv
<1>2. cc.cc_state = "CA" => cc.snd_cwnd >= 2 * SMSS
  BY DEF StrandInv
<1>3. ASSUME NEW t \in Threads, NEW l \in Labels, Goto(t, l)
      PROVE  pc'[t] = l /\ \A u \in Threads : u # t => pc'[u] = pc[u]
  BY <1>1, <1>3, GotoType
<1>4. CASE Outside
  <2>1. cc'.cc_state = "CA" => cc'.snd_cwnd >= 2 * SMSS
    BY <1>1, <1>2, <1>4, AvoidanceIsWide DEF Outside
  <2>2. \A t \in Threads : pc'[t] = "pop" => curwnd' >= SMSS
    BY <1>4 DEF Outside, StrandInv, SendPcs
  <2>3. CASE \E t \in Threads : WillSend(t)'
    <3>1. Busy' # {}
      BY <2>3, BusyParts DEF Busy, WillSend, RunPcs
    <3> QED
      BY <2>1, <2>2, <2>3, <3>1 DEF StrandInv, NoStranded
  <2>4. CASE ~\E t \in Threads : WillSend(t)'
    <3>1. /\ UNCHANGED <<written, popped, snd_una, snd_nxt, xmit_cnt, curwnd>>
          /\ cc'.cc_state = "CA" => cc.cc_state = "CA"
      BY <1>1, <1>2, <1>4, <2>4, AvoidanceIsWide DEF Outside
    <3>2. \A t \in Threads : ~WillSend(t) /\ (pc[t] \in SendPcs <=> pc'[t] \in SendPcs)
      BY <1>4, <2>4 DEF Outside
    <3>3. \A t \in Threads :
             pc'[t] \in SendPcs /\ snd_una' = snd_nxt' /\ cc'.cc_state = "CA"
                => xmit_cnt' >= 1
      BY <3>1, <3>2 DEF StrandInv
    <3>4. Busy' = {} => Busy = {}
      <4>1. Busy' = {} => \A t \in Threads : pc'[t] \notin SendPcs
        BY DEF Busy, SendPcs
      <4> QED
        BY <3>2, <4>1, BusyParts
    <3>5. NoStranded'
      BY <3>1, <3>4 DEF NoStranded, StrandInv
    <3> QED
      BY <2>1, <2>2, <3>3, <3>5 DEF StrandInv
  <2> QED
    BY <2>3, <2>4
<1>5. ASSUME NEW t \in Threads, NEW l \in Labels, Goto(t, l), l \in SendPcs, UNCHANGED cc,
             \A u \in Threads : u # t => pc[u] \notin SendPcs,
             l = "pop" => curwnd' >= SMSS,
             ASSUME snd_una' = snd_nxt', cc.cc_state = "CA",
                    \A u \in Threads : u # t => ~WillSend(u)
             PROVE  xmit_cnt' >= 1
      PROVE  StrandInv'
  <2>1. pc'[t] = l /\ \A u \in Threads : u # t => pc'[u] = pc[u]
    BY <1>3, <1>5
  <2>2. Busy' # {}
    BY <1>5, <2>1 DEF Busy, SendPcs
  <2>3. \A u \in Threads : pc'[u] = "pop" => curwnd' >= SMSS
    BY <1>5, <2>1 DEF SendPcs
  <2>4. \A u \in Threads : u # t /\ WillSend(u) => WillSend(u)'
    BY <2>1 DEF WillSend
  <2>5. \A u \in Threads :
           pc'[u] \in SendPcs /\ snd_una' = snd_nxt' /\ cc'.cc_state = "CA"
              => xmit_cnt' >= 1 \/ \E v \in Threads : WillSend(v)'
    BY <1>5, <2>4
  <2> QED
    BY <1>2, <1>5, <2>2, <2>3, <2>5 DEF StrandInv, NoStranded
<1>6. ASSUME NEW t \in Threads, pc[t] \in SendPcs
      PROVE  \A u \in Threads : u # t => pc[u] \notin SendPcs
  BY <1>6, OneSender
<1>7. ASSUME NEW t \in Threads, pc[t] \in SendPcs, snd_una = snd_nxt, cc.cc_state = "CA",
             \A u \in Threads : u # t => ~WillSend(u)
      PROVE  xmit_cnt >= 1
  <2>1. ~WillSend(t)
    BY <1>7 DEF WillSend, SendPcs, RunPcs
  <2> QED
    BY <1>7, <2>1 DEF StrandInv
<1>8. ASSUME NEW t \in Threads, SendReturn(t), pc[t] \in SendPcs,
             UNCHANGED <<written, popped, snd_una, snd_nxt, cc>>,
             \/ written = popped
             \/ snd_una = snd_nxt => \E u \in Threads : u # t /\ WillSend(u)
      PROVE  StrandInv'
  <2>1. Home(t) \in Labels \ SendPcs /\ Goto(t, Home(t))
    BY <1>8 DEF Home, Labels, SendReturn, SendPcs
  <2>2. pc'[t] = Home(t) /\ \A u \in Threads : u # t => pc'[u] = pc[u]
    BY <1>3, <2>1
  <2>3. \A u \in Threads : pc'[u] \notin SendPcs
    BY <1>6, <1>8, <2>1, <2>2
  <2>4. NoStranded'
    <3>1. CASE written = popped
      BY <1>1, <1>8, <3>1 DEF NoStranded
    <3>2. CASE snd_una # snd_nxt
      BY <1>1, <1>8, <3>2 DEF NoStranded
    <3>3. ASSUME NEW u \in Threads, u # t, WillSend(u)
          PROVE  NoStranded'
      <4>1. pc'[u] \in {"send"} \cup RunPcs
        BY <2>2, <3>3 DEF WillSend
      <4>2. Busy' # {}
        BY <4>1 DEF Busy, RunPcs
      <4> QED
        BY <4>2 DEF NoStranded
    <3> QED
      BY <1>8, <3>1, <3>2, <3>3
  <2> QED
    BY <1>2, <1>8, <2>3, <2>4 DEF StrandInv, SendPcs
<1>9. ASSUME NEW t \in Threads, SendEnter(t)
      PROVE  StrandInv'
  <2>1. /\ sendBy = NoOne /\ Goto(t, "window")
        /\ xmit_cnt' = cal_num_caxmit(Room(getwnd(cc, Awnd)))
        /\ UNCHANGED <<snd_una, snd_nxt, cc>>
    BY <1>9 DEF SendEnter
  <2>2. \A u \in Threads : pc[u] \notin SendPcs
    BY <1>1, <2>1 DEF LockInv
  <2>3. ASSUME snd_una' = snd_nxt', cc.cc_state = "CA"
        PROVE  xmit_cnt' >= 1
    BY <1>2, <2>1, <2>3, WindowOpens
  <2>4. "window" \in Labels /\ "window" \in SendPcs /\ "window" # "pop"
    BY DEF Labels, SendPcs
  <2> QED
    BY <1>5, <2>1, <2>2, <2>3, <2>4
<1>10. ASSUME NEW t \in Threads, SendWindow(t)
       PROVE  StrandInv'
  <2>1. pc[t] \in SendPcs /\ UNCHANGED <<written, popped, snd_una, snd_nxt, cc>>
    BY <1>10 DEF SendWindow, SendPcs
  <2>2. CASE written = popped
    BY <1>8, <1>10, <2>1, <2>2 DEF SendWindow
  <2>3. CASE written # popped
    <3>1. curwnd' = getwnd(cc, Awnd) /\ Goto(t, "pop") /\ xmit_cnt' = xmit_cnt
      BY <1>10, <2>3 DEF SendWindow
    <3>2. curwnd' >= SMSS
      BY <1>2, <3>1, WindowOpens
    <3>3. "pop" \in Labels /\ "pop" \in SendPcs
      BY DEF Labels, SendPcs
    <3> QED
      BY <1>5, <1>6, <1>7, <2>1, <3>1, <3>2, <3>3
  <2> QED
    BY <2>2, <2>3
<1>11. ASSUME NEW t \in Threads, SendPop(t)
       PROVE  StrandInv'
  <2>1. pc[t] = "pop" /\ pc[t] \in SendPcs /\ UNCHANGED <<written, snd_una, cc>>
    BY <1>11 DEF SendPop, SendPcs
  <2>2. curwnd >= SMSS /\ popped < written
    BY <2>1 DEF StrandInv, WindowInv
  <2>3. snd_una = snd_nxt => Room(curwnd) = curwnd
    BY <1>1, <1>2, WindowOpens
  <2>4. CASE SendStops
    <3>1. ASSUME snd_una = snd_nxt
          PROVE  \E u \in Threads : u # t /\ WillSend(u)
      <4>1. MIN_SEND_SIZE <= Room(curwnd)
        <5>1. MIN_SEND_SIZE \in Nat /\ MIN_SEND_SIZE <= SMSS
          BY <1>1, SenderAssumption
        <5> QED
          BY <1>1, <2>2, <2>3, <3>1, <5>1
      <4>2. cc.cc_state = "CA" /\ xmit_cnt <= 0
        <5>1. MIN_SEND_SIZE \in Nat
          BY <1>1, SenderAssumption
        <5> QED
          BY <1>1, <2>3, <2>4, <3>1, <4>1, <5>1 DEF SendStops
      <4> QED
        BY <1>1, <1>7, <2>1, <3>1, <4>2
    <3>2. SendReturn(t) /\ UNCHANGED <<popped, snd_nxt>>
      BY <1>11, <2>4 DEF SendPop
    <3> QED
      BY <1>8, <2>1, <3>1, <3>2
  <2>5. CASE ~SendStops
    <3>1. /\ snd_nxt' = snd_nxt + SegmentLen /\ Goto(t, "sendto")
      BY <1>11, <2>5 DEF SendPop
    <3>2. /\ SegmentLen \in Nat
          /\ Room(curwnd) > 0 => SegmentLen > 0
      BY <2>2, SegmentLenType
    <3>3. snd_una' # snd_nxt'
      BY <1>1, <2>1, <2>2, <2>3, <3>1, <3>2
    <3>4. "sendto" \in Labels /\ "sendto" \in SendPcs /\ "sendto" # "pop"
      BY DEF Labels, SendPcs
    <3> QED
      BY <1>5, <1>6, <2>1, <3>1, <3>3, <3>4
  <2> QED
    BY <2>4, <2>5
<1>12. ASSUME NEW t \in Threads, SendOut(t) \/ SendAdd(t)
       PROVE  StrandInv'
  <2>1. /\ pc[t] \in SendPcs /\ UNCHANGED <<snd_una, snd_nxt, cc, xmit_cnt>>
        /\ \E l \in {"window", "add"} : Goto(t, l)
    BY <1>12 DEF SendOut, SendAdd, SendPcs
  <2>2. PICK l \in {"window", "add"} : Goto(t, l)
    BY <2>1
  <2>3. l \in Labels /\ l \in SendPcs /\ l # "pop"
    BY DEF Labels, SendPcs
  <2> QED
    BY <1>5, <1>6, <1>7, <2>1, <2>2, <2>3
<1> QED
  BY <1>4, <1>9, <1>10, <1>11, <1>12, OutsideCases DEF SendStep

\* Nothing is in the send buffer at first.
LEMMA StrandInit ==
    ASSUME InitSender
    PROVE  StrandInv
<1>1. SMSS \in Nat /\ \A t \in Threads : pc[t] = "idle"
  BY CongestionAssumption DEF InitSender
<1> QED
  BY <1>1 DEF StrandInv, NoStranded, InitSender, InitCc, SendPcs

\* Data never waits in the send buffer with nothing in flight and nobody about
\* to send, if the peer's window is of more than one segment.
THEOREM SenderNeverStrands ==
    ASSUME Awnd > SMSS
    PROVE  Spec => []NoStranded
<1>1. InitSender => SafeInv /\ StrandInv
  BY SafeInit, StrandInit
<1>2. SafeInv /\ StrandInv /\ [Next]_vars => (SafeInv /\ StrandInv)'
  BY SafeNext, NextIsAny, StrandNext DEF SafeInv
<1>3. StrandInv => NoStranded
  BY DEF StrandInv
<1> QED
  BY <1>1, <1>2, <1>3, PTL DEF Spec
-----------------------------------------------------------------------------
(* The stream: what the steps do to the bytes sent                         *)

\* An acknowledgement of something new is of the end of a segment.
Ackable(a) == a > snd_una => AtBoundary(a)

\* The sender against any peer that acknowledges ends of segments, as often, as
\* late and in whatever order it and the network like.
StreamNext ==
    /\ \/ Internal
       \/ \E t \in Threads, a \in Nat :
             Ackable(a) /\ died = "no" /\ RunRecv(t, a) /\ UNCHANGED dataNet
       \/ Absorb
    /\ UNCHANGED overlap

\* popsndq: the next bytes are in hand.
Pops ==
    /\ cur = NoSegment
    /\ snd_nxt' \in Nat /\ snd_nxt <= snd_nxt'
    /\ cur' = [seq |-> snd_nxt, from |-> snd_nxt, len |-> snd_nxt' - snd_nxt]
    /\ ~overlap => snd_nxt < snd_nxt'
    /\ UNCHANGED <<snd_una, timerheap>>

\* tmng.add: the segment in hand is on the heap.
Adds ==
    /\ cur # NoSegment /\ cur' = NoSegment
    /\ On(timerheap') = On(timerheap)
          \cup {[pid |-> cur.seq + cur.len, from |-> cur.from, len |-> cur.len,
                 rex |-> FALSE]}
    /\ Sorted(timerheap) => Sorted(timerheap')
    /\ UNCHANGED <<snd_una, snd_nxt>>

\* proc_ack: the window moves.
Advances ==
    /\ snd_una' \in Nat /\ snd_una < snd_una' /\ AtBoundary(snd_una')
    /\ UNCHANGED <<snd_nxt, cur, timerheap>>

\* StreamNext allows less than AnyNext.
LEMMA StreamIsAny ==
    ASSUME [StreamNext]_vars
    PROVE  [AnyNext]_vars
BY DEF StreamNext, AnyNext

\* Only send() has a segment in hand, from popsndq to tmng.add.
LEMMA InHand ==
    ASSUME SafeInv, HandInv, [AnyNext]_vars
    PROVE  (cur # NoSegment <=> \E t \in Threads : pc[t] \in {"sendto", "add"})'
<1> USE DEF tcb, buffer, sending
<1>1. /\ pc \in [Threads -> Labels] /\ snd_nxt \in Nat /\ 1 <= snd_nxt
      /\ snd_una \in Nat /\ NoOne \notin Threads
  BY TypeParts, SenderAssumption DEF SafeInv, TypeInv
<1>2. TypeInv /\ LockInv /\ LockInv'
  BY SafeNext DEF SafeInv
<1>3. cur # NoSegment <=> \E t \in Threads : pc[t] \in {"sendto", "add"}
  BY DEF HandInv
<1>4. \A t, u \in Threads : pc[t] \in SendPcs /\ pc[u] \in SendPcs => t = u
  BY <1>2, OneSender
<1>5. \A t \in Threads, l \in Labels :
         Goto(t, l) => pc'[t] = l /\ \A u \in Threads : u # t => pc'[u] = pc[u]
  BY <1>1, GotoType
<1>6. SendPcs \subseteq Labels /\ \A t \in Threads : Home(t) \in Labels \ SendPcs
  BY DEF Labels, SendPcs, Home
<1>7. ASSUME Quiet
      PROVE  \A t \in Threads : pc'[t] \in {"sendto", "add"} <=> pc[t] \in {"sendto", "add"}
  <2>1. \A t \in Threads : pc[t] \in SendPcs => pc'[t] = pc[t]
    BY <1>2, <1>7 DEF Quiet, LockInv
  <2> QED
    BY <1>7, <2>1 DEF Quiet, SendPcs
<1>8. ASSUME NEW t \in Threads, SendReturn(t), pc[t] \in {"window", "pop"}
      PROVE  cur' = NoSegment /\ \A u \in Threads : pc'[u] \notin {"sendto", "add"}
  <2>1. cur' = NoSegment /\ Goto(t, Home(t))
    BY <1>8 DEF SendReturn
  <2>2. pc'[t] \notin {"sendto", "add"}
    BY <1>5, <1>6, <2>1 DEF SendPcs
  <2>3. \A u \in Threads : u # t => pc[u] \notin SendPcs /\ pc'[u] = pc[u]
    BY <1>4, <1>5, <1>6, <1>8, <2>1 DEF SendPcs
  <2> QED
    BY <2>1, <2>2, <2>3 DEF SendPcs
<1>10. ASSUME NEW t \in Threads, SendEnter(t)
       PROVE  cur' = cur /\ \A u \in Threads : pc'[u] \in {"sendto", "add"} <=> pc[u] \in {"sendto", "add"}
  BY <1>5, <1>6, <1>10 DEF SendEnter, SendPcs
<1>11. ASSUME NEW t \in Threads, SendWindow(t), written # popped
       PROVE  cur' = cur /\ \A u \in Threads : pc'[u] \in {"sendto", "add"} <=> pc[u] \in {"sendto", "add"}
  BY <1>5, <1>6, <1>11 DEF SendWindow, SendPcs
<1>12. ASSUME NEW t \in Threads, SendPop(t), ~SendStops
       PROVE  cur' # NoSegment /\ pc'[t] = "sendto"
  <2>1. Goto(t, "sendto") /\ cur'.seq = snd_nxt
    BY <1>12 DEF SendPop
  <2>2. NoSegment.seq = 0
    BY DEF NoSegment
  <2> QED
    BY <1>1, <1>5, <1>6, <2>1, <2>2 DEF SendPcs
<1>13. ASSUME NEW t \in Threads, SendOut(t)
       PROVE  cur' = cur /\ \A u \in Threads : pc'[u] \in {"sendto", "add"} <=> pc[u] \in {"sendto", "add"}
  BY <1>5, <1>6, <1>13 DEF SendOut, SendPcs
<1>14. ASSUME NEW t \in Threads, SendAdd(t)
       PROVE  cur' = NoSegment /\ \A u \in Threads : pc'[u] \notin {"sendto", "add"}
  <2>1. cur' = NoSegment /\ Goto(t, "window") /\ pc[t] \in SendPcs
    BY <1>14 DEF SendAdd, SendPcs
  <2> QED
    BY <1>4, <1>5, <1>6, <2>1 DEF SendPcs
<1>15. ASSUME NEW t \in Threads, NEW a \in Nat, a <= snd_nxt, RunRecv(t, a)
       PROVE  cur' = cur /\ \A u \in Threads : pc'[u] \in {"sendto", "add"} <=> pc[u] \in {"sendto", "add"}
  <2>1. /\ cur' = cur /\ pc[t] \in {"poll", "idle"}
        /\ \E l \in {"delete", "dupack", "send"} : Goto(t, l)
    BY <1>1, <1>15 DEF RunRecv
  <2> QED
    BY <1>5, <2>1 DEF Labels, RunPcs
<1>16. ASSUME NEW t \in Threads, SendStep(t)
       PROVE  (cur # NoSegment <=> \E u \in Threads : pc[u] \in {"sendto", "add"})'
  BY <1>3, <1>8, <1>10, <1>11, <1>12, <1>13, <1>14, <1>16
  DEF SendStep, SendWindow, SendPop
<1>17. CASE Quiet
  BY <1>3, <1>7, <1>17 DEF Quiet
<1> QED
  BY <1>2, <1>3, <1>15, <1>16, <1>17, QuietCases

\* What a step does to the bytes that are sent and not acknowledged.
LEMMA StreamCases ==
    ASSUME NulAt = {}, SafeInv, HandInv, [StreamNext]_vars
    PROVE  \/ UNCHANGED <<snd_una, snd_nxt, cur, timerheap>>
           \/ Pops \/ Adds \/ Loses \/ Advances
           \/ \E top : Resends(top) /\ (Start(top) = snd_una \/
                                        (TimerFires /\ top = Head(timerheap)))
<1> USE DEF tcb, buffer, sending
<1>1. /\ snd_una \in Nat /\ snd_nxt \in Nat /\ popped \in Nat
      /\ snd_nxt = popped + 1 /\ cur \in Segments /\ timerheap \in Seq(Nodes)
      /\ pc \in [Threads -> Labels]
  BY TypeParts, SenderAssumption DEF SafeInv, TypeInv
<1>2. TypeInv /\ LockInv /\ FireInv /\ LenInv /\ CountInv'
  BY SafeNext, StreamIsAny DEF SafeInv
<1>3. /\ cur # NoSegment <=> \E t \in Threads : pc[t] \in {"sendto", "add"}
      /\ cur.seq = cur.from
  BY DEF HandInv
<1>4. \A t \in Threads : pc[t] \in {"window", "pop"} => cur = NoSegment
  <2>1. \A t, u \in Threads : pc[t] \in SendPcs /\ pc[u] \in SendPcs => t = u
    BY <1>2, OneSender
  <2> QED
    BY <1>3, <2>1 DEF SendPcs
<1>5. overlap' = overlap
  BY StepCases, StreamIsAny
<1>10. ASSUME NEW t \in Threads, SendPop(t), ~SendStops
       PROVE  Pops
  <2>1. /\ cur' = [seq |-> snd_nxt, from |-> popped + 1, len |-> SegmentLen]
        /\ snd_nxt' = snd_nxt + SegmentLen
        /\ UNCHANGED <<snd_una, timerheap>> /\ Goto(t, "sendto") /\ pc[t] = "pop"
    BY <1>10 DEF SendPop
  <2>2. SegmentLen \in Nat
    BY <1>2, SegmentLenType
  <2>3. /\ snd_nxt' \in Nat /\ snd_nxt <= snd_nxt' /\ SegmentLen = snd_nxt' - snd_nxt
    BY <1>1, <2>1, <2>2
  <2>4. pc'[t] = "sendto"
    BY <1>1, <2>1, GotoType DEF Labels, SendPcs
  <2>5. ~overlap => cur'.len > 0
    BY <1>2, <1>5, <2>4 DEF CountInv, NoEmptySegment
  <2>6. ~overlap => SegmentLen > 0
    BY <2>1, <2>5
  <2>7. ~overlap => snd_nxt < snd_nxt'
    BY <1>1, <2>1, <2>2, <2>6
  <2> QED
    BY <1>1, <1>4, <2>1, <2>3, <2>7 DEF Pops
<1>11. ASSUME NEW t \in Threads, SendWindow(t) \/ (SendPop(t) /\ SendStops)
       PROVE  UNCHANGED <<snd_una, snd_nxt, cur, timerheap>>
  <2>1. cur = NoSegment
    BY <1>4, <1>11 DEF SendWindow, SendPop
  <2>2. UNCHANGED <<snd_una, snd_nxt, timerheap>> /\ cur' \in {cur, NoSegment}
    BY <1>11 DEF SendWindow, SendPop, SendReturn
  <2> QED
    BY <2>1, <2>2
<1>12. ASSUME NEW t \in Threads, SendAdd(t)
       PROVE  Adds
  <2>0. /\ On(timerheap') = On(timerheap) \cup {Kept(cur)}
        /\ Sorted(timerheap) => Sorted(timerheap')
    BY <1>1, <1>12, KeptIsNode, PushesOne DEF SendAdd
  <2>1. Kept(cur) = [pid |-> cur.seq + cur.len, from |-> cur.from, rex |-> FALSE,
                     len |-> cur.len]
    BY <1>1, KeptIsNode
  <2>2. cur # NoSegment /\ cur' = NoSegment /\ UNCHANGED <<snd_una, snd_nxt>>
    BY <1>3, <1>12 DEF SendAdd
  <2> QED
    BY <2>0, <2>1, <2>2 DEF Adds
<1>13. ASSUME NEW t \in Threads, NEW a \in Nat, RunRecv(t, a), Ackable(a)
       PROVE  Advances \/ UNCHANGED <<snd_una, snd_nxt, cur, timerheap>>
  <2>1. /\ UNCHANGED <<snd_nxt, cur, timerheap>>
        /\ snd_una' = snd_una \/ (snd_una' = a /\ a > snd_una)
    BY <1>13 DEF RunRecv, ProcAck
  <2> QED
    BY <1>1, <1>13, <2>1 DEF Advances, Ackable
<1>14. UNCHANGED timerheap =>
          UNCHANGED <<snd_una, snd_nxt, cur, timerheap>> \/ Pops \/ Adds \/ Advances
  <2> SUFFICES ASSUME UNCHANGED timerheap
               PROVE  \/ UNCHANGED <<snd_una, snd_nxt, cur, timerheap>>
                      \/ Pops \/ Adds \/ Advances
    OBVIOUS
  <2>1. \A t \in Threads : SendEnter(t) \/ SendOut(t) => UNCHANGED <<snd_una, snd_nxt, cur>>
    BY DEF SendEnter, SendOut
  <2>2. \A t \in Threads : RunStep(t) => UNCHANGED <<snd_una, snd_nxt, cur>>
    BY DEF RunStep, DeleteTimer, DupAck, CkDupAck, RexmitDupAck
  <2>3. TimerStep => UNCHANGED <<snd_una, snd_nxt, cur>>
    BY DEF TimerStep, TimerWakes, TimerNoPacket, TimerClear, TimerWaits,
           TimerFires, TimerSetsWindow
  <2>4. \A t \in Apps, n \in Writes : TouSend(t, n) => UNCHANGED <<snd_una, snd_nxt, cur>>
    BY DEF TouSend
  <2>5. Absorb \/ UNCHANGED vars => UNCHANGED <<snd_una, snd_nxt, cur>>
    BY DEF Absorb, vars
  <2> QED
    BY <1>10, <1>11, <1>12, <1>13, <2>1, <2>2, <2>3, <2>4, <2>5
    DEF SendStep, StreamNext, Internal
<1> QED
  BY <1>2, <1>12, <1>14, StreamIsAny, HeapCases

\* Held, in terms of the spans.
LEMMA HeldInSpan ==
    TypeInv => \A p : Held(p) <=> \E s \in Spans : s.lo <= p /\ p < s.hi
<1> SUFFICES ASSUME TypeInv
             PROVE  \A p : Held(p) <=> \E s \in Spans : s.lo <= p /\ p < s.hi
  OBVIOUS
<1>1. timerheap \in Seq(Nodes)
  BY TypeParts DEF TypeInv
<1>2. DOMAIN timerheap = 1..Len(timerheap)
  BY <1>1
<1>3. ASSUME NEW p
      PROVE  Held(p) <=> \E s \in Spans : s.lo <= p /\ p < s.hi
  <2>1. Held(p) <=> \/ \E n \in On(timerheap) : Start(n) <= p /\ p < n.pid
                    \/ cur.seq <= p /\ p < cur.seq + cur.len
    BY <1>2 DEF Held, On, Start
  <2>2. ASSUME NEW n \in On(timerheap), Start(n) <= p, p < n.pid
        PROVE  \E s \in Spans : s.lo <= p /\ p < s.hi
    <3>1. [lo |-> Start(n), hi |-> n.pid] \in Spans
      BY DEF Spans
    <3> QED
      BY <2>2, <3>1
  <2>3. ASSUME cur.seq <= p, p < cur.seq + cur.len
        PROVE  \E s \in Spans : s.lo <= p /\ p < s.hi
    <3>1. [lo |-> cur.seq, hi |-> cur.seq + cur.len] \in Spans
      BY DEF Spans
    <3> QED
      BY <2>3, <3>1
  <2>4. ASSUME NEW s \in Spans, s.lo <= p, p < s.hi
        PROVE  \/ \E n \in On(timerheap) : Start(n) <= p /\ p < n.pid
               \/ cur.seq <= p /\ p < cur.seq + cur.len
    BY <2>4 DEF Spans
  <2> QED
    BY <2>1, <2>2, <2>3, <2>4
<1> QED
  BY <1>3

\* Spans are intervals of numbers.
LEMMA SpanTypes ==
    ASSUME TypeInv, LenInv
    PROVE  /\ \A s \in Spans : s.lo \in Nat /\ s.hi \in Nat
           /\ \A n \in On(timerheap) : n \in Nodes /\ Start(n) \in Nat
           /\ cur \in Segments
           /\ \A p : Held(p) <=> \E s \in Spans : s.lo <= p /\ p < s.hi
<1>1. timerheap \in Seq(Nodes) /\ cur \in Segments
  BY TypeParts DEF TypeInv
<1>3. \A n \in On(timerheap) : n \in Nodes
  BY <1>1 DEF On
<1>4. \A n \in On(timerheap) : n.pid \in Nat /\ Start(n) \in Nat
  BY <1>3 DEF LenInv, Start, Nodes
<1>5. cur.seq \in Nat /\ cur.seq + cur.len \in Nat
  BY <1>1 DEF Segments
<1>6. \A s \in Spans : s.lo \in Nat /\ s.hi \in Nat
  BY <1>4, <1>5 DEF Spans
<1> QED
  BY <1>1, <1>3, <1>4, <1>6, HeldInSpan

\* The spans after a step: those of before and a new one at the end.
LEMMA SpansAfter ==
    ASSUME NulAt = {}, SafeInv, HandInv, [StreamNext]_vars
    PROVE  /\ \A s \in Spans' : \/ s \in Spans \/ (s.lo = 0 /\ s.hi = 0)
                                \/ (s.lo = snd_nxt /\ s.hi = snd_nxt')
           /\ \A s \in Spans : s.lo >= snd_una /\ s.hi > snd_una => s \in Spans'
           /\ snd_nxt' \in Nat /\ snd_nxt <= snd_nxt'
           /\ snd_nxt < snd_nxt' =>
                 [lo |-> snd_nxt, hi |-> snd_nxt'] \in Spans' /\ snd_una' = snd_una
           /\ \/ snd_una' = snd_una
              \/ /\ snd_una' \in Nat /\ snd_una < snd_una' /\ AtBoundary(snd_una')
                 /\ Spans' = Spans
<1>1. /\ \A s \in Spans : s.lo \in Nat /\ s.hi \in Nat
      /\ \A n \in On(timerheap) : n \in Nodes /\ Start(n) \in Nat
      /\ cur \in Segments
  BY SpanTypes DEF SafeInv
<1>2. snd_nxt \in Nat /\ snd_una \in Nat /\ 1 <= snd_una
  BY TypeParts DEF SafeInv, TypeInv
<1>3. [lo |-> NoSegment.seq, hi |-> NoSegment.seq + NoSegment.len] = [lo |-> 0, hi |-> 0]
  BY DEF NoSegment
<1>4. snd_nxt <= snd_nxt /\ ~(snd_nxt < snd_nxt)
  BY <1>2
<1>10. CASE UNCHANGED <<snd_una, snd_nxt, cur, timerheap>>
  <2>1. Spans' = Spans
    BY <1>10 DEF Spans, On
  <2> QED
    BY <1>2, <1>4, <1>10, <2>1
<1>11. CASE Pops
  <2>1. /\ snd_nxt' \in Nat /\ snd_nxt <= snd_nxt' /\ snd_una' = snd_una
        /\ cur'.seq = snd_nxt /\ cur'.seq + cur'.len = snd_nxt'
    <3>1. /\ snd_nxt' \in Nat /\ snd_nxt <= snd_nxt' /\ snd_una' = snd_una
          /\ cur'.seq = snd_nxt /\ cur'.len = snd_nxt' - snd_nxt
      BY <1>11 DEF Pops
    <3>2. \A m \in Nat : snd_nxt + (m - snd_nxt) = m
      BY <1>2
    <3>3. cur'.seq + cur'.len = snd_nxt + (snd_nxt' - snd_nxt)
      BY <3>1
    <3>4. snd_nxt + (snd_nxt' - snd_nxt) = snd_nxt'
      BY <3>1, <3>2
    <3> QED
      BY <3>1, <3>3, <3>4
  <2>2. /\ Spans = {[lo |-> Start(n), hi |-> n.pid] : n \in On(timerheap)}
                   \cup {[lo |-> 0, hi |-> 0]}
        /\ Spans' = {[lo |-> Start(n), hi |-> n.pid] : n \in On(timerheap)}
                    \cup {[lo |-> snd_nxt, hi |-> snd_nxt']}
    BY <1>3, <1>11, <2>1 DEF Pops, Spans, On
  <2> QED
    BY <1>2, <2>1, <2>2
<1>12. CASE Adds
  <2> DEFINE new == [pid |-> cur.seq + cur.len, from |-> cur.from, len |-> cur.len,
                     rex |-> FALSE]
  <2>1. Start(new) = cur.seq /\ new.pid = cur.seq + cur.len
    BY <1>1 DEF Start, Segments
  <2>2. On(timerheap') = On(timerheap) \cup {new}
        /\ cur' = NoSegment /\ UNCHANGED <<snd_una, snd_nxt>>
    BY <1>12 DEF Adds
  <2> HIDE DEF new
  <2>3. Spans' = Spans \cup {[lo |-> 0, hi |-> 0]}
    BY <1>3, <2>1, <2>2 DEF Spans
  <2> QED
    BY <1>2, <1>4, <2>2, <2>3
<1>13. CASE Loses
  <2>1. /\ On(timerheap') \subseteq On(timerheap) /\ UNCHANGED <<snd_una, snd_nxt, cur>>
        /\ \A n \in On(timerheap) :
              n.pid > snd_una /\ Start(n) >= snd_una => n \in On(timerheap')
    BY <1>13 DEF Loses
  <2>2. Spans' \subseteq Spans
    BY <2>1 DEF Spans
  <2>3. \A s \in Spans : s.lo >= snd_una /\ s.hi > snd_una => s \in Spans'
    BY <2>1 DEF Spans
  <2> QED
    BY <1>2, <1>4, <2>1, <2>2, <2>3
<1>14. CASE Advances
  <2>1. Spans' = Spans
    BY <1>14 DEF Advances, Spans, On
  <2> QED
    BY <1>2, <1>4, <1>14, <2>1 DEF Advances
<1>15. ASSUME NEW top, Resends(top)
       PROVE  /\ Spans' \subseteq Spans
              /\ \A s \in Spans : s.lo >= snd_una /\ s.hi > snd_una => s \in Spans'
  <2>1. /\ top \in On(timerheap) /\ Again(top) \in On(timerheap')
        /\ On(timerheap') \subseteq On(timerheap) \cup {Again(top)}
        /\ UNCHANGED <<snd_una, snd_nxt, cur>>
        /\ \A n \in On(timerheap) :
              n # top /\ n.pid > snd_una /\ Start(n) >= snd_una => n \in On(timerheap')
    BY <1>15 DEF Resends
  <2>2. Start(Again(top)) = Start(top) /\ Again(top).pid = top.pid
    BY <1>1, <2>1, AgainSame
  <2>3. Spans' \subseteq Spans
    BY <2>1, <2>2 DEF Spans
  <2>4. ASSUME NEW s \in Spans, s.lo >= snd_una, s.hi > snd_una
        PROVE  s \in Spans'
    <3>1. CASE s = [lo |-> cur.seq, hi |-> cur.seq + cur.len]
      BY <2>1, <3>1 DEF Spans
    <3>2. ASSUME NEW n \in On(timerheap), s = [lo |-> Start(n), hi |-> n.pid]
          PROVE  s \in Spans'
      <4>1. Start(n) >= snd_una /\ n.pid > snd_una
        BY <2>4, <3>2
      <4>2. \E m \in On(timerheap') : Start(m) = Start(n) /\ m.pid = n.pid
        BY <2>1, <2>2, <4>1
      <4> QED
        BY <3>2, <4>2 DEF Spans
    <3> QED
      BY <3>1, <3>2 DEF Spans
  <2> QED
    BY <2>3, <2>4
<1>16. ASSUME NEW top, Resends(top)
       PROVE  UNCHANGED <<snd_una, snd_nxt>>
  BY <1>16 DEF Resends
<1> QED
  BY <1>2, <1>4, <1>10, <1>11, <1>12, <1>13, <1>14, <1>15, <1>16, StreamCases

\* Where a segment may end now it may end later.
LEMMA BoundaryStays ==
    ASSUME NulAt = {}, SafeInv, HandInv, [StreamNext]_vars,
           NEW x \in Nat, AtBoundary(x)
    PROVE  AtBoundary(x)'
<1>1. snd_nxt \in Nat
  BY TypeParts DEF SafeInv, TypeInv
<1>2. x <= snd_nxt /\ \A s \in Spans : ~(s.lo < x /\ x < s.hi)
  BY DEF AtBoundary
<1>3. /\ snd_nxt' \in Nat /\ snd_nxt <= snd_nxt'
      /\ \A s \in Spans' : \/ s \in Spans \/ (s.lo = 0 /\ s.hi = 0)
                           \/ (s.lo = snd_nxt /\ s.hi = snd_nxt')
  BY SpansAfter
<1>4. \A s \in Spans' : ~(s.lo < x /\ x < s.hi)
  BY <1>1, <1>2, <1>3
<1> QED
  BY <1>1, <1>2, <1>3, <1>4 DEF AtBoundary

\* Segments go on not overlapping.
LEMMA SpanNext ==
    ASSUME NulAt = {}, SafeInv, HandInv, SpanInv, [StreamNext]_vars
    PROVE  SpanInv'
<1>1. snd_nxt \in Nat /\ snd_una \in Nat
  BY TypeParts DEF SafeInv, TypeInv
<1>2. \A s \in Spans : s.lo \in Nat /\ s.hi \in Nat
  BY SpanTypes DEF SafeInv
<1>3. /\ snd_nxt' \in Nat /\ snd_nxt <= snd_nxt'
      /\ \A s \in Spans' : \/ s \in Spans \/ (s.lo = 0 /\ s.hi = 0)
                           \/ (s.lo = snd_nxt /\ s.hi = snd_nxt')
      /\ snd_una' = snd_una \/ (snd_una' \in Nat /\ AtBoundary(snd_una'))
  BY SpansAfter
<1>4. \A s \in Spans : AtBoundary(s.lo) /\ AtBoundary(s.hi) /\ s.hi <= snd_nxt
  BY DEF SpanInv, AtBoundary
<1> DEFINE After(x) == x <= snd_nxt' /\ \A s \in Spans' : ~(s.lo < x /\ x < s.hi)
<1>5. \A x \in Nat : AtBoundary(x) => After(x)
  BY BoundaryStays DEF AtBoundary
<1>6. AtBoundary(snd_nxt) /\ AtBoundary(0)
  BY <1>1, <1>2, <1>4 DEF AtBoundary
<1>7. \A s \in Spans' : s.hi <= snd_nxt'
  BY <1>1, <1>2, <1>3, <1>4
<1>8. \A s \in Spans' : ~(s.lo < snd_nxt' /\ snd_nxt' < s.hi)
  BY <1>1, <1>2, <1>3, <1>4, <1>7
<1>9. After(snd_nxt) /\ After(0) /\ After(snd_nxt') /\ After(snd_una')
  BY <1>1, <1>3, <1>5, <1>6, <1>8 DEF SpanInv
<1>10. \A s \in Spans' : After(s.lo) /\ After(s.hi)
  <2> HIDE DEF After
  <2> QED
    BY <1>2, <1>3, <1>4, <1>5, <1>9
<1> QED
  BY <1>9, <1>10 DEF SpanInv, AtBoundary

\* Every byte sent and not acknowledged stays held, until it is acknowledged.
LEMMA HeldNext ==
    ASSUME NulAt = {}, SafeInv, HandInv, SpanInv, UnackedIsHeld, [StreamNext]_vars
    PROVE  UnackedIsHeld'
<1>1. snd_nxt \in Nat /\ snd_una \in Nat /\ snd_una <= snd_nxt
  BY TypeParts DEF SafeInv, TypeInv
<1>2. /\ \A s \in Spans : s.lo \in Nat /\ s.hi \in Nat
      /\ \A p : Held(p) <=> \E s \in Spans : s.lo <= p /\ p < s.hi
  BY SpanTypes DEF SafeInv
<1>3. \A p : Held(p)' <=> \E s \in Spans' : s.lo <= p /\ p < s.hi
  <2>1. TypeInv'
    BY SafeNext, StreamIsAny DEF SafeInv
  <2>2. (\A p : Held(p) <=> \E s \in Spans : s.lo <= p /\ p < s.hi)'
    BY <2>1, HeldInSpan, PTL
  <2> QED
    BY <2>2
<1>4. /\ \A s \in Spans : s.lo >= snd_una /\ s.hi > snd_una => s \in Spans'
      /\ snd_nxt' \in Nat /\ snd_nxt <= snd_nxt'
      /\ snd_nxt < snd_nxt' =>
            [lo |-> snd_nxt, hi |-> snd_nxt'] \in Spans' /\ snd_una' = snd_una
      /\ \/ snd_una' = snd_una
         \/ snd_una' \in Nat /\ snd_una < snd_una' /\ Spans' = Spans
  BY SpansAfter
<1> SUFFICES ASSUME NEW p \in snd_una'..(snd_nxt' - 1)
             PROVE  \E s \in Spans' : s.lo <= p /\ p < s.hi
  BY <1>3 DEF UnackedIsHeld
<1>5. p \in Nat /\ snd_una <= p /\ p < snd_nxt'
  <2>1. snd_una' \in Nat /\ snd_una <= snd_una'
    BY <1>1, <1>4
  <2>2. \A una, nxt \in Nat : \A q \in una..(nxt - 1) : q \in Nat /\ una <= q /\ q < nxt
    OBVIOUS
  <2>3. p \in Nat /\ snd_una' <= p /\ p < snd_nxt'
    BY <1>4, <2>1, <2>2
  <2>4. \A una \in Nat : snd_una <= una /\ una <= p => snd_una <= p
    BY <1>1, <2>3
  <2> QED
    BY <2>1, <2>3, <2>4
<1>6. CASE p < snd_nxt
  <2>1. Held(p)
    BY <1>1, <1>5, <1>6 DEF UnackedIsHeld
  <2>2. PICK s \in Spans : s.lo <= p /\ p < s.hi
    BY <1>2, <2>1
  <2>3. ~(s.lo < snd_una /\ snd_una < s.hi)
    BY DEF SpanInv, AtBoundary
  <2>4. s.lo \in Nat /\ s.hi \in Nat
    BY <1>2
  <2>5. s.lo >= snd_una /\ s.hi > snd_una
    BY <1>1, <1>5, <2>2, <2>3, <2>4
  <2> QED
    BY <1>4, <2>2, <2>5
<1>7. CASE ~(p < snd_nxt)
  <2>1. snd_nxt <= p /\ snd_nxt < snd_nxt'
    BY <1>1, <1>4, <1>5, <1>7
  <2> QED
    BY <1>4, <1>5, <2>1
<1> QED
  BY <1>6, <1>7

\* The segment in hand is the last one.
LEMMA HandNext ==
    ASSUME NulAt = {}, SafeInv, HandInv, NodeInv, [StreamNext]_vars
    PROVE  HandInv'
<1>1. /\ snd_nxt \in Nat /\ 1 <= snd_nxt /\ overlap' = overlap
  BY TypeParts, StepCases, StreamIsAny DEF SafeInv, TypeInv
<1>2. /\ \A n \in On(timerheap) : n \in Nodes /\ n.pid \in Nat /\ n.pid <= snd_nxt
      /\ cur \in Segments
  BY SpanTypes DEF SafeInv, NodeInv, Nodes
<1>3. (cur # NoSegment <=> \E t \in Threads : pc[t] \in {"sendto", "add"})'
  BY InHand, StreamIsAny
<1>4. NoSegment.seq = NoSegment.from
  BY DEF NoSegment
<1>5. ASSUME cur'.seq = cur'.from,
             cur' # NoSegment =>
                /\ cur'.seq >= 1 /\ cur'.seq + cur'.len = snd_nxt'
                /\ \A n \in On(timerheap') : n.pid <= cur'.seq
                /\ ~overlap => cur'.len > 0
      PROVE  HandInv'
  BY <1>1, <1>3, <1>5 DEF HandInv
<1>6. /\ cur.seq = cur.from
      /\ cur # NoSegment =>
            /\ cur.seq >= 1 /\ cur.seq + cur.len = snd_nxt
            /\ \A n \in On(timerheap) : n.pid <= cur.seq
            /\ ~overlap => cur.len > 0
  BY DEF HandInv
<1>10. CASE UNCHANGED <<snd_nxt, cur>> /\ \A n \in On(timerheap') :
                \E m \in On(timerheap) : n.pid = m.pid
  BY <1>5, <1>6, <1>10
<1>11. CASE Pops
  <2>1. /\ snd_nxt' \in Nat /\ cur'.seq = snd_nxt /\ cur'.from = snd_nxt
        /\ cur'.len = snd_nxt' - snd_nxt
        /\ ~overlap => snd_nxt < snd_nxt'
        /\ timerheap' = timerheap
    BY <1>11 DEF Pops
  <2>2. \A m \in Nat : snd_nxt + (m - snd_nxt) = m /\ (snd_nxt < m => m - snd_nxt > 0)
    BY <1>1
  <2>3. cur'.seq + cur'.len = snd_nxt + (snd_nxt' - snd_nxt)
    BY <2>1
  <2>4. cur'.seq + cur'.len = snd_nxt' /\ (~overlap => cur'.len > 0)
    BY <2>1, <2>2, <2>3
  <2> QED
    BY <1>1, <1>2, <1>5, <2>1, <2>4
<1>12. CASE Adds
  BY <1>4, <1>5, <1>12 DEF Adds
<1>13. CASE Loses
  BY <1>10, <1>13 DEF Loses
<1>14. ASSUME NEW top, Resends(top)
       PROVE  HandInv'
  <2>1. Again(top).pid = top.pid /\ top \in On(timerheap)
    BY <1>2, <1>14, AgainSame DEF Resends
  <2> QED
    BY <1>10, <1>14, <2>1 DEF Resends
<1>15. UNCHANGED timerheap => \A n \in On(timerheap') : n \in On(timerheap)
  BY DEF On
<1> QED
  BY <1>10, <1>11, <1>12, <1>13, <1>14, <1>15, StreamCases DEF Advances

\* The nodes' sequence numbers are those of their bytes.
LEMMA NodeNext ==
    ASSUME NulAt = {}, SafeInv, HandInv, NodeInv, [StreamNext]_vars
    PROVE  NodeInv'
<1>1. snd_nxt \in Nat /\ snd_nxt' \in Nat /\ snd_nxt <= snd_nxt'
  BY TypeParts, SpansAfter DEF SafeInv, TypeInv
<1>2. /\ \A n \in On(timerheap) : n \in Nodes /\ n.pid \in Nat /\ n.pid <= snd_nxt'
      /\ cur \in Segments
  <2>1. \A n \in On(timerheap) : n \in Nodes /\ n.pid <= snd_nxt
    BY SpanTypes DEF SafeInv, NodeInv
  <2>2. \A n \in On(timerheap) : n.pid \in Nat
    BY <2>1 DEF Nodes
  <2>3. cur \in Segments
    BY SpanTypes DEF SafeInv
  <2> QED
    BY <1>1, <2>1, <2>2, <2>3
<1>3. /\ \A n \in On(timerheap) : n.pid <= snd_nxt' /\ Start(n) = n.from
      /\ Sorted(timerheap)
  BY <1>2 DEF NodeInv
<1>4. ASSUME On(timerheap') \subseteq On(timerheap), Sorted(timerheap) => Sorted(timerheap')
      PROVE  NodeInv'
  BY <1>3, <1>4 DEF NodeInv
<1>5. UNCHANGED timerheap => NodeInv'
  BY <1>3, <1>4 DEF On, Sorted
<1>6. CASE Adds
  <2> DEFINE new == [pid |-> cur.seq + cur.len, from |-> cur.from, len |-> cur.len,
                     rex |-> FALSE]
  <2>1. cur.seq + cur.len = snd_nxt /\ cur.seq = cur.from
    BY <1>6 DEF Adds, HandInv
  <2>2. new.pid <= snd_nxt' /\ Start(new) = new.from
    BY <1>1, <1>2, <2>1 DEF Start, Segments
  <2>3. /\ On(timerheap') = On(timerheap) \cup {new}
        /\ Sorted(timerheap) => Sorted(timerheap')
    BY <1>6 DEF Adds
  <2> HIDE DEF new
  <2> QED
    BY <1>3, <2>2, <2>3 DEF NodeInv
<1>7. CASE Loses
  BY <1>4, <1>7 DEF Loses
<1>8. ASSUME NEW top, Resends(top)
      PROVE  NodeInv'
  <2>1. top \in On(timerheap) /\ top \in Nodes
    BY <1>2, <1>8 DEF Resends
  <2>2. Again(top).pid = top.pid /\ Start(Again(top)) = Start(top)
        /\ Again(top).from = top.from
    BY <2>1, AgainSame
  <2> QED
    BY <1>3, <1>8, <2>1, <2>2 DEF Resends, NodeInv
<1> QED
  BY <1>5, <1>6, <1>7, <1>8, StreamCases DEF Pops, Advances

\* What goes onto the wire is what belongs there.
LEMMA WireNext ==
    ASSUME SafeInv, HandInv, NodeInv, WireContent, [AnyNext]_vars
    PROVE  WireContent'
<1> USE DEF tcb, buffer, sending
<1>1. /\ cur.seq = cur.from
      /\ \A n \in On(timerheap) : sendpkt(n).seq = sendpkt(n).from
      /\ \A segment \in BagToSet(dataNet) : segment.seq = segment.from
  BY DEF HandInv, NodeInv, WireContent, sendpkt
<1>2. ASSUME NEW segment, Transmit(segment), segment.seq = segment.from
      PROVE  WireContent'
  BY <1>1, <1>2, TransmitAdds DEF WireContent
<1>3. CASE UNCHANGED dataNet
  BY <1>1, <1>3 DEF WireContent
<1>4. ASSUME NEW t \in Threads, SendStep(t)
      PROVE  WireContent'
  <2>1. UNCHANGED dataNet \/ Transmit(cur)
    BY <1>4 DEF SendStep, SendEnter, SendWindow, SendPop, SendOut, SendAdd
  <2> QED
    BY <1>1, <1>2, <1>3, <2>1
<1>5. ASSUME NEW t \in Threads, RunStep(t)
      PROVE  WireContent'
  <2>1. CASE RexmitDupAck(t)
    <3>1. UNCHANGED dataNet \/ \E top \in On(timerheap) : Transmit(sendpkt(top))
      BY <2>1, RexmitCases DEF SafeInv, Resends
    <3> QED
      BY <1>1, <1>2, <1>3, <3>1
  <2>2. CASE ~RexmitDupAck(t)
    BY <1>3, <1>5, <2>2 DEF RunStep, DeleteTimer, DupAck, CkDupAck
  <2> QED
    BY <2>1, <2>2
<1>6. CASE TimerStep
  <2>1. CASE TimerFires
    <3>1. \E top \in On(timerheap) : Transmit(sendpkt(top))
      BY <2>1, FireCases DEF SafeInv
    <3> QED
      BY <1>1, <1>2, <3>1
  <2>2. CASE ~TimerFires
    BY <1>3, <1>6, <2>2 DEF TimerStep, TimerWakes, TimerNoPacket, TimerClear,
                           TimerWaits, TimerSetsWindow
  <2> QED
    BY <2>1, <2>2
<1>7. CASE Absorb
  <2>1. PICK segment : dataNet' = dataNet (-) SetToBag({segment})
    BY <1>7 DEF Absorb
  <2> QED
    BY <1>1, <2>1, AbsorbRemoves DEF WireContent
<1>8. \A t \in Apps, n \in Writes : TouSend(t, n) => UNCHANGED dataNet
  BY DEF TouSend
<1>9. UNCHANGED vars => UNCHANGED dataNet
  BY DEF vars
<1> QED
  BY <1>3, <1>4, <1>5, <1>6, <1>7, <1>8, <1>9, StepCases

\* A segment sent and not empty that begins beyond snd_una is not the oldest:
\* the byte snd_una is in a segment that ends before it.
LEMMA OlderIsThere ==
    ASSUME SafeInv, HandInv, NodeInv, SpanInv, UnackedIsHeld,
           NEW top \in On(timerheap), top.len > 0, Start(top) > snd_una
    PROVE  \E n \in On(timerheap) : Start(n) = snd_una /\ n.pid < top.pid
<1>1. snd_nxt \in Nat /\ snd_una \in Nat
  BY TypeParts DEF SafeInv, TypeInv
<1>2. /\ \A s \in Spans : s.lo \in Nat /\ s.hi \in Nat
      /\ \A n \in On(timerheap) : n \in Nodes /\ Start(n) \in Nat
      /\ cur \in Segments
      /\ \A p : Held(p) <=> \E s \in Spans : s.lo <= p /\ p < s.hi
  BY SpanTypes DEF SafeInv
<1>3. /\ top.pid \in Nat /\ top.len \in Nat /\ top.pid <= snd_nxt
      /\ \A n \in On(timerheap) : n.pid \in Nat
  BY <1>2 DEF NodeInv, Nodes
<1>4. Start(top) \in Nat /\ Start(top) < top.pid
  BY <1>2, <1>3 DEF Start
<1>5. snd_una \in snd_una..(snd_nxt - 1)
  BY <1>1, <1>3, <1>4
<1>6. PICK s \in Spans : s.lo <= snd_una /\ snd_una < s.hi
  BY <1>2, <1>5 DEF UnackedIsHeld
<1>7. s.lo = snd_una
  <2>1. ~(s.lo < snd_una /\ snd_una < s.hi)
    BY DEF SpanInv, AtBoundary
  <2> QED
    BY <1>1, <1>2, <1>6, <2>1
<1>8. CASE s = [lo |-> cur.seq, hi |-> cur.seq + cur.len]
  <2>1. cur # NoSegment
    BY <1>1, <1>6, <1>8 DEF NoSegment
  <2>2. top.pid <= snd_una
    BY <1>7, <1>8, <2>1 DEF HandInv
  <2> QED
    BY <1>1, <1>3, <1>4, <2>2
<1>9. ASSUME NEW n \in On(timerheap), s = [lo |-> Start(n), hi |-> n.pid]
      PROVE  Start(n) = snd_una /\ n.pid < top.pid
  <2>1. [lo |-> Start(top), hi |-> top.pid] \in Spans
    BY DEF Spans
  <2>2. ~(s.lo < Start(top) /\ Start(top) < s.hi)
    BY <2>1 DEF SpanInv, AtBoundary
  <2> QED
    BY <1>1, <1>2, <1>3, <1>4, <1>7, <1>9, <2>2
<1> QED
  BY <1>8, <1>9 DEF Spans

\* The top node, which the timer sends again, is the oldest.
LEMMA TopIsOldest ==
    ASSUME SafeInv, HandInv, NodeInv, SpanInv, UnackedIsHeld, TimerFires,
           Head(timerheap).len > 0
    PROVE  Start(Head(timerheap)) <= snd_una
<1> DEFINE top == Head(timerheap)
<1>1. top \in On(timerheap) /\ \A n \in On(timerheap) : top.pid <= n.pid
  BY FireCases DEF SafeInv, NodeInv
<1>2. snd_una \in Nat /\ \A n \in On(timerheap) : n \in Nodes /\ Start(n) \in Nat
  BY TypeParts, SpanTypes DEF SafeInv, TypeInv
<1>3. \A n \in On(timerheap) : n.pid \in Nat
  BY <1>2 DEF Nodes
<1> HIDE DEF top
<1>4. SUFFICES ASSUME Start(top) > snd_una
               PROVE  FALSE
  BY <1>1, <1>2 DEF top
<1>5. PICK n \in On(timerheap) : n.pid < top.pid
  BY <1>1, <1>4, OlderIsThere DEF top
<1> QED
  BY <1>1, <1>3, <1>5

\* Unless touSend overlaps with run(), the node the timer sends again is not
\* below one that was sent again before: such a one begins below the top's end.
LEMMA NoneAbove ==
    ASSUME SafeInv, NodeInv, SpanInv, OldestInv, ~overlap, TimerFires,
           NEW n \in On(timerheap), n.pid > Head(timerheap).pid, n.rex
    PROVE  FALSE
<1> DEFINE top == Head(timerheap)
<1>1. top \in On(timerheap)
  BY FireCases DEF SafeInv
<1>2. /\ \A s \in Spans : s.lo \in Nat /\ s.hi \in Nat
      /\ \A m \in On(timerheap) : Start(m) \in Nat
  BY SpanTypes DEF SafeInv
<1>3. Start(n) < top.pid
  BY DEF OldestInv, TimerFires
<1>4. /\ [lo |-> Start(n), hi |-> n.pid] \in Spans
      /\ [lo |-> Start(top), hi |-> top.pid] \in Spans
  BY <1>1 DEF Spans
<1>5. ~(Start(n) < top.pid /\ top.pid < n.pid)
  <2>1. AtBoundary(top.pid)
    BY <1>4 DEF SpanInv
  <2> QED
    BY <1>4, <2>1 DEF AtBoundary
<1>6. top.pid \in Nat /\ n.pid \in Nat
  <2> HIDE DEF top
  <2>1. \A s \in Spans : s.hi \in Nat
    BY <1>2
  <2> QED
    BY <1>4, <2>1
<1> QED
  BY <1>3, <1>5, <1>6

\* Unless touSend overlaps with run(), nothing ends the process.
LEMMA Lives ==
    ASSUME NulAt = {}, SafeInv, StreamInv, ~overlap, [StreamNext]_vars
    PROVE  died' = "no"
<1> USE DEF tcb, buffer, sending
<1>1. /\ snd_una \in Nat /\ snd_nxt \in Nat /\ snd_una <= snd_nxt
      /\ died = "no"
      /\ \A n \in On(timerheap) : n.len > 0
  BY TypeParts DEF SafeInv, TypeInv, StreamInv, OldestInv
<1>2. ASSUME NEW t \in Threads, NEW a \in Nat, Ackable(a), RunRecv(t, a)
      PROVE  died' = died
  <2>1. a <= snd_nxt
    BY <1>1, <1>2 DEF Ackable, AtBoundary
  <2> QED
    BY <1>1, <1>2, <2>1 DEF RunRecv
<1>3. ASSUME NEW t \in Threads, RexmitDupAck(t)
      PROVE  died' = died
  <2>1. ASSUME NEW top \in On(timerheap), Start(top) > snd_una,
               \A n \in On(timerheap) : Start(n) >= snd_una
                                        /\ Sorted(timerheap) => top.pid <= n.pid
        PROVE  FALSE
    <3>1. PICK n \in On(timerheap) : Start(n) = snd_una /\ n.pid < top.pid
      BY <1>1, <2>1, OlderIsThere DEF StreamInv
    <3>2. top.pid <= n.pid
      BY <1>1, <2>1, <3>1 DEF StreamInv, NodeInv
    <3>3. \A m \in On(timerheap) : m \in Nodes
      BY SpanTypes DEF SafeInv
    <3>4. top.pid \in Nat /\ n.pid \in Nat
      BY <3>3 DEF Nodes
    <3> QED
      BY <3>1, <3>2, <3>4
  <2> QED
    BY <1>3, <2>1, RexmitCases DEF SafeInv
<1>4. TimerFires => died' = died
  <2> SUFFICES ASSUME TimerFires
               PROVE  died' = died
    OBVIOUS
  <2>1. \A n \in On(timerheap) : ~(n.pid > Head(timerheap).pid /\ n.rex)
    BY NoneAbove DEF StreamInv
  <2> QED
    BY <2>1, FireCases DEF SafeInv
<1>5. \A t \in Threads : SendStep(t) => died' = died
  BY DEF SendStep, SendEnter, SendWindow, SendPop, SendOut, SendAdd
<1>6. \A t \in Threads : RunStep(t) /\ ~RexmitDupAck(t) => died' = died
  BY DEF RunStep, DeleteTimer, DupAck, CkDupAck
<1>7. TimerStep /\ ~TimerFires => died' = died
  BY DEF TimerStep, TimerWakes, TimerNoPacket, TimerClear, TimerWaits, TimerSetsWindow
<1>8. \A t \in Apps, n \in Writes : TouSend(t, n) => died' = died
  BY DEF TouSend
<1>9. Absorb \/ UNCHANGED vars => died' = died
  BY DEF Absorb, vars
<1> QED
  BY <1>1, <1>2, <1>3, <1>4, <1>5, <1>6, <1>7, <1>8, <1>9
  DEF StreamNext, Internal, RunStep

\* Unless touSend overlaps with run(), only the oldest segment is sent again.
LEMMA OldestNext ==
    ASSUME NulAt = {}, SafeInv, StreamInv, [StreamNext]_vars
    PROVE  OldestInv'
<1>1. /\ overlap' = overlap /\ TypeInv /\ LockInv /\ FireInv /\ LenInv
      /\ HandInv /\ NodeInv /\ SpanInv /\ UnackedIsHeld
      /\ [AnyNext]_vars
  BY StepCases, StreamIsAny DEF SafeInv, StreamInv
<1> SUFFICES ASSUME ~overlap
             PROVE  /\ \A n \in On(timerheap') : n.len > 0
                                                 /\ (n.rex => Start(n) <= snd_una')
                    /\ pc'[Timer] = "fire" =>
                          \A n \in On(timerheap') :
                             n.rex => Start(n) < Head(timerheap').pid
  BY <1>1, Lives DEF OldestInv
<1>2. /\ \A n \in On(timerheap) : n.len > 0 /\ (n.rex => Start(n) <= snd_una)
      /\ pc[Timer] = "fire" =>
            \A n \in On(timerheap) : n.rex => Start(n) < Head(timerheap).pid
  BY DEF StreamInv, OldestInv
<1>3. /\ \A n \in On(timerheap) : n \in Nodes /\ Start(n) \in Nat
      /\ cur \in Segments
      /\ snd_una \in Nat /\ snd_una' \in Nat /\ snd_una <= snd_una'
  <2>1. snd_una \in Nat
    BY <1>1, TypeParts DEF TypeInv
  <2>2. snd_una' = snd_una \/ (snd_una' \in Nat /\ snd_una < snd_una')
    BY <1>1, SpansAfter
  <2> QED
    BY <1>1, <2>1, <2>2, SpanTypes
<1>4. \A n \in On(timerheap) : n.rex => Start(n) <= snd_una'
  BY <1>2, <1>3
<1>5. \A n \in On(timerheap') : n.len > 0 /\ (n.rex => Start(n) <= snd_una')
  <2>1. CASE UNCHANGED timerheap
    BY <1>2, <1>4, <2>1 DEF On
  <2>2. CASE Adds
    <3> DEFINE new == [pid |-> cur.seq + cur.len, from |-> cur.from, len |-> cur.len,
                       rex |-> FALSE]
    <3>1. cur.len > 0
      BY <1>1, <2>2 DEF Adds, HandInv
    <3>2. new.len > 0 /\ new.rex = FALSE
      BY <3>1
    <3>3. On(timerheap') = On(timerheap) \cup {new}
      BY <2>2 DEF Adds
    <3> HIDE DEF new
    <3> QED
      BY <1>2, <1>4, <3>2, <3>3
  <2>3. CASE Loses
    BY <1>2, <1>4, <2>3 DEF Loses
  <2>4. ASSUME NEW top, Resends(top),
               Start(top) = snd_una \/ (TimerFires /\ top = Head(timerheap))
        PROVE  \A n \in On(timerheap') : n.len > 0 /\ (n.rex => Start(n) <= snd_una')
    <3>1. top \in On(timerheap) /\ On(timerheap') \subseteq On(timerheap) \cup {Again(top)}
      BY <2>4 DEF Resends
    <3>2. Start(top) <= snd_una
      BY <1>1, <1>2, <1>3, <2>4, <3>1, TopIsOldest
    <3>3. Start(top) <= snd_una'
      BY <1>3, <3>1, <3>2
    <3>4. Again(top).len = top.len /\ Start(Again(top)) = Start(top)
      BY <1>3, <3>1, AgainSame
    <3> QED
      BY <1>2, <1>4, <3>1, <3>3, <3>4
  <2> QED
    BY <1>1, <2>1, <2>2, <2>3, <2>4, StreamCases DEF Pops, Advances
<1>6. ASSUME pc'[Timer] = "fire", NEW n \in On(timerheap'), n.rex
      PROVE  Start(n) < Head(timerheap').pid
  <2>1. CASE TimerClear /\ timerheap' # <<>>
    <3>1. timerheap \in Seq(Nodes)
      BY <1>1, TypeParts DEF TypeInv
    <3> DEFINE rest == From(timerheap, LAMBDA node : node.pid > snd_una)
    <3>2. On(rest) \subseteq On(timerheap) /\ rest \in Seq(Nodes)
          /\ (rest # <<>> => Head(rest).pid > snd_una)
      BY <1>3, <3>1, ClearedKeeps
    <3>3. timerheap' = rest
      BY <2>1 DEF TimerClear
    <3> HIDE DEF rest
    <3>4. Head(timerheap').pid > snd_una /\ n \in On(timerheap)
      BY <1>6, <2>1, <3>2, <3>3
    <3>5. Head(timerheap') \in Nodes
      BY <2>1, <3>2, <3>3, TailOfHeap
    <3>6. Head(timerheap').pid \in Nat
      BY <3>5 DEF Nodes
    <3>7. Start(n) <= snd_una /\ Start(n) \in Nat
      BY <1>2, <1>3, <1>6, <3>4
    <3> QED
      BY <1>3, <3>4, <3>6, <3>7
  <2>2. CASE TimerFires /\ UNCHANGED pc
    <3>1. pc[Timer] = "fire" /\ "settwnd" \in Labels /\ Timer \in Threads
          /\ pc \in [Threads -> Labels]
      BY <1>1, <2>2, TypeParts DEF TimerFires, Labels, Threads, TypeInv
    <3>2. ~Goto(Timer, "settwnd")
      BY <1>6, <3>1, GotoType
    <3>3. \E m \in On(timerheap) : m.pid > Head(timerheap).pid /\ m.rex
      BY <1>1, <2>2, <3>2, FireCases
    <3> QED
      BY <2>2, <3>3, NoneAbove DEF StreamInv
  <2>3. CASE ~TimerFires /\ pc[Timer] = "fire"
    <3>1. UNCHANGED timerheap
      BY <1>1, <2>3, FrozenAtFire
    <3> QED
      BY <1>2, <1>6, <2>3, <3>1 DEF On
  <2> QED
    BY <1>1, <1>6, <2>1, <2>2, <2>3, FiringCases
<1> QED
  BY <1>5, <1>6

\* All of it together: the invariant holds at the start ...
LEMMA StreamInit ==
    ASSUME InitSender
    PROVE  StreamInv
<1>1. /\ snd_una = 1 /\ snd_nxt = 1 /\ cur = NoSegment /\ timerheap = <<>>
      /\ died = "no" /\ \A t \in Threads : pc[t] = "idle"
  BY DEF InitSender
<1>2. On(timerheap) = {} /\ Sorted(timerheap)
  BY <1>1 DEF On, Sorted
<1>3. BagToSet(dataNet) = {}
  BY DEF InitSender, EmptyBag, BagToSet, SetToBag
<1>4. Spans = {[lo |-> 0, hi |-> 0]}
  BY <1>1, <1>2 DEF Spans, NoSegment
<1>5. HandInv /\ NodeInv
  BY <1>1, <1>2 DEF HandInv, NodeInv, NoSegment
<1>6. SpanInv
  BY <1>1, <1>4 DEF SpanInv, AtBoundary
<1>7. OldestInv /\ UnackedIsHeld /\ WireContent
  BY <1>1, <1>2, <1>3, SenderAssumption DEF OldestInv, UnackedIsHeld, WireContent, Threads
<1> QED
  BY <1>5, <1>6, <1>7 DEF StreamInv

\* ... and is kept by every step.
LEMMA StreamKept ==
    ASSUME NulAt = {}, SafeInv, StreamInv, [StreamNext]_vars
    PROVE  SafeInv' /\ StreamInv'
BY SafeNext, StreamIsAny, HandNext, NodeNext, SpanNext, HeldNext, WireNext,
   OldestNext
DEF StreamInv

\* What Sender's peer may acknowledge is the end of a segment, or old.
LEMMA NextIsStream ==
    ASSUME SafeInv, StreamInv, [Next]_vars
    PROVE  [StreamNext]_vars
<1>1. timerheap \in Seq(Nodes) /\ cur \in Segments /\ snd_una \in Nat
  BY TypeParts DEF SafeInv, TypeInv
<1>2. /\ \A s \in Spans : s.lo \in Nat /\ s.hi \in Nat
      /\ \A s \in Spans : AtBoundary(s.hi)
  BY SpanTypes DEF SafeInv, StreamInv, SpanInv
<1>3. \A a \in Ends : \E s \in Spans : s.hi = a
  <2>1. DOMAIN timerheap = 1..Len(timerheap)
    BY <1>1
  <2>2. ASSUME NEW n \in On(timerheap)
        PROVE  \E s \in Spans : s.hi = n.pid
    <3>1. [lo |-> Start(n), hi |-> n.pid] \in Spans
      BY DEF Spans
    <3> QED
      BY <3>1
  <2>3. \E s \in Spans : s.hi = cur.seq + cur.len
    <3>1. [lo |-> cur.seq, hi |-> cur.seq + cur.len] \in Spans
      BY DEF Spans
    <3> QED
      BY <3>1
  <2> QED
    BY <2>1, <2>2, <2>3 DEF Ends, On
<1>4. \A a \in Acks : a \in Nat /\ Ackable(a)
  BY <1>1, <1>2, <1>3 DEF Acks, Ackable
<1> QED
  BY <1>4 DEF Next, StreamNext, Receive

\* Of a stream without a zero byte: whatever is lost, late, stale or
\* acknowledged twice, a byte that is sent and not acknowledged is held, and
\* segments carry what belongs at their numbers; and where touSend does not
\* overlap with a run() of another thread, only the oldest segment is sent
\* again, and neither exit(1) nor the assertion of postpone_timer is reached.
THEOREM SenderReliable ==
    ASSUME NulAt = {}
    PROVE  Spec => [](UnackedIsHeld /\ WireContent /\ RexmitsOldestOnly /\ NoExit)
<1>1. InitSender => SafeInv /\ StreamInv
  BY SafeInit, StreamInit
<1>2. SafeInv /\ StreamInv /\ [Next]_vars => (SafeInv /\ StreamInv)'
  BY StreamKept, NextIsStream
<1>3. SafeInv /\ StreamInv => UnackedIsHeld /\ WireContent /\ RexmitsOldestOnly /\ NoExit
  <2> SUFFICES ASSUME SafeInv, StreamInv
               PROVE  RexmitsOldestOnly
    BY DEF StreamInv, OldestInv, NoExit
  <2>1. DOMAIN timerheap = 1..Len(timerheap)
    <3>1. timerheap \in Seq(Nodes)
      BY TypeParts DEF SafeInv, TypeInv
    <3> QED
      BY <3>1
  <2> QED
    BY <2>1 DEF RexmitsOldestOnly, StreamInv, OldestInv, On
<1> QED
  BY <1>1, <1>2, <1>3, PTL DEF Spec

-----------------------------------------------------------------------------
(***************************************************************************)
(* Part II: the two halves over the network.                               *)
(***************************************************************************)
RP == INSTANCE ReceiverProofs WITH
        Segs <- Streamed, CbSize <- RcvSize, RecvLens <- {RcvSize},
        Drained <- TRUE, Dup <- TRUE, cur <- rcur, died <- rdied

\* The peer's buffer takes as much as its run() asks for, which is more than a
\* segment: 6291456, 2000 and 1456 bytes in the code.
PeerHasRoom == SMSS < RECVBUFSIZE /\ RECVBUFSIZE <= RcvSize

\* What a stream must not hold, for its bytes to be retransmitted where they
\* belong: a timer node's copy ends at a zero byte.
NoZeroByte == NulAt = {}

\* Where a segment lies in the stream.
Span(segment) == [lo |-> segment.seq, hi |-> segment.seq + segment.len]

\* The segments with data in the network and in the peer's out-of-order heap.
Flying == {s \in BagToSet(dataNet) : s.len # 0} \cup {s \in Streamed : minhp_recv[s] > 0}

\* The pieces the sender handles are full segments at most.
SizeInv ==
    /\ cur.len <= SMSS
    /\ \A n \in On(timerheap) : 1 <= Start(n) /\ n.len <= SMSS

\* What flies was sent, and what of it is not acknowledged is cut as the sender
\* holds it.
CutInv ==
    \A s \in Flying :
        /\ s \in Streamed /\ s.seq + s.len <= snd_nxt
        /\ s.seq >= snd_una => Span(s) \in Spans
        /\ (\E t \in Threads : pc[t] = "sendto") => s.seq + s.len <= cur.seq

\* The peer has taken whole segments, and whatever was acknowledged lies between.
AckInv ==
    /\ snd_una <= rcv_nxt /\ AtBoundary(rcv_nxt)
    /\ \A a \in everAcked \cup {acked} : a \in Nat /\ a <= rcv_nxt /\ AtBoundary(a)

\* How many copies of a segment are in the network.
Copies(s) == IF s \in BagToSet(dataNet) THEN dataNet[s] ELSE 0

\* Unless touSend overlaps with run(): a segment ahead of rcv_nxt exists once.
OnceInv ==
    ~overlap => \A s \in Streamed :
                    s.seq > rcv_nxt => Copies(s) + minhp_recv[s] <= 1

\* So what waits in the out-of-order heap waits once, and was not taken before.
WaitInv ==
    ~overlap => \A s \in Streamed :
                    minhp_recv[s] > 0 => s.seq >= rcv_nxt /\ minhp_recv[s] <= 1

\* A queued acknowledgement has its node, which rcv_nxt never falls behind.
PeerInv ==
    /\ t_delack_state = "QUE" => ack_node # 0
    /\ ack_node <= rcv_nxt
    /\ rdied # "exit"
    /\ ~overlap => rdied # "assert"

\* What relates the two ends, besides what each keeps by itself.
TransferInv ==
    /\ SafeInv /\ StreamInv
    /\ RP!TypeOK /\ RP!ReadyInv /\ RP!StreamInv
    /\ IsABag(dataNet)
    /\ SizeInv /\ CutInv /\ AckInv /\ OnceInv /\ WaitInv /\ PeerInv
-----------------------------------------------------------------------------
(* The steps, seen from either end                                         *)

\* A segment of the stream is one of those Receiver speaks of.
LEMMA StreamedSegments ==
    /\ \A s \in Streamed : /\ s.seq \in Nat /\ s.from \in Nat /\ s.len \in Nat
                           /\ s.seq >= 1 /\ s.len >= 1 /\ s.len <= SMSS
                           /\ s.seq = s.from
    /\ RP!ReceiverAssumption
<1>1. StreamLen \in Nat /\ SMSS \in Nat
  BY SenderAssumption, CongestionAssumption
<1>2. \A s \in Streamed : /\ s \in [seq : 1..StreamLen, from : 1..StreamLen, len : 1..SMSS]
                          /\ s.seq = s.from
  BY DEF Streamed
<1>3. \A s \in Streamed : /\ s.seq \in 1..StreamLen /\ s.from \in 1..StreamLen
                          /\ s.len \in 1..SMSS /\ s.seq = s.from
                          /\ s \in [seq : Nat \ {0}, from : Nat \ {0}, len : Nat \ {0}]
  BY <1>1, <1>2
<1>4. RP!ReceiverAssumption
  BY <1>3, TransferAssumption DEF RP!ReceiverAssumption
<1> QED
  BY <1>1, <1>3, <1>4

\* The peer is a reader as ReceiverProofs wants it.
LEMMA PeerDrains ==
    ASSUME PeerHasRoom
    PROVE  RP!DrainedReader /\ RP!InPlace
<1>1. \A s \in Streamed : s.len < RECVBUFSIZE
  BY StreamedSegments, TransferAssumption, CongestionAssumption DEF PeerHasRoom
<1>2. \A s \in Streamed : s.seq = s.from
  BY StreamedSegments
<1> QED
  BY <1>1, <1>2 DEF PeerHasRoom, RP!DrainedReader, RP!InPlace

\* The steps of the peer, by whichever name.
LEMMA PeerNames ==
    /\ R!Internal <=> RP!Internal
    /\ \A segment \in Streamed : R!Arrive(segment) <=> RP!Arrive(segment)
    /\ R!Init <=> RP!Init
<1> USE DEF R!buffer, RP!buffer, R!delack, RP!delack, R!NoSegment, RP!NoSegment
<1>1. R!Waiting = RP!Waiting /\ R!Used = RP!Used
  BY DEF R!Waiting, RP!Waiting, R!Used, RP!Used
<1>2. R!Tops = RP!Tops
  BY <1>1 DEF R!Tops, RP!Tops
<1>3. \A s : (R!Fits(s) <=> RP!Fits(s)) /\ R!Bytes(s) = RP!Bytes(s)
  BY <1>1 DEF R!Fits, RP!Fits, R!Bytes, RP!Bytes
<1>4. \A s : R!Take(s) <=> RP!Take(s)
  BY DEF R!Take, RP!Take, R!InOrder, RP!InOrder
<1>5. R!DeleteTp <=> RP!DeleteTp
  BY DEF R!DeleteTp, RP!DeleteTp
<1>6. R!RoomForMore <=> RP!RoomForMore
  BY <1>1 DEF R!RoomForMore, RP!RoomForMore
<1>7. \A s : R!Arrive(s) <=> RP!Arrive(s)
  BY <1>1, <1>4, <1>5, <1>6 DEF R!Arrive, RP!Arrive, R!RunGetPkt, RP!RunGetPkt,
     R!RunNext, RP!RunNext
<1>8. R!RunResume <=> RP!RunResume
  BY <1>1 DEF R!RunResume, RP!RunResume
<1>9. (R!Put <=> RP!Put) /\ (R!Recover <=> RP!Recover)
  BY <1>1, <1>3 DEF R!Put, RP!Put, R!Recover, RP!Recover
<1>10. \A state : R!RecoverEnds(state) <=> RP!RecoverEnds(state)
  BY DEF R!RecoverEnds, RP!RecoverEnds
<1>11. R!RecoverDone <=> RP!RecoverDone
  BY <1>2, <1>10 DEF R!RecoverDone, RP!RecoverDone
<1>12. \A top : R!RecoverOne(top) <=> RP!RecoverOne(top)
  BY <1>3 DEF R!RecoverOne, RP!RecoverOne, R!Popped, RP!Popped
<1>13. \A top : R!RecoverFull(top) <=> RP!RecoverFull(top)
  BY <1>3, <1>10 DEF R!RecoverFull, RP!RecoverFull, R!AfterFull, RP!AfterFull
<1>14. \A top : R!RecoverAsserts(top) <=> RP!RecoverAsserts(top)
  BY DEF R!RecoverAsserts, RP!RecoverAsserts
<1>15. (R!Delack <=> RP!Delack) /\ (R!TimerDelack <=> RP!TimerDelack)
  BY DEF R!Delack, RP!Delack, R!TimerDelack, RP!TimerDelack, R!SendAck, RP!SendAck,
     R!Delayable, RP!Delayable
<1>16. R!RunEnd <=> RP!RunEnd
  BY <1>5 DEF R!RunEnd, RP!RunEnd
<1>17. \A len : R!TouRecv(len) <=> RP!TouRecv(len)
  BY <1>1 DEF R!TouRecv, RP!TouRecv, R!Readable, RP!Readable
<1>18. R!Internal <=> RP!Internal
  BY <1>2, <1>8, <1>9, <1>11, <1>12, <1>13, <1>14, <1>15, <1>16, <1>17
  DEF R!Internal, RP!Internal
<1>19. R!Init <=> RP!Init
  BY DEF R!Init, RP!Init
<1> QED
  BY <1>7, <1>18, <1>19

\* The peer's run() takes a segment from the network.
Delivers(segment) ==
    /\ segment \in BagToSet(dataNet) /\ RP!Taking(segment)
    /\ dataNet' = dataNet (-) SetToBag({segment})

\* It leaves a packet without data alone.
Ignores ==
    /\ \E segment \in BagToSet(dataNet) : dataNet' = dataNet (-) SetToBag({segment})
    /\ UNCHANGED peer

\* What the peer does on its own.
PeerMoves ==
    \/ RP!RunResume \/ RP!Put \/ RP!Recover \/ RP!RecoverDone \/ RP!Delack
    \/ RP!RunEnd \/ RP!TimerDelack
    \/ \E top \in RP!Tops : RP!RecoverOne(top) \/ RP!RecoverFull(top)
                            \/ RP!RecoverAsserts(top)
    \/ RP!TouRecv(RcvSize)

\* A step is the sender's, the peer's, or a segment that goes from one to the other.
LEMMA TransferCases ==
    ASSUME TransferInv, [NextTransfer]_allVars
    PROVE  \/ /\ Internal \/ \E t \in Threads, a \in everAcked :
                                RunRecv(t, a) /\ UNCHANGED dataNet
              /\ UNCHANGED <<peer, everAcked>>
           \/ /\ \E segment \in Streamed : Delivers(segment)
              /\ UNCHANGED host /\ Acknowledging
           \/ Ignores /\ UNCHANGED host /\ Acknowledging
           \/ /\ PeerMoves
              /\ UNCHANGED <<host, dataNet>> /\ Acknowledging
           \/ UNCHANGED allVars
<1>1. CASE HostStep \/ \E t \in Threads, a \in everAcked : DeliverAck(t, a)
  BY <1>1 DEF HostStep, DeliverAck
<1>2. CASE Deliver
  <2>1. PICK segment \in BagToSet(dataNet) :
           /\ IF segment.len = 0 THEN TakesNoData ELSE R!Arrive(segment)
           /\ dataNet' = dataNet (-) SetToBag({segment})
    BY <1>2 DEF Deliver
  <2>0. CASE segment.len = 0
    BY <1>2, <2>0, <2>1 DEF Deliver, TakesNoData, Ignores
  <2> SUFFICES ASSUME segment.len # 0
               PROVE  \E s \in Streamed : Delivers(s) /\ UNCHANGED host /\ Acknowledging
    BY <2>0
  <2>2. segment \in Streamed
    BY DEF TransferInv, CutInv, Flying
  <2>3. RP!Arrive(segment)
    BY <2>1, <2>2, PeerNames
  <2>4. RP!Taking(segment)
    <3>1. CASE RP!RunGetPkt(segment)
      BY <2>2, <2>3, <3>1 DEF RP!RunGetPkt, RP!Arrive, RP!Taking
    <3>2. CASE RP!RunNext(segment)
      BY <2>2, <2>3, <3>2
      DEF RP!RunNext, RP!DeleteTp, RP!RoomForMore, RP!Arrive, RP!Taking
    <3> QED
      BY <2>3, <3>1, <3>2 DEF RP!Arrive
  <2> QED
    BY <1>2, <2>1, <2>2, <2>4 DEF Deliver, Delivers
<1>3. CASE PeerStep
  <2>1. RP!Internal
    BY <1>3, PeerNames DEF PeerStep
  <2>2. PeerMoves
    BY <2>1 DEF RP!Internal, PeerMoves
  <2> QED
    BY <1>3, <2>2 DEF PeerStep
<1> QED
  BY <1>1, <1>2, <1>3 DEF NextTransfer

\* Seen from the peer, each step is one of Receiver's.
LEMMA PeerSteps ==
    ASSUME TransferInv, [NextTransfer]_allVars
    PROVE  [RP!Next]_(RP!vars)
<1>1. CASE HostStep \/ \E t \in Threads, a \in everAcked : DeliverAck(t, a)
  BY <1>1 DEF HostStep, DeliverAck, peer, RP!vars
<1>2. CASE Deliver
  <2>1. PICK segment \in BagToSet(dataNet) :
           IF segment.len = 0 THEN TakesNoData ELSE R!Arrive(segment)
    BY <1>2 DEF Deliver
  <2>2. CASE segment.len = 0
    BY <2>1, <2>2 DEF TakesNoData, peer, RP!vars
  <2>3. CASE segment.len # 0
    <3>1. segment \in Streamed
      BY <2>3 DEF TransferInv, CutInv, Flying
    <3> QED
      BY <2>1, <2>3, <3>1, PeerNames DEF RP!Next
  <2> QED
    BY <2>2, <2>3
<1>3. CASE PeerStep
  BY <1>3, PeerNames DEF PeerStep, RP!Next
<1>4. CASE UNCHANGED allVars
  BY <1>4 DEF allVars, peer, RP!vars
<1> QED
  BY <1>1, <1>2, <1>3, <1>4 DEF NextTransfer

\* Seen from the sender, each step is one against a peer that acknowledges ends
\* of segments.
LEMMA SenderSteps ==
    ASSUME TransferInv, [NextTransfer]_allVars
    PROVE  [StreamNext]_vars
<1> USE DEF tcb, buffer, sending
<1>1. CASE HostStep
  BY <1>1 DEF HostStep, NextTransfer, StreamNext, allVars
<1>2. ASSUME NEW t \in Threads, NEW a \in everAcked, DeliverAck(t, a)
      PROVE  StreamNext \/ UNCHANGED vars
  <2>1. a \in Nat /\ Ackable(a)
    BY DEF TransferInv, AckInv, Ackable
  <2> QED
    BY <1>2, <2>1 DEF DeliverAck, NextTransfer, StreamNext, allVars
<1>3. CASE Deliver
  <2>1. Absorb
    BY <1>3 DEF Deliver, Absorb, host
  <2> QED
    BY <2>1 DEF NextTransfer, StreamNext, allVars
<1>4. CASE PeerStep \/ UNCHANGED allVars
  BY <1>4 DEF PeerStep, NextTransfer, host, vars, allVars
<1> QED
  BY <1>1, <1>2, <1>3, <1>4 DEF NextTransfer

\* What each end keeps by itself, it keeps.
LEMMA EndsKept ==
    ASSUME NoZeroByte, PeerHasRoom, TransferInv, [NextTransfer]_allVars
    PROVE  /\ (SafeInv /\ StreamInv)'
           /\ (RP!TypeOK /\ RP!ReadyInv /\ RP!StreamInv)'
<1>1. [StreamNext]_vars /\ [RP!Next]_(RP!vars)
  BY SenderSteps, PeerSteps
<1>2. SafeInv' /\ StreamInv'
  BY <1>1, StreamKept DEF TransferInv, NoZeroByte
<1>4. RP!ReceiverAssumption /\ RP!DrainedReader /\ RP!InPlace
  BY StreamedSegments, PeerDrains
<1>5. RP!TypeOK'
  BY <1>1, <1>4, RP!TypeNext DEF TransferInv
<1>6. RP!ReadyInv'
  BY <1>1, <1>4, RP!ReadyNext DEF TransferInv
<1>7. RP!StreamInv'
  BY <1>1, <1>4, RP!StreamNext DEF TransferInv
<1> QED
  BY <1>2, <1>5, <1>6, <1>7 DEF TransferInv
-----------------------------------------------------------------------------
(* The network                                                             *)

\* One copy more of the segment sent, or none.
LEMMA TransmitCounts ==
    ASSUME IsABag(dataNet), NEW segment, Transmit(segment)
    PROVE  /\ IsABag(dataNet')
           /\ \A s : Copies(s) \in Nat /\ Copies(s)' \in Nat
           /\ \A s : s # segment => Copies(s)' = Copies(s)
           /\ Copies(segment)' <= Copies(segment) + 1
           /\ BagToSet(dataNet') \subseteq BagToSet(dataNet) \cup {segment}
<1>1. dataNet \in [DOMAIN dataNet -> {n \in Nat : n > 0}]
  BY DEF IsABag
<1>2. \A s : Copies(s) \in Nat
  BY <1>1 DEF Copies, BagToSet
<1>3. CASE dataNet' = dataNet
  BY <1>2, <1>3 DEF Copies
<1>4. CASE dataNet' = dataNet (+) SetToBag({segment})
  <2> DEFINE D == DOMAIN dataNet \cup {segment}
             f == [e \in D |-> (IF e \in DOMAIN dataNet THEN dataNet[e] ELSE 0)
                               + (IF e = segment THEN 1 ELSE 0)]
  <2>1. dataNet' = f
    BY <1>4 DEF (+), SetToBag
  <2>2. DOMAIN dataNet' = D
    BY <2>1
  <2>3. \A e \in D : dataNet'[e] = (IF e \in DOMAIN dataNet THEN dataNet[e] ELSE 0)
                                   + (IF e = segment THEN 1 ELSE 0)
    BY <2>1
  <2>4. \A e \in D : dataNet'[e] \in Nat /\ dataNet'[e] > 0
    BY <1>1, <2>3
  <2>5. IsABag(dataNet')
    BY <2>1, <2>2, <2>4 DEF IsABag
  <2>6. \A s : Copies(s)' = Copies(s) + (IF s = segment THEN 1 ELSE 0)
    BY <2>2, <2>3 DEF Copies, BagToSet
  <2>7. BagToSet(dataNet') \subseteq BagToSet(dataNet) \cup {segment}
    BY <2>2 DEF BagToSet
  <2> QED
    BY <1>2, <2>5, <2>6, <2>7
<1> QED
  BY <1>3, <1>4 DEF Transmit

\* One copy less of the segment delivered.
LEMMA DeliveryCounts ==
    ASSUME IsABag(dataNet), NEW segment \in BagToSet(dataNet),
           dataNet' = dataNet (-) SetToBag({segment})
    PROVE  /\ IsABag(dataNet')
           /\ \A s : Copies(s) \in Nat /\ Copies(s)' \in Nat
           /\ \A s : s # segment => Copies(s)' = Copies(s)
           /\ Copies(segment)' = Copies(segment) - 1
           /\ BagToSet(dataNet') \subseteq BagToSet(dataNet)
<1>1. dataNet \in [DOMAIN dataNet -> {n \in Nat : n > 0}]
  BY DEF IsABag
<1>2. \A s : Copies(s) \in Nat
  BY <1>1 DEF Copies, BagToSet
<1> DEFINE B == [e \in DOMAIN dataNet |-> IF e = segment THEN dataNet[e] - 1
                                          ELSE dataNet[e]]
           D == {e \in DOMAIN dataNet : B[e] > 0}
<1>3. dataNet' = [e \in D |-> B[e]]
  BY DEF (-), SetToBag
<1>4. DOMAIN dataNet' = D /\ \A e \in D : dataNet'[e] = B[e]
  BY <1>3
<1>5. \A e \in D : B[e] \in Nat /\ B[e] > 0
  BY <1>1
<1>6. IsABag(dataNet')
  BY <1>3, <1>4, <1>5 DEF IsABag
<1>7. \A s : s # segment => Copies(s)' = Copies(s)
  BY <1>1, <1>4 DEF Copies, BagToSet
<1>8. Copies(segment)' = Copies(segment) - 1
  <2>1. segment \in DOMAIN dataNet /\ dataNet[segment] \in Nat /\ dataNet[segment] > 0
    BY <1>1 DEF BagToSet
  <2>2. Copies(segment) = dataNet[segment] /\ B[segment] = dataNet[segment] - 1
    BY <2>1 DEF Copies, BagToSet
  <2>3. CASE dataNet[segment] = 1
    <3>1. B[segment] = 0
      BY <2>2, <2>3
    <3>2. segment \notin D
      <4> HIDE DEF B
      <4> QED
        BY <3>1
    <3> HIDE DEF D
    <3>3. Copies(segment)' = 0
      BY <1>4, <3>2 DEF Copies, BagToSet
    <3> QED
      BY <2>2, <2>3, <3>3
  <2>4. CASE dataNet[segment] # 1
    <3>1. segment \in D
      BY <2>1, <2>2, <2>4
    <3> QED
      BY <1>4, <2>2, <3>1 DEF Copies, BagToSet
  <2> QED
    BY <2>3, <2>4
<1>9. \A s : Copies(s)' \in Nat
  BY <1>4, <1>5 DEF Copies, BagToSet
<1> QED
  BY <1>2, <1>4, <1>6, <1>7, <1>8, <1>9 DEF BagToSet

\* What the sender puts into the network: the segment in hand, or one of the heap,
\* the oldest unless touSend overlaps with run().
LEMMA Sends ==
    ASSUME SafeInv, StreamInv,
           Internal \/ \E t \in Threads, a \in everAcked :
                          RunRecv(t, a) /\ UNCHANGED dataNet
    PROVE  \/ UNCHANGED dataNet
           \/ \E t \in Threads : SendOut(t) /\ Transmit(cur)
           \/ \E top \in On(timerheap) : /\ ~overlap => Start(top) <= snd_una
                                         /\ Transmit(sendpkt(top))
<1> USE DEF tcb, buffer, sending
<1>1. /\ snd_una \in Nat
      /\ ~overlap => \A n \in On(timerheap) : n.len > 0
      /\ \A n \in On(timerheap) : n \in Nodes /\ Start(n) \in Nat
  BY TypeParts, SpanTypes DEF SafeInv, TypeInv, StreamInv, OldestInv
<1>2. ASSUME NEW t \in Threads, SendStep(t)
      PROVE  UNCHANGED dataNet \/ (SendOut(t) /\ Transmit(cur))
  BY <1>2 DEF SendStep, SendEnter, SendWindow, SendPop, SendOut, SendAdd
<1>3. ASSUME NEW t \in Threads, RexmitDupAck(t)
      PROVE  \/ UNCHANGED dataNet
             \/ \E top \in On(timerheap) : /\ ~overlap => Start(top) <= snd_una
                                           /\ Transmit(sendpkt(top))
  <2>1. \/ UNCHANGED dataNet
        \/ \E top : Resends(top) /\ Start(top) = snd_una /\ Transmit(sendpkt(top))
    BY <1>3, RexmitCases DEF SafeInv
  <2> QED
    BY <1>1, <2>1 DEF Resends
<1>4. ASSUME NEW t \in Threads, RunStep(t), ~RexmitDupAck(t)
      PROVE  UNCHANGED dataNet
  BY <1>4 DEF RunStep, DeleteTimer, DupAck, CkDupAck
<1>5. CASE TimerFires
  <2>1. Head(timerheap) \in On(timerheap) /\ Transmit(sendpkt(Head(timerheap)))
    BY <1>5, FireCases DEF SafeInv
  <2>2. ~overlap => Start(Head(timerheap)) <= snd_una
    BY <1>1, <1>5, <2>1, TopIsOldest DEF StreamInv
  <2> QED
    BY <1>1, <2>1, <2>2
<1>6. CASE TimerStep /\ ~TimerFires
  BY <1>6 DEF TimerStep, TimerWakes, TimerNoPacket, TimerClear, TimerWaits,
              TimerSetsWindow
<1>7. \A t \in Apps, n \in Writes : TouSend(t, n) => UNCHANGED dataNet
  BY DEF TouSend
<1> QED
  BY <1>2, <1>3, <1>4, <1>5, <1>6, <1>7 DEF Internal
-----------------------------------------------------------------------------
(* The segments under way                                                  *)

\* The segment in hand stays, is put on the heap, or is a new one.
LEMMA HandAfter ==
    ASSUME SafeInv, [AnyNext]_vars
    PROVE  \/ cur' = cur /\ \A t \in Threads : pc'[t] = "sendto" => pc[t] = "sendto"
           \/ cur' = NoSegment
           \/ cur'.seq = snd_nxt /\ cur'.len <= SMSS
<1> USE DEF tcb, buffer, sending
<1>1. /\ pc \in [Threads -> Labels] /\ TypeInv /\ LockInv
      /\ snd_nxt \in Nat /\ snd_una \in Nat /\ curwnd \in Nat
      /\ written \in Nat /\ popped \in Nat
  BY TypeParts, SenderAssumption DEF SafeInv, TypeInv
<1>2. \A t \in Threads, l \in Labels :
         Goto(t, l) => pc'[t] = l /\ \A u \in Threads : u # t => pc'[u] = pc[u]
  BY <1>1, GotoType
<1>3. {"window", "pop", "add", "idle", "poll", "delete", "dupack", "send"} \subseteq Labels
  BY DEF Labels, SendPcs, RunPcs
<1>4. ASSUME NEW t \in Threads, NEW l \in Labels, l # "sendto", Goto(t, l), cur' = cur
      PROVE  \A u \in Threads : pc'[u] = "sendto" => pc[u] = "sendto"
  BY <1>2, <1>4
<1>5. ASSUME NEW t \in Threads, SendEnter(t) \/ SendOut(t)
      PROVE  cur' = cur /\ \A u \in Threads : pc'[u] = "sendto" => pc[u] = "sendto"
  BY <1>3, <1>4, <1>5 DEF SendEnter, SendOut
<1>6. ASSUME NEW t \in Threads, SendWindow(t)
      PROVE  \/ cur' = NoSegment
             \/ cur' = cur /\ \A u \in Threads : pc'[u] = "sendto" => pc[u] = "sendto"
  BY <1>3, <1>4, <1>6 DEF SendWindow, SendReturn
<1>7. ASSUME NEW t \in Threads, SendPop(t)
      PROVE  cur' = NoSegment \/ (cur'.seq = snd_nxt /\ cur'.len <= SMSS)
  <2>1. SMSS \in Nat /\ Room(curwnd) \in Nat
    BY <1>1, RoomType, CongestionAssumption
  <2>2. SegmentLen <= SMSS
    BY <1>1, <2>1 DEF SegmentLen
  <2> QED
    BY <1>7, <2>2 DEF SendPop, SendReturn
<1>8. \A t \in Threads : SendAdd(t) => cur' = NoSegment
  BY DEF SendAdd
<1>9. ASSUME NEW t \in Threads, NEW a \in Nat, a <= snd_nxt, RunRecv(t, a)
      PROVE  cur' = cur /\ \A u \in Threads : pc'[u] = "sendto" => pc[u] = "sendto"
  <2>1. cur' = cur /\ \E l \in {"delete", "dupack", "send"} : Goto(t, l)
    BY <1>1, <1>9 DEF RunRecv
  <2> QED
    BY <1>3, <1>4, <2>1
<1>10. Quiet => cur' = cur /\ \A u \in Threads : pc'[u] = "sendto" => pc[u] = "sendto"
  BY DEF Quiet, SendPcs
<1> QED
  BY <1>1, <1>5, <1>6, <1>7, <1>8, <1>9, <1>10, QuietCases DEF SendStep

\* The sender's pieces keep to a segment.
LEMMA SizeNext ==
    ASSUME NulAt = {}, SafeInv, StreamInv, SizeInv, [StreamNext]_vars
    PROVE  SizeInv'
<1>1. /\ SMSS \in Nat /\ snd_nxt \in Nat /\ cur \in Segments
      /\ \A n \in On(timerheap) : n \in Nodes
  BY CongestionAssumption, TypeParts, SpanTypes DEF SafeInv, TypeInv
<1>2. cur'.len <= SMSS
  <2>1. NoSegment.len = 0
    BY DEF NoSegment
  <2> QED
    BY <1>1, <2>1, HandAfter, StreamIsAny DEF SizeInv
<1>3. \A n \in On(timerheap) : 1 <= Start(n) /\ n.len <= SMSS
  BY DEF SizeInv
<1>4. ASSUME On(timerheap') \subseteq On(timerheap)
      PROVE  SizeInv'
  BY <1>2, <1>3, <1>4 DEF SizeInv
<1>5. UNCHANGED timerheap => SizeInv'
  BY <1>4 DEF On
<1>6. CASE Adds
  <2> DEFINE new == [pid |-> cur.seq + cur.len, from |-> cur.from, len |-> cur.len,
                     rex |-> FALSE]
  <2>1. /\ cur.seq \in Nat /\ cur.len \in Nat /\ cur.seq >= 1 /\ cur.len <= SMSS
    BY <1>1, <1>6 DEF Adds, StreamInv, HandInv, Segments, SizeInv
  <2>2. 1 <= Start(new) /\ new.len <= SMSS
    BY <2>1 DEF Start
  <2>3. On(timerheap') = On(timerheap) \cup {new}
    BY <1>6 DEF Adds
  <2> HIDE DEF new
  <2> QED
    BY <1>2, <1>3, <2>2, <2>3 DEF SizeInv
<1>7. CASE Loses
  BY <1>4, <1>7 DEF Loses
<1>8. ASSUME NEW top, Resends(top)
      PROVE  SizeInv'
  <2>1. top \in On(timerheap) /\ top \in Nodes
    BY <1>1, <1>8 DEF Resends
  <2>2. Start(Again(top)) = Start(top) /\ Again(top).len = top.len
    BY <2>1, AgainSame
  <2> QED
    BY <1>2, <1>3, <1>8, <2>1, <2>2 DEF Resends, SizeInv
<1> QED
  BY <1>5, <1>6, <1>7, <1>8, StreamCases DEF Pops, Advances, StreamInv

\* What was cut as the sender holds it, still is.
LEMMA CutStays ==
    ASSUME NulAt = {}, SafeInv, HandInv, [StreamNext]_vars, NEW s \in Streamed,
           s.seq + s.len <= snd_nxt, s.seq >= snd_una => Span(s) \in Spans
    PROVE  /\ s.seq + s.len <= snd_nxt'
           /\ s.seq >= snd_una' => Span(s) \in Spans'
<1>1. /\ snd_nxt \in Nat /\ snd_una \in Nat
      /\ s.seq \in Nat /\ s.len \in Nat /\ s.len >= 1
  BY TypeParts, StreamedSegments DEF SafeInv, TypeInv
<1>2. /\ snd_nxt' \in Nat /\ snd_nxt <= snd_nxt'
      /\ \A x \in Spans : x.lo >= snd_una /\ x.hi > snd_una => x \in Spans'
      /\ \/ snd_una' = snd_una
         \/ snd_una' \in Nat /\ snd_una < snd_una' /\ Spans' = Spans
  BY SpansAfter
<1>3. s.seq + s.len <= snd_nxt'
  BY <1>1, <1>2
<1>4. s.seq >= snd_una' => s.seq >= snd_una /\ s.seq + s.len > snd_una
  BY <1>1, <1>2
<1>5. Span(s).lo = s.seq /\ Span(s).hi = s.seq + s.len
  BY DEF Span
<1> QED
  BY <1>2, <1>3, <1>4, <1>5

\* The segment in hand, while it is not sent, lies beyond everything that was.
LEMMA BelowStays ==
    ASSUME SafeInv, HandInv, HandInv', [AnyNext]_vars, NEW s \in Streamed,
           s.seq + s.len <= snd_nxt,
           (\E t \in Threads : pc[t] = "sendto") => s.seq + s.len <= cur.seq
    PROVE  (\E t \in Threads : pc'[t] = "sendto") => s.seq + s.len <= cur'.seq
<1>1. (\E t \in Threads : pc'[t] = "sendto") => cur' # NoSegment
  BY DEF HandInv
<1> QED
  BY <1>1, HandAfter

\* Taking a segment: it is the next one, or goes on the heap, or is dropped.
LEMMA DeliveryAfter ==
    ASSUME RP!TypeOK, NEW segment \in Streamed, Delivers(segment)
    PROVE  /\ \/ UNCHANGED <<rcv_nxt, minhp_recv>>
              \/ /\ segment.seq = rcv_nxt /\ rcv_nxt' = segment.seq + segment.len
                 /\ rpc \in {"idle", "next"} /\ runstate = "GET_PKT"
                 /\ UNCHANGED minhp_recv
              \/ /\ segment.seq > rcv_nxt /\ UNCHANGED rcv_nxt
                 /\ minhp_recv' = [minhp_recv EXCEPT ![segment] = @ + 1]
           /\ UNCHANGED <<acked, ack_node, stored, nread>>
           /\ t_delack_state' \in {t_delack_state, "IMMED"}
           /\ rdied' \in {"no", "crash"}
BY DEF Delivers, RP!Taking, RP!Take, RP!InOrder, RP!buffer

\* Otherwise the peer takes up the segment on top of its heap, if any.
LEMMA PeerAfter ==
    ASSUME PeerMoves
    PROVE  /\ \/ UNCHANGED <<rcv_nxt, minhp_recv>>
              \/ \E top \in RP!Tops :
                    /\ top.seq = rcv_nxt /\ rcv_nxt' = top.seq + top.len
                    /\ minhp_recv' = [minhp_recv EXCEPT ![top] = @ - 1]
           /\ acked' \in {acked, rcv_nxt}
<1> USE DEF RP!buffer, RP!delack
<1>1. ASSUME NEW top \in RP!Tops, RP!RecoverOne(top)
      PROVE  /\ top.seq = rcv_nxt /\ rcv_nxt' = top.seq + top.len
             /\ minhp_recv' = [minhp_recv EXCEPT ![top] = @ - 1]
             /\ acked' = acked
  BY <1>1 DEF RP!RecoverOne, RP!Popped
<1>2. ASSUME NEW top \in RP!Tops, RP!RecoverFull(top) \/ RP!RecoverAsserts(top)
      PROVE  UNCHANGED <<rcv_nxt, minhp_recv, acked>>
  BY <1>2 DEF RP!RecoverFull, RP!RecoverEnds, RP!RecoverAsserts
<1>3. RP!RunResume \/ RP!Put \/ RP!Recover \/ RP!RecoverDone \/ RP!RunEnd
        \/ RP!TouRecv(RcvSize)
        => UNCHANGED <<rcv_nxt, minhp_recv, acked>>
  BY DEF RP!RunResume, RP!Put, RP!Recover, RP!RecoverDone, RP!RecoverEnds,
         RP!RunEnd, RP!TouRecv
<1>4. RP!Delack \/ RP!TimerDelack
        => UNCHANGED <<rcv_nxt, minhp_recv>> /\ acked' \in {acked, rcv_nxt}
  BY DEF RP!Delack, RP!TimerDelack, RP!SendAck
<1> QED
  BY <1>1, <1>2, <1>3, <1>4 DEF PeerMoves

\* What the out-of-order heap holds.
LEMMA WaitingFlies ==
    ASSUME RP!TypeOK
    PROVE  /\ \A s \in Streamed : minhp_recv[s] \in Nat
           /\ RP!Waiting = {s \in Streamed : minhp_recv[s] > 0}
           /\ RP!Tops \subseteq RP!Waiting
           /\ RP!Waiting \subseteq Flying
           /\ rcv_nxt \in Nat
BY DEF RP!TypeOK, RP!Waiting, RP!Tops, Flying

\* What flies, was sent and is cut as the sender holds it.
LEMMA CutNext ==
    ASSUME NoZeroByte, PeerHasRoom, TransferInv, [NextTransfer]_allVars
    PROVE  CutInv'
<1> USE DEF tcb, buffer, sending
<1>1. /\ NulAt = {} /\ SafeInv /\ StreamInv /\ HandInv /\ RP!TypeOK
      /\ [StreamNext]_vars /\ [AnyNext]_vars
  BY SenderSteps, StreamIsAny DEF NoZeroByte, TransferInv, StreamInv
<1>2. SafeInv' /\ StreamInv' /\ HandInv' /\ RP!TypeOK'
  BY EndsKept DEF StreamInv
<1>3. /\ snd_nxt \in Nat /\ snd_una \in Nat /\ popped \in Nat
      /\ StreamLen \in Nat /\ popped <= StreamLen
      /\ snd_nxt = popped + 1 /\ SMSS \in Nat /\ cur \in Segments
      /\ \A n \in On(timerheap) : n \in Nodes /\ Start(n) \in Nat
  <2>1. popped \in 0..StreamLen
    BY <1>1, TypeParts DEF SafeInv, TypeInv
  <2> QED
    BY <1>1, <2>1, TypeParts, SpanTypes, SenderAssumption, CongestionAssumption
    DEF SafeInv, TypeInv
<1> DEFINE Cut(s) == /\ s.seq + s.len <= snd_nxt
                     /\ s.seq >= snd_una => Span(s) \in Spans
           Below(s) == (\E t \in Threads : pc[t] = "sendto") => s.seq + s.len <= cur.seq
<1>4. ASSUME NEW s \in Streamed, Cut(s)
      PROVE  s.seq + s.len <= snd_nxt' /\ (s.seq >= snd_una' => Span(s) \in Spans')
  BY <1>1, <1>4, CutStays
<1>5. ASSUME NEW s \in Streamed, Cut(s), Below(s)
      PROVE  (\E t \in Threads : pc'[t] = "sendto") => s.seq + s.len <= cur'.seq
  BY <1>1, <1>2, <1>5, BelowStays
<1>6. \A s \in Flying : s \in Streamed /\ Cut(s) /\ Below(s)
  BY DEF TransferInv, CutInv
<1>7. ASSUME Flying' \subseteq Flying
      PROVE  CutInv'
  <2>1. \A s \in Flying' : s \in Streamed /\ Cut(s) /\ Below(s)
    BY <1>6, <1>7
  <2> HIDE DEF Cut, Below
  <2> QED
    BY <1>4, <1>5, <2>1 DEF CutInv
<1>8. ASSUME NEW segment \in Streamed, Cut(segment), Below(segment),
             Flying' \subseteq Flying \cup {segment}
      PROVE  CutInv'
  <2>1. \A s \in Flying' : s \in Streamed /\ Cut(s) /\ Below(s)
    BY <1>6, <1>8
  <2> HIDE DEF Cut, Below
  <2> QED
    BY <1>4, <1>5, <2>1 DEF CutInv
<1>9. ASSUME NEW segment, segment.seq = segment.from, segment.seq \in Nat,
             segment.len \in Nat, segment.seq >= 1, segment.len > 0,
             segment.len <= SMSS, segment.seq + segment.len <= snd_nxt,
             segment = [seq |-> segment.seq, from |-> segment.from, len |-> segment.len]
      PROVE  segment \in Streamed
  <2>1. /\ segment.seq \in 1..StreamLen /\ segment.from \in 1..StreamLen
        /\ segment.len \in 1..SMSS
        /\ segment.seq + segment.len - 1 <= StreamLen
    BY <1>3, <1>9
  <2>2. segment \in [seq : 1..StreamLen, from : 1..StreamLen, len : 1..SMSS]
    BY <1>9, <2>1
  <2> QED
    BY <1>9, <2>1, <2>2 DEF Streamed
<1>10. ASSUME NEW t \in Threads, SendOut(t), Transmit(cur), UNCHANGED minhp_recv
       PROVE  CutInv'
  <2>1. pc[t] = "sendto" /\ cur # NoSegment
    BY <1>1, <1>10 DEF SendOut, HandInv
  <2>0. CASE cur.len = 0
    <3>1. Flying' \subseteq Flying
      BY <1>10, <2>0, TransmitAdds DEF Flying
    <3> QED
      BY <1>7, <3>1
  <2> SUFFICES ASSUME cur.len # 0 PROVE CutInv'
    BY <2>0
  <2>2. cur.len > 0
    BY <1>3 DEF Segments
  <2>3. cur \in Streamed
    <3>1. /\ cur.seq = cur.from /\ cur.seq \in Nat /\ cur.len \in Nat
          /\ cur = [seq |-> cur.seq, from |-> cur.from, len |-> cur.len]
      BY <1>1, <1>3 DEF HandInv, Segments
    <3>2. cur.seq >= 1 /\ cur.seq + cur.len <= snd_nxt
      BY <1>1, <1>3, <2>1 DEF HandInv
    <3>3. cur.len <= SMSS
      BY DEF TransferInv, SizeInv
    <3> QED
      BY <1>9, <2>2, <3>1, <3>2, <3>3
  <2>4. Cut(cur)
    BY <1>1, <1>3, <2>1 DEF HandInv, Spans, Span
  <2>5. \A u \in Threads : pc'[u] # "sendto"
    <3>1. pc \in [Threads -> Labels] /\ LockInv
      BY <1>1, TypeParts DEF SafeInv, TypeInv
    <3>2. pc'[t] = "add" /\ \A u \in Threads : u # t => pc'[u] = pc[u]
      BY <1>10, <3>1, GotoType DEF SendOut, Labels, SendPcs
    <3>3. \A u \in Threads : pc[u] = "sendto" => u = t
      BY <2>1, <3>1, OneSender DEF SendPcs
    <3> QED
      BY <3>2, <3>3
  <2>6. Flying' \subseteq Flying \cup {cur}
    BY <1>10, TransmitAdds DEF Flying
  <2>7. \A s \in Flying' : s \in Streamed /\ Cut(s)
    BY <1>6, <2>3, <2>4, <2>6
  <2> HIDE DEF Cut, Below
  <2> QED
    BY <1>4, <2>5, <2>7 DEF CutInv
<1>11. ASSUME NEW top \in On(timerheap), Transmit(sendpkt(top)),
              UNCHANGED minhp_recv
       PROVE  CutInv'
  <2>0. CASE top.len = 0
    <3>1. sendpkt(top).len = 0
      BY <2>0 DEF sendpkt
    <3>2. Flying' \subseteq Flying
      BY <1>11, <3>1, TransmitAdds DEF Flying
    <3> QED
      BY <1>7, <3>2
  <2> SUFFICES ASSUME top.len # 0 PROVE CutInv'
    BY <2>0
  <2>1. /\ top \in Nodes /\ Start(top) \in Nat /\ Start(top) = top.from
        /\ top.pid <= snd_nxt /\ 1 <= Start(top) /\ top.len <= SMSS
    BY <1>1, <1>3 DEF TransferInv, StreamInv, NodeInv, SizeInv
  <2>2. /\ top.pid \in Nat /\ top.len \in Nat /\ top.len > 0
        /\ Start(top) + top.len = top.pid
    BY <2>1 DEF Nodes, Start
  <2> DEFINE segment == sendpkt(top)
  <2>3. segment = [seq |-> Start(top), from |-> top.from, len |-> top.len]
    BY DEF sendpkt
  <2>4. segment.seq = Start(top) /\ segment.from = top.from /\ segment.len = top.len
    BY <2>3
  <2> HIDE DEF segment
  <2>5. segment \in Streamed
    BY <1>9, <2>1, <2>2, <2>3, <2>4
  <2>6. Span(segment) = [lo |-> Start(top), hi |-> top.pid]
    BY <2>2, <2>4 DEF Span
  <2>7. Cut(segment)
    BY <2>1, <2>2, <2>4, <2>6 DEF Spans
  <2>8. Below(segment)
    BY <1>1, <2>2, <2>4 DEF HandInv
  <2>9. Flying' \subseteq Flying \cup {segment}
    BY <1>11, TransmitAdds DEF Flying, segment
  <2> HIDE DEF Cut, Below
  <2> QED
    BY <1>8, <2>5, <2>7, <2>8, <2>9
<1> HIDE DEF Cut, Below
<1>12. CASE /\ Internal \/ \E t \in Threads, a \in everAcked :
                             RunRecv(t, a) /\ UNCHANGED dataNet
            /\ UNCHANGED <<peer, everAcked>>
  <2>1. UNCHANGED minhp_recv
    BY <1>12 DEF peer
  <2>2. UNCHANGED dataNet => Flying' = Flying
    BY <2>1 DEF Flying
  <2> QED
    BY <1>1, <1>7, <1>10, <1>11, <1>12, <2>1, <2>2, Sends
<1>13. ASSUME NEW segment \in Streamed, Delivers(segment)
       PROVE  CutInv'
  <2>1. BagToSet(dataNet') \subseteq BagToSet(dataNet) /\ segment \in BagToSet(dataNet)
    BY <1>13, AbsorbRemoves DEF Delivers
  <2>2. \A s \in Streamed : s # segment => minhp_recv'[s] = minhp_recv[s]
    BY <1>1, <1>13, DeliveryAfter DEF RP!TypeOK
  <2>3. segment \in Flying
    <3>1. segment.len # 0
      BY StreamedSegments
    <3> QED
      BY <2>1, <3>1 DEF Flying
  <2>4. Flying' \subseteq Flying
    BY <2>1, <2>2, <2>3 DEF Flying
  <2> QED
    BY <1>7, <2>4
<1>16. CASE Ignores
  <2>1. BagToSet(dataNet') \subseteq BagToSet(dataNet) /\ UNCHANGED minhp_recv
    BY <1>16, AbsorbRemoves DEF Ignores, peer
  <2>2. Flying' \subseteq Flying
    BY <2>1 DEF Flying
  <2> QED
    BY <1>7, <2>2
<1>14. CASE PeerMoves /\ UNCHANGED <<host, dataNet>>
  <2>1. \A s \in Streamed : minhp_recv'[s] > 0 => minhp_recv[s] > 0
    <3>1. CASE UNCHANGED minhp_recv
      BY <3>1
    <3>2. ASSUME NEW top \in RP!Tops,
                 minhp_recv' = [minhp_recv EXCEPT ![top] = @ - 1]
          PROVE  \A s \in Streamed : minhp_recv'[s] > 0 => minhp_recv[s] > 0
      <4>1. top \in Streamed /\ minhp_recv[top] > 0
        BY <1>1, WaitingFlies
      <4> QED
        BY <1>1, <3>2, <4>1 DEF RP!TypeOK
    <3> QED
      BY <1>14, <3>1, <3>2, PeerAfter
  <2>2. Flying' \subseteq Flying
    BY <1>14, <2>1 DEF Flying
  <2> QED
    BY <1>7, <2>2
<1>15. CASE UNCHANGED allVars
  <2>1. Flying' = Flying
    BY <1>15 DEF allVars, vars, peer, Flying
  <2> QED
    BY <1>7, <2>1
<1> QED
  BY <1>12, <1>13, <1>14, <1>15, <1>16, TransferCases

\* The next segment, where the peer takes it: what is not acknowledged of it is
\* cut as the sender holds it, so it ends where a segment ends.
LEMMA TakenEnds ==
    ASSUME TransferInv, NEW s \in Flying, s.seq = rcv_nxt
    PROVE  s.seq + s.len \in Nat /\ AtBoundary(s.seq + s.len)
<1>1. s \in Streamed /\ s.seq + s.len \in Nat
  <2>1. s \in Streamed
    BY DEF TransferInv, CutInv
  <2> QED
    BY <2>1, StreamedSegments
<1>2. Span(s) \in Spans
  <2>1. s.seq >= snd_una
    <3>1. snd_una \in Nat /\ rcv_nxt \in Nat /\ snd_una <= rcv_nxt
      BY TypeParts, WaitingFlies DEF TransferInv, AckInv, SafeInv, TypeInv
    <3> QED
      BY <3>1
  <2> QED
    BY <2>1 DEF TransferInv, CutInv
<1>3. AtBoundary(Span(s).hi)
  BY <1>2 DEF TransferInv, StreamInv, SpanInv
<1> QED
  BY <1>1, <1>3 DEF Span

\* The peer takes whole segments, and acknowledges what it has taken.
LEMMA AckNext ==
    ASSUME NoZeroByte, TransferInv, [NextTransfer]_allVars
    PROVE  AckInv'
<1> USE DEF tcb, buffer, sending
<1>1. /\ NulAt = {} /\ SafeInv /\ StreamInv /\ HandInv /\ RP!TypeOK
      /\ [StreamNext]_vars
  BY SenderSteps DEF NoZeroByte, TransferInv, StreamInv
<1>2. /\ snd_una \in Nat /\ rcv_nxt \in Nat /\ acked \in Nat
      /\ snd_una <= rcv_nxt /\ AtBoundary(rcv_nxt)
      /\ \A a \in everAcked \cup {acked} : a \in Nat /\ a <= rcv_nxt /\ AtBoundary(a)
  BY <1>1, TypeParts DEF TransferInv, AckInv, SafeInv, TypeInv, RP!TypeOK
<1> DEFINE After(x) == x <= snd_nxt' /\ \A s \in Spans' : ~(s.lo < x /\ x < s.hi)
<1>3. ASSUME NEW x \in Nat, AtBoundary(x)
      PROVE  After(x)
  BY <1>1, <1>3, BoundaryStays DEF AtBoundary
<1>4. ASSUME rcv_nxt' \in Nat, rcv_nxt <= rcv_nxt', AtBoundary(rcv_nxt'),
             snd_una' <= rcv_nxt', acked' \in Nat, acked' <= rcv_nxt',
             acked' \in everAcked \cup {acked, rcv_nxt},
             everAcked' \subseteq everAcked \cup {acked'}
      PROVE  AckInv'
  <2>1. \A a \in everAcked' \cup {acked'} :
           a \in Nat /\ a <= rcv_nxt' /\ AtBoundary(a)
    <3> TAKE a \in everAcked' \cup {acked'}
    <3>1. a \in everAcked \cup {acked, rcv_nxt}
      BY <1>4
    <3> QED
      BY <1>2, <1>4, <3>1
  <2>2. After(rcv_nxt') /\ \A a \in everAcked' \cup {acked'} : After(a)
    <3> HIDE DEF After
    <3> QED
      BY <1>3, <1>4, <2>1
  <2> QED
    BY <1>4, <2>1, <2>2 DEF AckInv, AtBoundary
<1>5. CASE /\ Internal \/ \E t \in Threads, a \in everAcked :
                             RunRecv(t, a) /\ UNCHANGED dataNet
           /\ UNCHANGED <<peer, everAcked>>
  <2>1. UNCHANGED <<rcv_nxt, acked>>
    BY <1>5 DEF peer
  <2>2. snd_una' <= rcv_nxt
    <3>1. ASSUME Internal
          PROVE  snd_una' = snd_una
      <4>1. \A t \in Threads : SendStep(t) => snd_una' = snd_una
        BY DEF SendStep, SendEnter, SendWindow, SendPop, SendOut, SendAdd
      <4>2. \A t \in Threads : RunStep(t) => snd_una' = snd_una
        BY DEF RunStep, DeleteTimer, DupAck, CkDupAck, RexmitDupAck
      <4>3. TimerStep => snd_una' = snd_una
        BY DEF TimerStep, TimerWakes, TimerNoPacket, TimerClear, TimerWaits,
               TimerFires, TimerSetsWindow
      <4>4. \A t \in Apps, n \in Writes : TouSend(t, n) => snd_una' = snd_una
        BY DEF TouSend
      <4> QED
        BY <3>1, <4>1, <4>2, <4>3, <4>4 DEF Internal
    <3>2. ASSUME NEW t \in Threads, NEW a \in everAcked, RunRecv(t, a)
          PROVE  snd_una' \in {snd_una, a}
      BY <3>2 DEF RunRecv, ProcAck
    <3> QED
      BY <1>2, <1>5, <3>1, <3>2
  <2> QED
    BY <1>2, <1>4, <1>5, <2>1, <2>2
<1>6. ASSUME UNCHANGED host, Acknowledging, acked' \in {acked, rcv_nxt},
             \/ rcv_nxt' = rcv_nxt
             \/ \E s \in Flying : s.seq = rcv_nxt /\ rcv_nxt' = s.seq + s.len
      PROVE  AckInv'
  <2>1. snd_una' = snd_una
    BY <1>6 DEF host
  <2>2. rcv_nxt' \in Nat /\ rcv_nxt <= rcv_nxt' /\ AtBoundary(rcv_nxt')
    <3>1. ASSUME NEW s \in Flying, s.seq = rcv_nxt, rcv_nxt' = s.seq + s.len
          PROVE  rcv_nxt' \in Nat /\ rcv_nxt <= rcv_nxt' /\ AtBoundary(rcv_nxt')
      <4>1. s \in Streamed
        BY DEF TransferInv, CutInv
      <4>2. rcv_nxt' \in Nat /\ AtBoundary(rcv_nxt')
        BY <3>1, TakenEnds
      <4> QED
        BY <1>2, <3>1, <4>1, <4>2, StreamedSegments
    <3> QED
      BY <1>2, <1>6, <3>1
  <2>3. everAcked' \subseteq everAcked \cup {acked'}
    BY <1>6 DEF Acknowledging
  <2>4. snd_una' <= rcv_nxt' /\ acked' \in Nat /\ acked' <= rcv_nxt'
    BY <1>2, <1>6, <2>1, <2>2
  <2> QED
    BY <1>4, <1>6, <2>2, <2>3, <2>4
<1>7. ASSUME NEW segment \in Streamed, Delivers(segment), UNCHANGED host, Acknowledging
      PROVE  AckInv'
  <2>1. segment \in Flying
    BY <1>7, StreamedSegments DEF Delivers, Flying
  <2> QED
    BY <1>1, <1>6, <1>7, <2>1, DeliveryAfter
<1>8. CASE PeerMoves /\ UNCHANGED <<host, dataNet>> /\ Acknowledging
  <2>1. RP!Tops \subseteq Flying
    BY <1>1, WaitingFlies
  <2>2. \/ rcv_nxt' = rcv_nxt
        \/ \E s \in Flying : s.seq = rcv_nxt /\ rcv_nxt' = s.seq + s.len
    BY <1>8, <2>1, PeerAfter
  <2> QED
    BY <1>6, <1>8, <2>2, PeerAfter
<1>9. CASE UNCHANGED allVars
  <2>1. UNCHANGED <<rcv_nxt, acked, everAcked, snd_una>>
    BY <1>9 DEF allVars, vars, peer
  <2> QED
    BY <1>2, <1>4, <2>1
<1>10. CASE Ignores /\ UNCHANGED host /\ Acknowledging
  BY <1>6, <1>10 DEF Ignores, peer
<1> QED
  BY <1>5, <1>7, <1>8, <1>9, <1>10, TransferCases

\* The network stays a bag of segments, and touSend goes on as it does.
LEMMA NetNext ==
    ASSUME TransferInv, [NextTransfer]_allVars
    PROVE  IsABag(dataNet') /\ overlap' = overlap
<1>1. overlap' = overlap
  BY DEF NextTransfer, allVars, vars
<1>2. IsABag(dataNet) /\ SafeInv /\ StreamInv
  BY DEF TransferInv
<1>3. UNCHANGED dataNet => IsABag(dataNet')
  BY <1>2
<1>4. ASSUME NEW segment, Transmit(segment)
      PROVE  IsABag(dataNet')
  BY <1>2, <1>4, TransmitCounts
<1>5. CASE Internal \/ \E t \in Threads, a \in everAcked :
                          RunRecv(t, a) /\ UNCHANGED dataNet
  <2>1. \/ UNCHANGED dataNet
        \/ \E segment : Transmit(segment)
    BY <1>2, <1>5, Sends
  <2>2. IsABag(dataNet')
    BY <1>3, <1>4, <2>1
  <2> QED
    BY <1>1, <2>2
<1>6. ASSUME NEW segment \in BagToSet(dataNet),
             dataNet' = dataNet (-) SetToBag({segment})
      PROVE  IsABag(dataNet')
  BY <1>2, <1>6, DeliveryCounts
<1>7. UNCHANGED allVars => UNCHANGED dataNet
  BY DEF allVars, vars
<1> QED
  BY <1>1, <1>3, <1>5, <1>6, <1>7, TransferCases DEF Delivers, Ignores

\* What is sent anew did not fly before, and what is sent again is not ahead.
LEMMA OnceNext ==
    ASSUME TransferInv, [NextTransfer]_allVars
    PROVE  OnceInv'
<1> SUFFICES ASSUME ~overlap
             PROVE  OnceInv'
  BY NetNext DEF OnceInv
<1>1. /\ ~overlap /\ SafeInv /\ StreamInv /\ RP!TypeOK /\ IsABag(dataNet)
      /\ snd_una \in Nat /\ rcv_nxt \in Nat /\ snd_una <= rcv_nxt
  BY TypeParts, WaitingFlies DEF TransferInv, AckInv, SafeInv, TypeInv
<1>2. \A s \in Streamed : /\ minhp_recv[s] \in Nat /\ s.seq \in Nat /\ s.len \in Nat
                          /\ s.len >= 1
  BY <1>1, WaitingFlies, StreamedSegments
<1>3. \A s : Copies(s) \in Nat
  <2>1. dataNet \in [DOMAIN dataNet -> {n \in Nat : n > 0}]
    BY <1>1 DEF IsABag
  <2> QED
    BY <2>1 DEF Copies, BagToSet
<1>4. \A s \in Streamed : s.seq > rcv_nxt => Copies(s) + minhp_recv[s] <= 1
  BY DEF TransferInv, OnceInv
<1>5. ASSUME rcv_nxt' \in Nat, rcv_nxt <= rcv_nxt',
             \A s \in Streamed : s.seq > rcv_nxt => Copies(s)' + minhp_recv'[s] <= 1
      PROVE  OnceInv'
  <2> SUFFICES ASSUME NEW s \in Streamed, s.seq > rcv_nxt'
               PROVE  Copies(s)' + minhp_recv'[s] <= 1
    BY <1>5 DEF OnceInv
  <2>1. s.seq > rcv_nxt
    BY <1>1, <1>2, <1>5
  <2> QED
    BY <1>5, <2>1
<1>6. CASE /\ Internal \/ \E t \in Threads, a \in everAcked :
                             RunRecv(t, a) /\ UNCHANGED dataNet
           /\ UNCHANGED <<peer, everAcked>>
  <2>1. rcv_nxt' = rcv_nxt /\ minhp_recv' = minhp_recv
    BY <1>6 DEF peer
  <2>2. CASE UNCHANGED dataNet
    BY <1>1, <1>4, <1>5, <2>1, <2>2 DEF Copies
  <2>3. ASSUME NEW t \in Threads, SendOut(t), Transmit(cur)
        PROVE  OnceInv'
    <3>0. PICK segment : segment = cur
      OBVIOUS
    <3> Transmit(segment)
      BY <2>3, <3>0
    <3>1. /\ Copies(segment)' \in Nat
          /\ \A s : s # segment => Copies(s)' = Copies(s)
          /\ Copies(segment)' <= Copies(segment) + 1
      BY <1>1, TransmitCounts
    <3>2. segment \in Flying => segment.seq + segment.len <= segment.seq
      BY <2>3, <3>0 DEF TransferInv, CutInv, SendOut
    <3>6. segment \in Streamed => segment.len # 0
      BY <1>2
    <3>3. segment \in Streamed => segment \notin Flying
      BY <1>2, <3>2
    <3>4. segment \in Streamed => Copies(segment) = 0 /\ minhp_recv[segment] = 0
      <4>1. segment \in Streamed /\ segment \notin Flying
              => segment \notin BagToSet(dataNet)
        BY <3>6 DEF Flying
      <4>2. segment \in Streamed /\ segment \notin Flying => ~(minhp_recv[segment] > 0)
        BY DEF Flying
      <4> QED
        BY <1>2, <3>3, <4>1, <4>2 DEF Copies
    <3>5. ASSUME NEW s \in Streamed, s.seq > rcv_nxt
          PROVE  Copies(s)' + minhp_recv'[s] <= 1
      <4>1. CASE s = segment
        BY <2>1, <3>1, <3>4, <4>1
      <4>2. CASE s # segment
        BY <1>4, <2>1, <3>1, <3>5, <4>2
      <4> QED
        BY <4>1, <4>2
    <3> QED
      BY <1>1, <1>5, <2>1, <3>1, <3>5
  <2>4. ASSUME NEW top \in On(timerheap), Start(top) <= snd_una, Transmit(sendpkt(top))
        PROVE  OnceInv'
    <3>1. \A s : s # sendpkt(top) => Copies(s)' = Copies(s)
      BY <1>1, <2>4, TransmitCounts
    <3>2. Start(top) \in Nat /\ sendpkt(top).seq = Start(top)
      BY <1>1, SpanTypes DEF SafeInv, sendpkt
    <3>3. \A s \in Streamed : s.seq > rcv_nxt => s # sendpkt(top)
      BY <1>1, <1>2, <2>4, <3>2
    <3> QED
      BY <1>1, <1>4, <1>5, <2>1, <3>1, <3>3
  <2> QED
    BY <1>1, <1>6, <2>2, <2>3, <2>4, Sends
<1>7. ASSUME NEW segment \in Streamed, Delivers(segment)
      PROVE  OnceInv'
  <2>1. /\ Copies(segment)' = Copies(segment) - 1
        /\ \A s : s # segment => Copies(s)' = Copies(s)
    BY <1>1, <1>7, DeliveryCounts DEF Delivers
  <2>2. rcv_nxt' \in Nat /\ rcv_nxt <= rcv_nxt'
    BY <1>1, <1>2, <1>7, DeliveryAfter
  <2>3. /\ \A s \in Streamed : s # segment => minhp_recv'[s] = minhp_recv[s]
        /\ minhp_recv'[segment] \in {minhp_recv[segment], minhp_recv[segment] + 1}
    BY <1>1, <1>7, DeliveryAfter DEF RP!TypeOK
  <2>4. ASSUME NEW s \in Streamed, s.seq > rcv_nxt
        PROVE  Copies(s)' + minhp_recv'[s] <= 1
    <3>0. Copies(s) \in Nat /\ minhp_recv[s] \in Nat /\ Copies(s) + minhp_recv[s] <= 1
      BY <1>2, <1>3, <1>4, <2>4
    <3>1. CASE s = segment
      BY <2>1, <2>3, <3>0, <3>1
    <3>2. CASE s # segment
      BY <2>1, <2>3, <3>0, <3>2
    <3> QED
      BY <3>1, <3>2
  <2> QED
    BY <1>5, <2>1, <2>2, <2>4
<1>8. CASE PeerMoves /\ UNCHANGED <<host, dataNet>>
  <2>1. rcv_nxt' \in Nat /\ rcv_nxt <= rcv_nxt'
        /\ \A s \in Streamed : minhp_recv'[s] \in {minhp_recv[s], minhp_recv[s] - 1}
    <3>1. ASSUME NEW top \in RP!Tops, rcv_nxt' = top.seq + top.len, top.seq = rcv_nxt,
                 minhp_recv' = [minhp_recv EXCEPT ![top] = @ - 1]
          PROVE  rcv_nxt' \in Nat /\ rcv_nxt <= rcv_nxt'
                 /\ \A s \in Streamed : minhp_recv'[s] \in {minhp_recv[s], minhp_recv[s] - 1}
      <4>1. top \in Streamed
        BY <1>1, WaitingFlies
      <4> QED
        BY <1>1, <1>2, <3>1, <4>1 DEF RP!TypeOK
    <3> QED
      BY <1>1, <1>8, <3>1, PeerAfter
  <2>2. ASSUME NEW s \in Streamed, s.seq > rcv_nxt
        PROVE  Copies(s)' + minhp_recv'[s] <= 1
    <3>0. Copies(s) \in Nat /\ minhp_recv[s] \in Nat /\ Copies(s) + minhp_recv[s] <= 1
      BY <1>2, <1>3, <1>4, <2>2
    <3>1. Copies(s)' = Copies(s)
      BY <1>8 DEF Copies
    <3> QED
      BY <2>1, <3>0, <3>1
  <2> QED
    BY <1>1, <1>5, <1>8, <2>1, <2>2
<1>9. CASE Ignores
  <2>1. UNCHANGED <<rcv_nxt, minhp_recv>>
    BY <1>9 DEF Ignores, peer
  <2>2. PICK segment \in BagToSet(dataNet) :
           dataNet' = dataNet (-) SetToBag({segment})
    BY <1>9 DEF Ignores
  <2>3. /\ Copies(segment)' = Copies(segment) - 1
        /\ \A s : s # segment => Copies(s)' = Copies(s)
    BY <1>1, <2>2, DeliveryCounts
  <2>4. ASSUME NEW s \in Streamed, s.seq > rcv_nxt
        PROVE  Copies(s)' + minhp_recv'[s] <= 1
    <3>0. Copies(s) \in Nat /\ minhp_recv[s] \in Nat /\ Copies(s) + minhp_recv[s] <= 1
      BY <1>2, <1>3, <1>4, <2>4
    <3>1. Copies(s)' \in {Copies(s), Copies(s) - 1}
      BY <2>3
    <3> QED
      BY <2>1, <3>0, <3>1
  <2> QED
    BY <1>1, <1>5, <2>1, <2>4
<1>10. CASE UNCHANGED allVars
  <2>1. UNCHANGED <<rcv_nxt, minhp_recv, dataNet>>
    BY <1>10 DEF allVars, vars, peer
  <2> QED
    BY <1>1, <1>4, <1>5, <2>1 DEF Copies
<1> QED
  BY <1>6, <1>7, <1>8, <1>9, <1>10, TransferCases

\* Two segments that fly and are not taken yet do not overlap.
LEMMA Apart ==
    ASSUME TransferInv, NEW s \in Flying, NEW r \in Flying, s # r,
           s.seq >= rcv_nxt, s.seq <= r.seq
    PROVE  s.seq + s.len <= r.seq
<1>1. /\ s \in Streamed /\ r \in Streamed
      /\ s.seq \in Nat /\ s.len \in Nat /\ s.len >= 1 /\ s.seq = s.from
      /\ r.seq \in Nat /\ r.len \in Nat /\ r.len >= 1 /\ r.seq = r.from
  <2>1. s \in Streamed /\ r \in Streamed
    BY DEF TransferInv, CutInv
  <2> QED
    BY <2>1, StreamedSegments
<1>2. Span(s) \in Spans /\ Span(r) \in Spans
  <2>1. snd_una \in Nat /\ rcv_nxt \in Nat /\ snd_una <= rcv_nxt
    BY TypeParts, WaitingFlies DEF TransferInv, AckInv, SafeInv, TypeInv
  <2>2. s.seq >= snd_una /\ r.seq >= snd_una
    BY <1>1, <2>1
  <2> QED
    BY <2>2 DEF TransferInv, CutInv
<1>3. /\ Span(s).lo = s.seq /\ Span(s).hi = s.seq + s.len
      /\ Span(r).lo = r.seq /\ Span(r).hi = r.seq + r.len
  BY DEF Span
<1>4. /\ AtBoundary(r.seq) /\ AtBoundary(r.seq + r.len) /\ AtBoundary(s.seq + s.len)
  BY <1>2, <1>3 DEF TransferInv, StreamInv, SpanInv
<1>5. /\ ~(s.seq < r.seq /\ r.seq < s.seq + s.len)
      /\ ~(s.seq < r.seq + r.len /\ r.seq + r.len < s.seq + s.len)
      /\ ~(r.seq < s.seq + s.len /\ s.seq + s.len < r.seq + r.len)
  BY <1>2, <1>3, <1>4 DEF AtBoundary
<1>6. s.seq = r.seq => s.len = r.len
  BY <1>1, <1>5
<1>7. s.seq # r.seq \/ s.len # r.len
  <2>1. /\ s = [seq |-> s.seq, from |-> s.from, len |-> s.len]
        /\ r = [seq |-> r.seq, from |-> r.from, len |-> r.len]
    BY <1>1 DEF Streamed
  <2> QED
    BY <1>1, <2>1
<1> QED
  BY <1>1, <1>5, <1>6, <1>7

\* The segment taken is the only one that starts there, and nothing behind it waits.
LEMMA WaitNext ==
    ASSUME TransferInv, [NextTransfer]_allVars
    PROVE  WaitInv'
<1> SUFFICES ASSUME ~overlap
             PROVE  WaitInv'
  BY NetNext DEF WaitInv
<1>1. /\ RP!TypeOK /\ RP!ReadyInv /\ rcv_nxt \in Nat
      /\ minhp_recv \in [Streamed -> Nat]
  BY WaitingFlies DEF TransferInv, RP!TypeOK
<1>2. \A s \in Streamed : /\ minhp_recv[s] \in Nat /\ s.seq \in Nat /\ s.len \in Nat
                          /\ s.len >= 1
  BY <1>1, StreamedSegments
<1>3. \A s \in Streamed :
         minhp_recv[s] > 0 => s.seq >= rcv_nxt /\ minhp_recv[s] <= 1 /\ s \in Flying
  BY DEF TransferInv, WaitInv, Flying
<1>4. UNCHANGED <<rcv_nxt, minhp_recv>> => WaitInv'
  BY <1>3 DEF WaitInv
<1>5. ASSUME NEW segment \in Streamed, segment \in Flying, segment.seq = rcv_nxt,
             rcv_nxt' = segment.seq + segment.len,
             \A s \in Streamed : s # segment => minhp_recv'[s] = minhp_recv[s],
             minhp_recv'[segment] = 0
      PROVE  WaitInv'
  <2> SUFFICES ASSUME NEW s \in Streamed, minhp_recv'[s] > 0
               PROVE  s.seq >= rcv_nxt' /\ minhp_recv'[s] <= 1
    BY DEF WaitInv
  <2>1. s # segment /\ minhp_recv'[s] = minhp_recv[s]
    BY <1>5
  <2>2. s \in Flying /\ s.seq >= rcv_nxt /\ minhp_recv[s] <= 1
    BY <1>3, <2>1
  <2>3. segment.seq >= rcv_nxt /\ segment.seq <= s.seq
    BY <1>1, <1>2, <1>5, <2>2
  <2>4. segment.seq + segment.len <= s.seq
    BY <1>5, <2>1, <2>2, <2>3, Apart
  <2> QED
    BY <1>2, <1>5, <2>1, <2>2, <2>4
<1>6. ASSUME NEW segment \in Streamed, Delivers(segment)
      PROVE  WaitInv'
  <2>1. segment \in BagToSet(dataNet) /\ segment \in Flying
    BY <1>2, <1>6 DEF Delivers, Flying
  <2>2. CASE /\ segment.seq = rcv_nxt /\ rcv_nxt' = segment.seq + segment.len
             /\ rpc \in {"idle", "next"} /\ runstate = "GET_PKT"
             /\ UNCHANGED minhp_recv
    <3>1. minhp_recv[segment] = 0
      <4> SUFFICES ASSUME minhp_recv[segment] > 0
                   PROVE  FALSE
        BY <1>2
      <4>1. segment \in RP!Waiting
        BY <1>1, WaitingFlies
      <4>2. \A s \in RP!Waiting : segment.seq <= s.seq
        BY <1>1, <1>2, <1>3, <2>2, WaitingFlies
      <4>3. segment \in RP!Tops
        BY <4>1, <4>2 DEF RP!Tops
      <4>4. segment.seq > rcv_nxt
        BY <1>1, <2>2, <4>3 DEF RP!ReadyInv
      <4> QED
        BY <1>1, <2>2, <4>4
    <3> QED
      BY <1>5, <2>1, <2>2, <3>1
  <2>3. CASE /\ segment.seq > rcv_nxt /\ UNCHANGED rcv_nxt
             /\ minhp_recv' = [minhp_recv EXCEPT ![segment] = @ + 1]
    <3>1. minhp_recv[segment] = 0
      <4>1. Copies(segment) >= 1
        <5>1. dataNet \in [DOMAIN dataNet -> {n \in Nat : n > 0}]
          BY DEF TransferInv, IsABag
        <5> QED
          BY <2>1, <5>1 DEF Copies, BagToSet
      <4>2. Copies(segment) \in Nat /\ Copies(segment) + minhp_recv[segment] <= 1
        <5>1. dataNet \in [DOMAIN dataNet -> {n \in Nat : n > 0}]
          BY DEF TransferInv, IsABag
        <5>2. Copies(segment) \in Nat
          BY <5>1 DEF Copies, BagToSet
        <5> QED
          BY <2>3, <5>2 DEF TransferInv, OnceInv
      <4> QED
        BY <1>2, <4>1, <4>2
    <3>2. /\ minhp_recv'[segment] = 1
          /\ \A s \in Streamed : s # segment => minhp_recv'[s] = minhp_recv[s]
      BY <1>1, <2>3, <3>1
    <3>3. segment.seq >= rcv_nxt
      BY <1>1, <1>2, <2>3
    <3>4. ASSUME NEW s \in Streamed, minhp_recv'[s] > 0
          PROVE  s.seq >= rcv_nxt' /\ minhp_recv'[s] <= 1
      BY <1>3, <2>3, <3>2, <3>3, <3>4
    <3> QED
      BY <3>4 DEF WaitInv
  <2> QED
    BY <1>1, <1>4, <1>6, <2>2, <2>3, DeliveryAfter
<1>7. CASE PeerMoves
  <2>1. ASSUME NEW top \in RP!Tops, top.seq = rcv_nxt, rcv_nxt' = top.seq + top.len,
               minhp_recv' = [minhp_recv EXCEPT ![top] = @ - 1]
        PROVE  WaitInv'
    <3>1. top \in Streamed /\ top \in Flying /\ minhp_recv[top] > 0
      BY <1>1, WaitingFlies
    <3>2. minhp_recv[top] = 1
      BY <1>2, <1>3, <3>1
    <3>3. /\ minhp_recv'[top] = 0
          /\ \A s \in Streamed : s # top => minhp_recv'[s] = minhp_recv[s]
      BY <1>1, <2>1, <3>1, <3>2
    <3> QED
      BY <1>5, <2>1, <3>1, <3>3
  <2> QED
    BY <1>4, <1>7, <2>1, PeerAfter
<1>8. UNCHANGED peer \/ UNCHANGED allVars => UNCHANGED <<rcv_nxt, minhp_recv>>
  BY DEF allVars, peer
<1>9. Ignores => UNCHANGED peer
  BY DEF Ignores
<1> QED
  BY <1>4, <1>6, <1>7, <1>8, <1>9, TransferCases

\* The assertion of sendack holds, that of do_proc_pkt_rec unless touSend overlaps
\* with run(), and update_ack finds its node.
LEMMA PeerNext ==
    ASSUME TransferInv, [NextTransfer]_allVars
    PROVE  PeerInv'
<1> USE DEF RP!buffer, RP!delack
<1>1. /\ RP!TypeOK /\ rcv_nxt \in Nat /\ ack_node \in Nat /\ rcv_nxt >= 1
      /\ t_delack_state = "QUE" => ack_node # 0
      /\ ack_node <= rcv_nxt /\ rdied # "exit" /\ (~overlap => rdied # "assert")
      /\ overlap' = overlap
  <2>1. snd_una \in Nat /\ snd_una >= 1 /\ snd_una <= rcv_nxt
    BY TypeParts DEF TransferInv, AckInv, SafeInv, TypeInv
  <2> QED
    BY <2>1, WaitingFlies, NetNext DEF TransferInv, PeerInv, RP!TypeOK
<1>2. UNCHANGED <<t_delack_state, ack_node, rcv_nxt, rdied>> => PeerInv'
  BY <1>1 DEF PeerInv
<1>3. ASSUME NEW segment \in Streamed, Delivers(segment)
      PROVE  PeerInv'
  <2>1. rcv_nxt' \in Nat /\ rcv_nxt <= rcv_nxt'
    BY <1>1, <1>3, DeliveryAfter, StreamedSegments
  <2>2. /\ ack_node' = ack_node /\ rdied' \in {"no", "crash"}
        /\ t_delack_state' \in {t_delack_state, "IMMED"}
    BY <1>1, <1>3, DeliveryAfter
  <2> QED
    BY <1>1, <2>1, <2>2 DEF PeerInv
<1>4. CASE RP!RunResume \/ RP!Put \/ RP!Recover \/ RP!RecoverDone \/ RP!RunEnd
             \/ RP!TouRecv(RcvSize)
  <2>1. /\ t_delack_state' \in {t_delack_state, "IMMED"} /\ ack_node' = ack_node
        /\ rcv_nxt' = rcv_nxt /\ rdied' \in {rdied, "no", "crash"}
    BY <1>4 DEF RP!RunResume, RP!Put, RP!Recover, RP!RecoverDone, RP!RecoverEnds,
                RP!RunEnd, RP!DeleteTp, RP!TouRecv
  <2> QED
    BY <1>1, <2>1 DEF PeerInv
<1>5. CASE RP!Delack
  BY <1>1, <1>5 DEF RP!Delack, RP!Delayable, RP!SendAck, PeerInv
<1>6. CASE RP!TimerDelack
  <2>1. ~(rcv_nxt < ack_node) /\ rcv_nxt # 0
    BY <1>1
  <2>2. ack_node' = rcv_nxt /\ rcv_nxt' = rcv_nxt /\ rdied' = rdied
    BY <1>6, <2>1 DEF RP!TimerDelack, RP!SendAck
  <2> QED
    BY <1>1, <2>1, <2>2 DEF PeerInv
<1>7. ASSUME NEW top \in RP!Tops, RP!RecoverOne(top)
      PROVE  PeerInv'
  <2>1. top \in Streamed /\ top.seq \in Nat /\ top.len \in Nat
    BY <1>1, WaitingFlies, StreamedSegments
  <2>2. /\ rcv_nxt' = top.seq + top.len /\ top.seq = rcv_nxt
        /\ UNCHANGED <<t_delack_state, ack_node, rdied>>
    BY <1>7 DEF RP!RecoverOne
  <2> QED
    BY <1>1, <2>1, <2>2 DEF PeerInv
<1>8. ASSUME NEW top \in RP!Tops, RP!RecoverFull(top)
      PROVE  PeerInv'
  <2>1. t_delack_state' = "IMMED" /\ UNCHANGED <<ack_node, rcv_nxt, rdied>>
    BY <1>8 DEF RP!RecoverFull, RP!RecoverEnds
  <2> QED
    BY <1>1, <2>1 DEF PeerInv
<1>9. ASSUME NEW top \in RP!Tops, RP!RecoverAsserts(top)
      PROVE  PeerInv'
  <2>1. top \in Streamed /\ minhp_recv[top] > 0 /\ top.seq \in Nat
    BY <1>1, WaitingFlies, StreamedSegments
  <2>2. ~overlap => top.seq >= rcv_nxt
    BY <2>1 DEF TransferInv, WaitInv
  <2>3. /\ rdied' = "assert" /\ top.seq < rcv_nxt
        /\ UNCHANGED <<t_delack_state, ack_node, rcv_nxt>>
    BY <1>9 DEF RP!RecoverAsserts
  <2> QED
    BY <1>1, <2>1, <2>2, <2>3 DEF PeerInv
<1>10. PeerMoves => PeerInv'
  BY <1>4, <1>5, <1>6, <1>7, <1>8, <1>9 DEF PeerMoves
<1>11. UNCHANGED peer \/ UNCHANGED allVars
         => UNCHANGED <<t_delack_state, ack_node, rcv_nxt, rdied>>
  BY DEF allVars, peer
<1>12. Ignores => UNCHANGED peer
  BY DEF Ignores
<1> QED
  BY <1>2, <1>3, <1>10, <1>11, <1>12, TransferCases
-----------------------------------------------------------------------------
(* The invariant                                                           *)

\* All of it together: the invariant holds at the start ...
LEMMA TransferInit ==
    ASSUME NoZeroByte, InitTransfer
    PROVE  TransferInv
<1>1. SafeInv /\ StreamInv
  BY SafeInit, StreamInit DEF InitTransfer
<1>2. RP!Init
  BY PeerNames DEF InitTransfer
<1>3. /\ rcv_nxt = 1 /\ minhp_recv = [s \in Streamed |-> 0] /\ stored = <<>>
      /\ t_delack_state = "XMIT" /\ ack_node = 0 /\ acked = 0 /\ rdied = "no"
      /\ rpc = "idle"
  BY <1>2 DEF RP!Init
<1>4. RP!TypeOK
  BY <1>2, StreamedSegments, RP!TypeInit
<1>5. RP!StreamInv
  BY <1>3 DEF RP!StreamInv, RP!StreamIntact
<1>6. \A s \in Streamed : minhp_recv[s] = 0
  BY <1>3
<1>7. RP!ReadyInv
  BY <1>6 DEF RP!ReadyInv, RP!Tops, RP!Waiting
<1>8. /\ snd_una = 1 /\ snd_nxt = 1 /\ cur = NoSegment /\ timerheap = <<>>
      /\ dataNet = EmptyBag /\ everAcked = {}
  BY DEF InitTransfer, InitSender
<1>9. On(timerheap) = {} /\ cur.seq = 0 /\ cur.len = 0
  BY <1>8 DEF On, NoSegment
<1>10. DOMAIN dataNet = {} /\ dataNet = [e \in {} |-> dataNet[e]]
  BY <1>8 DEF EmptyBag, SetToBag
<1>11. IsABag(dataNet)
  BY <1>10 DEF IsABag
<1>12. SizeInv
  BY <1>9, CongestionAssumption DEF SizeInv
<1>13. CutInv
  <2>1. Flying = {}
    BY <1>6, <1>10 DEF Flying, BagToSet
  <2> QED
    BY <2>1 DEF CutInv
<1>14. AckInv
  <2>1. Spans = {[lo |-> 0, hi |-> 0]}
    BY <1>9 DEF Spans
  <2> QED
    BY <1>3, <1>8, <2>1 DEF AckInv, AtBoundary
<1>15. OnceInv
  <2>1. \A s : Copies(s) = 0
    BY <1>10 DEF Copies, BagToSet
  <2> QED
    BY <1>6, <2>1 DEF OnceInv
<1>16. WaitInv /\ PeerInv
  BY <1>3, <1>6 DEF WaitInv, PeerInv
<1> QED
  BY <1>1, <1>4, <1>5, <1>7, <1>11, <1>12, <1>13, <1>14, <1>15, <1>16
  DEF TransferInv

\* ... and is kept by every step.
LEMMA TransferKept ==
    ASSUME NoZeroByte, PeerHasRoom, TransferInv, [NextTransfer]_allVars
    PROVE  TransferInv'
<1>1. SizeInv'
  BY SizeNext, SenderSteps DEF NoZeroByte, TransferInv
<1> QED
  BY <1>1, EndsKept, NetNext, CutNext, AckNext, OnceNext, WaitNext, PeerNext DEF TransferInv
-----------------------------------------------------------------------------
(* What the two ends promise together                                      *)

\* Whatever is lost, late, reordered or repeated, and whether or not touSend
\* overlaps with a run(), of a stream without a zero byte: no acknowledgement is
\* taken of what the peer does not have, none is beyond what was sent, and the
\* sender lets go of nothing that is not in the peer's buffer, or about to be put
\* there.
THEOREM TransferAgrees ==
    ASSUME NoZeroByte, PeerHasRoom
    PROVE  Safety => []EndsAgree
<1>1. InitTransfer => TransferInv
  BY NoZeroByte, TransferInit
<1>2. TransferInv /\ [NextTransfer]_allVars => TransferInv'
  BY NoZeroByte, PeerHasRoom, TransferKept
<1>3. TransferInv => EndsAgree
  <2> SUFFICES ASSUME TransferInv
               PROVE  EndsAgree
    OBVIOUS
  <2>1. snd_una <= rcv_nxt /\ rcv_nxt <= snd_nxt
    BY DEF TransferInv, AckInv, AtBoundary
  <2>2. rcv_nxt = Len(stored) + 1 + (IF rpc = "put" THEN rcur.len ELSE 0)
    BY DEF TransferInv, RP!StreamInv
  <2> QED
    BY <2>1, <2>2 DEF EndsAgree
<1> QED
  BY <1>1, <1>2, <1>3, PTL DEF Safety

\* Of a stream without a zero byte: the peer's timer always finds its node.  And
\* as long as touSend does not overlap with another thread's run(), which the
\* code does not ensure, neither process ends itself: no acknowledgement is beyond
\* snd_nxt, and no segment lies twice in the peer's out-of-order heap, which
\* do_proc_pkt_rec asserts.
THEOREM TransferLives ==
    ASSUME NoZeroByte, PeerHasRoom
    PROVE  Safety => []BothLive
<1>1. InitTransfer => TransferInv
  BY NoZeroByte, TransferInit
<1>2. TransferInv /\ [NextTransfer]_allVars => TransferInv'
  BY NoZeroByte, PeerHasRoom, TransferKept
<1>3. TransferInv => BothLive
  BY DEF TransferInv, StreamInv, OldestInv, PeerInv, BothLive
<1> QED
  BY <1>1, <1>2, <1>3, PTL DEF Safety

\* Of a stream without a zero byte, whether or not touSend overlaps with a run(),
\* with a window wider than a segment: a sender at rest, which will send nothing
\* again, has all that was written at the peer: what is neither on the timer heap nor in hand is acknowledged
\* (UnackedIsHeld), nothing is left in the send buffer when nothing is in flight
\* (NoStranded), and what is acknowledged is stored (EndsAgree).
THEOREM TransferRests ==
    ASSUME NoZeroByte, PeerHasRoom, Awnd > SMSS
    PROVE  Safety => []QuietIsDone
<1>1. InitTransfer => TransferInv /\ StrandInv
  BY NoZeroByte, TransferInit, StrandInit DEF InitTransfer
<1>2. TransferInv /\ StrandInv /\ [NextTransfer]_allVars => (TransferInv /\ StrandInv)'
  BY NoZeroByte, PeerHasRoom, TransferKept, SenderSteps, StreamIsAny, StrandNext
  DEF TransferInv, SafeInv
<1>3. TransferInv /\ StrandInv => QuietIsDone
  <2> SUFFICES ASSUME TransferInv, StrandInv, Busy = {}, timerheap = <<>>
               PROVE  written <= Len(stored) + (IF rpc = "put" THEN rcur.len ELSE 0)
    BY DEF QuietIsDone
  <2>1. /\ snd_una \in Nat /\ snd_nxt \in Nat /\ written \in Nat /\ popped \in Nat
        /\ snd_una <= snd_nxt /\ snd_nxt = popped + 1 /\ popped <= written
    BY TypeParts DEF TransferInv, SafeInv, TypeInv
  <2>2. cur = NoSegment
    BY BusyParts DEF TransferInv, StreamInv, HandInv, SendPcs
  <2>3. \A p \in Nat : ~Held(p)
    <3>1. DOMAIN timerheap = {}
      OBVIOUS
    <3>2. cur.seq = 0 /\ cur.len = 0
      BY <2>2 DEF NoSegment
    <3> QED
      BY <3>1, <3>2 DEF Held
  <2>4. snd_una = snd_nxt
    <3>1. \A p \in snd_una..(snd_nxt - 1) : Held(p)
      BY DEF TransferInv, StreamInv, UnackedIsHeld
    <3> QED
      BY <2>1, <2>3, <3>1
  <2>5. popped = written
    BY <2>1, <2>4 DEF StrandInv, NoStranded
  <2>6. snd_una <= rcv_nxt
    BY DEF TransferInv, AckInv, AtBoundary
  <2>7. rcv_nxt = Len(stored) + 1 + (IF rpc = "put" THEN rcur.len ELSE 0)
    BY DEF TransferInv, RP!StreamInv
  <2> DEFINE put == IF rpc = "put" THEN rcur.len ELSE 0
  <2>8. Len(stored) \in Nat /\ put \in Nat
    <3>1. stored \in Seq(Nat) /\ (rcur \in Streamed \/ rcur.len = 0)
      BY DEF TransferInv, RP!TypeOK, RP!NoSegment
    <3> QED
      BY <3>1, StreamedSegments
  <2> HIDE DEF put
  <2>9. rcv_nxt = Len(stored) + 1 + put
    BY <2>7 DEF put
  <2>10. written <= Len(stored) + put
    BY <2>1, <2>4, <2>5, <2>6, <2>8, <2>9
  <2> QED
    BY <2>10 DEF put
<1> QED
  BY <1>1, <1>2, <1>3, PTL DEF Safety

\* What touRecv has returned, and that it was sent.
LEMMA ReturnedIsSent ==
    ASSUME TransferInv
    PROVE  /\ nread \in Nat /\ written \in Nat /\ nread <= written
           /\ written <= StreamLen /\ StreamLen \in Nat
           /\ SubSeq(stored, 1, nread) = [p \in 1..nread |-> p]
<1>1. stored \in Seq(Nat) /\ nread \in 0..Len(stored)
  BY DEF TransferInv, RP!TypeOK
<1>2. \A i \in 1..Len(stored) : stored[i] = i
  BY DEF TransferInv, RP!StreamInv, RP!StreamIntact
<1>3. nread \in Nat /\ Len(stored) \in Nat /\ nread <= Len(stored)
  BY <1>1
<1>4. SubSeq(stored, 1, nread) = [p \in 1..nread |-> p]
  <2>1. SubSeq(stored, 1, nread) = [p \in 1..nread |-> stored[p]]
    BY <1>1, <1>3
  <2>2. \A p \in 1..nread : stored[p] = p
    BY <1>2, <1>3
  <2> QED
    BY <2>1, <2>2
<1>5. Len(stored) + 1 <= rcv_nxt /\ rcv_nxt \in Nat /\ rcv_nxt <= snd_nxt
  <2>1. rcv_nxt \in Nat /\ rcur \in Streamed \cup {RP!NoSegment}
    BY DEF TransferInv, RP!TypeOK
  <2>2. rpc = "put" => rcur \in Streamed
    BY DEF TransferInv, RP!StreamInv
  <2>3. rpc = "put" => rcur.len \in Nat
    BY <2>2, StreamedSegments
  <2>4. rcv_nxt = Len(stored) + 1 + (IF rpc = "put" THEN rcur.len ELSE 0)
    BY DEF TransferInv, RP!StreamInv
  <2>5. rcv_nxt <= snd_nxt
    BY DEF TransferInv, AckInv, AtBoundary
  <2> QED
    BY <1>3, <2>1, <2>3, <2>4, <2>5
<1>6. /\ snd_nxt = popped + 1 /\ popped <= written /\ popped \in Nat
      /\ written \in Nat /\ StreamLen \in Nat /\ written <= StreamLen
  <2>1. TypeInv /\ written \in 0..StreamLen
    BY TypeParts DEF TransferInv, SafeInv, TypeInv
  <2>2. popped \in Nat
    BY <2>1, TypeParts DEF TypeInv
  <2> QED
    BY <2>1, <2>2, SenderAssumption DEF TypeInv
<1> QED
  BY <1>3, <1>4, <1>5, <1>6

\* Only touSend adds to what is written, and only touRecv to what is read.
LEMMA WhoWritesAndReads ==
    ASSUME TransferInv, [NextTransfer]_allVars
    PROVE  \/ written' >= written /\ nread' = nread
           \/ written' = written /\ nread' >= nread
<1> USE DEF tcb, buffer, sending
<1>1. written \in Nat /\ nread \in Nat /\ stored \in Seq(Nat) /\ nread <= Len(stored)
  BY ReturnedIsSent DEF TransferInv, RP!TypeOK
<1>2. CASE /\ Internal \/ \E t \in Threads, a \in everAcked :
                             RunRecv(t, a) /\ UNCHANGED dataNet
           /\ UNCHANGED <<peer, everAcked>>
  <2>1. \A t \in Threads : SendStep(t) => written' = written
    BY DEF SendStep, SendEnter, SendWindow, SendPop, SendOut, SendAdd
  <2>2. \A t \in Threads : RunStep(t) => written' = written
    BY DEF RunStep, DeleteTimer, DupAck, CkDupAck, RexmitDupAck
  <2>3. TimerStep => written' = written
    BY DEF TimerStep, TimerWakes, TimerNoPacket, TimerClear, TimerWaits,
           TimerFires, TimerSetsWindow
  <2>4. ASSUME NEW t \in Apps, NEW n \in Writes, TouSend(t, n)
        PROVE  written' >= written
    <3>1. n \in Nat /\ written' \in {written, written + n}
      BY <2>4, SenderAssumption DEF TouSend
    <3> QED
      BY <1>1, <3>1
  <2>5. \A t \in Threads, a \in everAcked : RunRecv(t, a) => written' = written
    BY DEF RunRecv
  <2>6. written' >= written
    BY <1>1, <1>2, <2>1, <2>2, <2>3, <2>4, <2>5 DEF Internal
  <2> QED
    BY <1>2, <2>6 DEF peer
<1>3. ASSUME UNCHANGED host, nread' >= nread
      PROVE  written' = written /\ nread' >= nread
  BY <1>3 DEF host
<1>4. ASSUME NEW segment \in Streamed, Delivers(segment)
      PROVE  nread' >= nread
  <2>1. nread' = nread
    BY <1>4, DeliveryAfter DEF TransferInv
  <2> QED
    BY <1>1, <2>1
<1>5. ASSUME PeerMoves
      PROVE  nread' >= nread
  <2>1. CASE RP!TouRecv(RcvSize)
    <3>1. RP!Readable(RcvSize) \in Nat
      BY <1>1, TransferAssumption DEF RP!Readable, RP!Used
    <3> QED
      BY <1>1, <2>1, <3>1 DEF RP!TouRecv
  <2>2. CASE ~RP!TouRecv(RcvSize)
    <3>1. nread' = nread
      BY <1>5, <2>2
      DEF PeerMoves, RP!RunResume, RP!Put, RP!Recover, RP!RecoverDone,
          RP!RecoverEnds, RP!Delack, RP!RunEnd, RP!TimerDelack, RP!RecoverOne,
          RP!RecoverFull, RP!RecoverAsserts, RP!buffer, RP!delack
    <3> QED
      BY <1>1, <3>1
  <2> QED
    BY <2>1, <2>2
<1>6. UNCHANGED allVars => written' = written /\ nread' = nread
  BY DEF allVars, vars, peer
<1>7. Ignores => nread' >= nread
  BY <1>1 DEF Ignores, peer
<1> QED
  BY <1>1, <1>2, <1>3, <1>4, <1>5, <1>6, <1>7, TransferCases

\* The applications see a byte stream, if it has no zero byte, whether or not
\* touSend overlaps with a run(): touSend is Write, or nothing where the send
\* buffer is full; touRecv is Read; all else is invisible.
THEOREM TransferImplementsStream ==
    ASSUME NoZeroByte, PeerHasRoom
    PROVE  Safety => StreamSafety
<1>1. InitTransfer => TransferInv
  BY NoZeroByte, TransferInit
<1>2. TransferInv /\ [NextTransfer]_allVars => TransferInv'
  BY NoZeroByte, PeerHasRoom, TransferKept
<1>3. InitTransfer => Stream!Init
  <2> SUFFICES ASSUME InitTransfer
               PROVE  Stream!Init
    OBVIOUS
  <2>1. written = 0 /\ stored = <<>> /\ nread = 0
    BY DEF InitTransfer, InitSender, R!Init
  <2> QED
    BY <2>1 DEF Stream!Init
<1> DEFINE returned == SubSeq(stored, 1, nread)
           Sent == /\ nread \in Nat /\ written \in Nat /\ nread <= written
                   /\ written <= StreamLen /\ StreamLen \in Nat
                   /\ returned = [p \in 1..nread |-> p]
<1>4. TransferInv => Sent
  BY ReturnedIsSent
<1>5. TransferInv' => Sent'
  BY <1>4, PTL
<1>6. TransferInv /\ Sent' /\ [NextTransfer]_allVars
        => [Stream!Next]_(Stream!vars)
  <2> SUFFICES ASSUME TransferInv, Sent', [NextTransfer]_allVars
               PROVE  [Stream!Next]_(Stream!vars)
    OBVIOUS
  <2>1. /\ nread \in Nat /\ written \in Nat
        /\ returned = [p \in 1..nread |-> p]
    BY ReturnedIsSent
  <2>2. /\ nread' \in Nat /\ written' \in Nat /\ nread' <= written'
        /\ written' <= StreamLen /\ StreamLen \in Nat
        /\ returned' = [p \in 1..nread' |-> p]
    OBVIOUS
  <2>3. Len(returned) = nread
    BY <2>1
  <2> HIDE DEF returned
  <2>4. CASE written' >= written /\ nread' = nread
    <3>1. returned' = returned
      BY <2>1, <2>2, <2>4
    <3>2. written' = written \/ written' \in (written + 1)..StreamLen
      BY <2>1, <2>2, <2>4
    <3> QED
      BY <3>1, <3>2 DEF Stream!Next, Stream!Write, Stream!vars, returned
  <2>5. CASE written' = written /\ nread' >= nread
    <3>1. nread' = nread => returned' = returned
      BY <2>1, <2>2
    <3>2. nread' = nread \/ nread' \in (Len(returned) + 1)..written
      BY <2>1, <2>2, <2>3, <2>5
    <3> QED
      BY <2>2, <2>5, <3>1, <3>2 DEF Stream!Next, Stream!Read, Stream!vars, returned
  <2> QED
    BY <2>4, <2>5, WhoWritesAndReads
<1> QED
  BY <1>1, <1>2, <1>3, <1>5, <1>6, PTL DEF Safety, StreamSafety, Stream!Safety
=============================================================================
