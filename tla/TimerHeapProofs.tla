-------------------------- MODULE TimerHeapProofs --------------------------
(***************************************************************************)
(* Theorems about TimerHeap, for every set of sockets and threads, every   *)
(* number of segments and every limit of postpone_timer, where no touSend  *)
(* overlaps with another thread's run(): the heap has every segment once   *)
(* and in order, the connection with the lowest descriptor loses no node,  *)
(* and one connection alone on the heap is safe.                           *)
(***************************************************************************)
EXTENDS TimerHeap, TLAPS, SequenceTheorems, WellFoundedInduction

SendPcs == {"loop", "add"}
RunPcs == {"ack", "delete", "rexmit", "send"}

\* The nodes on a heap.
On(h) == {h[i] : i \in 1..Len(h)}

Sorted(h) == \A i, j \in 1..Len(h) : i < j => Before(h[i], h[j])
-----------------------------------------------------------------------------
(* The inductive invariant                                                 *)

\* One call at a time, and socktb is its connection's.
TurnInv ==
    /\ \A t \in Threads : sendBy = t <=> pc[t] \in SendPcs
    /\ \A t \in Threads : pc[t] \in RunPcs => runBy = t
    /\ \A t \in Threads : runBy = t => pc[t] \in RunPcs \cup SendPcs
    /\ runBy # NoOne => sendBy \in {NoOne, runBy}
    /\ \A t \in Threads : pc[t] \in SendPcs \cup {"ack"} => socktb = conn[t]
    /\ \A t \in Threads : pc[t] = "ack" => stb = conn[t]

\* The numbers in hand.
NumberInv ==
    /\ \A t \in Threads : pc[t] \in {"ack", "delete", "rexmit"} => ack <= snd_nxt[conn[t]]
    /\ \A t \in Threads : pc[t] \in {"delete", "rexmit"} => ack = snd_una[conn[t]]
    /\ \A t \in Threads : pc[t] = "add" => /\ snd_nxt[conn[t]] = seq + 1
                                           /\ snd_una[conn[t]] <= seq

\* The nodes; those of the connection that is sending are older than the segment
\* in hand.
NodeInv ==
    /\ \A n \in On(heap) : n.st = n.c_id /\ n.p_id <= snd_nxt[n.c_id]
    /\ \A t \in Threads : pc[t] = "add" =>
          \A n \in On(heap) : n.c_id = conn[t] => n.p_id <= seq
    /\ Sorted(heap)

\* As long as there was never more than one connection in flight: it is so now,
\* it keeps its nodes, and only its oldest is marked as sent again.
AloneInv ==
    ~mixed =>
        /\ AllKeep
        /\ \A c, d \in Conns : InFlight(c) /\ InFlight(d) => c = d
        /\ \A t \in Threads : pc[t] = "delete" =>
              \A n \in On(heap) : n.c_id = conn[t]
        /\ \A n \in On(heap) : n.rex => n.p_id <= snd_una[n.c_id] + 1
        /\ died # "no" => \E t \in Threads : pc[t] = "rexmit" /\ ~InFlight(conn[t])

HeapInv == TypeOK /\ TurnInv /\ NumberInv /\ NodeInv /\ LowestKeeps /\ AloneInv
-----------------------------------------------------------------------------
(* Sequences: the timer heap                                               *)

\* heapComp orders the nodes.
LEMMA BeforeOrders ==
    /\ \A m, n \in Nodes : \/ Before(m, n) \/ Before(n, m)
                           \/ m.c_id = n.c_id /\ m.p_id = n.p_id
    /\ \A m, n \in Nodes : Before(m, n) => ~Before(n, m)
    /\ \A m, n, o \in Nodes : Before(m, n) /\ Before(n, o) => Before(m, o)
<1>1. \A n \in Nodes : n.c_id \in Nat /\ n.p_id \in Nat
  <2>1. \A n \in Nodes : n.c_id \in Conns /\ n.p_id \in Nat
    BY DEF Nodes
  <2> QED
    BY <2>1, TimerHeapAssumption
<1> QED
  BY <1>1 DEF Before

\* A set of numbers that is not empty has a least element.
LEMMA LeastElement ==
    ASSUME NEW S \in SUBSET Nat, S # {}
    PROVE  \E x \in S : \A y \in S : x <= y
<1> DEFINE R == OpToRel(<, Nat)
<1>0. S \subseteq Nat
  OBVIOUS
<1>1. IsWellFoundedOn(R, Nat)
  BY NatLessThanWellFounded
<1>2. \E x \in S : \A y \in S : ~(<<y, x>> \in R)
  <2> HIDE DEF R
  <2>1. \A T : T \subseteq Nat /\ T # {}
               => \E x \in T : \A y \in T : ~(<<y, x>> \in R)
    BY <1>1, WFMin
  <2> QED
    BY <1>0, <2>1
<1>3. PICK x \in S : \A y \in S : ~(<<y, x>> \in R)
  BY <1>2
<1>4. \A y \in S : <<y, x>> \in R <=> y < x
  BY <1>0 DEF OpToRel
<1>5. \A y \in S : ~(y < x)
  <2> HIDE DEF R
  <2> QED
    BY <1>3, <1>4
<1> HIDE DEF R
<1> QED
  BY <1>0, <1>5

\* Min is what it is called.
LEMMA MinProperties ==
    ASSUME NEW S \in SUBSET Nat, S # {}
    PROVE  Min(S) \in S /\ \A y \in S : Min(S) <= y
BY LeastElement DEF Min

\* What DownTo leaves of a heap h, whichever indices I its predicate holds at: the
\* part that begins with the first of them.
LEMMA FromFirst ==
    ASSUME NEW h \in Seq(Nodes), NEW I \in SUBSET (1..Len(h)),
           NEW rest,
           rest = LET first == IF I # {} THEN Min(I) ELSE 0
                  IN IF first = 0 THEN <<>> ELSE SubSeq(h, first, Len(h))
    PROVE  /\ rest \in Seq(Nodes)
           /\ On(rest) \subseteq On(h)
           /\ \A i \in I : h[i] \in On(rest)
           /\ rest # <<>> => \E i \in I : Head(rest) = h[i]
           /\ Sorted(h) => Sorted(rest)
<1>1. Len(h) \in Nat /\ \A i \in 1..Len(h) : h[i] \in Nodes
  OBVIOUS
<1>2. CASE I = {}
  BY <1>2 DEF On, Sorted
<1>3. CASE I # {}
  <2>1. Min(I) \in I /\ \A i \in I : Min(I) <= i
    BY <1>1, <1>3, MinProperties
  <2> DEFINE k == Min(I)
             n == Len(h)
  <2>2. k \in 1..n /\ k # 0
    <3>1. \A i \in I : i \in 1..n /\ i # 0
      BY <1>1
    <3> QED
      BY <2>1, <3>1
  <2>0. rest = SubSeq(h, k, n)
    BY <1>3, <2>2
  <2>3. \A i \in k..n : h[i] \in Nodes
    BY <1>1, <2>2
  <2>10. k \in Int /\ n \in Int /\ k <= n
    BY <1>1, <2>2
  <2> HIDE DEF k, n
  <2>4. /\ rest \in Seq(Nodes)
        /\ Len(rest) = n - k + 1
        /\ \A i \in 1..(n - k + 1) : rest[i] = h[k + i - 1]
    <3>1. /\ SubSeq(h, k, n) \in Seq(Nodes)
          /\ Len(SubSeq(h, k, n)) = n - k + 1
          /\ \A i \in 1..(n - k + 1) : SubSeq(h, k, n)[i] = h[k + i - 1]
      <4>1. /\ SubSeq(h, k, n) \in Seq(Nodes)
            /\ Len(SubSeq(h, k, n)) = IF k <= n THEN n - k + 1 ELSE 0
            /\ \A i \in 1..(n - k + 1) : SubSeq(h, k, n)[i] = h[k + i - 1]
        BY <2>3, <2>10, SubSeqProperties
      <4> QED
        BY <2>10, <4>1
    <3> QED
      BY <2>0, <3>1
  <2>5. \A i \in 1..Len(rest) : k + i - 1 \in 1..n
    BY <1>1, <2>2, <2>4 DEF n
  <2>6. On(rest) \subseteq On(h)
    <3> SUFFICES ASSUME NEW i \in 1..Len(rest)
                 PROVE  rest[i] \in On(h)
      BY DEF On
    <3>1. rest[i] = h[k + i - 1]
      BY <2>4
    <3>2. k + i - 1 \in 1..Len(h)
      BY <2>5 DEF n
    <3> QED
      BY <3>1, <3>2 DEF On
  <2>7. ASSUME NEW i \in I
        PROVE  h[i] \in On(rest)
    <3>1. i - k + 1 \in 1..Len(rest) /\ k + (i - k + 1) - 1 = i
      BY <1>1, <2>1, <2>2, <2>4 DEF n, k
    <3> QED
      BY <2>4, <3>1 DEF On
  <2>8. Head(rest) = h[k] /\ k \in I
    BY <2>1, <2>2, <2>4 DEF k
  <2>9. Sorted(h) => Sorted(rest)
    <3> SUFFICES ASSUME Sorted(h),
                        NEW i \in 1..Len(rest), NEW j \in 1..Len(rest), i < j
                 PROVE  Before(rest[i], rest[j])
      BY DEF Sorted
    <3>1. k + i - 1 < k + j - 1
      BY <2>4, <2>10
    <3> QED
      BY <2>4, <2>5, <3>1 DEF Sorted, n
  <2> QED
    BY <2>4, <2>6, <2>7, <2>8, <2>9
<1> QED
  BY <1>2, <1>3

\* Taking the top node away.
LEMMA TailOfHeap ==
    ASSUME NEW h \in Seq(Nodes), h # <<>>
    PROVE  /\ Head(h) \in On(h) /\ Head(h) \in Nodes
           /\ Tail(h) \in Seq(Nodes)
           /\ On(h) = On(Tail(h)) \cup {Head(h)}
           /\ Sorted(h) => /\ Sorted(Tail(h))
                              /\ \A n \in On(Tail(h)) : Before(Head(h), n)
<1> DEFINE n == Len(h)
           rest == Tail(h)
<1>1. /\ n \in Nat \ {0} /\ \A i \in 1..n : h[i] \in Nodes
      /\ Head(h) = h[1]
  OBVIOUS
<1>2. /\ rest \in Seq(Nodes) /\ Len(rest) = n - 1
      /\ \A i \in 1..(n - 1) : rest[i] = h[i + 1]
  BY HeadTailProperties
<1> HIDE DEF rest
<1>3. On(h) = On(rest) \cup {Head(h)}
  <2>1. \A i \in 1..n : i # 1 => i - 1 \in 1..(n - 1) /\ h[i] = rest[i - 1]
    BY <1>1, <1>2
  <2>2. \A i \in 1..n : h[i] \in On(rest) \cup {Head(h)}
    BY <1>1, <1>2, <2>1 DEF On
  <2>3. \A i \in 1..(n - 1) : rest[i] \in On(h)
    <3> TAKE i \in 1..(n - 1)
    <3>1. i + 1 \in 1..n /\ rest[i] = h[i + 1]
      BY <1>1, <1>2
    <3> QED
      BY <3>1 DEF On
  <2>4. On(h) \subseteq On(rest) \cup {Head(h)}
    BY <2>2 DEF On
  <2>5. On(rest) \subseteq On(h)
    BY <1>2, <2>3 DEF On
  <2>6. Head(h) \in On(h)
    BY <1>1 DEF On
  <2> QED
    BY <2>4, <2>5, <2>6
<1>4. Sorted(h) => Sorted(rest)
  <2> SUFFICES ASSUME Sorted(h),
                      NEW i \in 1..(n - 1), NEW j \in 1..(n - 1), i < j
               PROVE  Before(rest[i], rest[j])
    BY <1>2 DEF Sorted
  <2>1. i + 1 \in 1..n /\ j + 1 \in 1..n /\ i + 1 < j + 1
    BY <1>1
  <2>2. Before(h[i + 1], h[j + 1])
    BY <2>1 DEF Sorted
  <2> QED
    BY <1>2, <2>2
<1>5. Sorted(h) => \A m \in On(rest) : Before(Head(h), m)
  <2> SUFFICES ASSUME Sorted(h), NEW i \in 1..(n - 1)
               PROVE  Before(Head(h), rest[i])
    BY <1>2 DEF On
  <2>1. 1 \in 1..n /\ i + 1 \in 1..n /\ 1 < i + 1
    BY <1>1
  <2>2. Before(h[1], h[i + 1])
    BY <2>1 DEF Sorted
  <2> QED
    BY <1>1, <1>2, <2>2
<1> QED
  BY <1>1, <1>2, <1>3, <1>4, <1>5 DEF rest
\* timerheap.push puts a node that is not there yet among the others, in its place.
LEMMA PushesOne ==
    ASSUME NEW nodes \in Seq(Nodes), Sorted(nodes), NEW node \in Nodes,
           \A m \in On(nodes) : ~(m.c_id = node.c_id /\ m.p_id = node.p_id)
    PROVE  /\ Pushed(nodes, node) \in Seq(Nodes) /\ Pushed(nodes, node) # <<>>
           /\ On(Pushed(nodes, node)) = On(nodes) \cup {node}
           /\ Sorted(Pushed(nodes, node))
<1> DEFINE n == Len(nodes)
           h == Pushed(nodes, node)
           I == {i \in 1..n : ~Before(nodes[i], node)}
           k == IF I = {} THEN n + 1 ELSE Min(I)
<1>1. n \in Nat /\ \A i \in 1..n : nodes[i] \in Nodes
  OBVIOUS
<1>12. I # {} => Min(I) \in I /\ \A i \in I : Min(I) <= i
  <2>1. I \in SUBSET Nat
    BY <1>1
  <2> QED
    BY <2>1, MinProperties
<1>3. k \in Nat /\ 1 <= k /\ k <= n + 1
  BY <1>1, <1>12
<1>2. h = InsertAt(nodes, k, node)
  <2>1. I # {} => Min(I) # 0
    BY <1>1, <1>12
  <2>2. (IF (IF I # {} THEN Min(I) ELSE 0) = 0 THEN n + 1
         ELSE (IF I # {} THEN Min(I) ELSE 0)) = k
    BY <2>1
  <2>3. h = InsertAt(nodes, IF (IF I # {} THEN Min(I) ELSE 0) = 0 THEN n + 1
                            ELSE (IF I # {} THEN Min(I) ELSE 0), node)
    BY DEF Pushed, SelectInSeq
  <2> HIDE DEF h, k, I, n
  <2> QED
    BY <2>2, <2>3
<1>13. \A i \in 1..(k - 1) : Before(nodes[i], node)
  <2> SUFFICES ASSUME NEW i \in 1..(k - 1)
               PROVE  Before(nodes[i], node)
    OBVIOUS
  <2>1. i \in 1..n /\ i < k
    BY <1>1, <1>3
  <2>2. CASE I = {}
    BY <2>1, <2>2
  <2>3. CASE I # {}
    <3>1. i \notin I
      BY <1>1, <1>12, <2>1, <2>3
    <3> QED
      BY <2>1, <3>1
  <2> QED
    BY <2>2, <2>3
<1>14. k \in 1..n => Before(node, nodes[k])
  <2> SUFFICES ASSUME k \in 1..n
               PROVE  Before(node, nodes[k])
    OBVIOUS
  <2>1. k \in I
    BY <1>1, <1>12
  <2>2. ~Before(nodes[k], node) /\ nodes[k] \in Nodes
    BY <1>1, <2>1
  <2>3. nodes[k] \in On(nodes)
    BY DEF On
  <2> QED
    BY <2>2, <2>3, BeforeOrders
<1> HIDE DEF h, k, I
<1>15. \A i \in k..n : Before(node, nodes[i])
  <2> SUFFICES ASSUME NEW i \in k..n
               PROVE  Before(node, nodes[i])
    OBVIOUS
  <2>1. k \in 1..n /\ i \in 1..n /\ (i = k \/ k < i)
    BY <1>1, <1>3
  <2>2. nodes[k] \in Nodes /\ nodes[i] \in Nodes
    BY <1>1, <2>1
  <2>3. k < i => Before(nodes[k], nodes[i])
    BY <2>1 DEF Sorted
  <2> QED
    BY <1>14, <2>1, <2>2, <2>3, BeforeOrders
<1> DEFINE a == SubSeq(nodes, 1, k - 1)
           b == SubSeq(nodes, k, n)
           c == a \o <<node>>
<1>4. /\ a \in Seq(Nodes) /\ Len(a) = k - 1
      /\ \A i \in 1..(k - 1) : a[i] = nodes[i]
  <2>1. \A i \in 1..(k - 1) : nodes[i] \in Nodes
    BY <1>1, <1>3
  <2>2. /\ a \in Seq(Nodes)
        /\ Len(a) = IF 1 <= k - 1 THEN (k - 1) - 1 + 1 ELSE 0
        /\ \A i \in 1..((k - 1) - 1 + 1) : a[i] = nodes[1 + i - 1]
    BY <1>3, <2>1, SubSeqProperties
  <2> HIDE DEF a
  <2> QED
    BY <1>3, <2>2
<1>5. /\ b \in Seq(Nodes) /\ Len(b) = n - k + 1
      /\ \A i \in 1..(n - k + 1) : b[i] = nodes[k + i - 1]
  <2>1. \A i \in k..n : nodes[i] \in Nodes
    BY <1>1, <1>3
  <2>2. /\ b \in Seq(Nodes)
        /\ Len(b) = IF k <= n THEN n - k + 1 ELSE 0
        /\ \A i \in 1..(n - k + 1) : b[i] = nodes[k + i - 1]
    BY <1>1, <1>3, <2>1, SubSeqProperties
  <2> HIDE DEF b
  <2> QED
    BY <1>1, <1>3, <2>2
<1>6. <<node>> \in Seq(Nodes) /\ Len(<<node>>) = 1 /\ <<node>>[1] = node
  OBVIOUS
<1> HIDE DEF a, b
<1>7. /\ c \in Seq(Nodes) /\ Len(c) = k
      /\ \A i \in 1..k : c[i] = IF i <= k - 1 THEN nodes[i] ELSE node
  <2>1. /\ c \in Seq(Nodes) /\ Len(c) = (k - 1) + 1
        /\ \A i \in 1..((k - 1) + 1) :
              c[i] = IF i <= k - 1 THEN a[i] ELSE <<node>>[i - (k - 1)]
    BY <1>4, <1>6, ConcatProperties
  <2>2. \A i \in 1..k : i <= k - 1 \/ i - (k - 1) = 1
    BY <1>3
  <2> HIDE DEF c
  <2> QED
    BY <1>3, <1>4, <1>6, <2>1, <2>2
<1> HIDE DEF c
<1>8. /\ h \in Seq(Nodes) /\ Len(h) = n + 1
      /\ \A i \in 1..(n + 1) : h[i] = IF i <= k - 1 THEN nodes[i]
                                      ELSE IF i = k THEN node ELSE nodes[i - 1]
  <2>1. h = c \o b
    BY <1>2 DEF InsertAt, a, b, c
  <2>2. /\ c \o b \in Seq(Nodes) /\ Len(c \o b) = Len(c) + Len(b)
        /\ \A i \in 1..(Len(c) + Len(b)) :
              (c \o b)[i] = IF i <= Len(c) THEN c[i] ELSE b[i - Len(c)]
    BY <1>5, <1>7, ConcatProperties
  <2>3. Len(c) = k /\ Len(b) = n - k + 1 /\ k + (n - k + 1) = n + 1
    BY <1>1, <1>3, <1>5, <1>7
  <2>4. /\ h \in Seq(Nodes) /\ Len(h) = n + 1
        /\ \A i \in 1..(n + 1) : h[i] = IF i <= k THEN c[i] ELSE b[i - k]
    BY <2>1, <2>2, <2>3
  <2>5. \A i \in 1..(n + 1) : ~(i <= k) => b[i - k] = nodes[i - 1]
    <3>1. \A i \in 1..(n + 1) : ~(i <= k) => /\ i - k \in 1..(n - k + 1)
                                            /\ k + (i - k) - 1 = i - 1
      BY <1>1, <1>3
    <3> QED
      BY <1>5, <3>1
  <2>6. \A i \in 1..(n + 1) : i <= k => c[i] = IF i <= k - 1 THEN nodes[i] ELSE node
    BY <1>3, <1>7
  <2>7. ASSUME NEW i \in 1..(n + 1)
        PROVE  h[i] = IF i <= k - 1 THEN nodes[i]
                      ELSE IF i = k THEN node ELSE nodes[i - 1]
    <3>1. i \in Nat
      BY <1>1
    <3>2. CASE i <= k - 1
      BY <1>3, <2>4, <2>6, <3>1, <3>2
    <3>3. CASE i = k
      BY <1>3, <2>4, <2>6, <3>3
    <3>4. CASE i > k
      BY <1>3, <2>4, <2>5, <3>1, <3>4
    <3> QED
      BY <1>3, <3>1, <3>2, <3>3, <3>4
  <2> QED
    BY <2>4, <2>7
<1>9. On(h) = On(nodes) \cup {node}
  <2>1. ASSUME NEW i \in 1..(n + 1) PROVE h[i] \in On(nodes) \cup {node}
    <3>1. \/ h[i] = node
          \/ i \in 1..n /\ h[i] = nodes[i]
          \/ i - 1 \in 1..n /\ h[i] = nodes[i - 1]
      BY <1>1, <1>3, <1>8
    <3> QED
      BY <3>1 DEF On
  <2>2. node \in On(h)
    <3>1. k \in 1..Len(h) /\ h[k] = node
      BY <1>1, <1>3, <1>8
    <3> QED
      BY <3>1 DEF On
  <2>3. ASSUME NEW i \in 1..n PROVE nodes[i] \in On(h)
    <3>1. CASE i <= k - 1
      <4>1. i \in 1..(n + 1) /\ h[i] = nodes[i]
        BY <1>1, <1>3, <1>8, <3>1
      <4> QED
        BY <1>8, <4>1 DEF On
    <3>2. CASE ~(i <= k - 1)
      <4>1. i + 1 \in 1..(n + 1) /\ h[i + 1] = nodes[i]
        BY <1>1, <1>3, <1>8, <3>2
      <4> QED
        BY <1>8, <4>1 DEF On
    <3> QED
      BY <3>1, <3>2
  <2>4. On(h) \subseteq On(nodes) \cup {node}
    BY <1>8, <2>1 DEF On
  <2>5. On(nodes) \subseteq On(h)
    BY <2>3 DEF On
  <2> QED
    BY <2>2, <2>4, <2>5
<1>10. Sorted(h)
  <2> SUFFICES ASSUME NEW i \in 1..(n + 1), NEW j \in 1..(n + 1), i < j
               PROVE  Before(h[i], h[j])
    BY <1>8 DEF Sorted
  <2>6. CASE j <= k - 1
    <3>1. i \in 1..n /\ j \in 1..n /\ h[i] = nodes[i] /\ h[j] = nodes[j]
      BY <1>1, <1>3, <1>8, <2>6
    <3> QED
      BY <3>1 DEF Sorted
  <2>7. CASE j = k
    <3>1. i \in 1..(k - 1) /\ h[i] = nodes[i] /\ h[j] = node
      BY <1>1, <1>3, <1>8, <2>7
    <3> QED
      BY <1>13, <3>1
  <2>8. CASE i <= k - 1 /\ j > k
    <3>1. i \in 1..n /\ j - 1 \in 1..n /\ i < j - 1
      BY <1>1, <1>3, <2>8
    <3>2. h[i] = nodes[i] /\ h[j] = nodes[j - 1]
      BY <1>1, <1>3, <1>8, <2>8
    <3> QED
      BY <3>1, <3>2 DEF Sorted
  <2>10. CASE i = k /\ j > k
    <3>1. j - 1 \in k..n
      BY <1>1, <1>3, <2>10
    <3>2. h[i] = node /\ h[j] = nodes[j - 1]
      BY <1>1, <1>3, <1>8, <2>10
    <3> QED
      BY <1>15, <3>1, <3>2
  <2>11. CASE i > k
    <3>1. i - 1 \in 1..n /\ j - 1 \in 1..n /\ i - 1 < j - 1
      BY <1>1, <1>3, <2>11
    <3>2. h[i] = nodes[i - 1] /\ h[j] = nodes[j - 1]
      BY <1>1, <1>3, <1>8, <2>11
    <3> QED
      BY <3>1, <3>2 DEF Sorted
  <2> QED
    BY <1>1, <1>3, <2>6, <2>7, <2>8, <2>10, <2>11
<1>11. h # <<>>
  BY <1>1, <1>8
<1> QED
  BY <1>8, <1>9, <1>10, <1>11 DEF h
\* The order of TypeOK's neighbours.
LEMMA Neighbours ==
    ASSUME NEW nodes \in Seq(Nodes), Sorted(nodes)
    PROVE  \A i \in 1..(Len(nodes) - 1) :
              \/ nodes[i].c_id < nodes[i + 1].c_id
              \/ nodes[i].c_id = nodes[i + 1].c_id /\ nodes[i].p_id < nodes[i + 1].p_id
<1> SUFFICES ASSUME NEW i \in 1..(Len(nodes) - 1)
             PROVE  Before(nodes[i], nodes[i + 1])
  BY DEF Before
<1>1. i \in 1..Len(nodes) /\ i + 1 \in 1..Len(nodes) /\ i < i + 1
  OBVIOUS
<1> QED
  BY <1>1 DEF Sorted

\* The same segment, marked or not.
SameSegment(m, n) == m.c_id = n.c_id /\ m.st = n.st /\ m.p_id = n.p_id

\* A retransmission marks the top node and leaves the others.
LEMMA RexmittedMarks ==
    ASSUME NEW nodes \in Seq(Nodes), Sorted(nodes), nodes # <<>>
    PROVE  /\ Rexmitted(nodes) \in Seq(Nodes) /\ Sorted(Rexmitted(nodes))
           /\ \A m \in On(Rexmitted(nodes)) :
                 \E n \in On(nodes) : SameSegment(m, n) /\ (m.rex => n.rex \/ n = Head(nodes))
           /\ \A n \in On(nodes) : \E m \in On(Rexmitted(nodes)) : SameSegment(m, n)
<1> DEFINE marked == [Head(nodes) EXCEPT !.rex = TRUE]
<1>1. /\ Head(nodes) \in On(nodes) /\ Head(nodes) \in Nodes
      /\ Tail(nodes) \in Seq(Nodes) /\ Sorted(Tail(nodes))
      /\ On(nodes) = On(Tail(nodes)) \cup {Head(nodes)}
      /\ \A n \in On(Tail(nodes)) : Before(Head(nodes), n)
  BY TailOfHeap
<1>2. marked \in Nodes /\ SameSegment(marked, Head(nodes))
  BY <1>1 DEF Nodes, SameSegment
<1>3. \A n \in On(Tail(nodes)) : n \in Nodes
  BY <1>1 DEF On
<1>4. \A n \in On(Tail(nodes)) : ~(n.c_id = marked.c_id /\ n.p_id = marked.p_id)
  <2> SUFFICES ASSUME NEW n \in On(Tail(nodes)),
                      n.c_id = Head(nodes).c_id, n.p_id = Head(nodes).p_id
               PROVE  FALSE
    BY <1>2 DEF SameSegment
  <2>1. Before(Head(nodes), n)
    BY <1>1
  <2>2. Before(n, Head(nodes))
    BY <2>1 DEF Before
  <2> QED
    BY <1>1, <1>3, <2>1, <2>2, BeforeOrders
<1>5. Rexmitted(nodes) = Pushed(Tail(nodes), marked)
  BY DEF Rexmitted
<1> HIDE DEF marked
<1>6. /\ Rexmitted(nodes) \in Seq(Nodes) /\ Sorted(Rexmitted(nodes))
      /\ On(Rexmitted(nodes)) = On(Tail(nodes)) \cup {marked}
  <2> DEFINE others == Tail(nodes)
  <2>1. /\ others \in Seq(Nodes) /\ Sorted(others) /\ marked \in Nodes
        /\ \A m \in On(others) : ~(m.c_id = marked.c_id /\ m.p_id = marked.p_id)
    BY <1>1, <1>2, <1>4
  <2> HIDE DEF others
  <2>2. /\ Pushed(others, marked) \in Seq(Nodes) /\ Sorted(Pushed(others, marked))
        /\ On(Pushed(others, marked)) = On(others) \cup {marked}
    BY <2>1, PushesOne
  <2> QED
    BY <1>5, <2>2 DEF others
<1>7. \A n \in On(nodes) : SameSegment(n, n)
  BY DEF SameSegment
<1> QED
  BY <1>1, <1>2, <1>6, <1>7 DEF SameSegment

\* What proc_clear_ackedpkt() leaves: all that is above the number of the
\* connection on top.
LEMMA ClearedLeaves ==
    ASSUME NEW nodes \in Seq(Nodes), Sorted(nodes)
    PROVE  /\ Cleared(nodes) \in Seq(Nodes) /\ Sorted(Cleared(nodes))
           /\ On(Cleared(nodes)) \subseteq On(nodes)
           /\ \A n \in On(nodes) : n.p_id > snd_una[Head(nodes).st] => n \in On(Cleared(nodes))
           /\ Cleared(nodes) # <<>> =>
                 nodes # <<>> /\ Head(Cleared(nodes)).p_id > snd_una[Head(nodes).st]
<1>1. CASE nodes = <<>>
  BY <1>1 DEF Cleared, On
<1>2. CASE nodes # <<>>
  <2> DEFINE I == {i \in 1..Len(nodes) : nodes[i].p_id > snd_una[Head(nodes).st]}
  <2>1. Cleared(nodes) = LET first == IF I # {} THEN Min(I) ELSE 0
                         IN IF first = 0 THEN <<>> ELSE SubSeq(nodes, first, Len(nodes))
    BY <1>2 DEF Cleared, DownTo, SelectInSeq
  <2>2. I \in SUBSET (1..Len(nodes))
    OBVIOUS
  <2>3. \A i \in 1..Len(nodes) : nodes[i].p_id > snd_una[Head(nodes).st] <=> i \in I
    OBVIOUS
  <2> HIDE DEF I
  <2>4. /\ Cleared(nodes) \in Seq(Nodes) /\ Sorted(Cleared(nodes))
        /\ On(Cleared(nodes)) \subseteq On(nodes)
        /\ \A i \in I : nodes[i] \in On(Cleared(nodes))
        /\ Cleared(nodes) # <<>> => \E i \in I : Head(Cleared(nodes)) = nodes[i]
    BY <2>1, <2>2, FromFirst
  <2> QED
    BY <1>2, <2>2, <2>3, <2>4 DEF On
<1> QED
  BY <1>1, <1>2

\* What delete_timer's pops leave, down to the node that ends its search.
LEMMA DeletedLeaves ==
    ASSUME NEW nodes \in Seq(Nodes), Sorted(nodes), NEW c, NEW una, NEW rest,
           rest = FromNumber(nodes, c, una)
    PROVE  /\ rest # <<>> => Head(rest) \in On(nodes)
           /\ Deleted(nodes, c, una) \in Seq(Nodes) /\ Sorted(Deleted(nodes, c, una))
           /\ On(Deleted(nodes, c, una)) \subseteq On(nodes)
           /\ \A n \in On(nodes) : n.c_id # c \/ (n.p_id >= una /\ n.p_id # una) =>
                 n \in On(Deleted(nodes, c, una))
<1> DEFINE I == {i \in 1..Len(nodes) : nodes[i].c_id # c \/ nodes[i].p_id >= una}
<1>1. rest = LET first == IF I # {} THEN Min(I) ELSE 0
             IN IF first = 0 THEN <<>> ELSE SubSeq(nodes, first, Len(nodes))
  BY DEF FromNumber, DownTo, SelectInSeq
<1>2. I \in SUBSET (1..Len(nodes))
  OBVIOUS
<1>3. \A i \in 1..Len(nodes) : nodes[i].c_id # c \/ nodes[i].p_id >= una <=> i \in I
  OBVIOUS
<1> HIDE DEF I
<1>4. /\ rest \in Seq(Nodes) /\ Sorted(rest) /\ On(rest) \subseteq On(nodes)
      /\ \A i \in I : nodes[i] \in On(rest)
      /\ rest # <<>> => \E i \in I : Head(rest) = nodes[i]
  BY <1>1, <1>2, FromFirst
<1>5. \A n \in On(nodes) : n.c_id # c \/ n.p_id >= una => n \in On(rest)
  BY <1>3, <1>4 DEF On
<1>6. rest # <<>> => Head(rest) \in On(nodes)
  BY <1>2, <1>4 DEF On
<1>7. Deleted(nodes, c, una) = IF rest # <<>> /\ Head(rest).c_id = c /\ Head(rest).p_id = una
                               THEN Tail(rest) ELSE rest
  BY DEF Deleted
<1>8. CASE rest # <<>> /\ Head(rest).c_id = c /\ Head(rest).p_id = una
  <2>1. /\ Tail(rest) \in Seq(Nodes) /\ Sorted(Tail(rest))
        /\ On(rest) = On(Tail(rest)) \cup {Head(rest)}
    BY <1>4, <1>8, TailOfHeap
  <2> QED
    BY <1>4, <1>5, <1>6, <1>7, <1>8, <2>1
<1>9. CASE ~(rest # <<>> /\ Head(rest).c_id = c /\ Head(rest).p_id = una)
  BY <1>4, <1>5, <1>6, <1>7, <1>9
<1> QED
  BY <1>8, <1>9

\* What rexmit_for_dup_ack's pops leave.
LEMMA SearchedLeaves ==
    ASSUME NEW nodes \in Seq(Nodes), Sorted(nodes), NEW c, NEW a, NEW rest,
           rest = Searched(nodes, c, a)
    PROVE  /\ rest \in Seq(Nodes) /\ Sorted(rest) /\ On(rest) \subseteq On(nodes)
           /\ \A n \in On(nodes) : n.c_id # c \/ n.p_id - 1 >= a => n \in On(rest)
           /\ rest # <<>> => /\ Head(rest) \in On(nodes)
                             /\ Head(rest).c_id # c \/ Head(rest).p_id - 1 >= a
<1> DEFINE I == {i \in 1..Len(nodes) : nodes[i].c_id # c \/ nodes[i].p_id - 1 >= a}
<1>1. rest = LET first == IF I # {} THEN Min(I) ELSE 0
             IN IF first = 0 THEN <<>> ELSE SubSeq(nodes, first, Len(nodes))
  BY DEF Searched, DownTo, SelectInSeq
<1>2. I \in SUBSET (1..Len(nodes))
  OBVIOUS
<1>3. \A i \in 1..Len(nodes) : nodes[i].c_id # c \/ nodes[i].p_id - 1 >= a <=> i \in I
  OBVIOUS
<1> HIDE DEF I
<1>4. /\ rest \in Seq(Nodes) /\ Sorted(rest) /\ On(rest) \subseteq On(nodes)
      /\ \A i \in I : nodes[i] \in On(rest)
      /\ rest # <<>> => \E i \in I : Head(rest) = nodes[i]
  BY <1>1, <1>2, FromFirst
<1> QED
  BY <1>2, <1>3, <1>4 DEF On

\* The storage that top() reads always has had a node.
LEMMA FrontType ==
    ASSUME TypeOK, NEW nodes \in Seq(Nodes), Heap(nodes)
    PROVE  heap' \in Seq(Nodes) /\ front' \in Conns
<1>1. heap \in Seq(Nodes) /\ front \in Conns
  BY DEF TypeOK
<1>2. \A h \in Seq(Nodes) : h # <<>> => Head(h) \in Nodes /\ Last(h) \in Nodes
  BY DEF Last
<1>3. \A n \in Nodes : n.c_id \in Conns
  BY DEF Nodes
<1> QED
  BY <1>1, <1>2, <1>3 DEF Heap
-----------------------------------------------------------------------------
(* Steps                                                                   *)

\* Every step that is not a stutter is one of these.
LEMMA StepCases ==
    ASSUME Next
    PROVE  /\ died = "no"
           /\ \/ \E t \in Threads, c \in Conns : SendEnter(t, c)
              \/ \E t \in Threads : SendPkt(t) \/ SendAdd(t) \/ SendDone(t)
              \/ \E t \in Threads, c \in Conns, a \in Nat : RunRecv(t, c, a)
              \/ \E t \in Threads : ProcAck(t) \/ DeleteTimer(t) \/ RexmitDupAck(t)
              \/ TimerWakes \/ TimerNoPacket \/ TimerWaits \/ TimerFires
BY TimerHeapAssumption DEF Next

\* The timer is a thread, and there is a lowest descriptor.
LEMMA Constants == Timer \in Threads /\ NoOne \notin Threads /\ Lowest \in Conns
<1>1. Conns \in SUBSET Nat /\ Conns # {}
  BY TimerHeapAssumption
<1>2. Min(Conns) \in Conns
  BY <1>1, MinProperties
<1> QED
  BY <1>2, TimerHeapAssumption DEF Threads, Lowest

\* The types of what a thread has in hand.
LEMMA InHand ==
    ASSUME TypeOK
    PROVE  /\ \A n \in On(heap) : n \in Nodes
           /\ \A n \in Nodes : n.c_id \in Conns /\ n.st \in Conns /\ n.p_id \in Nat
           /\ \A c \in Conns : c \in Nat /\ snd_una[c] \in Nat /\ snd_nxt[c] \in Nat
                               /\ snd_una[c] <= snd_nxt[c]
           /\ \A t \in Threads : conn[t] \in Conns
           /\ ack \in Nat /\ seq \in Nat /\ heap \in Seq(Nodes)
<1>1. \A n \in On(heap) : n \in Nodes
  BY DEF TypeOK, On
<1>2. \A n \in Nodes : n.c_id \in Conns /\ n.st \in Conns /\ n.p_id \in Nat
  BY DEF Nodes
<1> QED
  BY <1>1, <1>2, TimerHeapAssumption DEF TypeOK

\* The heap stays in order, each segment on it once.
LEMMA HeapNext ==
    ASSUME HeapInv, Next
    PROVE  heap' \in Seq(Nodes) /\ Sorted(heap') /\ front' \in Conns
<1>1. /\ TypeOK /\ heap \in Seq(Nodes) /\ Sorted(heap) /\ front \in Conns
  BY DEF HeapInv, TypeOK, NodeInv
<1>2. ASSUME NEW nodes \in Seq(Nodes), Sorted(nodes), Heap(nodes)
      PROVE  heap' \in Seq(Nodes) /\ Sorted(heap') /\ front' \in Conns
  BY <1>1, <1>2, FrontType DEF Heap
<1>3. CASE UNCHANGED <<heap, front>>
  BY <1>1, <1>3
<1>4. ASSUME NEW t \in Threads, SendAdd(t)
      PROVE  heap' \in Seq(Nodes) /\ Sorted(heap') /\ front' \in Conns
  <2> DEFINE node == [c_id |-> conn[t], st |-> socktb, p_id |-> seq + 1, rex |-> FALSE]
  <2>1. node \in Nodes
    BY <1>1, InHand DEF TypeOK, Nodes
  <2>2. pc[t] = "add" /\ Heap(Pushed(heap, node))
    BY <1>4 DEF SendAdd
  <2>3. \A m \in On(heap) : ~(m.c_id = node.c_id /\ m.p_id = node.p_id)
    <3>1. \A m \in On(heap) : m.c_id = conn[t] => m.p_id <= seq /\ m.p_id \in Nat
      BY <1>1, <2>2, InHand DEF HeapInv, NodeInv
    <3> QED
      BY <1>1, <3>1, InHand
  <2> HIDE DEF node
  <2>4. Pushed(heap, node) \in Seq(Nodes) /\ Sorted(Pushed(heap, node))
    BY <1>1, <2>1, <2>3, PushesOne
  <2> QED
    BY <1>2, <2>2, <2>4
<1>5. ASSUME NEW t \in Threads, DeleteTimer(t)
      PROVE  heap' \in Seq(Nodes) /\ Sorted(heap') /\ front' \in Conns
  <2>1. Heap(Deleted(heap, conn[t], ack))
    BY <1>5 DEF DeleteTimer
  <2>2. PICK c, una : c = conn[t] /\ una = ack
    OBVIOUS
  <2>3. Deleted(heap, c, una) \in Seq(Nodes) /\ Sorted(Deleted(heap, c, una))
    BY <1>1, DeletedLeaves
  <2> QED
    BY <1>2, <2>1, <2>2, <2>3
<1>6. ASSUME NEW t \in Threads, RexmitDupAck(t)
      PROVE  heap' \in Seq(Nodes) /\ Sorted(heap') /\ front' \in Conns
  <2>0. PICK c, a, rest : c = conn[t] /\ a = ack /\ rest = Searched(heap, c, a)
    OBVIOUS
  <2>1. Heap(rest) \/ (rest # <<>> /\ Heap(Rexmitted(rest)))
    BY <1>6, <2>0 DEF RexmitDupAck
  <2>2. rest \in Seq(Nodes) /\ Sorted(rest)
    BY <1>1, <2>0, SearchedLeaves
  <2>3. rest # <<>> => Rexmitted(rest) \in Seq(Nodes) /\ Sorted(Rexmitted(rest))
    BY <2>2, RexmittedMarks
  <2> QED
    BY <1>2, <2>1, <2>2, <2>3
<1>7. CASE TimerWaits
  <2>1. Heap(Cleared(heap))
    BY <1>7 DEF TimerWaits
  <2> QED
    BY <1>1, <1>2, <2>1, ClearedLeaves
<1>8. CASE TimerFires
  <2>1. PICK nodes : nodes = Cleared(heap)
    OBVIOUS
  <2>2. nodes # <<>> /\ Heap(Rexmitted(nodes))
    BY <1>8, <2>1 DEF TimerFires
  <2>3. nodes \in Seq(Nodes) /\ Sorted(nodes)
    BY <1>1, <2>1, ClearedLeaves
  <2>4. Rexmitted(nodes) \in Seq(Nodes) /\ Sorted(Rexmitted(nodes))
    BY <2>2, <2>3, RexmittedMarks
  <2> QED
    BY <1>2, <2>2, <2>4
<1>9. CASE \E t \in Threads, c \in Conns : SendEnter(t, c)
  BY <1>3, <1>9 DEF SendEnter
<1>10. CASE \E t \in Threads : SendPkt(t) \/ SendDone(t) \/ ProcAck(t)
  BY <1>3, <1>10 DEF SendPkt, SendDone, ProcAck
<1>11. CASE \E t \in Threads, c \in Conns, a \in Nat : RunRecv(t, c, a)
  BY <1>3, <1>11 DEF RunRecv
<1>12. CASE TimerWakes \/ TimerNoPacket
  BY <1>3, <1>12 DEF TimerWakes, TimerNoPacket
<1> QED
  BY <1>4, <1>5, <1>6, <1>7, <1>8, <1>9, <1>10, <1>11, <1>12, StepCases

\* Types stay, and no number passes snd_nxt: proc_ack updates the connection that
\* it compared with.
LEMMA TypeNext ==
    ASSUME ~Overlap, HeapInv, Next
    PROVE  TypeOK'
<1>1. TypeOK /\ TurnInv /\ NumberInv
  BY DEF HeapInv
<1>2. heap' \in Seq(Nodes) /\ Sorted(heap') /\ front' \in Conns
  BY HeapNext
<1>3. \A i \in 1..(Len(heap') - 1) :
         \/ heap'[i].c_id < heap'[i + 1].c_id
         \/ heap'[i].c_id = heap'[i + 1].c_id /\ heap'[i].p_id < heap'[i + 1].p_id
  <2>1. PICK nodes : nodes = heap'
    OBVIOUS
  <2> QED
    BY <1>2, <2>1, Neighbours
<1> USE Constants
<1>4. /\ front' \in Conns
      /\ snd_una \in [Conns -> Nat] /\ snd_nxt \in [Conns -> Nat]
      /\ \A c \in Conns : snd_una[c] <= snd_nxt[c]
      /\ socktb \in Conns /\ conn \in [Threads -> Conns] /\ stb \in Conns
      /\ runBy \in Threads \cup {NoOne} /\ sendBy \in Threads \cup {NoOne}
      /\ pc \in [Threads -> {"idle", "loop", "add", "send", "ack", "delete", "rexmit",
                             "poll", "fire"}]
      /\ ack \in Nat /\ seq \in Nat /\ mixed \in BOOLEAN
      /\ died \in {"no", "exit", "assert"}
      /\ front \in Conns
  BY <1>1, <1>2 DEF TypeOK
<1>5. ASSUME NEW t \in Threads, NEW c \in Conns, SendEnter(t, c)
      PROVE  TypeOK'
  BY <1>2, <1>3, <1>4, <1>5 DEF SendEnter, Goto, tcb, TypeOK
<1>6. ASSUME NEW t \in Threads, SendPkt(t)
      PROVE  TypeOK'
  <2>1. snd_nxt' \in [Conns -> Nat] /\ \A c \in Conns : snd_una[c] <= snd_nxt'[c]
    BY <1>4, <1>6 DEF SendPkt
  <2>2. seq' \in Nat /\ mixed' \in BOOLEAN
    BY <1>4, <1>6 DEF SendPkt
  <2> QED
    BY <1>2, <1>3, <1>4, <1>6, <2>1, <2>2 DEF SendPkt, Goto, mutexes, TypeOK
<1>7. ASSUME NEW t \in Threads, SendAdd(t)
      PROVE  TypeOK'
  BY <1>2, <1>3, <1>4, <1>7 DEF SendAdd, Goto, tcb, mutexes, TypeOK
<1>8. ASSUME NEW t \in Threads, SendDone(t)
      PROVE  TypeOK'
  BY <1>2, <1>3, <1>4, <1>8 DEF SendDone, Goto, Home, tcb, TypeOK
<1>9. ASSUME NEW t \in Threads, NEW c \in Conns, NEW a \in Nat, RunRecv(t, c, a)
      PROVE  TypeOK'
  BY <1>2, <1>3, <1>4, <1>9 DEF RunRecv, Goto, tcb, TypeOK
<1>10. ASSUME NEW t \in Threads, ProcAck(t)
       PROVE  TypeOK'
  <2>1. pc[t] = "ack" /\ ack <= snd_nxt[socktb]
    BY <1>1, <1>10 DEF ProcAck, TurnInv, NumberInv
  <2>2. snd_una' \in [Conns -> Nat] /\ \A c \in Conns : snd_una'[c] <= snd_nxt[c]
    BY <1>4, <1>10, <2>1 DEF ProcAck
  <2>3. pc' \in [Threads -> {"idle", "loop", "add", "send", "ack", "delete", "rexmit",
                             "poll", "fire"}]
    BY <1>4, <1>10 DEF ProcAck, Goto
  <2> QED
    BY <1>2, <1>3, <1>4, <1>10, <2>2, <2>3 DEF ProcAck, mutexes, TypeOK
<1>11. ASSUME NEW t \in Threads, DeleteTimer(t)
       PROVE  TypeOK'
  <2>1. pc' = pc \/ pc' = [pc EXCEPT ![t] = "send"]
    BY <1>11 DEF DeleteTimer, Goto
  <2>2. died' \in {died, "exit"}
    BY <1>11 DEF DeleteTimer
  <2> QED
    BY <1>2, <1>3, <1>4, <1>11, <2>1, <2>2 DEF DeleteTimer, tcb, mutexes, TypeOK
<1>12. ASSUME NEW t \in Threads, RexmitDupAck(t)
       PROVE  TypeOK'
  <2>1. pc' = pc \/ pc' = [pc EXCEPT ![t] = "send"]
    BY <1>12 DEF RexmitDupAck, Goto
  <2>2. died' \in {died, "exit"}
    BY <1>12 DEF RexmitDupAck
  <2> QED
    BY <1>2, <1>3, <1>4, <1>12, <2>1, <2>2 DEF RexmitDupAck, tcb, mutexes, TypeOK
<1>13. CASE TimerWakes
  BY <1>2, <1>3, <1>4, <1>13 DEF TimerWakes, Goto, tcb, mutexes, TypeOK
<1>14. CASE TimerNoPacket
  BY <1>2, <1>3, <1>4, <1>14 DEF TimerNoPacket, Goto, tcb, mutexes, TypeOK
<1>15. CASE TimerWaits
  BY <1>2, <1>3, <1>4, <1>15 DEF TimerWaits, Goto, tcb, mutexes, TypeOK
<1>16. CASE TimerFires
  <2>1. pc' = pc \/ pc' = [pc EXCEPT ![Timer] = "idle"]
    BY <1>16 DEF TimerFires, Goto
  <2>2. died' \in {died, "assert"}
    BY <1>16 DEF TimerFires
  <2> QED
    BY <1>2, <1>3, <1>4, <1>16, <2>1, <2>2 DEF TimerFires, tcb, mutexes, TypeOK
<1> QED
  BY <1>5, <1>6, <1>7, <1>8, <1>9, <1>10, <1>11, <1>12, <1>13, <1>14, <1>15, <1>16,
     StepCases

\* Without overlap one call is at work at a time: between its steps no other
\* reads or writes socktb.
LEMMA TurnNext ==
    ASSUME ~Overlap, HeapInv, Next
    PROVE  TurnInv'
<1>1. TypeOK /\ TurnInv
  BY DEF HeapInv
<1>2. pc \in [Threads -> {"idle", "loop", "add", "send", "ack", "delete", "rexmit",
                          "poll", "fire"}]
      /\ conn \in [Threads -> Conns]
  BY <1>1 DEF TypeOK
<1> USE Constants DEF TurnInv, SendPcs, RunPcs, Goto
<1>3. ASSUME NEW t \in Threads, NEW c \in Conns, SendEnter(t, c)
      PROVE  TurnInv'
  BY <1>1, <1>2, <1>3 DEF SendEnter
<1>4. ASSUME NEW t \in Threads, SendPkt(t)
      PROVE  TurnInv'
  BY <1>1, <1>2, <1>4 DEF SendPkt, mutexes
<1>5. ASSUME NEW t \in Threads, SendAdd(t)
      PROVE  TurnInv'
  BY <1>1, <1>2, <1>5 DEF SendAdd, mutexes
<1>6. ASSUME NEW t \in Threads, SendDone(t)
      PROVE  TurnInv'
  BY <1>1, <1>2, <1>6 DEF SendDone, Home
<1>7. ASSUME NEW t \in Threads, NEW c \in Conns, NEW a \in Nat, RunRecv(t, c, a)
      PROVE  TurnInv'
  BY <1>1, <1>2, <1>7 DEF RunRecv
<1>8. ASSUME NEW t \in Threads, ProcAck(t)
      PROVE  TurnInv'
  <2>1. pc[t] = "ack" /\ \E l \in {"delete", "rexmit", "send"} : pc' = [pc EXCEPT ![t] = l]
    BY <1>8 DEF ProcAck
  <2>2. UNCHANGED <<socktb, runBy, sendBy, conn, stb>>
    BY <1>8 DEF ProcAck, mutexes
  <2> QED
    BY <1>1, <1>2, <2>1, <2>2
<1>9. ASSUME NEW t \in Threads, DeleteTimer(t) \/ RexmitDupAck(t)
      PROVE  TurnInv'
  <2>1. /\ pc[t] \in {"delete", "rexmit"}
        /\ pc' = pc \/ pc' = [pc EXCEPT ![t] = "send"]
        /\ UNCHANGED <<socktb, runBy, sendBy, conn, stb>>
    BY <1>9 DEF DeleteTimer, RexmitDupAck, mutexes
  <2> QED
    BY <1>1, <1>2, <2>1
<1>10. CASE TimerWakes
  BY <1>1, <1>2, <1>10 DEF TimerWakes, mutexes
<1>11. CASE TimerNoPacket
  BY <1>1, <1>2, <1>11 DEF TimerNoPacket, mutexes
<1>12. CASE TimerWaits \/ TimerFires
  <2>1. /\ pc[Timer] = "fire"
        /\ pc' = pc \/ pc' = [pc EXCEPT ![Timer] = "idle"]
        /\ UNCHANGED <<socktb, runBy, sendBy, conn, stb>>
    BY <1>12 DEF TimerWaits, TimerFires, mutexes
  <2> QED
    BY <1>1, <1>2, <2>1
<1> QED
  BY <1>3, <1>4, <1>5, <1>6, <1>7, <1>8, <1>9, <1>10, <1>11, <1>12, StepCases

\* What is in hand keeps its relation to the connection's numbers.
LEMMA NumberNext ==
    ASSUME ~Overlap, HeapInv, Next
    PROVE  NumberInv'
<1>1. TypeOK /\ TurnInv /\ NumberInv
  BY DEF HeapInv
<1>2. /\ pc \in [Threads -> {"idle", "loop", "add", "send", "ack", "delete", "rexmit",
                             "poll", "fire"}]
      /\ conn \in [Threads -> Conns]
      /\ snd_una \in [Conns -> Nat] /\ snd_nxt \in [Conns -> Nat]
      /\ \A c \in Conns : snd_una[c] <= snd_nxt[c]
      /\ ack \in Nat /\ seq \in Nat
  BY <1>1 DEF TypeOK
<1>3. \A t \in Threads : /\ pc[t] \in SendPcs => sendBy = t
                         /\ pc[t] \in RunPcs => runBy = t
  BY <1>1 DEF TurnInv
<1> USE Constants DEF NumberInv, SendPcs, RunPcs, Goto
<1>4. ASSUME NEW t \in Threads, NEW c \in Conns, SendEnter(t, c)
      PROVE  NumberInv'
  BY <1>1, <1>2, <1>4 DEF SendEnter, tcb
<1>5. ASSUME NEW t \in Threads, SendPkt(t)
      PROVE  NumberInv'
  <2>1. /\ pc[t] = "loop" /\ socktb = conn[t] /\ socktb \in Conns
        /\ seq' = snd_nxt[socktb] /\ snd_nxt' = [snd_nxt EXCEPT ![socktb] = @ + 1]
        /\ pc' = [pc EXCEPT ![t] = "add"]
        /\ UNCHANGED <<snd_una, conn, ack>>
    BY <1>1, <1>5 DEF SendPkt, TurnInv, TypeOK
  <2>2. \A u \in Threads : pc'[u] = "add" => u = t
    BY <1>2, <1>3, <2>1
  <2>3. \A u \in Threads : pc'[u] # "add" => pc'[u] = pc[u]
    BY <1>2, <2>1
  <2>4. \A c \in Conns : snd_nxt[c] <= snd_nxt'[c]
    BY <1>2, <2>1
  <2>5. \A u \in Threads : pc'[u] \in {"ack", "delete", "rexmit"} => ack' <= snd_nxt'[conn'[u]]
    BY <1>1, <1>2, <2>1, <2>3, <2>4
  <2> QED
    BY <1>1, <1>2, <2>1, <2>2, <2>3, <2>5
<1>6. ASSUME NEW t \in Threads, SendAdd(t)
      PROVE  NumberInv'
  <2>1. /\ pc[t] = "add" /\ pc' = [pc EXCEPT ![t] = "loop"]
        /\ UNCHANGED <<snd_una, snd_nxt, conn, ack>>
    BY <1>6 DEF SendAdd, tcb
  <2>2. \A u \in Threads : pc'[u] # "add"
    BY <1>2, <1>3, <2>1
  <2> QED
    BY <1>1, <1>2, <2>1, <2>2
<1>7. ASSUME NEW t \in Threads, SendDone(t)
      PROVE  NumberInv'
  <2>1. /\ pc[t] = "loop" /\ pc'[t] \in {"idle", "poll"}
        /\ \A u \in Threads \ {t} : pc'[u] = pc[u]
        /\ UNCHANGED <<snd_una, snd_nxt, conn, seq>>
        /\ ack' = IF runBy = t THEN 0 ELSE ack
    BY <1>2, <1>7 DEF SendDone, Home, tcb
  <2>2. runBy = t => \A u \in Threads : pc'[u] \notin {"ack", "delete", "rexmit"}
    BY <1>2, <1>3, <2>1
  <2> QED
    BY <1>1, <1>2, <2>1, <2>2
<1>8. ASSUME NEW t \in Threads, NEW c \in Conns, NEW a \in Nat, RunRecv(t, c, a)
      PROVE  NumberInv'
  <2>1. /\ runBy = NoOne /\ a <= snd_nxt[c] /\ ack' = a
        /\ conn' = [conn EXCEPT ![t] = c] /\ pc' = [pc EXCEPT ![t] = "ack"]
        /\ pc[t] \in {"idle", "poll"}
        /\ UNCHANGED <<snd_una, snd_nxt, seq>>
    BY <1>8 DEF RunRecv, tcb
  <2>2. \A u \in Threads : pc'[u] \in {"ack", "delete", "rexmit"} => u = t
    BY <1>2, <1>3, <2>1
  <2>3. pc'[t] = "ack" /\ conn'[t] = c
    BY <1>2, <2>1
  <2>4. \A u \in Threads : pc'[u] = "add" => pc[u] = "add" /\ conn'[u] = conn[u]
    BY <1>2, <2>1
  <2> QED
    BY <1>1, <1>2, <2>1, <2>2, <2>3, <2>4
<1>9. ASSUME NEW t \in Threads, ProcAck(t)
      PROVE  NumberInv'
  <2>1. /\ pc[t] = "ack" /\ socktb = conn[t] /\ stb = conn[t] /\ runBy = t
        /\ ack <= snd_nxt[conn[t]]
    BY <1>1, <1>9 DEF ProcAck, TurnInv
  <2>2. /\ pc' = [pc EXCEPT ![t] = pc'[t]] /\ pc'[t] \in {"delete", "rexmit", "send"}
        /\ UNCHANGED <<snd_nxt, conn, ack, seq>>
    BY <1>2, <1>9 DEF ProcAck
  <2>3. pc'[t] \in {"delete", "rexmit"} => ack = snd_una'[conn[t]]
    BY <1>2, <1>9, <2>1 DEF ProcAck
  <2>4. \A u \in Threads : pc'[u] \in {"ack", "delete", "rexmit"} => u = t
    BY <1>2, <1>3, <2>1, <2>2
  <2>5. \A u \in Threads : pc'[u] # "add"
    BY <1>1, <1>2, <2>1, <2>2 DEF TurnInv
  <2> QED
    BY <1>2, <2>1, <2>2, <2>3, <2>4, <2>5
<1>10. ASSUME NEW t \in Threads, DeleteTimer(t) \/ RexmitDupAck(t)
       PROVE  NumberInv'
  <2>1. /\ pc' = pc \/ pc' = [pc EXCEPT ![t] = "send"]
        /\ UNCHANGED <<snd_una, snd_nxt, conn, ack, seq>>
    BY <1>10 DEF DeleteTimer, RexmitDupAck, tcb
  <2> QED
    BY <1>1, <1>2, <2>1
<1>11. CASE TimerWakes
  BY <1>1, <1>2, <1>11 DEF TimerWakes, tcb
<1>12. CASE TimerNoPacket
  BY <1>1, <1>2, <1>12 DEF TimerNoPacket, tcb
<1>13. CASE TimerWaits \/ TimerFires
  <2>1. /\ pc' = pc \/ pc' = [pc EXCEPT ![Timer] = "idle"]
        /\ UNCHANGED <<snd_una, snd_nxt, conn, ack, seq>>
    BY <1>13 DEF TimerWaits, TimerFires, tcb
  <2> QED
    BY <1>1, <1>2, <2>1
<1> QED
  BY <1>4, <1>5, <1>6, <1>7, <1>8, <1>9, <1>10, <1>11, <1>12, <1>13, StepCases
-----------------------------------------------------------------------------
(* What steps do to the nodes                                              *)

\* Keeps and InFlight, by the set of nodes.
HasAll(c) == \A s \in snd_una[c]..(snd_nxt[c] - 1) :
    \/ \E n \in On(heap) : n.c_id = c /\ n.p_id = s + 1
    \/ \E t \in Threads : pc[t] = "add" /\ conn[t] = c /\ seq = s

Flying(c) == snd_una[c] < snd_nxt[c] \/ \E n \in On(heap) : n.c_id = c

ByNodes == \A c \in Conns : (Keeps(c) <=> HasAll(c)) /\ (InFlight(c) <=> Flying(c))

\* A node is at some place of the heap.
LEMMA NodesOfHeap == TypeOK => ByNodes
<1> SUFFICES ASSUME TypeOK, NEW c \in Conns
             PROVE  (Keeps(c) <=> HasAll(c)) /\ (InFlight(c) <=> Flying(c))
  BY DEF ByNodes
<1>1. DOMAIN heap = 1..Len(heap)
  BY DEF TypeOK
<1> QED
  BY <1>1 DEF Keeps, HasAll, InFlight, Flying, On

\* The same of the next state.
LEMMA NodesOfHeapNext == TypeOK' => ByNodes'
BY NodesOfHeap, PTL

\* The segment in hand and the numbers stay as they are.
Steady ==
    /\ UNCHANGED <<snd_una, snd_nxt, mixed>>
    /\ \A u \in Threads : pc'[u] = "add" <=> pc[u] = "add"
    /\ \A u \in Threads : pc[u] = "add" => conn'[u] = conn[u] /\ seq' = seq
    /\ \A u \in Threads : pc'[u] = "delete" => pc[u] = "delete" /\ conn'[u] = conn[u]

\* A step that leaves the heap alone ...
Quiet == Steady /\ UNCHANGED <<heap, died>>

\* ... and one that takes nodes off it or marks the top one.
Loses ==
    /\ Steady /\ UNCHANGED conn
    /\ \A m \in On(heap') : \E n \in On(heap) :
          /\ SameSegment(m, n)
          /\ m.rex /\ ~mixed => n.rex \/ n.p_id <= snd_una[n.c_id] + 1
    /\ \A n \in On(heap) :
          n.p_id > snd_una[n.c_id] /\ (n.c_id = Lowest \/ ~mixed) =>
             \E m \in On(heap') : SameSegment(m, n)
    /\ ~mixed /\ died' # "no" =>
          \E t \in Threads : /\ pc'[t] = "rexmit"
                             /\ snd_nxt[conn[t]] <= snd_una[conn[t]]
                             /\ \A n \in On(heap') : n.c_id # conn[t]

\* Two nodes are of the same connection, unless two have been in flight.
LEMMA OneConnection ==
    ASSUME HeapInv, ~mixed, NEW m \in On(heap), NEW n \in On(heap)
    PROVE  m.c_id = n.c_id
<1>1. TypeOK /\ m.c_id \in Conns /\ n.c_id \in Conns
  BY InHand DEF HeapInv
<1>2. InFlight(m.c_id) /\ InFlight(n.c_id)
  <2>1. \A c \in Conns : Flying(c) => InFlight(c)
    BY <1>1, NodesOfHeap DEF ByNodes
  <2>2. Flying(m.c_id) /\ Flying(n.c_id)
    BY DEF Flying
  <2> QED
    BY <1>1, <2>1, <2>2
<1> QED
  BY <1>1, <1>2 DEF HeapInv, AloneInv

\* The connection on top of the heap is that of every node that must be kept.
LEMMA TopClears ==
    ASSUME HeapInv, NEW n \in On(heap), n.c_id = Lowest \/ ~mixed
    PROVE  Head(heap).st = n.c_id
<1>1. TypeOK /\ heap \in Seq(Nodes) /\ heap # <<>> /\ Sorted(heap)
  BY DEF HeapInv, TypeOK, NodeInv, On
<1>2. /\ Head(heap) \in On(heap)
      /\ On(heap) = On(Tail(heap)) \cup {Head(heap)}
      /\ \A m \in On(Tail(heap)) : Before(Head(heap), m)
  BY <1>1, TailOfHeap
<1>3. Head(heap).st = Head(heap).c_id
  BY <1>2 DEF HeapInv, NodeInv
<1>4. CASE ~mixed
  BY <1>2, <1>3, <1>4, OneConnection
<1>5. CASE n.c_id = Lowest
  <2>2. Head(heap).c_id \in Conns
    BY <1>1, <1>2, InHand
  <2>1. Head(heap).c_id <= Lowest
    <3>1. Lowest \in Nat /\ Head(heap).c_id \in Nat
      BY <2>2, Constants, TimerHeapAssumption
    <3>2. n = Head(heap) \/ Before(Head(heap), n)
      BY <1>2
    <3> QED
      BY <1>5, <3>1, <3>2 DEF Before
  <2>3. Lowest <= Head(heap).c_id
    <3>1. Conns \in SUBSET Nat /\ Conns # {}
      BY TimerHeapAssumption
    <3> QED
      BY <2>2, <3>1, MinProperties DEF Lowest
  <2>4. Lowest \in Nat /\ Head(heap).c_id \in Nat
    BY <2>2, Constants, TimerHeapAssumption
  <2> QED
    BY <1>3, <1>5, <2>1, <2>3, <2>4
<1> QED
  BY <1>4, <1>5

\* As long as one connection is in flight: the node on top of what is left of the
\* heap, if it is not acknowledged, is the oldest.
LEMMA TopIsOldest ==
    ASSUME HeapInv, ~mixed,
           NEW nodes \in Seq(Nodes), Sorted(nodes), nodes # <<>>,
           On(nodes) \subseteq On(heap),
           NEW c \in Conns, Head(nodes).c_id = c, Head(nodes).p_id > snd_una[c],
           \A n \in On(heap) : n.c_id = c /\ n.p_id > snd_una[c] => n \in On(nodes)
    PROVE  Head(nodes).p_id = snd_una[c] + 1
<1>1. TypeOK /\ snd_una[c] \in Nat /\ snd_nxt[c] \in Nat
  BY InHand DEF HeapInv
<1>2. /\ Head(nodes) \in On(nodes)
      /\ On(nodes) = On(Tail(nodes)) \cup {Head(nodes)}
      /\ \A m \in On(Tail(nodes)) : Before(Head(nodes), m)
  BY TailOfHeap
<1>3. Head(nodes).p_id \in Nat /\ Head(nodes).p_id <= snd_nxt[c]
  BY <1>1, <1>2, InHand DEF HeapInv, NodeInv
<1>4. HasAll(c)
  BY <1>1, NodesOfHeap DEF HeapInv, AloneInv, AllKeep, ByNodes
<1>5. snd_una[c] \in snd_una[c]..(snd_nxt[c] - 1)
  BY <1>1, <1>3
<1>6. \/ \E n \in On(heap) : n.c_id = c /\ n.p_id = snd_una[c] + 1
      \/ \E t \in Threads : pc[t] = "add" /\ conn[t] = c /\ seq = snd_una[c]
  BY <1>4, <1>5 DEF HasAll
<1>7. ASSUME NEW n \in On(heap), n.c_id = c, n.p_id = snd_una[c] + 1
      PROVE  Head(nodes).p_id <= snd_una[c] + 1
  <2>1. n \in On(nodes)
    BY <1>1, <1>7
  <2>2. n = Head(nodes) \/ Before(Head(nodes), n)
    BY <1>2, <2>1
  <2>3. c \in Nat
    BY TimerHeapAssumption
  <2> QED
    BY <1>1, <1>3, <1>7, <2>2, <2>3 DEF Before
<1>8. ASSUME NEW t \in Threads, pc[t] = "add", conn[t] = c, seq = snd_una[c]
      PROVE  FALSE
  <2>1. Head(nodes).p_id <= snd_una[c]
    BY <1>2, <1>8 DEF HeapInv, NodeInv
  <2> QED
    BY <1>1, <1>3, <2>1
<1> QED
  BY <1>1, <1>3, <1>6, <1>7, <1>8

\* delete_timer takes away the acknowledged nodes, and those of no other
\* connection.
LEMMA DeleteLoses ==
    ASSUME HeapInv, died = "no", NEW t \in Threads, DeleteTimer(t)
    PROVE  Loses
<1>1. PICK c, una, rest : c = conn[t] /\ una = ack /\ rest = FromNumber(heap, c, una)
  OBVIOUS
<1>2. /\ TypeOK /\ heap \in Seq(Nodes) /\ Sorted(heap)
      /\ c \in Conns /\ una = snd_una[c] /\ una \in Nat /\ pc[t] = "delete"
  BY <1>1, InHand DEF HeapInv, NumberInv, NodeInv, DeleteTimer
<1>3. /\ heap' = Deleted(heap, c, una)
      /\ pc' = pc \/ pc' = [pc EXCEPT ![t] = "send"]
      /\ UNCHANGED <<snd_una, snd_nxt, mixed, conn, seq>>
      /\ died' # "no" => rest # <<>> /\ Head(rest).c_id # c
  BY <1>1 DEF DeleteTimer, Heap, Goto, tcb
<1>4. /\ rest # <<>> => Head(rest) \in On(heap)
      /\ On(heap') \subseteq On(heap)
      /\ \A n \in On(heap) : n.c_id # c \/ (n.p_id >= una /\ n.p_id # una) => n \in On(heap')
  BY <1>1, <1>2, <1>3, DeletedLeaves
<1>5. Steady
  <2>1. pc \in [Threads -> {"idle", "loop", "add", "send", "ack", "delete", "rexmit",
                            "poll", "fire"}]
    BY <1>2 DEF TypeOK
  <2> QED
    BY <1>2, <1>3, <2>1 DEF Steady
<1>6. \A m \in On(heap) : SameSegment(m, m) /\ m.p_id \in Nat
  BY <1>2, InHand DEF SameSegment
<1>7. \A n \in On(heap) : n.p_id > snd_una[n.c_id] => n \in On(heap')
  <2> TAKE n \in On(heap)
  <2>1. CASE n.c_id # c
    BY <1>4, <2>1
  <2>2. CASE n.c_id = c
    BY <1>2, <1>4, <1>6, <2>2
  <2> QED
    BY <2>1, <2>2
<1>8. ~mixed => died' = "no"
  <2>1. ~mixed => \A n \in On(heap) : n.c_id = c
    BY <1>1, <1>2 DEF HeapInv, AloneInv
  <2> QED
    BY <1>3, <1>4, <2>1
<1> QED
  BY <1>3, <1>4, <1>5, <1>6, <1>7, <1>8 DEF Loses

\* rexmit_for_dup_ack marks the oldest of its connection, and finds it, if there is
\* one, as long as no other was in flight.
LEMMA RexmitLoses ==
    ASSUME HeapInv, died = "no", NEW t \in Threads, RexmitDupAck(t)
    PROVE  Loses
<1>1. PICK c, a, rest : c = conn[t] /\ a = ack /\ rest = Searched(heap, c, a)
  OBVIOUS
<1>2. /\ TypeOK /\ heap \in Seq(Nodes) /\ Sorted(heap)
      /\ c \in Conns /\ a = snd_una[c] /\ a \in Nat /\ pc[t] = "rexmit"
      /\ snd_nxt[c] \in Nat
  BY <1>1, InHand DEF HeapInv, NumberInv, NodeInv, RexmitDupAck
<1> DEFINE mine == rest # <<>> /\ Head(rest).c_id = c /\ Head(rest).p_id - 1 = a
<1>3. /\ heap' = IF mine THEN Rexmitted(rest) ELSE rest
      /\ pc' = pc \/ pc' = [pc EXCEPT ![t] = "send"]
      /\ UNCHANGED <<snd_una, snd_nxt, mixed, conn, seq>>
      /\ died' # "no" => rest # <<>> /\ ~mine /\ pc' = pc
  BY <1>1 DEF RexmitDupAck, Heap, Goto, tcb
<1> HIDE DEF mine
<1>4. /\ rest \in Seq(Nodes) /\ Sorted(rest) /\ On(rest) \subseteq On(heap)
      /\ \A n \in On(heap) : n.c_id # c \/ n.p_id - 1 >= a => n \in On(rest)
      /\ rest # <<>> => /\ Head(rest) \in On(heap)
                        /\ Head(rest).c_id # c \/ Head(rest).p_id - 1 >= a
  BY <1>1, <1>2, SearchedLeaves
<1>5. Steady
  <2>1. pc \in [Threads -> {"idle", "loop", "add", "send", "ack", "delete", "rexmit",
                            "poll", "fire"}]
    BY <1>2 DEF TypeOK
  <2> QED
    BY <1>2, <1>3, <2>1 DEF Steady
<1>6. \A m \in On(heap) : SameSegment(m, m) /\ m.p_id \in Nat
  BY <1>2, InHand DEF SameSegment
<1>7. \A n \in On(heap) : n.p_id > snd_una[n.c_id] => n \in On(rest)
  <2> TAKE n \in On(heap)
  <2>1. CASE n.c_id # c
    BY <1>4, <2>1
  <2>2. CASE n.c_id = c
    BY <1>2, <1>4, <1>6, <2>2
  <2> QED
    BY <2>1, <2>2
<1>8. CASE mine
  <2>1. rest # <<>> /\ Head(rest).c_id = c /\ Head(rest).p_id <= snd_una[c] + 1
    BY <1>2, <1>4, <1>6, <1>8 DEF mine
  <2>2. heap' = Rexmitted(rest) /\ died' = "no"
    BY <1>3, <1>8
  <2>3. /\ \A m \in On(heap') : \E n \in On(rest) :
              SameSegment(m, n) /\ (m.rex => n.rex \/ n = Head(rest))
        /\ \A n \in On(rest) : \E m \in On(heap') : SameSegment(m, n)
    BY <1>4, <2>1, <2>2, RexmittedMarks
  <2>4. \A m \in On(heap') : \E n \in On(heap) :
           SameSegment(m, n) /\ (m.rex => n.rex \/ n.p_id <= snd_una[n.c_id] + 1)
    BY <1>4, <2>1, <2>3
  <2> QED
    BY <1>3, <1>5, <1>7, <2>2, <2>3, <2>4 DEF Loses
<1>9. CASE ~mine
  <2>1. heap' = rest
    BY <1>3, <1>9
  <2>2. ASSUME ~mixed, died' # "no"
        PROVE  snd_nxt[c] <= snd_una[c] /\ \A n \in On(heap') : n.c_id # c
    <3>1. Head(rest) \in On(heap) /\ rest # <<>>
      BY <1>3, <1>4, <2>2
    <3>2. Head(rest).c_id # c
      <4> SUFFICES ASSUME Head(rest).c_id = c
                   PROVE  FALSE
        OBVIOUS
      <4>1. Head(rest).p_id > snd_una[c]
        BY <1>2, <1>4, <1>6, <3>1
      <4>2. Head(rest).p_id = snd_una[c] + 1
        BY <1>2, <1>4, <1>7, <2>2, <3>1, <4>1, TopIsOldest
      <4> QED
        BY <1>2, <1>9, <3>1, <4>2 DEF mine
    <3>3. \A n \in On(heap) : n.c_id # c
      BY <2>2, <3>1, <3>2, OneConnection
    <3>4. ~Flying(c)
      <4>1. Head(rest).c_id \in Conns /\ Flying(Head(rest).c_id)
        BY <1>2, <3>1, InHand DEF Flying
      <4>2. Flying(c) => Head(rest).c_id = c
        <5>1. \A d \in Conns : InFlight(d) <=> Flying(d)
          BY <1>2, NodesOfHeap DEF ByNodes
        <5> QED
          BY <1>2, <2>2, <4>1, <5>1 DEF HeapInv, AloneInv
      <4> QED
        BY <3>2, <4>2
    <3>5. snd_nxt[c] <= snd_una[c]
      BY <1>2, <3>4 DEF Flying
    <3> QED
      BY <1>4, <2>1, <3>3, <3>5
  <2>3. ~mixed /\ died' # "no" =>
           \E u \in Threads : /\ pc'[u] = "rexmit" /\ snd_nxt[conn[u]] <= snd_una[conn[u]]
                              /\ \A n \in On(heap') : n.c_id # conn[u]
    BY <1>1, <1>2, <1>3, <2>2
  <2> QED
    BY <1>3, <1>4, <1>5, <1>6, <1>7, <2>1, <2>3 DEF Loses
<1> QED
  BY <1>8, <1>9

\* The timer's clean-up takes away acknowledged nodes only, if there is but one
\* connection, and of the lowest one in any case.
LEMMA WaitLoses ==
    ASSUME HeapInv, died = "no", TimerWaits
    PROVE  Loses
<1>1. TypeOK /\ heap \in Seq(Nodes) /\ Sorted(heap)
  BY InHand DEF HeapInv, NodeInv
<1>2. /\ heap' = Cleared(heap) /\ pc[Timer] = "fire" /\ pc' = [pc EXCEPT ![Timer] = "idle"]
      /\ UNCHANGED <<snd_una, snd_nxt, mixed, conn, seq, died>>
  BY DEF TimerWaits, Heap, Goto, tcb
<1>3. /\ On(heap') \subseteq On(heap)
      /\ \A n \in On(heap) : n.p_id > snd_una[Head(heap).st] => n \in On(heap')
  BY <1>1, <1>2, ClearedLeaves
<1>4. Steady
  <2>1. pc \in [Threads -> {"idle", "loop", "add", "send", "ack", "delete", "rexmit",
                            "poll", "fire"}]
    BY <1>1 DEF TypeOK
  <2> QED
    BY <1>2, <2>1, Constants DEF Steady
<1>5. \A m \in On(heap) : SameSegment(m, m)
  BY DEF SameSegment
<1>6. \A n \in On(heap) :
         n.p_id > snd_una[n.c_id] /\ (n.c_id = Lowest \/ ~mixed) => n \in On(heap')
  BY <1>3, TopClears
<1> QED
  BY <1>2, <1>3, <1>4, <1>5, <1>6 DEF Loses

\* What the timer sends again is the oldest of the one connection, so that
\* postpone_timer meets no other node that was sent again.
LEMMA FireLoses ==
    ASSUME HeapInv, died = "no", TimerFires
    PROVE  Loses
<1>1. TypeOK /\ heap \in Seq(Nodes) /\ Sorted(heap)
  BY InHand DEF HeapInv, NodeInv
<1>2. PICK nodes : nodes = Cleared(heap)
  OBVIOUS
<1>3. /\ nodes # <<>> /\ heap' = Rexmitted(nodes)
      /\ pc[Timer] = "fire"
      /\ pc' = pc \/ pc' = [pc EXCEPT ![Timer] = "idle"]
      /\ UNCHANGED <<snd_una, snd_nxt, mixed, conn, seq>>
      /\ died' # "no" => \E i \in DOMAIN nodes : /\ nodes[i].c_id = Head(nodes).c_id
                                                 /\ nodes[i].p_id > Head(nodes).p_id
                                                 /\ nodes[i].rex
  BY <1>2 DEF TimerFires, Heap, Goto, tcb
<1>4. /\ nodes \in Seq(Nodes) /\ Sorted(nodes) /\ On(nodes) \subseteq On(heap)
      /\ \A n \in On(heap) : n.p_id > snd_una[Head(heap).st] => n \in On(nodes)
      /\ Head(nodes).p_id > snd_una[Head(heap).st]
  BY <1>1, <1>2, <1>3, ClearedLeaves
<1>5. /\ \A m \in On(heap') : \E n \in On(nodes) :
            SameSegment(m, n) /\ (m.rex => n.rex \/ n = Head(nodes))
      /\ \A n \in On(nodes) : \E m \in On(heap') : SameSegment(m, n)
  BY <1>3, <1>4, RexmittedMarks
<1>6. Steady
  <2>1. pc \in [Threads -> {"idle", "loop", "add", "send", "ack", "delete", "rexmit",
                            "poll", "fire"}]
    BY <1>1 DEF TypeOK
  <2> QED
    BY <1>3, <2>1, Constants DEF Steady
<1>7. \A n \in On(heap) :
         n.p_id > snd_una[n.c_id] /\ (n.c_id = Lowest \/ ~mixed) => n \in On(nodes)
  BY <1>4, TopClears
<1>8. Head(nodes) \in On(nodes) /\ Head(nodes) \in On(heap)
  BY <1>3, <1>4, TailOfHeap
<1>9. ASSUME ~mixed
      PROVE  Head(nodes).p_id = snd_una[Head(nodes).c_id] + 1
  <2>1. PICK c : c = Head(nodes).c_id
    OBVIOUS
  <2>2. Head(heap).st = c /\ c \in Conns
    BY <1>1, <1>8, <1>9, <2>1, TopClears, InHand
  <2>3. Head(nodes).p_id > snd_una[c]
    BY <1>4, <2>2
  <2> QED
    BY <1>3, <1>4, <1>7, <1>9, <2>1, <2>2, <2>3, TopIsOldest
<1>10. ~mixed => died' = "no"
  <2> SUFFICES ASSUME ~mixed, NEW i \in DOMAIN nodes, nodes[i].c_id = Head(nodes).c_id,
                      nodes[i].p_id > Head(nodes).p_id, nodes[i].rex
               PROVE  FALSE
    BY <1>3
  <2>1. nodes[i] \in On(heap)
    <3>1. i \in 1..Len(nodes)
      BY <1>4
    <3> QED
      BY <1>4, <3>1 DEF On
  <2>2. nodes[i].p_id <= snd_una[nodes[i].c_id] + 1
    BY <2>1 DEF HeapInv, AloneInv
  <2>3. nodes[i].p_id \in Nat /\ snd_una[nodes[i].c_id] \in Nat
    BY <1>1, <2>1, InHand
  <2> QED
    BY <1>9, <2>2, <2>3
<1>11. \A m \in On(heap') : \E n \in On(heap) :
          /\ SameSegment(m, n)
          /\ m.rex /\ ~mixed => n.rex \/ n.p_id <= snd_una[n.c_id] + 1
  <2>1. ~mixed => Head(nodes).p_id <= snd_una[Head(nodes).c_id] + 1
    <3>1. snd_una[Head(nodes).c_id] \in Nat
      BY <1>1, <1>8, InHand
    <3> QED
      BY <1>9, <3>1
  <2> QED
    BY <1>4, <1>5, <2>1
<1> QED
  BY <1>3, <1>5, <1>6, <1>7, <1>10, <1>11 DEF Loses

\* So a step is one of these.
LEMMA HeapCases ==
    ASSUME ~Overlap, HeapInv, Next
    PROVE  /\ died = "no"
           /\ \/ Quiet \/ Loses
              \/ \E t \in Threads : SendPkt(t) \/ SendAdd(t) \/ ProcAck(t)
<1>1. TypeOK /\ TurnInv
  BY DEF HeapInv
<1>2. /\ pc \in [Threads -> {"idle", "loop", "add", "send", "ack", "delete", "rexmit",
                             "poll", "fire"}]
      /\ conn \in [Threads -> Conns]
  BY <1>1 DEF TypeOK
<1> USE Constants DEF Quiet, Steady
<1>3. ASSUME NEW t \in Threads, NEW c \in Conns, SendEnter(t, c)
      PROVE  Quiet
  <2>1. pc[t] \in {"idle", "send"} /\ pc' = [pc EXCEPT ![t] = "loop"]
        /\ conn' = [conn EXCEPT ![t] = c]
    BY <1>3 DEF SendEnter, Goto
  <2> QED
    BY <1>2, <1>3, <2>1 DEF SendEnter, tcb
<1>4. ASSUME NEW t \in Threads, SendDone(t)
      PROVE  Quiet
  <2>1. pc[t] = "loop" /\ \E l \in {"idle", "poll"} : pc' = [pc EXCEPT ![t] = l]
    BY <1>4 DEF SendDone, Goto, Home
  <2> QED
    BY <1>2, <1>4, <2>1 DEF SendDone, tcb
<1>5. ASSUME NEW t \in Threads, NEW c \in Conns, NEW a \in Nat, RunRecv(t, c, a)
      PROVE  Quiet
  <2>1. pc[t] \in {"idle", "poll"} /\ pc' = [pc EXCEPT ![t] = "ack"]
        /\ conn' = [conn EXCEPT ![t] = c]
    BY <1>5 DEF RunRecv, Goto
  <2> QED
    BY <1>2, <1>5, <2>1 DEF RunRecv, tcb
<1>6. ASSUME TimerWakes
      PROVE  Quiet
  BY <1>2, <1>6 DEF TimerWakes, Goto, tcb
<1>7. ASSUME TimerNoPacket
      PROVE  Quiet
  BY <1>2, <1>7 DEF TimerNoPacket, Goto, tcb
<1>8. died = "no"
  BY StepCases
<1> QED
  BY <1>3, <1>4, <1>5, <1>6, <1>7, <1>8, StepCases, DeleteLoses, RexmitLoses, WaitLoses,
     FireLoses

\* A pushed segment joins the nodes.
LEMMA AddJoins ==
    ASSUME HeapInv, NEW t \in Threads, SendAdd(t)
    PROVE  /\ pc[t] = "add" /\ seq \in Nat
           /\ \E node \in Nodes : /\ node.c_id = conn[t] /\ node.st = conn[t]
                                  /\ node.p_id = seq + 1 /\ node.rex = FALSE
                                  /\ On(heap') = On(heap) \cup {node}
           /\ \A u \in Threads : pc'[u] # "add"
           /\ UNCHANGED <<snd_una, snd_nxt, conn, mixed, died>>
           /\ \A u \in Threads \ {t} : pc'[u] = pc[u]
           /\ pc'[t] = "loop"
<1>1. /\ TypeOK /\ heap \in Seq(Nodes) /\ Sorted(heap) /\ seq \in Nat /\ pc[t] = "add"
      /\ conn[t] \in Conns /\ socktb = conn[t]
  BY InHand DEF HeapInv, NodeInv, TurnInv, SendAdd, SendPcs
<1> DEFINE node == [c_id |-> conn[t], st |-> socktb, p_id |-> seq + 1, rex |-> FALSE]
<1>2. /\ node \in Nodes /\ node.c_id = conn[t] /\ node.st = conn[t]
      /\ node.p_id = seq + 1 /\ node.rex = FALSE
  BY <1>1 DEF Nodes
<1>3. heap' = Pushed(heap, node) /\ pc' = [pc EXCEPT ![t] = "loop"]
      /\ UNCHANGED <<snd_una, snd_nxt, conn, mixed, died>>
  BY DEF SendAdd, Heap, Goto, tcb
<1> HIDE DEF node
<1>4. \A m \in On(heap) : ~(m.c_id = node.c_id /\ m.p_id = node.p_id)
  <2>1. \A m \in On(heap) : m.c_id = conn[t] => m.p_id <= seq /\ m.p_id \in Nat
    BY <1>1, InHand DEF HeapInv, NodeInv
  <2> QED
    BY <1>1, <1>2, <2>1
<1>5. On(heap') = On(heap) \cup {node}
  BY <1>1, <1>2, <1>3, <1>4, PushesOne
<1>6. \A u \in Threads : pc[u] = "add" => u = t
  BY <1>1 DEF HeapInv, TurnInv, SendPcs
<1>7. /\ pc'[t] = "loop" /\ \A u \in Threads \ {t} : pc'[u] = pc[u]
  BY <1>1, <1>3 DEF TypeOK
<1> QED
  BY <1>1, <1>2, <1>3, <1>5, <1>6, <1>7

\* A segment leaves send() and is the one in hand.
LEMMA PktTakes ==
    ASSUME HeapInv, NEW t \in Threads, SendPkt(t)
    PROVE  /\ conn[t] \in Conns /\ pc'[t] = "add" /\ conn' = conn
           /\ snd_nxt' = [snd_nxt EXCEPT ![conn[t]] = @ + 1]
           /\ seq' = snd_nxt[conn[t]]
           /\ UNCHANGED <<heap, snd_una, died>>
           /\ mixed' = (mixed \/ \E d \in Conns \ {conn[t]} : InFlight(d))
           /\ \A u \in Threads : pc[u] # "add"
           /\ \A u \in Threads \ {t} : pc'[u] = pc[u]
<1>1. /\ TypeOK /\ conn[t] \in Conns /\ socktb = conn[t] /\ pc[t] = "loop"
  BY InHand DEF HeapInv, TurnInv, SendPkt, SendPcs
<1>2. \A u \in Threads : pc[u] # "add"
  BY <1>1 DEF HeapInv, TurnInv, SendPcs
<1>3. pc'[t] = "add" /\ \A u \in Threads \ {t} : pc'[u] = pc[u]
  BY <1>1 DEF SendPkt, Goto, TypeOK
<1> QED
  BY <1>1, <1>2, <1>3 DEF SendPkt

\* An acknowledgement raises the number of its own connection.
LEMMA AckRaises ==
    ASSUME ~Overlap, HeapInv, NEW t \in Threads, ProcAck(t)
    PROVE  /\ conn[t] \in Conns /\ ack <= snd_nxt[conn[t]]
           /\ snd_una' = [snd_una EXCEPT ![conn[t]] = IF ack > @ THEN ack ELSE @]
           /\ pc'[t] = "delete" => ack > snd_una[conn[t]]
           /\ UNCHANGED <<heap, snd_nxt, conn, seq, mixed, died>>
           /\ \A u \in Threads : pc[u] # "add" /\ pc'[u] # "add"
           /\ \A u \in Threads \ {t} : pc'[u] = pc[u]
<1>1. /\ TypeOK /\ conn[t] \in Conns /\ ack <= snd_nxt[conn[t]] /\ pc[t] = "ack"
      /\ socktb = conn[t] /\ stb = conn[t] /\ runBy = t
  BY InHand DEF HeapInv, TurnInv, NumberInv, ProcAck, RunPcs
<1>2. snd_una' = [snd_una EXCEPT ![conn[t]] = IF ack > @ THEN ack ELSE @]
  BY <1>1 DEF ProcAck, TypeOK
<1>3. pc'[t] \in {"delete", "rexmit", "send"} /\ \A u \in Threads \ {t} : pc'[u] = pc[u]
  BY <1>1 DEF ProcAck, Goto, TypeOK
<1>4. pc'[t] = "delete" => ack > snd_una[conn[t]]
  BY <1>1 DEF ProcAck, Goto, TypeOK
<1>5. \A u \in Threads : pc[u] # "add"
  <2>1. sendBy \in {NoOne, t} /\ sendBy # t
    BY <1>1, Constants DEF HeapInv, TurnInv, SendPcs
  <2> QED
    BY <2>1, Constants DEF HeapInv, TurnInv, SendPcs
<1>6. UNCHANGED <<heap, snd_nxt, conn, seq, mixed, died>>
  BY DEF ProcAck
<1> QED
  BY <1>1, <1>2, <1>3, <1>4, <1>5, <1>6

\* The nodes stay what they were pushed as: older than snd_nxt, and each with its
\* own connection's table entry.
LEMMA NodeNext ==
    ASSUME ~Overlap, HeapInv, Next
    PROVE  NodeInv'
<1>1. TypeOK /\ NodeInv
  BY DEF HeapInv
<1>2. heap' \in Seq(Nodes) /\ Sorted(heap')
  BY HeapNext
<1>3. \A n \in On(heap) : n.c_id \in Conns /\ n.p_id \in Nat
  BY <1>1, InHand
<1>4. ASSUME Steady,
             \A m \in On(heap') : \E n \in On(heap) : SameSegment(m, n)
      PROVE  NodeInv'
  BY <1>1, <1>2, <1>4 DEF NodeInv, Steady, SameSegment
<1>5. CASE Quiet
  <2>1. \A m \in On(heap') : m \in On(heap) /\ SameSegment(m, m)
    BY <1>5 DEF Quiet, SameSegment
  <2> QED
    BY <1>4, <1>5, <2>1 DEF Quiet
<1>6. CASE Loses
  BY <1>4, <1>6 DEF Loses
<1>7. ASSUME NEW t \in Threads, SendPkt(t)
      PROVE  NodeInv'
  <2>1. /\ conn[t] \in Conns /\ conn' = conn /\ seq' = snd_nxt[conn[t]] /\ heap' = heap
        /\ snd_nxt' = [snd_nxt EXCEPT ![conn[t]] = @ + 1]
        /\ \A u \in Threads : pc'[u] = "add" => u = t
    BY <1>7, PktTakes DEF HeapInv
  <2>2. \A c \in Conns : snd_nxt[c] \in Nat /\ snd_nxt'[c] \in Nat /\ snd_nxt[c] <= snd_nxt'[c]
    <3>1. snd_nxt \in [Conns -> Nat]
      BY <1>1 DEF TypeOK
    <3> QED
      BY <2>1, <3>1
  <2>3. \A n \in On(heap') : n.st = n.c_id /\ n.p_id <= snd_nxt'[n.c_id]
    BY <1>1, <1>3, <2>1, <2>2 DEF NodeInv
  <2>4. \A n \in On(heap') : n.c_id = conn[t] => n.p_id <= seq'
    BY <1>1, <2>1 DEF NodeInv
  <2> QED
    BY <1>2, <2>1, <2>3, <2>4 DEF NodeInv
<1>8. ASSUME NEW t \in Threads, SendAdd(t)
      PROVE  NodeInv'
  <2>1. PICK node \in Nodes : /\ node.c_id = conn[t] /\ node.st = conn[t]
                              /\ node.p_id = seq + 1
                              /\ On(heap') = On(heap) \cup {node}
    BY <1>8, AddJoins
  <2>2. UNCHANGED snd_nxt /\ pc[t] = "add" /\ \A u \in Threads : pc'[u] # "add"
    BY <1>8, AddJoins
  <2>3. snd_nxt[conn[t]] = seq + 1
    BY <2>2 DEF HeapInv, NumberInv
  <2>4. seq + 1 <= seq + 1
    BY <1>1 DEF TypeOK
  <2> QED
    BY <1>1, <1>2, <2>1, <2>2, <2>3, <2>4 DEF NodeInv
<1>9. ASSUME NEW t \in Threads, ProcAck(t)
      PROVE  NodeInv'
  BY <1>1, <1>9, AckRaises DEF NodeInv
<1> QED
  BY <1>5, <1>6, <1>7, <1>8, <1>9, HeapCases

\* A connection that has all it needs goes on having it, if it is the lowest one or
\* the only one in flight.
LEMMA KeepsNext ==
    ASSUME ~Overlap, HeapInv, Next, TypeOK',
           NEW c \in Conns, HasAll(c), c = Lowest \/ ~mixed
    PROVE  HasAll(c)'
<1>1. /\ TypeOK /\ snd_una[c] \in Nat /\ snd_nxt[c] \in Nat
      /\ snd_una'[c] \in Nat /\ snd_nxt'[c] \in Nat
  BY DEF HeapInv, TypeOK
<1>2. \A n \in On(heap) : n.c_id \in Conns /\ n.p_id \in Nat
  BY <1>1, InHand
<1>3. ASSUME Steady,
             \A n \in On(heap) : n.c_id = c /\ n.p_id > snd_una[c] =>
                \E m \in On(heap') : SameSegment(m, n)
      PROVE  HasAll(c)'
  <2> SUFFICES ASSUME NEW s \in snd_una[c]..(snd_nxt[c] - 1)
               PROVE  \/ \E n \in On(heap') : n.c_id = c /\ n.p_id = s + 1
                      \/ \E t \in Threads : pc'[t] = "add" /\ conn'[t] = c /\ seq' = s
    BY <1>3 DEF Steady, HasAll
  <2>1. CASE \E n \in On(heap) : n.c_id = c /\ n.p_id = s + 1
    <3>1. PICK n \in On(heap) : n.c_id = c /\ n.p_id = s + 1
      BY <2>1
    <3>2. n.p_id > snd_una[c]
      BY <1>1, <3>1
    <3> QED
      BY <1>3, <3>1, <3>2 DEF SameSegment
  <2>2. CASE \E t \in Threads : pc[t] = "add" /\ conn[t] = c /\ seq = s
    BY <1>3, <2>2 DEF Steady
  <2> QED
    BY <2>1, <2>2 DEF HasAll
<1>4. CASE Quiet
  <2>1. \A n \in On(heap) : n \in On(heap') /\ SameSegment(n, n)
    BY <1>4 DEF Quiet, SameSegment
  <2> QED
    BY <1>3, <1>4, <2>1 DEF Quiet
<1>5. CASE Loses
  <2>1. \A n \in On(heap) : n.c_id = c /\ n.p_id > snd_una[c] =>
           \E m \in On(heap') : SameSegment(m, n)
    BY <1>5 DEF Loses
  <2> QED
    BY <1>3, <1>5, <2>1 DEF Loses
<1>6. ASSUME NEW t \in Threads, SendPkt(t)
      PROVE  HasAll(c)'
  <2>1. /\ conn[t] \in Conns /\ conn' = conn /\ seq' = snd_nxt[conn[t]]
        /\ UNCHANGED <<heap, snd_una>>
        /\ snd_nxt' = [snd_nxt EXCEPT ![conn[t]] = @ + 1]
        /\ pc'[t] = "add" /\ \A u \in Threads : pc[u] # "add"
    BY <1>6, PktTakes
  <2>2. \A s \in snd_una[c]..(snd_nxt[c] - 1) :
           \E n \in On(heap') : n.c_id = c /\ n.p_id = s + 1
    BY <2>1 DEF HasAll
  <2>3. CASE conn[t] = c
    <3>1. snd_nxt'[c] = snd_nxt[c] + 1
      BY <1>1, <2>1, <2>3 DEF TypeOK
    <3>2. \A s \in snd_una'[c]..(snd_nxt'[c] - 1) :
             s \in snd_una[c]..(snd_nxt[c] - 1) \/ s = snd_nxt[c]
      BY <1>1, <2>1, <3>1
    <3> QED
      BY <2>1, <2>2, <2>3, <3>2 DEF HasAll
  <2>4. CASE conn[t] # c
    <3>1. snd_nxt'[c] = snd_nxt[c] /\ snd_una'[c] = snd_una[c]
      BY <1>1, <2>1, <2>4 DEF TypeOK
    <3> QED
      BY <2>2, <3>1 DEF HasAll
  <2> QED
    BY <2>3, <2>4
<1>7. ASSUME NEW t \in Threads, SendAdd(t)
      PROVE  HasAll(c)'
  <2>1. PICK node \in Nodes : /\ node.c_id = conn[t] /\ node.p_id = seq + 1
                              /\ On(heap') = On(heap) \cup {node}
    BY <1>7, AddJoins
  <2>2. UNCHANGED <<snd_una, snd_nxt>> /\ pc[t] = "add"
    BY <1>7, AddJoins
  <2>3. \A u \in Threads : pc[u] = "add" => u = t
    BY <2>2 DEF HeapInv, TurnInv, SendPcs
  <2> QED
    BY <2>1, <2>2, <2>3 DEF HasAll
<1>8. ASSUME NEW t \in Threads, ProcAck(t)
      PROVE  HasAll(c)'
  <2>1. /\ snd_una' = [snd_una EXCEPT ![conn[t]] = IF ack > @ THEN ack ELSE @]
        /\ UNCHANGED <<heap, snd_nxt>>
        /\ \A u \in Threads : pc[u] # "add"
    BY <1>8, AckRaises
  <2>2. snd_una[c] <= snd_una'[c]
    <3>1. snd_una \in [Conns -> Nat] /\ ack \in Nat
      BY <1>1 DEF TypeOK
    <3> QED
      BY <2>1, <3>1
  <2>3. \A s \in snd_una'[c]..(snd_nxt'[c] - 1) : s \in snd_una[c]..(snd_nxt[c] - 1)
    BY <1>1, <2>1, <2>2
  <2> QED
    BY <2>1, <2>3 DEF HasAll
<1> QED
  BY <1>4, <1>5, <1>6, <1>7, <1>8, HeapCases

\* One connection alone stays safe: it keeps its nodes, only its oldest is ever
\* sent again, and no search meets another's node.
LEMMA AloneNext ==
    ASSUME ~Overlap, HeapInv, Next, TypeOK'
    PROVE  AloneInv'
<1>1. TypeOK /\ ByNodes /\ ByNodes'
  BY NodesOfHeap, NodesOfHeapNext DEF HeapInv
<1>2. /\ \A n \in On(heap) : n.c_id \in Conns /\ n.p_id \in Nat
      /\ \A c \in Conns : snd_una[c] \in Nat /\ snd_nxt[c] \in Nat
      /\ \A c \in Conns : snd_una'[c] \in Nat /\ snd_nxt'[c] \in Nat
      /\ snd_una \in [Conns -> Nat] /\ snd_nxt \in [Conns -> Nat] /\ ack \in Nat
      /\ \A t \in Threads : conn[t] \in Conns
  BY <1>1, InHand DEF TypeOK
<1>3. mixed \in BOOLEAN /\ died = "no" /\ (mixed => mixed')
  <2>1. \A t \in Threads : /\ SendPkt(t) => (mixed => mixed')
                           /\ SendAdd(t) => mixed' = mixed
                           /\ ProcAck(t) => mixed' = mixed
    BY DEF SendPkt, SendAdd, ProcAck
  <2> QED
    BY <1>1, <2>1, HeapCases DEF TypeOK, Quiet, Loses, Steady
<1> SUFFICES ASSUME ~mixed'
             PROVE  AloneInv'
  BY DEF AloneInv
<1>4. /\ ~mixed
      /\ \A c \in Conns : HasAll(c)
      /\ \A c, d \in Conns : Flying(c) /\ Flying(d) => c = d
      /\ \A t \in Threads : pc[t] = "delete" => \A n \in On(heap) : n.c_id = conn[t]
      /\ \A n \in On(heap) : n.rex => n.p_id <= snd_una[n.c_id] + 1
  BY <1>1, <1>3 DEF HeapInv, AloneInv, AllKeep, ByNodes
<1>5. AllKeep'
  <2>1. \A c \in Conns : HasAll(c)'
    BY <1>4, KeepsNext
  <2> QED
    BY <1>1, <2>1 DEF AllKeep, ByNodes
<1>6. ASSUME \A c, d \in Conns : Flying(c)' /\ Flying(d)' => c = d,
             \A t \in Threads : pc'[t] = "delete" => \A n \in On(heap') : n.c_id = conn'[t],
             \A n \in On(heap') : n.rex => n.p_id <= snd_una'[n.c_id] + 1,
             died' # "no" => \E t \in Threads : /\ pc'[t] = "rexmit" /\ conn'[t] \in Conns
                                                /\ \E c \in Conns : c = conn'[t] /\ ~Flying(c)'
      PROVE  AloneInv'
  <2>1. \A c \in Conns : InFlight(c)' <=> Flying(c)'
    BY <1>1 DEF ByNodes
  <2>2. \A c, d \in Conns : InFlight(c)' /\ InFlight(d)' => c = d
    BY <1>6, <2>1
  <2>3. died' # "no" => \E t \in Threads : pc'[t] = "rexmit" /\ ~InFlight(conn[t])'
    <3> SUFFICES ASSUME died' # "no"
                 PROVE  \E t \in Threads : pc'[t] = "rexmit" /\ ~InFlight(conn[t])'
      OBVIOUS
    <3>1. PICK t \in Threads, c \in Conns : pc'[t] = "rexmit" /\ c = conn'[t] /\ ~Flying(c)'
      BY <1>6
    <3>2. ~InFlight(c)'
      BY <2>1, <3>1
    <3> QED
      BY <3>1, <3>2 DEF InFlight
  <2> QED
    BY <1>5, <1>6, <2>2, <2>3 DEF AloneInv
<1>7. CASE Quiet
  <2>1. UNCHANGED <<heap, snd_una, snd_nxt, died>>
    BY <1>7 DEF Quiet, Steady
  <2>2. \A c \in Conns : Flying(c)' <=> Flying(c)
    BY <2>1 DEF Flying
  <2>3. \A t \in Threads : pc'[t] = "delete" => pc[t] = "delete" /\ conn'[t] = conn[t]
    BY <1>7 DEF Quiet, Steady
  <2> QED
    BY <1>3, <1>4, <1>6, <2>1, <2>2, <2>3
<1>8. CASE Loses
  <2>1. UNCHANGED <<snd_una, snd_nxt, conn>>
    BY <1>8 DEF Loses, Steady
  <2>2. \A m \in On(heap') : \E n \in On(heap) :
           /\ m.c_id = n.c_id /\ m.p_id = n.p_id
           /\ m.rex => n.p_id <= snd_una[n.c_id] + 1
    BY <1>4, <1>8 DEF Loses, SameSegment
  <2>3. \A c \in Conns : Flying(c)' => Flying(c)
    BY <2>1, <2>2 DEF Flying
  <2>4. \A t \in Threads : pc'[t] = "delete" => pc[t] = "delete"
    BY <1>8 DEF Loses, Steady
  <2>5. \A t \in Threads : pc'[t] = "delete" => \A n \in On(heap') : n.c_id = conn'[t]
    BY <1>4, <2>1, <2>2, <2>4
  <2>6. died' # "no" => \E t \in Threads : /\ pc'[t] = "rexmit" /\ conn'[t] \in Conns
                                           /\ \E c \in Conns : c = conn'[t] /\ ~Flying(c)'
    <3> SUFFICES ASSUME died' # "no"
                 PROVE  \E t \in Threads : /\ pc'[t] = "rexmit" /\ conn'[t] \in Conns
                                           /\ \E c \in Conns : c = conn'[t] /\ ~Flying(c)'
      OBVIOUS
    <3>1. PICK t \in Threads : /\ pc'[t] = "rexmit" /\ snd_nxt[conn[t]] <= snd_una[conn[t]]
                               /\ \A n \in On(heap') : n.c_id # conn[t]
      BY <1>4, <1>8 DEF Loses
    <3>2. PICK c \in Conns : c = conn[t]
      BY <1>2
    <3>3. ~Flying(c)'
      BY <1>2, <2>1, <3>1, <3>2 DEF Flying
    <3> QED
      BY <2>1, <3>1, <3>2, <3>3
  <2>7. \A n \in On(heap') : n.rex => n.p_id <= snd_una'[n.c_id] + 1
    BY <2>1, <2>2
  <2> QED
    BY <1>4, <1>6, <2>3, <2>5, <2>6, <2>7
<1>9. ASSUME NEW t \in Threads, SendPkt(t)
      PROVE  AloneInv'
  <2>1. /\ conn[t] \in Conns /\ pc'[t] = "add" /\ conn' = conn
        /\ snd_nxt' = [snd_nxt EXCEPT ![conn[t]] = @ + 1]
        /\ UNCHANGED <<heap, snd_una, died>>
        /\ mixed' = (mixed \/ \E d \in Conns \ {conn[t]} : InFlight(d))
        /\ \A u \in Threads \ {t} : pc'[u] = pc[u]
    BY <1>9, PktTakes
  <2>2. \A d \in Conns : Flying(d) => d = conn[t]
    BY <1>1, <2>1 DEF ByNodes
  <2>3. \A d \in Conns : d # conn[t] => (Flying(d)' <=> Flying(d))
    BY <1>2, <2>1 DEF Flying
  <2>4. \A u \in Threads : pc'[u] = "delete" => pc[u] = "delete"
    BY <2>1
  <2> QED
    BY <1>3, <1>4, <1>6, <2>1, <2>2, <2>3, <2>4
<1>10. ASSUME NEW t \in Threads, SendAdd(t)
       PROVE  AloneInv'
  <2>1. PICK node \in Nodes : /\ node.c_id = conn[t] /\ node.rex = FALSE
                              /\ On(heap') = On(heap) \cup {node}
    BY <1>10, AddJoins
  <2>2. /\ pc[t] = "add" /\ UNCHANGED <<snd_una, snd_nxt, conn, died>>
        /\ \A u \in Threads \ {t} : pc'[u] = pc[u]
        /\ pc'[t] = "loop"
        /\ seq \in Nat
    BY <1>10, AddJoins
  <2>3. Flying(conn[t])
    <3>1. snd_nxt[conn[t]] = seq + 1 /\ snd_una[conn[t]] <= seq
      BY <2>2 DEF HeapInv, NumberInv
    <3> QED
      BY <1>2, <2>2, <3>1 DEF Flying
  <2>4. \A c \in Conns : Flying(c)' => Flying(c)
    BY <2>1, <2>2, <2>3 DEF Flying
  <2>5. \A u \in Threads : pc'[u] # "delete"
    <3>1. sendBy = t /\ t # NoOne
      BY <2>2, Constants DEF HeapInv, TurnInv, SendPcs
    <3>2. \A u \in Threads : pc[u] = "delete" => u = t
      BY <3>1, Constants DEF HeapInv, TurnInv, RunPcs
    <3> QED
      BY <2>2, <3>2
  <2> QED
    BY <1>3, <1>4, <1>6, <2>1, <2>2, <2>4, <2>5
<1>11. ASSUME NEW t \in Threads, ProcAck(t)
       PROVE  AloneInv'
  <2>1. /\ conn[t] \in Conns /\ ack <= snd_nxt[conn[t]]
        /\ snd_una' = [snd_una EXCEPT ![conn[t]] = IF ack > @ THEN ack ELSE @]
        /\ pc'[t] = "delete" => ack > snd_una[conn[t]]
        /\ UNCHANGED <<heap, snd_nxt, conn, died>>
        /\ \A u \in Threads \ {t} : pc'[u] = pc[u]
    BY <1>11, AckRaises
  <2>2. \A c \in Conns : snd_una[c] <= snd_una'[c]
    BY <1>2, <2>1
  <2>3. \A c \in Conns : Flying(c)' => Flying(c)
    BY <1>2, <2>1, <2>2 DEF Flying
  <2>4. pc'[t] = "delete" => \A n \in On(heap) : n.c_id = conn[t]
    <3>1. pc'[t] = "delete" => Flying(conn[t])
      BY <1>2, <2>1 DEF Flying
    <3>2. \A n \in On(heap) : Flying(n.c_id)
      BY DEF Flying
    <3> QED
      BY <1>2, <1>4, <3>1, <3>2
  <2>5. \A u \in Threads : pc'[u] = "delete" => \A n \in On(heap') : n.c_id = conn'[u]
    BY <1>4, <2>1, <2>4
  <2>6. \A n \in On(heap') : n.rex => n.p_id <= snd_una'[n.c_id] + 1
    <3> SUFFICES ASSUME NEW n \in On(heap), n.rex
                 PROVE  n.p_id <= snd_una'[n.c_id] + 1
      BY <2>1
    <3>1. n.p_id <= snd_una[n.c_id] + 1 /\ snd_una[n.c_id] <= snd_una'[n.c_id]
      BY <1>2, <1>4, <2>2
    <3> QED
      BY <1>2, <3>1
  <2> QED
    BY <1>3, <1>4, <1>6, <2>1, <2>3, <2>5, <2>6
<1> QED
  BY <1>7, <1>8, <1>9, <1>10, <1>11, HeapCases

\* The empty heap.
LEMMA HeapInit ==
    ASSUME Init
    PROVE  HeapInv
<1>1. Lowest \in Conns /\ Timer \in Threads /\ NoOne \notin Threads
  BY Constants
<1>2. heap = <<>> /\ Len(heap) = 0 /\ On(heap) = {} /\ Sorted(heap)
  BY DEF Init, On, Sorted
<1>3. TypeOK
  <2>1. heap \in Seq(Nodes) /\ 1..(Len(heap) - 1) = {}
    BY <1>2
  <2>2. \A i \in 1..(Len(heap) - 1) :
           \/ heap[i].c_id < heap[i + 1].c_id
           \/ heap[i].c_id = heap[i + 1].c_id /\ heap[i].p_id < heap[i + 1].p_id
    BY <2>1
  <2>3. /\ snd_una \in [Conns -> Nat] /\ snd_nxt \in [Conns -> Nat]
        /\ \A c \in Conns : snd_una[c] <= snd_nxt[c]
    BY DEF Init
  <2>4. /\ conn \in [Threads -> Conns]
        /\ pc \in [Threads -> {"idle", "loop", "add", "send", "ack", "delete", "rexmit",
                               "poll", "fire"}]
    BY <1>1 DEF Init
  <2> QED
    BY <1>1, <2>1, <2>2, <2>3, <2>4 DEF Init, TypeOK
<1>4. TurnInv /\ NumberInv /\ NodeInv
  BY <1>1, <1>2 DEF Init, TurnInv, NumberInv, NodeInv, SendPcs, RunPcs
<1>5. \A c \in Conns : ~Flying(c) /\ HasAll(c)
  <2>1. \A c \in Conns : ~Flying(c)
    BY <1>2 DEF Init, Flying
  <2>2. \A c \in Conns : snd_una[c] = 1 /\ snd_nxt[c] = 1
    BY DEF Init
  <2>3. \A c \in Conns : snd_una[c]..(snd_nxt[c] - 1) = {}
    BY <2>2
  <2> QED
    BY <2>1, <2>3 DEF HasAll
<1>6. LowestKeeps /\ AllKeep
  BY <1>1, <1>3, <1>5, NodesOfHeap DEF LowestKeeps, AllKeep, ByNodes
<1>7. AloneInv
  <2>1. \A c \in Conns : ~InFlight(c)
    BY <1>3, <1>5, NodesOfHeap DEF ByNodes
  <2>2. died = "no" /\ \A t \in Threads : pc[t] = "idle"
    BY DEF Init
  <2> QED
    BY <1>2, <1>6, <2>1, <2>2 DEF AloneInv
<1> QED
  BY <1>3, <1>4, <1>6, <1>7 DEF HeapInv

\* The invariant is inductive.
LEMMA HeapKept ==
    ASSUME ~Overlap, HeapInv, [Next]_vars
    PROVE  HeapInv'
<1>1. CASE Next
  <2>1. TypeOK'
    BY <1>1, TypeNext
  <2>2. TurnInv' /\ NumberInv' /\ NodeInv'
    BY <1>1, TurnNext, NumberNext, NodeNext
  <2>3. LowestKeeps'
    <3>1. PICK c \in Conns : c = Lowest
      BY Constants
    <3>2. HasAll(c)
      BY <3>1, NodesOfHeap DEF HeapInv, LowestKeeps, ByNodes
    <3>3. HasAll(c)'
      BY <1>1, <2>1, <3>1, <3>2, KeepsNext
    <3>4. Keeps(c)'
      BY <2>1, <3>3, NodesOfHeapNext DEF ByNodes
    <3>5. Lowest' = Lowest
      BY DEF Lowest
    <3> QED
      BY <3>1, <3>4, <3>5 DEF LowestKeeps, Keeps
  <2>4. AloneInv'
    BY <1>1, <2>1, AloneNext
  <2> QED
    BY <2>1, <2>2, <2>3, <2>4 DEF HeapInv
<1>2. CASE UNCHANGED vars
  BY <1>2 DEF vars, tcb, mutexes, HeapInv, TypeOK, TurnInv, NumberInv, NodeInv, LowestKeeps,
              AloneInv, AllKeep, Keeps, InFlight
<1> QED
  BY <1>1, <1>2
-----------------------------------------------------------------------------
(* Theorem                                                                 *)

\* However many connections share the heap: it is in order and has every segment
\* once, the connection with the lowest descriptor loses no node to another's
\* acknowledgements and timeouts; and as long as one connection at a time has
\* segments in flight nobody does, and the process does not end, but for a third
\* duplicate on a connection with nothing in flight.
THEOREM HeapSafe ==
    ASSUME ~Overlap
    PROVE  Spec => [](TypeOK /\ LowestKeeps /\ AloneIsSafe)
<1>1. Init => HeapInv
  BY HeapInit
<1>2. HeapInv /\ [Next]_vars => HeapInv'
  BY HeapKept
<1>3. HeapInv => TypeOK /\ LowestKeeps /\ AloneIsSafe
  BY DEF HeapInv, AloneInv, AloneIsSafe
<1> QED
  BY <1>1, <1>2, <1>3, PTL DEF Spec
=============================================================================
