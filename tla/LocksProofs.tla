---------------------------- MODULE LocksProofs ----------------------------
(***************************************************************************)
(* The discipline in which the library takes its mutexes, and what follows *)
(* from it: for every number of threads and connections, threads wait for  *)
(* each other in a circle only if two of them are inside run().            *)
(*                                                                         *)
(* What a thread has left to do is a path: a sequence of sets of mutexes,  *)
(* the first of which it holds now and the last of which is empty, where   *)
(* each step is legal in the set before it and leads to the one after.     *)
(* Paths are put together like the sequences of Locks are.                 *)
(***************************************************************************)
EXTENDS Locks, TLAPS

(***************************************************************************)
(* The discipline.  Leaves are never kept.  Inner mutexes are kept inside  *)
(* run() only.  Outer ones are taken in the order of their rank, and while *)
(* no inner one is kept, but for ack_deque_mtx, which ack_mtx protects.    *)
(* run_t_mtx is tried and never waited for.                                *)
(***************************************************************************)
Leaf == {"stbq_mutex", "sscamutex", "cb_send", "cb_recv"}
Inner == {"stb_mtx", "stb_tc_ack_mtx", "stb_minhp_recv_mtx", "stb_cb_recv_mtx"}
First == {"socktabmutex1", "send_mtx", "ack_mtx"}
Second == {"timer_heap_mtx", "ack_deque_mtx"}

AckMtx == Of("ack_mtx")
AckDequeMtx == Of("ack_deque_mtx")
RunMtx(p) == <<"run_t_mtx", p>>

\* What a thread may keep.
Kept(A) ==
    /\ A \subseteq Mutexes
    /\ \A m \in A : m[1] \notin Leaf
    /\ (\E m \in A : m[1] \in Inner) => \E p \in 1 .. MaxTou : RunMtx(p) \in A
    /\ AckDequeMtx \in A => AckMtx \in A

\* What a thread that keeps A may wait for.
Wanted(A, m) ==
    /\ m \in Mutexes /\ m \notin A
    /\ m[1] # "run_t_mtx"
    /\ m[1] \in First => \A n \in A : n[1] \notin First
    /\ m[1] \in First \cup Second =>
          /\ \A n \in A : n[1] \notin Second
          /\ \/ \A n \in A : n[1] \notin Inner
             \/ m = AckDequeMtx /\ AckMtx \in A

\* Where each function is called: what its caller keeps.
Running(A) == \E q \in 1 .. MaxTou : A = {RunMtx(q)}

Called(A, on) ==
    \/ \E p \in 1 .. MaxTou, c \in Conns : on = <<"send", p, c>> /\ (A = {} \/ Running(A))
    \/ \E f \in {"judged", "more"}, p \in 1 .. MaxTou, c \in Conns :
          on = <<f, p, c>> /\ Running(A)
    \/ \E f \in {"proc_delack", "proc_pkt_rec"}, c \in Conns : on = <<f, 0, c>> /\ Running(A)
    \/ \E f \in {"timer proc_delack", "recv and rexmit", "proc_sndpkt"} :
          on = <<f, 0, 0>> /\ A = {}
    \/ on = <<"proc_delack_xmit", 0, 0>> /\ A = {AckMtx, AckDequeMtx}

\* Step s is allowed to a thread that keeps A, which keeps B afterwards.
Legal(A, s, B) ==
    \/ s.do = "use" /\ Wanted(A, s.on) /\ B = A
    \/ s.do = "take" /\ Wanted(A, s.on) /\ B = A \cup {s.on}
    \/ s.do = "drop" /\ s.on \in A /\ B = A \ {s.on}
    \/ s.do = "call" /\ Called(A, s.on) /\ B = A
    \/ s.do \in {"ptou->send", "ptou->run"} /\ (\E c \in Conns : s.on = <<c>>) /\ A = {} /\ B = A
    \/ s.do = "ptou=" /\ A = {} /\ B = A

Calling == {"send", "judged", "more", "proc_delack", "proc_pkt_rec", "timer proc_delack",
            "recv and rexmit", "proc_sndpkt", "proc_delack_xmit"}

Steps == [do : {"use", "take", "drop", "call", "ptou->send", "ptou->run", "ptou="},
          on : Mutexes \cup (Calling \X ({0} \cup (1 .. MaxTou)) \X (Conns \cup {0}))
               \cup {<<c>> : c \in Conns} \cup {<<>>}]

Walk(A, s, B, h) ==
    /\ h \in [0 .. Len(s) -> SUBSET Mutexes]
    /\ h[0] = A /\ h[Len(s)] = B
    /\ \A i \in 0 .. Len(s) : Kept(h[i])
    /\ \A i \in 1 .. Len(s) : Legal(h[i - 1], s[i], h[i])

\* s leads a thread from keeping A to keeping B.
Path(A, s, B) == s \in Seq(Steps) /\ \E h : Walk(A, s, B, h)

LEMMA PathEmpty ==
    ASSUME NEW A, Kept(A)
    PROVE  Path(A, <<>>, A)
<1> DEFINE h == [i \in 0 .. Len(<<>>) |-> A]
<1>1. Walk(A, <<>>, A, h)
  BY DEF Walk, Kept
<1> QED
  BY <1>1 DEF Path

LEMMA PathOne ==
    ASSUME NEW A, NEW B, NEW s \in Steps, Kept(A), Kept(B), Legal(A, s, B)
    PROVE  Path(A, <<s>>, B)
<1> DEFINE h == [i \in 0 .. 1 |-> IF i = 0 THEN A ELSE B]
<1>1. Len(<<s>>) = 1 /\ <<s>>[1] = s /\ <<s>> \in Seq(Steps)
  OBVIOUS
<1>2. h \in [0 .. 1 -> SUBSET Mutexes] /\ h[0] = A /\ h[1] = B
  BY DEF Kept
<1> HIDE DEF h
<1>3. Walk(A, <<s>>, B, h)
  BY <1>1, <1>2 DEF Walk
<1> QED
  BY <1>1, <1>3 DEF Path

\* Paths that meet are one path.
LEMMA PathJoined ==
    ASSUME NEW A, NEW B, NEW C, NEW s, NEW r, Path(A, s, B), Path(B, r, C)
    PROVE  Path(A, s \o r, C)
<1>1. PICK h : Walk(A, s, B, h)
  BY DEF Path
<1>2. PICK g : Walk(B, r, C, g)
  BY DEF Path
<1>3. s \in Seq(Steps) /\ r \in Seq(Steps) /\ Len(s) \in Nat /\ Len(r) \in Nat
  BY DEF Path
<1> DEFINE n == Len(s)
           k == [i \in 0 .. (n + Len(r)) |-> IF i <= n THEN h[i] ELSE g[i - n]]
<1>4. /\ s \o r \in Seq(Steps) /\ Len(s \o r) = n + Len(r)
      /\ \A i \in 1 .. n : (s \o r)[i] = s[i]
      /\ \A i \in (n + 1) .. (n + Len(r)) : (s \o r)[i] = r[i - n]
  BY <1>3
<1>5. /\ \A i \in 0 .. n : k[i] = h[i]
      /\ \A i \in n .. (n + Len(r)) : k[i] = g[i - n]
  BY <1>1, <1>2, <1>3 DEF Walk
<1>6. k \in [0 .. (n + Len(r)) -> SUBSET Mutexes]
  BY <1>1, <1>2, <1>3 DEF Walk
<1> HIDE DEF k
<1>7. ASSUME NEW i \in 0 .. (n + Len(r))
      PROVE  Kept(k[i])
  <2>1. CASE i <= n
    <3>1. i \in 0 .. n
      BY <1>3, <2>1
    <3>2. Kept(h[i])
      BY <1>1, <3>1 DEF Walk
    <3> QED
      BY <1>5, <3>1, <3>2
  <2>2. CASE ~(i <= n)
    <3>1. i \in n .. (n + Len(r)) /\ i - n \in 0 .. Len(r)
      BY <1>3, <2>2
    <3>2. Kept(g[i - n])
      BY <1>2, <3>1 DEF Walk
    <3> QED
      BY <1>5, <3>1, <3>2
  <2> QED
    BY <2>1, <2>2
<1>8. ASSUME NEW i \in 1 .. (n + Len(r))
      PROVE  Legal(k[i - 1], (s \o r)[i], k[i])
  <2>1. CASE i <= n
    BY <1>1, <1>3, <1>4, <1>5, <2>1 DEF Walk
  <2>2. CASE ~(i <= n)
    <3>1. i - n \in 1 .. Len(r) /\ (i - 1) - n = (i - n) - 1 /\ i - 1 \in n .. (n + Len(r))
      BY <1>3, <2>2
    <3>2. Legal(g[(i - n) - 1], r[i - n], g[i - n])
      BY <1>2, <3>1 DEF Walk
    <3> QED
      BY <1>3, <1>4, <1>5, <2>2, <3>1, <3>2
  <2> QED
    BY <2>1, <2>2
<1>9. k[0] = A /\ k[n + Len(r)] = C
  <2>1. h[0] = A /\ g[Len(r)] = C
    BY <1>1, <1>2 DEF Walk
  <2>2. 0 \in 0 .. n /\ n + Len(r) \in n .. (n + Len(r)) /\ (n + Len(r)) - n = Len(r)
    BY <1>3
  <2> QED
    BY <1>5, <2>1, <2>2
<1>10. Walk(A, s \o r, C, k)
  BY <1>4, <1>6, <1>7, <1>8, <1>9 DEF Walk
<1> QED
  BY <1>4, <1>10 DEF Path

\* The first step of a path is legal, and the others are a path.
LEMMA PathStep ==
    ASSUME NEW A, NEW C, NEW s, Path(A, s, C)
    PROVE  /\ Kept(A)
           /\ s = <<>> => A = C
           /\ s # <<>> => \E B : Legal(A, Head(s), B) /\ Kept(B) /\ Path(B, Tail(s), C)
<1>1. PICK h : Walk(A, s, C, h)
  BY DEF Path
<1>2. s \in Seq(Steps) /\ Len(s) \in Nat
  BY DEF Path
<1>3. Kept(A)
  BY <1>1, <1>2 DEF Walk
<1>4. s = <<>> => A = C
  BY <1>1 DEF Walk
<1>5. ASSUME s # <<>>
      PROVE  Legal(A, Head(s), h[1]) /\ Kept(h[1]) /\ Path(h[1], Tail(s), C)
  <2> DEFINE g == [i \in 0 .. Len(Tail(s)) |-> h[i + 1]]
  <2>1. /\ Len(s) >= 1 /\ Len(Tail(s)) = Len(s) - 1 /\ Tail(s) \in Seq(Steps)
        /\ Head(s) = s[1] /\ \A i \in 1 .. Len(Tail(s)) : Tail(s)[i] = s[i + 1]
    BY <1>2, <1>5
  <2>2. Legal(A, Head(s), h[1]) /\ Kept(h[1])
    BY <1>1, <1>2, <2>1 DEF Walk
  <2>3. /\ g \in [0 .. Len(Tail(s)) -> SUBSET Mutexes]
        /\ \A i \in 0 .. Len(Tail(s)) : g[i] = h[i + 1]
    BY <1>1, <1>2, <2>1 DEF Walk
  <2> HIDE DEF g
  <2>4. Walk(h[1], Tail(s), C, g)
    <3>1. g[0] = h[1] /\ g[Len(Tail(s))] = C
      BY <1>1, <1>2, <2>1, <2>3 DEF Walk
    <3>2. \A i \in 0 .. Len(Tail(s)) : Kept(g[i])
      BY <1>1, <1>2, <2>1, <2>3 DEF Walk
    <3>3. ASSUME NEW i \in 1 .. Len(Tail(s))
          PROVE  Legal(g[i - 1], Tail(s)[i], g[i])
      <4>1. /\ i + 1 \in 1 .. Len(s) /\ i - 1 \in 0 .. Len(Tail(s))
            /\ (i - 1) + 1 = i /\ (i + 1) - 1 = i
        BY <1>2, <2>1
      <4>2. Legal(h[(i + 1) - 1], s[i + 1], h[i + 1])
        BY <1>1, <4>1 DEF Walk
      <4> QED
        BY <2>1, <2>3, <4>1, <4>2
    <3> QED
      BY <2>3, <3>1, <3>2, <3>3 DEF Walk
  <2> QED
    BY <2>1, <2>2, <2>4 DEF Path
<1> QED
  BY <1>3, <1>4, <1>5

-----------------------------------------------------------------------------
(***************************************************************************)
(* How paths are put together: one rule for each way in which Locks makes  *)
(* a sequence.                                                             *)
(***************************************************************************)
LEMMA MutexKinds ==
    /\ \A k \in OfConn, c \in Conns : <<k, c>> \in Mutexes
    /\ \A k \in OfTou, p \in 1 .. MaxTou : <<k, p>> \in Mutexes
    /\ \A k \in Global : Of(k) \in Mutexes
BY DEF Mutexes, Of

LEMMA UseRule ==
    ASSUME NEW A, NEW m, Kept(A), Wanted(A, m)
    PROVE  Path(A, Use(m), A)
<1> DEFINE s == [do |-> "use", on |-> m]
<1>1. s \in Steps
  BY DEF Steps, Wanted
<1>2. Legal(A, s, A)
  BY DEF Legal
<1> HIDE DEF s
<1>3. Path(A, <<s>>, A)
  BY <1>1, <1>2, PathOne
<1> QED
  BY <1>3 DEF Use, Step, s

LEMMA LeafRule ==
    ASSUME NEW A, NEW m \in Mutexes, m[1] \in Leaf, Kept(A)
    PROVE  Path(A, Use(m), A)
<1>1. Wanted(A, m)
  BY DEF Wanted, Kept, Leaf, First, Second
<1> QED
  BY <1>1, UseRule

LEMMA InnerRule ==
    ASSUME NEW A, NEW m \in Mutexes, m[1] \in Inner, m \notin A, Kept(A)
    PROVE  Path(A, Use(m), A)
<1>1. Wanted(A, m)
  BY DEF Wanted, Inner, First, Second
<1> QED
  BY <1>1, UseRule

LEMMA DropRule ==
    ASSUME NEW A, NEW m \in A, Kept(A), Kept(A \ {m})
    PROVE  Path(A, Step("drop", m), A \ {m})
<1> DEFINE s == [do |-> "drop", on |-> m]
<1>1. s \in Steps
  BY DEF Steps, Kept
<1>2. Legal(A, s, A \ {m})
  BY DEF Legal
<1> HIDE DEF s
<1>3. Path(A, <<s>>, A \ {m})
  BY <1>1, <1>2, PathOne
<1> QED
  BY <1>3 DEF Step, s

LEMMA WithRule ==
    ASSUME NEW A, NEW m, NEW body, Kept(A), Wanted(A, m),
           Path(A \cup {m}, body, A \cup {m})
    PROVE  Path(A, With(m, body), A)
<1> DEFINE s == [do |-> "take", on |-> m]
<1>1. Kept(A \cup {m})
  BY PathStep
<1>2. s \in Steps /\ Legal(A, s, A \cup {m})
  BY DEF Steps, Wanted, Legal
<1> HIDE DEF s
<1>3. Path(A, <<s>>, A \cup {m})
  BY <1>1, <1>2, PathOne
<1>4. Path(A, Step("take", m), A \cup {m})
  BY <1>3 DEF Step, s
<1>5. (A \cup {m}) \ {m} = A
  BY DEF Wanted
<1>6. Path(A \cup {m}, Step("drop", m), (A \cup {m}) \ {m})
  BY <1>1, <1>5, DropRule
<1>7. Path(A \cup {m}, Step("drop", m), A)
  BY <1>5, <1>6
<1>8. Path(A, Step("take", m) \o body, A \cup {m})
  BY <1>4, PathJoined
<1> QED
  BY <1>7, <1>8, PathJoined DEF With

LEMMA DoRule ==
    ASSUME NEW A, NEW f, NEW p, NEW c, Kept(A), Called(A, <<f, p, c>>)
    PROVE  Path(A, Do(f, p, c), A)
<1> DEFINE s == [do |-> "call", on |-> <<f, p, c>>]
<1>1. <<f, p, c>> \in Calling \X ({0} \cup (1 .. MaxTou)) \X (Conns \cup {0})
  BY DEF Called, Calling
<1>2. s \in Steps /\ Legal(A, s, A)
  BY <1>1 DEF Steps, Legal
<1> HIDE DEF s
<1>3. Path(A, <<s>>, A)
  BY <1>2, PathOne
<1> QED
  BY <1>3 DEF Do, Step, s

LEMMA PtouRule ==
    ASSUME NEW s \in {"ptou->send", "ptou->run"}, NEW c \in Conns
    PROVE  Path({}, Step(s, <<c>>), {})
<1> DEFINE r == [do |-> s, on |-> <<c>>]
<1>1. r \in Steps /\ Legal({}, r, {})
  BY DEF Steps, Legal
<1>2. Kept({})
  BY DEF Kept
<1> HIDE DEF r
<1>3. Path({}, <<r>>, {})
  BY <1>1, <1>2, PathOne
<1> QED
  BY <1>3 DEF Step, r

-----------------------------------------------------------------------------
(***************************************************************************)
(* The functions, from the leaves of the call graph upwards.               *)
(***************************************************************************)
LEMMA PathGetSocketTable ==
    ASSUME NEW A, Kept(A)
    PROVE  Path(A, getSocketTable, A)
<1>1. Of("stbq_mutex") \in Mutexes /\ Of("stbq_mutex")[1] \in Leaf
  BY MutexKinds DEF Global, Of, Leaf
<1> QED
  BY <1>1, LeafRule DEF getSocketTable

\* A leaf of connection c.
LEMMA PathLeaf ==
    ASSUME NEW A, Kept(A), NEW c \in Conns, NEW k \in {"sscamutex", "cb_send", "cb_recv"}
    PROVE  Path(A, Use(<<k, c>>), A)
<1>1. <<k, c>> \in Mutexes /\ <<k, c>>[1] \in Leaf
  BY MutexKinds DEF OfConn, Leaf
<1> QED
  BY <1>1, LeafRule

\* A mutex of connection c, taken for a moment.
LEMMA PathInner ==
    ASSUME NEW A, Kept(A), NEW c \in Conns, NEW k \in Inner, <<k, c>> \notin A
    PROVE  Path(A, Use(<<k, c>>), A)
<1>1. <<k, c>> \in Mutexes /\ <<k, c>>[1] \in Inner
  BY MutexKinds DEF OfConn, Inner
<1> QED
  BY <1>1, InnerRule

LEMMA PathSetter ==
    ASSUME NEW A, Kept(A), NEW c \in Conns, <<"stb_mtx", c>> \notin A
    PROVE  Path(A, Setter(c), A)
<1>1. Path(A, Use(<<"stb_mtx", c>>), A)
  BY PathInner DEF Inner
<1> QED
  BY <1>1, PathGetSocketTable, PathJoined DEF Setter

LEMMA PathTimerHeap ==
    ASSUME NEW A, Kept(A), \A n \in A : n[1] \notin Second \cup Inner
    PROVE  Path(A, Use(Of("timer_heap_mtx")), A)
<1>1. Of("timer_heap_mtx") \in Mutexes
  BY MutexKinds DEF Global
<1>2. Wanted(A, Of("timer_heap_mtx"))
  BY <1>1 DEF Wanted, Of, First, Second
<1> QED
  BY <1>2, UseRule

LEMMA KeptOutside == Kept({})
BY DEF Kept

LEMMA KeptInRun ==
    ASSUME NEW q \in 1 .. MaxTou
    PROVE  Kept({RunMtx(q)})
<1>1. RunMtx(q) \in Mutexes
  BY MutexKinds DEF RunMtx, OfTou
<1> QED
  BY <1>1 DEF Kept, RunMtx, Leaf, Inner, AckDequeMtx, Of

\* Inside run() an inner mutex may be kept.
LEMMA WithInnerRule ==
    ASSUME NEW A, Kept(A), NEW q \in 1 .. MaxTou, RunMtx(q) \in A,
           NEW c \in Conns, NEW k \in Inner, <<k, c>> \notin A,
           NEW body,
           Kept(A \cup {<<k, c>>}) =>
              Path(A \cup {<<k, c>>}, body, A \cup {<<k, c>>})
    PROVE  Path(A, With(<<k, c>>, body), A)
<1>1. <<k, c>> \in Mutexes
  BY MutexKinds DEF OfConn, Inner
<1>2. Wanted(A, <<k, c>>)
  BY <1>1 DEF Wanted, Inner, First, Second
<1>3. Kept(A \cup {<<k, c>>})
  BY <1>1 DEF Kept, Inner, Leaf, AckDequeMtx, AckMtx, Of
<1> QED
  BY <1>2, <1>3, WithRule

LEMMA PathSetCbData ==
    ASSUME NEW A, Kept(A), NEW q \in 1 .. MaxTou, RunMtx(q) \in A,
           NEW c \in Conns, <<"stb_cb_recv_mtx", c>> \notin A
    PROVE  Path(A, setCbData(c), A)
<1>1. Path(A, With(<<"stb_cb_recv_mtx", c>>, Use(<<"cb_recv", c>>)), A)
  BY WithInnerRule, PathLeaf DEF Inner
<1> QED
  BY <1>1, PathGetSocketTable, PathJoined DEF setCbData

LEMMA PathGetPktState ==
    ASSUME NEW q \in 1 .. MaxTou, NEW c \in Conns
    PROVE  Path({RunMtx(q)}, processGetPktState(c), {RunMtx(q)})
<1> DEFINE A == {RunMtx(q)}
           m == <<"stb_mtx", c>>
<1>1. m \notin A /\ <<"stb_tc_ack_mtx", c>> \notin A \cup {m} /\ RunMtx(q) \in A
  BY DEF RunMtx
<1>2. Kept(A) /\ "stb_mtx" \in Inner /\ "stb_tc_ack_mtx" \in Inner
  BY KeptInRun DEF Inner
<1> HIDE DEF A
<1>3. Kept(A \cup {m}) => Path(A \cup {m}, Use(<<"stb_tc_ack_mtx", c>>), A \cup {m})
  BY <1>1, <1>2, PathInner
<1>4. Path(A, With(m, Use(<<"stb_tc_ack_mtx", c>>)), A)
  BY <1>1, <1>2, <1>3, WithInnerRule
<1> QED
  BY <1>4 DEF processGetPktState, A

LEMMA PathProcAck ==
    ASSUME NEW q \in 1 .. MaxTou, NEW c \in Conns
    PROVE  Path({RunMtx(q)}, proc_ack(c), {RunMtx(q)})
<1> DEFINE A == {RunMtx(q)}
           m == <<"stb_mtx", c>>
<1>1. m \notin A /\ RunMtx(q) \in A
  BY DEF RunMtx
<1>2. Kept(A) /\ "stb_mtx" \in Inner
  BY KeptInRun DEF Inner
<1> HIDE DEF A
<1>3. Kept(A \cup {m}) => Path(A \cup {m}, Use(<<"sscamutex", c>>), A \cup {m})
  BY PathLeaf
<1>4. Path(A, With(m, Use(<<"sscamutex", c>>)), A)
  BY <1>1, <1>2, <1>3, WithInnerRule
<1> QED
  BY <1>4 DEF proc_ack, A

\* proc_delack takes stb_mtx and ack_deque_mtx while it keeps stb_tc_ack_mtx,
\* the latter under the protection of ack_mtx.
LEMMA PathProcDelack ==
    ASSUME NEW q \in 1 .. MaxTou, NEW c \in Conns, NEW b \in proc_delack(c)
    PROVE  Path({RunMtx(q)}, b, {RunMtx(q)})
<1> DEFINE A == {RunMtx(q)}
           A1 == A \cup {AckMtx}
           m == <<"stb_tc_ack_mtx", c>>
           A2 == A1 \cup {m}
<1>1. PICK g \in {gen_pkt(c), <<>>} :
        b = With(AckMtx, With(m, g \o Use(AckDequeMtx)))
  BY DEF proc_delack, AckMtx, AckDequeMtx
<1>2. /\ AckMtx \in Mutexes /\ AckDequeMtx \in Mutexes
      /\ "stb_mtx" \in Inner /\ "stb_tc_ack_mtx" \in Inner
  BY MutexKinds DEF AckMtx, AckDequeMtx, Global, Inner
<1>3. Kept(A)
  BY KeptInRun
<1>4. Wanted(A, AckMtx)
  BY <1>2 DEF Wanted, AckMtx, RunMtx, Of, First, Second, Inner
<1>5. Kept(A1)
  BY <1>2, <1>3 DEF Kept, AckMtx, AckDequeMtx, RunMtx, Of, Leaf, Inner
<1>6. m \notin A1 /\ <<"stb_mtx", c>> \notin A2 /\ RunMtx(q) \in A1
  BY DEF AckMtx, RunMtx, Of
<1>7. Wanted(A2, AckDequeMtx)
  BY <1>2 DEF Wanted, AckMtx, AckDequeMtx, RunMtx, Of, First, Second
<1> HIDE DEF A, A1, A2
<1>8. ASSUME Kept(A2)
      PROVE  Path(A2, g \o Use(AckDequeMtx), A2)
  <2>1. Path(A2, gen_pkt(c), A2)
    BY <1>2, <1>6, <1>8, PathInner DEF gen_pkt
  <2>2. Path(A2, <<>>, A2)
    BY <1>8, PathEmpty
  <2>3. Path(A2, g, A2)
    BY <2>1, <2>2
  <2>4. Path(A2, Use(AckDequeMtx), A2)
    BY <1>7, <1>8, UseRule
  <2> QED
    BY <2>3, <2>4, PathJoined
<1>9. Path(A1, With(m, g \o Use(AckDequeMtx)), A1)
  BY <1>2, <1>5, <1>6, <1>8, WithInnerRule DEF A2
<1>10. Path(A, With(AckMtx, With(m, g \o Use(AckDequeMtx))), A)
  BY <1>3, <1>4, <1>9, WithRule DEF A1
<1> QED
  BY <1>1, <1>10 DEF A

\* A round of send()'s loop, under send_mtx.
LEMMA PathSendRound ==
    ASSUME NEW A, Kept(A), NEW c \in Conns, <<"stb_mtx", c>> \notin A,
           \A n \in A : n[1] \notin Second \cup Inner
    PROVE  Path(A, SendRound(c), A)
<1>1. Path(A, getSendSize(c), A) /\ Path(A, Use(<<"cb_send", c>>), A)
  BY PathLeaf DEF getSendSize
<1>2. Path(A, gen_pkt(c), A)
  BY PathInner DEF gen_pkt, Inner
<1>3. Path(A, Use(Of("timer_heap_mtx")), A)
  BY PathTimerHeap
<1> QED
  BY <1>1, <1>2, <1>3, PathJoined DEF SendRound

LEMMA PathSend ==
    ASSUME NEW A, A = {} \/ Running(A), NEW p \in 1 .. MaxTou, NEW c \in Conns,
           NEW b \in send(p, c)
    PROVE  Path(A, b, A)
<1> DEFINE m == <<"send_mtx", p>>
           B == A \cup {m}
<1>1. PICK r \in {<<>>, SendRound(c)} :
        b = With(m, getSocketTable \o getSendSize(c) \o Use(<<"cb_send", c>>) \o r)
  BY DEF send
<1>2. Kept(A)
  BY KeptOutside, KeptInRun DEF Running
<1>3. m \in Mutexes
  BY MutexKinds DEF OfTou
<1>4. \A n \in A : n[1] = "run_t_mtx"
  BY DEF Running, RunMtx
<1>5. Wanted(A, m)
  BY <1>3, <1>4 DEF Wanted, First, Second, Inner
<1>6. Kept(B)
  BY <1>2, <1>3, <1>4 DEF Kept, Leaf, Inner, AckDequeMtx, Of
<1>7. /\ <<"stb_mtx", c>> \notin B
      /\ \A n \in B : n[1] \notin Second \cup Inner
  BY <1>4 DEF Second, Inner
<1> HIDE DEF B
<1>8. Path(B, r, B)
  <2>1. Path(B, <<>>, B) /\ Path(B, SendRound(c), B)
    BY <1>6, <1>7, PathEmpty, PathSendRound
  <2> QED
    BY <2>1
<1>9. /\ Path(B, getSocketTable, B) /\ Path(B, getSendSize(c), B)
      /\ Path(B, Use(<<"cb_send", c>>), B)
  BY <1>6, PathGetSocketTable, PathLeaf DEF getSendSize
<1>10. Path(B, getSocketTable \o getSendSize(c) \o Use(<<"cb_send", c>>) \o r, B)
  BY <1>8, <1>9, PathJoined
<1> QED
  BY <1>1, <1>2, <1>5, <1>10, WithRule DEF B

LEMMA PathSetAckState ==
    ASSUME NEW A, Kept(A), NEW c \in Conns, <<"stb_tc_ack_mtx", c>> \notin A
    PROVE  Path(A, set_ack_state(c), A)
BY PathInner DEF set_ack_state, Inner

\* The calls made inside run().
LEMMA PathRunCalls ==
    ASSUME NEW q \in 1 .. MaxTou, NEW p \in 1 .. MaxTou, NEW c \in Conns
    PROVE  /\ Path({RunMtx(q)}, Do("proc_delack", 0, c), {RunMtx(q)})
           /\ Path({RunMtx(q)}, Do("proc_pkt_rec", 0, c), {RunMtx(q)})
           /\ Path({RunMtx(q)}, Do("send", p, c), {RunMtx(q)})
           /\ Path({RunMtx(q)}, Do("judged", p, c), {RunMtx(q)})
           /\ Path({RunMtx(q)}, Do("more", p, c), {RunMtx(q)})
<1> DEFINE A == {RunMtx(q)}
<1>1. Running(A) /\ Kept(A)
  BY KeptInRun DEF Running
<1> HIDE DEF A
<1>2. /\ Called(A, <<"proc_delack", 0, c>>) /\ Called(A, <<"proc_pkt_rec", 0, c>>)
      /\ Called(A, <<"send", p, c>>)
      /\ Called(A, <<"judged", p, c>>) /\ Called(A, <<"more", p, c>>)
  BY <1>1 DEF Called
<1> QED
  BY <1>1, <1>2, DoRule DEF A

LEMMA PathPktRec ==
    ASSUME NEW q \in 1 .. MaxTou, NEW c \in Conns, NEW b \in proc_pkt_rec(c)
    PROVE  Path({RunMtx(q)}, b, {RunMtx(q)})
<1> DEFINE A == {RunMtx(q)}
           m == <<"stb_minhp_recv_mtx", c>>
           B == A \cup {m}
<1>1. /\ Kept(A) /\ RunMtx(q) \in A /\ m \notin A /\ "stb_minhp_recv_mtx" \in Inner
      /\ RunMtx(q) \in B /\ <<"stb_cb_recv_mtx", c>> \notin B
      /\ <<"stb_mtx", c>> \notin B /\ <<"stb_tc_ack_mtx", c>> \notin B
  BY KeptInRun DEF RunMtx, Inner
<1> HIDE DEF A, B
<1>2. ASSUME Kept(B)
      PROVE  /\ Path(B, <<>>, B) /\ Path(B, set_ack_state(c), B)
             /\ Path(B, setCbData(c) \o Setter(c) \o set_ack_state(c), B)
             /\ Path(B, setCbData(c) \o set_ack_state(c), B)
  <2>1. Path(B, <<>>, B) /\ Path(B, set_ack_state(c), B)
    BY <1>1, <1>2, PathEmpty, PathSetAckState
  <2>2. Path(B, setCbData(c), B) /\ Path(B, Setter(c), B)
    BY <1>1, <1>2, PathSetCbData, PathSetter
  <2> QED
    BY <2>1, <2>2, PathJoined
<1>3. ASSUME NEW r \in {<<>>, set_ack_state(c), setCbData(c) \o Setter(c) \o set_ack_state(c),
                        setCbData(c) \o set_ack_state(c)}
      PROVE  Path(A, With(m, r), A)
  <2>1. Kept(B) => Path(B, r, B)
    BY <1>2
  <2> QED
    BY <1>1, <2>1, WithInnerRule DEF B
<1>4. Path(A, Do("proc_delack", 0, c), A)
  BY PathRunCalls DEF A
<1>5. CASE b = With(m, setCbData(c) \o set_ack_state(c))
  BY <1>3, <1>5 DEF A
<1>6. ASSUME NEW r \in {<<>>, set_ack_state(c), setCbData(c) \o Setter(c) \o set_ack_state(c)},
             b = With(m, r) \o Do("proc_delack", 0, c)
      PROVE  Path(A, b, A)
  <2>1. Path(A, With(m, r), A)
    BY <1>3
  <2> QED
    BY <1>4, <1>6, <2>1, PathJoined
<1> QED
  BY <1>5, <1>6 DEF proc_pkt_rec, A

\* What run() does with a packet.
LEMMA PathOnAck ==
    ASSUME NEW q \in 1 .. MaxTou, NEW c \in Conns, NEW b \in OnAck(c)
    PROVE  Path({RunMtx(q)}, b, {RunMtx(q)})
<1> DEFINE A == {RunMtx(q)}
<1>1. /\ Kept(A) /\ <<"stb_mtx", c>> \notin A /\ "stb_mtx" \in Inner
      /\ \A n \in A : n[1] \notin Second \cup Inner
  BY KeptInRun DEF RunMtx, Inner, Second
<1>2. Path(A, proc_ack(c), A)
  BY PathProcAck
<1> HIDE DEF A
<1>3. /\ Path(A, <<>>, A) /\ Path(A, Use(Of("timer_heap_mtx")), A)
      /\ Path(A, Use(<<"stb_mtx", c>>), A) /\ Path(A, Use(<<"sscamutex", c>>), A)
  BY <1>1, PathEmpty, PathTimerHeap, PathInner, PathLeaf
<1>4. Path(A, Use(<<"stb_mtx", c>>) \o Use(<<"sscamutex", c>>) \o Use(<<"stb_mtx", c>>), A)
  BY <1>3, PathJoined
<1>5. CASE b \in {proc_ack(c) \o Use(Of("timer_heap_mtx")), proc_ack(c)}
  BY <1>2, <1>3, <1>5, PathJoined DEF A
<1>6. ASSUME NEW r \in {<<>>, Use(Of("timer_heap_mtx"))},
             b = Use(<<"stb_mtx", c>>) \o Use(<<"sscamutex", c>>) \o Use(<<"stb_mtx", c>>) \o r
      PROVE  Path(A, b, A)
  <2>1. Path(A, r, A)
    BY <1>3
  <2> QED
    BY <1>4, <1>6, <2>1, PathJoined
<1> QED
  BY <1>5, <1>6 DEF OnAck, A

LEMMA PathOnData ==
    ASSUME NEW q \in 1 .. MaxTou, NEW c \in Conns, NEW b \in OnData(c)
    PROVE  Path({RunMtx(q)}, b, {RunMtx(q)})
<1> DEFINE A == {RunMtx(q)}
<1>1. /\ Kept(A) /\ RunMtx(q) \in A /\ "stb_minhp_recv_mtx" \in Inner
      /\ <<"stb_mtx", c>> \notin A /\ <<"stb_tc_ack_mtx", c>> \notin A
      /\ <<"stb_minhp_recv_mtx", c>> \notin A /\ <<"stb_cb_recv_mtx", c>> \notin A
  BY KeptInRun DEF RunMtx, Inner
<1>2. Path(A, Do("proc_delack", 0, c), A) /\ Path(A, Do("proc_pkt_rec", 0, c), A)
  BY PathRunCalls
<1> HIDE DEF A
<1>3. /\ Path(A, <<>>, A) /\ Path(A, Use(<<"stb_minhp_recv_mtx", c>>), A)
      /\ Path(A, set_ack_state(c), A) /\ Path(A, Setter(c), A)
  BY <1>1, PathEmpty, PathInner, PathSetAckState, PathSetter
<1>4. Path(A, setCbData(c), A)
  BY <1>1, PathSetCbData
<1>5. Path(A, Use(<<"stb_minhp_recv_mtx", c>>) \o set_ack_state(c) \o Do("proc_delack", 0, c), A)
  BY <1>2, <1>3, PathJoined
<1>6. Path(A, Setter(c) \o setCbData(c) \o Do("proc_pkt_rec", 0, c), A)
  BY <1>2, <1>3, <1>4, PathJoined
<1> QED
  BY <1>3, <1>5, <1>6 DEF OnData, A

LEMMA PathRoom ==
    ASSUME NEW q \in 1 .. MaxTou, NEW p \in 1 .. MaxTou, NEW c \in Conns
    PROVE  Path({RunMtx(q)}, Room(p, c), {RunMtx(q)})
<1>1. Path({RunMtx(q)}, Use(<<"cb_recv", c>>), {RunMtx(q)})
  BY KeptInRun, PathLeaf
<1> QED
  BY <1>1, PathRunCalls, PathJoined DEF Room

LEMMA PathPacket ==
    ASSUME NEW q \in 1 .. MaxTou, NEW p \in 1 .. MaxTou, NEW c \in Conns
    PROVE  Path({RunMtx(q)}, Packet(p, c), {RunMtx(q)})
BY PathGetPktState, PathRunCalls, PathJoined DEF Packet

LEMMA PathJudged ==
    ASSUME NEW q \in 1 .. MaxTou, NEW p \in 1 .. MaxTou, NEW c \in Conns, NEW b \in Judged(p, c)
    PROVE  Path({RunMtx(q)}, b, {RunMtx(q)})
<1> DEFINE A == {RunMtx(q)}
<1>1. Kept(A) /\ <<"stb_mtx", c>> \notin A
  BY KeptInRun DEF RunMtx
<1>2. Path(A, Do("send", p, c), A) /\ Path(A, Room(p, c), A)
  BY PathRunCalls, PathRoom
<1>3. \A a \in OnAck(c) : Path(A, a, A)
  BY PathOnAck
<1>4. \A d \in OnData(c) : Path(A, d, A)
  BY PathOnData
<1> HIDE DEF A
<1>5. CASE b = Setter(c) \o Setter(c) \o Setter(c)
  <2>1. Path(A, Setter(c), A)
    BY <1>1, PathSetter
  <2> QED
    BY <1>5, <2>1, PathJoined DEF A
<1>6. ASSUME NEW a \in OnAck(c), b = a \o Do("send", p, c)
      PROVE  Path(A, b, A)
  BY <1>2, <1>3, <1>6, PathJoined
<1>7. ASSUME NEW d \in OnData(c), b = d \o Room(p, c)
      PROVE  Path(A, b, A)
  BY <1>2, <1>4, <1>7, PathJoined
<1> QED
  BY <1>5, <1>6, <1>7 DEF Judged, A

-----------------------------------------------------------------------------
(* The timer thread, and every call.                                       *)

LEMMA PathTimerDelack ==
    ASSUME NEW b \in TimerDelack
    PROVE  Path({}, b, {})
<1> DEFINE d == Do("proc_delack_xmit", 0, 0)
           B == {AckMtx}
           D == {AckMtx, AckDequeMtx}
<1>1. b = With(AckMtx, With(AckDequeMtx, d))
  BY DEF TimerDelack, AckMtx, AckDequeMtx
<1>2. AckMtx \in Mutexes /\ AckDequeMtx \in Mutexes
  BY MutexKinds DEF AckMtx, AckDequeMtx, Global
<1>3. Wanted({}, AckMtx) /\ Kept(B)
  BY <1>2 DEF Wanted, Kept, AckMtx, AckDequeMtx, Of, Leaf, Inner
<1>4. Wanted(B, AckDequeMtx) /\ Kept(D)
  BY <1>2 DEF Wanted, Kept, AckMtx, AckDequeMtx, Of, First, Second, Leaf, Inner
<1>5. Called(D, <<"proc_delack_xmit", 0, 0>>)
  BY DEF Called
<1>6. Path(D, d, D)
  BY <1>4, <1>5, DoRule
<1>7. D = B \cup {AckDequeMtx} /\ B = {} \cup {AckMtx}
  OBVIOUS
<1> HIDE DEF B, D, d
<1>8. Path(B, With(AckDequeMtx, d), B)
  BY <1>3, <1>4, <1>6, <1>7, WithRule
<1> QED
  BY <1>1, <1>3, <1>7, <1>8, KeptOutside, WithRule

LEMMA PathDelackXmit ==
    ASSUME NEW A, Called(A, <<"proc_delack_xmit", 0, 0>>), NEW b \in proc_delack_xmit
    PROVE  Path(A, b, A)
<1>1. A = {AckMtx, AckDequeMtx}
  BY DEF Called
<1>2. AckMtx \in Mutexes /\ AckDequeMtx \in Mutexes
  BY MutexKinds DEF AckMtx, AckDequeMtx, Global
<1>3. Kept(A)
  BY <1>1, <1>2 DEF Kept, AckMtx, AckDequeMtx, Of, Leaf, Inner
<1>4. CASE b = <<>>
  BY <1>3, <1>4, PathEmpty
<1>5. ASSUME NEW c \in Conns, b = set_ack_state(c) \o Do("proc_delack_xmit", 0, 0)
      PROVE  Path(A, b, A)
  <2>1. <<"stb_tc_ack_mtx", c>> \notin A
    BY <1>1 DEF AckMtx, AckDequeMtx, Of
  <2>2. Path(A, set_ack_state(c), A)
    BY <1>3, <2>1, PathSetAckState
  <2>3. Path(A, Do("proc_delack_xmit", 0, 0), A)
    BY <1>3, DoRule
  <2> QED
    BY <1>5, <2>2, <2>3, PathJoined
<1> QED
  BY <1>4, <1>5 DEF proc_delack_xmit

LEMMA PathSndpkt ==
    ASSUME NEW b \in proc_sndpkt
    PROVE  Path({}, b, {})
<1> DEFINE m == Of("timer_heap_mtx")
           B == {} \cup {m}
<1>1. PICK c \in Conns, w \in {<<>>} \cup {Use(<<"sscamutex", d>>) : d \in Conns} :
        b = With(m, Use(<<"stb_mtx", c>>) \o w)
  BY DEF proc_sndpkt
<1>2. m \in Mutexes
  BY MutexKinds DEF Global
<1>3. Wanted({}, m) /\ Kept(B) /\ <<"stb_mtx", c>> \notin B
  BY <1>2 DEF Wanted, Kept, AckMtx, AckDequeMtx, Of, Leaf, Inner
<1> HIDE DEF B
<1>4. Path(B, Use(<<"stb_mtx", c>>), B)
  BY <1>3, PathInner DEF Inner
<1>5. Path(B, w, B)
  <2>1. Path(B, <<>>, B)
    BY <1>3, PathEmpty
  <2>2. \A d \in Conns : Path(B, Use(<<"sscamutex", d>>), B)
    BY <1>3, PathLeaf
  <2> QED
    BY <2>1, <2>2
<1>6. Path(B, Use(<<"stb_mtx", c>>) \o w, B)
  BY <1>4, <1>5, PathJoined
<1> QED
  BY <1>1, <1>3, <1>6, KeptOutside, WithRule DEF B

LEMMA TimerCalls ==
    ASSUME NEW f \in {"timer proc_delack", "recv and rexmit", "proc_sndpkt"}
    PROVE  Path({}, Do(f, 0, 0), {})
<1>1. Called({}, <<f, 0, 0>>)
  BY DEF Called
<1> QED
  BY <1>1, KeptOutside, DoRule

LEMMA PathRecvRexmit ==
    ASSUME NEW b \in {<<>>} \cup {run(d) \o Do("proc_sndpkt", 0, 0) : d \in Conns}
    PROVE  Path({}, b, {})
<1>1. Path({}, <<>>, {})
  BY KeptOutside, PathEmpty
<1>2. ASSUME NEW d \in Conns
      PROVE  Path({}, run(d) \o Do("proc_sndpkt", 0, 0), {})
  <2>1. Path({}, run(d), {})
    BY PtouRule DEF run
  <2>2. Path({}, Do("proc_sndpkt", 0, 0), {})
    BY TimerCalls
  <2> QED
    BY <2>1, <2>2, PathJoined
<1> QED
  BY <1>1, <1>2

\* Every function, called where it is called, ends with what it began with.
LEMMA PathBody ==
    ASSUME NEW A, NEW on, Called(A, on), NEW b \in Body(on[1], on[2], on[3])
    PROVE  Path(A, b, A)
<1>1. ASSUME NEW p \in 1 .. MaxTou, NEW c \in Conns, on = <<"send", p, c>>,
             A = {} \/ Running(A)
      PROVE  Path(A, b, A)
  <2>1. b \in send(p, c)
    BY <1>1 DEF Body
  <2> QED
    BY <1>1, <2>1, PathSend
<1>2. ASSUME NEW p \in 1 .. MaxTou, NEW c \in Conns, on = <<"judged", p, c>>, Running(A)
      PROVE  Path(A, b, A)
  <2>1. b \in Judged(p, c)
    BY <1>2 DEF Body
  <2> QED
    BY <1>2, <2>1, PathJudged DEF Running
<1>3. ASSUME NEW p \in 1 .. MaxTou, NEW c \in Conns, on = <<"more", p, c>>, Running(A)
      PROVE  Path(A, b, A)
  <2>1. b \in {<<>>, Packet(p, c)}
    BY <1>3 DEF Body
  <2>2. Path(A, <<>>, A) /\ Path(A, Packet(p, c), A)
    BY <1>3, KeptInRun, PathEmpty, PathPacket DEF Running
  <2> QED
    BY <2>1, <2>2
<1>4. ASSUME NEW c \in Conns, on = <<"proc_delack", 0, c>>, Running(A)
      PROVE  Path(A, b, A)
  <2>1. b \in proc_delack(c)
    BY <1>4 DEF Body
  <2> QED
    BY <1>4, <2>1, PathProcDelack DEF Running
<1>5. ASSUME NEW c \in Conns, on = <<"proc_pkt_rec", 0, c>>, Running(A)
      PROVE  Path(A, b, A)
  <2>1. b \in proc_pkt_rec(c)
    BY <1>5 DEF Body
  <2> QED
    BY <1>5, <2>1, PathPktRec DEF Running
<1>6. CASE on = <<"timer proc_delack", 0, 0>> /\ A = {}
  <2>1. b \in {<<>>} \cup TimerDelack
    BY <1>6 DEF Body
  <2> QED
    BY <1>6, <2>1, KeptOutside, PathEmpty, PathTimerDelack
<1>7. CASE on = <<"recv and rexmit", 0, 0>> /\ A = {}
  <2>1. b \in {<<>>} \cup {run(d) \o Do("proc_sndpkt", 0, 0) : d \in Conns}
    BY <1>7 DEF Body
  <2> QED
    BY <1>7, <2>1, PathRecvRexmit
<1>8. CASE on = <<"proc_sndpkt", 0, 0>> /\ A = {}
  <2>1. b \in proc_sndpkt
    BY <1>8 DEF Body
  <2> QED
    BY <1>8, <2>1, PathSndpkt
<1>9. CASE on = <<"proc_delack_xmit", 0, 0>>
  <2>1. b \in proc_delack_xmit
    BY <1>9 DEF Body
  <2> QED
    BY <1>9, <2>1, PathDelackXmit
<1> QED
  BY <1>1, <1>2, <1>3, <1>4, <1>5, <1>6, <1>7, <1>8, <1>9 DEF Called

\* What a thread outside the library begins with.
LEMMA PathCalls ==
    ASSUME NEW s \in Calls \cup {Round}
    PROVE  Path({}, s, {})
<1>1. Kept({}) /\ Path({}, getSocketTable, {})
  BY KeptOutside, PathGetSocketTable
<1>2. CASE s = touSocket
  <2>1. Path({}, Step("ptou=", <<>>), {})
    <3> DEFINE r == [do |-> "ptou=", on |-> <<>>]
    <3>1. r \in Steps /\ Legal({}, r, {})
      BY DEF Steps, Legal
    <3> HIDE DEF r
    <3>2. Path({}, <<r>>, {})
      BY <1>1, <3>1, PathOne
    <3> QED
      BY <3>2 DEF Step, r
  <2> QED
    BY <1>1, <1>2, <2>1, PathJoined DEF touSocket
<1>3. ASSUME NEW c \in Conns, s = touSend(c)
      PROVE  Path({}, s, {})
  <2>1. Path({}, Use(<<"cb_send", c>>), {}) /\ Path({}, Step("ptou->send", <<c>>), {})
    BY <1>1, PathLeaf, PtouRule
  <2> QED
    BY <1>1, <1>3, <2>1, PathJoined DEF touSend
<1>4. ASSUME NEW c \in Conns, s = touRecv(c)
      PROVE  Path({}, s, {})
  <2>1. Path({}, Use(<<"cb_recv", c>>), {})
    BY <1>1, PathLeaf
  <2> QED
    BY <1>1, <1>4, <2>1, PathJoined DEF touRecv
<1>5. ASSUME NEW c \in Conns, s = touClose(c)
      PROVE  Path({}, s, {})
  <2> DEFINE m == Of("socktabmutex1")
             B == {} \cup {m}
  <2>1. m \in Mutexes
    BY MutexKinds DEF Global
  <2>2. Wanted({}, m) /\ Kept(B) /\ <<"stb_mtx", c>> \notin B
    BY <2>1 DEF Wanted, Kept, AckMtx, AckDequeMtx, Of, Leaf, Inner
  <2> HIDE DEF B
  <2>3. Path(B, Setter(c) \o getSocketTable, B)
    BY <2>2, PathSetter, PathGetSocketTable, PathJoined
  <2>4. Path({}, With(m, Setter(c) \o getSocketTable), {})
    BY <1>1, <2>2, <2>3, WithRule DEF B
  <2> QED
    BY <1>1, <1>5, <2>4, PathJoined DEF touClose
<1>6. ASSUME NEW c \in Conns, s = Setter(c)
      PROVE  Path({}, s, {})
  BY <1>1, <1>6, PathSetter
<1>7. ASSUME NEW c \in Conns, s = run(c)
      PROVE  Path({}, s, {})
  BY <1>7, PtouRule DEF run
<1>8. CASE s = Round
  <2>1. Of("ack_deque_mtx") \in Mutexes
    BY MutexKinds DEF Global
  <2>2. Wanted({}, Of("ack_deque_mtx"))
    BY <2>1 DEF Wanted, Of
  <2>3. Path({}, Use(Of("ack_deque_mtx")), {})
    BY <1>1, <2>2, UseRule
  <2>4. Path({}, Use(Of("timer_heap_mtx")), {})
    BY <1>1, PathTimerHeap
  <2>5. Path({}, Do("timer proc_delack", 0, 0), {}) /\ Path({}, Do("recv and rexmit", 0, 0), {})
    BY TimerCalls
  <2> QED
    BY <1>8, <2>3, <2>4, <2>5, PathJoined DEF Round
<1> QED
  BY <1>2, <1>3, <1>4, <1>5, <1>6, <1>7, <1>8 DEF Calls

-----------------------------------------------------------------------------
(***************************************************************************)
(* The inductive invariant: what every thread has left to do is a path     *)
(* from the mutexes it holds to none.                                      *)
(***************************************************************************)
LocksInv ==
    /\ held \in [Threads -> SUBSET Mutexes]
    /\ todo \in [Threads -> Seq(Steps)]
    /\ ptou \in 1 .. MaxTou
    /\ \A t \in Threads : Path(held[t], todo[t], {})
    /\ \A t, u \in Threads : t # u => held[t] \cap held[u] = {}

LEMMA InitLocksInv == Init => LocksInv
<1> SUFFICES ASSUME Init PROVE LocksInv
  OBVIOUS
<1>1. Path({}, <<>>, {}) /\ <<>> \in Seq(Steps)
  BY KeptOutside, PathEmpty
<1> QED
  BY <1>1, LocksAssumption DEF Init, LocksInv

\* The invariant is kept by a step of one thread.
LEMMA OneThread ==
    ASSUME LocksInv, NEW t \in Threads, NEW A, NEW s, Path(A, s, {}),
           held' = [held EXCEPT ![t] = A], todo' = [todo EXCEPT ![t] = s],
           ptou' \in 1 .. MaxTou,
           \A u \in Threads : u # t => A \cap held[u] = {}
    PROVE  LocksInv'
<1>1. Kept(A) /\ s \in Seq(Steps)
  BY PathStep DEF Path
<1>2. A \subseteq Mutexes
  BY <1>1 DEF Kept
<1>3. /\ held' \in [Threads -> SUBSET Mutexes] /\ held'[t] = A
      /\ \A u \in Threads : u # t => held'[u] = held[u]
  BY <1>2 DEF LocksInv
<1>4. /\ todo' \in [Threads -> Seq(Steps)] /\ todo'[t] = s
      /\ \A u \in Threads : u # t => todo'[u] = todo[u]
  BY <1>1 DEF LocksInv
<1>5. \A u \in Threads : Path(held'[u], todo'[u], {})
  BY <1>3, <1>4 DEF LocksInv
<1>6. ASSUME NEW u \in Threads, NEW v \in Threads, u # v
      PROVE  held'[u] \cap held'[v] = {}
  BY <1>3, <1>6 DEF LocksInv
<1> QED
  BY <1>3, <1>4, <1>5, <1>6 DEF LocksInv

\* A thread goes on with more, and holds A from now on.
LEMMA GoesOn ==
    ASSUME LocksInv, NEW t \in Threads, NEW A, NEW B, NEW more,
           Path(A, more, B), Path(B, Tail(todo[t]), {}),
           held' = [held EXCEPT ![t] = A], Goes(t, more), ptou' \in 1 .. MaxTou,
           \A u \in Threads : u # t => A \cap held[u] = {}
    PROVE  LocksInv'
<1>1. Path(A, more \o Tail(todo[t]), {})
  BY PathJoined
<1>2. todo' = [todo EXCEPT ![t] = more \o Tail(todo[t])]
  BY DEF Goes, LocksInv
<1> QED
  BY <1>1, <1>2, OneThread

\* A thread goes on with more, and holds what it held.
LEMMA GoesOnSame ==
    ASSUME LocksInv, NEW t \in Threads, NEW more,
           Path(held[t], more, held[t]), Path(held[t], Tail(todo[t]), {}),
           held' = held, Goes(t, more), ptou' \in 1 .. MaxTou
    PROVE  LocksInv'
<1>1. held' = [held EXCEPT ![t] = held[t]]
  BY DEF LocksInv
<1>2. \A u \in Threads : u # t => held[t] \cap held[u] = {}
  BY DEF LocksInv
<1> QED
  BY <1>1, <1>2, GoesOn

\* What a legal step does to the mutexes kept, one fact for each kind of step.
LEMMA LegalDoes ==
    ASSUME NEW A, NEW s, NEW B, Legal(A, s, B)
    PROVE  /\ s.do = "use" => B = A
           /\ s.do = "take" => B = A \cup {s.on}
           /\ s.do = "drop" => B = A \ {s.on}
           /\ s.do = "call" => Called(A, s.on) /\ B = A
           /\ s.do \in {"ptou->send", "ptou->run"} =>
                 (\E c \in Conns : s.on = <<c>>) /\ A = {} /\ B = A
           /\ s.do = "ptou=" => A = {} /\ B = A
  BY DEF Legal

\* What the invariant says of a thread's next step.
LEMMA NextStep ==
    ASSUME LocksInv, NEW t \in Threads, NEW do, NextIs(t, do)
    PROVE  /\ Kept(held[t]) /\ Path(held[t], <<>>, held[t])
           /\ Head(todo[t]).do = do
           /\ \E B : Legal(held[t], Head(todo[t]), B) /\ Kept(B) /\ Path(B, Tail(todo[t]), {})
<1>1. Path(held[t], todo[t], {}) /\ todo[t] # <<>> /\ Head(todo[t]).do = do
  BY DEF LocksInv, NextIs
<1>2. /\ Kept(held[t])
      /\ \E B : Legal(held[t], Head(todo[t]), B) /\ Kept(B) /\ Path(B, Tail(todo[t]), {})
  BY <1>1, PathStep
<1> QED
  BY <1>1, <1>2, PathEmpty

LEMMA BeginKeeps ==
    ASSUME LocksInv, NEW t \in Threads, Begin(t)
    PROVE  LocksInv'
<1>1. PICK s \in Calls \cup {Round} : todo' = [todo EXCEPT ![t] = s]
  BY DEF Begin
<1>2. Path({}, s, {})
  BY PathCalls
<1>3. Path(held[t], <<>>, {}) /\ todo[t] = <<>>
  BY DEF LocksInv, Begin
<1>4. held[t] = {}
  BY <1>3, PathStep
<1>5. held' = [held EXCEPT ![t] = {}] /\ ptou' \in 1 .. MaxTou
  BY <1>4 DEF Begin, LocksInv
<1> QED
  BY <1>1, <1>2, <1>5, OneThread

LEMMA TakeKeeps ==
    ASSUME LocksInv, NEW t \in Threads, Take(t)
    PROVE  LocksInv'
<1>0. NextIs(t, "take")
  BY DEF Take
<1>1. PICK B : Legal(held[t], Head(todo[t]), B) /\ Kept(B) /\ Path(B, Tail(todo[t]), {})
  BY <1>0, NextStep
<1>2. B = held[t] \cup {On(t)}
  <2>1. Head(todo[t]).do = "take"
    BY <1>0 DEF NextIs
  <2> QED
    BY <1>1, <2>1, LegalDoes DEF On
<1>3. held' = [held EXCEPT ![t] = B] /\ Goes(t, <<>>) /\ ptou' \in 1 .. MaxTou
  BY <1>2 DEF Take, LocksInv
<1>4. \A u \in Threads : u # t => B \cap held[u] = {}
  BY <1>2 DEF Take, Free, LocksInv
<1>5. Path(B, <<>>, B)
  BY <1>1, PathEmpty
<1> QED
  BY <1>1, <1>3, <1>4, <1>5, GoesOn

LEMMA DropKeeps ==
    ASSUME LocksInv, NEW t \in Threads, Drop(t)
    PROVE  LocksInv'
<1>0. NextIs(t, "drop")
  BY DEF Drop
<1>1. PICK B : Legal(held[t], Head(todo[t]), B) /\ Kept(B) /\ Path(B, Tail(todo[t]), {})
  BY <1>0, NextStep
<1>2. B = held[t] \ {On(t)}
  <2>1. Head(todo[t]).do = "drop"
    BY <1>0 DEF NextIs
  <2> QED
    BY <1>1, <2>1, LegalDoes DEF On
<1>3. held' = [held EXCEPT ![t] = B] /\ Goes(t, <<>>) /\ ptou' \in 1 .. MaxTou
  BY <1>2 DEF Drop, LocksInv
<1>4. \A u \in Threads : u # t => B \cap held[u] = {}
  BY <1>2 DEF LocksInv
<1>5. Path(B, <<>>, B)
  BY <1>1, PathEmpty
<1> QED
  BY <1>1, <1>3, <1>4, <1>5, GoesOn

LEMMA UseKeeps ==
    ASSUME LocksInv, NEW t \in Threads, UseOnce(t)
    PROVE  LocksInv'
<1>0. NextIs(t, "use")
  BY DEF UseOnce
<1>1. PICK B : Legal(held[t], Head(todo[t]), B) /\ Kept(B) /\ Path(B, Tail(todo[t]), {})
  BY <1>0, NextStep
<1>2. B = held[t]
  <2>1. Head(todo[t]).do = "use"
    BY <1>0 DEF NextIs
  <2> QED
    BY <1>1, <2>1, LegalDoes
<1>3. Path(held[t], <<>>, held[t]) /\ ptou' \in 1 .. MaxTou
  BY NextStep DEF UseOnce, LocksInv
<1> QED
  BY <1>1, <1>2, <1>3, GoesOnSame DEF UseOnce

LEMMA CallKeeps ==
    ASSUME LocksInv, NEW t \in Threads, Call(t)
    PROVE  LocksInv'
<1>0. NextIs(t, "call")
  BY DEF Call
<1>1. PICK B : Legal(held[t], Head(todo[t]), B) /\ Kept(B) /\ Path(B, Tail(todo[t]), {})
  BY <1>0, NextStep
<1>2. B = held[t] /\ Called(held[t], On(t))
  <2>1. Head(todo[t]).do = "call"
    BY <1>0 DEF NextIs
  <2> QED
    BY <1>1, <2>1, LegalDoes DEF On
<1>3. PICK b \in Body(On(t)[1], On(t)[2], On(t)[3]) : Goes(t, b)
  BY DEF Call
<1>4. Path(held[t], b, held[t])
  BY <1>2, <1>3, PathBody
<1>5. held' = held /\ ptou' \in 1 .. MaxTou
  BY DEF Call, LocksInv
<1> QED
  BY <1>1, <1>2, <1>3, <1>4, <1>5, GoesOnSame

LEMMA SendKeeps ==
    ASSUME LocksInv, NEW t \in Threads, Send(t)
    PROVE  LocksInv'
<1>0. NextIs(t, "ptou->send")
  BY DEF Send
<1>1. PICK B : Legal(held[t], Head(todo[t]), B) /\ Kept(B) /\ Path(B, Tail(todo[t]), {})
  BY <1>0, NextStep
<1>2. B = held[t] /\ held[t] = {} /\ \E c \in Conns : On(t) = <<c>>
  <2>1. Head(todo[t]).do = "ptou->send"
    BY <1>0 DEF NextIs
  <2> QED
    BY <1>1, <2>1, LegalDoes DEF On
<1>3. On(t)[1] \in Conns /\ ptou \in 1 .. MaxTou /\ ptou' = ptou
  BY <1>2 DEF LocksInv, Send
<1>4. Called({}, <<"send", ptou, On(t)[1]>>)
  BY <1>3 DEF Called
<1>5. Path(held[t], Do("send", ptou, On(t)[1]), held[t])
  BY <1>2, <1>4, KeptOutside, DoRule
<1> QED
  BY <1>1, <1>2, <1>3, <1>5, GoesOnSame DEF Send

LEMMA BusyKeeps ==
    ASSUME LocksInv, NEW t \in Threads, RunBusy(t)
    PROVE  LocksInv'
<1>0. NextIs(t, "ptou->run")
  BY DEF RunBusy
<1>1. PICK B : Legal(held[t], Head(todo[t]), B) /\ Kept(B) /\ Path(B, Tail(todo[t]), {})
  BY <1>0, NextStep
<1>2. B = held[t]
  <2>1. Head(todo[t]).do = "ptou->run"
    BY <1>0 DEF NextIs
  <2> QED
    BY <1>1, <2>1, LegalDoes
<1>3. Path(held[t], <<>>, held[t]) /\ ptou' \in 1 .. MaxTou
  BY NextStep DEF RunBusy, LocksInv
<1> QED
  BY <1>1, <1>2, <1>3, GoesOnSame DEF RunBusy

LEMMA OpenKeeps ==
    ASSUME LocksInv, NEW t \in Threads, Open(t)
    PROVE  LocksInv'
<1>0. NextIs(t, "ptou=")
  BY DEF Open
<1>1. PICK B : Legal(held[t], Head(todo[t]), B) /\ Kept(B) /\ Path(B, Tail(todo[t]), {})
  BY <1>0, NextStep
<1>2. B = held[t]
  <2>1. Head(todo[t]).do = "ptou="
    BY <1>0 DEF NextIs
  <2> QED
    BY <1>1, <2>1, LegalDoes
<1>3. Path(held[t], <<>>, held[t])
  BY NextStep DEF Open
<1>4. ptou' \in 1 .. MaxTou
  BY LocksAssumption DEF Open, LocksInv
<1> QED
  BY <1>1, <1>2, <1>3, <1>4, GoesOnSame DEF Open

\* run() begins with no mutex but its own, and ends without it.
LEMMA RunKeeps ==
    ASSUME LocksInv, NEW t \in Threads, RunEnter(t)
    PROVE  LocksInv'
<1> DEFINE m == RunMtx(ptou)
           c == On(t)[1]
           again == IF t = Timer THEN run(c) ELSE <<>>
           A == {m}
<1>0. NextIs(t, "ptou->run")
  BY DEF RunEnter
<1>1. PICK B : Legal(held[t], Head(todo[t]), B) /\ Kept(B) /\ Path(B, Tail(todo[t]), {})
  BY <1>0, NextStep
<1>2. B = {} /\ held[t] = {} /\ \E d \in Conns : On(t) = <<d>>
  <2>1. Head(todo[t]).do = "ptou->run"
    BY <1>0 DEF NextIs
  <2> QED
    BY <1>1, <2>1, LegalDoes DEF On
<1>3. c \in Conns /\ ptou \in 1 .. MaxTou /\ ptou' = ptou
  BY <1>2 DEF LocksInv, RunEnter
<1>4. /\ held' = [held EXCEPT ![t] = A]
      /\ \A u \in Threads : u # t => A \cap held[u] = {}
  BY <1>2 DEF RunEnter, RunMtx, LocksInv, GetsRun, Free
<1>5. Kept(A) /\ Path(A, <<>>, A)
  BY <1>3, KeptInRun, PathEmpty
<1>6. /\ Path(A, getSocketTable, A)
      /\ Path(A, Packet(ptou, c), A)
      /\ Path(A, Do("proc_pkt_rec", 0, c) \o Room(ptou, c), A)
  BY <1>3, <1>5, PathGetSocketTable, PathPacket, PathRunCalls, PathRoom, PathJoined
<1>7. Path({}, again, {})
  BY <1>3, KeptOutside, PathEmpty, PtouRule DEF run
<1>8. Path(A, Step("drop", m), {})
  <2>1. A \ {m} = {} /\ m \in A
    OBVIOUS
  <2>2. Path(A, Step("drop", m), A \ {m})
    BY <1>5, <2>1, KeptOutside, DropRule
  <2> QED
    BY <2>1, <2>2
<1>9. \/ \E b \in {Packet(ptou, c), Do("proc_pkt_rec", 0, c) \o Room(ptou, c)} :
             Goes(t, getSocketTable \o b \o Step("drop", m) \o again)
      \/ Goes(t, getSocketTable \o Step("drop", m))
  BY DEF RunEnter, RunMtx
<1> HIDE DEF A, m, c, again
<1>10. ASSUME NEW b \in {Packet(ptou, c), Do("proc_pkt_rec", 0, c) \o Room(ptou, c)}
       PROVE  Path(A, getSocketTable \o b \o Step("drop", m) \o again, {})
  <2>1. Path(A, b, A)
    BY <1>6, <1>10
  <2> QED
    BY <1>6, <1>7, <1>8, <2>1, PathJoined
<1>11. Path(A, getSocketTable \o Step("drop", m), {})
  BY <1>6, <1>8, PathJoined
<1>12. PICK more : Path(A, more, {}) /\ Goes(t, more)
  BY <1>9, <1>10, <1>11
<1>13. Path({}, Tail(todo[t]), {})
  BY <1>1, <1>2
<1>14. ptou' \in 1 .. MaxTou
  BY <1>3
<1> QED
  BY <1>4, <1>12, <1>13, <1>14, GoesOn

LEMMA NextLocksInv == LocksInv /\ [Next]_vars => LocksInv'
<1> SUFFICES ASSUME LocksInv, [Next]_vars PROVE LocksInv'
  OBVIOUS
<1>1. CASE UNCHANGED vars
  BY <1>1 DEF vars, LocksInv
<1>2. ASSUME NEW t \in Threads,
             \/ Begin(t) \/ Take(t) \/ Drop(t) \/ UseOnce(t) \/ Call(t)
             \/ Send(t) \/ RunEnter(t) \/ RunBusy(t) \/ Open(t)
      PROVE  LocksInv'
  BY <1>2, BeginKeeps, TakeKeeps, DropKeeps, UseKeeps, CallKeeps, SendKeeps, RunKeeps,
     BusyKeeps, OpenKeeps
<1> QED
  BY <1>1, <1>2 DEF Next

-----------------------------------------------------------------------------
(***************************************************************************)
(* No circle.  Who holds an inner mutex is in run(), and waits for no      *)
(* outer one but ack_deque_mtx, which nobody else holds as it has ack_mtx. *)
(* So in a circle with at most one such thread all wait for outer          *)
(* mutexes; and those are taken in an order.                               *)
(***************************************************************************)
LEMMA WaitsAreWanted ==
    ASSUME LocksInv, NEW t \in Threads, NEW u \in Threads, WaitsFor(t, u)
    PROVE  Wanted(held[t], On(t)) /\ On(t) \in held[u] /\ u # t
<1>1. PICK do \in {"take", "use"} : NextIs(t, do)
  BY DEF WaitsFor
<1>2. PICK B : Legal(held[t], Head(todo[t]), B)
  BY <1>1, NextStep
<1>3. Wanted(held[t], On(t))
  BY <1>1, <1>2, NextStep DEF Legal, On
<1> QED
  BY <1>3 DEF WaitsFor, Wanted

LEMMA Kinds ==
    ASSUME NEW m \in Mutexes
    PROVE  m[1] \in Leaf \cup Inner \cup First \cup Second \cup {"run_t_mtx"}
BY DEF Mutexes, OfConn, OfTou, Global, Leaf, Inner, First, Second

\* No set of threads waits on itself.
NoCircle ==
    \A S \in (SUBSET Threads) \ {{}} : \E t \in S : \A u \in S : ~WaitsFor(t, u)

LEMMA CircleIsInRun ==
    ASSUME LocksInv, NEW S \in (SUBSET Threads) \ {{}},
           \A t \in S : \E u \in S : WaitsFor(t, u)
    PROVE  \E t, u \in S : t # u /\ InRun(t) /\ InRun(u)
<1> SUFFICES ASSUME \A t, u \in S : t # u => ~(InRun(t) /\ InRun(u))
             PROVE  FALSE
  OBVIOUS
<1>1. /\ \A t \in Threads : Kept(held[t])
      /\ \A t, u \in Threads : t # u => held[t] \cap held[u] = {}
  BY PathStep DEF LocksInv
<1>2. ASSUME NEW t \in S
      PROVE  \E u \in S : u # t /\ On(t) \in held[u] /\ Wanted(held[t], On(t))
  BY WaitsAreWanted
<1>3. ASSUME NEW u \in S, NEW m \in held[u], m[1] \in Inner
      PROVE  InRun(u)
  BY <1>1, <1>3 DEF Kept, InRun, RunMtx
<1>4. ASSUME NEW t \in S
      PROVE  On(t)[1] \in Inner \cup First \cup Second
  <2>1. PICK u \in S : On(t) \in held[u] /\ Wanted(held[t], On(t))
    BY <1>2
  <2>2. On(t)[1] \notin Leaf /\ On(t)[1] # "run_t_mtx" /\ On(t) \in Mutexes
    BY <1>1, <2>1 DEF Kept, Wanted
  <2> QED
    BY <2>2, Kinds
<1>5. ASSUME NEW t \in S, On(t)[1] \in Inner
      PROVE  FALSE
  <2>1. PICK u \in S : On(t) \in held[u]
    BY <1>2
  <2>2. InRun(u)
    BY <1>3, <1>5, <2>1
  <2>3. PICK v \in S : v # u /\ On(u) \in held[v] /\ Wanted(held[u], On(u))
    BY <1>2
  <2>4. On(u)[1] \notin Inner
    BY <1>3, <2>2, <2>3
  <2>5. On(u) = AckDequeMtx /\ AckMtx \in held[u]
    BY <1>4, <1>5, <2>1, <2>3, <2>4 DEF Wanted
  <2>6. AckMtx \in held[v]
    BY <1>1, <2>3, <2>5 DEF Kept
  <2> QED
    BY <1>1, <2>3, <2>5, <2>6
<1>6. ASSUME NEW t \in S, On(t)[1] \in Second
      PROVE  FALSE
  <2>1. PICK u \in S : On(t) \in held[u]
    BY <1>2
  <2>2. Wanted(held[u], On(u)) /\ On(u)[1] \in First \cup Second
    BY <1>2, <1>4, <1>5
  <2> QED
    BY <1>6, <2>1, <2>2 DEF Wanted
<1>7. ASSUME NEW t \in S
      PROVE  FALSE
  <2>1. On(t)[1] \in First
    BY <1>4, <1>5, <1>6
  <2>2. PICK u \in S : On(t) \in held[u]
    BY <1>2
  <2>3. Wanted(held[u], On(u)) /\ On(u)[1] \in First
    BY <1>2, <1>4, <1>5, <1>6
  <2> QED
    BY <2>1, <2>2, <2>3 DEF Wanted
<1> QED
  BY <1>7

LEMMA TypeOKHolds == LocksInv => TypeOK
<1> SUFFICES ASSUME LocksInv PROVE TypeOK
  OBVIOUS
<1>1. ASSUME NEW t \in Threads, todo[t] = <<>>
      PROVE  held[t] = {}
  <2>1. Path(held[t], <<>>, {})
    BY <1>1 DEF LocksInv
  <2> QED
    BY <2>1, PathStep
<1> QED
  BY <1>1 DEF LocksInv, TypeOK

\* For every number of threads of the application, of connections and of
\* sockets opened while others are in use: mutexes exclude each other's
\* owners, a thread outside the library holds none, and threads that take and
\* wait for the mutexes as the library does wait for each other in a circle
\* only if two of them are inside run().
THEOREM LocksSafe == Spec => [](TypeOK /\ NoDeadlock)
<1>1. LocksInv => NoDeadlock
  BY CircleIsInRun DEF NoDeadlock
<1> QED
  BY <1>1, InitLocksInv, NextLocksInv, TypeOKHolds, PTL DEF Spec

\* As long as there is one processTou, touSocket's first, run_t_mtx lets one
\* thread at a time into run(), and no threads at all wait for each other in a
\* circle.
THEOREM OneTouNeverDeadlocks ==
    ASSUME MaxTou = 1
    PROVE  Spec => []NoCircle
<1>1. ASSUME LocksInv, NEW t \in Threads, NEW u \in Threads, t # u
      PROVE  ~(InRun(t) /\ InRun(u))
  <2>1. held[t] \cap held[u] = {} /\ 1 .. MaxTou = {1}
    BY <1>1 DEF LocksInv
  <2> QED
    BY <2>1 DEF InRun
<1>2. LocksInv => NoCircle
  BY <1>1, CircleIsInRun DEF NoCircle
<1> QED
  BY <1>2, InitLocksInv, NextLocksInv, PTL DEF Spec
=============================================================================
