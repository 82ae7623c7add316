----------------------------- MODULE TimerHeap -----------------------------
(***************************************************************************)
(* Several connections of one process on the one heap of timerCk, with the *)
(* one processTou that serves them all: send() and run() for any socket,   *)
(* the timer thread, and the two things the connections share unawares,    *)
(* the order of the heap and the member socktb.                            *)
(*                                                                         *)
(* Sender has the detail of one connection.  Here a segment is one unit of *)
(* its connection's sequence, the window never closes, times are "may have *)
(* expired" and a duplicate acknowledgement may be the third in a row.     *)
(* Bodies under timer_heap_mtx are one step: nothing else they read is     *)
(* changed while they run, but for snd_una, read once.                     *)
(***************************************************************************)
EXTENDS Integers, Sequences, SequencesExt, FiniteSetsExt

CONSTANTS
    Conns,          \* the sockets, by descriptor
    Apps,           \* application threads
    Timer,          \* the timer thread
    NoOne,          \* holder of a mutex nobody holds
    MaxSegs,        \* bound: segments sent on a connection
    PostponeBelow,  \* 8: heaps smaller than this are gone over by postpone_timer
    Overlap         \* may a send() overlap with another thread's run()?

Threads == Apps \cup {Timer}

ASSUME TimerHeapAssumption ==
    /\ Conns \subseteq Nat /\ Conns # {}
    /\ Timer \notin Apps /\ NoOne \notin Threads
    /\ MaxSegs \in Nat /\ PostponeBelow \in Nat /\ Overlap \in BOOLEAN

VARIABLES
    heap,      \* timerheap: nodes [c_id, st, p_id, rex], the top first
    front,     \* c_id in the storage top() reads, the heap being empty or not
    snd_una,   \* of each connection
    snd_nxt,
    socktb,    \* the member of processTou: the socket looked up last
    runBy,     \* holder of run_t_mtx
    sendBy,    \* holder of send_mtx
    pc,        \* where each thread is
    conn,      \* the socket its call is about
    stb,       \* proc_ack: its argument, what socktb was when it was called
    ack,       \* run(): the acknowledgement number
    seq,       \* send(): the segment's, between sendto and tmng.add
    mixed,     \* history: have two connections been in flight at a time?
    died       \* "no", or how the process ended: "exit", "assert"

tcb == <<snd_una, snd_nxt>>
mutexes == <<runBy, sendBy>>
vars == <<heap, front, snd_una, snd_nxt, socktb, runBy, sendBy, pc, conn, stb,
          ack, seq, mixed, died>>

Lowest == Min(Conns)
Goto(t, label) == pc' = [pc EXCEPT ![t] = label]
Home(t) == IF t = Timer THEN "poll" ELSE "idle"

Init ==
    /\ heap = <<>> /\ front = Lowest
    /\ snd_una = [c \in Conns |-> 1] /\ snd_nxt = [c \in Conns |-> 1]
    /\ socktb = Lowest
    /\ runBy = NoOne /\ sendBy = NoOne
    /\ pc = [t \in Threads |-> "idle"] /\ conn = [t \in Threads |-> Lowest]
    /\ stb = Lowest /\ ack = 0 /\ seq = 0
    /\ mixed = FALSE /\ died = "no"

\* Fault for Before: the older order, the sequence number first.
BeforeBySeq(m, n) == m.p_id < n.p_id \/ (m.p_id = n.p_id /\ m.c_id < n.c_id)

\* heapComp: the lower descriptor is nearer to the top, then the lower number.
Before(m, n) == m.c_id < n.c_id \/ (m.c_id = n.c_id /\ m.p_id < n.p_id)

\* timerheap.push(node)
Pushed(nodes, node) ==
    LET below == SelectInSeq(nodes, LAMBDA n : ~Before(n, node))
    IN InsertAt(nodes, IF below = 0 THEN Len(nodes) + 1 ELSE below, node)

\* Fault for Rexmitted: the node is pushed without being popped.
RexmittedTwice(nodes) == Pushed(nodes, [Head(nodes) EXCEPT !.rex = TRUE])

\* A retransmission: the top is popped and pushed again, marked.
Rexmitted(nodes) == Pushed(Tail(nodes), [Head(nodes) EXCEPT !.rex = TRUE])

\* What pops leave of the heap, down to the first node that Stays accepts.
DownTo(nodes, Stays(_)) ==
    LET first == SelectInSeq(nodes, Stays)
    IN IF first = 0 THEN <<>> ELSE SubSeq(nodes, first, Len(nodes))

\* A node's storage outlives its removal: top() of an empty heap still reads it.
Heap(nodes) ==
    /\ heap' = nodes
    /\ front' = IF nodes # <<>> THEN Head(nodes).c_id
                ELSE IF heap # <<>> THEN Last(heap).c_id ELSE front
-----------------------------------------------------------------------------
(* processTou::send                                                        *)

InFlight(c) ==
    \/ snd_una[c] < snd_nxt[c]
    \/ \E i \in DOMAIN heap : heap[i].c_id = c

\* touSend, or run() having processed an acknowledgement.
SendEnter(t, c) ==
    /\ sendBy = NoOne
    /\ \/ /\ t # Timer /\ pc[t] = "idle"
          /\ Overlap \/ runBy = NoOne
       \/ pc[t] = "send" /\ c = conn[t]
    /\ sendBy' = t /\ socktb' = c
    /\ conn' = [conn EXCEPT ![t] = c]
    /\ Goto(t, "loop")
    /\ UNCHANGED <<heap, front, tcb, runBy, stb, ack, seq, mixed, died>>

\* gen_pkt and sendto, for the connection that socktb names by now.
SendPkt(t) ==
    /\ pc[t] = "loop" /\ snd_nxt[socktb] <= MaxSegs
    /\ seq' = snd_nxt[socktb]
    /\ snd_nxt' = [snd_nxt EXCEPT ![socktb] = @ + 1]
    /\ mixed' = (mixed \/ \E c \in Conns \ {socktb} : InFlight(c))
    /\ Goto(t, "add")
    /\ UNCHANGED <<heap, front, snd_una, socktb, mutexes, conn, stb, ack, died>>

\* tmng.add
SendAdd(t) ==
    /\ pc[t] = "add"
    /\ Heap(Pushed(heap, [c_id |-> conn[t], st |-> socktb, p_id |-> seq + 1, rex |-> FALSE]))
    /\ seq' = 0
    /\ Goto(t, "loop")
    /\ UNCHANGED <<tcb, socktb, mutexes, conn, stb, ack, mixed, died>>

\* Nothing left in cb_send: the end of send(), and of the run() around it.
SendDone(t) ==
    /\ pc[t] = "loop"
    /\ sendBy' = NoOne
    /\ runBy' = IF runBy = t THEN NoOne ELSE runBy
    /\ ack' = IF runBy = t THEN 0 ELSE ack
    /\ Goto(t, IF runBy = t THEN Home(t) ELSE "idle")
    /\ UNCHANGED <<heap, front, tcb, socktb, conn, stb, seq, mixed, died>>
-----------------------------------------------------------------------------
(* processTou::run on an acknowledgement                                   *)

\* The timer thread polls the socket of the node on top, an application any.
\* run_recvfrom and processGetPktState.  A peer acknowledges what it was sent,
\* and goes on doing so: its timer repeats the last acknowledgement for ever.
RunRecv(t, c, a) ==
    /\ runBy = NoOne
    /\ IF t = Timer THEN pc[t] = "poll" /\ c = front ELSE pc[t] = "idle"
    /\ Overlap \/ sendBy = NoOne
    /\ snd_nxt[c] > 1 /\ a <= snd_nxt[c]
    /\ runBy' = t /\ socktb' = c /\ stb' = c /\ ack' = a
    /\ conn' = [conn EXCEPT ![t] = c]
    /\ Goto(t, "ack")
    /\ UNCHANGED <<heap, front, tcb, sendBy, seq, mixed, died>>

\* proc_ack compares with the connection it was given and updates the one
\* that socktb names.
ProcAck(t) ==
    /\ pc[t] = "ack"
    /\ snd_una' = IF ack > snd_una[stb] THEN [snd_una EXCEPT ![socktb] = ack] ELSE snd_una
    /\ \/ ack > snd_una[stb] /\ Goto(t, "delete")
       \/ ack = snd_una[stb] /\ (Goto(t, "rexmit") \/ Goto(t, "send"))
       \/ ack < snd_una[stb] /\ Goto(t, "send")
    /\ UNCHANGED <<heap, front, snd_nxt, socktb, mutexes, conn, stb, ack, seq,
                   mixed, died>>

\* proc_clear_ackedpkt(cid, ..): the connection's nodes below its number go ...
FromNumber(nodes, c, una) == DownTo(nodes, LAMBDA n : n.c_id # c \/ n.p_id >= una)

\* ... and the one at the number, which ends the search.
Deleted(nodes, c, una) ==
    LET rest == FromNumber(nodes, c, una)
    IN IF rest # <<>> /\ Head(rest).c_id = c /\ Head(rest).p_id = una
       THEN Tail(rest) ELSE rest

\* delete_timer.  A node of another connection met on the way, before the one
\* that ends the search, makes the process exit.
DeleteTimer(t) ==
    LET rest == FromNumber(heap, conn[t], ack)
    IN /\ pc[t] = "delete"
       /\ Heap(Deleted(heap, conn[t], ack))
       /\ IF rest # <<>> /\ Head(rest).c_id # conn[t]
          THEN died' = "exit" /\ UNCHANGED pc
          ELSE Goto(t, "send") /\ UNCHANGED died
       /\ UNCHANGED <<tcb, socktb, mutexes, conn, stb, ack, seq, mixed>>

\* rexmit_for_dup_ack: the connection's nodes that begin below the number go.
Searched(nodes, c, a) == DownTo(nodes, LAMBDA n : n.c_id # c \/ n.p_id - 1 >= a)

\* rexmit_for_dup_ack: the node that begins at the number is retransmitted; one
\* beyond it, or of another connection, makes the process exit.
RexmitDupAck(t) ==
    LET rest == Searched(heap, conn[t], ack)
        mine == rest # <<>> /\ Head(rest).c_id = conn[t] /\ Head(rest).p_id - 1 = ack
    IN /\ pc[t] = "rexmit"
       /\ Heap(IF mine THEN Rexmitted(rest) ELSE rest)
       /\ IF rest = <<>> \/ mine THEN Goto(t, "send") /\ UNCHANGED died
                                 ELSE died' = "exit" /\ UNCHANGED pc
       /\ UNCHANGED <<tcb, socktb, mutexes, conn, stb, ack, seq, mixed>>
-----------------------------------------------------------------------------
(* timerCk::doit                                                           *)

TimerWakes ==
    /\ pc[Timer] = "idle" /\ heap # <<>>
    /\ Goto(Timer, "poll")
    /\ UNCHANGED <<heap, front, tcb, socktb, mutexes, conn, stb, ack, seq, mixed, died>>

\* run() has run_t_mtx and finds no packet on the socket.
TimerNoPacket ==
    /\ pc[Timer] = "poll" /\ runBy = NoOne
    /\ Overlap \/ sendBy = NoOne
    /\ socktb' = front
    /\ Goto(Timer, "fire")
    /\ UNCHANGED <<heap, front, tcb, mutexes, conn, stb, ack, seq, mixed, died>>

\* Fault for Cleared: what is below snd_nxt goes.
ClearedSent(nodes) ==
    IF nodes = <<>> THEN <<>>
    ELSE DownTo(nodes, LAMBDA n : n.p_id > snd_nxt[Head(nodes).st])

\* proc_clear_ackedpkt(): every node, whosever it is, is compared with the
\* number of the connection that was on top when it began.
Cleared(nodes) ==
    IF nodes = <<>> THEN <<>>
    ELSE DownTo(nodes, LAMBDA n : n.p_id > snd_una[Head(nodes).st])

\* proc_sndpkt, when the time of the node on top has not come, or nothing is left.
TimerWaits ==
    /\ pc[Timer] = "fire"
    /\ Heap(Cleared(heap))
    /\ Goto(Timer, "idle")
    /\ UNCHANGED <<tcb, socktb, mutexes, conn, stb, ack, seq, mixed, died>>

\* proc_sndpkt, when it has come: it is retransmitted, and postpone_timer goes
\* over its connection's other nodes with its assertion.
TimerFires ==
    LET nodes == Cleared(heap)
        top == Head(nodes)
    IN /\ pc[Timer] = "fire" /\ nodes # <<>>
       /\ Heap(Rexmitted(nodes))
       /\ IF Len(nodes) < PostponeBelow /\ \E i \in DOMAIN nodes :
                nodes[i].c_id = top.c_id /\ nodes[i].p_id > top.p_id /\ nodes[i].rex
          THEN died' = "assert" /\ UNCHANGED pc
          ELSE Goto(Timer, "idle") /\ UNCHANGED died
       /\ UNCHANGED <<tcb, socktb, mutexes, conn, stb, ack, seq, mixed>>
-----------------------------------------------------------------------------
Next ==
    /\ died = "no"
    /\ \/ \E t \in Threads, c \in Conns : SendEnter(t, c)
       \/ \E t \in Threads : SendPkt(t) \/ SendAdd(t) \/ SendDone(t)
       \/ \E t \in Threads, c \in Conns, a \in 1..(MaxSegs + 1) : RunRecv(t, c, a)
       \/ \E t \in Threads : ProcAck(t) \/ DeleteTimer(t) \/ RexmitDupAck(t)
       \/ TimerWakes \/ TimerNoPacket \/ TimerWaits \/ TimerFires

Spec == Init /\ [][Next]_vars
-----------------------------------------------------------------------------
Nodes == [c_id : Conns, st : Conns, p_id : Nat, rex : BOOLEAN]

\* Types; and the heap has every segment once, the top first.
TypeOK ==
    /\ heap \in Seq(Nodes)
    /\ \A i \in 1..(Len(heap) - 1) :
          \/ heap[i].c_id < heap[i + 1].c_id
          \/ heap[i].c_id = heap[i + 1].c_id /\ heap[i].p_id < heap[i + 1].p_id
    /\ front \in Conns
    /\ snd_una \in [Conns -> Nat] /\ snd_nxt \in [Conns -> Nat]
    /\ \A c \in Conns : snd_una[c] <= snd_nxt[c]
    /\ socktb \in Conns /\ conn \in [Threads -> Conns] /\ stb \in Conns
    /\ runBy \in Threads \cup {NoOne} /\ sendBy \in Threads \cup {NoOne}
    /\ pc \in [Threads -> {"idle", "loop", "add", "send", "ack", "delete", "rexmit",
                           "poll", "fire"}]
    /\ ack \in Nat /\ seq \in Nat /\ mixed \in BOOLEAN
    /\ died \in {"no", "exit", "assert"}

\* Every segment sent on the connection and not acknowledged is on the heap, or
\* about to be put there: what Sender's UnackedIsHeld says of one connection.
Keeps(c) == \A s \in snd_una[c]..(snd_nxt[c] - 1) :
    \/ \E i \in DOMAIN heap : heap[i].c_id = c /\ heap[i].p_id = s + 1
    \/ \E t \in Threads : pc[t] = "add" /\ conn[t] = c /\ seq = s

\* proc_clear_ackedpkt cleans up "the acked(useless) nodes from timerheap in
\* terms of snd_una" (timer.cpp:422): no connection loses a node it needs.
AllKeep == \A c \in Conns : Keeps(c)

\* As long as no send() overlaps with another thread's run() (Overlap), the
\* connection with the lowest descriptor loses none, whatever the others have in
\* flight and the timer thread does between proc_ack and delete_timer: its nodes
\* come first in the heap, and it is its own number that clears it.
LowestKeeps == Keeps(Lowest)

\* As long as no send() overlaps with another thread's run(), and no two
\* connections have segments in flight at a time, nobody loses a node, and no
\* acknowledgement and no timeout, not even a run() for a socket whose nodes the
\* timer thread has just cleared, ends the process.  One thing does: a third
\* duplicate for a connection that has nothing in flight itself.
AloneIsSafe ==
    ~mixed => /\ AllKeep
              /\ died # "no" => \E t \in Threads : pc[t] = "rexmit" /\ ~InFlight(conn[t])
=============================================================================
