------------------------------- MODULE Sender -------------------------------
(***************************************************************************)
(* The sending half of one established connection: the application         *)
(* threads in touMain::touSend and touMain::run, the timer thread in       *)
(* timerCk::doit, and what they share: the send buffer, the control block, *)
(* the congestion fields and the timer heap.                               *)
(*                                                                         *)
(* One action is one critical section of the code, or what the code does   *)
(* between two of them.  The mutexes are run_t_mtx (runBy; a thread that   *)
(* cannot have it gives up), send_mtx (sendBy) and timer_heap_mtx (held    *)
(* over several steps only by the timer thread, see HeapFree); stb_mtx and *)
(* sscamutex are held within one step only.                                *)
(*                                                                         *)
(* Bytes are positions of the stream the application writes, 1, 2, 3, ...  *)
(* The connection starts at sequence number 1 (touConnect), so the byte at *)
(* position p belongs in a segment at sequence number p.                   *)
(***************************************************************************)
EXTENDS Congestion, Sequences, SequencesExt, FiniteSets, Bags

CONSTANTS
    Apps,            \* application threads
    Timer,           \* the timer thread
    NoOne,           \* holder of a mutex nobody holds
    MIN_SEND_SIZE,   \* the least window worth sending in, outside CA
    Awnd,            \* snd_awnd, fixed at connection time
    Writes,          \* the numbers of bytes touSend is called with
    StreamLen,       \* bound: bytes the application writes in all
    CbSize,          \* size of the send buffer, cb_send
    Overlaps,        \* may touSend overlap with a run() of another thread?
    NulAt,           \* positions of the stream that hold a zero byte
    NetCap           \* bound: segments in the network at a time

Threads == Apps \cup {Timer}

ASSUME SenderAssumption ==
    /\ Timer \notin Apps /\ NoOne \notin Threads
    /\ MIN_SEND_SIZE \in 1..SMSS
    /\ Awnd \in Nat /\ CbSize \in Nat /\ StreamLen \in Nat /\ NetCap \in Nat
    /\ Writes \subseteq Nat /\ NulAt \subseteq Nat
    /\ Overlaps \subseteq BOOLEAN

VARIABLES
    overlap,    \* which of Overlaps it is: how the application uses the library
    written,    \* bytes the application has put into cb_send
    popped,     \* bytes popsndq has taken out of it
    snd_una,    \* lowest sequence number not acknowledged
    snd_nxt,    \* next sequence number to send
    cc,         \* the congestion fields
    timerheap,  \* timer nodes, by p_id: [pid, from, len, rex]
    runBy,      \* holder of run_t_mtx
    sendBy,     \* holder of send_mtx
    pc,         \* where each thread is
    ack,        \* the acknowledgement number run() is processing
    xmit_cnt,   \* send(): segments it may still send in CA
    curwnd,     \* send(): the window getSendSize read
    cur,        \* send(): the segment popped, not yet on the timer heap
    dataNet,    \* bag of segments in the network: [seq, from, len]
    died        \* "no", or how the process ended: "exit", "assert"

tcb == <<snd_una, snd_nxt>>
buffer == <<written, popped>>
sending == <<xmit_cnt, curwnd, cur>>
vars == <<overlap, written, popped, snd_una, snd_nxt, cc, timerheap, runBy, sendBy, pc,
          ack, xmit_cnt, curwnd, cur, dataNet, died>>

Segments == [seq : Nat, from : Nat, len : Nat]
Nodes == [pid : Nat, from : Nat, len : Nat, rex : BOOLEAN]
NoSegment == [seq |-> 0, from |-> 0, len |-> 0]

Goto(t, label) == pc' = [pc EXCEPT ![t] = label]

\* Where a thread continues when run() returns: the timer thread polls again.
Home(t) == IF t = Timer THEN "poll" ELSE "idle"

\* timer_heap_mtx is free: the timer thread holds it from proc_clear_ackedpkt
\* to the end of proc_sndpkt, everyone else within one step.
HeapFree == pc[Timer] \notin {"fire", "settwnd"}

InitSender ==
    /\ overlap \in Overlaps
    /\ written = 0 /\ popped = 0
    /\ snd_una = 1 /\ snd_nxt = 1
    /\ cc = InitCc
    /\ timerheap = <<>>
    /\ runBy = NoOne /\ sendBy = NoOne
    /\ pc = [t \in Threads |-> "idle"]
    /\ ack = 0
    /\ xmit_cnt = 0 /\ curwnd = 0 /\ cur = NoSegment
    /\ died = "no"
    /\ dataNet = EmptyBag
-----------------------------------------------------------------------------
\* sendto(): the network may lose the segment.
Transmit(segment) ==
    \/ dataNet' = dataNet
    \/ /\ BagCardinality(dataNet) < NetCap
       /\ dataNet' = dataNet (+) SetToBag({segment})

\* A node as the heap keeps it.  node_t is copied through payload->data(), a
\* C string: what the heap holds of a segment ends before its first zero byte.
Kept(segment) ==
    LET nuls == {p \in NulAt : segment.from <= p /\ p < segment.from + segment.len}
    IN [pid |-> segment.seq + segment.len, from |-> segment.from, rex |-> FALSE,
        len |-> IF nuls = {} THEN segment.len
                ELSE (CHOOSE p \in nuls : \A q \in nuls : p <= q) - segment.from]

\* Fault for Start: the difference is not deduced.
StartIsPid(node) == node.pid

\* The sequence number retransmission gives a node: p_id minus payload size.
Start(node) == node.pid - node.len

\* sendpkt(nt): the segment a timer node is retransmitted as.
sendpkt(node) == [seq |-> Start(node), from |-> node.from, len |-> node.len]

\* timerheap.push(node): its place among the nodes, anywhere among equals.
Pushes(heap, node) ==
    {h \in {InsertAt(heap, i, node) : i \in 1..(Len(heap) + 1)} :
        \A i \in 1..(Len(h) - 1) : h[i].pid <= h[i + 1].pid}

\* What is left of the heap from the first node on that Stays accepts.
From(heap, Stays(_)) ==
    LET first == SelectInSeq(heap, Stays)
    IN IF first = 0 THEN <<>> ELSE SubSeq(heap, first, Len(heap))

\* getSendSize(): what curwnd leaves open beyond the bytes in flight.
Room(wnd) == IF snd_una + wnd >= snd_nxt THEN snd_una + wnd - snd_nxt ELSE 0

\* cal_num_caxmit(): an even number of segments; an odd one out is sent along
\* if it is the start of another segment, and dropped if it is exact.
cal_num_caxmit(sz) ==
    LET n == sz \div SMSS
    IN IF n % 2 = 0 THEN n ELSE IF sz % SMSS # 0 THEN n + 1 ELSE n - 1
-----------------------------------------------------------------------------
(* touSend and processTou::send                                            *)

\* touSend: the chunk goes into cb_send whole or not at all, then send().
TouSend(t, n) ==
    /\ t # Timer /\ pc[t] = "idle"
    /\ overlap \/ runBy = NoOne
    /\ written + n <= StreamLen
    /\ written' = IF n < CbSize - (written - popped) THEN written + n ELSE written
    /\ Goto(t, "send")
    /\ UNCHANGED <<popped, tcb, cc, timerheap, runBy, sendBy, ack, sending,
                   dataNet, died>>

\* send(): take send_mtx, count the segments congestion avoidance allows.
SendEnter(t) ==
    /\ pc[t] = "send" /\ sendBy = NoOne
    /\ sendBy' = t
    /\ xmit_cnt' = cal_num_caxmit(Room(getwnd(cc, Awnd)))
    /\ Goto(t, "window")
    /\ UNCHANGED <<buffer, tcb, cc, timerheap, runBy, ack, curwnd, cur,
                   dataNet, died>>

\* The end of send(), and of the run() it was called from, if any.
SendReturn(t) ==
    /\ sendBy' = NoOne
    /\ runBy' = IF runBy = t THEN NoOne ELSE runBy
    /\ ack' = IF runBy = t THEN 0 ELSE ack
    /\ Goto(t, Home(t))
    /\ xmit_cnt' = 0 /\ curwnd' = 0 /\ cur' = NoSegment

\* The loop's condition, and getSendSize's reading of the window.
SendWindow(t) ==
    /\ pc[t] = "window"
    /\ IF written = popped
       THEN SendReturn(t)
       ELSE /\ curwnd' = getwnd(cc, Awnd)
            /\ Goto(t, "pop")
            /\ UNCHANGED <<runBy, sendBy, ack, xmit_cnt, cur>>
    /\ UNCHANGED <<buffer, tcb, cc, timerheap, dataNet, died>>

\* Fault for SendStops: only the count of congestion avoidance ends the loop.
SendStopsCountOnly == cc.cc_state = "CA" /\ xmit_cnt <= 0

\* The two ways out of the loop: the count in CA, the window elsewhere.
SendStops == IF cc.cc_state = "CA" THEN xmit_cnt <= 0
                                   ELSE MIN_SEND_SIZE > Room(curwnd)

\* Fault for SegmentLen: the window is not looked at again.
SegmentLenNoWindow == IF SMSS < written - popped THEN SMSS ELSE written - popped

\* The bytes popsndq takes: a segment, the window and what there is permitting.
SegmentLen ==
    LET want == IF Room(curwnd) >= SMSS THEN SMSS ELSE Room(curwnd)
    IN IF want < written - popped THEN want ELSE written - popped

\* popsndq, gen_pkt, and snd_nxt moved on.
SendPop(t) ==
    /\ pc[t] = "pop"
    /\ IF SendStops
       THEN SendReturn(t) /\ UNCHANGED <<popped, snd_nxt>>
       ELSE /\ cur' = [seq |-> snd_nxt, from |-> popped + 1, len |-> SegmentLen]
            /\ popped' = popped + SegmentLen
            /\ snd_nxt' = snd_nxt + SegmentLen
            /\ xmit_cnt' = IF cc.cc_state = "CA" THEN xmit_cnt - 1 ELSE xmit_cnt
            /\ Goto(t, "sendto")
            /\ UNCHANGED <<runBy, sendBy, ack, curwnd>>
    /\ UNCHANGED <<written, snd_una, cc, timerheap, dataNet, died>>

SendOut(t) ==
    /\ pc[t] = "sendto"
    /\ Transmit(cur)
    /\ Goto(t, "add")
    /\ UNCHANGED <<buffer, tcb, cc, timerheap, runBy, sendBy, ack, sending, died>>

\* tmng.add: an acknowledgement of the segment may have come in before this.
SendAdd(t) ==
    /\ pc[t] = "add" /\ HeapFree
    /\ timerheap' \in Pushes(timerheap, Kept(cur))
    /\ cur' = NoSegment
    /\ Goto(t, "window")
    /\ UNCHANGED <<buffer, tcb, cc, runBy, sendBy, ack, xmit_cnt, curwnd,
                   dataNet, died>>
-----------------------------------------------------------------------------
(* processTou::run, receiving an acknowledgement                           *)

\* proc_ack: the window grows for an acknowledgement above snd_una, and for a
\* stale one, below it, too.
ProcAck(a) ==
    /\ cc' = IF a # snd_una THEN addwnd(cc) ELSE cc
    /\ snd_una' = IF a > snd_una THEN a ELSE snd_una

\* run_recvfrom, processGetPktState and proc_ack, for an ACK without data.  An
\* acknowledgement of bytes not sent matches no case: the process exits.
RunRecv(t, a) ==
    /\ runBy = NoOne
    /\ pc[t] = IF t = Timer THEN "poll" ELSE "idle"
    /\ overlap \/ (sendBy = NoOne /\ \A u \in Apps : pc[u] # "send")
    /\ IF a > snd_nxt
       THEN /\ died' = "exit"
            /\ UNCHANGED <<snd_una, cc, runBy, pc, ack>>
       ELSE /\ runBy' = t
            /\ ack' = a
            /\ ProcAck(a)
            /\ Goto(t, CASE a > snd_una -> "delete"
                          [] a = snd_una -> "dupack"
                          [] a < snd_una -> "send")
            /\ UNCHANGED died
    /\ UNCHANGED <<buffer, snd_nxt, timerheap, sendBy, sending>>

\* Fault for Acknowledged: the node that begins at the acknowledged number,
\* still outstanding, is taken for an acknowledged one.
AcknowledgedStart(heap, una) ==
    From(heap, LAMBDA node : Start(node) > una)

\* proc_clear_ackedpkt(.., una_seq, ..): nodes below the acknowledged number
\* go, and then one whose number it is.
Acknowledged(heap, una) ==
    LET rest == From(heap, LAMBDA node : node.pid >= una)
    IN IF rest # <<>> /\ Head(rest).pid = una THEN Tail(rest) ELSE rest

\* Fault for DeleteTimer: run() returns without a send().
DeleteTimerReturns(t) ==
    /\ pc[t] = "delete" /\ HeapFree
    /\ timerheap' = Acknowledged(timerheap, ack)
    /\ runBy' = NoOne /\ ack' = 0
    /\ Goto(t, Home(t))
    /\ UNCHANGED <<buffer, tcb, cc, sendBy, sending, dataNet, died>>

\* delete_timer
DeleteTimer(t) ==
    /\ pc[t] = "delete" /\ HeapFree
    /\ timerheap' = Acknowledged(timerheap, ack)
    /\ Goto(t, "send")
    /\ UNCHANGED <<buffer, tcb, cc, runBy, sendBy, ack, sending, dataNet, died>>

\* setdwnd, for the third time in a row perhaps ...
DupAck(t) ==
    /\ pc[t] = "dupack"
    /\ cc' = setdwnd(cc, ack = snd_una)
    /\ Goto(t, "ckdup")
    /\ UNCHANGED <<buffer, tcb, timerheap, runBy, sendBy, ack, sending,
                   dataNet, died>>

\* ... and ck_num_dupack, which may find that a timeout has come in between.
CkDupAck(t) ==
    /\ pc[t] = "ckdup"
    /\ Goto(t, IF ck_num_dupack(cc) THEN "rexmit" ELSE "send")
    /\ UNCHANGED <<buffer, tcb, cc, timerheap, runBy, sendBy, ack, sending,
                   dataNet, died>>

\* rexmit_for_dup_ack: nodes that begin below the acknowledged number go, the
\* one that begins at it is retransmitted, one beyond it ends the process.
RexmitDupAck(t) ==
    LET rest == From(timerheap, LAMBDA node : Start(node) >= ack)
    IN /\ pc[t] = "rexmit" /\ HeapFree
       /\ \/ /\ rest = <<>>
             /\ timerheap' = <<>>
             /\ Goto(t, "send")
             /\ UNCHANGED <<dataNet, died>>
          \/ /\ rest # <<>> /\ Start(Head(rest)) = ack
             /\ Transmit(sendpkt(Head(rest)))
             /\ timerheap' \in Pushes(Tail(rest), [Head(rest) EXCEPT !.rex = TRUE])
             /\ Goto(t, "send")
             /\ UNCHANGED died
          \/ /\ rest # <<>> /\ Start(Head(rest)) > ack
             /\ timerheap' = rest
             /\ died' = "exit"
             /\ UNCHANGED <<pc, dataNet>>
       /\ UNCHANGED <<buffer, tcb, cc, runBy, sendBy, ack, sending>>
-----------------------------------------------------------------------------
(* timerCk::doit, every TIMER_WT_TIME                                      *)

\* The thread goes on to poll the socket if the heap is not empty.
TimerWakes ==
    /\ pc[Timer] = "idle" /\ timerheap # <<>>
    /\ Goto(Timer, "poll")
    /\ UNCHANGED <<buffer, tcb, cc, timerheap, runBy, sendBy, ack, sending,
                   dataNet, died>>

\* run() returned -1: it had run_t_mtx, and no packet was waiting.
TimerNoPacket ==
    /\ pc[Timer] = "poll" /\ runBy = NoOne
    /\ Goto(Timer, "clear")
    /\ UNCHANGED <<buffer, tcb, cc, timerheap, runBy, sendBy, ack, sending,
                   dataNet, died>>

\* proc_clear_ackedpkt(): the nodes at or below snd_una go.
TimerClear ==
    /\ pc[Timer] = "clear"
    /\ timerheap' = From(timerheap, LAMBDA node : node.pid > snd_una)
    /\ Goto(Timer, IF timerheap' = <<>> THEN "idle" ELSE "fire")
    /\ UNCHANGED <<buffer, tcb, cc, runBy, sendBy, ack, sending, dataNet, died>>

\* The top node's time has not come.
TimerWaits ==
    /\ pc[Timer] = "fire"
    /\ Goto(Timer, "idle")
    /\ UNCHANGED <<buffer, tcb, cc, timerheap, runBy, sendBy, ack, sending,
                   dataNet, died>>

\* Fault for Fired: the node that was sent last is retransmitted.
FiredLast(heap) == heap[Len(heap)]

\* The node whose time proc_sndpkt looks at: the top.
Fired(heap) == Head(heap)

\* The top node's time has come: it is retransmitted and pushed back, and
\* postpone_timer goes over the others, asserting that a node above the one
\* retransmitted has never been retransmitted itself.  postpone_timer is only
\* called on less than eight nodes; no instance has more.
TimerFires ==
    /\ pc[Timer] = "fire"
    /\ LET top == Fired(timerheap) IN
          /\ Transmit(sendpkt(top))
          /\ timerheap' \in Pushes(RemoveFirst(timerheap, top),
                                   [top EXCEPT !.rex = TRUE])
          /\ IF \E i \in DOMAIN timerheap :
                   timerheap[i].pid > top.pid /\ timerheap[i].rex
             THEN died' = "assert" /\ UNCHANGED pc
             ELSE Goto(Timer, "settwnd") /\ UNCHANGED died
    /\ UNCHANGED <<buffer, tcb, cc, runBy, sendBy, ack, sending>>

\* The last thing proc_sndpkt does before it gives timer_heap_mtx back.
TimerSetsWindow ==
    /\ pc[Timer] = "settwnd"
    /\ cc' = settwnd(cc)
    /\ Goto(Timer, "idle")
    /\ UNCHANGED <<buffer, tcb, timerheap, runBy, sendBy, ack, sending,
                   dataNet, died>>
-----------------------------------------------------------------------------
SendStep(t) == SendEnter(t) \/ SendWindow(t) \/ SendPop(t) \/ SendOut(t) \/ SendAdd(t)
RunStep(t) == DeleteTimer(t) \/ DupAck(t) \/ CkDupAck(t) \/ RexmitDupAck(t)
TimerStep == \/ TimerWakes \/ TimerNoPacket \/ TimerClear
             \/ TimerWaits \/ TimerFires \/ TimerSetsWindow

\* Everything the sender does on its own; a process that ended does nothing.
Internal ==
    /\ died = "no"
    /\ \/ \E t \in Apps, n \in Writes : TouSend(t, n)
       \/ \E t \in Threads : SendStep(t) \/ RunStep(t)
       \/ TimerStep

(* The sender alone, against any network and any receiver: acknowledgements *)
(* come in any number and order, of the end of any segment that was sent.   *)

\* Where the segments sent end: those on the timer heap, and one sent already
\* but not on it yet.
Ends ==
    {timerheap[i].pid : i \in DOMAIN timerheap}
    \cup (IF \E t \in Threads : pc[t] = "add" THEN {cur.seq + cur.len} ELSE {})

\* The numbers an acknowledgement may carry: Ends, snd_una again, and one below
\* it for all the stale ones that may be under way.
Acks == Ends \cup {snd_una} \cup {a \in {snd_una - 1} : a >= 1}

Receive == \E t \in Threads, a \in Acks :
    died = "no" /\ RunRecv(t, a) /\ UNCHANGED dataNet

\* A segment leaves the network, delivered or not.
Absorb ==
    /\ \E segment \in BagToSet(dataNet) : dataNet' = dataNet (-) SetToBag({segment})
    /\ UNCHANGED <<buffer, tcb, cc, timerheap, runBy, sendBy, pc, ack, sending, died>>

Next == (Internal \/ Receive \/ Absorb) /\ UNCHANGED overlap

Spec == InitSender /\ [][Next]_vars
-----------------------------------------------------------------------------
TypeOK ==
    /\ overlap \in BOOLEAN
    /\ written \in 0..StreamLen /\ popped \in 0..StreamLen
    /\ snd_una \in Nat /\ snd_nxt \in Nat
    /\ cc \in CcRecords
    /\ timerheap \in Seq(Nodes)
    /\ runBy \in Threads \cup {NoOne} /\ sendBy \in Threads \cup {NoOne}
    /\ pc \in [Threads -> {"idle", "send", "window", "pop", "sendto", "add",
                           "delete", "dupack", "ckdup", "rexmit",
                           "poll", "clear", "fire", "settwnd"}]
    /\ ack \in Nat /\ xmit_cnt \in Int /\ curwnd \in Nat /\ cur \in Segments
    /\ BagToSet(dataNet) \subseteq Segments
    /\ died \in {"no", "exit", "assert"}

\* The bytes a timer node would retransmit, and those of the segment in hand.
Held(p) ==
    \/ \E i \in DOMAIN timerheap :
          timerheap[i].pid - timerheap[i].len <= p /\ p < timerheap[i].pid
    \/ cur.seq <= p /\ p < cur.seq + cur.len

\* Reliability rests on this: a byte that left the send buffer and is not
\* acknowledged is in a timer node, or in the segment send() is about to put
\* on the heap, whatever acknowledgement, duplicate or timeout comes in
\* between.  A byte in neither would never be retransmitted.
UnackedIsHeld == \A p \in snd_una..(snd_nxt - 1) : Held(p)

\* The threads in touSend() or in a run() that has a packet: each will call
\* send(), unless it is in it.
Busy == {t \in Threads : pc[t] \in {"send", "window", "pop", "sendto", "add",
                                    "delete", "dupack", "ckdup", "rexmit"}}

\* send() "will abort, and waits for next change to xmit data"
\* (processtou.cpp:434-435): there is always a change to come.  Data is left in
\* the send buffer only as long as a segment is in flight, whose timeout or
\* acknowledgement calls send() again, or another thread is about to; whatever
\* changed the window while send() worked with what it had read of it, and
\* however cal_num_caxmit rounded.  Else the data would wait for ever.  It
\* needs a peer's window of more than a segment.
NoStranded == popped < written /\ Busy = {} => snd_una < snd_nxt

\* send() never has more in flight than the peer's window and the clamp allow,
\* although it reads the window, snd_una and snd_nxt at different times.
FlightBounded == snd_nxt - snd_una <= IF Awnd < MaxWnd THEN Awnd ELSE MaxWnd

\* Both kinds of retransmission (timeout, third duplicate) resend the oldest
\* segment only: none that begins beyond snd_una is ever sent again, as long as
\* touSend does not overlap with another thread's run().
RexmitsOldestOnly ==
    ~overlap => \A i \in DOMAIN timerheap :
                    timerheap[i].rex => Start(timerheap[i]) <= snd_una

\* Neither exit(1), in rexmit_for_dup_ack and processGetPktState, nor the failing
\* assertion of postpone_timer is reached, in whatever order acknowledgements,
\* timeouts and writes come, as long as touSend does not overlap with a run().
NoExit == ~overlap => died = "no"

\* Every segment on the wire carries the bytes that belong at its sequence
\* number, retransmissions included ("the seq number stored in timerheap is
\* seq + pkt length", timer.cpp:610-611).
\* node_t's copying, through a C string, is what this depends on.
WireContent == \A segment \in BagToSet(dataNet) : segment.seq = segment.from

\* send() aborts when the window is used up (processtou.cpp:434-435); it never
\* sends a segment of no bytes, unless another thread's run() overlaps with it
\* and ends a fast recovery, which shrinks the window below the flight.
NoEmptySegment == ~overlap => \A t \in Threads : pc[t] = "sendto" => cur.len > 0
=============================================================================
