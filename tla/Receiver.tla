------------------------------ MODULE Receiver ------------------------------
(***************************************************************************)
(* The receiving half of one established connection: processTou::run on    *)
(* data segments, with its finite state machine, the out-of-order heap and *)
(* the delayed acknowledgement; the timer thread's proc_delack; and        *)
(* touRecv.                                                                *)
(*                                                                         *)
(* run_t_mtx lets one thread at a time into run(), whichever it is: rpc is *)
(* where that thread is.  The timer's proc_delack and, unless Drained, a   *)
(* touRecv of another thread come between its steps.  ack_mtx,             *)
(* stb_tc_ack_mtx and stb_cb_recv_mtx are held within one step only.       *)
(*                                                                         *)
(* Bytes are positions of the stream, as in Sender; the connection starts  *)
(* with rcv_nxt = 1.                                                       *)
(***************************************************************************)
EXTENDS Integers, Sequences

CONSTANTS
    Segs,         \* the segments that may come in: [seq, from, len]
    CbSize,       \* size of the receive buffer, cb_recv
    RECVBUFSIZE,  \* room run() wants before it takes another packet
    RecvLens,     \* the lengths touRecv is called with
    Drained,      \* proj.cpp's server: touRecv empties the buffer after each run()
    Dup,          \* may a segment that waits in minhp_recv come in again?
    MaxCopies     \* bound: copies of a segment in minhp_recv

ASSUME ReceiverAssumption ==
    /\ Segs \subseteq [seq : Nat \ {0}, from : Nat \ {0}, len : Nat \ {0}]
    /\ CbSize \in Nat /\ RECVBUFSIZE \in Nat /\ MaxCopies \in Nat
    /\ RecvLens \subseteq Nat
    /\ Drained \in BOOLEAN /\ Dup \in BOOLEAN

VARIABLES
    rcv_nxt,         \* next sequence number expected
    minhp_recv,      \* the out-of-order heap: how many copies of each segment
    stored,          \* the bytes put into cb_recv since the start, in order
    nread,           \* how many of them touRecv has taken out
    runstate,        \* where the next run() starts
    t_delack_state,  \* the delayed acknowledgement's state
    ack_node,        \* p_id of the node in ackdeque, 0 if there is none
    rpc,             \* where run() is
    cur,             \* the segment in tp
    tp,              \* has tp, a local of run(), been assigned?
    acked,           \* history: the last acknowledgement number sent
    sinceAck,        \* history: segments taken in order since then
    died             \* "no", or how the process ended: "assert", "exit", "crash"

buffer == <<stored, nread>>
delack == <<t_delack_state, ack_node, acked, sinceAck>>
vars == <<rcv_nxt, minhp_recv, stored, nread, runstate, t_delack_state, ack_node,
          rpc, cur, tp, acked, sinceAck, died>>

NoSegment == [seq |-> 0, from |-> 0, len |-> 0]

Init ==
    /\ rcv_nxt = 1
    /\ minhp_recv = [s \in Segs |-> 0]
    /\ stored = <<>> /\ nread = 0
    /\ runstate = "GET_PKT"
    /\ t_delack_state = "XMIT" /\ ack_node = 0
    /\ rpc = "idle" /\ cur = NoSegment /\ tp = FALSE
    /\ acked = 0 /\ sinceAck = 0
    /\ died = "no"

Used == Len(stored) - nread
Waiting == {s \in Segs : minhp_recv[s] > 0}
Bytes(segment) == [i \in 1..segment.len |-> segment.from + i - 1]

\* minhp_recv.top(): any of the segments with the lowest number.
Tops == {s \in Waiting : \A r \in Waiting : s.seq <= r.seq}

\* cb_recv.insert takes a segment whole or not at all.
Fits(segment) == segment.len < CbSize - Used
-----------------------------------------------------------------------------
(* run(): getting a packet                                                 *)

\* Fault for InOrder: a segment past a gap is taken too.
InOrderOrLater(segment) == segment.seq >= rcv_nxt

\* Fault for InOrder: so is one that was taken before.
InOrderOrEarlier(segment) == segment.seq <= rcv_nxt

InOrder(segment) == segment.seq = rcv_nxt

\* processGetPktState and the case it selects.  rcv_nxt moves before the bytes
\* are in the buffer.
Take(segment) ==
    /\ cur' = segment /\ tp' = TRUE
    /\ \/ /\ InOrder(segment)
          /\ rcv_nxt' = segment.seq + segment.len
          /\ rpc' = "put"
          /\ UNCHANGED <<minhp_recv, t_delack_state>>
       \/ /\ segment.seq < rcv_nxt
          /\ rpc' = "next"
          /\ UNCHANGED <<rcv_nxt, minhp_recv, t_delack_state>>
       \/ /\ segment.seq > rcv_nxt /\ ~InOrder(segment)
          /\ minhp_recv' = [minhp_recv EXCEPT ![segment] = @ + 1]
          /\ t_delack_state' = "IMMED"
          /\ rpc' = "delack"
          /\ UNCHANGED rcv_nxt
    /\ UNCHANGED <<buffer, runstate, ack_node, acked, sinceAck>>

\* run() with a packet waiting; with none it returns at once.
RunGetPkt(segment) ==
    /\ rpc = "idle" /\ runstate = "GET_PKT"
    /\ Drained => Used = 0
    /\ Take(segment)
    /\ UNCHANGED died

\* run() after one whose recovery found the buffer full: it takes no packet.
RunResume ==
    /\ rpc = "idle" /\ runstate = "PKT_RECOVERY"
    /\ Drained => Used = 0
    /\ rpc' = "recover" /\ cur' = NoSegment /\ tp' = FALSE
    /\ UNCHANGED <<rcv_nxt, minhp_recv, buffer, runstate, delack, died>>

\* putcircbuf, its result not looked at.
Put ==
    /\ rpc = "put"
    /\ stored' = IF Fits(cur) THEN stored \o Bytes(cur) ELSE stored
    /\ sinceAck' = sinceAck + 1
    /\ rpc' = "recover"
    /\ UNCHANGED <<rcv_nxt, minhp_recv, nread, runstate, t_delack_state, ack_node,
                   cur, tp, acked, died>>
-----------------------------------------------------------------------------
(* run(): PROCESS_PKT_RECOVERY, proc_pkt_rec                               *)

Recover ==
    /\ rpc = "recover"
    /\ IF Waiting = {}
       THEN runstate' = "GET_PKT" /\ rpc' = "delack"
       ELSE rpc' = "loop" /\ UNCHANGED runstate
    /\ UNCHANGED <<rcv_nxt, minhp_recv, buffer, delack, cur, tp, died>>

\* Fault for Popped: the segment stays on the heap.
PoppedNot(top) == minhp_recv

Popped(top) == [minhp_recv EXCEPT ![top] = @ - 1]

\* The loop of do_proc_pkt_rec takes one more segment from the heap.
RecoverOne(top) ==
    /\ rpc = "loop"
    /\ top.seq = rcv_nxt /\ Fits(top)
    /\ stored' = stored \o Bytes(top)
    /\ rcv_nxt' = top.seq + top.len
    /\ minhp_recv' = Popped(top)
    /\ sinceAck' = sinceAck + 1
    /\ UNCHANGED <<nread, runstate, t_delack_state, ack_node, rpc, cur, tp, acked, died>>

\* The state an ended recovery leaves: every packet is now to be acknowledged
\* at once, and the next run() goes on where this one stopped.
RecoverEnds(state) ==
    /\ t_delack_state' = "IMMED"
    /\ runstate' = state
    /\ UNCHANGED <<rcv_nxt, minhp_recv, buffer, ack_node, acked, sinceAck, cur, tp, died>>

\* The heap is empty, or there is a gap before the segment on top.
RecoverDone ==
    /\ rpc = "loop"
    /\ \A top \in Tops : top.seq > rcv_nxt
    /\ rpc' = "delack"
    /\ RecoverEnds("GET_PKT")

\* Fault for AfterFull: the failure is not remembered.
AfterFullForgets == "GET_PKT"

AfterFull == "PKT_RECOVERY"

\* The buffer has no room for the segment on top; nothing is acknowledged.
RecoverFull(top) ==
    /\ rpc = "loop"
    /\ top.seq = rcv_nxt /\ ~Fits(top)
    /\ rpc' = "next"
    /\ RecoverEnds(AfterFull)

\* assert(minhp_recv.top().t.seq >= rcv_nxt) fails.
RecoverAsserts(top) ==
    /\ rpc = "loop"
    /\ top.seq < rcv_nxt
    /\ died' = "assert"
    /\ UNCHANGED <<rcv_nxt, minhp_recv, buffer, runstate, delack, rpc, cur, tp>>
-----------------------------------------------------------------------------
(* Acknowledgements: processTou::proc_delack and timerCk::proc_delack      *)

\* An acknowledgement of rcv_nxt goes out, and the node says so.
SendAck ==
    /\ acked' = rcv_nxt
    /\ ack_node' = rcv_nxt
    /\ sinceAck' = 0

\* Fault for Delayable: a queued acknowledgement is delayed once more.
DelayableTwice == t_delack_state \in {"QUE", "XMIT"}

\* One acknowledgement may wait for the next segment, if none is waiting yet.
Delayable == t_delack_state = "QUE"

\* proc_delack of run(): every acknowledgement goes out but one that may wait.
Delack ==
    /\ rpc = "delack"
    /\ IF Delayable
       THEN /\ IF ack_node = 0
               THEN died' = "exit" /\ UNCHANGED ack_node
               ELSE ack_node' = rcv_nxt /\ UNCHANGED died
            /\ t_delack_state' = "XMIT"
            /\ UNCHANGED <<acked, sinceAck>>
       ELSE SendAck /\ t_delack_state' = "QUE" /\ UNCHANGED died
    /\ rpc' = "next"
    /\ UNCHANGED <<rcv_nxt, minhp_recv, buffer, runstate, cur, tp>>

\* The timer finds a node whose time has come: nagle_ackms for one that waits,
\* push_ackms for the others; one in state IMMED is left to run().
TimerDelack ==
    /\ ack_node # 0 /\ t_delack_state # "IMMED"
    /\ IF rcv_nxt < ack_node
       THEN died' = "assert" /\ UNCHANGED delack
       ELSE /\ SendAck
            /\ t_delack_state' = IF t_delack_state = "XMIT" THEN "QUEXMIT" ELSE "EXPXMIT"
            /\ UNCHANGED died
    /\ UNCHANGED <<rcv_nxt, minhp_recv, buffer, runstate, rpc, cur, tp>>
-----------------------------------------------------------------------------
(* run(): the end, or another packet; touRecv                              *)

\* delete tp, which has no value if this run() started with a recovery.
DeleteTp == died' \in IF tp THEN {"no"} ELSE {"no", "crash"}

\* Fault for RoomForMore: the room in the buffer is not looked at.
RoomForMoreUnchecked == runstate = "GET_PKT"

\* A packet of any length has room; the last recovery did not fail.
RoomForMore == CbSize - Used >= RECVBUFSIZE /\ runstate = "GET_PKT"

RunNext(segment) ==
    /\ rpc = "next" /\ RoomForMore
    /\ DeleteTp
    /\ Take(segment)

RunEnd ==
    /\ rpc = "next"
    /\ DeleteTp
    /\ rpc' = "idle" /\ cur' = NoSegment /\ tp' = FALSE
    /\ UNCHANGED <<rcv_nxt, minhp_recv, buffer, runstate, delack>>

Readable(len) == IF len < Used THEN len ELSE Used

TouRecv(len) ==
    /\ Drained => rpc = "idle"
    /\ Used > 0
    /\ nread' = nread + Readable(len)
    /\ UNCHANGED <<rcv_nxt, minhp_recv, stored, runstate, delack, rpc, cur, tp, died>>
-----------------------------------------------------------------------------
\* Everything but the arrival of a packet; a process that ended does nothing.
Internal ==
    /\ died = "no"
    /\ \/ RunResume \/ Put \/ Recover \/ RecoverDone \/ Delack \/ RunEnd
       \/ \E top \in Tops : RecoverOne(top) \/ RecoverFull(top) \/ RecoverAsserts(top)
       \/ TimerDelack
       \/ \E len \in RecvLens : TouRecv(len)

\* The network delivers any segment at any time, and again later.
Arrive(segment) ==
    /\ died = "no"
    /\ minhp_recv[segment] < IF Dup THEN MaxCopies ELSE 1
    /\ RunGetPkt(segment) \/ RunNext(segment)

Next == Internal \/ \E segment \in Segs : Arrive(segment)

Spec == Init /\ [][Next]_vars
-----------------------------------------------------------------------------
TypeOK ==
    /\ rcv_nxt \in Nat
    /\ minhp_recv \in [Segs -> Nat]
    /\ stored \in Seq(Nat) /\ nread \in 0..Len(stored)
    /\ runstate \in {"GET_PKT", "PKT_RECOVERY"}
    /\ t_delack_state \in {"XMIT", "QUE", "QUEXMIT", "EXPXMIT", "IMMED"}
    /\ ack_node \in Nat /\ acked \in Nat /\ sinceAck \in Nat
    /\ rpc \in {"idle", "put", "recover", "loop", "delack", "next"}
    /\ cur \in Segs \cup {NoSegment} /\ tp \in BOOLEAN
    /\ died \in {"no", "assert", "exit", "crash"}

\* What touRecv gets is the stream: each byte once, in order, none left out,
\* whatever the order of arrival, the duplicates and the room in the buffer.
StreamIntact == \A i \in 1..Len(stored) : stored[i] = i

\* Even where bytes are lost to a full buffer, touRecv gets none of them twice and
\* none out of order.
NeverBackwards == \A i \in 2..Len(stored) : stored[i - 1] < stored[i]

\* Every byte acknowledged is in the receive buffer, except for those of the
\* segment run() is about to put there: rcv_nxt moved first, and the timer may
\* acknowledge it.  The sender forgets what is acknowledged.
AckedIsStored ==
    acked <= Len(stored) + 1 + (IF rpc = "put" THEN cur.len ELSE 0)

\* Between runs no segment waits in the heap for which its turn has come,
\* unless the next run() starts with it.
NoneReady == rpc = "idle" /\ runstate = "GET_PKT" => \A top \in Tops : top.seq > rcv_nxt

\* At most one segment taken in order is unacknowledged between runs, unless a
\* recovery is unfinished: TOUS_DELACK_QUE delays one acknowledgement, never two.
AckEverySecond == rpc = "idle" /\ runstate = "GET_PKT" => sinceAck <= 1

\* No run() ends in the state IMMED, which keeps the timer from sending
\* acknowledgements, unless the next one starts with the recovery.
TimerNotMuted == rpc = "idle" /\ t_delack_state = "IMMED" => runstate = "PKT_RECOVERY"

\* The assertions of do_proc_pkt_rec and sendack hold, and update_ack finds its node.
NoAssert == died \notin {"assert", "exit"}
=============================================================================
