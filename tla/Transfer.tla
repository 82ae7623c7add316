------------------------------ MODULE Transfer ------------------------------
(***************************************************************************)
(* An established connection from end to end, in one direction: the        *)
(* sending half of Sender at one process and the receiving half of         *)
(* Receiver at the other, the datagram network between them.               *)
(*                                                                         *)
(* The network loses segments (Transmit) and delivers those it keeps in    *)
(* any order.  It loses, reorders and repeats acknowledgements at will:    *)
(* any number ever acknowledged may come in at any time.  It does not      *)
(* repeat segments; the copies a receiver sees are retransmissions.        *)
(*                                                                         *)
(* The peer is proj.cpp's server, select, run and touRecv in turn, so the  *)
(* buffer is empty when run() starts.                                      *)
(***************************************************************************)
EXTENDS Sender

CONSTANTS
    RcvSize,         \* size of the peer's receive buffer, cb_recv
    RECVBUFSIZE,     \* room its run() wants before it takes another packet
    MaxCopies        \* bound: copies of a segment in the peer's out-of-order heap

ASSUME TransferAssumption == {RcvSize, RECVBUFSIZE, MaxCopies} \subseteq Nat

VARIABLES
    rcv_nxt, minhp_recv, stored, nread, runstate, t_delack_state, ack_node,
    rpc, rcur, tp, acked, sinceAck, rdied,      \* the peer: see Receiver
    everAcked        \* the numbers of the acknowledgements the peer has sent

\* The segments of the stream that carry data.
Streamed == {segment \in [seq : 1..StreamLen, from : 1..StreamLen, len : 1..SMSS] :
                /\ segment.seq = segment.from
                /\ segment.seq + segment.len - 1 <= StreamLen}

R == INSTANCE Receiver WITH
        Segs <- Streamed, CbSize <- RcvSize, RecvLens <- {RcvSize},
        Drained <- TRUE, Dup <- TRUE, cur <- rcur, died <- rdied

peer == <<rcv_nxt, minhp_recv, stored, nread, runstate, t_delack_state, ack_node,
          rpc, rcur, tp, acked, sinceAck, rdied>>
host == <<written, popped, snd_una, snd_nxt, cc, timerheap, runBy, sendBy, pc,
          ack, xmit_cnt, curwnd, cur, died>>
allVars == <<vars, peer, everAcked>>

InitTransfer == InitSender /\ R!Init /\ everAcked = {}
-----------------------------------------------------------------------------
\* An acknowledgement, new or old, reaches a run() of the sending process.
DeliverAck(t, a) ==
    /\ died = "no"
    /\ RunRecv(t, a)
    /\ UNCHANGED <<dataNet, peer, everAcked>>

\* What the peer has acknowledged may be under way from now on.
Acknowledging == everAcked' = everAcked \cup ({acked'} \ {0})

\* A packet without data, which a sender sends only where threads overlap, is no
\* concern of the peer's receiving half.  In the middle of a run() it ends that
\* run() (R!RunEnd), like a packet that is not there yet.
TakesNoData ==
    /\ rdied = "no" /\ rpc = "idle" /\ runstate = "GET_PKT" /\ R!Used = 0
    /\ UNCHANGED peer

\* A segment reaches the peer's run().
Deliver ==
    /\ \E segment \in BagToSet(dataNet) :
          /\ IF segment.len = 0 THEN TakesNoData ELSE R!Arrive(segment)
          /\ dataNet' = dataNet (-) SetToBag({segment})
    /\ Acknowledging
    /\ UNCHANGED host

HostStep == Internal /\ UNCHANGED <<peer, everAcked>>
PeerStep == R!Internal /\ Acknowledging /\ UNCHANGED <<host, dataNet>>

NextTransfer ==
    /\ \/ HostStep
       \/ \E t \in Threads, a \in everAcked : DeliverAck(t, a)
       \/ Deliver
       \/ PeerStep
    /\ UNCHANGED overlap

Safety == InitTransfer /\ [][NextTransfer]_allVars
-----------------------------------------------------------------------------
(* Fairness.  The scheduler, the mutexes and the network starve nobody for *)
(* ever, and neither loss nor acknowledgements pouring in go on for ever.  *)

Host(A) == A /\ died = "no" /\ UNCHANGED <<peer, everAcked, overlap>>
Peer(A) == A /\ rdied = "no" /\ Acknowledging /\ UNCHANGED <<host, dataNet, overlap>>

\* What run() of the peer does with the packet it has.
PeerRuns == \/ R!Put \/ R!Recover \/ R!RecoverDone \/ R!Delack \/ R!RunEnd
            \/ \E top \in R!Tops : R!RecoverOne(top) \/ R!RecoverFull(top)

Fairness ==
    \* Each thread of the sending process goes on, and gets send_mtx.
    /\ \A t \in Threads : SF_allVars(Host(SendStep(t) \/ RunStep(t)))
    /\ WF_allVars(Host(TimerWakes \/ TimerClear \/ TimerSetsWindow))
    \* The timer thread gets run_t_mtx with no packet waiting, now and then.
    /\ SF_allVars(Host(TimerNoPacket))
    \* The top node's time comes, and not every retransmission is lost.
    /\ SF_allVars(Host(TimerFires) /\ dataNet' # dataNet)
    \* Of the acknowledgements of something new one comes in.
    /\ SF_allVars(\E t \in Threads, a \in everAcked :
                     a > snd_una /\ DeliverAck(t, a) /\ UNCHANGED overlap)
    \* Segments that are not lost are delivered.
    /\ WF_allVars(Deliver /\ UNCHANGED overlap)
    \* The peer's select() calls run() when a packet waits, and touRecv after it.
    /\ WF_allVars(Peer(PeerRuns))
    /\ WF_allVars(Peer(R!RunResume) /\ dataNet # EmptyBag)
    /\ WF_allVars(Peer(R!TouRecv(RcvSize)))
    \* The peer's timer thread.
    /\ WF_allVars(Peer(R!TimerDelack))

SpecTransfer == Safety /\ Fairness
-----------------------------------------------------------------------------
Stream == INSTANCE ByteStream WITH received <- SubSeq(stored, 1, nread)

\* The applications see a byte stream, if it has no zero byte (NulAt): what touRecv
\* has returned is a prefix of what touSend has accepted, whatever was lost,
\* reordered and retransmitted.
StreamSafety == Stream!Safety

\* Everything touSend accepts is returned by touRecv in the end, as long as the
\* stream has no zero byte and touSend does not overlap with another thread's
\* run() (NulAt and Overlaps say so), and unless run() of the peer dies of
\* deleting tp unassigned: timeouts, fast retransmissions, stale
\* acknowledgements, a receive buffer that fills in the middle of a recovery and
\* a window that cal_num_caxmit rounds to nothing leave no state in which the two
\* ends wait for each other.
AllDelivered == []<>(nread = written \/ rdied = "crash")

\* The two ends' numbers keep their order, whichever acknowledgements are lost,
\* late or repeated; and what the sender has let go of is in the peer's buffer,
\* but for the segment the peer's run() is about to put there.
EndsAgree ==
    /\ snd_una <= rcv_nxt /\ rcv_nxt <= snd_nxt
    /\ snd_una <= Len(stored) + 1 + (IF rpc = "put" THEN rcur.len ELSE 0)

\* When no thread of the sending process is at work and the timer heap is empty,
\* so that nothing is going to be sent again, every byte touSend() accepted is
\* in the peer's buffer, or about to be put there: the sender does not come to
\* rest before.  A node dropped too early, or data left in the send buffer
\* when the window opens, would break it.
QuietIsDone ==
    Busy = {} /\ timerheap = <<>>
        => written <= Len(stored) + (IF rpc = "put" THEN rcur.len ELSE 0)

\* The peer's run() and timer always find the acknowledgement's node, so that
\* update_ack does not exit.  As long as touSend does not overlap with another
\* thread's run(), and the network repeats no segment, neither process ends by
\* itself: no acknowledgement is beyond snd_nxt, and no segment lies twice in the
\* out-of-order heap, which would make the assertion of do_proc_pkt_rec fail, for
\* the sender retransmits a segment only when all before it is acknowledged.
BothLive ==
    /\ rdied # "exit"
    /\ ~overlap => died = "no" /\ rdied # "assert"
=============================================================================
