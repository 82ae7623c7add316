----------------------------- MODULE Connection -----------------------------
(***************************************************************************)
(* The life of one connection between two processes: touConnect and        *)
(* touAccept, run() on what arrives before, during and after the           *)
(* handshake, touClose and its closer thread.  The client sends data, as   *)
(* proj.cpp's does; Sender and Receiver have the detail of that.  Here a   *)
(* segment is one unit of the sequence, and what counts is which packet    *)
(* is taken for what, and in which state.                                  *)
(*                                                                         *)
(* The network loses any packet, delivers in any order, and delivers       *)
(* packets of the kinds DupKinds more than once.  A data segment is also   *)
(* retransmitted by the timer; SYN, SYN ACK and FIN are sent once.         *)
(*                                                                         *)
(* touClose sends its FIN as the bytes of the structure touPkg, not with   *)
(* toString(): kind RAW.  Read back by touPkg(string), which looks for FIN *)
(* in bit 0 of byte 13, these bytes have none of the flags SYN, FIN, ACK   *)
(* set (byte 13 is 0 where u_long has eight bytes and bit 7 alone is set   *)
(* where it has four) and are longer than a header.                        *)
(***************************************************************************)
EXTENDS Integers

CONSTANTS
    MaxData,   \* bound: segments the client sends
    ISS,       \* randnum of touAccept
    DupKinds   \* the kinds of packet the network may deliver again

ASSUME ConnectionAssumption ==
    /\ MaxData \in Nat /\ ISS \in Nat \ {0}
    /\ DupKinds \subseteq {"SYN", "SYNACK", "ACK", "RAW"}

VARIABLES
    pc,         \* where the application's thread is
    sockstate,  \* state of the entry in the socket table
    snd_nxt, snd_una, rcv_nxt,
    held,       \* server: segments that wait in minhp_recv
    ackNode,    \* server: is there a node in ackdeque?
    net,        \* packets that may arrive: [to, kind, seq, ack]
    died        \* "no", or how the process ended: "exit", "crash"

tcb == <<snd_nxt, snd_una, rcv_nxt>>
vars == <<pc, sockstate, snd_nxt, snd_una, rcv_nxt, held, ackNode, net, died>>

Client == "client"
Server == "server"
Ends == {Client, Server}
Peer(e) == IF e = Client THEN Server ELSE Client

Packets == [to : Ends, kind : {"SYN", "SYNACK", "ACK", "DATA", "RAW"}, seq : Nat, ack : Nat]
Packet(e, k, s, a) == [to |-> Peer(e), kind |-> k, seq |-> s, ack |-> a]

\* sendto(): the packet is under way; Lose comes later.
Send(p) == net' = net \cup {p}

\* recvfrom().  A data segment in order or old may come again, because it may
\* have been retransmitted; one ahead of rcv_nxt is never retransmitted (Sender).
Taken(p) ==
    IF p.kind \in DupKinds \/ (p.kind = "DATA" /\ p.seq <= rcv_nxt[Server])
    THEN net ELSE net \ {p}

\* Client and server start: touBind and touListen.
Init ==
    /\ pc = [e \in Ends |-> IF e = Client THEN "start" ELSE "listening"]
    /\ sockstate = [e \in Ends |-> IF e = Client THEN "CLOSED" ELSE "LISTEN"]
    /\ snd_nxt = [e \in Ends |-> 0] /\ snd_una = [e \in Ends |-> 0]
    /\ rcv_nxt = [e \in Ends |-> 0]
    /\ held = {} /\ ackNode = FALSE
    /\ net = {}
    /\ died = [e \in Ends |-> "no"]
-----------------------------------------------------------------------------
(* touConnect and touAccept                                                *)

\* The SYN has sequence number 0; then the client waits for any packet.
Connect ==
    /\ pc[Client] = "start"
    /\ sockstate' = [sockstate EXCEPT ![Client] = "SYN_SENT"]
    /\ snd_nxt' = [snd_nxt EXCEPT ![Client] = 1]
    /\ Send(Packet(Client, "SYN", 0, 0))
    /\ pc' = [pc EXCEPT ![Client] = "connecting"]
    /\ UNCHANGED <<snd_una, rcv_nxt, held, ackNode, died>>

\* Whatever comes is taken for the SYN ACK.
ConnectRecv(p) ==
    /\ pc[Client] = "connecting" /\ p.to = Client
    /\ rcv_nxt' = [rcv_nxt EXCEPT ![Client] = p.seq + 1]
    /\ snd_una' = [snd_una EXCEPT ![Client] = p.ack]
    /\ net' = Taken(p) \cup {Packet(Client, "ACK", snd_nxt[Client], p.seq + 1)}
    /\ sockstate' = [sockstate EXCEPT ![Client] = "ESTABLISHED"]
    /\ pc' = [pc EXCEPT ![Client] = "open"]
    /\ UNCHANGED <<snd_nxt, held, ackNode, died>>

\* Fault for Accept: the final acknowledgement is not waited for.
AcceptAtOnce ==
    /\ pc[Server] = "listening" /\ sockstate[Server] = "SYN_RECEIVED"
    /\ snd_nxt' = [snd_nxt EXCEPT ![Server] = ISS + 1]
    /\ snd_una' = [snd_una EXCEPT ![Server] = ISS]
    /\ Send(Packet(Server, "SYNACK", ISS, rcv_nxt[Server]))
    /\ sockstate' = [sockstate EXCEPT ![Server] = "ESTABLISHED"]
    /\ pc' = [pc EXCEPT ![Server] = "open"]
    /\ UNCHANGED <<rcv_nxt, held, ackNode, died>>

\* touAccept after a run() that received the SYN: it answers, then waits.
Accept ==
    /\ pc[Server] = "listening" /\ sockstate[Server] = "SYN_RECEIVED"
    /\ snd_nxt' = [snd_nxt EXCEPT ![Server] = ISS + 1]
    /\ snd_una' = [snd_una EXCEPT ![Server] = ISS]
    /\ Send(Packet(Server, "SYNACK", ISS, rcv_nxt[Server]))
    /\ pc' = [pc EXCEPT ![Server] = "accepting"]
    /\ UNCHANGED <<sockstate, rcv_nxt, held, ackNode, died>>

\* Fault for AcceptedRcv: the packet counts as received.
AcceptedRcvNext(p) == p.seq + 1

\* touAccept leaves rcv_nxt alone, or sets it to the value it has.
AcceptedRcv(p) == rcv_nxt[Server]

\* Whatever comes is taken for the final acknowledgement, a data segment too,
\* which must then come again.
AcceptRecv(p) ==
    /\ pc[Server] = "accepting" /\ p.to = Server
    /\ snd_una' = [snd_una EXCEPT ![Server] = IF p.ack = @ + 1 THEN p.ack ELSE @]
    /\ rcv_nxt' = [rcv_nxt EXCEPT ![Server] = AcceptedRcv(p)]
    /\ net' = Taken(p)
    /\ sockstate' = [sockstate EXCEPT ![Server] = "ESTABLISHED"]
    /\ pc' = [pc EXCEPT ![Server] = "open"]
    /\ UNCHANGED <<snd_nxt, held, ackNode, died>>
-----------------------------------------------------------------------------
(* The client's data: touSend, and the timer's retransmission              *)

Unacked == snd_una[Client] < snd_nxt[Client]
Data(n) == Packet(Client, "DATA", n, rcv_nxt[Client])

SendData ==
    /\ pc[Client] = "open" /\ snd_nxt[Client] <= MaxData
    /\ Send(Data(snd_nxt[Client]))
    /\ snd_nxt' = [snd_nxt EXCEPT ![Client] = @ + 1]
    /\ UNCHANGED <<pc, sockstate, snd_una, rcv_nxt, held, ackNode, died>>

\* Only the oldest segment is ever retransmitted (RexmitsOldestOnly of Sender).
Rexmit ==
    /\ pc[Client] \in {"open", "closing", "finwait"} /\ Unacked
    /\ Send(Data(snd_una[Client]))
    /\ UNCHANGED <<pc, sockstate, tcb, held, ackNode, died>>
-----------------------------------------------------------------------------
(* processTou::run, for one packet                                         *)

\* Who calls run(): the application until it closes, the server's once before
\* touAccept; the timer thread as long as a segment is on its heap.
Runs(e) ==
    \/ pc[e] = "open"
    \/ e = Server /\ pc[e] = "listening" /\ sockstate[e] = "LISTEN"
    \/ e = Client /\ pc[e] \in {"closing", "finwait"} /\ Unacked

Flagged(p) == p.kind \in {"SYN", "SYNACK"}

\* PROCESS_SYN, whatever the state.
RunSyn(e, p) ==
    /\ Flagged(p)
    /\ sockstate' = [sockstate EXCEPT ![e] = "SYN_RECEIVED"]
    /\ rcv_nxt' = [rcv_nxt EXCEPT ![e] = p.seq + 1]
    /\ UNCHANGED <<snd_una, held, ackNode, died>>

\* Fault for Acknowledges: an acknowledgement of everything is refused.
AcknowledgesLess(e, p) ==
    p.kind = "ACK" /\ sockstate[e] = "ESTABLISHED" /\ p.ack < snd_nxt[e]

Acknowledges(e, p) ==
    p.kind = "ACK" /\ sockstate[e] = "ESTABLISHED" /\ p.ack <= snd_nxt[e]

RunAck(e, p) ==
    /\ Acknowledges(e, p)
    /\ snd_una' = [snd_una EXCEPT ![e] = IF p.ack > @ THEN p.ack ELSE @]
    /\ UNCHANGED <<sockstate, rcv_nxt, held, ackNode, died>>

TakesData(e, p) == p.kind = "DATA" /\ sockstate[e] = "ESTABLISHED"

\* The first segment missing, once n has been taken.
FirstMissing(n) == CHOOSE m \in (n + 1)..(MaxData + 1) :
                      m \notin held /\ (n + 1)..(m - 1) \subseteq held

StillHeld(n) == {m \in held : m > FirstMissing(n)}

\* A segment in order is acknowledged by run() or, after a delay, by the timer.
RunInOrder(e, p) ==
    /\ TakesData(e, p) /\ p.seq = rcv_nxt[e]
    /\ rcv_nxt' = [rcv_nxt EXCEPT ![e] = FirstMissing(p.seq)]
    /\ held' = StillHeld(p.seq)
    /\ ackNode' = TRUE
    /\ UNCHANGED <<sockstate, snd_una, died>>

\* A later one is kept, and rcv_nxt acknowledged at once.
RunEarly(e, p) ==
    /\ TakesData(e, p) /\ p.seq > rcv_nxt[e]
    /\ held' = held \cup {p.seq}
    /\ ackNode' = TRUE
    /\ UNCHANGED <<sockstate, snd_una, rcv_nxt, died>>

\* An earlier one is dropped without a word.
RunOld(e, p) ==
    /\ TakesData(e, p) /\ p.seq < rcv_nxt[e]
    /\ UNCHANGED <<sockstate, snd_una, rcv_nxt, held, ackNode, died>>

\* "state error": none of processGetPktState's cases, so the process exits.
RunExit(e, p) ==
    /\ ~Flagged(p) /\ ~Acknowledges(e, p) /\ ~TakesData(e, p)
    /\ died' = [died EXCEPT ![e] = "exit"]
    /\ UNCHANGED <<sockstate, snd_una, rcv_nxt, held, ackNode>>

Ack == Packet(Server, "ACK", snd_nxt[Server], rcv_nxt'[Server])

Run(e, p) ==
    /\ Runs(e) /\ p.to = e
    /\ \/ /\ RunSyn(e, p) \/ RunAck(e, p) \/ RunOld(e, p) \/ RunExit(e, p)
          /\ net' = Taken(p)
       \/ RunInOrder(e, p) /\ net' \in {Taken(p), Taken(p) \cup {Ack}}
       \/ RunEarly(e, p) /\ net' = Taken(p) \cup {Ack}
    /\ UNCHANGED <<pc, snd_nxt>>

\* The timer thread's run() finds no entry in the socket table: NULL.
RunDeleted ==
    /\ pc[Client] = "closed" /\ Unacked
    /\ died' = [died EXCEPT ![Client] = "crash"]
    /\ UNCHANGED <<pc, sockstate, tcb, held, ackNode, net>>

\* Fault for TimerAck: the node is gone after it fired.
TimerAckOnce ==
    /\ ackNode /\ pc[Server] # "closed"
    /\ ackNode' = FALSE
    /\ Send(Packet(Server, "ACK", snd_nxt[Server], rcv_nxt[Server]))
    /\ UNCHANGED <<pc, sockstate, tcb, held, died>>

\* timerCk::proc_delack, again and again; on a closed socket sendto fails.
TimerAck ==
    /\ ackNode /\ pc[Server] # "closed"
    /\ Send(Packet(Server, "ACK", snd_nxt[Server], rcv_nxt[Server]))
    /\ UNCHANGED <<pc, sockstate, tcb, held, ackNode, died>>
-----------------------------------------------------------------------------
(* touClose and closer::dothis                                             *)

TouClose(e) ==
    /\ pc[e] = "open"
    /\ Send(Packet(e, "RAW", 0, 1))
    /\ pc' = [pc EXCEPT ![e] = "closing"]
    /\ UNCHANGED <<sockstate, tcb, held, ackNode, died>>

\* The closer thread: no run() ever set CLOSE_WAIT, so this is its other branch.
CloserFinWait(e) ==
    /\ pc[e] = "closing"
    /\ sockstate' = [sockstate EXCEPT ![e] = "FIN_WAIT_1"]
    /\ pc' = [pc EXCEPT ![e] = "finwait"]
    /\ UNCHANGED <<tcb, held, ackNode, net, died>>

\* recvfrom does not block, and overwrites tp with whatever there is, its
\* pointer buf included; tp may also not be constructed yet, since the thread
\* starts before it.  tp.clean() goes through that pointer.  The last ACK goes to
\* an address never set, and the entry is deleted.
CloserEnd(e) ==
    /\ pc[e] = "finwait"
    /\ net' \in {net} \cup {Taken(p) : p \in {q \in net : q.to = e}}
    /\ \E fate \in {"no", "crash"} : died' = [died EXCEPT ![e] = fate]
    /\ sockstate' = [sockstate EXCEPT ![e] = "DELETED"]
    /\ pc' = [pc EXCEPT ![e] = "closed"]
    /\ UNCHANGED <<tcb, held, ackNode>>
-----------------------------------------------------------------------------
Lose(p) == net' = net \ {p} /\ UNCHANGED <<pc, sockstate, tcb, held, ackNode, died>>

ClientStep ==
    /\ died[Client] = "no"
    /\ \/ Connect \/ SendData \/ Rexmit \/ RunDeleted
       \/ TouClose(Client) \/ CloserFinWait(Client) \/ CloserEnd(Client)
       \/ \E p \in net : ConnectRecv(p) \/ Run(Client, p)

ServerStep ==
    /\ died[Server] = "no"
    /\ \/ Accept \/ TimerAck
       \/ TouClose(Server) \/ CloserFinWait(Server) \/ CloserEnd(Server)
       \/ \E p \in net : AcceptRecv(p) \/ Run(Server, p)

Next == ClientStep \/ ServerStep \/ \E p \in net : Lose(p)

\* What is sent again and again arrives in the end, and the threads that wait
\* for it take it: touAccept and the applications' loops of select and run().
\* The timer thread sends again.  Nothing is assumed of packets sent once.
Fairness ==
    /\ WF_vars(died[Client] = "no" /\ Rexmit)
    /\ WF_vars(died[Server] = "no" /\ TimerAck)
    /\ SF_vars(died[Server] = "no" /\ \E p \in net : AcceptRecv(p))
    /\ SF_vars(died[Server] = "no" /\ \E p \in net : RunInOrder(Server, p) /\ Run(Server, p))
    /\ SF_vars(died[Client] = "no" /\ \E p \in net : p.ack > snd_una[Client] /\ RunAck(Client, p) /\ Run(Client, p))

Spec == Init /\ [][Next]_vars /\ Fairness
-----------------------------------------------------------------------------
Died == {"no", "exit", "crash"}

\* The variables have their types; what is held lies ahead of what is missing.
TypeOK ==
    /\ pc \in [Ends -> {"start", "connecting", "listening", "accepting", "open",
                        "closing", "finwait", "closed"}]
    /\ sockstate \in [Ends -> {"CLOSED", "LISTEN", "SYN_SENT", "SYN_RECEIVED",
                               "ESTABLISHED", "FIN_WAIT_1", "DELETED"}]
    /\ snd_nxt \in [Ends -> Nat] /\ snd_una \in [Ends -> Nat] /\ rcv_nxt \in [Ends -> Nat]
    /\ held \subseteq (rcv_nxt[Server] + 1)..MaxData
    /\ ackNode \in BOOLEAN
    /\ net \subseteq Packets
    /\ died \in [Ends -> Died]

Closing == \E e \in Ends : pc[e] \in {"closing", "finwait", "closed"}

\* touAccept returns only after touConnect did ("recv final(ACK) handshake"),
\* whatever packet it took for the final acknowledgement.
NoHalfOpen == sockstate[Server] = "ESTABLISHED" => pc[Client] \notin {"start", "connecting"}

\* Two established ends agree on their sequence numbers, even if the final
\* acknowledgement was lost and a data segment taken for it.
SequencesAgree ==
    (\A e \in Ends : sockstate[e] = "ESTABLISHED") =>
        /\ rcv_nxt[Client] = snd_nxt[Server]
        /\ snd_una[Server] \in {ISS, ISS + 1}
        /\ snd_una[Client] <= rcv_nxt[Server]
        /\ rcv_nxt[Server] <= snd_nxt[Client]

\* No packet of the handshake or of the data, lost, late or taken for another,
\* makes run() end a process: only touClose does.
EndsOnlyByClose == (\E e \in Ends : died[e] # "no") => Closing

\* What the client sent on an open connection is acknowledged in the end,
\* although the final acknowledgement is never repeated, touAccept may swallow
\* a segment and run() answers no old one; unless somebody closes.
AllAcknowledged ==
    \A n \in 1..MaxData : snd_nxt[Client] > n ~> snd_una[Client] > n \/ Closing
=============================================================================
