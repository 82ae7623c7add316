-------------------------- MODULE ConnectionProofs --------------------------
(***************************************************************************)
(* Theorem about Connection, for every amount of data and every initial    *)
(* sequence number, on a network that delivers neither the SYN nor the     *)
(* SYN ACK twice: whatever is lost, late or taken for something else, the  *)
(* ends are not half open, agree on their numbers, and nothing but         *)
(* touClose makes a run() end its process.                                 *)
(*                                                                         *)
(* Up to ConnectRecv the network holds one packet at most, and the two     *)
(* ends take turns (HandshakeInv).  From then on all that counts of a      *)
(* packet is its number against the two ends' numbers (SharedInv), so that *)
(* it does not matter which packet touAccept takes for the last one of the *)
(* handshake.                                                              *)
(***************************************************************************)
EXTENDS Connection, NaturalsInduction, WellFoundedInduction, TLAPS

\* SYN and SYN ACK are sent once, and come once.
OneHandshake == "SYN" \notin DupKinds /\ "SYNACK" \notin DupKinds

Syn == Packet(Client, "SYN", 0, 0)
SynAck == Packet(Server, "SYNACK", ISS, 1)

\* touConnect has returned.
Connected == pc[Client] \notin {"start", "connecting"}

\* Before that: nothing sent yet or the SYN under way, the SYN received, or the
\* SYN ACK sent.
HandshakeInv ==
    ~Connected =>
        /\ held = {} /\ ackNode = FALSE
        /\ \A e \in Ends : died[e] = "no"
        /\ pc[Client] = "connecting" => snd_nxt[Client] = 1
        /\ \/ /\ pc[Server] = "listening" /\ sockstate[Server] = "LISTEN"
              /\ net \subseteq {Syn} /\ (pc[Client] = "start" => net = {})
           \/ /\ pc[Server] = "listening" /\ sockstate[Server] = "SYN_RECEIVED"
              /\ pc[Client] = "connecting" /\ rcv_nxt[Server] = 1 /\ net = {}
           \/ /\ pc[Server] = "accepting" /\ sockstate[Server] = "SYN_RECEIVED"
              /\ pc[Client] = "connecting" /\ rcv_nxt[Server] = 1
              /\ snd_nxt[Server] = ISS + 1 /\ snd_una[Server] = ISS
              /\ net \subseteq {SynAck}

\* A packet that no run() is ended by, unless somebody closes.
Sound(p) ==
    \/ p.kind = "ACK" /\ p.to = Server /\ p.ack = ISS + 1
    \/ p.kind = "ACK" /\ p.to = Client /\ p.ack <= rcv_nxt[Server]
    \/ p.kind = "DATA" /\ p.to = Server /\ p.seq \in 1..(snd_nxt[Client] - 1)
    \/ p.kind = "RAW" /\ Closing

\* After it: the numbers of the two ends, and those under way.
SharedInv ==
    Connected =>
        /\ pc[Server] \in {"accepting", "open", "closing", "finwait", "closed"}
        /\ pc[Server] = "accepting" =>
              snd_una[Server] = ISS /\ sockstate[Server] = "SYN_RECEIVED"
        /\ \A e \in Ends : pc[e] = "open" => sockstate[e] = "ESTABLISHED"
        /\ snd_nxt[Server] = ISS + 1 /\ rcv_nxt[Client] = ISS + 1
        /\ snd_una[Server] \in {ISS, ISS + 1}
        /\ 1 <= snd_una[Client] /\ snd_una[Client] <= rcv_nxt[Server]
        /\ rcv_nxt[Server] <= snd_nxt[Client] /\ snd_nxt[Client] <= MaxData + 1
        /\ \A n \in held : n < snd_nxt[Client]
        /\ \A p \in net : Sound(p)
        /\ EndsOnlyByClose

ConnectionInv == TypeOK /\ HandshakeInv /\ SharedInv
-----------------------------------------------------------------------------
(* Ends, packets, and the segments that wait                               *)

\* There are two ends.
LEMMA TwoEnds ==
    /\ Client # Server /\ Ends = {Client, Server}
    /\ Peer(Client) = Server /\ Peer(Server) = Client
BY DEF Client, Server, Ends, Peer

\* A packet has the fields it is given.
LEMMA PacketIs ==
    ASSUME NEW e \in Ends, NEW k \in {"SYN", "SYNACK", "ACK", "DATA", "RAW"},
           NEW s \in Nat, NEW a \in Nat
    PROVE  /\ Packet(e, k, s, a) \in Packets
           /\ Packet(e, k, s, a).to = Peer(e) /\ Packet(e, k, s, a).kind = k
           /\ Packet(e, k, s, a).seq = s /\ Packet(e, k, s, a).ack = a
BY TwoEnds DEF Packet, Packets

\* A set of numbers that is not empty has a least element.
LEMMA LeastElement ==
    ASSUME NEW S \in SUBSET Nat, S # {}
    PROVE  \E x \in S : \A y \in S : x <= y
<1> DEFINE R == OpToRel(<, Nat)
<1>1. IsWellFoundedOn(R, Nat)
  BY NatLessThanWellFounded
<1>2. \E x \in S : \A y \in S : ~(<<y, x>> \in R)
  <2> HIDE DEF R
  <2> QED
    BY <1>1, WFMin
<1>3. \A x, y \in Nat : <<y, x>> \in R <=> y < x
  BY DEF OpToRel
<1>4. \E x \in S : \A y \in S : ~(y < x)
  <2> HIDE DEF R
  <2> QED
    BY <1>2, <1>3
<1> HIDE DEF R
<1> QED
  BY <1>4

\* There is a first segment missing, everything before it is held.
LEMMA FirstMissingIs ==
    ASSUME held \subseteq 1..MaxData, NEW n \in Nat, n <= MaxData
    PROVE  /\ FirstMissing(n) \in (n + 1)..(MaxData + 1)
           /\ (n + 1)..(FirstMissing(n) - 1) \subseteq held
<1> DEFINE S == {m \in (n + 1)..(MaxData + 1) : m \notin held}
<1>1. MaxData \in Nat
  BY ConnectionAssumption
<1>2. MaxData + 1 \in S /\ S \in SUBSET Nat
  BY <1>1
<1>3. PICK x \in S : \A y \in S : x <= y
  BY <1>2, LeastElement
<1>4. (n + 1)..(x - 1) \subseteq held
  <2> SUFFICES ASSUME NEW m \in (n + 1)..(x - 1), m \notin held
               PROVE  FALSE
    OBVIOUS
  <2>1. m \in S /\ m < x
    BY <1>1, <1>3
  <2> QED
    BY <1>3, <2>1
<1>5. \E m \in (n + 1)..(MaxData + 1) : m \notin held /\ (n + 1)..(m - 1) \subseteq held
  BY <1>3, <1>4
<1> QED
  BY <1>5 DEF FirstMissing
-----------------------------------------------------------------------------
(* Before touConnect returns                                               *)

\* The handshake goes one way only.
LEMMA EarlyCases ==
    ASSUME OneHandshake, ConnectionInv, ~Connected, [Next]_vars
    PROVE  \/ Connect /\ net = {}
           \/ Accept
           \/ ConnectRecv(SynAck) /\ pc[Server] = "accepting" /\ net = {SynAck}
           \/ /\ sockstate[Server] = "LISTEN" /\ net = {Syn} /\ net' = {}
              /\ sockstate' = [sockstate EXCEPT ![Server] = "SYN_RECEIVED"]
              /\ rcv_nxt' = [rcv_nxt EXCEPT ![Server] = 1]
              /\ UNCHANGED <<pc, snd_nxt, snd_una, held, ackNode, died>>
           \/ \E p \in net : Lose(p)
           \/ UNCHANGED vars
<1> USE TwoEnds DEF tcb
<1>1. /\ Syn \in Packets /\ Syn.to = Server /\ Syn.kind = "SYN" /\ Syn.seq = 0
      /\ SynAck.to = Client /\ SynAck.kind = "SYNACK" /\ SynAck.seq = ISS
  BY PacketIs, ConnectionAssumption DEF Syn, SynAck
<1>2. /\ pc[Client] \in {"start", "connecting"} /\ pc[Server] \in {"listening", "accepting"}
      /\ ackNode = FALSE
      /\ pc[Client] = "start" => net = {}
  BY DEF ConnectionInv, HandshakeInv, Connected
<1>3. CASE ClientStep
  <2>1. \A p : ~Run(Client, p)
    BY <1>2 DEF Run, Runs
  <2>2. Connect => net = {}
    BY <1>2 DEF Connect
  <2>3. ASSUME NEW p \in net, ConnectRecv(p)
        PROVE  ConnectRecv(SynAck) /\ pc[Server] = "accepting" /\ net = {SynAck}
    <3>1. p.to = Client
      BY <2>3 DEF ConnectRecv
    <3>2. net \subseteq {SynAck} /\ pc[Server] = "accepting"
      BY <1>1, <3>1 DEF ConnectionInv, HandshakeInv
    <3> QED
      BY <2>3, <3>2
  <2> QED
    BY <1>2, <1>3, <2>1, <2>2, <2>3
    DEF ClientStep, SendData, Rexmit, RunDeleted, TouClose, CloserFinWait, CloserEnd
<1>4. CASE ServerStep
  <2>1. ASSUME NEW p \in net, AcceptRecv(p)
        PROVE  FALSE
    BY <1>1, <2>1 DEF AcceptRecv, ConnectionInv, HandshakeInv
  <2>2. ASSUME NEW p \in net, Run(Server, p)
        PROVE  /\ sockstate[Server] = "LISTEN" /\ net = {Syn} /\ net' = {}
               /\ sockstate' = [sockstate EXCEPT ![Server] = "SYN_RECEIVED"]
               /\ rcv_nxt' = [rcv_nxt EXCEPT ![Server] = 1]
               /\ UNCHANGED <<pc, snd_nxt, snd_una, held, ackNode, died>>
    <3>1. sockstate[Server] = "LISTEN" /\ net = {Syn} /\ p = Syn
      BY <1>1, <1>2, <2>2 DEF Run, Runs, ConnectionInv, HandshakeInv
    <3>2. RunSyn(Server, p) /\ net' = Taken(p) /\ UNCHANGED <<pc, snd_nxt>>
      BY <1>1, <2>2, <3>1
      DEF Run, RunAck, Acknowledges, RunOld, TakesData, RunExit, Flagged,
          RunInOrder, RunEarly
    <3>3. Taken(p) = {}
      BY <1>1, <3>1 DEF Taken, OneHandshake
    <3> QED
      BY <1>1, <3>1, <3>2, <3>3 DEF RunSyn
  <2>3. ~TimerAck /\ ~TouClose(Server) /\ ~CloserFinWait(Server) /\ ~CloserEnd(Server)
    BY <1>2 DEF TimerAck, TouClose, CloserFinWait, CloserEnd
  <2>4. Accept \/ \E p \in net : Run(Server, p)
    BY <1>4, <2>1, <2>3 DEF ServerStep
  <2> QED
    BY <2>2, <2>4
<1> QED
  BY <1>3, <1>4 DEF Next
-----------------------------------------------------------------------------
(* After it                                                                *)

\* run() takes an acknowledgement or a segment for what it is, or somebody closed.
LEMMA RunCases ==
    ASSUME ConnectionInv, Connected, NEW e \in Ends, NEW p \in net, Run(e, p)
    PROVE  /\ UNCHANGED <<pc, snd_nxt, sockstate>>
           /\ \/ RunAck(e, p) /\ net' = Taken(p)
              \/ RunOld(e, p) /\ net' = Taken(p)
              \/ RunExit(e, p) /\ net' = Taken(p) /\ Closing
              \/ RunInOrder(Server, p) /\ net' \in {Taken(p), Taken(p) \cup {Ack}}
              \/ RunEarly(Server, p) /\ net' = Taken(p) \cup {Ack}
           /\ p.kind = "DATA" => e = Server /\ p.seq \in 1..(snd_nxt[Client] - 1)
<1> USE TwoEnds
<1>1. /\ pc[Server] \in {"accepting", "open", "closing", "finwait", "closed"}
      /\ pc[e] = "open" => sockstate[e] = "ESTABLISHED"
      /\ snd_nxt[Server] = ISS + 1 /\ rcv_nxt[Server] <= snd_nxt[Client]
      /\ Sound(p) /\ p.to = e
  BY DEF ConnectionInv, SharedInv, Run
<1>2. p \in Packets /\ snd_nxt[Client] \in Nat /\ rcv_nxt[Server] \in Nat /\ ISS \in Nat
  BY ConnectionAssumption DEF ConnectionInv, TypeOK
<1>3. ~RunSyn(e, p)
  BY <1>1 DEF RunSyn, Flagged, Sound
<1>4. p.kind = "DATA" => e = Server /\ p.seq \in 1..(snd_nxt[Client] - 1)
  BY <1>1 DEF Sound
<1>5. RunExit(e, p) => Closing
  <2> SUFFICES ASSUME RunExit(e, p), ~Closing
               PROVE  FALSE
    OBVIOUS
  <2>1. sockstate[e] = "ESTABLISHED"
    BY <1>1 DEF Run, Runs, Closing
  <2>2. p.kind = "ACK" => p.ack <= snd_nxt[e]
    <3>1. p.ack \in Nat
      BY <1>2 DEF Packets
    <3> QED
      BY <1>1, <1>2, <3>1 DEF Sound
  <2> QED
    BY <1>1, <2>1, <2>2 DEF RunExit, Acknowledges, TakesData, Sound
<1>6. UNCHANGED <<pc, snd_nxt>>
  BY DEF Run
<1>7. \/ (RunAck(e, p) \/ RunOld(e, p) \/ RunExit(e, p)) /\ net' = Taken(p)
      \/ RunInOrder(e, p) /\ net' \in {Taken(p), Taken(p) \cup {Ack}}
      \/ RunEarly(e, p) /\ net' = Taken(p) \cup {Ack}
  BY <1>3 DEF Run
<1>8. RunInOrder(e, p) \/ RunEarly(e, p) => e = Server
  BY <1>4 DEF RunInOrder, RunEarly, TakesData
<1>9. UNCHANGED sockstate
  BY <1>7 DEF RunAck, RunOld, RunExit, RunInOrder, RunEarly
<1> QED
  BY <1>4, <1>5, <1>6, <1>7, <1>8, <1>9

\* A packet that was harmless stays so.
LEMMA SoundStays ==
    ASSUME NEW p \in net, p \in Packets, Sound(p),
           rcv_nxt[Server] \in Nat, rcv_nxt'[Server] \in Nat,
           snd_nxt[Client] \in Nat, snd_nxt'[Client] \in Nat,
           rcv_nxt[Server] <= rcv_nxt'[Server], snd_nxt[Client] <= snd_nxt'[Client],
           Closing => Closing'
    PROVE  Sound(p)'
<1>1. p.seq \in Nat /\ p.ack \in Nat
  BY DEF Packets
<1>2. CASE p.kind = "ACK" /\ p.to = Server /\ p.ack = ISS + 1
  BY <1>2 DEF Sound
<1>3. CASE p.kind = "ACK" /\ p.to = Client /\ p.ack <= rcv_nxt[Server]
  BY <1>1, <1>3 DEF Sound
<1>4. CASE p.kind = "DATA" /\ p.to = Server /\ p.seq \in 1..(snd_nxt[Client] - 1)
  BY <1>1, <1>4 DEF Sound
<1>5. CASE p.kind = "RAW" /\ Closing
  BY <1>5 DEF Sound
<1> QED
  BY <1>2, <1>3, <1>4, <1>5 DEF Sound

\* Taking a packet adds none.
LEMMA TakenFewer == \A p : Taken(p) \subseteq net
BY DEF Taken

\* What the server stores and acknowledges is what the client has sent.
LEMMA InOrderMoves ==
    ASSUME ConnectionInv, Connected, NEW p, RunInOrder(Server, p),
           p.seq \in 1..(snd_nxt[Client] - 1)
    PROVE  /\ rcv_nxt'[Server] \in Nat /\ rcv_nxt[Server] <= rcv_nxt'[Server]
           /\ rcv_nxt'[Server] <= snd_nxt[Client]
           /\ rcv_nxt' = [rcv_nxt EXCEPT ![Server] = rcv_nxt'[Server]]
           /\ held' \subseteq held
           /\ held' \subseteq (rcv_nxt'[Server] + 1)..MaxData
<1>1. /\ rcv_nxt \in [Ends -> Nat] /\ snd_nxt[Client] \in Nat /\ MaxData \in Nat
      /\ held \subseteq (rcv_nxt[Server] + 1)..MaxData
      /\ snd_nxt[Client] <= MaxData + 1
      /\ \A n \in held : n < snd_nxt[Client]
  BY TwoEnds, ConnectionAssumption DEF ConnectionInv, SharedInv, TypeOK
<1>2. p.seq \in Nat /\ p.seq <= MaxData /\ p.seq < snd_nxt[Client] /\ p.seq = rcv_nxt[Server]
  BY <1>1 DEF RunInOrder
<1>3. held \subseteq 1..MaxData
  BY <1>1, <1>2
<1> DEFINE m == FirstMissing(p.seq)
<1>4. m \in (p.seq + 1)..(MaxData + 1) /\ (p.seq + 1)..(m - 1) \subseteq held
  BY <1>2, <1>3, FirstMissingIs
<1>5. rcv_nxt' = [rcv_nxt EXCEPT ![Server] = m] /\ held' = {n \in held : n > m}
  BY DEF RunInOrder, StillHeld
<1> HIDE DEF m
<1>6. rcv_nxt'[Server] = m
  BY <1>1, <1>5, TwoEnds
<1>7. m \in Nat /\ p.seq < m
  BY <1>1, <1>2, <1>4
<1>8. m <= snd_nxt[Client]
  <2> SUFFICES ASSUME snd_nxt[Client] < m
               PROVE  FALSE
    BY <1>1, <1>7
  <2>1. snd_nxt[Client] \in held
    BY <1>1, <1>2, <1>4, <1>7
  <2> QED
    BY <1>1, <2>1
<1>9. held' \subseteq (m + 1)..MaxData
  <2> SUFFICES ASSUME NEW n \in held'
               PROVE  n \in (m + 1)..MaxData
    OBVIOUS
  <2>1. n \in held /\ n > m
    BY <1>5
  <2> QED
    BY <1>1, <1>3, <1>7, <2>1
<1>10. held' \subseteq held
  BY <1>5
<1>11. rcv_nxt' = [rcv_nxt EXCEPT ![Server] = rcv_nxt'[Server]]
  BY <1>5, <1>6
<1>12. rcv_nxt[Server] <= m
  BY <1>2, <1>7
<1> QED
  BY <1>6, <1>7, <1>8, <1>9, <1>10, <1>11, <1>12

\* What is left: the packet touAccept waits for, the client's data, and closing.
LEMMA LateCases ==
    ASSUME ConnectionInv, Connected, [Next]_vars
    PROVE  \/ \E p \in net : AcceptRecv(p)
           \/ \E e \in Ends, p \in net : Run(e, p)
           \/ SendData \/ Rexmit \/ RunDeleted \/ TimerAck
           \/ \E e \in Ends : TouClose(e) \/ CloserFinWait(e) \/ CloserEnd(e)
           \/ \E p \in net : Lose(p)
           \/ UNCHANGED vars
<1> USE TwoEnds
<1>1. /\ pc[Client] \notin {"start", "connecting"}
      /\ pc[Server] \in {"accepting", "open", "closing", "finwait", "closed"}
  BY DEF ConnectionInv, SharedInv, Connected
<1>2. ~Connect /\ ~Accept /\ \A p : ~ConnectRecv(p)
  BY <1>1 DEF Connect, Accept, ConnectRecv
<1>3. CASE ClientStep
  BY <1>2, <1>3 DEF ClientStep
<1>4. CASE ServerStep
  BY <1>2, <1>4 DEF ServerStep
<1> QED
  BY <1>3, <1>4 DEF Next

\* The ends' numbers stay in order.
LEMMA SharedNext ==
    ASSUME OneHandshake, ConnectionInv, [Next]_vars
    PROVE  SharedInv'
<1> USE TwoEnds DEF tcb
<1>1. /\ pc \in [Ends -> {"start", "connecting", "listening", "accepting", "open",
                          "closing", "finwait", "closed"}]
      /\ DOMAIN sockstate = Ends /\ DOMAIN died = Ends
      /\ snd_nxt \in [Ends -> Nat] /\ snd_una \in [Ends -> Nat] /\ rcv_nxt \in [Ends -> Nat]
      /\ net \subseteq Packets /\ MaxData \in Nat /\ ISS \in Nat
  BY ConnectionAssumption DEF ConnectionInv, TypeOK
<1>2. ASSUME ~Connected, Connected'
      PROVE  SharedInv'
  <2>1. ConnectRecv(SynAck) /\ pc[Server] = "accepting" /\ net = {SynAck}
    BY <1>1, <1>2, EarlyCases
    DEF Connected, Connect, Accept, Lose, vars
  <2>2. SynAck.kind = "SYNACK" /\ SynAck.seq = ISS /\ SynAck.ack = 1
    BY DEF SynAck, Packet
  <2>3. /\ snd_nxt[Client] = 1 /\ rcv_nxt[Server] = 1 /\ held = {}
        /\ snd_nxt[Server] = ISS + 1 /\ snd_una[Server] = ISS
        /\ sockstate[Server] = "SYN_RECEIVED" /\ \A e \in Ends : died[e] = "no"
    BY <1>2, <2>1 DEF ConnectionInv, HandshakeInv, ConnectRecv
  <2>4. Taken(SynAck) = {}
    BY <2>1, <2>2 DEF Taken, OneHandshake
  <2> DEFINE ack == Packet(Client, "ACK", snd_nxt[Client], ISS + 1)
  <2>5. /\ net' = {ack} /\ rcv_nxt' = [rcv_nxt EXCEPT ![Client] = ISS + 1]
        /\ snd_una' = [snd_una EXCEPT ![Client] = 1]
        /\ sockstate' = [sockstate EXCEPT ![Client] = "ESTABLISHED"]
        /\ pc' = [pc EXCEPT ![Client] = "open"]
        /\ UNCHANGED <<snd_nxt, held, died>>
    BY <2>1, <2>2, <2>4 DEF ConnectRecv
  <2>6. ack.to = Server /\ ack.kind = "ACK" /\ ack.ack = ISS + 1
    BY DEF Packet
  <2>7. \A p \in net' : Sound(p)'
    <3> HIDE DEF ack
    <3> QED
      BY <2>5, <2>6 DEF Sound
  <2> HIDE DEF ack
  <2> QED
    BY <1>1, <2>1, <2>3, <2>5, <2>7 DEF SharedInv, EndsOnlyByClose
<1>3. ASSUME Connected
      PROVE  SharedInv'
  <2>1. /\ pc[Client] \notin {"start", "connecting"}
        /\ pc[Server] \in {"accepting", "open", "closing", "finwait", "closed"}
        /\ pc[Server] = "accepting" =>
              snd_una[Server] = ISS /\ sockstate[Server] = "SYN_RECEIVED"
        /\ \A e \in Ends : pc[e] = "open" => sockstate[e] = "ESTABLISHED"
        /\ snd_nxt[Server] = ISS + 1 /\ rcv_nxt[Client] = ISS + 1
        /\ snd_una[Server] \in {ISS, ISS + 1}
        /\ 1 <= snd_una[Client] /\ snd_una[Client] <= rcv_nxt[Server]
        /\ rcv_nxt[Server] <= snd_nxt[Client] /\ snd_nxt[Client] <= MaxData + 1
        /\ \A n \in held : n < snd_nxt[Client]
        /\ \A p \in net : p \in Packets /\ Sound(p)
        /\ EndsOnlyByClose
    BY <1>1, <1>3 DEF ConnectionInv, SharedInv, Connected
  \* The numbers of the ends, and packets added that are sound.
  <2>2. ASSUME pc' = pc, sockstate' = sockstate, died' = died,
               snd_nxt' = snd_nxt,
               rcv_nxt'[Client] = rcv_nxt[Client], rcv_nxt'[Server] \in Nat,
               rcv_nxt[Server] <= rcv_nxt'[Server], rcv_nxt'[Server] <= snd_nxt[Client],
               snd_una'[Server] \in {snd_una[Server], ISS + 1},
               snd_una'[Server] = snd_una[Server] \/ pc[Server] # "accepting",
               snd_una'[Client] \in Nat, snd_una[Client] <= snd_una'[Client],
               snd_una'[Client] <= rcv_nxt'[Server],
               \A n \in held' : n < snd_nxt[Client],
               \A p \in net' : p \in net \/ Sound(p)'
        PROVE  SharedInv'
    <3>1. \A p \in net' : Sound(p)'
      <4>1. ASSUME NEW p \in net
            PROVE  Sound(p)'
        BY <1>1, <2>1, <2>2, SoundStays DEF Closing
      <4> QED
        BY <2>2, <4>1
    <3>2. EndsOnlyByClose'
      BY <2>1, <2>2 DEF EndsOnlyByClose, Closing
    <3>3. 1 <= snd_una'[Client]
      BY <1>1, <2>1, <2>2
    <3>4. snd_una'[Server] \in {ISS, ISS + 1}
      BY <2>1, <2>2
    <3> QED
      BY <1>3, <2>1, <2>2, <3>1, <3>2, <3>3, <3>4 DEF SharedInv
  <2>3. ASSUME UNCHANGED <<pc, sockstate, tcb, held, died>>,
               \A p \in net' : p \in net \/ Sound(p)'
        PROVE  SharedInv'
    BY <1>1, <2>1, <2>2, <2>3
  <2>4. ASSUME NEW p \in net, AcceptRecv(p)
        PROVE  SharedInv'
    <3>1. /\ pc[Server] = "accepting" /\ pc' = [pc EXCEPT ![Server] = "open"]
          /\ sockstate' = [sockstate EXCEPT ![Server] = "ESTABLISHED"]
          /\ snd_una'[Server] \in {ISS, ISS + 1} /\ snd_una'[Client] = snd_una[Client]
          /\ UNCHANGED <<snd_nxt, held, died>> /\ net' \subseteq net
      BY <1>1, <2>1, <2>4, TakenFewer DEF AcceptRecv
    <3>2. rcv_nxt' = rcv_nxt
      BY <1>1, <2>4 DEF AcceptRecv, AcceptedRcv
    <3>3. Closing' <=> Closing
      BY <1>1, <3>1 DEF Closing
    <3>4. \A q \in net' : Sound(q)'
      BY <1>1, <2>1, <3>1, <3>2, <3>3, SoundStays
    <3>5. EndsOnlyByClose'
      BY <2>1, <3>1, <3>3 DEF EndsOnlyByClose
    <3> QED
      BY <1>1, <2>1, <3>1, <3>2, <3>4, <3>5 DEF SharedInv
  <2>5. CASE SendData
    <3>0. PICK segment : segment = Data(snd_nxt[Client])
      OBVIOUS
    <3>1. segment.kind = "DATA" /\ segment.to = Server /\ segment.seq = snd_nxt[Client]
      BY <3>0 DEF Data, Packet
    <3>2. /\ snd_nxt[Client] <= MaxData /\ net' = net \cup {segment}
          /\ snd_nxt'[Client] = snd_nxt[Client] + 1 /\ snd_nxt'[Server] = snd_nxt[Server]
          /\ UNCHANGED <<pc, sockstate, snd_una, rcv_nxt, held, died>>
      BY <1>1, <2>5, <3>0 DEF SendData, Send
    <3>3. snd_nxt[Client] \in Nat /\ snd_nxt[Client] >= 1 /\ rcv_nxt[Server] \in Nat
          /\ snd_una[Client] \in Nat
      BY <1>1, <2>1
    <3>4. ASSUME NEW q \in net'
          PROVE  Sound(q)'
      <4>1. CASE q = segment
        BY <3>1, <3>2, <3>3, <4>1 DEF Sound
      <4>2. CASE q \in net
        BY <1>1, <2>1, <3>2, <3>3, <4>2, SoundStays DEF Closing
      <4> QED
        BY <3>2, <4>1, <4>2
    <3>5. EndsOnlyByClose'
      BY <2>1, <3>2 DEF EndsOnlyByClose, Closing
    <3>6. /\ rcv_nxt[Server] <= snd_nxt'[Client] /\ snd_nxt'[Client] <= MaxData + 1
      BY <1>1, <2>1, <3>2, <3>3
    <3>7. \A n \in held' : n < snd_nxt'[Client]
      <4>1. \A n \in held : n \in Int
        BY <1>1, <3>3 DEF ConnectionInv, TypeOK
      <4> QED
        BY <2>1, <3>2, <3>3, <4>1
    <3> QED
      BY <2>1, <3>2, <3>4, <3>5, <3>6, <3>7 DEF SharedInv
  <2>6. CASE Rexmit
    <3>0. PICK segment : segment = Data(snd_una[Client])
      OBVIOUS
    <3>1. segment.kind = "DATA" /\ segment.to = Server /\ segment.seq = snd_una[Client]
      BY <3>0 DEF Data, Packet
    <3>2. snd_una[Client] < snd_nxt[Client] /\ net' = net \cup {segment}
          /\ UNCHANGED <<pc, sockstate, tcb, held, died>>
      BY <2>6, <3>0 DEF Rexmit, Unacked, Send
    <3>3. snd_una[Client] \in 1..(snd_nxt[Client] - 1)
      BY <1>1, <2>1, <3>2
    <3>4. Sound(segment)'
      BY <3>1, <3>2, <3>3 DEF Sound
    <3> QED
      BY <2>3, <3>2, <3>4
  <2>7. CASE TimerAck
    <3>0. PICK reply : reply = Packet(Server, "ACK", snd_nxt[Server], rcv_nxt[Server])
      OBVIOUS
    <3>1. reply.kind = "ACK" /\ reply.to = Client /\ reply.ack = rcv_nxt[Server]
      BY <3>0 DEF Packet
    <3>2. net' = net \cup {reply} /\ UNCHANGED <<pc, sockstate, tcb, held, died>>
      BY <2>7, <3>0 DEF TimerAck, Send
    <3>3. Sound(reply)'
      BY <1>1, <3>1, <3>2 DEF Sound
    <3> QED
      BY <2>3, <3>2, <3>3
  \* Whatever happens to somebody who closes.
  <2>8. ASSUME Closing', UNCHANGED <<tcb, held>>, Closing => Closing',
               \A q \in net' : q \in net \/ q.kind = "RAW",
               pc'[Client] \notin {"start", "connecting"},
               pc'[Server] \in {pc[Server], "closing", "finwait", "closed"},
               pc'[Server] = "accepting" => sockstate'[Server] = sockstate[Server],
               \A e \in Ends : pc'[e] = "open" => pc[e] = "open" /\ sockstate'[e] = sockstate[e]
        PROVE  SharedInv'
    <3>1. \A q \in net' : Sound(q)'
      <4>1. ASSUME NEW q \in net
            PROVE  Sound(q)'
        BY <1>1, <2>1, <2>8, SoundStays
      <4>2. \A q : q.kind = "RAW" => Sound(q)'
        BY <2>8 DEF Sound
      <4> QED
        BY <2>8, <4>1, <4>2
    <3>2. EndsOnlyByClose'
      BY <2>8 DEF EndsOnlyByClose
    <3>3. /\ pc'[Server] \in {"accepting", "open", "closing", "finwait", "closed"}
          /\ pc'[Server] = "accepting" =>
               snd_una'[Server] = ISS /\ sockstate'[Server] = "SYN_RECEIVED"
          /\ \A e \in Ends : pc'[e] = "open" => sockstate'[e] = "ESTABLISHED"
      BY <2>1, <2>8
    <3> QED
      BY <2>1, <2>8, <3>1, <3>2, <3>3 DEF SharedInv
  <2>9. CASE RunDeleted
    BY <2>1, <2>8, <2>9 DEF RunDeleted, Closing
  <2>10. ASSUME NEW e \in Ends, TouClose(e)
         PROVE  SharedInv'
    <3>1. Packet(e, "RAW", 0, 1).kind = "RAW"
      BY DEF Packet
    <3>2. \A q \in net' : q \in net \/ q.kind = "RAW"
      BY <2>10, <3>1 DEF TouClose, Send
    <3> QED
      BY <1>1, <2>1, <2>8, <2>10, <3>2 DEF TouClose, Closing
  <2>11. ASSUME NEW e \in Ends, CloserFinWait(e)
         PROVE  SharedInv'
    BY <1>1, <2>1, <2>8, <2>11 DEF CloserFinWait, Closing
  <2>12. ASSUME NEW e \in Ends, CloserEnd(e)
         PROVE  SharedInv'
    <3>1. net' \subseteq net
      BY <2>12, TakenFewer DEF CloserEnd
    <3> QED
      BY <1>1, <2>1, <2>8, <2>12, <3>1 DEF CloserEnd, Closing
  <2>13. ASSUME NEW p, Lose(p)
         PROVE  SharedInv'
    BY <2>3, <2>13 DEF Lose
  <2>14. ASSUME NEW e \in Ends, NEW p \in net, Run(e, p)
         PROVE  SharedInv'
    <3>0. PICK reply : reply = Packet(Server, "ACK", snd_nxt[Server], rcv_nxt'[Server])
      OBVIOUS
    <3>1. reply.kind = "ACK" /\ reply.to = Client /\ reply.ack = rcv_nxt'[Server]
      BY <3>0 DEF Packet
    <3>2. Ack = reply
      BY <3>0 DEF Ack
    <3>3. /\ UNCHANGED <<pc, snd_nxt, sockstate>>
          /\ \/ RunAck(e, p) /\ net' = Taken(p)
             \/ RunOld(e, p) /\ net' = Taken(p)
             \/ RunExit(e, p) /\ net' = Taken(p) /\ Closing
             \/ RunInOrder(Server, p) /\ net' \in {Taken(p), Taken(p) \cup {reply}}
             \/ RunEarly(Server, p) /\ net' = Taken(p) \cup {reply}
          /\ p.kind = "DATA" => e = Server /\ p.seq \in 1..(snd_nxt[Client] - 1)
      BY <1>3, <2>14, <3>2, RunCases
    <3>4. net' \subseteq net \cup {reply}
      BY <3>3, TakenFewer
    <3>5. ASSUME rcv_nxt'[Server] \in Nat
          PROVE  Sound(reply)'
      BY <3>1, <3>5 DEF Sound
    <3>6. CASE RunAck(e, p) /\ net' = Taken(p)
      <4>1. /\ UNCHANGED <<rcv_nxt, held, died>> /\ net' \subseteq net
            /\ snd_una' = [snd_una EXCEPT ![e] = IF p.ack > @ THEN p.ack ELSE @]
            /\ p.kind = "ACK" /\ sockstate[e] = "ESTABLISHED"
        BY <3>6, TakenFewer DEF RunAck, Acknowledges
      <4>2. Sound(p) /\ p \in Packets /\ p.to = e /\ p.ack \in Nat
        BY <2>1, <2>14 DEF Run, Packets
      <4>3. e = Server => p.ack = ISS + 1 /\ pc[Server] # "accepting"
        BY <2>1, <4>1, <4>2 DEF Sound
      <4>4. e = Client => p.ack <= rcv_nxt[Server]
        BY <4>1, <4>2 DEF Sound
      <4>5. /\ snd_una'[Server] \in {snd_una[Server], ISS + 1}
            /\ snd_una'[Server] = snd_una[Server] \/ pc[Server] # "accepting"
        BY <1>1, <4>1, <4>3
      <4>6. /\ snd_una'[Client] \in Nat /\ snd_una[Client] <= snd_una'[Client]
            /\ snd_una'[Client] <= rcv_nxt[Server]
        <5>1. snd_una[Client] \in Nat
          BY <1>1
        <5>2. \/ snd_una'[Client] = snd_una[Client]
              \/ e = Client /\ p.ack > snd_una[Client] /\ snd_una'[Client] = p.ack
          BY <1>1, <4>1
        <5> QED
          BY <2>1, <4>2, <4>4, <5>1, <5>2
      <4> QED
        BY <1>1, <2>1, <2>2, <3>3, <4>1, <4>5, <4>6
    <3>7. CASE RunOld(e, p) /\ net' = Taken(p)
      <4>1. UNCHANGED <<tcb, held, died>> /\ net' \subseteq net
        BY <3>3, <3>7, TakenFewer DEF RunOld
      <4> QED
        BY <2>3, <3>3, <4>1
    <3>8. CASE RunExit(e, p) /\ net' = Taken(p) /\ Closing
      <4>1. UNCHANGED <<tcb, held>> /\ net' \subseteq net
        BY <3>3, <3>8, TakenFewer DEF RunExit
      <4>2. Closing'
        BY <3>3, <3>8 DEF Closing
      <4> QED
        BY <2>1, <2>8, <3>3, <4>1, <4>2
    <3>9. CASE RunInOrder(Server, p)
      <4>1. p.seq \in 1..(snd_nxt[Client] - 1)
        BY <3>3, <3>9 DEF RunInOrder, TakesData
      <4>2. /\ rcv_nxt'[Server] \in Nat /\ rcv_nxt[Server] <= rcv_nxt'[Server]
            /\ rcv_nxt'[Server] <= snd_nxt[Client]
            /\ rcv_nxt' = [rcv_nxt EXCEPT ![Server] = rcv_nxt'[Server]]
            /\ held' \subseteq held
        BY <1>3, <3>9, <4>1, InOrderMoves
      <4>3. rcv_nxt'[Client] = rcv_nxt[Client]
        BY <1>1, <4>2
      <4>4. snd_una[Client] \in Nat /\ snd_una[Client] <= rcv_nxt'[Server]
        <5>1. snd_una[Client] \in Nat /\ rcv_nxt[Server] \in Nat
          BY <1>1
        <5> QED
          BY <2>1, <4>2, <5>1
      <4>5. UNCHANGED <<snd_una, died>>
        BY <3>9 DEF RunInOrder
      <4> QED
        BY <2>1, <2>2, <3>3, <3>4, <3>5, <4>2, <4>3, <4>4, <4>5
    <3>10. CASE RunEarly(Server, p)
      <4>1. p.seq \in 1..(snd_nxt[Client] - 1) /\ held' = held \cup {p.seq}
            /\ UNCHANGED <<snd_una, rcv_nxt, died>>
        BY <3>3, <3>10 DEF RunEarly, TakesData
      <4>2. p.seq < snd_nxt[Client]
        BY <1>1, <4>1
      <4> QED
        BY <1>1, <2>1, <2>2, <3>3, <3>4, <3>5, <4>1, <4>2
    <3> QED
      BY <3>3, <3>6, <3>7, <3>8, <3>9, <3>10
  <2>15. UNCHANGED vars => SharedInv'
    BY <2>3 DEF vars
  <2> QED
    BY <1>3, <2>4, <2>5, <2>6, <2>7, <2>9, <2>10, <2>11, <2>12, <2>13, <2>14,
       <2>15, LateCases
<1>4. ~Connected /\ ~Connected' => SharedInv'
  BY DEF SharedInv
<1> QED
  BY <1>2, <1>3, <1>4

\* The two ends take turns.
LEMMA HandshakeNext ==
    ASSUME OneHandshake, ConnectionInv, [Next]_vars
    PROVE  HandshakeInv'
<1> USE TwoEnds DEF tcb
<1>1. /\ DOMAIN pc = Ends /\ DOMAIN sockstate = Ends /\ DOMAIN snd_nxt = Ends
      /\ DOMAIN snd_una = Ends /\ DOMAIN rcv_nxt = Ends
  BY DEF ConnectionInv, TypeOK
<1>2. CASE Connected
  <2>1. Connected'
    BY <1>1, <1>2, LateCases
    DEF Connected, AcceptRecv, Run, SendData, Rexmit, RunDeleted, TimerAck,
        TouClose, CloserFinWait, CloserEnd, Lose, vars
  <2> QED
    BY <2>1 DEF HandshakeInv
<1>3. CASE ~Connected
  <2>1. /\ held = {} /\ ackNode = FALSE
        /\ \A e \in Ends : died[e] = "no"
        /\ pc[Client] = "connecting" => snd_nxt[Client] = 1
        /\ \/ /\ pc[Server] = "listening" /\ sockstate[Server] = "LISTEN"
              /\ net \subseteq {Syn} /\ (pc[Client] = "start" => net = {})
           \/ /\ pc[Server] = "listening" /\ sockstate[Server] = "SYN_RECEIVED"
              /\ pc[Client] = "connecting" /\ rcv_nxt[Server] = 1 /\ net = {}
           \/ /\ pc[Server] = "accepting" /\ sockstate[Server] = "SYN_RECEIVED"
              /\ pc[Client] = "connecting" /\ rcv_nxt[Server] = 1
              /\ snd_nxt[Server] = ISS + 1 /\ snd_una[Server] = ISS
              /\ net \subseteq {SynAck}
    BY <1>3 DEF ConnectionInv, HandshakeInv
  <2>2. Syn' = Syn /\ SynAck' = SynAck
    BY DEF Syn, SynAck
  <2>3. CASE Connect /\ net = {}
    <3>1. /\ net' = {Syn} /\ pc[Client] = "start"
          /\ pc' = [pc EXCEPT ![Client] = "connecting"]
          /\ sockstate' = [sockstate EXCEPT ![Client] = "SYN_SENT"]
          /\ snd_nxt' = [snd_nxt EXCEPT ![Client] = 1]
          /\ UNCHANGED <<held, ackNode, died>>
      BY <2>3 DEF Connect, Send, Syn
    <3> QED
      BY <1>1, <2>1, <2>2, <3>1 DEF HandshakeInv
  <2>4. CASE Accept
    <3>1. /\ pc[Server] = "listening" /\ sockstate[Server] = "SYN_RECEIVED"
          /\ net = {} /\ rcv_nxt[Server] = 1 /\ pc[Client] = "connecting"
      BY <2>1, <2>4 DEF Accept
    <3>2. /\ net' = {SynAck} /\ pc' = [pc EXCEPT ![Server] = "accepting"]
          /\ snd_nxt' = [snd_nxt EXCEPT ![Server] = ISS + 1]
          /\ snd_una' = [snd_una EXCEPT ![Server] = ISS]
          /\ UNCHANGED <<sockstate, rcv_nxt, held, ackNode, died>>
      BY <2>4, <3>1 DEF Accept, Send, SynAck
    <3> QED
      BY <1>1, <2>1, <2>2, <3>1, <3>2 DEF HandshakeInv
  <2>5. CASE ConnectRecv(SynAck)
    <3>1. Connected'
      BY <1>1, <2>5 DEF ConnectRecv, Connected
    <3> QED
      BY <3>1 DEF HandshakeInv
  <2>6. CASE /\ sockstate[Server] = "LISTEN" /\ net = {Syn} /\ net' = {}
             /\ sockstate' = [sockstate EXCEPT ![Server] = "SYN_RECEIVED"]
             /\ rcv_nxt' = [rcv_nxt EXCEPT ![Server] = 1]
             /\ UNCHANGED <<pc, snd_nxt, snd_una, held, ackNode, died>>
    <3>1. pc[Client] = "connecting" /\ pc[Server] = "listening"
      BY <1>3, <2>1, <2>6 DEF Connected
    <3> QED
      BY <1>1, <2>1, <2>6, <3>1 DEF HandshakeInv
  <2>7. ASSUME NEW p, Lose(p)
        PROVE  HandshakeInv'
    <3>1. net' \subseteq net /\ UNCHANGED <<pc, sockstate, tcb, held, ackNode, died>>
      BY <2>7 DEF Lose
    <3> QED
      BY <2>1, <2>2, <3>1 DEF HandshakeInv
  <2>8. CASE UNCHANGED vars
    BY <2>1, <2>2, <2>8 DEF HandshakeInv, vars
  <2> QED
    BY <1>3, <2>3, <2>4, <2>5, <2>6, <2>7, <2>8, EarlyCases
<1> QED
  BY <1>2, <1>3

\* The variables keep their types, and what is held stays ahead.
LEMMA TypeNext ==
    ASSUME OneHandshake, ConnectionInv, [Next]_vars
    PROVE  TypeOK'
<1> USE TwoEnds DEF tcb
<1>1. TypeOK /\ MaxData \in Nat /\ ISS \in Nat
  BY ConnectionAssumption DEF ConnectionInv
<1> DEFINE Pcs == {"start", "connecting", "listening", "accepting", "open",
                   "closing", "finwait", "closed"}
           States == {"CLOSED", "LISTEN", "SYN_SENT", "SYN_RECEIVED",
                      "ESTABLISHED", "FIN_WAIT_1", "DELETED"}
<1>2. /\ pc \in [Ends -> Pcs] /\ sockstate \in [Ends -> States]
      /\ snd_nxt \in [Ends -> Nat] /\ snd_una \in [Ends -> Nat] /\ rcv_nxt \in [Ends -> Nat]
      /\ held \subseteq (rcv_nxt[Server] + 1)..MaxData
      /\ ackNode \in BOOLEAN /\ net \subseteq Packets /\ died \in [Ends -> Died]
  BY <1>1 DEF TypeOK
<1>3. /\ Client \in Ends /\ Server \in Ends
      /\ \A e \in Ends : Peer(e) \in Ends
  OBVIOUS
<1>4. \A e \in Ends, s, a \in Nat, k \in {"SYN", "SYNACK", "ACK", "DATA", "RAW"} :
         Packet(e, k, s, a) \in Packets
  BY PacketIs
<1>5. \A p \in net : p \in Packets /\ p.seq \in Nat /\ p.ack \in Nat
  BY <1>2 DEF Packets
<1> HIDE DEF Pcs, States
<1>6. ASSUME pc' \in [Ends -> Pcs], sockstate' \in [Ends -> States],
             snd_nxt' \in [Ends -> Nat], snd_una' \in [Ends -> Nat],
             rcv_nxt' \in [Ends -> Nat],
             held' \subseteq (rcv_nxt'[Server] + 1)..MaxData, ackNode' \in BOOLEAN,
             net' \subseteq Packets, died' \in [Ends -> Died]
      PROVE  TypeOK'
  BY <1>6 DEF TypeOK, Pcs, States
<1>7. /\ {"start", "connecting", "accepting", "open", "closing", "finwait", "closed"} \subseteq Pcs
      /\ {"SYN_SENT", "SYN_RECEIVED", "ESTABLISHED", "FIN_WAIT_1", "DELETED"} \subseteq States
      /\ {"no", "exit", "crash"} \subseteq Died
  BY DEF Pcs, States, Died
<1>8. \A p : Taken(p) \subseteq Packets
  BY <1>2, TakenFewer
<1>9. CASE Connected
  <2>1. ASSUME NEW p \in net, AcceptRecv(p)
        PROVE  TypeOK'
    <3>1. rcv_nxt' = rcv_nxt
      BY <1>2, <2>1 DEF AcceptRecv, AcceptedRcv
    <3>2. snd_una' \in [Ends -> Nat]
      BY <1>2, <1>5, <2>1 DEF AcceptRecv
    <3>3. pc' \in [Ends -> Pcs] /\ sockstate' \in [Ends -> States]
      BY <1>2, <1>7, <2>1 DEF AcceptRecv
    <3> QED
      BY <1>2, <1>6, <1>8, <2>1, <3>1, <3>2, <3>3 DEF AcceptRecv
  <2>2. CASE SendData
    <3>1. Data(snd_nxt[Client]) \in Packets
      BY <1>2, <1>3, <1>4 DEF Data
    <3>2. snd_nxt' \in [Ends -> Nat]
      BY <1>2, <2>2 DEF SendData
    <3> QED
      BY <1>2, <1>6, <2>2, <3>1, <3>2 DEF SendData, Send
  <2>3. CASE Rexmit
    <3>1. Data(snd_una[Client]) \in Packets
      BY <1>2, <1>3, <1>4 DEF Data
    <3> QED
      BY <1>2, <1>6, <2>3, <3>1 DEF Rexmit, Send
  <2>4. CASE RunDeleted
    <3>1. died' \in [Ends -> Died]
      BY <1>2, <1>7, <2>4 DEF RunDeleted
    <3> QED
      BY <1>2, <1>6, <2>4, <3>1 DEF RunDeleted
  <2>5. CASE TimerAck
    <3>1. Packet(Server, "ACK", snd_nxt[Server], rcv_nxt[Server]) \in Packets
      BY <1>2, <1>3, <1>4
    <3> QED
      BY <1>2, <1>6, <2>5, <3>1 DEF TimerAck, Send
  <2>6. ASSUME NEW e \in Ends, TouClose(e)
        PROVE  TypeOK'
    <3>1. Packet(e, "RAW", 0, 1) \in Packets
      BY <1>4
    <3>2. pc' \in [Ends -> Pcs]
      BY <1>2, <1>7, <2>6 DEF TouClose
    <3> QED
      BY <1>2, <1>6, <2>6, <3>1, <3>2 DEF TouClose, Send
  <2>7. ASSUME NEW e \in Ends, CloserFinWait(e)
        PROVE  TypeOK'
    <3>1. pc' \in [Ends -> Pcs] /\ sockstate' \in [Ends -> States]
      BY <1>2, <1>7, <2>7 DEF CloserFinWait
    <3> QED
      BY <1>2, <1>6, <2>7, <3>1 DEF CloserFinWait
  <2>8. ASSUME NEW e \in Ends, CloserEnd(e)
        PROVE  TypeOK'
    <3>1. pc' \in [Ends -> Pcs] /\ sockstate' \in [Ends -> States]
      BY <1>2, <1>7, <2>8 DEF CloserEnd
    <3>2. died' \in [Ends -> Died]
      BY <1>2, <1>7, <2>8 DEF CloserEnd
    <3>3. net' \subseteq Packets
      BY <1>2, <1>8, <2>8 DEF CloserEnd
    <3> QED
      BY <1>2, <1>6, <2>8, <3>1, <3>2, <3>3 DEF CloserEnd
  <2>9. ASSUME NEW p, Lose(p)
        PROVE  TypeOK'
    BY <1>2, <1>6, <2>9 DEF Lose
  <2>10. ASSUME NEW e \in Ends, NEW p \in net, Run(e, p)
         PROVE  TypeOK'
    <3>1. /\ UNCHANGED <<pc, snd_nxt, sockstate>>
          /\ \/ RunAck(e, p) /\ net' = Taken(p)
             \/ RunOld(e, p) /\ net' = Taken(p)
             \/ RunExit(e, p) /\ net' = Taken(p)
             \/ RunInOrder(Server, p) /\ net' \in {Taken(p), Taken(p) \cup {Ack}}
             \/ RunEarly(Server, p) /\ net' = Taken(p) \cup {Ack}
          /\ p.kind = "DATA" => p.seq \in 1..(snd_nxt[Client] - 1)
      BY <1>9, <2>10, RunCases
    <3>2. p.seq \in Nat /\ p.ack \in Nat
      BY <1>5
    <3>3. rcv_nxt'[Server] \in Nat => Ack \in Packets
      BY <1>2, <1>3, <1>4 DEF Ack
    <3>4. CASE RunAck(e, p)
      <4>1. snd_una' \in [Ends -> Nat]
        BY <1>2, <3>2, <3>4 DEF RunAck
      <4>2. net' \subseteq Packets
        BY <1>2, <1>8, <3>1, <3>3, <3>4 DEF RunAck
      <4> QED
        BY <1>2, <1>6, <3>1, <3>4, <4>1, <4>2 DEF RunAck
    <3>5. CASE RunOld(e, p)
      <4>1. net' \subseteq Packets
        BY <1>2, <1>8, <3>1, <3>3, <3>5 DEF RunOld
      <4> QED
        BY <1>2, <1>6, <3>1, <3>5, <4>1 DEF RunOld
    <3>6. CASE RunExit(e, p)
      <4>1. net' \subseteq Packets
        BY <1>2, <1>8, <3>1, <3>3, <3>6 DEF RunExit
      <4>2. died' \in [Ends -> Died]
        BY <1>2, <1>7, <3>6 DEF RunExit
      <4> QED
        BY <1>2, <1>6, <3>1, <3>6, <4>1, <4>2 DEF RunExit
    <3>7. CASE RunInOrder(Server, p)
      <4>1. p.seq \in 1..(snd_nxt[Client] - 1)
        BY <3>1, <3>7 DEF RunInOrder, TakesData
      <4>2. /\ rcv_nxt'[Server] \in Nat
            /\ rcv_nxt' = [rcv_nxt EXCEPT ![Server] = rcv_nxt'[Server]]
            /\ held' \subseteq (rcv_nxt'[Server] + 1)..MaxData
        BY <1>9, <3>7, <4>1, InOrderMoves
      <4>3. rcv_nxt' \in [Ends -> Nat]
        BY <1>2, <4>2
      <4>4. net' \subseteq Packets
        BY <1>8, <3>1, <3>3, <3>7, <4>2
      <4>5. ackNode' \in BOOLEAN /\ UNCHANGED <<snd_una, died>>
        BY <3>7 DEF RunInOrder
      <4> QED
        BY <1>2, <1>6, <3>1, <4>2, <4>3, <4>4, <4>5
    <3>8. CASE RunEarly(Server, p)
      <4>1. /\ p.seq \in 1..(snd_nxt[Client] - 1) /\ p.seq > rcv_nxt[Server]
            /\ held' = held \cup {p.seq}
            /\ ackNode' \in BOOLEAN /\ UNCHANGED <<snd_una, rcv_nxt, died>>
        BY <3>1, <3>8 DEF RunEarly, TakesData
      <4>2. snd_nxt[Client] \in Nat /\ snd_nxt[Client] <= MaxData + 1
        BY <1>2, <1>9 DEF ConnectionInv, SharedInv
      <4>3. p.seq \in (rcv_nxt[Server] + 1)..MaxData
        BY <1>1, <1>2, <3>2, <4>1, <4>2
      <4>4. net' \subseteq Packets
        BY <1>2, <1>8, <3>1, <3>3, <4>1
      <4> QED
        BY <1>2, <1>6, <3>1, <4>1, <4>3, <4>4
    <3> QED
      BY <3>1, <3>4, <3>5, <3>6, <3>7, <3>8
  <2>11. UNCHANGED vars => TypeOK'
    BY <1>2, <1>6 DEF vars
  <2> QED
    BY <1>9, <2>1, <2>2, <2>3, <2>4, <2>5, <2>6, <2>7, <2>8, <2>9, <2>10, <2>11,
       LateCases
<1>10. CASE ~Connected
  <2>1. held = {}
    BY <1>10 DEF ConnectionInv, HandshakeInv
  <2>2. CASE Connect
    <3>1. Packet(Client, "SYN", 0, 0) \in Packets
      BY <1>3, <1>4
    <3>2. pc' \in [Ends -> Pcs] /\ sockstate' \in [Ends -> States]
      BY <1>2, <1>7, <2>2 DEF Connect
    <3>3. snd_nxt' \in [Ends -> Nat]
      BY <1>2, <2>2 DEF Connect
    <3> QED
      BY <1>2, <1>6, <2>2, <3>1, <3>2, <3>3 DEF Connect, Send
  <2>3. CASE Accept
    <3>1. Packet(Server, "SYNACK", ISS, rcv_nxt[Server]) \in Packets
      BY <1>1, <1>2, <1>3, <1>4
    <3>2. pc' \in [Ends -> Pcs]
      BY <1>2, <1>7, <2>3 DEF Accept
    <3>3. snd_nxt' \in [Ends -> Nat] /\ snd_una' \in [Ends -> Nat]
      BY <1>1, <1>2, <2>3 DEF Accept
    <3> QED
      BY <1>2, <1>6, <2>3, <3>1, <3>2, <3>3 DEF Accept, Send
  <2>4. CASE ConnectRecv(SynAck) /\ net = {SynAck}
    <3>1. SynAck.seq \in Nat /\ SynAck.ack \in Nat
      BY <1>5, <2>4
    <3>2. Packet(Client, "ACK", snd_nxt[Client], SynAck.seq + 1) \in Packets
      BY <1>2, <1>3, <1>4, <3>1
    <3>3. pc' \in [Ends -> Pcs] /\ sockstate' \in [Ends -> States]
      BY <1>2, <1>7, <2>4 DEF ConnectRecv
    <3>4. rcv_nxt' \in [Ends -> Nat] /\ snd_una' \in [Ends -> Nat]
      BY <1>2, <2>4, <3>1 DEF ConnectRecv
    <3>5. net' \subseteq Packets
      BY <1>8, <2>4, <3>2 DEF ConnectRecv
    <3>6. UNCHANGED <<snd_nxt, held, ackNode, died>>
      BY <2>4 DEF ConnectRecv
    <3> QED
      BY <1>2, <1>6, <2>1, <3>3, <3>4, <3>5, <3>6
  <2>5. CASE /\ net' = {}
             /\ sockstate' = [sockstate EXCEPT ![Server] = "SYN_RECEIVED"]
             /\ rcv_nxt' = [rcv_nxt EXCEPT ![Server] = 1]
             /\ UNCHANGED <<pc, snd_nxt, snd_una, held, ackNode, died>>
    <3>1. sockstate' \in [Ends -> States] /\ rcv_nxt' \in [Ends -> Nat]
      BY <1>2, <1>7, <2>5
    <3> QED
      BY <1>2, <1>6, <2>1, <2>5, <3>1
  <2>6. ASSUME NEW p, Lose(p)
        PROVE  TypeOK'
    BY <1>2, <1>6, <2>6 DEF Lose
  <2>7. UNCHANGED vars => TypeOK'
    BY <1>2, <1>6 DEF vars
  <2> QED
    BY <1>10, <2>2, <2>3, <2>4, <2>5, <2>6, <2>7, EarlyCases
<1> QED
  BY <1>9, <1>10
-----------------------------------------------------------------------------
\* No order in which packets come, none that is lost and none that is taken for
\* another leaves a half-open connection, makes two established ends disagree on
\* their numbers, or makes a run() end its process: only touClose does.
THEOREM ConnectionSafe ==
    ASSUME OneHandshake
    PROVE  Spec => [](TypeOK /\ NoHalfOpen /\ SequencesAgree /\ EndsOnlyByClose)
<1>1. Init => ConnectionInv
  <2> SUFFICES ASSUME Init
               PROVE  ConnectionInv
    OBVIOUS
  <2>1. TypeOK
    BY TwoEnds, ConnectionAssumption DEF Init, TypeOK, Died
  <2>2. ~Connected
    BY TwoEnds DEF Init, Connected
  <2>3. HandshakeInv
    BY TwoEnds DEF Init, HandshakeInv
  <2> QED
    BY <2>1, <2>2, <2>3 DEF ConnectionInv, SharedInv
<1>2. ConnectionInv /\ [Next]_vars => ConnectionInv'
  BY OneHandshake, TypeNext, HandshakeNext, SharedNext DEF ConnectionInv
<1>3. ConnectionInv => TypeOK /\ NoHalfOpen /\ SequencesAgree /\ EndsOnlyByClose
  <2> SUFFICES ASSUME ConnectionInv
               PROVE  NoHalfOpen /\ SequencesAgree /\ EndsOnlyByClose
    BY DEF ConnectionInv
  <2>1. CASE ~Connected
    <3>1. sockstate[Server] # "ESTABLISHED" /\ \A e \in Ends : died[e] = "no"
      BY <2>1 DEF ConnectionInv, HandshakeInv
    <3> QED
      BY <3>1, TwoEnds DEF NoHalfOpen, SequencesAgree, EndsOnlyByClose
  <2>2. CASE Connected
    BY <2>2 DEF ConnectionInv, SharedInv, Connected, NoHalfOpen, SequencesAgree
  <2> QED
    BY <2>1, <2>2
<1> QED
  BY <1>1, <1>2, <1>3, PTL DEF Spec
=============================================================================
