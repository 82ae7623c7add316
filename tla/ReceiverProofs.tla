--------------------------- MODULE ReceiverProofs ---------------------------
(***************************************************************************)
(* Theorems about Receiver, for every set of segments and every size of    *)
(* the buffer:                                                             *)
(*   - ReceiverSafe: with any reader and any network, no ready segment is  *)
(*     forgotten and acknowledgements are neither muted nor delayed twice; *)
(*   - ReceiverOrder: what is stored never goes backwards;                 *)
(*   - ReceiverStream: if the buffer is drained between runs, the stream   *)
(*     is stored intact and what is acknowledged is stored;                *)
(*   - ReceiverAsserts: if no segment waits twice, no assertion fails.     *)
(***************************************************************************)
EXTENDS Receiver, TLAPS, SequenceTheorems

\* The two ways into Take have this in common.
Taking(segment) ==
    /\ segment \in Segs
    /\ rpc \in {"idle", "next"} /\ runstate = "GET_PKT"
    /\ minhp_recv[segment] < IF Dup THEN MaxCopies ELSE 1
    /\ Take(segment)
    /\ died' \in {"no", "crash"}
    /\ Drained => Used = 0 \/ CbSize - Used >= RECVBUFSIZE

\* A step of the receiver is one of these.
LEMMA StepCases ==
    ASSUME [Next]_vars
    PROVE  \/ \E segment \in Segs : Taking(segment)
           \/ RunResume \/ Put \/ Recover \/ RecoverDone \/ Delack \/ RunEnd
           \/ \E top \in Tops : RecoverOne(top) \/ RecoverFull(top)
                                \/ RecoverAsserts(top)
           \/ TimerDelack
           \/ \E len \in RecvLens : TouRecv(len)
           \/ UNCHANGED vars
<1>1. ASSUME NEW segment \in Segs, Arrive(segment)
      PROVE  Taking(segment)
  <2>1. CASE RunGetPkt(segment)
    BY <1>1, <2>1 DEF RunGetPkt, Arrive, Taking
  <2>2. CASE RunNext(segment)
    <3>1. died' \in {"no", "crash"}
      BY <2>2 DEF RunNext, DeleteTp
    <3> QED
      BY <1>1, <2>2, <3>1 DEF RunNext, RoomForMore, Arrive, Taking
  <2> QED
    BY <1>1, <2>1, <2>2 DEF Arrive
<1> QED
  BY <1>1 DEF Next, Internal

\* The bytes of a segment, as a sequence.
LEMMA BytesType ==
    ASSUME NEW segment \in Segs \cup {NoSegment}
    PROVE  /\ Bytes(segment) \in Seq(Nat)
           /\ Len(Bytes(segment)) = segment.len
           /\ \A i \in 1..segment.len :
                 Bytes(segment)[i] = segment.from + i - 1
<1>1. /\ segment.len \in Nat /\ segment.from \in Nat
      /\ segment.len > 0 => segment.from > 0
  BY ReceiverAssumption DEF NoSegment
<1>2. \A i \in 1..segment.len : segment.from + i - 1 \in Nat
  BY <1>1
<1> QED
  BY <1>1, <1>2 DEF Bytes
-----------------------------------------------------------------------------
(* Type correctness                                                        *)

LEMMA TypeInit == Init => TypeOK
<1> SUFFICES ASSUME Init PROVE TypeOK
  OBVIOUS
<1>1. minhp_recv \in [Segs -> Nat]
  BY DEF Init
<1>2. stored \in Seq(Nat) /\ nread \in 0..Len(stored)
  BY DEF Init
<1>3. cur \in Segs \cup {NoSegment}
  BY DEF Init
<1> QED
  BY <1>1, <1>2, <1>3 DEF Init, TypeOK

LEMMA TypeNext ==
    ASSUME TypeOK, [Next]_vars
    PROVE  TypeOK'
<1> USE DEF buffer, delack
<1>1. ASSUME NEW segment \in Segs, Taking(segment)
      PROVE  TypeOK'
  <2>0. rcv_nxt \in Nat /\ minhp_recv \in [Segs -> Nat]
    BY DEF TypeOK
  <2>1. /\ segment.seq + segment.len \in Nat
        /\ minhp_recv[segment] + 1 \in Nat
    <3>1. segment.seq \in Nat /\ segment.len \in Nat
      BY ReceiverAssumption
    <3>2. minhp_recv[segment] \in Nat
      BY <2>0
    <3> QED
      BY <3>1, <3>2
  <2>2. rcv_nxt' \in Nat
    <3>1. rcv_nxt' = rcv_nxt \/ rcv_nxt' = segment.seq + segment.len
      BY <1>1 DEF Taking, Take
    <3> QED
      BY <2>0, <2>1, <3>1
  <2>3. minhp_recv' \in [Segs -> Nat]
    BY <1>1, <2>1 DEF Taking, Take, TypeOK
  <2>4. /\ UNCHANGED <<stored, nread, runstate, ack_node, acked, sinceAck>>
        /\ rpc' \in {"put", "next", "delack"}
        /\ t_delack_state' \in {"IMMED", t_delack_state}
        /\ cur' = segment /\ tp' = TRUE /\ died' \in {"no", "crash"}
    BY <1>1 DEF Taking, Take
  <2> QED
    BY <1>1, <2>2, <2>3, <2>4 DEF TypeOK
<1>2. CASE RunResume
  BY <1>2 DEF RunResume, TypeOK
<1>3. CASE Put
  <2>1. Bytes(cur) \in Seq(Nat)
    BY BytesType DEF TypeOK
  <2>2. stored' \in Seq(Nat) /\ nread' = nread /\ Len(stored') >= Len(stored)
    BY <1>3, <2>1 DEF Put, TypeOK
  <2>3. nread' \in 0..Len(stored')
    BY <2>2 DEF TypeOK
  <2> QED
    BY <1>3, <2>2, <2>3 DEF Put, TypeOK
<1>4. CASE Recover
  BY <1>4 DEF Recover, TypeOK
<1>5. CASE RecoverDone
  BY <1>5 DEF RecoverDone, RecoverEnds, TypeOK
<1>6. CASE Delack
  BY <1>6 DEF Delack, SendAck, TypeOK
<1>7. CASE RunEnd
  BY <1>7 DEF RunEnd, DeleteTp, TypeOK
<1>8. ASSUME NEW top \in Tops, RecoverOne(top)
      PROVE  TypeOK'
  <2>1. top \in Segs /\ minhp_recv[top] - 1 \in Nat
    BY DEF Tops, Waiting, TypeOK
  <2>2. Bytes(top) \in Seq(Nat)
    BY <2>1, BytesType
  <2>3. stored' \in Seq(Nat) /\ nread' = nread /\ Len(stored') >= Len(stored)
    BY <1>8, <2>2 DEF RecoverOne, TypeOK
  <2>4. nread' \in 0..Len(stored')
    BY <2>3 DEF TypeOK
  <2>5. rcv_nxt' \in Nat
    BY <1>8, <2>1, ReceiverAssumption DEF RecoverOne
  <2>6. minhp_recv' \in [Segs -> Nat]
    BY <1>8, <2>1 DEF RecoverOne, Popped, TypeOK
  <2> QED
    BY <1>8, <2>3, <2>4, <2>5, <2>6 DEF RecoverOne, TypeOK
<1>9. ASSUME NEW top \in Tops, RecoverFull(top)
      PROVE  TypeOK'
  BY <1>9 DEF RecoverFull, RecoverEnds, AfterFull, TypeOK
<1>10. ASSUME NEW top \in Tops, RecoverAsserts(top)
       PROVE  TypeOK'
  BY <1>10 DEF RecoverAsserts, TypeOK
<1>11. CASE TimerDelack
  BY <1>11 DEF TimerDelack, SendAck, TypeOK
<1>12. ASSUME NEW len \in RecvLens, TouRecv(len)
       PROVE  TypeOK'
  <2>1. nread' \in 0..Len(stored)
    BY <1>12, ReceiverAssumption DEF TouRecv, Readable, Used, TypeOK
  <2> QED
    BY <1>12, <2>1 DEF TouRecv, TypeOK
<1>13. CASE UNCHANGED vars
  BY <1>13 DEF vars, TypeOK
<1> QED
  BY <1>1, <1>2, <1>3, <1>4, <1>5, <1>6, <1>7, <1>8, <1>9, <1>10, <1>11,
     <1>12, <1>13, StepCases
-----------------------------------------------------------------------------
(* No segment is forgotten, and acknowledgements flow                      *)

\* NoneReady, also where the thread is on its way out of run().
ReadyInv ==
    rpc \in {"idle", "delack", "next"} /\ runstate = "GET_PKT"
      => \A top \in Tops : top.seq > rcv_nxt

\* Adding a segment beyond rcv_nxt, or none, leaves the segments on top beyond it.
LEMMA TakingTops ==
    ASSUME TypeOK, NEW segment \in Segs, Taking(segment), segment.seq # rcv_nxt,
           \A top \in Tops : top.seq > rcv_nxt
    PROVE  \A top \in Tops' : top.seq > rcv_nxt'
<1>1. rcv_nxt' = rcv_nxt
  BY DEF Taking, Take, InOrder
<1>2. CASE minhp_recv' = minhp_recv
  BY <1>1, <1>2 DEF Tops, Waiting
<1>3. CASE minhp_recv' # minhp_recv
  <2>1. /\ segment.seq > rcv_nxt
        /\ minhp_recv' = [minhp_recv EXCEPT ![segment] = @ + 1]
    BY <1>3 DEF Taking, Take, InOrder
  <2>2. Waiting' \subseteq Waiting \cup {segment} /\ Waiting \subseteq Waiting'
    BY <2>1 DEF Waiting, TypeOK
  <2>3. Tops' \subseteq Tops \cup {segment}
    BY <2>2 DEF Tops
  <2> QED
    BY <1>1, <2>1, <2>3
<1> QED
  BY <1>2, <1>3

LEMMA ReadyNext ==
    ASSUME TypeOK, ReadyInv, [Next]_vars
    PROVE  ReadyInv'
<1> USE DEF ReadyInv, buffer, delack
<1>1. ASSUME NEW segment \in Segs, Taking(segment)
      PROVE  ReadyInv'
  <2>1. CASE segment.seq = rcv_nxt
    <3>1. rpc' = "put"
      BY <1>1, <2>1, ReceiverAssumption DEF Taking, Take, InOrder, TypeOK
    <3> QED
      BY <3>1
  <2>2. CASE segment.seq # rcv_nxt
    BY <1>1, <2>2, TakingTops DEF Taking
  <2> QED
    BY <2>1, <2>2
<1>2. CASE RunResume
  BY <1>2 DEF RunResume
<1>3. CASE Put
  BY <1>3 DEF Put
<1>4. CASE Recover
  BY <1>4 DEF Recover, Tops, Waiting
<1>5. CASE RecoverDone
  BY <1>5 DEF RecoverDone, RecoverEnds, Tops, Waiting
<1>6. CASE Delack
  BY <1>6 DEF Delack, Tops, Waiting
<1>7. CASE RunEnd
  BY <1>7 DEF RunEnd, Tops, Waiting
<1>8. ASSUME NEW top \in Tops, RecoverOne(top)
      PROVE  ReadyInv'
  BY <1>8 DEF RecoverOne
<1>9. ASSUME NEW top \in Tops, RecoverFull(top)
      PROVE  ReadyInv'
  BY <1>9 DEF RecoverFull, RecoverEnds, AfterFull
<1>10. ASSUME NEW top \in Tops, RecoverAsserts(top)
       PROVE  ReadyInv'
  BY <1>10 DEF RecoverAsserts
<1>11. CASE TimerDelack
  BY <1>11 DEF TimerDelack, Tops, Waiting
<1>12. ASSUME NEW len \in RecvLens, TouRecv(len)
       PROVE  ReadyInv'
  BY <1>12 DEF TouRecv, Tops, Waiting
<1>13. CASE UNCHANGED vars
  BY <1>13 DEF vars, Tops, Waiting
<1> QED
  BY <1>1, <1>2, <1>3, <1>4, <1>5, <1>6, <1>7, <1>8, <1>9, <1>10, <1>11,
     <1>12, <1>13, StepCases

\* AckEverySecond and TimerNotMuted need to know what is unacknowledged at each
\* point of run(), and that an unfinished recovery keeps the state IMMED.
AckInv ==
    /\ rpc \in {"put", "delack"} => runstate = "GET_PKT"
    /\ rpc \in {"idle", "put", "next"} /\ runstate = "GET_PKT"
         => /\ sinceAck <= 1
            /\ t_delack_state \in {"QUE", "QUEXMIT", "EXPXMIT"} => sinceAck = 0
    /\ rpc \in {"recover", "delack"} /\ t_delack_state = "QUE" => sinceAck <= 1
    /\ rpc \in {"idle", "recover", "next"} /\ runstate = "PKT_RECOVERY"
         => t_delack_state = "IMMED"
    /\ rpc \in {"idle", "next"} /\ t_delack_state = "IMMED"
         => runstate = "PKT_RECOVERY"

LEMMA AckNext ==
    ASSUME TypeOK, AckInv, [Next]_vars
    PROVE  AckInv'
<1> USE DEF AckInv, buffer, delack
<1>1. ASSUME NEW segment \in Segs, Taking(segment)
      PROVE  AckInv'
  BY <1>1 DEF Taking, Take
<1>2. CASE RunResume
  BY <1>2 DEF RunResume
<1>3. CASE Put
  BY <1>3 DEF Put, TypeOK
<1>4. CASE Recover
  BY <1>4 DEF Recover, TypeOK
<1>5. CASE RecoverDone
  BY <1>5 DEF RecoverDone, RecoverEnds
<1>6. CASE Delack
  BY <1>6 DEF Delack, Delayable, SendAck
<1>7. CASE RunEnd
  BY <1>7 DEF RunEnd
<1>8. ASSUME NEW top \in Tops, RecoverOne(top)
      PROVE  AckInv'
  BY <1>8 DEF RecoverOne
<1>9. ASSUME NEW top \in Tops, RecoverFull(top)
      PROVE  AckInv'
  BY <1>9 DEF RecoverFull, RecoverEnds, AfterFull
<1>10. ASSUME NEW top \in Tops, RecoverAsserts(top)
       PROVE  AckInv'
  BY <1>10 DEF RecoverAsserts
<1>11. CASE TimerDelack
  BY <1>11 DEF TimerDelack, SendAck
<1>12. ASSUME NEW len \in RecvLens, TouRecv(len)
       PROVE  AckInv'
  BY <1>12 DEF TouRecv
<1>13. CASE UNCHANGED vars
  BY <1>13 DEF vars
<1> QED
  BY <1>1, <1>2, <1>3, <1>4, <1>5, <1>6, <1>7, <1>8, <1>9, <1>10, <1>11,
     <1>12, <1>13, StepCases

\* Whatever the network delivers and however slowly touRecv reads: a segment
\* whose turn has come is taken up by the next run(), no second acknowledgement
\* is delayed, and the timer is not kept from acknowledging.
THEOREM ReceiverSafe ==
    Spec => [](TypeOK /\ NoneReady /\ AckEverySecond /\ TimerNotMuted)
<1>1. Init => TypeOK /\ ReadyInv /\ AckInv
  BY TypeInit DEF Init, ReadyInv, AckInv, Tops, Waiting
<1>2. TypeOK /\ ReadyInv /\ AckInv /\ [Next]_vars => (TypeOK /\ ReadyInv /\ AckInv)'
  BY TypeNext, ReadyNext, AckNext
<1>3. TypeOK /\ ReadyInv /\ AckInv
        => TypeOK /\ NoneReady /\ AckEverySecond /\ TimerNotMuted
  BY DEF ReadyInv, AckInv, NoneReady, AckEverySecond, TimerNotMuted
<1> QED
  BY <1>1, <1>2, <1>3, PTL DEF Spec
-----------------------------------------------------------------------------
(* The order of what is stored                                             *)

\* Every segment sits where its sequence number says: the byte at position p
\* of the stream has sequence number p.
InPlace == \A segment \in Segs : segment.from = segment.seq

\* Appending a segment that begins beyond everything stored keeps the order.
LEMMA AppendedInOrder ==
    ASSUME NEW segment \in Segs, segment.from = segment.seq,
           NEW old \in Seq(Nat),
           \A i \in 2..Len(old) : old[i - 1] < old[i],
           \A i \in 1..Len(old) : old[i] < segment.seq
    PROVE  LET new == old \o Bytes(segment)
           IN /\ \A i \in 2..Len(new) : new[i - 1] < new[i]
              /\ \A i \in 1..Len(new) : new[i] < segment.seq + segment.len
<1> DEFINE new == old \o Bytes(segment)
           n == Len(old)
<1>1. /\ segment.seq \in Nat \ {0} /\ segment.len \in Nat \ {0}
      /\ n \in Nat
      /\ \A i \in 1..n : old[i] \in Nat
  BY ReceiverAssumption
<1>2. /\ Bytes(segment) \in Seq(Nat) /\ Len(Bytes(segment)) = segment.len
      /\ \A i \in 1..segment.len : Bytes(segment)[i] = segment.seq + i - 1
  BY BytesType
<1>3. /\ Len(new) = n + segment.len
      /\ \A i \in 1..(n + segment.len) :
            new[i] = IF i <= n THEN old[i] ELSE segment.seq + (i - n) - 1
  <2> DEFINE b == Bytes(segment)
  <2>1. b \in Seq(Nat) /\ Len(b) = segment.len
    BY <1>2
  <2>2. new = old \o b
    OBVIOUS
  <2> HIDE DEF b, new
  <2>3. /\ Len(old \o b) = Len(old) + Len(b)
        /\ \A i \in 1..(Len(old) + Len(b)) :
              (old \o b)[i] = IF i <= Len(old) THEN old[i] ELSE b[i - Len(old)]
    BY <2>1, ConcatProperties
  <2>4. /\ Len(new) = n + segment.len
        /\ \A i \in 1..(n + segment.len) :
              new[i] = IF i <= n THEN old[i] ELSE Bytes(segment)[i - n]
    BY <2>1, <2>2, <2>3 DEF b
  <2>5. \A i \in 1..(n + segment.len) : ~(i <= n) => i - n \in 1..segment.len
    BY <1>1
  <2> QED
    BY <1>2, <2>4, <2>5
<1> HIDE DEF new, n
<1>4. \A i \in 2..Len(new) : new[i - 1] < new[i]
  <2> TAKE i \in 2..Len(new)
  <2>0. /\ i \in Nat /\ i - 1 \in Nat
        /\ i \in 1..(n + segment.len) /\ i - 1 \in 1..(n + segment.len)
    BY <1>1, <1>3
  <2>1. CASE i <= n
    <3>1. i \in 2..n /\ i - 1 <= n
      BY <1>1, <2>0, <2>1
    <3>2. new[i] = old[i] /\ new[i - 1] = old[i - 1]
      BY <1>3, <2>0, <3>1, <2>1
    <3> QED
      BY <3>1, <3>2 DEF n
  <2>2. CASE i = n + 1
    <3>1. n \in 1..n /\ i - 1 = n /\ i - n = 1
      BY <1>1, <2>0, <2>2
    <3>2. new[n] = old[n]
      BY <1>3, <2>0, <3>1
    <3>3. new[i] = segment.seq + (i - n) - 1
      BY <1>1, <1>3, <2>0, <2>2
    <3>4. old[n] < segment.seq
      BY <3>1 DEF n
    <3> QED
      BY <1>1, <3>1, <3>2, <3>3, <3>4
  <2>3. CASE i > n + 1
    <3>1. ~(i <= n) /\ ~(i - 1 <= n)
      BY <1>1, <2>0, <2>3
    <3>2. /\ new[i] = segment.seq + (i - n) - 1
          /\ new[i - 1] = segment.seq + (i - 1 - n) - 1
      BY <1>3, <2>0, <3>1
    <3> QED
      BY <1>1, <2>0, <3>2
  <2> QED
    BY <1>1, <2>0, <2>1, <2>2, <2>3
<1>5. \A i \in 1..Len(new) : new[i] < segment.seq + segment.len
  <2> TAKE i \in 1..Len(new)
  <2>0. i \in Nat /\ i \in 1..(n + segment.len)
    BY <1>1, <1>3
  <2>1. CASE i <= n
    <3>1. i \in 1..n /\ new[i] = old[i]
      BY <1>1, <1>3, <2>0, <2>1
    <3>2. old[i] < segment.seq
      BY <3>1 DEF n
    <3> QED
      BY <1>1, <3>1, <3>2
  <2>2. CASE ~(i <= n)
    <3>1. new[i] = segment.seq + (i - n) - 1
      BY <1>3, <2>0, <2>2
    <3> QED
      BY <1>1, <2>0, <3>1
  <2> QED
    BY <2>1, <2>2
<1> QED
  BY <1>4, <1>5 DEF new

\* Everything stored lies below the segment about to be stored, or rcv_nxt.
OrderInv ==
    /\ NeverBackwards
    /\ rpc = "put" => cur \in Segs /\ rcv_nxt = cur.seq + cur.len
    /\ \A i \in 1..Len(stored) :
          stored[i] < IF rpc = "put" THEN cur.seq ELSE rcv_nxt

LEMMA OrderNext ==
    ASSUME InPlace, TypeOK, OrderInv, [Next]_vars
    PROVE  OrderInv'
<1> USE DEF OrderInv, NeverBackwards, buffer, delack
<1>1. ASSUME NEW segment \in Segs, Taking(segment)
      PROVE  OrderInv'
  BY <1>1 DEF Taking, Take, InOrder
<1>2. CASE RunResume
  BY <1>2 DEF RunResume
<1>3. CASE Put
  <2>1. /\ cur \in Segs /\ rcv_nxt = cur.seq + cur.len
        /\ cur.seq \in Nat /\ cur.len \in Nat /\ cur.from = cur.seq
    BY <1>3, ReceiverAssumption DEF Put, InPlace
  <2>2. \A i \in 1..Len(stored) : stored[i] < cur.seq
    BY <1>3 DEF Put
  <2>3. CASE stored' = stored
    <3>1. \A i \in 1..Len(stored) : stored[i] \in Nat
      BY DEF TypeOK
    <3>2. \A i \in 1..Len(stored) : stored[i] < rcv_nxt
      BY <2>1, <2>2, <3>1
    <3> QED
      BY <1>3, <2>3, <3>2 DEF Put
  <2>4. CASE stored' = stored \o Bytes(cur)
    <3>1. /\ \A i \in 2..Len(stored') : stored'[i - 1] < stored'[i]
          /\ \A i \in 1..Len(stored') : stored'[i] < rcv_nxt
      BY <2>1, <2>2, <2>4, AppendedInOrder DEF TypeOK
    <3> QED
      BY <1>3, <3>1 DEF Put
  <2> QED
    BY <1>3, <2>3, <2>4 DEF Put
<1>4. CASE Recover
  BY <1>4 DEF Recover
<1>5. CASE RecoverDone
  BY <1>5 DEF RecoverDone, RecoverEnds
<1>6. CASE Delack
  BY <1>6 DEF Delack
<1>7. CASE RunEnd
  BY <1>7 DEF RunEnd
<1>8. ASSUME NEW top \in Tops, RecoverOne(top)
      PROVE  OrderInv'
  <2>1. /\ top \in Segs /\ top.from = top.seq
        /\ \A i \in 1..Len(stored) : stored[i] < top.seq
    BY <1>8 DEF RecoverOne, Tops, Waiting, InPlace
  <2>2. /\ \A i \in 2..Len(stored') : stored'[i - 1] < stored'[i]
        /\ \A i \in 1..Len(stored') : stored'[i] < rcv_nxt'
    BY <1>8, <2>1, AppendedInOrder DEF RecoverOne, TypeOK
  <2> QED
    BY <1>8, <2>2 DEF RecoverOne
<1>9. ASSUME NEW top \in Tops, RecoverFull(top)
      PROVE  OrderInv'
  BY <1>9 DEF RecoverFull, RecoverEnds
<1>10. ASSUME NEW top \in Tops, RecoverAsserts(top)
       PROVE  OrderInv'
  BY <1>10 DEF RecoverAsserts
<1>11. CASE TimerDelack
  BY <1>11 DEF TimerDelack
<1>12. ASSUME NEW len \in RecvLens, TouRecv(len)
       PROVE  OrderInv'
  BY <1>12 DEF TouRecv
<1>13. CASE UNCHANGED vars
  BY <1>13 DEF vars
<1> QED
  BY <1>1, <1>2, <1>3, <1>4, <1>5, <1>6, <1>7, <1>8, <1>9, <1>10, <1>11,
     <1>12, <1>13, StepCases

\* Even with a buffer that overflows and segments that come twice, touRecv gets
\* no byte twice and none before an earlier one.
THEOREM ReceiverOrder ==
    ASSUME InPlace
    PROVE  Spec => []NeverBackwards
<1>1. Init => TypeOK /\ OrderInv
  BY TypeInit DEF Init, OrderInv, NeverBackwards
<1>2. TypeOK /\ OrderInv /\ [Next]_vars => (TypeOK /\ OrderInv)'
  BY InPlace, TypeNext, OrderNext
<1>3. OrderInv => NeverBackwards
  BY DEF OrderInv
<1> QED
  BY <1>1, <1>2, <1>3, PTL DEF Spec
-----------------------------------------------------------------------------
(* The stream, when the buffer is drained between runs                     *)

\* touRecv empties the buffer after each run(), any segment has the room that
\* run() asks for before it takes another packet, and so has an empty buffer.
DrainedReader ==
    /\ Drained
    /\ RECVBUFSIZE <= CbSize
    /\ \A segment \in Segs : segment.len < RECVBUFSIZE

\* Appending the segment that continues the stream gives the stream.
LEMMA AppendedIntact ==
    ASSUME NEW segment \in Segs, NEW old \in Seq(Nat),
           segment.from = Len(old) + 1,
           \A i \in 1..Len(old) : old[i] = i
    PROVE  LET new == old \o Bytes(segment)
           IN /\ Len(new) = Len(old) + segment.len
              /\ \A i \in 1..Len(new) : new[i] = i
<1> DEFINE new == old \o Bytes(segment)
           n == Len(old)
<1>1. segment.len \in Nat /\ n \in Nat
  BY ReceiverAssumption
<1>2. /\ Bytes(segment) \in Seq(Nat) /\ Len(Bytes(segment)) = segment.len
      /\ \A i \in 1..segment.len : Bytes(segment)[i] = segment.from + i - 1
  BY BytesType
<1>3. /\ Len(new) = n + segment.len
      /\ \A i \in 1..(n + segment.len) :
            new[i] = IF i <= n THEN old[i] ELSE Bytes(segment)[i - n]
  BY <1>2, ConcatProperties
<1> HIDE DEF new
<1>4. \A i \in 1..Len(new) : new[i] = i
  <2> TAKE i \in 1..Len(new)
  <2>1. i \in Nat /\ i \in 1..(n + segment.len)
    BY <1>1, <1>3
  <2>2. CASE i <= n
    BY <1>3, <2>1, <2>2
  <2>3. CASE ~(i <= n)
    <3>1. i - n \in 1..segment.len
      BY <1>1, <2>1, <2>3
    <3>2. new[i] = segment.from + (i - n) - 1
      BY <1>2, <1>3, <2>1, <2>3, <3>1
    <3> QED
      BY <1>1, <2>1, <3>2
  <2> QED
    BY <2>2, <2>3
<1> QED
  BY <1>3, <1>4 DEF new

\* What is stored and the segment about to be stored, for which there is room,
\* are the stream up to rcv_nxt, and no more is acknowledged.
StreamInv ==
    /\ StreamIntact
    /\ rcv_nxt = Len(stored) + 1 + (IF rpc = "put" THEN cur.len ELSE 0)
    /\ rpc = "put" => cur \in Segs /\ cur.from = Len(stored) + 1 /\ Fits(cur)
    /\ acked <= rcv_nxt

\* A segment that is taken fits into the buffer.
LEMMA TakenFits ==
    ASSUME DrainedReader, TypeOK, NEW segment \in Segs, Taking(segment)
    PROVE  Fits(segment)
<1>1. Used = 0 \/ CbSize - Used >= RECVBUFSIZE
  BY DEF DrainedReader, Taking
<1>2. Used \in Nat /\ CbSize \in Nat /\ RECVBUFSIZE \in Nat /\ segment.len \in Nat
  BY ReceiverAssumption DEF Used, TypeOK
<1>3. segment.len < RECVBUFSIZE /\ RECVBUFSIZE <= CbSize
  BY DEF DrainedReader
<1> QED
  BY <1>1, <1>2, <1>3 DEF Fits

LEMMA StreamNext ==
    ASSUME DrainedReader, InPlace, TypeOK, StreamInv, [Next]_vars
    PROVE  StreamInv'
<1> USE DEF StreamInv, StreamIntact, buffer, delack
<1>1. ASSUME NEW segment \in Segs, Taking(segment)
      PROVE  StreamInv'
  <2>1. /\ rpc # "put" /\ rcv_nxt = Len(stored) + 1 /\ rcv_nxt \in Nat
        /\ stored' = stored /\ nread' = nread /\ acked' = acked
        /\ cur' = segment /\ acked \in Nat
    BY <1>1 DEF Taking, Take, TypeOK
  <2>2. CASE rpc' = "put"
    <3>1. segment.seq = rcv_nxt /\ rcv_nxt' = segment.seq + segment.len
      BY <1>1, <2>2 DEF Taking, Take, InOrder
    <3>2. segment.len \in Nat /\ segment.from = Len(stored) + 1
      BY <2>1, <3>1, ReceiverAssumption DEF InPlace
    <3>3. Fits(cur)'
      BY <1>1, <2>1, TakenFits DEF Fits, Used
    <3>4. rcv_nxt' = Len(stored) + 1 + segment.len /\ acked <= rcv_nxt'
      BY <2>1, <3>1, <3>2
    <3> QED
      BY <2>1, <2>2, <3>2, <3>3, <3>4
  <2>3. CASE rpc' # "put"
    <3>1. rcv_nxt' = rcv_nxt
      BY <1>1, <2>3 DEF Taking, Take
    <3> QED
      BY <2>1, <2>3, <3>1
  <2> QED
    BY <2>2, <2>3
<1>2. CASE RunResume
  BY <1>2 DEF RunResume
<1>3. CASE Put
  <2>1. /\ cur \in Segs /\ cur.from = Len(stored) + 1 /\ Fits(cur)
        /\ rcv_nxt = Len(stored) + 1 + cur.len
    BY <1>3 DEF Put
  <2>2. stored' = stored \o Bytes(cur)
    BY <1>3, <2>1 DEF Put
  <2>3. /\ Len(stored') = Len(stored) + cur.len
        /\ \A i \in 1..Len(stored') : stored'[i] = i
    BY <2>1, <2>2, AppendedIntact DEF TypeOK
  <2>4. cur.len \in Nat /\ Len(stored) \in Nat
    BY <2>1, ReceiverAssumption DEF TypeOK
  <2>5. rpc' = "recover" /\ rcv_nxt' = rcv_nxt /\ acked' = acked
    BY <1>3 DEF Put
  <2> HIDE DEF StreamInv, StreamIntact
  <2>6. rcv_nxt' = Len(stored') + 1
    BY <2>1, <2>3, <2>4, <2>5
  <2> QED
    BY <2>3, <2>5, <2>6 DEF StreamInv, StreamIntact
<1>4. CASE Recover
  BY <1>4 DEF Recover
<1>5. CASE RecoverDone
  BY <1>5 DEF RecoverDone, RecoverEnds
<1>6. CASE Delack
  BY <1>6 DEF Delack, SendAck, TypeOK
<1>7. CASE RunEnd
  BY <1>7 DEF RunEnd
<1>8. ASSUME NEW top \in Tops, RecoverOne(top)
      PROVE  StreamInv'
  <2>1. /\ top \in Segs /\ top.seq = rcv_nxt /\ top.from = top.seq
        /\ rcv_nxt = Len(stored) + 1 /\ rpc' = rpc /\ rpc # "put"
    BY <1>8 DEF RecoverOne, Tops, Waiting, InPlace
  <2>2. /\ stored' = stored \o Bytes(top) /\ rcv_nxt' = top.seq + top.len
        /\ acked' = acked
    BY <1>8 DEF RecoverOne
  <2>3. /\ Len(stored') = Len(stored) + top.len
        /\ \A i \in 1..Len(stored') : stored'[i] = i
    BY <2>1, <2>2, AppendedIntact DEF TypeOK
  <2>4. top.len \in Nat /\ Len(stored) \in Nat /\ acked \in Nat
    BY <2>1, ReceiverAssumption DEF TypeOK
  <2>5. rcv_nxt' = Len(stored') + 1 /\ acked <= rcv_nxt'
    BY <2>1, <2>2, <2>3, <2>4
  <2> QED
    BY <2>1, <2>2, <2>3, <2>5
<1>9. ASSUME NEW top \in Tops, RecoverFull(top)
      PROVE  StreamInv'
  BY <1>9 DEF RecoverFull, RecoverEnds
<1>10. ASSUME NEW top \in Tops, RecoverAsserts(top)
       PROVE  StreamInv'
  BY <1>10 DEF RecoverAsserts, Fits, Used
<1>11. CASE TimerDelack
  BY <1>11 DEF TimerDelack, SendAck, TypeOK, Fits, Used
<1>12. ASSUME NEW len \in RecvLens, TouRecv(len)
       PROVE  StreamInv'
  <2>1. rpc # "put"
    BY <1>12 DEF TouRecv, DrainedReader
  <2> QED
    BY <1>12, <2>1 DEF TouRecv
<1>13. CASE UNCHANGED vars
  BY <1>13 DEF vars, Fits, Used
<1> QED
  BY <1>1, <1>2, <1>3, <1>4, <1>5, <1>6, <1>7, <1>8, <1>9, <1>10, <1>11,
     <1>12, <1>13, StepCases

\* With a reader that drains the buffer, and on any network, every byte is
\* stored once and in order, and what is acknowledged is stored.
THEOREM ReceiverStream ==
    ASSUME DrainedReader, InPlace
    PROVE  Spec => [](StreamIntact /\ AckedIsStored)
<1>1. Init => TypeOK /\ StreamInv
  BY TypeInit DEF Init, StreamInv, StreamIntact
<1>2. TypeOK /\ StreamInv /\ [Next]_vars => (TypeOK /\ StreamInv)'
  BY DrainedReader, InPlace, TypeNext, StreamNext
<1>3. StreamInv => StreamIntact /\ AckedIsStored
  BY DEF StreamInv, AckedIsStored
<1> QED
  BY <1>1, <1>2, <1>3, PTL DEF Spec
-----------------------------------------------------------------------------
(* The assertions, when no segment waits twice                             *)

\* Segments are cut from the stream once: two of them share no byte.
Disjoint ==
    \A segment, other \in Segs :
        \/ segment = other
        \/ segment.seq + segment.len <= other.seq
        \/ other.seq + other.len <= segment.seq

\* The heap holds one copy of a segment, none of it taken; a queued
\* acknowledgement has its node, which rcv_nxt never falls behind.
AssertInv ==
    /\ \A segment \in Segs : minhp_recv[segment] <= 1
    /\ \A segment \in Waiting : segment.seq >= rcv_nxt
    /\ rcv_nxt >= 1
    /\ t_delack_state = "QUE" => ack_node # 0
    /\ ack_node <= rcv_nxt
    /\ NoAssert

LEMMA AssertNext ==
    ASSUME ~Dup, Disjoint, TypeOK, ReadyInv, AssertInv, [Next]_vars
    PROVE  AssertInv'
<1> USE DEF AssertInv, NoAssert, buffer, delack
<1>1. ASSUME NEW segment \in Segs, Taking(segment)
      PROVE  AssertInv'
  <2>1. /\ segment.seq \in Nat /\ segment.len \in Nat /\ rcv_nxt \in Nat
        /\ \A other \in Segs : other.seq \in Nat /\ other.len \in Nat \ {0}
    BY ReceiverAssumption DEF TypeOK
  <2>2. /\ minhp_recv[segment] < 1
        /\ ack_node' = ack_node /\ died' \in {"no", "crash"}
        /\ t_delack_state' \in {t_delack_state, "IMMED"}
    BY <1>1 DEF Taking, Take
  <2>3. CASE segment.seq = rcv_nxt
    <3>1. minhp_recv' = minhp_recv /\ rcv_nxt' = segment.seq + segment.len
      BY <1>1, <2>1, <2>3 DEF Taking, Take, InOrder
    <3>2. ASSUME NEW other \in Waiting'
          PROVE  other.seq >= rcv_nxt'
      <4>1. other \in Waiting
        BY <3>1 DEF Waiting
      <4>2. other \in Segs /\ other # segment /\ other.seq >= rcv_nxt
        BY <2>2, <4>1 DEF Waiting, TypeOK
      <4>3. CASE other.seq = rcv_nxt
        <5>1. \A third \in Waiting : other.seq <= third.seq
          BY <4>3, <2>1 DEF Waiting
        <5>2. other \in Tops
          BY <4>1, <5>1 DEF Tops
        <5> QED
          BY <1>1, <2>1, <4>3, <5>2 DEF Taking, ReadyInv
      <4>4. CASE other.seq > rcv_nxt
        <5>1. other.seq \in Nat /\ other.len \in Nat \ {0}
          BY <2>1, <4>2
        <5>2. \/ segment.seq + segment.len <= other.seq
              \/ other.seq + other.len <= segment.seq
          BY <4>2 DEF Disjoint
        <5> QED
          BY <2>1, <2>3, <3>1, <4>4, <5>1, <5>2
      <4> QED
        BY <2>1, <4>2, <4>3, <4>4
    <3>3. rcv_nxt' >= 1 /\ ack_node' <= rcv_nxt'
      BY <2>1, <2>2, <2>3, <3>1 DEF TypeOK
    <3> QED
      BY <2>2, <3>1, <3>2, <3>3
  <2>4. CASE segment.seq # rcv_nxt
    <3>1. /\ rcv_nxt' = rcv_nxt
          /\ \/ minhp_recv' = minhp_recv
             \/ /\ segment.seq > rcv_nxt
                /\ minhp_recv' = [minhp_recv EXCEPT ![segment] = @ + 1]
      BY <1>1, <2>4 DEF Taking, Take, InOrder
    <3>2. \A other \in Segs : minhp_recv'[other] <= 1
      BY <2>2, <3>1 DEF TypeOK
    <3>3. Waiting' \subseteq Waiting \cup {segment}
      BY <3>1 DEF Waiting, TypeOK
    <3>4. Waiting' # Waiting => segment.seq >= rcv_nxt
      BY <2>1, <3>1 DEF Waiting
    <3> QED
      BY <2>2, <3>1, <3>2, <3>3, <3>4
  <2> QED
    BY <2>3, <2>4
<1>2. CASE RunResume
  BY <1>2 DEF RunResume, Waiting
<1>3. CASE Put
  BY <1>3 DEF Put, Waiting
<1>4. CASE Recover
  BY <1>4 DEF Recover, Waiting
<1>5. CASE RecoverDone
  BY <1>5 DEF RecoverDone, RecoverEnds, Waiting
<1>6. CASE Delack
  BY <1>6 DEF Delack, Delayable, SendAck, Waiting, TypeOK
<1>7. CASE RunEnd
  BY <1>7 DEF RunEnd, DeleteTp, Waiting
<1>8. ASSUME NEW top \in Tops, RecoverOne(top)
      PROVE  AssertInv'
  <2>1. /\ top \in Segs /\ top.seq = rcv_nxt /\ minhp_recv[top] = 1
        /\ \A other \in Waiting : top.seq <= other.seq
    BY <1>8 DEF RecoverOne, Tops, Waiting, TypeOK
  <2>2. /\ rcv_nxt' = top.seq + top.len
        /\ minhp_recv' = [minhp_recv EXCEPT ![top] = @ - 1]
        /\ UNCHANGED <<t_delack_state, ack_node, died>>
    BY <1>8 DEF RecoverOne, Popped
  <2>3. \A other \in Segs : minhp_recv'[other] <= 1
    BY <2>1, <2>2 DEF TypeOK
  <2>4. ASSUME NEW other \in Waiting'
        PROVE  other.seq >= rcv_nxt'
    <3>1. other \in Waiting /\ other # top
      BY <2>1, <2>2 DEF Waiting, TypeOK
    <3>2. /\ other \in Segs /\ top.seq <= other.seq
          /\ other.seq \in Nat /\ other.len \in Nat \ {0}
          /\ top.seq \in Nat /\ top.len \in Nat
      BY <2>1, <3>1, ReceiverAssumption DEF Waiting
    <3>3. \/ top.seq + top.len <= other.seq
          \/ other.seq + other.len <= top.seq
      BY <2>1, <3>1, <3>2 DEF Disjoint
    <3> QED
      BY <2>2, <3>2, <3>3
  <2>5. rcv_nxt' >= 1 /\ ack_node' <= rcv_nxt'
    BY <2>1, <2>2, ReceiverAssumption DEF TypeOK
  <2> QED
    BY <2>2, <2>3, <2>4, <2>5
<1>9. ASSUME NEW top \in Tops, RecoverFull(top)
      PROVE  AssertInv'
  BY <1>9 DEF RecoverFull, RecoverEnds, Waiting
<1>10. ASSUME NEW top \in Tops, RecoverAsserts(top)
       PROVE  AssertInv'
  <2>1. top.seq < rcv_nxt /\ top.seq >= rcv_nxt /\ top \in Segs
    BY <1>10 DEF RecoverAsserts, Tops, Waiting
  <2> QED
    BY <2>1, ReceiverAssumption DEF TypeOK
<1>11. CASE TimerDelack
  <2>1. ~(rcv_nxt < ack_node) /\ rcv_nxt # 0
    BY DEF TypeOK
  <2> QED
    BY <1>11, <2>1 DEF TimerDelack, SendAck, Waiting, TypeOK
<1>12. ASSUME NEW len \in RecvLens, TouRecv(len)
       PROVE  AssertInv'
  BY <1>12 DEF TouRecv, Waiting
<1>13. CASE UNCHANGED vars
  BY <1>13 DEF vars, Waiting
<1> QED
  BY <1>1, <1>2, <1>3, <1>4, <1>5, <1>6, <1>7, <1>8, <1>9, <1>10, <1>11,
     <1>12, <1>13, StepCases

\* If no segment waits twice and the sender always cuts the stream at the same
\* places, the assertions hold and update_ack finds its node, with any reader.
THEOREM ReceiverAsserts ==
    ASSUME ~Dup, Disjoint
    PROVE  Spec => []NoAssert
<1>1. Init => TypeOK /\ ReadyInv /\ AssertInv
  BY TypeInit
  DEF Init, ReadyInv, AssertInv, NoAssert, Tops, Waiting
<1>2. TypeOK /\ ReadyInv /\ AssertInv /\ [Next]_vars
        => (TypeOK /\ ReadyInv /\ AssertInv)'
  BY ~Dup, Disjoint, TypeNext, ReadyNext, AssertNext
<1>3. AssertInv => NoAssert
  BY DEF AssertInv
<1> QED
  BY <1>1, <1>2, <1>3, PTL DEF Spec
=============================================================================
