---------------------------- MODULE CircBufProofs ----------------------------
(***************************************************************************)
(* The circular buffer is a first-in first-out queue for every size of     *)
(* storage, every set of byte values and every length of chunk.            *)
(***************************************************************************)
EXTENDS CircBuf, TLAPS

\* The indices, the count and the peeked bytes, together inductive.
IInv ==
    /\ TypeOK
    /\ m_uiTotEl < Size
    /\ TailIsHeadPlusTotal
    /\ PeekedIsHead

\* A chunk is a sequence of bytes of at most MaxChunk.
LEMMA ChunkIsSeq ==
    ASSUME NEW chunk \in Chunks
    PROVE  /\ chunk \in Seq(Byte)
           /\ Len(chunk) \in Nat
           /\ DOMAIN chunk = 1..Len(chunk)
           /\ \A k \in 1..Len(chunk) : chunk[k] \in Byte
<1>1. PICK n \in 0..MaxChunk : chunk \in [1..n -> Byte]
  BY DEF Chunks
<1>2. n \in Nat
  BY CircBufAssumption
<1>3. chunk \in Seq(Byte) /\ Len(chunk) = n
  BY <1>1, <1>2
<1> QED
  BY <1>1, <1>2, <1>3

\* The n bytes from an index on are a sequence of n bytes, if n fits.
LEMMA BytesIsSeq ==
    ASSUME m_buf \in [Slots -> Byte], CircBufAssumption,
           NEW start \in Slots, NEW n \in 0..Size
    PROVE  /\ Bytes(start, n) \in Seq(Byte)
           /\ Len(Bytes(start, n)) = n
           /\ \A i \in 1..n : Bytes(start, n)[i] = m_buf[Wrap(start + i - 1)]
<1>1. \A i \in 1..n : Wrap(start + i - 1) \in Slots
  BY DEF Wrap, Slots, CircBufAssumption
<1>2. Bytes(start, n) \in [1..n -> Byte]
  BY <1>1 DEF Bytes
<1>3. n \in Nat
  BY DEF CircBufAssumption
<1>4. Bytes(start, n) \in Seq(Byte) /\ Len(Bytes(start, n)) = n
  BY <1>2, <1>3
<1> QED
  BY <1>4 DEF Bytes

\* insert() writes only slots beyond the last element, and keeps types.
LEMMA StoreKeeps ==
    ASSUME IInv, NEW chunk \in Chunks, Len(chunk) < Free, Store(chunk)
    PROVE  /\ m_buf' \in [Slots -> Byte]
           /\ m_uiTi' \in Slots
           /\ m_uiTotEl' = m_uiTotEl + Len(chunk)
           /\ m_uiTotEl' \in 0..Size /\ m_uiTotEl' < Size
           /\ m_uiTi' = Wrap(m_uiHi + m_uiTotEl')
           /\ \A i \in 1..m_uiTotEl :
                 m_buf'[Wrap(m_uiHi + i - 1)] = m_buf[Wrap(m_uiHi + i - 1)]
<1>0. /\ Size \in Nat \ {0}
      /\ m_buf \in [Slots -> Byte]
      /\ m_uiHi \in 0..(Size - 1) /\ m_uiTi \in 0..(Size - 1)
      /\ m_uiTotEl \in Nat /\ m_uiTotEl < Size
      /\ m_uiTi = Wrap(m_uiHi + m_uiTotEl)
  BY CircBufAssumption DEF IInv, TypeOK, TailIsHeadPlusTotal, Slots
<1>1. /\ Len(chunk) \in Nat
      /\ \A k \in 1..Len(chunk) : chunk[k] \in Byte
      /\ m_uiTotEl + Len(chunk) < Size
  BY <1>0, ChunkIsSeq DEF Free
<1>2. \A i \in Slots : Wrap(i - m_uiTi + Size) + 1 \in Nat \ {0}
  BY <1>0 DEF Wrap, Slots
<1>3. m_buf' \in [Slots -> Byte]
  BY <1>0, <1>1, <1>2 DEF Store
<1>4. /\ m_uiTi' \in Slots
      /\ m_uiTotEl' = m_uiTotEl + Len(chunk)
      /\ m_uiTi' = Wrap(m_uiHi + m_uiTotEl')
  <2>1. /\ m_uiTotEl' = m_uiTotEl + Len(chunk)
        /\ m_uiTi' = Wrap(m_uiTi + Len(chunk))
    BY DEF Store
  <2>2. m_uiTi + Len(chunk) \in Nat
    BY <1>0, <1>1
  <2>3. Wrap(m_uiTi + Len(chunk)) \in Slots
    BY <1>0, <1>1, <2>2 DEF Wrap, Slots
  <2>4. Wrap(Wrap(m_uiHi + m_uiTotEl) + Len(chunk))
          = Wrap(m_uiHi + (m_uiTotEl + Len(chunk)))
    BY <1>0, <1>1 DEF Wrap
  <2> QED
    BY <1>0, <2>1, <2>3, <2>4
<1>5. ASSUME NEW i \in 1..m_uiTotEl
      PROVE  m_buf'[Wrap(m_uiHi + i - 1)] = m_buf[Wrap(m_uiHi + i - 1)]
  <2>1. /\ Wrap(m_uiHi + i - 1) \in Slots
        /\ Wrap(Wrap(m_uiHi + i - 1) - m_uiTi + Size) + 1 > Len(chunk)
    BY <1>0, <1>1, <1>5 DEF Wrap, Slots
  <2>2. ~(Wrap(Wrap(m_uiHi + i - 1) - m_uiTi + Size) + 1 <= Len(chunk))
    BY <1>0, <1>1, <2>1 DEF Wrap, Slots
  <2> QED
    BY <2>1, <2>2 DEF Store
<1> QED
  BY <1>0, <1>1, <1>3, <1>4, <1>5

\* After remove() the head has moved on by what was peeked.
LEMMA RemoveAdvances ==
    ASSUME IInv, remove
    PROVE  /\ Len(got) \in Nat /\ Len(got) <= m_uiTotEl
           /\ m_uiHi' = Wrap(m_uiHi + Len(got)) /\ m_uiHi' \in Slots
           /\ m_uiTotEl' = m_uiTotEl - Len(got)
           /\ m_uiTotEl' \in 0..Size /\ m_uiTotEl' < Size
           /\ m_uiTi' = Wrap(m_uiHi' + m_uiTotEl')
<1>1. /\ Size \in Nat \ {0}
      /\ m_uiHi \in 0..(Size - 1)
      /\ m_uiTotEl \in Nat /\ m_uiTotEl < Size
      /\ m_uiTi = Wrap(m_uiHi + m_uiTotEl)
      /\ Len(got) \in Nat /\ Len(got) <= m_uiTotEl
  BY CircBufAssumption
  DEF IInv, TypeOK, TailIsHeadPlusTotal, PeekedIsHead, remove, Slots
<1>2. /\ m_uiHi' = Wrap(m_uiHi + Len(got))
      /\ m_uiTotEl' = m_uiTotEl - Len(got)
      /\ m_uiTi' = m_uiTi
  BY <1>1 DEF remove
<1> QED
  BY <1>1, <1>2 DEF Wrap, Slots

LEMMA InitIInv == Init => IInv
<1> SUFFICES ASSUME Init PROVE IInv
  OBVIOUS
<1>1. <<>> \in Seq(Byte)
  OBVIOUS
<1>2. m_buf \in [Slots -> Byte]
  BY DEF Init
<1> QED
  BY <1>1, <1>2, CircBufAssumption
  DEF Init, IInv, TypeOK, TailIsHeadPlusTotal, PeekedIsHead, Wrap, Slots

\* The invariant is inductive: one step per member function.
LEMMA NextIInv == IInv /\ [Next]_vars => IInv'
<1> SUFFICES ASSUME IInv, [Next]_vars PROVE IInv'
  OBVIOUS
<1>0. /\ TypeOK /\ m_uiTotEl < Size /\ TailIsHeadPlusTotal /\ PeekedIsHead
      /\ Size \in Nat \ {0}
  BY CircBufAssumption DEF IInv
<1>1. ASSUME NEW chunk \in Chunks, insert(chunk), Len(chunk) < Free
      PROVE  IInv'
  <2>1. Store(chunk)
    BY <1>1 DEF insert
  <2>2. Len(chunk) \in Nat
    BY ChunkIsSeq
  <2>3. put' \in [offered : Nat, accepted : Nat]
    BY <1>1, <2>2 DEF insert
  <2>4. TypeOK'
    BY <1>0, <1>1, <2>1, <2>3, StoreKeeps DEF TypeOK, insert
  <2>5. m_uiTotEl' < Size /\ TailIsHeadPlusTotal'
    BY <1>1, <2>1, StoreKeeps DEF insert, TailIsHeadPlusTotal
  <2>6. ASSUME draining
        PROVE  Len(got) <= m_uiTotEl' /\ got = Bytes(m_uiHi, Len(got))'
    <3>1. /\ Len(got) \in Nat /\ Len(got) <= m_uiTotEl /\ m_uiTotEl \in Nat
          /\ got = Bytes(m_uiHi, Len(got))
      BY <1>0, <2>6 DEF TypeOK, PeekedIsHead
    <3>2. /\ m_uiHi' = m_uiHi /\ got' = got
          /\ m_uiTotEl' = m_uiTotEl + Len(chunk)
          /\ \A i \in 1..m_uiTotEl :
                m_buf'[Wrap(m_uiHi + i - 1)] = m_buf[Wrap(m_uiHi + i - 1)]
      BY <1>1, <2>1, StoreKeeps DEF insert
    <3>3. \A i \in 1..Len(got) :
             m_buf'[Wrap(m_uiHi + i - 1)] = m_buf[Wrap(m_uiHi + i - 1)]
      BY <3>1, <3>2
    <3>4. Bytes(m_uiHi, Len(got))' = Bytes(m_uiHi, Len(got))
      BY <3>2, <3>3 DEF Bytes
    <3> QED
      BY <2>2, <3>1, <3>2, <3>4
  <2>7. PeekedIsHead'
    BY <1>1, <2>6 DEF PeekedIsHead, insert
  <2> QED
    BY <2>4, <2>5, <2>7 DEF IInv
<1>2. ASSUME NEW chunk \in Chunks, insert(chunk), ~(Len(chunk) < Free)
      PROVE  IInv'
  <2>1. put' \in [offered : Nat, accepted : Nat]
    BY <1>2, ChunkIsSeq DEF insert
  <2>2. UNCHANGED <<m_buf, m_uiHi, m_uiTi, m_uiTotEl, draining, got, taken>>
    BY <1>2 DEF insert
  <2> QED
    BY <1>0, <2>1, <2>2
    DEF IInv, TypeOK, TailIsHeadPlusTotal, PeekedIsHead, Bytes
<1>3. ASSUME NEW n \in 0..MaxChunk, getAt(n)
      PROVE  IInv'
  <2> DEFINE m == IF n > m_uiTotEl THEN m_uiTotEl ELSE n
  <2>1. m \in 0..Size /\ m <= m_uiTotEl
    BY <1>0, CircBufAssumption DEF TypeOK
  <2>2. got' = Bytes(m_uiHi, m)
    BY <1>3 DEF getAt
  <2> HIDE DEF m
  <2>3. got' \in Seq(Byte) /\ Len(got') = m
    BY <1>0, <2>1, <2>2, BytesIsSeq, CircBufAssumption DEF TypeOK
  <2>4. UNCHANGED <<m_buf, m_uiHi, m_uiTi, m_uiTotEl, put, taken>>
        /\ draining' = TRUE
    BY <1>3 DEF getAt
  <2>5. PeekedIsHead'
    BY <2>1, <2>2, <2>3, <2>4 DEF PeekedIsHead, Bytes
  <2> QED
    BY <1>0, <2>3, <2>4, <2>5 DEF IInv, TypeOK, TailIsHeadPlusTotal
<1>4. CASE remove
  <2>1. <<>> \in Seq(Byte)
    OBVIOUS
  <2>2. TypeOK'
    BY <1>0, <1>4, <2>1, RemoveAdvances DEF TypeOK, remove
  <2>3. m_uiTotEl' < Size /\ TailIsHeadPlusTotal'
    BY <1>4, RemoveAdvances DEF TailIsHeadPlusTotal
  <2>4. PeekedIsHead'
    BY <1>4 DEF remove, PeekedIsHead
  <2> QED
    BY <2>2, <2>3, <2>4 DEF IInv
<1>5. CASE UNCHANGED vars
  BY <1>0, <1>5
  DEF vars, IInv, TypeOK, TailIsHeadPlusTotal, PeekedIsHead, Bytes
<1> QED
  BY <1>1, <1>2, <1>3, <1>4, <1>5 DEF Next, Fill, Drain

\* Whatever is inserted between getAt() and remove(), the peeked bytes are the
\* head of the buffer, the buffer is never full, and its indices agree.
THEOREM CircBufSafe ==
    Spec => [](TypeOK /\ TailIsHeadPlusTotal /\ NeverFull /\ PeekedIsHead)
<1>1. IInv => TypeOK /\ TailIsHeadPlusTotal /\ NeverFull /\ PeekedIsHead
  BY CircBufAssumption
  DEF IInv, TypeOK, TailIsHeadPlusTotal, NeverFull, Wrap, Slots
<1> QED
  BY <1>1, InitIInv, NextIInv, PTL DEF Spec

\* An accepted insert() appends to the abstract queue.
LEMMA InsertPuts ==
    ASSUME IInv, NEW chunk \in Chunks, insert(chunk), Len(chunk) < Free
    PROVE  Queue!Put
<1>0. /\ TypeOK /\ m_uiTotEl \in 0..Size /\ m_uiTotEl \in Nat
      /\ m_buf \in [Slots -> Byte] /\ m_uiHi \in Slots
      /\ Size \in Nat \ {0}
  BY CircBufAssumption DEF IInv, TypeOK
<1>1. /\ m_buf' \in [Slots -> Byte]
      /\ m_uiHi' = m_uiHi /\ taken' = taken
      /\ m_uiTotEl' = m_uiTotEl + Len(chunk)
      /\ m_uiTotEl' \in 0..Size /\ m_uiTotEl' < Size
      /\ \A i \in 1..m_uiTotEl :
            m_buf'[Wrap(m_uiHi + i - 1)] = m_buf[Wrap(m_uiHi + i - 1)]
  BY StoreKeeps DEF insert
<1>2. Len(chunk) \in Nat
  BY ChunkIsSeq
<1> DEFINE q == Bytes(m_uiHi, m_uiTotEl)
<1>3. /\ q \in Seq(Byte) /\ Len(q) = m_uiTotEl
      /\ \A i \in 1..m_uiTotEl : q[i] = m_buf[Wrap(m_uiHi + i - 1)]
  BY <1>0, BytesIsSeq, CircBufAssumption
<1>4. /\ q' = [i \in 1..m_uiTotEl' |-> m_buf'[Wrap(m_uiHi + i - 1)]]
      /\ \A i \in 1..m_uiTotEl' : Wrap(m_uiHi + i - 1) \in Slots
  BY <1>0, <1>1 DEF Bytes, Wrap, Slots
<1>5. q' \in [1..m_uiTotEl' -> Byte]
  BY <1>1, <1>4
<1>6. /\ q' \in Seq(Byte) /\ Len(q') = m_uiTotEl'
      /\ \A i \in 1..m_uiTotEl' : q'[i] = m_buf'[Wrap(m_uiHi + i - 1)]
  BY <1>1, <1>4, <1>5
<1> HIDE DEF q
<1>7. SubSeq(q', 1, Len(q)) = q
  <2>1. Len(q) <= Len(q') /\ Len(q) \in Nat
    BY <1>0, <1>1, <1>2, <1>3, <1>6
  <2>2. ASSUME NEW i \in 1..Len(q)
        PROVE  q'[i] = q[i]
    <3>1. i \in 1..m_uiTotEl
      BY <1>3
    <3>2. i \in 1..m_uiTotEl'
      BY <1>0, <1>1, <1>2, <3>1
    <3>3. q'[i] = m_buf'[Wrap(m_uiHi + i - 1)]
      BY <1>6, <3>2
    <3>4. m_buf'[Wrap(m_uiHi + i - 1)] = m_buf[Wrap(m_uiHi + i - 1)]
      BY <1>1, <3>1
    <3> QED
      BY <1>3, <3>1, <3>3, <3>4
  <2> QED
    BY <1>3, <1>6, <2>1, <2>2
<1> QED
  BY <1>0, <1>1, <1>2, <1>3, <1>6, <1>7 DEF Queue!Put, q

\* remove() takes the peeked chunk from the abstract queue.
LEMMA RemoveTakes ==
    ASSUME IInv, remove
    PROVE  Queue!Take
<1>0. /\ m_uiTotEl \in 0..Size /\ m_uiTotEl \in Nat
      /\ m_buf \in [Slots -> Byte] /\ m_uiHi \in 0..(Size - 1)
      /\ Size \in Nat \ {0} /\ m_uiTotEl < Size
  BY CircBufAssumption DEF IInv, TypeOK, Slots
<1> DEFINE n == Len(got)
           q == Bytes(m_uiHi, m_uiTotEl)
<1>1. /\ n \in Nat /\ n <= m_uiTotEl
      /\ m_uiHi' = Wrap(m_uiHi + n) /\ m_uiTotEl' = m_uiTotEl - n
      /\ m_buf' = m_buf /\ taken' = got
      /\ got = Bytes(m_uiHi, n)
  BY RemoveAdvances DEF remove, IInv, PeekedIsHead
<1> HIDE DEF n
<1>2. /\ q \in Seq(Byte) /\ Len(q) = m_uiTotEl
      /\ q = [i \in 1..m_uiTotEl |-> m_buf[Wrap(m_uiHi + i - 1)]]
  BY <1>0, BytesIsSeq, CircBufAssumption DEF Slots, Bytes
<1>3. got = [i \in 1..n |-> m_buf[Wrap(m_uiHi + i - 1)]]
  BY <1>1 DEF Bytes
<1>4. q' = [i \in 1..(m_uiTotEl - n) |-> m_buf[Wrap(Wrap(m_uiHi + n) + i - 1)]]
  BY <1>1 DEF Bytes
<1>5. \A i \in 1..(m_uiTotEl - n) :
        Wrap(Wrap(m_uiHi + n) + i - 1) = Wrap(m_uiHi + (n + i) - 1)
  BY <1>0, <1>1 DEF Wrap
<1> HIDE DEF q
<1>6. SubSeq(q, 1, n) = got
  BY <1>0, <1>1, <1>2, <1>3
<1>7. SubSeq(q, n + 1, m_uiTotEl)
        = [i \in 1..(m_uiTotEl - n) |-> m_buf[Wrap(m_uiHi + (n + i) - 1)]]
  BY <1>0, <1>1, <1>2
<1>8. q' = SubSeq(q, n + 1, Len(q))
  BY <1>2, <1>4, <1>5, <1>7
<1>9. n \in 0..Len(q) /\ taken' = SubSeq(q, 1, n)
  <2>1. taken' = SubSeq(q, 1, n)
    BY <1>1, <1>6
  <2>2. n \in 0..Len(q)
    BY <1>0, <1>1, <1>2
  <2> QED
    BY <2>1, <2>2
<1> QED
  BY <1>8, <1>9 DEF Queue!Take, q

\* The buffer implements the queue: insert() is Put or nothing, getAt() is
\* invisible, and remove() is Take of exactly the bytes getAt() returned.
THEOREM CircBufImplementsQueue == Spec => ImplementsQueue
<1>1. Init => Queue!Init
  BY DEF Init, Queue!Init, Bytes
<1>2. IInv /\ [Next]_vars => [Queue!Next]_(Queue!vars)
  <2> SUFFICES ASSUME IInv, [Next]_vars PROVE [Queue!Next]_(Queue!vars)
    OBVIOUS
  <2>1. ASSUME NEW chunk \in Chunks, insert(chunk), Len(chunk) < Free
        PROVE  Queue!Next
    BY <2>1, InsertPuts DEF Queue!Next
  <2>2. ASSUME NEW chunk \in Chunks, insert(chunk), ~(Len(chunk) < Free)
        PROVE  UNCHANGED Queue!vars
    BY <2>2 DEF insert, Queue!vars, Bytes
  <2>3. ASSUME NEW n \in 0..MaxChunk, getAt(n)
        PROVE  UNCHANGED Queue!vars
    BY <2>3 DEF getAt, Queue!vars, Bytes
  <2>4. CASE remove
    BY <2>4, RemoveTakes DEF Queue!Next
  <2>5. CASE UNCHANGED vars
    BY <2>5 DEF vars, Queue!vars, Bytes
  <2> QED
    BY <2>1, <2>2, <2>3, <2>4, <2>5 DEF Next, Fill, Drain
<1> QED
  BY <1>1, <1>2, InitIInv, NextIInv, PTL
  DEF Spec, ImplementsQueue, Queue!Spec
=============================================================================
