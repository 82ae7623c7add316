------------------------------- MODULE CircBuf -------------------------------
(***************************************************************************)
(* One CircularBuffer (circ_buf.cpp) between the thread that fills it and  *)
(* the thread that drains it.  Every member function holds cb_mtx, so a    *)
(* call is one step; but draining takes two calls, getAt() to copy the     *)
(* head out and remove() to drop it (processTou::popsndq for the send      *)
(* buffer, touMain::touRecv for the receive buffer), and an insert() may   *)
(* come in between.  There is one drainer at a time: popsndq runs under    *)
(* send_mtx, and touRecv is called by one application thread.              *)
(***************************************************************************)
EXTENDS Integers, Sequences

CONSTANTS
    Byte,       \* the values of a byte
    Size,       \* m_uiSize, as setSize() left it in the sockTb constructor
    MaxChunk    \* the longest chunk put in, and the largest number asked for

ASSUME CircBufAssumption ==
    /\ Size \in Nat \ {0}
    /\ MaxChunk \in Nat

VARIABLES
    m_buf,      \* the storage, indexed from 0
    m_uiHi,     \* index of the oldest byte
    m_uiTi,     \* index where the next byte goes
    m_uiTotEl,  \* bytes in the buffer
    put,        \* the last insert(): bytes offered and bytes accepted
    draining,   \* whether the drainer is between getAt() and remove()
    got,        \* what it copied out, empty outside
    taken       \* the chunk the drainer last completed

vars == <<m_buf, m_uiHi, m_uiTi, m_uiTotEl, put, draining, got, taken>>

Slots == 0..(Size - 1)
Chunks == UNION {[1..n -> Byte] : n \in 0..MaxChunk}

Free == Size - m_uiTotEl

\* An index that may have run past the end of the storage, brought back: the
\* code copies in two parts, up to the end and then from index 0 on.
Wrap(i) == IF i >= Size THEN i - Size ELSE i

\* The n bytes from index start on.
Bytes(start, n) == [i \in 1..n |-> m_buf[Wrap(start + i - 1)]]

Init ==
    /\ m_buf \in {[i \in Slots |-> b] : b \in Byte}   \* malloc() leaves anything
    /\ m_uiHi = 0 /\ m_uiTi = 0 /\ m_uiTotEl = 0
    /\ put = [offered |-> 0, accepted |-> 0]
    /\ draining = FALSE /\ got = <<>>
    /\ taken = <<>>

\* Fault for Store: the second part of the copy starts at 1, not at 0.
StoreSkipsZero(chunk) ==
    /\ m_buf' = [i \in Slots |->
                    LET k == IF i >= m_uiTi THEN i - m_uiTi + 1
                                            ELSE i - m_uiTi + Size
                    IN IF k \in 1..Len(chunk) THEN chunk[k] ELSE m_buf[i]]
    /\ m_uiTi' = Wrap(m_uiTi + Len(chunk))
    /\ m_uiTotEl' = m_uiTotEl + Len(chunk)

\* insert(buf, n, start, end): the copy itself, chunk being what fits.
Store(chunk) ==
    /\ m_buf' = [i \in Slots |->
                    LET k == Wrap(i - m_uiTi + Size) + 1  \* position in chunk
                    IN IF k <= Len(chunk) THEN chunk[k] ELSE m_buf[i]]
    /\ m_uiTi' = Wrap(m_uiTi + Len(chunk))
    /\ m_uiTotEl' = m_uiTotEl + Len(chunk)

\* insert(buf, n): all of the chunk if it leaves a byte free, else nothing.
insert(chunk) ==
    /\ put' = [offered |-> Len(chunk),
               accepted |-> IF Len(chunk) < Free THEN Len(chunk) ELSE 0]
    /\ IF Len(chunk) < Free THEN Store(chunk)
                            ELSE UNCHANGED <<m_buf, m_uiTi, m_uiTotEl>>
    /\ UNCHANGED <<m_uiHi, draining, got, taken>>

\* Fault for getAt: the request is not cut down to what there is.
getAtUncapped(n) ==
    /\ ~draining /\ draining' = TRUE
    /\ got' = Bytes(m_uiHi, n)
    /\ UNCHANGED <<m_buf, m_uiHi, m_uiTi, m_uiTotEl, put, taken>>

\* getAt(buf, n, end): copy the head out, at most what there is.
getAt(n) ==
    /\ ~draining /\ draining' = TRUE
    /\ got' = Bytes(m_uiHi, IF n > m_uiTotEl THEN m_uiTotEl ELSE n)
    /\ UNCHANGED <<m_buf, m_uiHi, m_uiTi, m_uiTotEl, put, taken>>

\* Fault for remove: empties the buffer, as if nothing had come in since getAt.
removeAll ==
    /\ draining /\ draining' = FALSE
    /\ m_uiHi' = m_uiTi /\ m_uiTotEl' = 0
    /\ taken' = got /\ got' = <<>>
    /\ UNCHANGED <<m_buf, m_uiTi, put>>

\* remove(n), n being what getAt() returned.
remove ==
    /\ draining /\ draining' = FALSE
    /\ IF Len(got) > m_uiTotEl
       THEN m_uiHi' = m_uiTi /\ m_uiTotEl' = 0
       ELSE m_uiHi' = Wrap(m_uiHi + Len(got)) /\ m_uiTotEl' = m_uiTotEl - Len(got)
    /\ taken' = got /\ got' = <<>>
    /\ UNCHANGED <<m_buf, m_uiTi, put>>

Fill == \E chunk \in Chunks : insert(chunk)
Drain == remove \/ \E n \in 0..MaxChunk : getAt(n)
Next == Fill \/ Drain

Spec == Init /\ [][Next]_vars
-----------------------------------------------------------------------------
TypeOK ==
    /\ m_buf \in [Slots -> Byte]
    /\ m_uiHi \in Slots /\ m_uiTi \in Slots /\ m_uiTotEl \in 0..Size
    /\ put \in [offered : Nat, accepted : Nat]
    /\ draining \in BOOLEAN /\ got \in Seq(Byte) /\ taken \in Seq(Byte)

\* The three counters agree: the tail is the head moved on by the number of
\* elements.  insert() assigns m_uiTi twice and remove() two ways, and nothing
\* else ties them together.
TailIsHeadPlusTotal == m_uiTi = Wrap(m_uiHi + m_uiTotEl)

\* insert() refuses a chunk that would fill the buffer, so that a byte always
\* stays free and head = tail means empty.
NeverFull == m_uiTotEl < Size /\ (m_uiHi = m_uiTi <=> m_uiTotEl = 0)

\* What popsndq and touRecv count on when they call remove() with the number
\* getAt() returned: whatever was inserted in between, those bytes are still
\* the head of the buffer, so none is dropped unread or read twice.
PeekedIsHead ==
    draining => /\ Len(got) <= m_uiTotEl
                /\ got = Bytes(m_uiHi, Len(got))

\* The buffer implements the queue: getAt() is invisible, remove() takes.
Queue == INSTANCE ByteQueue WITH queue <- Bytes(m_uiHi, m_uiTotEl)
ImplementsQueue == Queue!Spec
=============================================================================
