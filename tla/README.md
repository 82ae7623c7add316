# A verification development for tcpoudp (TCP over UDP)

The repository is a user-level library, `src/src/lib`, that runs a TCP-like
protocol ("ToU") over UDP sockets: connection establishment and teardown, a
byte stream with retransmission and congestion control, delayed
acknowledgements, and buffers between the application and the protocol. This
directory holds TLA+ models of its data path from one application to the other, of a
connection's life, of what several connections of a process share, of its times and
of its mutexes; the TLC configurations that check them; and proofs that TLAPS checks.
Paths like `processtou.cpp:210` below are in
`src/src/lib`.

## 1. The system

### 1.1 Components

| Component | Source | State it keeps | Operations |
|---|---|---|---|
| `touMain` | `tou.cpp`, `tou.h` | socket descriptors, `closer` objects | `touConnect`, `touAccept`, `touSend`, `touRecv`, `run`, `touClose` |
| `processTou` | `processtou.cpp` | `socktb` (a member, so shared by its callers), `send_mtx` | `run` (a finite state machine per packet), `send`, `proc_delack`, `proc_pkt_rec` |
| `ssca` | `tou_ss_ca.cpp` | the four congestion fields of `tou_cb` | `addwnd`, `setdwnd`, `settwnd`, `getwnd` |
| `CircularBuffer` | `circ_buf.cpp` | storage, head, tail, count | `insert`, `getAt`, `remove`, `setSize` |
| `timerCk`, `timerMng` | `timer.cpp`, `timer_mng.cpp`, `timer_node.cpp` | `timerheap` of unacknowledged segments, `ackdeque` of delayed acknowledgements; one of each for all connections | the thread `doit`, `add`, `delete_timer`, `rexmit_for_dup_ack`, `add_ack`, `update_ack`, `cal_rto`, `getTimeMs` |
| `sockTb`, `sockMng` | `tou_sock_table.cpp`, `tou_control_block.h` | per connection: states, `tou_cb`, `cb_send`, `cb_recv`, the out-of-order heap `minhp_recv` | getters and setters under four mutexes |
| `touPkg`, `touHeader` | `tou_header.cpp` | none | conversion to and from a datagram |
| logging, time stamps | `tou_logger.cpp`, `timestamp.cpp` | none of the protocol's | output |
| demonstrations | `proj.cpp`, `projdemo_*.cpp` | | how the library is called |

### 1.2 How they interact

Three kinds of thread work on one connection.

* *Application threads* call `touSend` (put bytes into `cb_send`, then
  `processTou::send`), `touRecv` (take bytes out of `cb_recv`) and
  `touMain::run` (process packets waiting on the socket). `proj.cpp` shows the
  intended use: a client loops over `select`, `run`, `touSend`; a server over
  `select`, `run`, `touRecv`.
* *The timer thread*, `timerCk::doit`, wakes up periodically, sends the delayed
  acknowledgements whose time has come, calls `run` itself if any segment is
  unacknowledged, drops acknowledged nodes and retransmits the oldest.
* A *closer* per closed socket runs the end of `touClose`, which waits for it.

They meet in `run_t_mtx` (`run` returns at once if another thread is in it),
`send_mtx` (one `send` at a time, whatever the socket), both of which belong to the
`processTou` that the global `ptou` names and every `touSocket` replaces;
`timer_heap_mtx`, `ack_mtx` and `ack_deque_mtx`; and per-connection mutexes that are held for one
access at a time. Most hard cases come from that last point: a decision is made
on what was read under a mutex that has been given back.

Between peers go datagrams that UDP may lose, reorder and duplicate.

### 1.3 What is hard here

* `send` holds `send_mtx` and not `run_t_mtx`. It reads the window, `snd_una`
  and the congestion state one after the other while `run` on another thread,
  or a timeout, changes them; and it puts a segment on the heap after
  transmitting it.
* A node of the heap may be dropped by three operations (`delete_timer`,
  `proc_clear_ackedpkt`, `rexmit_for_dup_ack`) by comparing its number with an
  acknowledgement number that may be old, and some of their branches call
  `exit(1)` or assert.
* Retransmission rebuilds a segment from a *copy* of a node, its `p_id` and its
  payload's size.
* `run` acknowledges by moving `rcv_nxt` before it stores, and ignores whether
  it stored. Recovery from the out-of-order heap may stop half-way for lack of
  room and has to be taken up by a later `run`.
* The delayed acknowledgement is a small state machine of which the timer
  thread and `run` each execute a part.
* Draining a circular buffer takes two critical sections.
* The handshake sends each packet once and takes whatever comes next for the
  answer; `run` makes the process exit on a packet it does not expect in its state.
* One heap serves all connections, ordered by descriptor first, and one member
  `socktb` is overwritten by `send` and `run` under different mutexes.
* Times are milliseconds of a clock that starts again after a million seconds. A
  node's time is computed at sending, at a retransmission and at a postponement, from
  three different bases; the time of a delayed acknowledgement depends on a state that
  the other thread sets.
* Nested mutexes are not always taken in the same order; outer ones keep that harmless,
  as long as there is one `processTou`.

`hazards` in `PROJECT.json` lists each at its line, with the properties about it.

### 1.4 What makes each component correct

* Buffer: it is a FIFO queue, also when `insert` comes between `getAt` and `remove`.
* Congestion control: the window stays between a segment and its clamp, recovery is
  entered and left with the duplicate count, one fast retransmission per loss.
* Sender: no unacknowledged byte is ever in neither the heap nor `send`'s hands; none
  stays in the send buffer when nobody will send it;
  the peer's window is respected; retransmissions carry the right bytes; only
  the oldest segment is retransmitted; no `exit(1)` and no failing assertion.
* Receiver: what `touRecv` gets is the stream; what is acknowledged is stored;
  recovery is never forgotten; acknowledgements are muted by an unfinished recovery only, and
  never delayed twice.
* Both together: what is read is a prefix of what was written, and everything written
  is read in the end, and the sender does not rest before; the two ends' numbers agree; neither process ends by itself.
* Connection: `touAccept` does not return before `touConnect`; established ends agree
  on their sequence numbers; no packet makes a process exit; what is sent is acknowledged.
* Several connections on one heap: none loses a node it needs, none ends the process.
* Times: nothing is sent again before its timeout, and nothing waits much longer; the
  estimate is made from true round trips; acknowledgements are delayed by a bounded time.
* Mutexes: no circle of threads that wait for each other.

## 2. The modules

| Module | What it is |
|---|---|
| `Congestion` | operators: the arithmetic of `ssca`, on a record of the congestion fields |
| `Ssca` | `Congestion` as a machine, with its callers `run` and the timer thread |
| `SscaProofs` | theorems `SscaSafe`, `SscaDeflates` |
| `ByteQueue` | abstract specification: a bounded FIFO queue of bytes |
| `CircBuf` | one `CircularBuffer` with the thread that fills it and the one that drains it |
| `CircBufProofs` | theorems `CircBufSafe`, `CircBufImplementsQueue` |
| `Sender` | the sending half of an established connection; `EXTENDS Congestion` |
| `Receiver` | the receiving half |
| `ReceiverProofs` | theorems `ReceiverSafe`, `ReceiverOrder`, `ReceiverStream`, `ReceiverAsserts` |
| `ByteStream` | abstract specification: what a connection promises the two applications |
| `Transfer` | `Sender` and an instance of `Receiver` over a network; implements `ByteStream` |
| `TransferProofs` | part I, the sender alone: theorems `SenderWindow`, `SenderNeverStrands`, `SenderReliable`; part II, the two ends, with an instance of `ReceiverProofs`: `TransferAgrees`, `TransferRests`, `TransferLives`, `TransferImplementsStream` |
| `TimerHeap` | several connections of one process on one timer heap |
| `TimerHeapProofs` | theorem `HeapSafe` |
| `Timing` | the times of one connection: estimate, timeouts, delayed acknowledgements |
| `TimingProofs` | theorems `TimingSafe`, `TimingEarly`, `TimingSamples` |
| `Locks` | the mutexes and the order in which the threads take them |
| `LocksProofs` | theorems `LocksSafe`, `OneTouNeverDeadlocks` |
| `Connection` | two processes, from `touConnect` and `touAccept` to `touClose` |
| `ConnectionProofs` | theorem `ConnectionSafe` |
| `MC*` | instances for TLC; each `.cfg` is one run |

### 2.1 Congestion, Ssca

A window function is an operator from a record of the four fields to the next.
`DupAck` and `CheckDupAck` are two steps because `run` calls `setdwnd` and
`ck_num_dupack` under different mutexes (`processtou.cpp:162-164`): `Timeout` may
come in between. The duplicate count saturates one above the threshold, since
the code tells only "equal", "at least" and "below" apart. `rexmits` is a history
variable. The assumption `MaxWnd >= 6 * SMSS` is what makes the unclamped
assignment in `setdwnd` harmless; in the code it is 3 MB against 8736 bytes.

### 2.2 ByteQueue, CircBuf

Storage is indexed from 0, as in the code, and copies that wrap are modelled by
the index they touch. `insert` takes a chunk whole or refuses it; it also refuses
one that fits exactly. `getAt` and `remove` are two steps of the drainer.
`ImplementsQueue` says that under the mapping "the bytes from the head on" every
step is a step of `ByteQueue` or stutters: `getAt` is invisible, `remove` is `Take`.
One drainer is assumed: `popsndq` runs under `send_mtx`, and `proj.cpp` calls
`touRecv` from one thread.

### 2.3 Sender

`pc[t]` says where thread `t` is; a step is a critical section or what lies
between two of them. Correspondence:

| Action | Code |
|---|---|
| `TouSend`, `SendEnter` ... `SendAdd` | `touSend`, then `processTou::send` from taking `send_mtx` to `tmng.add` |
| `RunRecv`, `DeleteTimer`, `DupAck`, `CkDupAck`, `RexmitDupAck` | `run` on an acknowledgement without data, up to its call of `send` |
| `TimerWakes`, `TimerNoPacket`, `TimerClear`, `TimerWaits`, `TimerFires`, `TimerSetsWindow` | one round of `doit`; it calls `run` too, by `RunRecv(Timer, _)` |

Bytes are positions of the stream; a segment carries the first position it holds
(`from`) besides its sequence number, so that a retransmission with the wrong
bytes is seen. `Kept` is the copy `node_t`'s copy constructor makes: it ends
at the first zero byte. Time is abstracted to "may have come". The network loses
and holds segments (`Transmit`, `Absorb`); acknowledgements arrive in any number
and order, for the end of any segment sent, for `snd_una` again, or below it
(`Acks`): more than any real receiver sends. A process that reached `exit(1)` or a
failing assertion (`died`) takes no further step.

`overlap`, which no step changes, separates two ways of using the library. With FALSE,
`touSend` is never in progress while another thread is in `run`. The code does not
enforce that: the timer thread calls `run` on its own whenever a segment is unacknowledged,
in `proj.cpp`'s client, too. `RexmitsOldestOnly`, `NoExit` and
`NoEmptySegment` are claimed for FALSE only, the other properties for both. `Overlaps`
is the set of values an instance considers.

### 2.4 Receiver

`rpc` is where the thread that has `run_t_mtx` is; the timer's `proc_delack` and
`touRecv` of another thread come between its steps. `minhp_recv` is a bag: two
copies of a segment may wait. `stored` is everything put into `cb_recv` since the
start and `nread` how much of it `touRecv` took, so what is in the buffer is the
rest. `tp` says whether the local of that name was assigned: a `run` that resumes a
recovery never does, and deletes it.

`Drained` describes the application: with TRUE, as in `proj.cpp`'s server,
`touRecv` empties the buffer between two calls of `run`; with FALSE it is another
thread that reads when it likes. `Dup` lets a segment that waits in the heap
come in again; without it, a segment that was taken may still come again.

### 2.5 Connection

Both processes, and the packets between them, with the data path reduced to what the
handshake and the close depend on: a segment is one unit of the sequence, the window
and the buffers are left out. `pc[e]` is where the application's thread is, and
`sockstate` the entry's state. Correspondence:

| Action | Code |
|---|---|
| `Connect`, `ConnectRecv` | `touConnect` up to its blocking `recvfrom`, and from there |
| `Run` in LISTEN, `Accept`, `AcceptRecv` | the server's `run` before `touAccept`, `touAccept` up to its blocking `recvfrom`, and from there |
| `Run` = `RunSyn`, `RunAck`, `RunInOrder`, `RunEarly`, `RunOld`, `RunExit` | `run` for one packet, by the case `processGetPktState` selects; called by the application, and by the timer thread while a segment is unacknowledged |
| `RunDeleted` | the same, after `delSocketTable` |
| `SendData`, `Rexmit`, `TimerAck` | `touSend`; the timer thread's retransmission and its `proc_delack` |
| `TouClose`, `CloserFinWait`, `CloserEnd` | `touClose`, and the closer thread it starts |

`touClose` sends `sizeof(touPkg)` bytes of the structure, and the peer reads them with
`touPkg(content)`. With a `u_long` of eight bytes the flags lie at offset 24 and byte
13 is part of `mag`'s upper half, 0; with one of four, byte 13 holds the flags but FIN
is its highest bit, where the reader looks for `res`. Either way no flag is read, and the
packet is longer than a header: kind `RAW`. So no case that depends on FIN
can be reached, and the module has none of them.

The network may lose every packet and deliver in any order. It repeats the kinds in
`DupKinds`, and a data segment may come again because it was retransmitted. A segment
ahead of `rcv_nxt` is not repeated: only the oldest is ever retransmitted (`RexmitsOldestOnly`
of `Sender`), and what a repetition by the network would do is in section 4.

`Fairness`: the timer thread keeps retransmitting and keeps sending the delayed
acknowledgement (weak fairness: `doit` is an endless loop, and a node of `ackdeque`
stays); a data segment in order, a new acknowledgement, and any packet for `touAccept`
are taken if they can be again and again (strong fairness: UDP does not lose for ever
what is sent for ever, and the applications loop over `select` and `run`). Nothing is
assumed of packets sent once: a lost SYN or SYN ACK blocks both ends for ever, which
no property here denies.

### 2.6 Transfer, ByteStream

The sending process is `Sender` as it is, the peer an instance of `Receiver` whose
application is `proj.cpp`'s server: `select`, `run`, and a `touRecv` that empties the
buffer. `Deliver` takes a segment out of `Sender`'s network and makes it `Receiver`'s
`Arrive`; an acknowledgement may come in, at any thread that calls `run`, if the peer has
ever sent it (`everAcked`): lost, late, reordered and repeated acknowledgements are
all of these. A segment without data, which `Sender` sends only with an overlap, is an
acknowledgement to the peer (`TakesNoData`); within the bounds of the runs none is sent, so
that case is covered by the theorems only.

The run `transfer` takes `overlap` to be TRUE (2.3), which contains every behaviour without
an overlap: the timer thread calls `run` while `touSend` is in progress. `EndsAgree`,
`QuietIsDone` and `StreamSafety` do not depend on it. `BothLive` and `AllDelivered` do, since
an overlap may end the sending process (section 4, item 5); `transfer_live` takes FALSE.
`StreamSafety` is the safety part of `ByteStream` with `received` the
bytes `touRecv` has returned: `Sender`'s `TouSend` is `Write`, `Receiver`'s `TouRecv`
is `Read`, everything else stutters.

`Fairness` has one conjunct per thing that must not be starved for ever:

* the threads of the sending process get on, `send_mtx` and `run_t_mtx` included. Boost's
  mutexes are the operating system's; strong fairness is needed since they are contended;
* the timer thread sometimes finds no packet waiting, so that `doit` leaves its loop on
  `run`; that is false only of a peer that sends acknowledgements faster than
  they are processed for ever;
* a timeout happens again and again, and not all retransmissions are lost; of the
  acknowledgements of something new, one comes in. UDP promises neither; without
  them there is no protocol;
* the peer's threads get on (weak fairness: nobody competes for long).

`AllDelivered` says that, without an overlap and of a stream without a zero byte,
`rdied = "crash"` is the only way out: `run` deleting `tp`
unassigned (section 4). That everything is delivered otherwise depends on the delayed
acknowledgement's timer (an old segment is answered by nothing else), on the
timeout when `cal_num_caxmit` rounds the window to no segment, and on `RunResume`,
the `run` that takes a recovery up again.

### 2.7 TimerHeap

The heap is a sequence, top first, of nodes `[c_id, st, p_id, rex]`. `Before` is
`heapComp`. The actions are those of `Sender`, in less detail, for any socket: `SendEnter`
to `SendDone` for `send`, `RunRecv`, `ProcAck`, `DeleteTimer` and `RexmitDupAck` for `run`,
`TimerWakes` to `TimerFires` for `doit`. Two more things are shared. `socktb` is
written by each `send` and each `run`, and read when `run` calls `proc_ack` and when `send`
makes a node. `front` is what `top()` returns of an empty heap: `doit` reads the top
without the mutex, possibly after `run` has emptied the heap, and gets what the storage
held last. `mixed` is a history variable: have two connections ever been in flight at
a time?

### 2.8 Timing

`real` is the time and `getTimeMs` what the program sees of it, `real % Wrap`. `Tick` may
not pass the timer's next round, which comes at most `Period` after the last: `doit` waits
`TIMER_WT_TIME` before its first round and, since nothing re-arms `t_doit`, not at all
afterwards, so `Period` is what the scheduler and a round's own work take. `Recalculated`
is `cal_rto`, with both truncations and the floor of 10 ms; `Estimate` weighs the *old*
value by one eighth. `Rexmit` is `proc_sndpkt`, with `postpone_timer`; `Refired` waits
two timeouts, because `cal_backoff_rto`, which would double `t_rto`, is commented out and
`2 * t_rto` stands in its place.

The end that takes the data has of `Receiver` only what its times depend on: `runstate`, and
whether a segment waits in the out-of-order heap. A `run` is one step, by what it does with a
segment: `RunMatch` and `RunMore` for one that is expected or past a gap (an old one does
nothing here), `RunResume` for a `run` that takes up a recovery. `RecoverDone` and
`RecoverFull` are the two ends of a recovery; the second leaves the state
`TOUS_DELACK_IMMED_UPDATE_XMIT` (IMMED) and does not call `proc_delack`. `proc_delack(state)`
is `processTou::proc_delack` in the state that `run` has left, `TimerDelack` is
`proc_delack_xmit`, which leaves IMMED to `run` (`AckDue`).

A node has fields the code does not have: when it was really sent, how often, and the lowest
and the highest timeout in force since. The properties compare what the code does with
these.

### 2.9 Locks

A thread is a sequence of steps (take, drop, use, call) that it has left to do. The
operators, one per function, put the sequences together along the call graph, so a
module reads like the list of locks in each function. Where data decides which locks
come next, `Body` has all continuations; a loop over a queue
(`proc_delack_xmit`, the timer's walk over the delayed acknowledgements) is a call that may
call itself, so any number of nodes is covered. `Open` is `touSocket`, which makes a new `processTou`.
A timer thread that does not get `run_t_mtx` calls `run` again at once (it gets 0 and loops
`while (run_ret >= 0)`, `timer.cpp:233`): for deadlocks that is waiting, and `RunBusy` is for
the other threads only.

## 3. The runs

| Run | Shows | Bounds |
|---|---|---|
| `congestion` | window bounds, deflation, recovery and duplicate count in step, one fast retransmission per episode | segment of 4, clamp of 24: growth takes several values before it rounds to 0, every clamp bites |
| `buffer` | what `getAt` copied is what `remove` drops; refinement of `ByteQueue` | 4 bytes, 2 values, chunks up to 3: every offset, every occupancy, every refusal |
| `sender` | in both ways of using the library no unacknowledged byte is lost, no written one is left with nobody to send it, the window is respected, retransmissions carry their bytes; without overlap only the oldest segment is retransmitted, no `exit`, no failing assertion, no empty segment | segment of 2, stream of 8, window up to 5 (odd, so that a partial segment occurs), one application thread; 2.6 million states |
| `sender_zero_byte` | *violation*: a segment with a zero byte is retransmitted wrongly | stream of 4, zero at its first byte |
| `receiver` (`Drained`, no `Dup`) | the stream is stored intact, what is acknowledged is stored, no assertion fails | six segments of 1 or 2 bytes, any order, a buffer of 5 that takes 4 |
| `receiver_full` (not `Drained`, `Dup`) | nothing twice or out of order; no ready segment forgotten; acknowledgements muted by an unfinished recovery only, not delayed twice | the same, two copies of each segment |
| `transfer` (overlap) | the two ends' numbers agree, the sender rests only when all is delivered, refinement of `ByteStream`'s safety, with `touSend` and the timer thread's `run` overlapping or not | segments of 1, stream and window of 3, two segments in the network, so that one overtakes another; 7.1 million states, two and a half minutes |
| `transfer_live` (no overlap) | neither process ends itself; liveness: everything written is read | stream of 2, a receive buffer that takes one, a window that gets down to one segment; 0.4 million states, two minutes |
| `timers` | the connection with the lowest descriptor loses no node; nobody does, and nothing exits, while one connection at a time is in flight | three sockets, two segments each, `postpone_timer`'s limit at 4, which some heaps reach |
| `timing` | retransmissions neither early nor late, acknowledgements not late but after a recovery that found the buffer full, estimates true, the assertion of `postpone_timer` fails only over a segment sent at the clock's 0 | three segments, time up to 84 in steps of 3, a clock that starts again at 60, connections started before and shortly before it does; 6.3 million states |
| `locks` | the only circle of waiting threads is one of two that are both in `run` | two application threads, the timer thread, two connections, one `touSocket`; 6.4 million states, two minutes |
| `connection` | `touAccept` never returns before `touConnect`; sequence numbers agree; nobody exits unless somebody closes; liveness: what was sent is acknowledged or somebody closes | three segments: one for `touAccept` to swallow, one early, one in order |

The type invariants of `Ssca`, `CircBuf`, `Sender`, `Receiver`, `Connection` and `Timing`, and the bookkeeping
invariants of `CircBuf`, are proved for every value of the constants (section 5), and no
run repeats them.

Deadlock is checked in `congestion` and `buffer`. The other systems may stop: the
stream is finite, a lost SYN blocks, the process may have ended, `Timing`'s clock has a
bound; and the threads of `Locks` do block each other in the case that `NoDeadlock`
excepts, which is a statement about every subset of the threads and so stronger than TLC's.

The bounds. In the sender's run three or four segments are enough for every relative
position of an acknowledgement, a duplicate, a timeout and the segment `send` has in hand;
the assertion of `postpone_timer` needs two nodes, `cal_num_caxmit` an even and an odd
count. In the receiver's, six segments let the heap hold two that are ready together
behind one gap and one behind a second gap, with the buffer full in the middle. In
`transfer`, three segments are needed for one to be in order, one ahead and one
retransmitted meanwhile. `RECVBUFSIZE` is 2 where a segment is 1: as in the code (2000
against 1456 bytes), the room asked for before another packet exceeds a segment, on
which the last conjunct of `EndsAgree` rests. In `timers`, the third socket is there so
that a node may lie between those of two others. In `timing`, the
proportions are kept rather than the values: a timeout takes several rounds, a delayed
acknowledgement's two times lie on either side of it, and the clock starts again once;
the theorems do without any of this.

Fairness is assumed in `connection` (2.5) and `transfer_live` (2.6) only.

## 4. Where code and comments, or code and intention, disagree

`findings` quotes both sides of the one that a run exhibits:

1. *Segments with a zero byte* (`timer_node.cpp:20`, run `sender_zero_byte`) are
   retransmitted cut short and with a sequence number that is too high.

The others have no run of their own; the passing runs stay clear of them by a constant
or by the premise of a property, and changing that shows them.

2. *A full receive buffer loses data* (`processtou.cpp:210`). `run` moves `rcv_nxt`,
   then ignores that `putcircbuf` stored nothing. The check for room
   (`RECVBUFSIZE`) is made before taking *another* packet only, so the first
   packet of each `run` is taken without it. The recovery path tests the result.
   `Receiver` with `Drained` FALSE violates `StreamIntact`.
3. *A duplicate of a waiting segment ends the process* (`processtou.cpp:594`): the second
   copy lies below `rcv_nxt` when the first has been taken. The sender alone does not
   cause it, unless an overlap (item 5) makes it send something else, for it only retransmits its oldest segment (`RexmitsOldestOnly`), which is
   never beyond the receiver's gap (`BothLive` of `Transfer`); a network that
   duplicates does. `Receiver` with `Dup` TRUE violates `NoAssert`.
4. *`touClose` makes the peer exit* (`tou.cpp:526`). Its FIN is not recognised (2.5), and
   `processGetPktState` calls `exit(1)` for a packet of no kind it knows; hence the premise
   of `EndsOnlyByClose`. Every demonstration leaves by `exit` or `return` before its
   `touClose`.
5. *Empty segments* (`processtou.cpp:458`). `send` in congestion avoidance counts
   segments and does not look at the window again. If `run` on another thread
   deflates the window meanwhile, it sends segments of no bytes, and
   `rexmit_for_dup_ack` may then `exit`: without `~overlap`, `NoEmptySegment` and
   `NoExit` of `Sender` fail.
6. *A repeated SYN* takes an established connection back to SYN_RECEIVED, and the next
   packet makes the process exit: the check that "Check if the connection is in established
   state" announces (`processtou.cpp:117`) is commented out. With "SYN" in `DupKinds`,
   `NoHalfOpen`, `SequencesAgree` and `EndsOnlyByClose` fail. A repeated SYN ACK does
   the same to the client: with "SYNACK" in `DupKinds`, `EndsOnlyByClose` fails.
7. *Two connections in flight* share a heap on which each looks for its own at the top
   only. `delete_timer` exits over the other's node (`timer.cpp:491`), and
   `proc_clear_ackedpkt` compares the other's nodes with this one's number
   (`timer.cpp:437`): `AllKeep` of `TimerHeap`, which states the comment at
   `timer.cpp:422`, fails. So does `LowestKeeps` with `Overlap` TRUE, when `send` for one
   socket overwrites `socktb` under `run` of another.
8. *A second `touSocket`* (`tou.cpp:335`) replaces `ptou`, and `run_t_mtx`, which is there to
   "protect run func." (`processtou.h:76`), with it. A thread still in the old one's `run`
   and one in the new one's take `stb_mtx` and `stb_tc_ack_mtx` in opposite orders:
   `NoDeadlock` without its last disjunct fails; as long as there is one `processTou`
   it holds without it (`OneTouNeverDeadlocks`).
9. *The clock's wrap* (`timer.cpp:31`). A node or an acknowledgement whose time was computed
   before the wrap and lies beyond it is never due again, since `getTimeMs` never shows
   that time; nothing repairs it but an acknowledgement or data. `Wrapped` in `Punctual`
   and `AckPunctual` excepts this. A sample taken over the wrap is short of a turn, and the
   floor of 10 ms catches it. A segment sent in the millisecond 0 fails the assertion
   `xmitms > 0` (`timer.cpp:537`) when it is postponed.
10. *The estimate's weights* (`timer.cpp:146`). `t_rtt_alpha`, "default std: 0.125", is the
   weight of the new sample in RFC 6298's terms and multiplies the old estimate here.
   The estimate follows nearly every sample at once; `SamplesTrue` holds all the same.
11. *The peer's window* (`tou.cpp:93`) is computed as this end's receive buffer less 300000
   in an `int`, negative below that size and then huge as a `u_long`: flow control does not
   happen, and item 2 is what happens instead.
12. *A peer's window of one segment or less* (`processtou.cpp:42`). In congestion avoidance
   `cal_num_caxmit` rounds it to no segments. With nothing in flight, `send` then leaves the data
   in the buffer, and no acknowledgement and no timeout will call it again: "waits for next
   change to xmit data" (`processtou.cpp:435`) waits for ever. With `Awnd` at 2 in the run
   `sender`, `NoStranded` fails. Item 11 is why such a window is rare: it takes a receive
   buffer of 300000 to 301456 bytes.
13. *An unfinished recovery mutes the acknowledgements* (`processtou.cpp:576`). `proc_pkt_rec`
   leaves the state IMMED behind whether or not the recovery came to its end; when it found the
   buffer full, `run` ends without `proc_delack` (`processtou.cpp:191`), and the timer does nothing in
   that state ("let processtou handle the xmit", `timer.cpp:316`). Data that came in order, with
   `rcv_nxt` past it, is then not acknowledged before the application calls `run` again, however
   long that takes, against "the delay MUST be less than 500ms" (`timer.h:22`). `AckPunctual`
   without its first disjunct fails.

A stale acknowledgement grows the window, or ends recovery (`processtou.cpp:71`, an action
of `Ssca` and `Sender`), where `tou_ss_ca.cpp:30` says that `addwnd` is for new ones only.
A `run` that resumed a recovery deletes a pointer it never assigned (`processtou.cpp:279`,
`DeleteTp`). `ck_num_dupack` compares with `==` where its comment says "above or equal to 3"
(`tou_sock_table.cpp:264`); the code is right, and a mutant shows that the comment would
retransmit again at each duplicate. `CircularBuffer::insert` takes a chunk whole or not at
all where `circ_buf.h:31` says it inserts what fits. `rexmit_for_dup_ack` calls `exit(1)` for
a node beyond the acknowledged number where `timer.cpp:599` says it is pushed back. But for
items 9 and 13 the delay of acknowledgements that `timer.h:22` wants below 500 ms is at most
`TIMER_DELAYED_ACK_TIME`, 200 ms, and one round of the timer (`AckPunctual`), which must take
less than 300 ms.

## 5. The proofs

All are checked by `tlapm` for every value of the constants allowed by the
modules' assumptions.

* `SscaSafe`: `Spec => []` of type correctness, `WindowBounds`, `RecoveryDeflates`,
  `RecoveryIffThreshold` and `OneRexmitPerEpisode`. Assumption:
  `CongestionAssumption`. None of these is inductive alone: that the window
  stays above a segment in `addwnd` needs `ssthresh >= 2 * SMSS`, and that one
  retransmission happens per episode needs to know that between `DupAck` and
  `CheckDupAck` the retransmission has not been made yet at the threshold count. The
  invariant of the proof adds that. One lemma per window function says what the
  function preserves, and the step from one state to the next is one case per action.
* `SscaDeflates`: the action property `NoGrowthOnExit`, from that invariant.
* `CircBufSafe`: type correctness, `TailIsHeadPlusTotal`, `NeverFull`, `PeekedIsHead`. The
  heart is a lemma that `Store` changes no byte between head and tail, so what the
  drainer copied before an `insert` is still the head after it.
* `CircBufImplementsQueue`: the refinement. `insert` appends or stutters, `getAt`
  stutters, `remove` takes the chunk `got`, which `PeekedIsHead` identifies with the head.
* `ReceiverSafe`: type correctness, `NoneReady`, `AckEverySecond`, `TimerNotMuted`, with no
  assumption on the network, the reader or the segments. `ReadyInv` extends
  `NoneReady` to the points from which `run` can leave or go on; `AckInv` says
  at each point of `run` how many segments may be unacknowledged in each
  state, and that an unfinished recovery keeps the state IMMED. That last part
  is why the next acknowledgement, once the recovery ends, is sent at once.
* `ReceiverOrder`: `NeverBackwards`, assuming `InPlace` (a byte's sequence number is its
  position, which the sender's `WireContent` says), with any reader. The invariant
  adds that all of `stored` lies below the segment about to be stored.
* `ReceiverStream`: `StreamIntact` and `AckedIsStored`, assuming `InPlace` and
  `DrainedReader`: the buffer is empty when `run` starts, and segments are shorter than
  `RECVBUFSIZE`, the room asked for before another packet (in the code 1456 against
  2000). The invariant says that `stored` and the segment in hand, for which there
  is room, are the stream up to `rcv_nxt`. Section 4, item 2, shows that the
  assumption on the reader cannot be dropped.
* `ReceiverAsserts`: `NoAssert`, assuming that no segment waits twice (`~Dup`) and that
  segments share no byte (`Disjoint`), with any reader. The invariant: everything in the
  heap is at or beyond `rcv_nxt`, and a queued acknowledgement has its node. It
  uses `ReadyInv`: a waiting copy of the segment that comes in order would be ready.
  Section 4, item 3, shows that `~Dup` cannot be dropped.
* `SenderWindow`: `Spec => []` of type correctness, `FlightBounded` and `NoEmptySegment`, in
  both ways of using the library and for every stream. The invariant is `SafeInv`: who
  holds `send_mtx` and `run_t_mtx` at which place (`LockInv`, `SoloInv`); the window that
  `send` works with and what is in flight are both below the limit, so that the sum
  `popsndq` makes cannot exceed it (`WindowInv`); and in congestion avoidance `xmit_cnt`
  leaves room for a byte, which is what `NoEmptySegment` needs (`CountInv`).
* `SenderNeverStrands`: `NoStranded`, in both ways of using the library and for every stream,
  assuming `Awnd > SMSS` (section 4, item 12). `send` decides on what it read of the window and
  on the count it began with, and other threads change `snd_una` and the window meanwhile; a
  lost wake-up is what that could lead to. `StrandInv` says that congestion avoidance has a window
  of two segments at least, which `cal_num_caxmit` does not round to nothing; that the window
  in hand is at least a segment; and that, if nothing is in flight, either the count of whoever
  is in `send` lets it send one more, or another thread is on its way to `send`: the one that
  took the acknowledgement (`WillSend`).
* `SenderReliable`: `UnackedIsHeld`, `WireContent`, `RexmitsOldestOnly` and `NoExit`, for every
  stream without a zero byte (`NulAt = {}`; section 4 has the counterexample with
  one). None is inductive. `StreamInv` adds that the segment in hand is the last one
  (`HandInv`), that a node's copy is what belongs at its number (`NodeInv`), that segments do
  not overlap and that `snd_una` is inside none (`SpanInv`: an acknowledgement is for the end of
  a segment, so what `delete_timer` pops is acknowledged as a whole), and that, without
  overlap, whatever was sent again begins at `snd_una` or below (`OldestInv`, on which
  both the `exit(1)` of `rexmit_for_dup_ack` and `postpone_timer`'s assertion depend).
* `TransferAgrees`, `TransferLives`, `TransferImplementsStream`: `Safety => []EndsAgree`,
  `Safety => []BothLive` and `Safety => StreamSafety`, the refinement of `ByteStream`; whether or
  not `touSend` overlaps with a `run`. `BothLive` itself promises only of a client without
  overlap that neither process ends; with one, `NoExit` fails (section 4, item 5). There are two
  assumptions. `NoZeroByte`: the stream has no zero byte, which the code does not ensure, and
  without which `WireContent` fails (section 4, item 1), so the theorems say nothing of an
  arbitrary file. `PeerHasRoom`: the peer's buffer takes what its `run` asks room for, which is
  more than a segment (6291456, 2000 and 1456 bytes). That the peer empties its buffer between two
  calls of `run`, as `proj.cpp`'s server does, is in the module (`Drained <- TRUE`).

  `TransferInv` is the two ends' own invariants
  (from part I of the module and, through an instance, `ReceiverProofs`) and what
  relates them: what flies with data is cut as the sender holds it (`CutInv`); `rcv_nxt`, and all
  that was ever acknowledged, lies between two segments (`AckInv`), which is the assumption that
  `Sender` makes of its acknowledgements; and, without overlap, a segment ahead of `rcv_nxt`
  exists once, in the network or in the peer's heap (`OnceInv`, `WaitInv`), since only the oldest
  is retransmitted and that one is never ahead: hence no assertion of the receiver fails.
  With that every step of `Sender` is a `Write` or a stutter, the
  peer's `touRecv` a `Read`, every other step of the peer a stutter.
* `TransferRests`: `Safety => []QuietIsDone`, with and without overlap, assuming `NoZeroByte`,
  `PeerHasRoom` and `Awnd > SMSS`: a sender with
  no thread at work and an empty heap has everything at the peer. It is the safety half of
  `AllDelivered`, and follows from `TransferInv` and `StrandInv`: nothing on the heap, so nothing is
  unacknowledged (`UnackedIsHeld`); nothing in flight, so nothing is left in the buffer
  (`NoStranded`); what is acknowledged is stored (`EndsAgree`). A heap that is not empty keeps the
  timer going, so a transfer cannot end early; that it ends is the run `transfer_live`.
* `HeapSafe`: type correctness, `LowestKeeps` and `AloneIsSafe`, assuming `~Overlap` (with
  overlap none of the three holds, section 4). The invariant: one call is at work at a
  time, so that `socktb` is still its connection (`TurnInv`); the numbers in hand are that
  connection's (`NumberInv`); the heap is sorted, and a node's `st` is its own connection's
  entry (`NodeInv`); and, as long as `mixed` is false, only the oldest of the one connection
  is marked and a search meets no other's node (`AloneInv`). The lowest connection is safe
  because, if it has a node at all, it is on top, and the timer clears by its number.
* `ConnectionSafe`: type correctness, `NoHalfOpen`, `SequencesAgree` and `EndsOnlyByClose`, for
  every amount of data and every initial number, assuming that the network delivers
  neither the SYN nor the SYN ACK twice (`OneHandshake`; packets of the other kinds it may).
  Until `touConnect` returns there is one packet at most, and the ends take turns
  (`HandshakeInv`). From then on a packet matters by its number only (`SharedInv`), which is
  why `touAccept` may take a data segment for the last acknowledgement. `OneHandshake`
  cannot be dropped: a SYN that comes again is taken for that acknowledgement, too, and a
  SYN ACK that comes again takes the client back to SYN_RECEIVED, where the next packet ends it.
* `TimingSafe`: type correctness, `Punctual`, `AckPunctual`, `AssertsAtZero`, for every set
  of times and every pace of the timer (`TimingAssumption` wants only a first timeout and
  a least sample of at least 8 ms, without which the truncations could make a timeout 0).
  `Punctual` is about now, and not inductive: the invariant speaks of `LastRound`, when the
  timer looked last, and says for what reason it passed the oldest node over
  (`OldestSeen`), what a node's times mean (`NodeTrue`), and between which bounds it is due
  (`NodeDue`). `OwedSeen` does the same for the delayed acknowledgement, and `Muted` says that
  IMMED is the state after a `run` exactly if its recovery is unfinished, which `AckPunctual` excepts. The lemma `Clock` relates
  what the clock shows at two times: it never gains on the real time, and keeps up
  with it until it starts again; that is all that is needed of `%`.
* `LocksSafe`: type correctness and `NoDeadlock`, for any number of application threads,
  connections and `touSocket` calls. A thread's state is the list of
  the steps it has left, and the invariant `LocksInv` says that the list is a `Path`:
  from the mutexes the thread holds there is, step by step, a legal way to none. What
  "legal" means is the library's locking discipline, written down nowhere in the code:
  nothing is taken while a `Leaf` mutex is held; those of `Inner` are kept inside `run` only,
  in no order among themselves; `First` comes before `Second`, no two of either are held
  together, and none is taken under an `Inner` one, except `ack_deque_mtx`, always under
  `ack_mtx`; `run_t_mtx` is only tried. One lemma per function of the code says that its
  list is such a path, and rules put paths together, so that no induction over a list's
  length is needed. A circle whose threads wait for `First` and `Second` only would run
  against their order, and one that waits for an `Inner` mutex has two threads that keep
  some, both in `run` (`CircleIsInRun`).
* `OneTouNeverDeadlocks`: assuming that `touSocket` is called once (`MaxTou = 1`),
  `Spec => []NoCircle`, with no exception: one `run_t_mtx` lets one thread into `run`.
* `TimingEarly`, `TimingSamples`: the action properties `NeverEarly` and `SamplesTrue`, from
  the same invariant; the second with the lemma `EstimateBounds` on the two truncated terms.

For `StrandInv`, `TransferInv`, `ConnectionInv` and `HeapInv` TLC was asked first, on the
bounds of the runs `sender`, `transfer`, `connection` and `timers` (without the fairness),
whether they are invariants at all.

Only model-checked: the two liveness properties, `AllDelivered` and `AllAcknowledged`;
liveness under fairness is out of the prover's reach. `WireContent` without the
assumption on zero bytes is false, and stays a run that finds the violation.

## 6. What is not modelled

* *The client of `proj.cpp`*: reading the file, its own loss of interest when `select` times
  out. It calls `run` and `touSend` in turn, but its timer thread calls `run` too while a `touSend`
  is in progress (`timer.cpp:217-233`): its threads are those of `Sender` with `overlap` TRUE and one
  application thread. The server's loop is the peer of `Transfer`.
* *CLOSE_WAIT, TIME_WAIT, `PROCESS_FIN`* and the branch of `closer` that belongs to them: no
  FIN this code sends is recognised as one (2.5), so they cannot be entered.
* *Two threads in `touRecv` on one socket*: `CircBuf` has one drainer.
* *`sockMng`'s cursor `stbp`*, which only `getCirSndBuf` reads; `setSize` after a buffer has
  been used, and the five-argument `getAt`, which nobody calls.
* *Conversions*: that `touPkg` copies four bytes into each `u_long` leaves, where it has
  eight, the upper half uninitialised. The modules take the conversion to be exact,
  but in `Connection`, where `touClose` sends the structure itself.
* *Logging, time stamps*, and `tou_process_send.cpp`, which the Makefile does not build.

Abstracted in the modules there are: the bytes' values, except whether they are zero; the
header's fields the established state does not use; time, except in `Timing`; sequence
number wrap-around (a `u_long` of which 32 bits are sent: 4 GB into a connection); other
connections, except in `TimerHeap` and `Locks`; a second direction of data, except in
`Connection`.

What would be worth doing next: `Transfer` with data in both directions, where an
acknowledgement rides on a segment; the invariants of `TransferProofs` with two sending
halves; and, for `TimerHeap`, what remains true of a connection when `touSend` overlaps with a
`run` of the same socket only.
