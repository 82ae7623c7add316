------------------------------- MODULE Locks -------------------------------
(***************************************************************************)
(* The mutexes of the library and the order in which its threads take      *)
(* them: the application's threads, which call the ToU functions, and the  *)
(* timer thread.  A thread is what it has left to do, a sequence of steps  *)
(* on mutexes put together along the call graph; everything else the code  *)
(* does is left out, and where it decides which locks come next, any of    *)
(* the possible continuations is taken.  A lock whose scope takes no other *)
(* lock is one step (Use): it waits for the mutex and never keeps it.      *)
(*                                                                         *)
(* Each processTou has a run_t_mtx and a send_mtx of its own, and          *)
(* touSocket replaces the one the global ptou names.                       *)
(***************************************************************************)
EXTENDS Naturals, Sequences

CONSTANTS Callers,  \* threads of the application
          Timer,    \* the timer thread
          Conns,    \* connections in the socket table
          MaxTou    \* bound: how many processTou objects touSocket makes

ASSUME LocksAssumption == Timer \notin Callers /\ MaxTou \in Nat \ {0}

VARIABLES held,  \* held[t]: the mutexes thread t holds
          todo,  \* todo[t]: the steps of the call thread t is in
          ptou   \* the processTou the global pointer names

vars == <<held, todo, ptou>>

Threads == Callers \cup {Timer}

(***************************************************************************)
(* The mutexes.                                                            *)
(***************************************************************************)
OfConn == {"stb_mtx", "stb_tc_ack_mtx", "stb_minhp_recv_mtx", "stb_cb_recv_mtx",
           "sscamutex", "cb_send", "cb_recv"}
OfTou == {"run_t_mtx", "send_mtx"}
Global == {"stbq_mutex", "timer_heap_mtx", "ack_deque_mtx", "ack_mtx", "socktabmutex1"}

Mutexes == (OfConn \X Conns) \cup (OfTou \X (1 .. MaxTou)) \cup (Global \X {0})

Of(m) == <<m, 0>>

(***************************************************************************)
(* Steps: a mutex taken, dropped, or both; or a call, of a function f on   *)
(* behalf of processTou p and connection c, whose body is chosen when the  *)
(* call is made.                                                           *)
(***************************************************************************)
Step(do, on) == <<[do |-> do, on |-> on]>>

Use(m) == Step("use", m)

With(m, body) == Step("take", m) \o body \o Step("drop", m)

Do(f, p, c) == Step("call", <<f, p, c>>)

getSocketTable == Use(Of("stbq_mutex"))

Setter(c) == getSocketTable \o Use(<<"stb_mtx", c>>)

setCbData(c) ==
    getSocketTable \o With(<<"stb_cb_recv_mtx", c>>, Use(<<"cb_recv", c>>))

gen_pkt(c) == Use(<<"stb_mtx", c>>)

getSendSize(c) == Use(<<"sscamutex", c>>)

set_ack_state(c) == Use(<<"stb_tc_ack_mtx", c>>)

processGetPktState(c) == With(<<"stb_mtx", c>>, Use(<<"stb_tc_ack_mtx", c>>))

proc_ack(c) == With(<<"stb_mtx", c>>, Use(<<"sscamutex", c>>))

\* One round of send()'s loop: getSendSize, popsndq, gen_pkt, add.
SendRound(c) ==
    getSendSize(c) \o Use(<<"cb_send", c>>) \o Use(<<"cb_send", c>>)
    \o gen_pkt(c) \o Use(Of("timer_heap_mtx"))

send(p, c) ==
    {With(<<"send_mtx", p>>,
          getSocketTable \o getSendSize(c) \o Use(<<"cb_send", c>>) \o r) :
        r \in {<<>>, SendRound(c)}}

\* Fault for proc_delack: without ack_mtx.
proc_delackNoAckMtx(c) ==
    {With(<<"stb_tc_ack_mtx", c>>, g \o Use(Of("ack_deque_mtx"))) :
        g \in {gen_pkt(c), <<>>}}

proc_delack(c) ==
    {With(Of("ack_mtx"),
          With(<<"stb_tc_ack_mtx", c>>, g \o Use(Of("ack_deque_mtx")))) :
        g \in {gen_pkt(c), <<>>}}

\* Nothing to recover, a segment stored, or no room for it: then no
\* acknowledgement is sent.
proc_pkt_rec(c) ==
    {With(<<"stb_minhp_recv_mtx", c>>, r) \o Do("proc_delack", 0, c) :
        r \in {<<>>, set_ack_state(c), setCbData(c) \o Setter(c) \o set_ack_state(c)}}
    \cup {With(<<"stb_minhp_recv_mtx", c>>, setCbData(c) \o set_ack_state(c))}

(***************************************************************************)
(* What run() does with one packet it has judged.  An acknowledgement ends *)
(* in send(); a data packet may be followed by another one.                *)
(***************************************************************************)
OnAck(c) ==
    {proc_ack(c) \o Use(Of("timer_heap_mtx")), proc_ack(c)}
    \cup {Use(<<"stb_mtx", c>>) \o Use(<<"sscamutex", c>>) \o Use(<<"stb_mtx", c>>) \o r :
             r \in {<<>>, Use(Of("timer_heap_mtx"))}}

OnData(c) ==
    {<<>>,
     Use(<<"stb_minhp_recv_mtx", c>>) \o set_ack_state(c) \o Do("proc_delack", 0, c),
     Setter(c) \o setCbData(c) \o Do("proc_pkt_rec", 0, c)}

Room(p, c) == Use(<<"cb_recv", c>>) \o Do("more", p, c)

Judged(p, c) ==
    {Setter(c) \o Setter(c) \o Setter(c)}
    \cup {a \o Do("send", p, c) : a \in OnAck(c)}
    \cup {d \o Room(p, c) : d \in OnData(c)}

Packet(p, c) == processGetPktState(c) \o Do("judged", p, c)

(***************************************************************************)
(* The calls of the application, and a round of the timer thread.  The     *)
(* thread that touClose starts and joins is a part of the call.            *)
(***************************************************************************)
touSend(c) == getSocketTable \o Use(<<"cb_send", c>>) \o Step("ptou->send", <<c>>)

touRecv(c) == getSocketTable \o Use(<<"cb_recv", c>>) \o Use(<<"cb_recv", c>>)

touClose(c) ==
    getSocketTable \o getSocketTable
    \o With(Of("socktabmutex1"), Setter(c) \o getSocketTable)

touSocket == getSocketTable \o Step("ptou=", <<>>)

run(c) == Step("ptou->run", <<c>>)

Calls ==
    {touSocket}
    \cup UNION {{touSend(c), touRecv(c), touClose(c), Setter(c), run(c)} : c \in Conns}

Round ==
    Use(Of("ack_deque_mtx")) \o Do("timer proc_delack", 0, 0)
    \o Use(Of("timer_heap_mtx")) \o Do("recv and rexmit", 0, 0)

TimerDelack ==
    {With(Of("ack_mtx"), With(Of("ack_deque_mtx"), Do("proc_delack_xmit", 0, 0)))}

\* The timer thread goes through the deque, from one node to the next.
proc_delack_xmit ==
    {<<>>} \cup {set_ack_state(c) \o Do("proc_delack_xmit", 0, 0) : c \in Conns}

\* The connection on top of the heap may change while it is cleared.
proc_sndpkt ==
    UNION {{With(Of("timer_heap_mtx"), Use(<<"stb_mtx", c>>) \o w) :
               w \in {<<>>} \cup {Use(<<"sscamutex", d>>) : d \in Conns}} : c \in Conns}

Body(f, p, c) ==
    CASE f = "send"              -> send(p, c)
      [] f = "proc_delack"       -> proc_delack(c)
      [] f = "proc_pkt_rec"      -> proc_pkt_rec(c)
      [] f = "judged"            -> Judged(p, c)
      [] f = "more"              -> {<<>>, Packet(p, c)}
      [] f = "timer proc_delack" -> {<<>>} \cup TimerDelack
      [] f = "proc_delack_xmit"  -> proc_delack_xmit
      [] f = "recv and rexmit"   -> {<<>>} \cup {run(d) \o Do("proc_sndpkt", 0, 0) : d \in Conns}
      [] f = "proc_sndpkt"       -> proc_sndpkt

-----------------------------------------------------------------------------
(***************************************************************************)
(* The threads.                                                            *)
(***************************************************************************)
Init ==
    /\ held = [t \in Threads |-> {}]
    /\ todo = [t \in Threads |-> <<>>]
    /\ ptou = 1

Free(m) == \A t \in Threads : m \notin held[t]

NextIs(t, do) == todo[t] # <<>> /\ Head(todo[t]).do = do

On(t) == Head(todo[t]).on

\* The step is done; more comes before what is left.
Goes(t, more) == todo' = [todo EXCEPT ![t] = more \o Tail(@)]

\* A thread outside the library calls it; the timer thread starts a round.
Begin(t) ==
    /\ todo[t] = <<>>
    /\ \E p \in (IF t = Timer THEN {Round} ELSE Calls) : todo' = [todo EXCEPT ![t] = p]
    /\ UNCHANGED <<held, ptou>>

Take(t) ==
    /\ NextIs(t, "take") /\ Free(On(t))
    /\ held' = [held EXCEPT ![t] = @ \cup {On(t)}]
    /\ Goes(t, <<>>)
    /\ UNCHANGED ptou

Drop(t) ==
    /\ NextIs(t, "drop")
    /\ held' = [held EXCEPT ![t] = @ \ {On(t)}]
    /\ Goes(t, <<>>)
    /\ UNCHANGED ptou

UseOnce(t) ==
    /\ NextIs(t, "use") /\ Free(On(t))
    /\ Goes(t, <<>>)
    /\ UNCHANGED <<held, ptou>>

Call(t) ==
    /\ NextIs(t, "call")
    /\ \E b \in Body(On(t)[1], On(t)[2], On(t)[3]) : Goes(t, b)
    /\ UNCHANGED <<held, ptou>>

\* ptou is read when the call is made: this thread goes on with that object.
Send(t) ==
    /\ NextIs(t, "ptou->send")
    /\ Goes(t, Do("send", ptou, On(t)[1]))
    /\ UNCHANGED <<held, ptou>>

\* Fault for GetsRun: the mutex is not tried.
GetsRunAlways(t) == TRUE

GetsRun(t) == Free(<<"run_t_mtx", ptou>>)

\* run() got run_t_mtx: it takes a packet, goes on with a recovery, or finds
\* neither and returns -1.  The timer thread calls it again but for that.
RunEnter(t) ==
    LET m == <<"run_t_mtx", ptou>>
        c == On(t)[1]
        again == IF t = Timer THEN run(c) ELSE <<>> IN
    /\ NextIs(t, "ptou->run") /\ GetsRun(t)
    /\ held' = [held EXCEPT ![t] = @ \cup {m}]
    /\ \/ \E b \in {Packet(ptou, c), Do("proc_pkt_rec", 0, c) \o Room(ptou, c)} :
             Goes(t, getSocketTable \o b \o Step("drop", m) \o again)
       \/ Goes(t, getSocketTable \o Step("drop", m))
    /\ UNCHANGED ptou

\* run() did not get run_t_mtx and returned 0.  The timer thread tries again.
RunBusy(t) ==
    /\ NextIs(t, "ptou->run") /\ t # Timer
    /\ ~GetsRun(t)
    /\ Goes(t, <<>>)
    /\ UNCHANGED <<held, ptou>>

\* proTou: a new processTou, whatever threads are in the old one.
Open(t) ==
    /\ NextIs(t, "ptou=")
    /\ ptou' = IF ptou < MaxTou THEN ptou + 1 ELSE ptou
    /\ Goes(t, <<>>)
    /\ UNCHANGED held

Next ==
    \E t \in Threads :
        \/ Begin(t) \/ Take(t) \/ Drop(t) \/ UseOnce(t) \/ Call(t)
        \/ Send(t) \/ RunEnter(t) \/ RunBusy(t) \/ Open(t)

Spec == Init /\ [][Next]_vars

-----------------------------------------------------------------------------
(***************************************************************************)
(* Mutexes exclude each other's owners, and a thread outside the library   *)
(* holds none: what the scoped locks of the code are for.                  *)
(***************************************************************************)
TypeOK ==
    /\ held \in [Threads -> SUBSET Mutexes]
    /\ \A t, u \in Threads : t # u => held[t] \cap held[u] = {}
    /\ \A t \in Threads : todo[t] = <<>> => held[t] = {}
    /\ ptou \in 1 .. MaxTou

WaitsFor(t, u) ==
    /\ NextIs(t, "take") \/ NextIs(t, "use")
    /\ On(t) \in held[u]

InRun(t) == \E p \in 1 .. MaxTou : <<"run_t_mtx", p>> \in held[t]

(***************************************************************************)
(* No set of threads waits on itself, a single thread that takes a mutex   *)
(* it holds included, but for two threads that are both in run().  run()   *)
(* takes stb_mtx before stb_tc_ack_mtx to judge a packet and               *)
(* stb_tc_ack_mtx before stb_mtx to acknowledge one; it takes              *)
(* stb_tc_ack_mtx before ack_deque_mtx and the timer thread the other way  *)
(* round.  ack_mtx keeps the second pair apart.  run_t_mtx keeps the first *)
(* apart, until a socket is opened while a thread is in run(): the next    *)
(* run() takes the mutex of another processTou.                            *)
(***************************************************************************)
NoDeadlock ==
    \A S \in (SUBSET Threads) \ {{}} :
        \/ \E t \in S : \A u \in S : ~WaitsFor(t, u)
        \/ \E t, u \in S : t # u /\ InRun(t) /\ InRun(u)
=============================================================================
