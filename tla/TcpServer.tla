----------------------------- MODULE TcpServer -----------------------------
(***************************************************************************)
(* A TcpServer (net/wf_tcp_server.cc) with its Acceptor and its SubLoops:  *)
(* the main thread, which accepts connections, and NumThreads threads with *)
(* a loop each, which establish, handle and destroy them. Connection c is  *)
(* the c-th accepted. What a live connection sends is in TcpConnection;    *)
(* here its peer only speaks and closes, and the user keeps no             *)
(* TcpConnectionPtr. The threads of the sub-loops outlive ~TcpServer():    *)
(* ~Thread() detaches them, and nothing ever makes their loops quit.       *)
(*                                                                         *)
(* main is where the main thread is: "start" before TcpServer::start(),    *)
(* "poll" in its loop, then the steps of newConnectionCallback(), up to    *)
(* "establish"; "gone" after ~TcpServer().                                 *)
(* thread[t] is where a sub-loop's thread is: "none" before it is created, *)
(* "new", "push" inside loops_.push_back(), "poll", "events", "erase"      *)
(* inside connections_.erase(), "functors".                                *)
(* Neither loops_ nor connections_ is locked. An access is two steps, and  *)
(* accesses that overlap leave any of the results they may leave.          *)
(* A failed assert, or a callback or a loop that is not there, ends the    *)
(* program: fault says which.                                              *)
(***************************************************************************)
EXTENDS Integers, Sequences, FiniteSets, SequencesExt

CONSTANTS NumThreads,    \* numThreads_
          MaxConns       \* bound on the connections accepted

ASSUME ServerAssumption == NumThreads \in Nat \ {0} /\ MaxConns \in Nat

Threads == 1 .. NumThreads
Conns == 1 .. MaxConns
None == 0

VARIABLES main,
          thread,
          seenSize,      \* seenSize[t]: the size of loops_ that push_back() read
          loops,         \* loops_, each loop named by its thread
          next,          \* next_
          accepted,      \* nextConnId_ - 1
          loopOf,        \* loopOf[c]: the thread whose loop c was given to
          connections,   \* connections_
          raced,         \* threads inside connections_ that met another one there
          overlap,       \* there has been such a meeting
          callbacks,     \* connections whose callbacks are set
          state,         \* state[c]: state_
          polled,        \* connections whose channel is in the poller of their loop
          active,        \* active[t]: events of this iteration, not yet handled
          closing,       \* closing[t]: the connection t is in handleClose() of
          pending,       \* pending[t]: pendingFunctors_
          batch,         \* batch[t]: the functors swapped out of it, not yet run
          busy,          \* ~TcpServer() came while there was something left to do
          fault

startVars == <<seenSize, loops>>
acceptVars == <<next, accepted, loopOf, callbacks>>
connVars == <<state, polled>>
mapVars == <<connections, raced, overlap>>
eventVars == <<active, closing>>
queueVars == <<pending, batch>>
vars == <<main, thread, startVars, acceptVars, mapVars, connVars, eventVars, queueVars, busy,
          fault>>

Functors == {"enableRead", "establish"} \X Conns
Events == Conns \X {"data", "eof"}
Faults == {"none", "noLoop", "noCallback", "earlyEof", "eraseNone", "destroyedConnected",
           "freedChannel", "serverGone"}

TypeOK ==
    /\ main \in {"start", "poll", "insert", "callbacks", "establish", "gone"}
    /\ thread \in [Threads -> {"none", "new", "push", "poll", "events", "erase",
                               "functors"}]
    /\ seenSize \in [Threads -> 0 .. NumThreads]
    /\ loops \in Seq(Threads \cup {None})
    /\ next \in 0 .. NumThreads - 1
    /\ accepted \in 0 .. MaxConns
    /\ loopOf \in [Conns -> Threads \cup {None}]
    /\ connections \subseteq Conns
    /\ raced \subseteq Threads \cup {None} /\ overlap \in BOOLEAN
    /\ callbacks \subseteq Conns
    /\ state \in [Conns -> {"kConnecting", "kConnected", "kDisconnected"}]
    /\ polled \subseteq Conns
    /\ active \in [Threads -> SUBSET Events]
    /\ closing \in [Threads -> Conns \cup {None}]
    /\ pending \in [Threads -> Seq(Functors)]
    /\ batch \in [Threads -> Seq(Functors)]
    /\ busy \in BOOLEAN
    /\ fault \in Faults

Init ==
    /\ main = "start"
    /\ thread = [t \in Threads |-> "none"]
    /\ seenSize = [t \in Threads |-> 0]
    /\ loops = <<>>
    /\ next = 0
    /\ accepted = 0
    /\ loopOf = [c \in Conns |-> None]
    /\ connections = {}
    /\ raced = {} /\ overlap = FALSE
    /\ callbacks = {}
    /\ state = [c \in Conns |-> "kConnecting"]
    /\ polled = {}
    /\ active = [t \in Threads |-> {}]
    /\ closing = [t \in Threads |-> None]
    /\ pending = [t \in Threads |-> <<>>]
    /\ batch = [t \in Threads |-> <<>>]
    /\ busy = FALSE
    /\ fault = "none"

MainAt(p) == fault = "none" /\ main = p
At(t, p) == fault = "none" /\ thread[t] = p
Goto(t, p) == thread' = [thread EXCEPT ![t] = p]

(* The connection newConnectionCallback() is making.                       *)
Current == accepted

Queued(f) == \E t \in Threads : f \in ToSet(pending[t]) \cup ToSet(batch[t])

(* The TcpConnectionPtrs: conn in newConnectionCallback(), the functor that*)
(* is to establish it, connections_, and the argument of closeCallback_.   *)
(* enableReadInLoop() is bound to the bare pointer.                        *)
Alive(c) ==
    \/ c = Current /\ main \in {"insert", "callbacks", "establish"}
    \/ Queued(<<"establish", c>>)
    \/ c \in connections
    \/ \E t \in Threads : closing[t] = c

(* ~TcpConnection() for those of cs that nobody holds any more.            *)
Released(cs) ==
    IF \E c \in cs : ~Alive(c)' /\ state'[c] = "kConnected" THEN "destroyedConnected"
                                                            ELSE "none"

(* The threads inside connections_: the main thread in its insertion, a    *)
(* sub-loop's in its erasure.                                              *)
InMap == (IF main = "insert" THEN {None} ELSE {}) \cup {t \in Threads : thread[t] = "erase"}

EnterMap(who) ==
    /\ raced' = IF InMap = {} THEN {} ELSE raced \cup InMap \cup {who}
    /\ overlap' = (overlap \/ InMap # {})

LeaveMap(who) == raced' = raced \ {who} /\ UNCHANGED overlap

(* A thread that comes back to the server after ~TcpServer(): to its Thread*)
(* object, to loops_, or to connections_.                                  *)
IntoServer == IF main = "gone" THEN "serverGone" ELSE "none"

---------------------------------------------------------------------------
(* The start: TcpServer::start() and the threads it makes.                 *)

(* SubLoops::start() creates the threads; none has run yet.                *)
StartThreads == thread' = [t \in Threads |-> "new"]

(* The acceptor listens, then the sub-loops are started.                   *)
Start ==
    /\ MainAt("start")
    /\ main' = "poll"
    /\ StartThreads
    /\ UNCHANGED <<startVars, acceptVars, mapVars, connVars, eventVars,
                   queueVars, busy, fault>>

PushBegin(t) ==
    /\ At(t, "new")
    /\ Goto(t, "push")
    /\ seenSize' = [seenSize EXCEPT ![t] = Len(loops)]
    /\ fault' = IntoServer
    /\ UNCHANGED <<main, loops, acceptVars, mapVars, connVars, eventVars,
                   queueVars, busy>>

(* The places up to the end that t saw which are behind the end now: a     *)
(* thread that had begun before has moved it back.                         *)
Beyond(t) == Len(loops) + 1 .. seenSize[t]

(* The element goes where the end was: what another thread pushed meanwhile*)
(* is overwritten, and a place beyond the end holds a loop, or none.       *)
PushEnd(t) ==
    /\ At(t, "push")
    /\ Goto(t, "poll")
    /\ \E left \in [Beyond(t) -> Threads \cup {None}] :
        loops' = [i \in 1 .. seenSize[t] + 1 |->
                     IF i = seenSize[t] + 1 THEN t
                     ELSE IF i \in Beyond(t) THEN left[i] ELSE loops[i]]
    /\ fault' = IntoServer
    /\ UNCHANGED <<main, seenSize, acceptVars, mapVars, connVars, eventVars,
                   queueVars, busy>>

---------------------------------------------------------------------------
(* The main thread: Acceptor::handleRead() and newConnectionCallback().    *)

(* A mutant of NextLoop: next_ does not move on.                           *)
SameLoop == next

NextLoop == (next + 1) % NumThreads

(* Acceptor::handleRead() is called for a client, and accept(2) succeeds;  *)
(* when it does not, nothing happens.                                      *)
ClientComes == MainAt("poll") /\ accepted < MaxConns

(* getNextLoop(), and the constructor, which has the loop enable reading.  *)
(* It ends at the insertion into connections_.                             *)
Accept ==
    /\ ClientComes
    /\ accepted' = accepted + 1
    /\ next' = NextLoop
    /\ IF NextLoop >= Len(loops) \/ loops[NextLoop + 1] = None
       THEN fault' = "noLoop" /\ UNCHANGED <<main, loopOf, raced, overlap,
                                             pending>>
       ELSE LET t == loops[NextLoop + 1]
                c == accepted + 1 IN
            /\ loopOf' = [loopOf EXCEPT ![c] = t]
            /\ pending' = [pending EXCEPT ![t] = Append(@, <<"enableRead", c>>)]
            /\ main' = "insert"
            /\ EnterMap(None)
            /\ UNCHANGED fault
    /\ UNCHANGED <<thread, startVars, callbacks, connections, connVars,
                   eventVars, batch, busy>>

(* A mutant of Insert: the connection is not stored.                       *)
InsertForgotten ==
    /\ MainAt("insert") /\ main' = "callbacks" /\ LeaveMap(None)
    /\ UNCHANGED <<thread, startVars, acceptVars, connections, connVars,
                   eventVars,
                   queueVars, busy, fault>>

(* connections_[connName] = conn; lost, perhaps, if it met an erasure.     *)
Insert ==
    /\ MainAt("insert")
    /\ main' = "callbacks"
    /\ \/ connections' = connections \cup {Current}
       \/ None \in raced /\ UNCHANGED connections
    /\ LeaveMap(None)
    /\ UNCHANGED <<thread, startVars, acceptVars, connVars, eventVars,
                   queueVars, busy, fault>>

SetCallbacks ==
    /\ MainAt("callbacks")
    /\ main' = "establish"
    /\ callbacks' = callbacks \cup {Current}
    /\ UNCHANGED <<thread, startVars, next, accepted, loopOf, mapVars,
                   connVars, eventVars,
                   queueVars, busy, fault>>

(* A mutant of QueueEstablished: the functor is not queued.                *)
EstablishForgotten ==
    /\ MainAt("establish") /\ main' = "poll"
    /\ UNCHANGED <<thread, startVars, acceptVars, mapVars, connVars, eventVars,
                   queueVars, busy>>
    /\ fault' = Released({Current})

QueueEstablished ==
    /\ MainAt("establish")
    /\ main' = "poll"
    /\ pending' = [pending EXCEPT ![loopOf[Current]] = Append(@, <<"establish", Current>>)]
    /\ UNCHANGED <<thread, startVars, acceptVars, mapVars, connVars, eventVars,
                   batch, busy, fault>>

(* What a user has to wait for: a connection, a thread inside the map, or  *)
(* one that has not got into its loop yet.                                 *)
LeftToDo ==
    \/ connections # {} \/ InMap # {}
    \/ \E t \in Threads : thread[t] \in {"new", "push"}

(* ~TcpServer(), after the main loop: the map gives up its connections, the*)
(* threads are detached, loops_ is freed.                                  *)
Destroy ==
    /\ MainAt("poll")
    /\ main' = "gone"
    /\ connections' = {}
    /\ busy' = LeftToDo
    /\ overlap' = (overlap \/ InMap # {})
    /\ UNCHANGED <<thread, startVars, acceptVars, raced, connVars, eventVars,
                   queueVars>>
    /\ fault' = Released(connections)

---------------------------------------------------------------------------
(* The sub-loops: poll() and handleEvent().                                *)

(* poll() returns with at most one event of each polled connection of this *)
(* loop; or empty-handed, woken up for the functors.                       *)
Poll(t, events) ==
    /\ At(t, "poll")
    /\ \A e \in events : e[1] \in polled /\ loopOf[e[1]] = t
    /\ \A e, f \in events : e[1] = f[1] => e = f
    /\ events # {} \/ pending[t] # <<>>
    /\ active' = [active EXCEPT ![t] = events]
    /\ Goto(t, "events")
    /\ UNCHANGED <<main, startVars, acceptVars, mapVars, connVars, closing,
                   queueVars, busy, fault>>

(* handleRead() with data: messageCallback_ is called, if it is set.       *)
HandleMessage(t, c) ==
    /\ At(t, "events")
    /\ <<c, "data">> \in active[t]
    /\ active' = [active EXCEPT ![t] = @ \ {<<c, "data">>}]
    /\ fault' = IF c \in callbacks THEN "none" ELSE "noCallback"
    /\ UNCHANGED <<main, thread, startVars, acceptVars, mapVars, connVars,
                   closing, queueVars, busy>>

(* handleRead() at the end of the stream: handleClose() and its assert, as *)
(* far as the erasure in TcpServer::removeConnectionInLoop().              *)
HandleClose(t, c) ==
    /\ At(t, "events")
    /\ <<c, "eof">> \in active[t]
    /\ active' = [active EXCEPT ![t] = @ \ {<<c, "eof">>}]
    /\ IF state[c] = "kConnected"
       THEN /\ Goto(t, "erase")
            /\ closing' = [closing EXCEPT ![t] = c]
            /\ EnterMap(t)
            /\ UNCHANGED fault
       ELSE fault' = "earlyEof" /\ UNCHANGED <<thread, closing, raced, overlap>>
    /\ UNCHANGED <<main, startVars, acceptVars, connections, connVars,
                   queueVars, busy>>

(* A mutant of Erase: the connection is destroyed, but its entry stays.    *)
EntryStays(t, c, found) == found /\ UNCHANGED connections

(* connections_.erase(): what it returns, and what it leaves. If another   *)
(* thread was there it may miss the connection, or its effect may be lost. *)
Erase(t, c, found) ==
    /\ found => c \in connections
    /\ ~found => c \notin connections \/ t \in raced
    /\ \/ connections' = connections \ {c}
       \/ t \in raced /\ UNCHANGED connections

(* A mutant of ConnectDestroyed: the channel stays in the poller.          *)
NotRemoved(c) == state' = [state EXCEPT ![c] = "kDisconnected"] /\ UNCHANGED polled

(* connectDestroyed(), which runs here and now.                            *)
ConnectDestroyed(c) ==
    /\ state' = [state EXCEPT ![c] = "kDisconnected"]
    /\ polled' = polled \ {c}

(* The rest of removeConnectionInLoop(), its assert, and the way back into *)
(* handleEvent(). If the map held the last pointer, the connection is gone *)
(* by then, and handleEvent() goes on with a channel that was freed: it may*)
(* or may not notice.                                                      *)
RemoveConnection(t, found) ==
    /\ At(t, "erase")
    /\ Erase(t, closing[t], found)
    /\ LeaveMap(t)
    /\ Goto(t, "events")
    /\ closing' = [closing EXCEPT ![t] = None]
    /\ IF found
       THEN ConnectDestroyed(closing[t])
       ELSE UNCHANGED connVars
    /\ UNCHANGED <<main, startVars, acceptVars, active, queueVars, busy>>
    /\ fault' \in (IF main = "gone" THEN {"serverGone"}
                  ELSE IF ~found THEN {"eraseNone"}
                  ELSE IF Alive(closing[t])' THEN {"none"} ELSE {"none", "freedChannel"})

---------------------------------------------------------------------------
(* doPendingFunctors() of a sub-loop.                                      *)

DoPendingFunctors(t) ==
    /\ At(t, "events")
    /\ active[t] = {}
    /\ Goto(t, "functors")
    /\ batch' = [batch EXCEPT ![t] = pending[t]]
    /\ pending' = [pending EXCEPT ![t] = <<>>]
    /\ UNCHANGED <<main, startVars, acceptVars, mapVars, connVars, eventVars,
                   busy, fault>>

Running(t, f) ==
    /\ At(t, "functors")
    /\ batch[t] # <<>>
    /\ Head(batch[t]) = f
    /\ batch' = [batch EXCEPT ![t] = Tail(@)]

RunEnableRead(t, c) ==
    /\ Running(t, <<"enableRead", c>>)
    /\ polled' = polled \cup {c}
    /\ UNCHANGED <<main, thread, startVars, acceptVars, mapVars, state,
                   eventVars, pending, busy, fault>>

(* connectEstablished(), up to the release of the functor's pointer.       *)
RunEstablish(t, c) ==
    /\ Running(t, <<"establish", c>>)
    /\ state' = [state EXCEPT ![c] = "kConnected"]
    /\ polled' = polled \cup {c}
    /\ UNCHANGED <<main, thread, startVars, acceptVars, mapVars, eventVars,
                   pending, busy>>
    /\ fault' = Released({c})

PassDone(t) ==
    /\ At(t, "functors")
    /\ batch[t] = <<>>
    /\ Goto(t, "poll")
    /\ UNCHANGED <<main, startVars, acceptVars, mapVars, connVars, eventVars,
                   queueVars, busy, fault>>

---------------------------------------------------------------------------
MainNext == Start \/ Accept \/ Insert \/ SetCallbacks \/ QueueEstablished \/ Destroy

LoopNext(t) ==
    \/ PushBegin(t) \/ PushEnd(t)
    \/ \E events \in SUBSET Events : Poll(t, events)
    \/ \E c \in Conns : HandleMessage(t, c) \/ HandleClose(t, c)
    \/ \E found \in BOOLEAN : RemoveConnection(t, found)
    \/ DoPendingFunctors(t)
    \/ \E c \in Conns : RunEnableRead(t, c) \/ RunEstablish(t, c)
    \/ PassDone(t)

Next == MainNext \/ \E t \in Threads : LoopNext(t)

Spec == Init /\ [][Next]_vars

(* Fairness: a thread that can go on does, the scheduler being fair; but   *)
(* clients come, speak and close, and the server is destroyed, or not, as  *)
(* they please. poll() returns for a wakeup (EventLoop).                   *)
Fairness ==
    /\ WF_vars(Insert) /\ WF_vars(SetCallbacks) /\ WF_vars(QueueEstablished)
    /\ \A t \in Threads :
        /\ WF_vars(PushBegin(t)) /\ WF_vars(PushEnd(t))
        /\ WF_vars(pending[t] # <<>> /\ \E events \in SUBSET Events : Poll(t, events))
        /\ WF_vars(\E c \in Conns : HandleMessage(t, c) \/ HandleClose(t, c))
        /\ WF_vars(\E found \in BOOLEAN : RemoveConnection(t, found))
        /\ WF_vars(DoPendingFunctors(t))
        /\ WF_vars(\E c \in Conns : RunEnableRead(t, c) \/ RunEstablish(t, c))
        /\ WF_vars(PassDone(t))

FairSpec == Spec /\ Fairness

---------------------------------------------------------------------------
(* Properties.                                                             *)

(* A channel that is in a poller, or about to be put there through the     *)
(* bare pointer of enableReadInLoop(), belongs to a connection that        *)
(* somebody holds, on whatever threads its holders come and go.            *)
PolledIsAlive ==
    fault = "none" =>
        \A c \in Conns : c \in polled \/ Queued(<<"enableRead", c>>) => Alive(c)

(* Round-robin: whatever the order in which the threads came up, no loop   *)
(* has been given two connections more than another one.                   *)
Share(t) == Cardinality({c \in Conns : loopOf[c] = t})
RoundRobin ==
    Len(loops) = NumThreads => \A t, u \in ToSet(loops) : Share(t) <= Share(u) + 1

(* As long as no two threads have met inside connections_, a connection    *)
(* stays there until it is closed: the assert of removeConnectionInLoop()  *)
(* holds, none is destroyed while it is connected, and ~TcpServer() is safe*)
(* once all loops are up and all connections are gone: no thread comes back*)
(* to it later.                                                            *)
OnlyRacesLose ==
    fault \in {"eraseNone", "destroyedConnected", "serverGone"} => overlap \/ busy

(* Every connection that is accepted gets established, unless the program  *)
(* ends: also if the server is destroyed meanwhile.                        *)
AcceptedIsEstablished ==
    \A c \in Conns : loopOf[c] # None ~> (state[c] # "kConnecting" \/ fault # "none")

(* A connection whose peer has closed is given up by all that hold it: its *)
(* descriptor is closed, and accept(2) may use it again. (When threads have*)
(* met in connections_, an entry may be left there for good.)              *)
EndedIsReleased ==
    \A c \in Conns :
        <<c, "eof">> \in UNION {active[t] : t \in Threads}
            ~> (~Alive(c) \/ overlap \/ fault # "none")
=============================================================================
