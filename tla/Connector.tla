----------------------------- MODULE Connector -----------------------------
(***************************************************************************)
(* A TcpClient (net/wf_tcp_client.cc) and its Connector                    *)
(* (net/wf_connector.cc): the thread of their loop, and a user that calls  *)
(* connect(), stop(), disconnect() and the destructor, from that thread or *)
(* from another one. The TcpConnection is only "open" here, and the user's *)
(* other functors are left out.                                            *)
(*                                                                         *)
(* pc is where the loop's thread is: "init" in user code before loop(),    *)
(* "poll", "events" walking activeChannels_, "write" between the error and *)
(* the write callback of one handleEvent(), "onConnection" in the user's   *)
(* callback, "restart" between removeConnection()'s test and restart(),    *)
(* "start" in restart() before startInLoop(), "functors" in                *)
(* doPendingFunctors().                                                    *)
(* A call from another thread takes a step for each field it writes.       *)
(* The functors are bound to the bare pointer of the connector, the retry  *)
(* timers to one that counts; and TimerQueue never deletes a Timer, so that*)
(* the first retry keeps the connector for good (kept).                    *)
(* A failed assert, or a functor on a connector that was freed, ends the   *)
(* program; fault says where.                                              *)
(***************************************************************************)
EXTENDS Integers, Sequences, SequencesExt

CONSTANTS Scripts,    \* the sequences of calls the user may make
          InitDelay,  \* kInitRetryDelayMs
          MaxDelay    \* kMaxRetryDelayMs

ASSUME DelayAssumption ==
    /\ InitDelay \in Nat \ {0} /\ MaxDelay \in Nat
    /\ InitDelay <= MaxDelay

VARIABLES pc,
          script,         \* the calls still to be made
          call,           \* where the other thread is inside connect() or stop()
          stopped,        \* stop() has returned, and no connect() came after it
          clientConnect,  \* TcpClient::connect_
          retry,          \* TcpClient::retry_
          connect,        \* Connector::connect_
          state,          \* Connector::state_
          channel,        \* channel_: "none", "polled", or "removed" until its reset
          active,         \* what poll() reported and is not yet handled
          pending, batch, \* the loop's functors, those of the connector
          client,         \* the TcpClient: "alive"; "gone", or "abandoned" if it had
                          \* no connection when it was destroyed
          kept,           \* a Timer holds the connector
          timers,         \* retries scheduled with runAfter()
          delay,          \* retryDelayMs_
          open,           \* sockets the connector has opened and still owns
          conn,           \* connection_: "none" or "open"
          gaveUp,         \* connect(2) failed in a way that is not retried
          fault

userVars == <<script, call, stopped, clientConnect, retry, client>>
loopVars == <<pc, active, batch>>
attemptVars == <<state, channel, timers, kept, delay, open, gaveUp>>
vars == <<userVars, loopVars, attemptVars, connect, pending, conn, fault>>

UserCode == {"init", "onConnection"}
Calls == {"enableRetry", "connect", "stop", "disconnect", "destroy"}
Functors == {"startInLoop", "stopInLoop", "resetChannel", "destroy"}

TypeOK ==
    /\ pc \in UserCode \cup {"poll", "events", "write", "restart", "start",
                           "functors"}
    /\ client \in {"alive", "gone", "abandoned"} /\ kept \in BOOLEAN
    /\ script \in Seq(Calls)
    /\ call \in {"none", "connect", "stop", "startInLoop", "stopInLoop"}
    /\ stopped \in BOOLEAN
    /\ clientConnect \in BOOLEAN /\ retry \in BOOLEAN
    /\ connect \in BOOLEAN /\ gaveUp \in BOOLEAN
    /\ state \in {"kDisconnected", "kConnecting", "kConnected"}
    /\ channel \in {"none", "polled", "removed"}
    /\ active \subseteq {"timer", "conn", "err", "out"}
    /\ pending \in Seq(Functors) /\ batch \in Seq(Functors)
    /\ timers \in Nat /\ open \in Nat
    /\ delay \in InitDelay .. MaxDelay
    /\ conn \in {"none", "open"}
    /\ fault \in {"none", "startInLoop", "connecting", "handlewrite", "destructor", "freed"}

Init ==
    /\ pc = "init"
    /\ script \in Scripts
    /\ call = "none"
    /\ stopped = FALSE
    /\ clientConnect = TRUE
    /\ retry = FALSE
    /\ connect = FALSE
    /\ state = "kDisconnected"
    /\ channel = "none"
    /\ active = {}
    /\ pending = <<>> /\ batch = <<>>
    /\ client = "alive"
    /\ timers = 0 /\ kept = FALSE
    /\ delay = InitDelay
    /\ open = 0
    /\ conn = "none"
    /\ gaveUp = FALSE
    /\ fault = "none"

At(p) == fault = "none" /\ pc = p

---------------------------------------------------------------------------
(* The connector's own operations.                                         *)

NextDelay(d) == IF 2 * d < MaxDelay THEN 2 * d ELSE MaxDelay

(* A mutant of Retry: no new attempt is scheduled.                         *)
RetryNever(left) ==
    /\ open' = left /\ state' = "kDisconnected"
    /\ UNCHANGED <<timers, kept, delay>>

(* A mutant of Retry: the socket is not closed.                            *)
RetryUnclosed(left) ==
    /\ open' = open /\ state' = "kDisconnected"
    /\ IF connect' THEN timers' = timers + 1 /\ kept' = TRUE /\ delay' = NextDelay(delay)
                   ELSE UNCHANGED <<timers, kept, delay>>

(* retry(): the socket is closed, which leaves `left` of them open; a new  *)
(* attempt is scheduled unless the user has called stop().                 *)
Retry(left) ==
    /\ open' = left
    /\ state' = "kDisconnected"
    /\ IF connect'
       THEN timers' = timers + 1 /\ kept' = TRUE /\ delay' = NextDelay(delay)
       ELSE UNCHANGED <<timers, kept, delay>>

(* connecting(): the channel is made and polled.                           *)
Connecting ==
    /\ state' = "kConnecting"
    /\ open' = open + 1
    /\ IF channel = "none" THEN channel' = "polled" /\ UNCHANGED fault
                           ELSE fault' = "connecting" /\ UNCHANGED channel
    /\ UNCHANGED <<timers, kept, delay, gaveUp>>

Results == {"inProgress", "refused", "error"}

(* connect(): connect(2) is under way, or failed, for now or for good.     *)
Connect(result) ==
    \/ result = "inProgress" /\ Connecting
    \/ result = "refused" /\ Retry(open) /\ UNCHANGED <<channel, gaveUp, fault>>
    \/ result = "error" /\ gaveUp' = TRUE /\ UNCHANGED <<state, channel, timers, kept,
                                                         delay, open, fault>>

(* startInLoop() looks whether the user has called stop() meanwhile.       *)
MayStart == connect'

StartInLoop(result) ==
    \/ state # "kDisconnected" /\ fault' = "startInLoop" /\ UNCHANGED attemptVars
    \/ state = "kDisconnected" /\ MayStart /\ Connect(result)
    \/ state = "kDisconnected" /\ ~MayStart /\ UNCHANGED <<attemptVars, fault>>

(* A mutant of RemoveAndResetChannel: channel_ keeps its old value.        *)
RemoveOnly == channel' = "removed" /\ UNCHANGED pending

RemoveAndResetChannel ==
    /\ channel' = "removed"
    /\ pending' = Append(pending, "resetChannel")

(* A mutant of StillConnecting: the state is not looked at again.          *)
ConnectingAnyway == channel # "none"

(* The guard of stopInLoop(), handlewrite() and handleError().             *)
StillConnecting == state = "kConnecting"

---------------------------------------------------------------------------
(* poll() and the channels' callbacks.                                     *)

(* What poll() may report: a retry timer has expired, the peer has closed  *)
(* the connection, the connecting socket has failed or is writable.        *)
Reportable ==
    (IF timers > 0 THEN {"timer"} ELSE {})
    \cup (IF conn = "open" THEN {"conn"} ELSE {})
    \cup (IF channel = "polled" THEN {"err", "out"} ELSE {})

Poll(events) ==
    /\ At("poll")
    /\ events \subseteq Reportable
    /\ events # {} \/ pending # <<>>
    /\ active' = events
    /\ timers' = IF "timer" \in events THEN timers - 1 ELSE timers
    /\ pc' = "events"
    /\ UNCHANGED <<userVars, batch, state, channel, kept, delay, open, gaveUp, connect,
                   pending, conn, fault>>

(* The expired timer is startInLoop().                                     *)
HandleTimer(result) ==
    /\ At("events")
    /\ "timer" \in active
    /\ active' = active \ {"timer"}
    /\ UNCHANGED connect
    /\ StartInLoop(result)
    /\ UNCHANGED <<userVars, pc, batch, pending, conn>>

(* handleEvent() calls the error callback first, then the write callback.  *)
HandleError ==
    /\ At("events")
    /\ "err" \in active
    /\ active' = active \ {"err"}
    /\ pc' = IF "out" \in active THEN "write" ELSE "events"
    /\ UNCHANGED connect
    /\ IF StillConnecting
       THEN RemoveAndResetChannel /\ Retry(open - 1)
       ELSE UNCHANGED <<channel, pending, open, state, timers, kept, delay>>
    /\ UNCHANGED <<userVars, batch, gaveUp, conn, fault>>

(* A mutant of HandleConnected: stop() is not looked at.                   *)
ConnectedAnyway ==
    /\ state' = "kConnected" /\ open' = open - 1
    /\ conn' = "open" /\ pc' = "onConnection"
    /\ UNCHANGED <<timers, kept, delay>>

(* handlewrite() when the socket is connected: it goes to newConnection(), *)
(* or is closed if the user has called stop() meanwhile.                   *)
HandleConnected ==
    /\ state' = "kConnected"
    /\ open' = open - 1
    /\ IF connect THEN conn' = "open" /\ pc' = "onConnection"
                  ELSE UNCHANGED conn /\ pc' = "events"
    /\ UNCHANGED <<timers, kept, delay>>

HandleWrite(connected) ==
    /\ At("events") \/ At("write")
    /\ "out" \in active /\ "err" \notin active
    /\ active' = active \ {"out"}
    /\ UNCHANGED connect
    /\ \/ /\ StillConnecting
          /\ RemoveAndResetChannel
          /\ IF connected THEN HandleConnected
                          ELSE Retry(open - 1) /\ pc' = "events" /\ UNCHANGED conn
          /\ UNCHANGED fault
       \/ /\ ~StillConnecting
          /\ pc' = "events"
          /\ fault' = IF state = "kDisconnected" THEN "none" ELSE "handlewrite"
          /\ UNCHANGED <<channel, pending, open, state, timers, kept, delay, conn>>
    /\ UNCHANGED <<userVars, batch, gaveUp>>

(* removeConnection(): may end in restart(). ~TcpClient() puts another     *)
(* callback in its place, which does not.                                  *)
RemoveConnection ==
    /\ At("events")
    /\ "conn" \in active
    /\ active' = active \ {"conn"}
    /\ conn' = "none"
    /\ pc' = IF retry /\ clientConnect /\ client = "alive" THEN "restart" ELSE "events"
    /\ UNCHANGED <<userVars, batch, attemptVars, connect, pending, fault>>

(* A mutant of Restart: the state stays kConnected.                        *)
RestartConnected ==
    /\ At("restart")
    /\ delay' = InitDelay /\ connect' = TRUE /\ pc' = "start"
    /\ UNCHANGED <<userVars, active, batch, state, channel, timers, kept, open, gaveUp,
                   pending, conn, fault>>

Restart ==
    /\ At("restart")
    /\ state' = "kDisconnected"
    /\ delay' = InitDelay
    /\ connect' = TRUE
    /\ pc' = "start"
    /\ UNCHANGED <<userVars, active, batch, channel, timers, kept, open, gaveUp, pending,
                   conn, fault>>

StartAgain(result) ==
    /\ At("start")
    /\ UNCHANGED connect
    /\ StartInLoop(result)
    /\ pc' = "events"
    /\ UNCHANGED <<userVars, active, batch, pending, conn>>

---------------------------------------------------------------------------
(* doPendingFunctors().                                                    *)

DoPendingFunctors ==
    /\ At("events")
    /\ active = {}
    /\ pc' = "functors"
    /\ batch' = pending
    /\ pending' = <<>>
    /\ UNCHANGED <<userVars, active, attemptVars, connect, conn, fault>>

Running(f) ==
    /\ At("functors")
    /\ batch # <<>>
    /\ Head(batch) = f
    /\ batch' = Tail(batch)

(* ~Connector() has run.                                                   *)
Freed == client # "alive" /\ ~kept

RunFreed ==
    /\ Freed
    /\ \E f \in {"startInLoop", "stopInLoop", "resetChannel"} : Running(f)
    /\ fault' = "freed"
    /\ UNCHANGED <<userVars, pc, active, attemptVars, connect, pending, conn>>

RunStart(result) ==
    /\ ~Freed
    /\ Running("startInLoop")
    /\ UNCHANGED connect
    /\ StartInLoop(result)
    /\ UNCHANGED <<userVars, pc, active, pending, conn>>

RunStop ==
    /\ ~Freed
    /\ Running("stopInLoop")
    /\ UNCHANGED connect
    /\ IF StillConnecting
       THEN RemoveAndResetChannel /\ Retry(open - 1)
       ELSE UNCHANGED <<channel, pending, open, state, timers, kept, delay>>
    /\ UNCHANGED <<userVars, pc, active, gaveUp, conn, fault>>

RunResetChannel ==
    /\ ~Freed
    /\ Running("resetChannel")
    /\ channel' = "none"
    /\ UNCHANGED <<userVars, pc, active, state, timers, kept, delay, open, gaveUp, connect,
                   pending, conn, fault>>

(* A mutant of RunDestroy: stop() is not called.                           *)
DestroyUnstopped ==
    /\ Running("destroy")
    /\ client' = (IF conn = "open" THEN "gone" ELSE "abandoned")
    /\ fault' = IF ~kept /\ channel # "none" THEN "destructor" ELSE "none"
    /\ UNCHANGED <<script, call, stopped, clientConnect, retry, pc, active, attemptVars,
                   connect, pending, conn>>

(* A mutant of RunDestroy: stop() is called with a connection, too.        *)
DestroyAlwaysStops ==
    /\ Running("destroy")
    /\ client' = (IF conn = "open" THEN "gone" ELSE "abandoned")
    /\ connect' = FALSE
    /\ pending' = Append(pending, "stopInLoop")
    /\ fault' = IF ~kept /\ channel # "none" THEN "destructor" ELSE "none"
    /\ UNCHANGED <<script, call, stopped, clientConnect, retry, pc, active, attemptVars,
                   conn>>

(* ~TcpClient(), on the loop's thread: without a connection it calls       *)
(* stop(). Unless a Timer holds the connector, ~Connector() follows, and   *)
(* asserts that there is no channel.                                       *)
RunDestroy ==
    /\ Running("destroy")
    /\ IF conn = "open"
       THEN client' = "gone" /\ UNCHANGED <<connect, pending>>
       ELSE /\ client' = "abandoned"
            /\ connect' = FALSE
            /\ pending' = Append(pending, "stopInLoop")
    /\ fault' = IF ~kept /\ channel # "none" THEN "destructor" ELSE "none"
    /\ UNCHANGED <<script, call, stopped, clientConnect, retry, pc, active, attemptVars,
                   conn>>

PassDone ==
    /\ At("functors")
    /\ batch = <<>>
    /\ pc' = "poll"
    /\ UNCHANGED <<userVars, active, batch, attemptVars, connect, pending, conn, fault>>

---------------------------------------------------------------------------
(* The user, on the loop's thread: runInLoop() calls startInLoop() at once.*)

UserReturn ==
    /\ fault = "none" /\ pc \in UserCode
    /\ pc' = IF pc = "init" THEN "poll" ELSE "events"
    /\ UNCHANGED <<userVars, active, batch, attemptVars, connect, pending, conn, fault>>

MakesCall(c) ==
    /\ client = "alive"
    /\ call = "none"
    /\ script # <<>>
    /\ Head(script) = c
    /\ script' = Tail(script)

LoopConnect(result) ==
    /\ pc \in UserCode /\ fault = "none"
    /\ MakesCall("connect")
    /\ clientConnect' = TRUE
    /\ connect' = TRUE
    /\ stopped' = FALSE
    /\ StartInLoop(result)
    /\ UNCHANGED <<call, retry, client, loopVars, pending, conn>>

LoopStop ==
    /\ pc \in UserCode /\ fault = "none"
    /\ MakesCall("stop")
    /\ clientConnect' = FALSE
    /\ connect' = FALSE
    /\ stopped' = TRUE
    /\ pending' = Append(pending, "stopInLoop")
    /\ UNCHANGED <<call, retry, client, loopVars, attemptVars, conn, fault>>

(* ... and on another thread.                                              *)
CallConnectOrStop(c) ==
    /\ fault = "none"
    /\ c \in {"connect", "stop"}
    /\ MakesCall(c)
    /\ clientConnect' = (c = "connect")
    /\ stopped' = FALSE
    /\ call' = c
    /\ UNCHANGED <<retry, client, loopVars, attemptVars, connect, pending, conn, fault>>

SetConnect ==
    /\ fault = "none"
    /\ call \in {"connect", "stop"}
    /\ connect' = (call = "connect")
    /\ call' = IF call = "connect" THEN "startInLoop" ELSE "stopInLoop"
    /\ UNCHANGED <<script, stopped, clientConnect, retry, client, loopVars, attemptVars,
                   pending, conn, fault>>

Queue ==
    /\ fault = "none"
    /\ call \in {"startInLoop", "stopInLoop"}
    /\ pending' = Append(pending, call)
    /\ call' = "none"
    /\ stopped' = (call = "stopInLoop")
    /\ UNCHANGED <<script, clientConnect, retry, client, loopVars, attemptVars, connect,
                   conn, fault>>

(* disconnect() only shuts the connection down, if there is one; that may  *)
(* make the peer close it, which it may do at any time.                    *)
Disconnect ==
    /\ fault = "none"
    /\ MakesCall("disconnect")
    /\ clientConnect' = FALSE
    /\ UNCHANGED <<call, stopped, retry, client, loopVars, attemptVars, connect, pending,
                   conn, fault>>

EnableRetry ==
    /\ fault = "none"
    /\ MakesCall("enableRetry")
    /\ retry' = TRUE
    /\ UNCHANGED <<call, stopped, clientConnect, client, loopVars, attemptVars, connect,
                   pending, conn, fault>>

(* The user has the loop destroy the client.                               *)
QueueDestroy ==
    /\ fault = "none"
    /\ MakesCall("destroy")
    /\ pending' = Append(pending, "destroy")
    /\ UNCHANGED <<call, stopped, clientConnect, retry, client, loopVars, attemptVars,
                   connect, conn, fault>>

---------------------------------------------------------------------------
LoopNext ==
    \/ \E events \in SUBSET Reportable : Poll(events)
    \/ \E result \in Results : HandleTimer(result) \/ StartAgain(result) \/ RunStart(result)
    \/ HandleError \/ (\E connected \in BOOLEAN : HandleWrite(connected))
    \/ RemoveConnection \/ Restart
    \/ DoPendingFunctors \/ RunStop \/ RunResetChannel \/ RunDestroy \/ RunFreed
    \/ PassDone

UserNext ==
    \/ UserReturn
    \/ \E result \in Results : LoopConnect(result)
    \/ LoopStop
    \/ \E c \in Calls : CallConnectOrStop(c)
    \/ SetConnect \/ Queue
    \/ Disconnect \/ EnableRetry \/ QueueDestroy

Next == LoopNext \/ UserNext

Spec == Init /\ [][Next]_vars

(* Fairness: the loop's thread goes on (EventLoop), the user's code        *)
(* returns, a timer that is armed expires (TimerQueue), the kernel answers *)
(* a connection attempt, and an attempt that is made again and again       *)
(* succeeds at some time.                                                  *)
Fairness ==
    /\ WF_vars(UserReturn) /\ WF_vars(SetConnect) /\ WF_vars(Queue)
    /\ WF_vars(\E events \in SUBSET Reportable :
                   events \cap {"timer", "out"} # {} /\ Poll(events))
    /\ WF_vars(\E events \in SUBSET Reportable : pending # <<>> /\ Poll(events))
    /\ WF_vars(\E result \in Results : HandleTimer(result))
    /\ WF_vars(\E result \in Results : StartAgain(result) \/ RunStart(result))
    /\ SF_vars(StartAgain("inProgress") \/ RunStart("inProgress") \/ HandleTimer("inProgress"))
    /\ WF_vars(HandleError)
    /\ WF_vars(\E connected \in BOOLEAN : HandleWrite(connected))
    /\ SF_vars(Poll({"out"})) /\ SF_vars(StillConnecting /\ HandleWrite(TRUE))
    /\ WF_vars(Restart)
    /\ WF_vars(DoPendingFunctors) /\ WF_vars(RunStop) /\ WF_vars(RunResetChannel)
    /\ WF_vars(RunDestroy \/ RunFreed) /\ WF_vars(PassDone)

FairSpec == Spec /\ Fairness

---------------------------------------------------------------------------
(* Properties.                                                             *)

Queued(f) == f \in ToSet(pending) \cup ToSet(batch) \/ call = f

(* Everything that stands for an attempt to connect, or for its result.    *)
Attempts ==
    timers + (IF "timer" \in active THEN 1 ELSE 0)
    + (IF Queued("startInLoop") THEN 1 ELSE 0)
    + (IF state = "kConnecting" THEN 1 ELSE 0)
    + (IF conn = "open" \/ pc = "restart" THEN 1 ELSE 0)

(* One call of connect() is one attempt at a time: no callback, failure or *)
(* reconnection ever leaves two timers, or a timer next to a socket that   *)
(* is connecting or connected, even when poll() reports POLLERR and        *)
(* POLLOUT together.                                                       *)
OneAttempt == fault = "none" => Attempts <= 1

(* Every socket the connector opens is closed, or handed to a connection,  *)
(* before the next one: it owns one exactly while it is connecting, and    *)
(* that one is being polled.                                               *)
SocketOwned ==
    fault = "none" => /\ open = (IF state = "kConnecting" THEN 1 ELSE 0)
                      /\ channel = "polled" <=> state = "kConnecting"

(* Once stop() has returned no connection comes up, whatever attempt,      *)
(* timer or writable socket was on its way then. With enableRetry() this   *)
(* need not be so: removeConnection() tests TcpClient::connect_ before     *)
(* restart() sets Connector::connect_, and a stop() in between is lost.    *)
StopIsObeyed == [][stopped /\ ~retry /\ conn = "none" => conn' = "none"]_vars

(* The asserts of startInLoop(), connecting() and handlewrite() hold,      *)
(* whatever the user calls once. The one exception follows from such a     *)
(* lost stop(): stopInLoop() then schedules a retry, and if that expires   *)
(* before the queued resetChannel() runs, connecting() finds the channel.  *)
AssertsHold ==
    /\ fault \notin {"startInLoop", "handlewrite"}
    /\ fault = "connecting" => retry /\ ~clientConnect

(* connect() leads to a connection, through any number of failures, unless *)
(* the user stops it or destroys the client, connect(2) fails for good, or *)
(* the assert of the exception above ends the program.                     *)
ConnectionComesUp ==
    connect ~> (state = "kConnected" \/ ~connect \/ gaveUp \/ client # "alive"
                    \/ fault = "connecting")

(* What ~TcpClient() leaves behind is harmless if the connection is up, but*)
(* for the short time until the channel of its attempt is reset; and so it *)
(* is if an attempt has failed before, since a Timer then keeps the        *)
(* connector. (Otherwise at least the functor of its own stop() outlives   *)
(* the connector it is bound to.)                                          *)
DestroyIsSafe ==
    (client # "alive" /\ fault # "none") =>
        ~kept /\ (client = "abandoned" \/ Queued("resetChannel"))

(* An attempt that ~TcpClient() finds under way ends: its socket is closed,*)
(* its timer does not start another one, and no connection comes up whose  *)
(* callback would be the client's; unless the program ends first.          *)
AbandonedAttemptEnds ==
    client = "abandoned" ~> ([](timers = 0 /\ open = 0 /\ conn = "none") \/ fault # "none")

(* The assert of startInLoop(): an attempt starts from kDisconnected, also *)
(* when another thread calls connect() after the connection was closed.    *)
ClosedClientMayConnect ==
    ~(fault = "startInLoop" /\ pc = "functors" /\ state = "kConnected" /\ conn = "none")
=============================================================================
