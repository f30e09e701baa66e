--------------------------- MODULE TcpConnection ---------------------------
(***************************************************************************)
(* One TcpConnection (net/wf_tcp_connection.cc) from connectEstablished()  *)
(* to connectDestroyed(), on the thread of its loop, with other threads    *)
(* that call send() and shutdown() on it. Its owner is a TcpServer, which  *)
(* destroys it inside the close callback, or a TcpClient, which queues     *)
(* that. Somebody holds a TcpConnectionPtr throughout.                     *)
(*                                                                         *)
(* pc is where the loop's thread is: "connect" before connectEstablished(),*)
(* "poll", "in" and "out" in Channel::handleEvent() before the read and the*)
(* write callback, "functors" in doPendingFunctors(), and three places of  *)
(* user code: "onConnection", "onMessage", "onWriteComplete".              *)
(* A message <<s, n>> is the n-th that s sends; it is MsgLen units long,   *)
(* and write(2) takes as many units as it likes. A failed assert or a      *)
(* SIGPIPE, which nobody ignores, ends the program: fault says which.      *)
(***************************************************************************)
EXTENDS Integers, Sequences, Functions

CONSTANTS Threads,      \* threads other than the loop's
          Owners,       \* what may own the connection: "server", "client"
          MaxSends,     \* bound on the messages of each sender
          MsgLen        \* units of a message

ASSUME ConnectionAssumption ==
    /\ Owners \subseteq {"server", "client"}
    /\ MaxSends \in Nat
    /\ MsgLen \in Nat \ {0}
    /\ "loop" \notin Threads

Senders == Threads \cup {"loop"}
Messages == Senders \X (1 .. MaxSends)

VARIABLES pc,
          state,        \* state_
          writing,      \* POLLOUT in channel_'s events
          registered,   \* channel_ is in the poller
          owner,        \* whose connections_, or connection_, holds it, or "none"
          revents,      \* what poll() reported: [in |-> , out |-> ]
          pending,      \* pendingFunctors_ of the loop, as far as they are ours
          batch,        \* the functors swapped out of it, not yet run
          output,       \* outputBuffer_, in units
          wire,         \* units write(2) has taken
          finSent,      \* shutdown(SHUT_WR) was called
          sent,         \* sent[s]: messages s has passed to send()
          dropped,      \* messages sendInLoop() left behind
          call,         \* call[t]: where thread t is inside send() or shutdown()
          fault

loopVars == <<pc, revents, batch>>
dataVars == <<output, wire, finSent, dropped>>
connVars == <<state, writing, registered, owner>>
threadVars == <<sent, call>>
vars == <<loopVars, dataVars, connVars, threadVars, pending, fault>>

UserCode == {"onConnection", "onMessage", "onWriteComplete"}
NoEvents == [in |-> "none", out |-> FALSE]
Units == Messages \X (1 .. MsgLen)
Functors == {<<"send", m>> : m \in Messages} \cup {<<"shutdown">>, <<"destroy">>, <<"complete">>}
Faults == {"none", "badState", "notRegistered", "sigpipe"}

TypeOK ==
    /\ pc \in {"connect", "poll", "in", "out", "functors"} \cup UserCode
    /\ state \in {"kConnecting", "kConnected", "kDisconnecting", "kDisconnected"}
    /\ writing \in BOOLEAN /\ registered \in BOOLEAN
    /\ owner \in Owners \cup {"none"}
    /\ revents \in [in : {"none", "data", "eof"}, out : BOOLEAN]
    /\ pending \in Seq(Functors) /\ batch \in Seq(Functors)
    /\ output \in Seq(Units) /\ wire \in Seq(Units)
    /\ finSent \in BOOLEAN
    /\ sent \in [Senders -> 0 .. MaxSends]
    /\ dropped \subseteq Messages
    /\ call \in [Threads -> {"none", "send", "shutdown", "queueShutdown"}]
    /\ fault \in Faults

(* The constructor and its owner have run: the channel reads, the callbacks*)
(* are set, connectEstablished() is next.                                  *)
Init ==
    /\ pc = "connect"
    /\ state = "kConnecting"
    /\ writing = FALSE
    /\ registered = TRUE
    /\ owner \in Owners
    /\ revents = NoEvents
    /\ pending = <<>> /\ batch = <<>>
    /\ output = <<>> /\ wire = <<>>
    /\ finSent = FALSE
    /\ sent = [s \in Senders |-> 0]
    /\ dropped = {}
    /\ call = [t \in Threads |-> "none"]
    /\ fault = "none"

UnitsOf(m) == [i \in 1 .. MsgLen |-> <<m, i>>]

(* The program ends here.                                                  *)
Fail(f) ==
    /\ fault' = f
    /\ UNCHANGED <<loopVars, dataVars, connVars, threadVars, pending>>

---------------------------------------------------------------------------

At(p) == fault = "none" /\ pc = p
InUserCode == fault = "none" /\ pc \in UserCode
InCall(t, c) == fault = "none" /\ call[t] = c

---------------------------------------------------------------------------
(* sendInLoop() and shutdownInLoop().                                      *)

(* A mutant of MayWriteAtOnce: what waits to be written is not looked at.  *)
WriteAlways == TRUE

(* Nothing is waiting: the message may go straight to write(2).            *)
MayWriteAtOnce == ~writing /\ output = <<>>

(* A mutant of Remainder: the part write(2) took is buffered as well.      *)
WholeMessage(m, n) == UnitsOf(m)

(* What write(2) did not take of the message.                              *)
Remainder(m, n) == SubSeq(UnitsOf(m), n + 1, MsgLen)

(* write(2) takes n units, or fails (n = -1). A message that cannot be     *)
(* written at once is left behind, and so is one that meets an error or    *)
(* EWOULDBLOCK. After SHUT_WR, write(2) raises SIGPIPE.                    *)
SendInLoop(m, n) ==
    \/ /\ ~MayWriteAtOnce
       /\ dropped' = dropped \cup {m}
       /\ UNCHANGED <<output, wire, finSent, writing, pending, fault>>
    \/ /\ MayWriteAtOnce /\ finSent
       /\ fault' = "sigpipe"
       /\ UNCHANGED <<dataVars, writing, pending>>
    \/ /\ MayWriteAtOnce /\ ~finSent /\ n = -1
       /\ UNCHANGED <<dataVars, writing, pending, fault>>
    \/ /\ MayWriteAtOnce /\ ~finSent /\ n \in 1 .. MsgLen
       /\ wire' = wire \o SubSeq(UnitsOf(m), 1, n)
       /\ output' = output \o Remainder(m, n)
       /\ writing' = (n < MsgLen)
       /\ pending' = IF n < MsgLen THEN pending ELSE Append(pending, <<"complete">>)
       /\ fault' = IF n < MsgLen /\ ~registered THEN "notRegistered" ELSE "none"
       /\ UNCHANGED <<finSent, dropped>>

(* A mutant of ShutdownInLoop: SHUT_WR without waiting for the output.     *)
ShutdownAtOnce == finSent' = TRUE

ShutdownInLoop == finSent' = (finSent \/ ~writing)

---------------------------------------------------------------------------
(* The loop's thread: establishment, poll(), handleEvent().                *)

ConnectEstablished ==
    /\ At("connect")
    /\ state' = "kConnected"
    /\ pc' = "onConnection"
    /\ UNCHANGED <<revents, batch, dataVars, writing, registered, owner, threadVars, pending, fault>>

(* poll() returns: data or the end of the peer's stream, room to write if  *)
(* that was asked for, or a wakeup alone.                                  *)
Poll(in, out) ==
    /\ At("poll")
    /\ in # "none" \/ out => registered
    /\ out => writing
    /\ in # "none" \/ out \/ pending # <<>>
    /\ revents' = [in |-> in, out |-> out]
    /\ pc' = "in"
    /\ UNCHANGED <<batch, dataVars, connVars, threadVars, pending, fault>>

(* No input, or handleRead() with bytes: the message callback runs.        *)
HandleRead ==
    /\ At("in")
    /\ revents.in # "eof"
    /\ pc' = IF revents.in = "data" THEN "onMessage" ELSE "out"
    /\ UNCHANGED <<revents, batch, dataVars, connVars, threadVars, pending, fault>>

(* A mutant of Unregister: the channel stays in the poller.                *)
StayRegistered == UNCHANGED registered

Unregister == registered' = FALSE

(* connectDestroyed(), up to its asserts.                                  *)
Destroy ==
    /\ state' = "kDisconnected"
    /\ Unregister

MayDestroy == state \in {"kConnected", "kDisconnecting"}

(* handleRead() at the end of the stream, handleClose() and the owner's    *)
(* closeCallback_: TcpServer::removeConnection() destroys the connection   *)
(* there and then, TcpClient::removeConnection() queues that. The rest of  *)
(* handleEvent() is still to come.                                         *)
HandleClose ==
    /\ At("in")
    /\ revents.in = "eof"
    /\ IF ~MayDestroy \/ owner = "none"
       THEN Fail("badState")
       ELSE /\ owner' = "none"
            /\ IF owner = "server"
               THEN Destroy /\ UNCHANGED pending
               ELSE /\ pending' = Append(pending, <<"destroy">>)
                    /\ UNCHANGED <<state, registered>>
            /\ pc' = "out"
            /\ UNCHANGED <<revents, batch, dataVars, writing, threadVars, fault>>

(* A mutant of StillWriting: disableWriting() is forgotten.                *)
WritingForEver(n) == TRUE

StillWriting(n) == n < Len(output)

(* handleWrite() with n units taken by write(2), -1 for a failure. Once the*)
(* buffer is empty a shutdown() that had to wait is carried out.           *)
HandleWrite(n) ==
    /\ At("out")
    /\ revents.out /\ writing
    /\ \/ /\ n = -1
          /\ UNCHANGED <<wire, output, writing, pending, finSent, fault>>
       \/ /\ n \in 1 .. Len(output)
          /\ wire' = wire \o SubSeq(output, 1, n)
          /\ output' = SubSeq(output, n + 1, Len(output))
          /\ writing' = StillWriting(n)
          /\ IF n < Len(output)
             THEN UNCHANGED <<pending, finSent, fault>>
             ELSE /\ fault' = IF registered THEN "none" ELSE "notRegistered"
                  /\ pending' = Append(pending, <<"complete">>)
                  /\ finSent' = (finSent \/ state = "kDisconnecting")
    /\ revents' = NoEvents
    /\ UNCHANGED <<pc, batch, state, registered, owner, dropped, threadVars>>

(* handleEvent() is over; doPendingFunctors() swaps.                       *)
DoPendingFunctors ==
    /\ At("out")
    /\ ~(revents.out /\ writing)
    /\ pc' = "functors"
    /\ batch' = pending
    /\ pending' = <<>>
    /\ revents' = NoEvents
    /\ UNCHANGED <<dataVars, connVars, threadVars, fault>>

---------------------------------------------------------------------------
(* The functors.                                                           *)

Running(f) ==
    /\ At("functors")
    /\ batch # <<>>
    /\ Head(batch) = f
    /\ batch' = Tail(batch)

RunSend(m, n) ==
    /\ Running(<<"send", m>>)
    /\ SendInLoop(m, n)
    /\ UNCHANGED <<pc, revents, state, registered, owner, threadVars>>

RunShutdown ==
    /\ Running(<<"shutdown">>)
    /\ ShutdownInLoop
    /\ UNCHANGED <<pc, revents, output, wire, dropped, connVars, threadVars,
                   pending, fault>>

RunDestroy ==
    /\ Running(<<"destroy">>)
    /\ IF MayDestroy THEN Destroy /\ UNCHANGED fault
                     ELSE fault' = "badState" /\ UNCHANGED <<state, registered>>
    /\ UNCHANGED <<pc, revents, dataVars, writing, owner, pending, threadVars>>

RunWriteComplete ==
    /\ Running(<<"complete">>)
    /\ pc' = "onWriteComplete"
    /\ UNCHANGED <<revents, dataVars, connVars, threadVars, pending, fault>>

PassDone ==
    /\ At("functors")
    /\ batch = <<>>
    /\ pc' = "poll"
    /\ UNCHANGED <<revents, batch, dataVars, connVars, threadVars, pending, fault>>

---------------------------------------------------------------------------
(* User code on the loop's thread.                                         *)

(* connectEstablished() ran as a functor; a message callback goes on with  *)
(* handleEvent().                                                          *)
CallbackReturn ==
    /\ InUserCode
    /\ pc' = IF pc = "onMessage" THEN "out" ELSE "functors"
    /\ UNCHANGED <<revents, batch, dataVars, connVars, threadVars, pending, fault>>

LoopSend(n) ==
    /\ InUserCode
    /\ state = "kConnected"
    /\ sent["loop"] < MaxSends
    /\ sent' = [sent EXCEPT !["loop"] = @ + 1]
    /\ SendInLoop(<<"loop", sent'["loop"]>>, n)
    /\ UNCHANGED <<loopVars, state, registered, owner, call>>

LoopShutdown ==
    /\ InUserCode
    /\ state = "kConnected"
    /\ state' = "kDisconnecting"
    /\ ShutdownInLoop
    /\ UNCHANGED <<loopVars, output, wire, dropped, writing, registered, owner, threadVars,
                   pending, fault>>

---------------------------------------------------------------------------
(* Other threads. state_ is read, and written, without a lock.             *)

Enqueue(f) == pending' = Append(pending, f)

CallSend(t) ==
    /\ InCall(t, "none")
    /\ sent[t] < MaxSends
    /\ state = "kConnected"
    /\ call' = [call EXCEPT ![t] = "send"]
    /\ sent' = [sent EXCEPT ![t] = @ + 1]
    /\ UNCHANGED <<loopVars, dataVars, connVars, pending, fault>>

(* A mutant of QueueSend: the message jumps the queue.                     *)
QueueSendFirst(t) ==
    /\ InCall(t, "send")
    /\ pending' = <<<<"send", <<t, sent[t]>>>>>> \o pending
    /\ call' = [call EXCEPT ![t] = "none"]
    /\ UNCHANGED <<loopVars, dataVars, connVars, sent, fault>>

QueueSend(t) ==
    /\ InCall(t, "send")
    /\ Enqueue(<<"send", <<t, sent[t]>>>>)
    /\ call' = [call EXCEPT ![t] = "none"]
    /\ UNCHANGED <<loopVars, dataVars, connVars, sent, fault>>

CallShutdown(t) ==
    /\ InCall(t, "none")
    /\ state = "kConnected"
    /\ call' = [call EXCEPT ![t] = "shutdown"]
    /\ UNCHANGED <<loopVars, dataVars, connVars, pending, sent, fault>>

SetDisconnecting(t) ==
    /\ InCall(t, "shutdown")
    /\ state' = "kDisconnecting"
    /\ call' = [call EXCEPT ![t] = "queueShutdown"]
    /\ UNCHANGED <<loopVars, dataVars, writing, registered, owner, pending, sent, fault>>

(* A mutant of QueueShutdown: setState() is taken to be enough.            *)
ForgetShutdown(t) ==
    /\ InCall(t, "queueShutdown")
    /\ call' = [call EXCEPT ![t] = "none"]
    /\ UNCHANGED <<loopVars, dataVars, connVars, pending, sent, fault>>

QueueShutdown(t) ==
    /\ InCall(t, "queueShutdown")
    /\ Enqueue(<<"shutdown">>)
    /\ call' = [call EXCEPT ![t] = "none"]
    /\ UNCHANGED <<loopVars, dataVars, connVars, sent, fault>>

---------------------------------------------------------------------------
WriteResults == {-1} \cup 1 .. MsgLen

LoopNext ==
    \/ ConnectEstablished
    \/ \E in \in {"none", "data", "eof"}, out \in BOOLEAN : Poll(in, out)
    \/ HandleRead \/ HandleClose
    \/ \E n \in -1 .. Len(output) : HandleWrite(n)
    \/ DoPendingFunctors
    \/ \E m \in Messages, n \in WriteResults : RunSend(m, n)
    \/ RunShutdown \/ RunDestroy \/ RunWriteComplete \/ PassDone
    \/ CallbackReturn
    \/ \E n \in WriteResults : LoopSend(n)
    \/ LoopShutdown

ThreadNext ==
    \E t \in Threads :
        \/ CallSend(t) \/ QueueSend(t)
        \/ CallShutdown(t) \/ SetDisconnecting(t) \/ QueueShutdown(t)

Next == LoopNext \/ ThreadNext

Spec == Init /\ [][Next]_vars

(* Fairness: the loop's thread goes on, callbacks return, calls to send()  *)
(* and shutdown() finish, poll() returns for a wakeup (EventLoop), and the *)
(* peer keeps reading: a connection that waits for room gets POLLOUT and   *)
(* room again and again.                                                   *)
Fairness ==
    /\ WF_vars(ConnectEstablished)
    /\ WF_vars(\E in \in {"none", "data", "eof"} : Poll(in, FALSE))
    /\ SF_vars(\E in \in {"none", "data", "eof"} : Poll(in, TRUE))
    /\ WF_vars(HandleRead \/ HandleClose)
    /\ WF_vars(\E n \in -1 .. Len(output) : HandleWrite(n))
    /\ SF_vars(\E n \in 1 .. Len(output) : HandleWrite(n))
    /\ WF_vars(DoPendingFunctors)
    /\ WF_vars(\E m \in Messages, n \in WriteResults : RunSend(m, n))
    /\ WF_vars(RunShutdown \/ RunDestroy \/ RunWriteComplete \/ PassDone)
    /\ WF_vars(CallbackReturn)
    /\ \A t \in Threads :
        WF_vars(QueueSend(t) \/ SetDisconnecting(t) \/ QueueShutdown(t))

FairSpec == Spec /\ Fairness

---------------------------------------------------------------------------
(* Properties.                                                             *)

(* What reached the socket and what waits in outputBuffer_.                *)
Stream == wire \o output

(* The connection implements a MessageStream: a message written in part is *)
(* completed before another one starts, whichever of sendInLoop() and      *)
(* handleWrite() writes; the messages of one sender keep the order of its  *)
(* calls to send(), in a callback or on another thread, even when others   *)
(* are lost; and nothing is accepted once the FIN is out.                  *)
Abstract == INSTANCE MessageStream WITH stream <- Stream, finished <- finSent
ImplementsMessageStream == Abstract!Spec

(* POLLOUT is asked for exactly while there is output to write: otherwise  *)
(* output would sit in the buffer for ever, or poll() would spin.          *)
WritingWhileOutput == fault = "none" => (writing <=> output # <<>>)

(* shutdown() sends the FIN after everything that was accepted for         *)
(* sending, wherever the partial writes stood when it was called.          *)
FinAfterOutput == finSent => output = <<>>

(* The asserts of handleClose(), removeConnection() and connectDestroyed():*)
(* a connection is closed, and destroyed, once.                            *)
ClosedOnce == fault # "badState"

(* Once shutdown() has set kDisconnecting, the FIN goes out, unless the    *)
(* peer closes first or the program fails.                                 *)
ShutdownCompletes ==
    state = "kDisconnecting" ~> (finSent \/ ~registered \/ fault # "none")

(* "For sending data": a message passed to send() on a live connection is  *)
(* written or kept for writing.                                            *)
NothingDropped == dropped = {}
=============================================================================
