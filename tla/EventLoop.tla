----------------------------- MODULE EventLoop -----------------------------
(***************************************************************************)
(* One EventLoop (net/wf_event_loop.cc): the thread that owns it, which    *)
(* runs loop(), and other threads that call queueInLoop() and quit().      *)
(*                                                                         *)
(* pc is where the owner thread stands:                                    *)
(*   idle      outside loop()           check    at while(!quit_)          *)
(*   poll      inside poller_->poll()   events   walking activeChannels_   *)
(*   handler   inside a channel's callback                                 *)
(*   functors  between two functors of doPendingFunctors()                 *)
(*   functor   inside one of them                                          *)
(*   gone      the loop is destroyed      late    ... and was woken then   *)
(* A call made by another thread is two steps, its store and its wakeup(), *)
(* so that the loop can run between them.                                  *)
(***************************************************************************)
EXTENDS Sequences, Functions

CONSTANTS Threads,         \* threads other than the owner
          Functors,        \* the callbacks, each handed over at most once
          IoChannels,      \* channels of sockets and of the timer
          WakeupChannel    \* wakeupChannle_, the channel of eventFd

ASSUME WakeupAssumption == WakeupChannel \notin IoChannels

VARIABLES pc,
          quit,      \* quit_
          active,    \* activeChannels_ still to be handled
          pending,   \* pendingFunctors_
          batch,     \* the functors doPendingFunctors() swapped out, not yet run
          calling,   \* callingPendingFunctors_
          eventFd,   \* the eventfd's counter is not zero
          call,      \* call[t]: the call thread t is in the middle of
          ran,       \* functors run so far, in order
          early      \* functors the owner queued outside loop() without a wakeup

vars == <<pc, quit, active, pending, batch, calling, eventFd, call, ran, early>>

PCs == {"idle", "check", "poll", "events", "handler", "functors", "functor", "gone", "late"}
Calls == {"none", "queueInLoop", "quit"}

TypeOK ==
    /\ pc \in PCs
    /\ quit \in BOOLEAN
    /\ active \subseteq IoChannels \cup {WakeupChannel}
    /\ pending \in Seq(Functors)
    /\ batch \in Seq(Functors)
    /\ calling \in BOOLEAN
    /\ eventFd \in BOOLEAN
    /\ call \in [Threads -> Calls]
    /\ ran \in Seq(Functors)
    /\ early \subseteq Functors

(* The constructor leaves callingPendingFunctors_ uninitialised and the    *)
(* owner may read it before the first pass writes it: either value. quit_  *)
(* is uninitialised too, but is written before it is read.                 *)
Init ==
    /\ pc = "idle"
    /\ quit = FALSE
    /\ active = {}
    /\ pending = <<>>
    /\ batch = <<>>
    /\ calling \in BOOLEAN
    /\ eventFd = FALSE
    /\ call = [t \in Threads |-> "none"]
    /\ ran = <<>>
    /\ early = {}

(* Each functor stands for one call of runInLoop() or queueInLoop().       *)
Fresh(f) == f \notin Range(pending) \cup Range(batch) \cup Range(ran)

(* A mutant of Enqueue: one vector, which the pass that is running walks.  *)
EnqueueToRunningPass(f) ==
    IF batch # <<>> THEN batch' = Append(batch, f) /\ UNCHANGED pending
                    ELSE pending' = Append(pending, f) /\ UNCHANGED batch

Enqueue(f) ==
    /\ pending' = Append(pending, f)
    /\ UNCHANGED batch

(* A mutant of OwnerMustWake: the owner thread never needs waking.         *)
OwnerNeverWakes == FALSE

(* callingPendingFunctors_, as queueInLoop() reads it on the owner thread. *)
OwnerMustWake == calling

---------------------------------------------------------------------------
(* The owner thread: loop(), poll(), doPendingFunctors().                  *)

Loop ==
    /\ pc = "idle"
    /\ pc' = "check"
    /\ quit' = FALSE
    /\ UNCHANGED <<active, pending, batch, calling, eventFd, call, ran, early>>

ExitLoop ==
    /\ pc = "check"
    /\ quit
    /\ pc' = "idle"
    /\ UNCHANGED <<quit, active, pending, batch, calling, eventFd, call, ran, early>>

EnterPoll ==
    /\ pc = "check"
    /\ ~quit
    /\ pc' = "poll"
    /\ active' = {}
    /\ UNCHANGED <<quit, pending, batch, calling, eventFd, call, ran, early>>

(* poll() returns with every readable descriptor: the eventfd whenever it  *)
(* is readable, and some of the sockets.                                   *)
PollReturn(io) ==
    /\ pc = "poll"
    /\ active' = io \cup (IF eventFd THEN {WakeupChannel} ELSE {})
    /\ active' # {}
    /\ pc' = "events"
    /\ UNCHANGED <<quit, pending, batch, calling, eventFd, call, ran, early>>

(* poll() returns empty-handed: kPollTimeMs went by, or a signal came.     *)
PollTimeout ==
    /\ pc = "poll"
    /\ ~eventFd
    /\ pc' = "events"
    /\ UNCHANGED <<quit, active, pending, batch, calling, eventFd, call, ran, early>>

(* handleRead() resets the counter, whatever number of wakeups it holds.   *)
HandleRead ==
    /\ pc = "events"
    /\ WakeupChannel \in active
    /\ active' = active \ {WakeupChannel}
    /\ eventFd' = FALSE
    /\ UNCHANGED <<pc, quit, pending, batch, calling, call, ran, early>>

HandleIo(ch) ==
    /\ pc = "events"
    /\ ch \in active
    /\ active' = active \ {ch}
    /\ pc' = "handler"
    /\ UNCHANGED <<quit, pending, batch, calling, eventFd, call, ran, early>>

HandlerReturn ==
    /\ pc = "handler"
    /\ pc' = "events"
    /\ UNCHANGED <<quit, active, pending, batch, calling, eventFd, call, ran, early>>

(* A mutant of DoPendingFunctors: the functors are copied, not swapped.    *)
CopyPendingFunctors ==
    /\ pc = "events" /\ active = {}
    /\ calling' = TRUE /\ batch' = pending /\ pc' = "functors"
    /\ UNCHANGED <<quit, active, pending, eventFd, call, ran, early>>

(* callingPendingFunctors_ is set before the swap; only the owner reads it,*)
(* so the two are one step.                                                *)
DoPendingFunctors ==
    /\ pc = "events"
    /\ active = {}
    /\ calling' = TRUE
    /\ batch' = pending
    /\ pending' = <<>>
    /\ pc' = "functors"
    /\ UNCHANGED <<quit, active, eventFd, call, ran, early>>

RunFunctor ==
    /\ pc = "functors"
    /\ batch # <<>>
    /\ ran' = Append(ran, Head(batch))
    /\ batch' = Tail(batch)
    /\ pc' = "functor"
    /\ UNCHANGED <<quit, active, pending, calling, eventFd, call, early>>

FunctorReturn ==
    /\ pc = "functor"
    /\ pc' = "functors"
    /\ UNCHANGED <<quit, active, pending, batch, calling, eventFd, call, ran, early>>

PendingDone ==
    /\ pc = "functors"
    /\ batch = <<>>
    /\ calling' = FALSE
    /\ pc' = "check"
    /\ UNCHANGED <<quit, active, pending, batch, eventFd, call, ran, early>>

---------------------------------------------------------------------------
(* What user code on the owner thread may call: before or after loop(), in *)
(* a channel's callback, in a functor.                                     *)

InUserCode == pc \in {"idle", "handler", "functor"}

OwnerRunInLoop(f) ==
    /\ InUserCode
    /\ Fresh(f)
    /\ ran' = Append(ran, f)
    /\ UNCHANGED <<pc, quit, active, pending, batch, calling, eventFd, call, early>>

OwnerQueueInLoop(f) ==
    /\ InUserCode
    /\ Fresh(f)
    /\ Enqueue(f)
    /\ eventFd' = (eventFd \/ OwnerMustWake)
    /\ early' = IF pc = "idle" /\ ~OwnerMustWake THEN early \cup {f} ELSE early
    /\ UNCHANGED <<pc, quit, active, calling, call, ran>>

OwnerQuit ==
    /\ InUserCode
    /\ quit' = TRUE
    /\ UNCHANGED <<pc, active, pending, batch, calling, eventFd, call, ran, early>>

(* ~EventLoop(): its owner has left loop(), so that the assert holds.      *)
Destroy ==
    /\ pc = "idle"
    /\ pc' = "gone"
    /\ UNCHANGED <<quit, active, pending, batch, calling, eventFd, call, ran, early>>

---------------------------------------------------------------------------
(* Other threads. runInLoop() is queueInLoop() for them. That nobody begins*)
(* a call on a loop that is gone is the users' duty.                       *)

Exists == pc \notin {"gone", "late"}

QueueInLoop(t, f) ==
    /\ Exists
    /\ call[t] = "none"
    /\ Fresh(f)
    /\ Enqueue(f)
    /\ call' = [call EXCEPT ![t] = "queueInLoop"]
    /\ UNCHANGED <<pc, quit, active, calling, eventFd, ran, early>>

(* A mutant of Quit: the loop is not woken.                                *)
QuitInSilence(t) ==
    /\ Exists /\ call[t] = "none" /\ quit' = TRUE
    /\ UNCHANGED <<pc, active, pending, batch, calling, eventFd, call, ran, early>>

Quit(t) ==
    /\ Exists
    /\ call[t] = "none"
    /\ quit' = TRUE
    /\ call' = [call EXCEPT ![t] = "quit"]
    /\ UNCHANGED <<pc, active, pending, batch, calling, eventFd, ran, early>>

(* A mutant of Wakeup: the write to the eventfd is lost.                   *)
WakeupLost(t) ==
    /\ Exists /\ call[t] # "none" /\ call' = [call EXCEPT ![t] = "none"]
    /\ UNCHANGED <<pc, quit, active, pending, batch, calling, eventFd, ran, early>>

Wakeup(t) ==
    /\ Exists
    /\ call[t] # "none"
    /\ eventFd' = TRUE
    /\ call' = [call EXCEPT ![t] = "none"]
    /\ UNCHANGED <<pc, quit, active, pending, batch, calling, ran, early>>

(* A thread that is in a call when the loop is destroyed, since its own    *)
(* quit() made the loop return for one, reads eventFd of a freed object.   *)
(* What follows is undefined; the model ends here.                         *)
LateWakeup(t) ==
    /\ pc = "gone"
    /\ call[t] # "none"
    /\ pc' = "late"
    /\ call' = [call EXCEPT ![t] = "none"]
    /\ UNCHANGED <<quit, active, pending, batch, calling, eventFd, ran, early>>

---------------------------------------------------------------------------
LoopCode ==
    \/ Loop \/ ExitLoop \/ EnterPoll
    \/ \E io \in SUBSET IoChannels : PollReturn(io)
    \/ PollTimeout
    \/ HandleRead
    \/ \E ch \in IoChannels : HandleIo(ch)
    \/ HandlerReturn
    \/ DoPendingFunctors \/ RunFunctor \/ FunctorReturn \/ PendingDone

OwnerCalls ==
    \/ \E f \in Functors : OwnerRunInLoop(f) \/ OwnerQueueInLoop(f)
    \/ OwnerQuit
    \/ Destroy

ThreadCalls ==
    \E t \in Threads :
        \/ \E f \in Functors : QueueInLoop(t, f)
        \/ Quit(t)
        \/ Wakeup(t) \/ LateWakeup(t)

Next == LoopCode \/ OwnerCalls \/ ThreadCalls

Spec == Init /\ [][Next]_vars

(***************************************************************************)
(* Fairness. A thread that is in the middle of wakeup() finishes it, the   *)
(* owner thread goes on with the code of loop(), callbacks and functors    *)
(* return, and poll() returns when the eventfd is readable. Nothing is     *)
(* assumed of poll()'s time-out, of the sockets, or of who calls what.     *)
(***************************************************************************)
Fairness ==
    /\ WF_vars(ExitLoop) /\ WF_vars(EnterPoll)
    /\ WF_vars(eventFd /\ \E io \in SUBSET IoChannels : PollReturn(io))
    /\ WF_vars(HandleRead)
    /\ WF_vars(\E ch \in IoChannels : HandleIo(ch))
    /\ WF_vars(HandlerReturn)
    /\ WF_vars(DoPendingFunctors)
    /\ WF_vars(RunFunctor) /\ WF_vars(FunctorReturn) /\ WF_vars(PendingDone)
    /\ \A t \in Threads : WF_vars(Wakeup(t))

FairSpec == Spec /\ Fairness

---------------------------------------------------------------------------
(* Properties.                                                             *)

(* A wakeup is on its way, or has already arrived.                         *)
Signalled == eventFd \/ \E t \in Threads : call[t] # "none"

(* No lost wakeup. When the owner is about to sleep in poll(), or sleeps   *)
(* there, with functors pending, the eventfd is readable or a thread is    *)
(* about to make it so; the exceptions are the functors the owner itself   *)
(* queued before loop(), which queueInLoop() announces to nobody. The race *)
(* is between queueInLoop(), doPendingFunctors()'s swap and handleRead().  *)
NoLostWakeup ==
    pc \in {"check", "poll"} /\ ~(Range(pending) \subseteq early) => Signalled

(* What it takes to prove NoLostWakeup: it holds wherever a pass over      *)
(* pendingFunctors_ is not already certain, and a functor always sees      *)
(* callingPendingFunctors_ set.                                            *)
NoLostWakeupInv ==
    /\ pc \in {"functors", "functor"} => calling
    /\ pc \notin {"events", "handler", "late"} /\ ~(Range(pending) \subseteq early)
           => Signalled

(* The vector swapped out and the vector behind it are one queue: every    *)
(* functor runs exactly once, and queued functors run in queueing order    *)
(* whichever threads queued them and wherever the loop stood.              *)
TQ == INSTANCE TaskQueue WITH Tasks <- Functors, queue <- batch \o pending
ImplementsTaskQueue == TQ!Spec

(* doPendingFunctors() runs what was pending when it started and nothing   *)
(* else: a functor that queues functors cannot keep poll() from running.   *)
PassIsBounded == [][batch # <<>> => batch' \in {batch, Tail(batch)}]_vars

HasLeft == pc = "idle" \/ ~Exists

(* A functor another thread queued, or the owner queued from inside the    *)
(* loop, runs without waiting for poll() to time out, unless the loop is   *)
(* left first.                                                             *)
QueuedFunctorRuns ==
    \A f \in Functors :
        f \in Range(pending) \ early ~> (f \in Range(ran) \/ HasLeft)

(* quit() during loop() makes loop() return, from whatever thread it comes *)
(* and without waiting for poll() to time out.                             *)
QuitLeavesLoop == quit ~> HasLeft
=============================================================================
