----------------------------- MODULE TimerQueue ----------------------------
(***************************************************************************)
(* TimerQueue (net/wf_timer_queue.cc, net/wf_timer.cc): runAt, runAfter    *)
(* and runEvery on top of one timerfd.                                     *)
(*                                                                         *)
(* Time is relative, so that behaviours are endless and states finite:     *)
(* due[t] is when_ minus now, in ticks, and Tick lowers it. A delay further*)
(* in the past than Late counts as Late. A timer is expired when due is    *)
(* negative, as lower_bound(now) has it, and the timerfd expires when its  *)
(* own remaining time falls below zero: it was armed after now was read,   *)
(* and is looked at after poll() returned, so later than when_.            *)
(***************************************************************************)
EXTENDS Integers, Sequences, FiniteSets, Functions

CONSTANTS Timers,      \* Timer objects; one that has run may be built anew
          Repeated,    \* those of runEvery()
          Interval,    \* interval_ of the repeated ones
          Delays,      \* when_ minus now at the call: past, present, future
          Late         \* how far in the past times are told apart

ASSUME TimerAssumption ==
    /\ Repeated \subseteq Timers /\ "none" \notin Timers
    /\ Interval \in Nat \ {0}
    /\ Delays \subseteq Int
    /\ Late \in Nat \ {0}

VARIABLES pc,        \* where the loop's thread is: "free", "firing" or "tcb"
          heap,      \* the timers in timerHeap_
          due,       \* due[t]: when_ - now
          expired,   \* expvec of timerQueueCallBack(), not yet run
          running,   \* the timer whose callback runs, or None
          armed,     \* remaining time of the timerfd, or Off
          readable,  \* the timerfd has expired and was not read
          active,    \* poll() reported the timerfd, its callback is to come
          adds,      \* addTimerInLoop functors queued by other threads
          owner,     \* the timer the timerfd was last armed for, or None
          runs       \* runs[t]: how often t has run since it was added (at most 2)

vars == <<pc, heap, due, expired, running, armed, readable, active, adds, owner, runs>>

None == "none"
Off == -1
MaxDue == CHOOSE m \in Delays \cup {Interval} : \A d \in Delays \cup {Interval} : d <= m

TypeOK ==
    /\ pc \in {"free", "firing", "tcb"}
    /\ heap \subseteq Timers
    /\ due \in [Timers -> -Late .. MaxDue]
    /\ expired \subseteq Timers
    /\ running \in Timers \cup {None}
    /\ armed \in 0 .. MaxDue \cup {Off}
    /\ readable \in BOOLEAN
    /\ active \in BOOLEAN
    /\ adds \in Seq(Timers)
    /\ owner \in Timers \cup {None}
    /\ runs \in [Timers -> 0 .. 2]

Init ==
    /\ pc = "free"
    /\ heap = {}
    /\ due = [t \in Timers |-> 0]
    /\ expired = {}
    /\ running = None
    /\ armed = Off
    /\ readable = FALSE
    /\ active = FALSE
    /\ adds = <<>>
    /\ owner = None
    /\ runs = [t \in Timers |-> 0]

(* The timer is not in use: a new Timer may be built at its place.         *)
Unused(t) == t \notin heap \cup expired \cup Range(adds) \cup {running}

Older(d) == IF d > -Late THEN d - 1 ELSE d

---------------------------------------------------------------------------
(* A mutant of SetTime: the delay is rounded down.                         *)
SetTimeRoundedDown(t, d) ==
    IF d > 0 THEN armed' = d - 1 /\ readable' = FALSE /\ owner' = t
             ELSE UNCHANGED <<armed, readable, owner>>

(* timerfd_settime(): a positive time replaces whatever was armed, zero    *)
(* disarms, a negative one is refused. Replacing drops an expiry that was  *)
(* not read.                                                               *)
SetTime(t, d) ==
    \/ /\ d > 0
       /\ armed' = d
       /\ readable' = FALSE
       /\ owner' = t
    \/ /\ d = 0
       /\ armed' = Off
       /\ readable' = FALSE
       /\ owner' = None
    \/ /\ d < 0
       /\ owner' = IF owner = t THEN None ELSE owner
       /\ UNCHANGED <<armed, readable>>

(* addTimer() on the loop's thread: runAt(), runAfter(), runEvery() from a *)
(* callback or a functor.                                                  *)
AddTimer(t, d) ==
    /\ pc \in {"free", "tcb"}
    /\ Unused(t)
    /\ SetTime(t, d)
    /\ heap' = heap \cup {t}
    /\ due' = [due EXCEPT ![t] = d]
    /\ runs' = [runs EXCEPT ![t] = 0]
    /\ UNCHANGED <<pc, expired, running, active, adds>>

(* addTimer() on another thread: when_ is fixed now, the rest is queued.   *)
AddTimerRemotely(t, d) ==
    /\ Unused(t)
    /\ adds' = Append(adds, t)
    /\ due' = [due EXCEPT ![t] = d]
    /\ runs' = [runs EXCEPT ![t] = 0]
    /\ UNCHANGED <<pc, heap, expired, running, armed, readable, active, owner>>

AddTimerInLoop ==
    /\ pc = "free"
    /\ adds # <<>>
    /\ LET t == Head(adds) IN
        /\ SetTime(t, due[t])
        /\ heap' = heap \cup {t}
    /\ adds' = Tail(adds)
    /\ UNCHANGED <<pc, due, expired, running, active, runs>>

---------------------------------------------------------------------------
(* poll() returns with the timerfd among the active channels.              *)
Poll ==
    /\ pc = "free"
    /\ readable
    /\ ~active
    /\ active' = TRUE
    /\ UNCHANGED <<pc, heap, due, expired, running, armed, readable, adds, owner, runs>>

(* A mutant of IsExpired: whatever is in the heap is taken for expired.    *)
AnyIsExpired(t) == TRUE

(* Before lower_bound(now): when_ < now, strictly.                         *)
IsExpired(t) == due[t] < 0

(* A mutant of TakeExpired: the expired timers stay in the heap.           *)
LeaveExpired == UNCHANGED heap

(* erase() of what was copied to expvec.                                   *)
TakeExpired == heap' = {t \in heap : ~IsExpired(t)}

(* timerQueueCallBack() up to reset().                                     *)
TimerQueueCallBack ==
    /\ pc = "free"
    /\ active
    /\ active' = FALSE
    /\ readable' = FALSE
    /\ expired' = {t \in heap : IsExpired(t)}
    /\ TakeExpired
    /\ pc' = "firing"
    /\ UNCHANGED <<due, running, armed, adds, owner, runs>>

(* reset(): the callbacks run in the order of when_.                       *)
RunTcb(t) ==
    /\ pc = "firing"
    /\ t \in expired
    /\ \A u \in expired : due[t] <= due[u]
    /\ expired' = expired \ {t}
    /\ running' = t
    /\ runs' = [runs EXCEPT ![t] = IF @ = 2 THEN 2 ELSE @ + 1]
    /\ pc' = "tcb"
    /\ UNCHANGED <<heap, due, armed, readable, active, adds, owner>>

(* A mutant of IsRepeated: interval_ is not looked at.                     *)
AlwaysRepeated(t) == TRUE

(* repeated(): the timer was built with a positive interval.               *)
IsRepeated(t) == t \in Repeated

(* The callback returns; a repeated timer is added again, Interval after   *)
(* now, and the timerfd armed for it.                                      *)
TcbReturn ==
    /\ pc = "tcb"
    /\ pc' = "firing"
    /\ running' = None
    /\ IF IsRepeated(running)
       THEN /\ due' = [due EXCEPT ![running] = Interval]
            /\ heap' = heap \cup {running}
            /\ SetTime(running, Interval)
       ELSE UNCHANGED <<due, heap, armed, readable, owner>>
    /\ UNCHANGED <<expired, active, adds, runs>>

ResetReturn ==
    /\ pc = "firing"
    /\ expired = {}
    /\ pc' = "free"
    /\ UNCHANGED <<heap, due, expired, running, armed, readable, active, adds, owner, runs>>

---------------------------------------------------------------------------
(* Time passes, at any point of the loop.                                  *)
Tick ==
    /\ due' = [t \in Timers |-> Older(due[t])]
    /\ armed' = IF armed = Off THEN Off ELSE armed - 1
    /\ readable' = (readable \/ armed = 0)
    /\ UNCHANGED <<pc, heap, expired, running, active, adds, owner, runs>>

Next ==
    \/ \E t \in Timers, d \in Delays : AddTimer(t, d) \/ AddTimerRemotely(t, d)
    \/ AddTimerInLoop
    \/ Poll
    \/ TimerQueueCallBack
    \/ \E t \in Timers : RunTcb(t)
    \/ TcbReturn
    \/ ResetReturn
    \/ Tick

Spec == Init /\ [][Next]_vars

(* Time passes, and the loop goes on: queued functors are run, poll()      *)
(* returns when the timerfd is readable, callbacks return. Nobody has to   *)
(* add a timer.                                                            *)
Fairness ==
    /\ WF_vars(Tick)
    /\ WF_vars(AddTimerInLoop)
    /\ WF_vars(Poll)
    /\ WF_vars(TimerQueueCallBack)
    /\ WF_vars(\E t \in Timers : RunTcb(t))
    /\ WF_vars(TcbReturn)
    /\ WF_vars(ResetReturn)

FairSpec == Spec /\ Fairness

---------------------------------------------------------------------------
(* Properties.                                                             *)

(* A timer is in one place: in the heap, taken out to be run, running, or  *)
(* queued to be added. The erase in timerQueueCallBack() and the insert of *)
(* a repeated timer keep it so while callbacks add timers.                 *)
TimerInOnePlace ==
    /\ heap \cap expired = {}
    /\ running \notin heap \cup expired
    /\ Range(adds) \cap (heap \cup expired \cup {running}) = {}
    /\ Cardinality(Range(adds)) = Len(adds)

(* No timer runs before its time, whatever made the timerfd expire.        *)
NeverEarly == \A t \in expired \cup ({running} \cap Timers) : due[t] <= 0

(* A timer of runAt() or runAfter() runs at most once.                     *)
OneShotRunsOnce == \A t \in Timers \ Repeated : runs[t] <= 1

(* The timerfd is armed for the time of some timer in the heap, never for  *)
(* one that has gone.                                                      *)
ArmedForSomeTimer == armed # Off => \E t \in heap : due[t] = armed

(* The timer the timerfd was last armed for does run, unless the timerfd   *)
(* is set again for another one before that.                               *)
ArmedTimerRuns ==
    \A t \in Timers : (owner = t /\ t \in heap) ~> (t \notin heap \/ owner # t)

(* What event_loop.h says of runAt() and runAfter(): the timer runs.       *)
EveryTimerRuns == \A t \in Timers : (t \in heap) ~> (t \notin heap)
=============================================================================
