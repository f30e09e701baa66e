-------------------------- MODULE TimerQueueProofs --------------------------
(***************************************************************************)
(* Proofs about TimerQueue, for any timers, delays and interval: a timer is*)
(* in one place, none runs early, one of runAt() or runAfter() runs once,  *)
(* and the timerfd is never armed for a timer that has gone.               *)
(***************************************************************************)
EXTENDS TimerQueue, QueueLemmas, FiniteSetTheorems

(* TypeOK without the bounds that only TLC needs; a timer's callback runs  *)
(* exactly while the loop is inside one.                                   *)
TimerTypes ==
    /\ heap \subseteq Timers /\ expired \subseteq Timers
    /\ due \in [Timers -> Int]
    /\ runs \in [Timers -> 0 .. 2]
    /\ adds \in Seq(Timers)
    /\ armed \in Nat \cup {Off}
    /\ IF pc = "tcb" THEN running \in Timers ELSE running = None

(* No timer is queued twice; what makes the queue as long as its range.    *)
NoRepeats(q) ==
    /\ \A i, j \in 1 .. Len(q) : q[i] = q[j] => i = j
    /\ IsFiniteSet(Range(q)) /\ Cardinality(Range(q)) = Len(q)

(* The inductive form of TimerInOnePlace.                                  *)
PlacesApart ==
    /\ heap \cap expired = {}
    /\ running \notin heap \cup expired
    /\ Range(adds) \cap (heap \cup expired \cup {running}) = {}
    /\ NoRepeats(adds)

(* A timer that is waiting to be run for the first time has not run.       *)
WaitingHasNotRun ==
    \A t \in Timers \ Repeated :
        t \in heap \cup expired \cup Range(adds) => runs[t] = 0

PlaceInv == TimerTypes /\ PlacesApart

---------------------------------------------------------------------------
(* Queues without repetition.                                              *)

(* A new element at the end of a queue without repetition.                 *)
LEMMA AppendNoRepeats ==
    ASSUME NEW S, NEW q \in Seq(S), NoRepeats(q), NEW e \in S, e \notin Range(q)
    PROVE  NoRepeats(Append(q, e)) /\ Range(Append(q, e)) = Range(q) \cup {e}
<1>1. /\ Len(Append(q, e)) = Len(q) + 1 /\ Len(q) \in Nat
      /\ \A i \in 1 .. Len(q) : Append(q, e)[i] = q[i]
      /\ Append(q, e)[Len(q) + 1] = e
  BY AppendProperties, LenProperties
<1>2. Range(Append(q, e)) = Range(q) \cup {e}
  BY RangeAppend
<1>3. IsFiniteSet(Range(q) \cup {e}) /\ Cardinality(Range(q) \cup {e}) = Len(q) + 1
  BY FS_AddElement DEF NoRepeats
<1>4. \A i \in 1 .. Len(q) : q[i] # e
  <2>1. Range(q) = {q[i] : i \in 1 .. Len(q)}
    BY RangeEquality, Zenon
  <2>2. QED
    BY <2>1
<1>5. \A i, j \in 1 .. Len(q) + 1 : Append(q, e)[i] = Append(q, e)[j] => i = j
  BY <1>1, <1>4 DEF NoRepeats
<1>6. QED
  BY <1>1, <1>2, <1>3, <1>5 DEF NoRepeats

(* Taking the head of a queue without repetition.                          *)
LEMMA TailNoRepeats ==
    ASSUME NEW S, NEW q \in Seq(S), NoRepeats(q), q # <<>>
    PROVE  /\ Head(q) \in S /\ Tail(q) \in Seq(S) /\ NoRepeats(Tail(q))
           /\ Range(Tail(q)) = Range(q) \ {Head(q)} /\ Head(q) \in Range(q)
<1>1. /\ Head(q) \in S /\ Tail(q) \in Seq(S) /\ Len(Tail(q)) = Len(q) - 1
      /\ \A i \in 1 .. Len(Tail(q)) : Tail(q)[i] = q[i + 1]
      /\ Head(q) = q[1] /\ Len(q) \in Nat \ {0}
  BY HeadTailProperties, EmptySeq
<1>2. Range(q) = {Head(q)} \cup Range(Tail(q))
  BY RangeHeadTail
<1>3. Head(q) \notin Range(Tail(q))
  <2>1. Range(Tail(q)) = {Tail(q)[i] : i \in 1 .. Len(Tail(q))}
    BY <1>1, RangeEquality, Zenon
  <2>2. QED
    BY <1>1, <2>1 DEF NoRepeats
<1>4. Range(Tail(q)) = Range(q) \ {Head(q)}
  BY <1>2, <1>3
<1>5. /\ IsFiniteSet(Range(q) \ {Head(q)})
      /\ Cardinality(Range(q) \ {Head(q)}) = Len(q) - 1
  BY <1>2, FS_RemoveElement DEF NoRepeats
<1>6. \A i, j \in 1 .. Len(Tail(q)) : Tail(q)[i] = Tail(q)[j] => i = j
  BY <1>1 DEF NoRepeats
<1>7. QED
  BY <1>1, <1>2, <1>4, <1>5, <1>6 DEF NoRepeats

---------------------------------------------------------------------------
(* Where the timers are.                                                   *)

(* timerfd_settime() leaves a time that can be told, or none.              *)
LEMMA SetTimeArms ==
    ASSUME armed \in Nat \cup {Off}, NEW t, NEW d \in Int, SetTime(t, d)
    PROVE  /\ armed' \in Nat \cup {Off}
           /\ armed' \in {armed, Off, d}
BY DEF SetTime, Off

(* Adding a timer on the loop's thread, or on another one.                 *)
LEMMA AddKeepsPlaces ==
    ASSUME PlaceInv, NEW t \in Timers, NEW d \in Delays, AddTimer(t, d) \/ AddTimerRemotely(t, d)
    PROVE  PlaceInv'
<1> USE DEF PlaceInv, TimerTypes, PlacesApart
<1>1. d \in Int /\ t \notin heap \cup expired \cup Range(adds) \cup {running}
  BY TimerAssumption DEF AddTimer, AddTimerRemotely, Unused
<1>2. CASE AddTimer(t, d)
  <2>1. armed' \in Nat \cup {Off}
    BY <1>1, <1>2, SetTimeArms DEF AddTimer
  <2>2. QED
    BY <1>1, <1>2, <2>1 DEF AddTimer
<1>3. CASE AddTimerRemotely(t, d)
  <2>1. NoRepeats(adds') /\ Range(adds') = Range(adds) \cup {t} /\ adds' \in Seq(Timers)
    BY <1>1, <1>3, AppendNoRepeats, AppendProperties DEF AddTimerRemotely
  <2>2. QED
    BY <1>1, <1>3, <2>1 DEF AddTimerRemotely
<1>4. QED
  BY <1>2, <1>3

(* Every step keeps the timers in one place each.                          *)
LEMMA StepKeepsPlaces ==
    ASSUME PlaceInv, Next
    PROVE  PlaceInv'
<1> USE DEF PlaceInv, TimerTypes, PlacesApart
<1>1. ASSUME NEW t \in Timers, NEW d \in Delays, AddTimer(t, d) \/ AddTimerRemotely(t, d)
      PROVE  PlaceInv'
  BY <1>1, AddKeepsPlaces
<1>2. CASE AddTimerInLoop
  <2>1. /\ Head(adds) \in Timers /\ Tail(adds) \in Seq(Timers) /\ NoRepeats(Tail(adds))
        /\ Range(Tail(adds)) = Range(adds) \ {Head(adds)} /\ Head(adds) \in Range(adds)
    BY <1>2, TailNoRepeats DEF AddTimerInLoop
  <2>2. armed' \in Nat \cup {Off}
    BY <1>2, <2>1, SetTimeArms DEF AddTimerInLoop
  <2>3. QED
    BY <1>2, <2>1, <2>2 DEF AddTimerInLoop
<1>3. CASE Poll \/ ResetReturn
  BY <1>3 DEF Poll, ResetReturn
<1>4. CASE TimerQueueCallBack
  BY <1>4 DEF TimerQueueCallBack, TakeExpired
<1>5. ASSUME NEW t \in Timers, RunTcb(t)
      PROVE  PlaceInv'
  BY <1>5 DEF RunTcb
<1>6. CASE TcbReturn
  <2>1. running \in Timers /\ None \notin Timers /\ Interval \in Nat \ {0}
    BY <1>6, TimerAssumption DEF TcbReturn, None
  <2>2. armed' \in Nat \cup {Off}
    BY <1>6, <2>1, SetTimeArms DEF TcbReturn
  <2>3. Range(adds') = Range(adds) /\ Range(adds) \subseteq Timers
    BY <1>6, RangeOfSeq DEF TcbReturn
  <2>4. QED
    BY <1>6, <2>1, <2>2, <2>3 DEF TcbReturn
<1>7. CASE Tick
  BY <1>7 DEF Tick, Older, Off
<1>8. QED
  BY <1>1, <1>2, <1>3, <1>4, <1>5, <1>6, <1>7 DEF Next

(* The inductive invariant of all the theorems below.                      *)
LEMMA PlaceInvHolds == Spec => []PlaceInv
<1>1. Init => PlaceInv
  <2> SUFFICES ASSUME Init PROVE PlaceInv
    OBVIOUS
  <2>1. Range(<<>>) = {} /\ Len(<<>>) = 0 /\ <<>> \in Seq(Timers)
    <3>1. <<>> \in Seq(Timers) /\ Len(<<>>) = 0
      BY EmptySeq
    <3>2. Range(<<>>) = {<<>>[i] : i \in 1 .. Len(<<>>)}
      BY <3>1, RangeEquality, Zenon
    <3>3. QED
      BY <3>1, <3>2
  <2>2. NoRepeats(<<>>)
    BY <2>1, FS_EmptySet DEF NoRepeats
  <2>3. QED
    BY <2>1, <2>2, TimerAssumption DEF Init, PlaceInv, TimerTypes, PlacesApart, None, Off
<1>2. PlaceInv /\ [Next]_vars => PlaceInv'
  <2>1. PlaceInv /\ UNCHANGED vars => PlaceInv'
    BY DEF vars, PlaceInv, TimerTypes, PlacesApart
  <2>2. QED
    BY <2>1, StepKeepsPlaces
<1>3. QED
  BY <1>1, <1>2, PTL DEF Spec

(* A timer is in one place, however many timers callbacks and other threads*)
(* add while others expire.                                                *)
THEOREM TimersStayApart == Spec => []TimerInOnePlace
<1>1. PlaceInv => TimerInOnePlace
  BY DEF PlaceInv, PlacesApart, NoRepeats, TimerInOnePlace
<1>2. QED
  BY <1>1, PlaceInvHolds, PTL

---------------------------------------------------------------------------
(* When they run.                                                          *)

(* No timer runs early, however the timerfd came to expire.                *)
THEOREM NoTimerRunsEarly == Spec => []NeverEarly
<1>1. Init => NeverEarly
  BY TimerAssumption DEF Init, NeverEarly, None
<1>2. PlaceInv /\ NeverEarly /\ [Next]_vars => NeverEarly'
  <2> SUFFICES ASSUME PlaceInv, NeverEarly, [Next]_vars PROVE NeverEarly'
    OBVIOUS
  <2> USE DEF PlaceInv, TimerTypes, PlacesApart, NeverEarly
  <2>1. CASE UNCHANGED <<expired, running, due>>
    BY <2>1
  <2>2. ASSUME NEW t \in Timers, NEW d \in Delays, AddTimer(t, d) \/ AddTimerRemotely(t, d)
        PROVE  NeverEarly'
    BY <2>2 DEF AddTimer, AddTimerRemotely, Unused
  <2>3. CASE TimerQueueCallBack
    BY <2>3 DEF TimerQueueCallBack, IsExpired
  <2>4. ASSUME NEW t \in Timers, RunTcb(t)
        PROVE  NeverEarly'
    BY <2>4 DEF RunTcb
  <2>5. CASE TcbReturn
    BY <2>5, TimerAssumption DEF TcbReturn, None
  <2>6. CASE Tick
    BY <2>6 DEF Tick, Older
  <2>7. QED
    BY <2>1, <2>2, <2>3, <2>4, <2>5, <2>6 DEF Next, AddTimerInLoop, Poll, ResetReturn, vars
<1>3. QED
  BY <1>1, <1>2, PlaceInvHolds, PTL DEF Spec

(* A timer of runAt() or runAfter() runs once, whatever else is added,     *)
(* expires or runs meanwhile.                                              *)
THEOREM OneShotsRunOnce == Spec => []OneShotRunsOnce
<1> DEFINE OnceInv == OneShotRunsOnce /\ WaitingHasNotRun
<1>1. Init => OnceInv
  BY DEF Init, OneShotRunsOnce, WaitingHasNotRun
<1>2. PlaceInv /\ OnceInv /\ [Next]_vars => OnceInv'
  <2> SUFFICES ASSUME PlaceInv, OneShotRunsOnce, WaitingHasNotRun, [Next]_vars
               PROVE  OneShotRunsOnce' /\ WaitingHasNotRun'
    OBVIOUS
  <2> USE DEF PlaceInv, TimerTypes, PlacesApart, OneShotRunsOnce, WaitingHasNotRun
  <2>1. CASE UNCHANGED <<heap, expired, adds, runs>>
    BY <2>1
  <2>2. ASSUME NEW t \in Timers, NEW d \in Delays, AddTimer(t, d) \/ AddTimerRemotely(t, d)
        PROVE  OneShotRunsOnce' /\ WaitingHasNotRun'
    <3>1. heap' \cup expired' \cup Range(adds') = heap \cup expired \cup Range(adds) \cup {t}
      <4>1. CASE AddTimer(t, d)
        BY <4>1 DEF AddTimer
      <4>2. CASE AddTimerRemotely(t, d)
        <5>1. Range(adds') = Range(adds) \cup {t}
          BY <4>2, RangeAppend DEF AddTimerRemotely
        <5>2. QED
          BY <4>2, <5>1 DEF AddTimerRemotely
      <4>3. QED
        BY <2>2, <4>1, <4>2
    <3>2. runs' = [runs EXCEPT ![t] = 0]
      BY <2>2 DEF AddTimer, AddTimerRemotely
    <3>3. QED
      BY <3>1, <3>2
  <2>3. CASE AddTimerInLoop
    <3>1. Head(adds) \in Range(adds) /\ Range(Tail(adds)) \subseteq Range(adds)
      BY <2>3, TailNoRepeats DEF AddTimerInLoop
    <3>2. QED
      BY <2>3, <3>1 DEF AddTimerInLoop
  <2>4. CASE TimerQueueCallBack
    BY <2>4 DEF TimerQueueCallBack, TakeExpired
  <2>5. ASSUME NEW t \in Timers, RunTcb(t)
        PROVE  OneShotRunsOnce' /\ WaitingHasNotRun'
    BY <2>5 DEF RunTcb
  <2>6. CASE TcbReturn
    BY <2>6 DEF TcbReturn, IsRepeated
  <2>7. QED
    BY <2>1, <2>2, <2>3, <2>4, <2>5, <2>6 DEF Next, Poll, ResetReturn, Tick, vars
<1>3. OnceInv => OneShotRunsOnce
  OBVIOUS
<1>4. QED
  BY <1>1, <1>2, <1>3, PlaceInvHolds, PTL DEF Spec

(* The timerfd never waits for a timer that has run or was never added.    *)
THEOREM NeverArmedForNobody == Spec => []ArmedForSomeTimer
<1>1. Init => ArmedForSomeTimer
  BY DEF Init, ArmedForSomeTimer
<1>2. PlaceInv /\ ArmedForSomeTimer /\ [Next]_vars => ArmedForSomeTimer'
  <2> SUFFICES ASSUME PlaceInv, ArmedForSomeTimer, [Next]_vars PROVE ArmedForSomeTimer'
    OBVIOUS
  <2> USE DEF PlaceInv, TimerTypes, PlacesApart, ArmedForSomeTimer
  <2>1. CASE UNCHANGED <<heap, due, armed>>
    BY <2>1
  <2>2. ASSUME NEW t \in Timers, NEW d \in Delays, AddTimer(t, d)
        PROVE  ArmedForSomeTimer'
    <3>1. d \in Int /\ t \notin heap
      BY <2>2, TimerAssumption DEF AddTimer, Unused
    <3>2. armed' \in {armed, Off, d}
      BY <2>2, <3>1, SetTimeArms DEF AddTimer
    <3>3. QED
      BY <2>2, <3>1, <3>2 DEF AddTimer
  <2>3. ASSUME NEW t \in Timers, NEW d \in Delays, AddTimerRemotely(t, d)
        PROVE  ArmedForSomeTimer'
    BY <2>3 DEF AddTimerRemotely, Unused
  <2>4. CASE AddTimerInLoop
    <3>1. Head(adds) \in Timers
      BY <2>4, TailNoRepeats DEF AddTimerInLoop
    <3>2. armed' \in {armed, Off, due[Head(adds)]}
      BY <2>4, <3>1, SetTimeArms DEF AddTimerInLoop
    <3>3. QED
      BY <2>4, <3>1, <3>2 DEF AddTimerInLoop
  <2>5. CASE TimerQueueCallBack
    BY <2>5 DEF TimerQueueCallBack, TakeExpired, IsExpired, Off
  <2>6. CASE TcbReturn
    <3>1. running \in Timers /\ running \notin heap /\ Interval \in Int
      BY <2>6, TimerAssumption DEF TcbReturn
    <3>2. CASE IsRepeated(running)
      <4>1. armed' \in {armed, Off, Interval}
        BY <2>6, <3>1, <3>2, SetTimeArms DEF TcbReturn
      <4>2. QED
        BY <2>6, <3>1, <3>2, <4>1 DEF TcbReturn
    <3>3. CASE ~IsRepeated(running)
      BY <2>6, <3>3 DEF TcbReturn
    <3>4. QED
      BY <3>2, <3>3
  <2>7. CASE Tick
    BY <2>7, TimerAssumption DEF Tick, Older, Off
  <2>8. QED
    BY <2>1, <2>2, <2>3, <2>4, <2>5, <2>6, <2>7 DEF Next, Poll, RunTcb, ResetReturn, vars
<1>3. QED
  BY <1>1, <1>2, PlaceInvHolds, PTL DEF Spec
=============================================================================
