------------------------- MODULE RateLimiterProofs -------------------------
(***************************************************************************)
(* Proofs about RateLimiter, for any callers, bucket, limits and times: the*)
(* waits are bounded, a caller's reservations are spaced, and holder_ never*)
(* names a thread that is not between lock() and unlock().                 *)
(***************************************************************************)
EXTENDS RateLimiter, SequenceTheorems, TLAPS

Places == {"idle", "reserve", "tokens", "lock", "unlock", "release", "reserved", "wait"}
Calls == [pc : Places, n : Nat, now : Nat, read : Nat, tokens : Nat, timeToAct : Nat]
Reservations == [by : Callers, n : Nat, now : Nat, read : Nat, time : Nat]

(* TypeOK without the bounds that only TLC needs, and with the grants.     *)
RateTypes ==
    /\ clock \in Nat /\ interval \in Nat /\ last \in Nat
    /\ call \in [Callers -> Calls]
    /\ grants \in Seq(Reservations)

---------------------------------------------------------------------------
(* Types.                                                                  *)

(* What the assumption says of the constants, one by one.                  *)
LEMMA Constants ==
    Burst \in Nat /\ Start \in Nat /\ (\A i \in Intervals : i \in Nat) /\ "nobody" \notin Callers
BY RateAssumption

(* The bucket holds a time.                                                *)
LEMMA AdvanceIsTime ==
    ASSUME RateTypes, NEW t \in Nat
    PROVE  Advance(t) \in Nat /\ Advance(t) <= t - AtMost(last, t)
<1>1. Burst * interval \in Nat
  BY Constants DEF RateTypes
<1>2. Elapsed(t) \in Nat /\ Elapsed(t) = t - AtMost(last, t)
  BY DEF RateTypes, Elapsed, AtMost
<1>3. Advance(t) \in Nat /\ Advance(t) <= Elapsed(t)
  BY <1>1, <1>2 DEF Advance, AtMost
<1>4. QED
  BY <1>2, <1>3

(* A step of c that leaves the clock, last_ and the grants alone.          *)
Asks(c) ==
    \/ \E n \in 1 .. Burst + 1 : ReserveN(c, n)
    \/ ReadClock(c) \/ Lock(c) \/ TokensAt(c) \/ Unlock(c) \/ Release(c) \/ Refused(c)
    \/ Act(c)

Granted(c) == Unlimited(c) \/ Reserved(c)

(* What the Reservation of c says.                                         *)
NewGrant(c, time) == [by |-> c, n |-> call[c].n, now |-> call[c].now,
                      read |-> call[c].read, time |-> time]

(* The time to act of a Reservation lies within what its tokens take, and  *)
(* is as late as the tokens that are missing.                              *)
LEMMA GrantShape ==
    ASSUME RateTypes, NEW c \in Callers, Granted(c)
    PROVE  \E time \in Nat :
              /\ Grant(c, time)
              /\ grants' = Append(grants, NewGrant(c, time))
              /\ NewGrant(c, time) \in Reservations
              /\ call' = [call EXCEPT ![c] = [Idle EXCEPT !.pc = "wait", !.timeToAct = time]]
              /\ call[c].now <= time /\ time <= call[c].now + call[c].n * interval
              /\ interval > 0 =>
                    /\ call[c].pc = "reserved" /\ call[c].n <= Burst
                    /\ time >= call[c].now + call[c].n * interval - call[c].tokens
                    /\ last' = call[c].now
              /\ UNCHANGED <<clock, interval>>
<1>1. /\ call[c].n \in Nat /\ call[c].now \in Nat /\ call[c].read \in Nat /\ call[c].tokens \in Nat
      /\ interval \in Nat /\ Start \in Nat
  BY Constants DEF RateTypes, Calls
<1>2. call[c].n * interval \in Nat
  BY <1>1
<1>3. ASSUME NEW time \in Nat, Grant(c, time)
      PROVE  /\ grants' = Append(grants, NewGrant(c, time)) /\ NewGrant(c, time) \in Reservations
             /\ call' = [call EXCEPT ![c] = [Idle EXCEPT !.pc = "wait", !.timeToAct = time]]
  BY <1>1, <1>3 DEF Grant, NewGrant, Reservations
<1>4. CASE Unlimited(c)
  <2>1. interval = 0 /\ Grant(c, call[c].now) /\ UNCHANGED <<clock, interval>>
    BY <1>4 DEF Unlimited
  <2>2. call[c].now <= call[c].now + call[c].n * interval /\ ~(interval > 0)
    BY <1>1, <1>2, <2>1
  <2> DEFINE time == call[c].now
  <2>3. time \in Nat /\ Grant(c, time) /\ call[c].now <= time
    BY <1>1, <2>1
  <2>4. QED
    BY <1>3, <2>1, <2>2, <2>3
<1>5. CASE Reserved(c)
  <2> DEFINE missing == call[c].n * interval - call[c].tokens
             time == call[c].now + DurationFromTokens(missing)
  <2>1. /\ Grant(c, time) /\ UNCHANGED <<clock, interval>>
        /\ call[c].pc = "reserved" /\ call[c].n <= Burst /\ last' = call[c].now
    BY <1>5 DEF Reserved, WithinBurst, SetLast
  <2>2. /\ time \in Nat /\ call[c].now <= time
        /\ time <= call[c].now + call[c].n * interval
        /\ time >= call[c].now + call[c].n * interval - call[c].tokens
    BY <1>1, <1>2 DEF DurationFromTokens
  <2> HIDE DEF time
  <2>3. QED
    BY <1>3, <2>1, <2>2
<1>6. QED
  BY <1>4, <1>5 DEF Granted

(* Every step keeps the types.                                             *)
LEMMA StepKeepsTypes ==
    ASSUME RateTypes, Next
    PROVE  RateTypes'
<1>1. CASE Tick
  BY <1>1 DEF Tick, RateTypes
<1>2. ASSUME NEW c \in Callers, Asks(c)
      PROVE  RateTypes'
  <2>1. UNCHANGED <<clock, interval, last, grants>>
    BY <1>2 DEF Asks, ReserveN, ReadClock, Lock, TokensAt, Unlock, Release, Refused, Act
  <2>2. call' \in [Callers -> Calls]
    <3> USE DEF RateTypes, Calls, Places
    <3>1. ASSUME NEW n \in 1 .. Burst + 1, ReserveN(c, n)
          PROVE  call' \in [Callers -> Calls]
      <4>1. n \in Nat /\ clock \in Nat
        BY Constants
      <4>2. [Idle EXCEPT !.pc = "reserve", !.n = n, !.now = clock] \in Calls
        BY <4>1 DEF Idle
      <4>3. QED
        BY <3>1, <4>2 DEF ReserveN
    <3>2. CASE TokensAt(c)
      <4>1. Advance(call[c].read) \in Nat
        BY AdvanceIsTime
      <4>2. call' = [call EXCEPT ![c] = [call[c] EXCEPT !.tokens = Advance(call[c].read), !.pc = "unlock"]]
        BY <3>2 DEF TokensAt
      <4>3. [call[c] EXCEPT !.tokens = Advance(call[c].read), !.pc = "unlock"] \in Calls
        BY <4>1
      <4>4. QED
        BY <4>2, <4>3
    <3>3. CASE ReadClock(c) \/ Lock(c) \/ Unlock(c) \/ Release(c)
      <4>1. CASE ReadClock(c)
        <5>1. call' = [call EXCEPT ![c] = [call[c] EXCEPT !.read = clock, !.pc = "tokens"]]
          BY <4>1 DEF ReadClock
        <5>2. [call[c] EXCEPT !.read = clock, !.pc = "tokens"] \in Calls
          OBVIOUS
        <5>3. QED
          BY <5>1, <5>2
      <4>2. CASE Lock(c) \/ Unlock(c) \/ Release(c)
        <5>1. PICK p \in Places : call' = [call EXCEPT ![c].pc = p]
          BY <4>2 DEF Lock, Unlock, Release
        <5>2. [call[c] EXCEPT !.pc = p] \in Calls
          OBVIOUS
        <5>3. QED
          BY <5>1, <5>2
      <4>3. QED
        BY <3>3, <4>1, <4>2
    <3>4. CASE Refused(c) \/ Act(c)
      BY <3>4 DEF Refused, Act, Idle
    <3>5. QED
      BY <1>2, <3>1, <3>2, <3>3, <3>4 DEF Asks
  <2>3. QED
    BY <2>1, <2>2 DEF RateTypes
<1>3. ASSUME NEW c \in Callers, Granted(c)
      PROVE  RateTypes'
  <2>1. PICK time \in Nat :
           /\ grants' = Append(grants, NewGrant(c, time)) /\ NewGrant(c, time) \in Reservations
           /\ call' = [call EXCEPT ![c] = [Idle EXCEPT !.pc = "wait", !.timeToAct = time]]
           /\ UNCHANGED <<clock, interval>>
    BY <1>3, GrantShape
  <2>2. grants' \in Seq(Reservations)
    BY <2>1, AppendProperties DEF RateTypes
  <2>3. call' \in [Callers -> Calls]
    BY <2>1 DEF RateTypes, Calls, Places, Idle
  <2>4. last' \in Nat
    BY <1>3 DEF Granted, Unlimited, Reserved, SetLast, RateTypes, Calls
  <2>5. QED
    BY <2>1, <2>2, <2>3, <2>4 DEF RateTypes
<1>4. QED
  BY <1>1, <1>2, <1>3 DEF Next, Asks, Granted

(* Times stay natural numbers, and calls and grants what they are.         *)
LEMMA TypesHold == Spec => []RateTypes
<1>1. Init => RateTypes
  BY Constants, EmptySeq DEF Init, RateTypes, Calls, Places, Idle
<1>2. RateTypes /\ UNCHANGED vars => RateTypes'
  BY DEF vars, RateTypes
<1>3. QED
  BY <1>1, <1>2, StepKeepsTypes, PTL DEF Spec

---------------------------------------------------------------------------
(* A grant is the last of the new sequence; the others stay.               *)
LEMMA AppendedGrant ==
    ASSUME RateTypes, NEW g \in Reservations, grants' = Append(grants, g)
    PROVE  /\ Len(grants') = Len(grants) + 1 /\ Len(grants) \in Nat
           /\ \A i \in 1 .. Len(grants) : grants'[i] = grants[i] /\ grants[i] \in Reservations
           /\ grants'[Len(grants) + 1] = g
BY AppendProperties, LenProperties, ElementOfSeq DEF RateTypes

---------------------------------------------------------------------------
(* Nobody waits for too long.                                              *)

(* However the calls interleave, the answer of a limiter lies between now  *)
(* and the time that the tokens asked for take.                            *)
THEOREM WaitsAreBounded == Spec => []WaitIsBounded
<1>1. Init => WaitIsBounded
  BY DEF Init, WaitIsBounded
<1>2. RateTypes /\ WaitIsBounded /\ [Next]_vars => WaitIsBounded'
  <2> SUFFICES ASSUME RateTypes, WaitIsBounded, [Next]_vars PROVE WaitIsBounded'
    OBVIOUS
  <2>1. CASE UNCHANGED <<grants, interval>>
    BY <2>1 DEF WaitIsBounded
  <2>2. ASSUME NEW c \in Callers, Granted(c)
        PROVE  WaitIsBounded'
    <3>1. PICK time \in Nat :
             /\ grants' = Append(grants, NewGrant(c, time)) /\ NewGrant(c, time) \in Reservations
             /\ call[c].now <= time /\ time <= call[c].now + call[c].n * interval
             /\ interval > 0 => call[c].n <= Burst
             /\ UNCHANGED interval
      BY <2>2, GrantShape
    <3>2. /\ Len(grants') = Len(grants) + 1 /\ Len(grants) \in Nat
          /\ \A i \in 1 .. Len(grants) : grants'[i] = grants[i]
          /\ grants'[Len(grants) + 1] = NewGrant(c, time)
      BY <3>1, AppendedGrant
    <3>3. /\ NewGrant(c, time).n = call[c].n /\ NewGrant(c, time).now = call[c].now
          /\ NewGrant(c, time).time = time
      BY DEF NewGrant
    <3>4. QED
      BY <3>1, <3>2, <3>3 DEF WaitIsBounded
  <2>3. QED
    BY <2>1, <2>2 DEF Next, Granted, Tick, ReserveN, ReadClock, Lock, TokensAt, Unlock,
                      Release, Refused, Act, vars
<1>3. QED
  BY <1>1, <1>2, TypesHold, PTL DEF Spec

---------------------------------------------------------------------------
(* holder_.                                                                *)

(* However threads lock and unlock, holder_ names one that is doing so.    *)
THEOREM OnlyLockersEverHold == Spec => []OnlyLockersHold
<1>1. Init => OnlyLockersHold
  BY DEF Init, InitLock, OnlyLockersHold
<1>2. RateTypes /\ OnlyLockersHold /\ [Next]_vars => OnlyLockersHold'
  <2> SUFFICES ASSUME RateTypes, OnlyLockersHold, [Next]_vars PROVE OnlyLockersHold'
    OBVIOUS
  <2> USE DEF OnlyLockersHold, isLockeddByThisThread
  <2>1. CASE UNCHANGED <<call, holder, used>>
    BY <2>1
  <2>2. ASSUME NEW c \in Callers,
               call[c].pc \notin {"lock", "unlock"}, UNCHANGED <<holder, used>>,
               \A d \in Callers \ {c} : call'[d] = call[d]
        PROVE  OnlyLockersHold'
    BY <2>2
  <2>3. ASSUME NEW c \in Callers, Lock(c)
        PROVE  OnlyLockersHold'
    BY <2>3 DEF Lock, LockBegin, RateTypes, Calls
  <2>4. ASSUME NEW c \in Callers, TokensAt(c)
        PROVE  OnlyLockersHold'
    BY <2>4 DEF TokensAt, LockEnd, RateTypes, Calls
  <2>5. ASSUME NEW c \in Callers, Unlock(c)
        PROVE  OnlyLockersHold'
    BY <2>5, Constants DEF Unlock, UnlockBegin, Nobody
  <2>6. ASSUME NEW c \in Callers,
               \/ \E n \in 1 .. Burst + 1 : ReserveN(c, n)
               \/ ReadClock(c) \/ Release(c) \/ Refused(c) \/ Granted(c) \/ Act(c)
        PROVE  OnlyLockersHold'
    <3>1. call[c].pc \notin {"lock", "unlock"} /\ UNCHANGED <<holder, used>>
      <4>1. ASSUME NEW n \in 1 .. Burst + 1, ReserveN(c, n)
            PROVE  call[c].pc = "idle" /\ UNCHANGED <<holder, used>>
        BY <4>1 DEF ReserveN, Idle, mutexVars
      <4>2. CASE ReadClock(c) \/ Release(c) \/ Refused(c) \/ Granted(c) \/ Act(c)
        BY <4>2 DEF ReadClock, Release, UnlockEnd, Refused, Granted, Unlimited, Reserved, Act, mutexVars
      <4>3. QED
        BY <2>6, <4>1, <4>2
    <3>2. \A d \in Callers \ {c} : call'[d] = call[d]
      BY <2>6 DEF ReserveN, ReadClock, Release, Refused, Granted, Unlimited, Reserved, Grant, Act,
                  RateTypes
    <3>3. QED
      BY <2>2, <3>1, <3>2
  <2>7. CASE Tick
    BY <2>1, <2>7 DEF Tick, mutexVars
  <2>8. QED
    BY <2>1, <2>3, <2>4, <2>5, <2>6, <2>7 DEF Next, Granted, vars, mutexVars
<1>3. QED
  BY <1>1, <1>2, TypesHold, PTL DEF Spec

---------------------------------------------------------------------------
(* A caller's reservations are spaced.                                     *)

Reserving == {"reserve", "tokens", "lock", "unlock", "release", "reserved"}
Computed == {"unlock", "release", "reserved"}

(* No grant is of a time to come, nor later than its caller's next call.   *)
GrantsFirst ==
    \A i \in 1 .. Len(grants) :
        /\ grants[i].now <= clock
        /\ \A c \in Callers :
            call[c].pc \in Reserving /\ grants[i].by = c => grants[i].now <= call[c].now

(* The two readings of the clock are in order.                             *)
ReadInOrder ==
    \A c \in Callers :
        /\ call[c].pc \in Reserving => call[c].now <= clock
        /\ call[c].pc \in Reserving \ {"reserve"} => call[c].now <= call[c].read

(* last_ is the time of the last grant, and a caller that had that grant   *)
(* finds no more in the bucket than has come in since.                     *)
TokensSinceLast ==
    interval > 0 /\ grants # <<>> =>
        /\ last = grants[Len(grants)].now
        /\ \A c \in Callers :
            call[c].pc \in Computed /\ grants[Len(grants)].by = c
                => call[c].tokens <= call[c].read - last

SpacingInv == GrantsFirst /\ ReadInOrder /\ TokensSinceLast

(* A step of a caller: the clock, the grants and last_ stay.               *)
LEMMA AsksKeepsSpacing ==
    ASSUME RateTypes, SpacingInv, NEW c \in Callers, Asks(c)
    PROVE  SpacingInv'
<1>1. /\ UNCHANGED <<clock, interval, last, grants>>
      /\ \A d \in Callers \ {c} : call'[d] = call[d]
  BY DEF Asks, ReserveN, ReadClock, Lock, TokensAt, Unlock, Release, Refused, Act, RateTypes
<1>2. /\ clock \in Nat /\ last \in Nat /\ interval \in Nat
      /\ call[c] \in Calls /\ call'[c] \in Calls
      /\ \A i \in 1 .. Len(grants) : grants[i] \in Reservations
  <2>1. RateTypes'
    BY StepKeepsTypes DEF Next, Asks
  <2>2. QED
    BY <2>1, ElementOfSeq DEF RateTypes
(* What becomes of c's own call.                                           *)
<1>3. \/ call'[c].pc = "reserve" /\ call'[c].now = clock
      \/ /\ call[c].pc \in Reserving /\ call'[c].pc \in Reserving /\ call'[c].now = call[c].now
         /\ \/ call'[c].read = clock
            \/ call[c].pc # "reserve" /\ call'[c].read = call[c].read
      \/ call'[c].pc = "idle"
  <2>1. ASSUME NEW n \in 1 .. Burst + 1, ReserveN(c, n)
        PROVE  call'[c].pc = "reserve" /\ call'[c].now = clock
    BY <2>1 DEF ReserveN, Idle, RateTypes
  <2>2. CASE ReadClock(c)
    BY <2>2 DEF ReadClock, RateTypes, Calls, Reserving
  <2>3. CASE Lock(c) \/ TokensAt(c) \/ Unlock(c) \/ Release(c)
    BY <2>3 DEF Lock, TokensAt, Unlock, Release, RateTypes, Calls, Reserving
  <2>4. CASE Refused(c) \/ Act(c)
    BY <2>4 DEF Refused, Act, Idle, RateTypes
  <2>5. QED
    BY <2>1, <2>2, <2>3, <2>4 DEF Asks
<1>4. call'[c].pc \in Computed =>
          \/ /\ call[c].pc \in Computed
             /\ call'[c].read = call[c].read /\ call'[c].tokens = call[c].tokens
          \/ /\ call[c].pc = "lock" /\ call'[c].read = call[c].read
             /\ call'[c].tokens <= call[c].read - AtMost(last, call[c].read)
  <2>1. CASE TokensAt(c)
    <3>1. call[c].read \in Nat
      BY <1>2 DEF Calls
    <3>2. /\ call'[c].tokens = Advance(call[c].read) /\ call'[c].read = call[c].read
          /\ call[c].pc = "lock"
      BY <2>1 DEF TokensAt, RateTypes, Calls
    <3>3. QED
      BY <3>1, <3>2, AdvanceIsTime
  <2>2. CASE Unlock(c) \/ Release(c)
    BY <2>2 DEF Unlock, Release, RateTypes, Calls, Computed
  <2>3. ASSUME ~TokensAt(c), ~Unlock(c), ~Release(c)
        PROVE  call'[c].pc \notin Computed
    <3>1. ASSUME NEW n \in 1 .. Burst + 1, ReserveN(c, n)
          PROVE  call'[c].pc = "reserve"
      BY <3>1 DEF ReserveN, Idle, RateTypes
    <3>2. CASE ReadClock(c) \/ Lock(c) \/ Refused(c) \/ Act(c)
      BY <3>2 DEF ReadClock, Lock, Refused, Act, Idle, RateTypes, Calls, Computed
    <3>3. QED
      BY <2>3, <3>1, <3>2 DEF Asks, Computed
  <2>4. QED
    BY <2>1, <2>2, <2>3
<1>5. GrantsFirst'
  <2>1. ASSUME NEW i \in 1 .. Len(grants), call'[c].pc \in Reserving, grants[i].by = c
        PROVE  grants[i].now <= call'[c].now
    BY <1>3, <2>1 DEF SpacingInv, GrantsFirst, Reserving
  <2>2. QED
    BY <1>1, <2>1 DEF SpacingInv, GrantsFirst
<1>6. ReadInOrder'
  <2>1. /\ call'[c].pc \in Reserving => call'[c].now <= clock
        /\ call'[c].pc \in Reserving \ {"reserve"} => call'[c].now <= call'[c].read
    <3>1. /\ call[c].pc \in Reserving => call[c].now <= clock
          /\ call[c].pc \in Reserving \ {"reserve"} => call[c].now <= call[c].read
          /\ "idle" \notin Reserving
      BY DEF SpacingInv, ReadInOrder, Reserving
    <3>2. QED
      BY <1>2, <1>3, <3>1
  <2>2. QED
    BY <1>1, <2>1 DEF SpacingInv, ReadInOrder
<1>7. TokensSinceLast'
  <2>1. ASSUME interval > 0, grants # <<>>, call'[c].pc \in Computed, grants[Len(grants)].by = c
        PROVE  call'[c].tokens <= call'[c].read - last
    <3>1. last = grants[Len(grants)].now /\ Len(grants) \in 1 .. Len(grants)
      <4>1. grants \in Seq(Reservations)
        BY DEF RateTypes
      <4>2. QED
        BY <2>1, <4>1, LenProperties, EmptySeq DEF SpacingInv, TokensSinceLast
    <3>2. CASE call[c].pc \in Computed /\ call'[c].read = call[c].read
                   /\ call'[c].tokens = call[c].tokens
      BY <2>1, <3>2 DEF SpacingInv, TokensSinceLast
    <3>3. CASE call[c].pc = "lock" /\ call'[c].read = call[c].read
                   /\ call'[c].tokens <= call[c].read - AtMost(last, call[c].read)
      <4>1. last <= call[c].now /\ call[c].now <= call[c].read
        BY <2>1, <3>1, <3>3 DEF SpacingInv, GrantsFirst, ReadInOrder, Reserving
      <4>2. call[c].now \in Nat /\ call[c].read \in Nat
        BY <1>2 DEF Calls
      <4>3. AtMost(last, call[c].read) = last
        BY <1>2, <4>1, <4>2 DEF AtMost
      <4>4. QED
        BY <3>3, <4>3
    <3>4. QED
      BY <1>4, <2>1, <3>2, <3>3
  <2>2. QED
    BY <1>1, <2>1 DEF SpacingInv, TokensSinceLast
<1>8. QED
  BY <1>5, <1>6, <1>7 DEF SpacingInv

(* A reservation that is granted.                                          *)
LEMMA GrantKeepsSpacing ==
    ASSUME RateTypes, SpacingInv, NEW c \in Callers, Granted(c)
    PROVE  SpacingInv'
<1>1. PICK time \in Nat :
          /\ grants' = Append(grants, NewGrant(c, time)) /\ NewGrant(c, time) \in Reservations
          /\ call' = [call EXCEPT ![c] = [Idle EXCEPT !.pc = "wait", !.timeToAct = time]]
          /\ interval > 0 => last' = call[c].now
          /\ UNCHANGED <<clock, interval>>
  BY GrantShape
<1>2. /\ Len(grants') = Len(grants) + 1 /\ Len(grants) \in Nat
      /\ \A i \in 1 .. Len(grants) : grants'[i] = grants[i]
      /\ grants'[Len(grants) + 1] = NewGrant(c, time)
  BY <1>1, AppendedGrant
<1>3. NewGrant(c, time).by = c /\ NewGrant(c, time).now = call[c].now
  BY DEF NewGrant
<1>4. call'[c].pc = "wait" /\ \A d \in Callers \ {c} : call'[d] = call[d]
  BY <1>1 DEF Idle, RateTypes
<1>5. "wait" \notin Reserving /\ "wait" \notin Computed
  BY DEF Reserving, Computed
<1>6. call[c].now <= clock
  BY DEF Granted, Unlimited, Reserved, Reserving, SpacingInv, ReadInOrder
<1>7. GrantsFirst'
  <2>1. ASSUME NEW i \in 1 .. Len(grants')
        PROVE  /\ grants'[i].now <= clock
               /\ \A d \in Callers : call'[d].pc \in Reserving /\ grants'[i].by = d
                                        => grants'[i].now <= call'[d].now
    <3>1. CASE i \in 1 .. Len(grants)
      BY <1>2, <1>4, <1>5, <3>1 DEF SpacingInv, GrantsFirst
    <3>2. CASE i = Len(grants) + 1
      BY <1>2, <1>3, <1>4, <1>5, <1>6, <3>2
    <3>3. QED
      BY <1>2, <3>1, <3>2
  <2>2. QED
    BY <1>1, <2>1 DEF GrantsFirst
<1>8. ReadInOrder'
  BY <1>1, <1>4, <1>5 DEF SpacingInv, ReadInOrder
<1>9. TokensSinceLast'
  BY <1>1, <1>2, <1>3, <1>4, <1>5 DEF TokensSinceLast
<1>10. QED
  BY <1>7, <1>8, <1>9 DEF SpacingInv

(* The inductive invariant behind ReservationsAlwaysSpaced.                *)
LEMMA SpacingInvHolds == Spec => []SpacingInv
<1>1. Init => SpacingInv
  <2> SUFFICES ASSUME Init PROVE SpacingInv
    OBVIOUS
  <2>1. Len(grants) = 0 /\ grants = <<>> /\ \A c \in Callers : call[c].pc = "idle"
    BY EmptySeq DEF Init, Idle
  <2>2. QED
    BY <2>1 DEF SpacingInv, GrantsFirst, ReadInOrder, TokensSinceLast, Reserving
<1>2. RateTypes /\ SpacingInv /\ [Next]_vars => SpacingInv'
  <2> SUFFICES ASSUME RateTypes, SpacingInv, [Next]_vars PROVE SpacingInv'
    OBVIOUS
  <2>1. CASE UNCHANGED vars
    BY <2>1 DEF vars, SpacingInv, GrantsFirst, ReadInOrder, TokensSinceLast
  <2>2. CASE Tick
    <3>1. clock' = clock + 1 /\ UNCHANGED <<interval, last, call, grants>>
      BY <2>2 DEF Tick
    <3>2. /\ clock \in Nat /\ \A c \in Callers : call[c].now \in Nat
          /\ \A i \in 1 .. Len(grants) : grants[i].now \in Nat
      <4>1. \A i \in 1 .. Len(grants) : grants[i] \in Reservations
        BY ElementOfSeq DEF RateTypes
      <4>2. QED
        BY <4>1 DEF RateTypes, Calls, Reservations
    <3>3. GrantsFirst'
      BY <3>1, <3>2 DEF SpacingInv, GrantsFirst
    <3>4. ReadInOrder'
      BY <3>1, <3>2 DEF SpacingInv, ReadInOrder
    <3>5. TokensSinceLast'
      BY <3>1 DEF SpacingInv, TokensSinceLast
    <3>6. QED
      BY <3>3, <3>4, <3>5 DEF SpacingInv
  <2>3. QED
    BY <2>1, <2>2, AsksKeepsSpacing, GrantKeepsSpacing DEF Next, Asks, Granted
<1>3. QED
  BY <1>1, <1>2, TypesHold, PTL DEF Spec

(* A caller that reserves again, with no grant to another in between, is   *)
(* not told to act before its tokens have come in since the last time.     *)
THEOREM ReservationsAlwaysSpaced == Spec => []ReservationsAreSpaced
<1>1. Init => ReservationsAreSpaced
  BY EmptySeq DEF Init, ReservationsAreSpaced
<1>2. RateTypes /\ SpacingInv /\ ReservationsAreSpaced /\ [Next]_vars => ReservationsAreSpaced'
  <2> SUFFICES ASSUME RateTypes, SpacingInv, ReservationsAreSpaced, [Next]_vars
               PROVE  ReservationsAreSpaced'
    OBVIOUS
  <2>1. CASE UNCHANGED <<grants, interval>>
    BY <2>1 DEF ReservationsAreSpaced
  <2>2. ASSUME NEW c \in Callers, Granted(c)
        PROVE  ReservationsAreSpaced'
    <3>1. PICK time \in Nat :
             /\ grants' = Append(grants, NewGrant(c, time)) /\ NewGrant(c, time) \in Reservations
             /\ interval > 0 =>
                   /\ call[c].pc = "reserved"
                   /\ time >= call[c].now + call[c].n * interval - call[c].tokens
             /\ UNCHANGED interval
      BY <2>2, GrantShape
    <3> DEFINE h == NewGrant(c, time)
    <3>2. /\ Len(grants') = Len(grants) + 1 /\ Len(grants) \in Nat
          /\ \A i \in 1 .. Len(grants) : grants'[i] = grants[i] /\ grants[i] \in Reservations
          /\ grants'[Len(grants) + 1] = h
      BY <3>1, AppendedGrant
    <3>3. /\ h.by = c /\ h.n = call[c].n /\ h.now = call[c].now /\ h.read = call[c].read
          /\ h.time = time
      BY DEF NewGrant
    <3> HIDE DEF h
    <3>4. ASSUME Len(grants) >= 1, interval > 0, grants[Len(grants)].by = c
          PROVE  h.time + (h.read - h.now) >= grants[Len(grants)].now + h.n * interval
      <4>1. grants # <<>> /\ call[c].pc \in Computed
        BY <3>1, <3>4, EmptySeq DEF Computed
      <4>2. call[c].tokens <= call[c].read - last /\ last = grants[Len(grants)].now
        BY <3>4, <4>1 DEF SpacingInv, TokensSinceLast
      <4>3. /\ call[c].n \in Nat /\ call[c].now \in Nat /\ call[c].read \in Nat
            /\ call[c].tokens \in Nat /\ interval \in Nat /\ last \in Nat
        BY DEF RateTypes, Calls
      <4>4. PICK price \in Nat : price = call[c].n * interval /\ price = h.n * interval
        BY <3>3, <4>3
      <4>5. time >= call[c].now + price - call[c].tokens
        BY <3>1, <3>4, <4>4
      <4>6. time + (call[c].read - call[c].now) >= last + price
        <5>1. ASSUME NEW now \in Nat, NEW read \in Nat, NEW tokens \in Nat,
                     tokens <= read - last, time >= now + price - tokens
              PROVE  time + (read - now) >= last + price
          BY <4>3, <5>1
        <5>2. QED
          BY <4>2, <4>3, <4>5, <5>1
      <4>7. h.time + (h.read - h.now) >= last + price
        BY <3>3, <4>6
      <4>8. QED
        BY <4>2, <4>4, <4>7
    <3>5. ASSUME NEW i \in 1 .. Len(grants') - 1
          PROVE  LET g == grants'[i]  k == grants'[i + 1] IN
                 (interval > 0 /\ g.by = k.by)
                     => k.time + (k.read - k.now) >= g.now + k.n * interval
      <4>1. CASE i = Len(grants)
        BY <3>2, <3>3, <3>4, <4>1
      <4>2. CASE i \in 1 .. Len(grants) - 1
        <5>1. grants'[i] = grants[i] /\ grants'[i + 1] = grants[i + 1]
          BY <3>2, <4>2
        <5>2. QED
          BY <4>2, <5>1 DEF ReservationsAreSpaced
      <4>3. QED
        BY <3>2, <4>1, <4>2
    <3>6. QED
      BY <3>1, <3>5 DEF ReservationsAreSpaced
  <2>3. QED
    BY <2>1, <2>2 DEF Next, Granted, Tick, ReserveN, ReadClock, Lock, TokensAt, Unlock,
                      Release, Refused, Act, vars
<1>3. QED
  BY <1>1, <1>2, TypesHold, SpacingInvHolds, PTL DEF Spec
=============================================================================
