---------------------------- MODULE RateLimiter ----------------------------
(***************************************************************************)
(* A rate::Limiter (base/wf_rate.cc) and its callers, on threads of their  *)
(* own, each of which reserves, waits for as long as the Reservation says, *)
(* and acts.                                                               *)
(*                                                                         *)
(* Times are whole ticks, and tokens are counted in the ticks they take:   *)
(* one token is `interval' ticks, so that limit_ * elapsed is the time     *)
(* elapsed. tokens_ is no variable: nothing in the code ever writes it, it *)
(* is zero for good, and the bucket is nothing but the time since last_.   *)
(*                                                                         *)
(* reserveN() reads the clock twice, takes the mutex only to compute the   *)
(* tokens, and calls setLast() without it: these are steps of their own,   *)
(* and so are those of MutexLock, by which the mutex is taken and given    *)
(* back.                                                                   *)
(* last_ is one aligned word of 64 bits: a read sees the value of a write. *)
(***************************************************************************)
EXTENDS Integers, Sequences

CONSTANTS Callers,
          Intervals,   \* what Every() is given; 0 makes the limit Inf
          Burst,       \* burst_
          Start,       \* the time when the program starts; last_ is 0 then
          MaxTime,     \* bound on the clock
          MaxGrants    \* bound on the reservations

ASSUME RateAssumption ==
    /\ "nobody" \notin Callers
    /\ Intervals \subseteq Nat /\ Burst \in Nat
    /\ Start \in Nat /\ MaxTime \in Nat /\ Start <= MaxTime /\ MaxGrants \in Nat
    /\ \A i \in Intervals : Burst * i <= Start    \* the epoch is long past

VARIABLES clock,
          interval,    \* 1 / limit_
          last,        \* last_
          call,        \* caller -> its call of reserveN(), its Reservation
          grants,      \* the reservations that were OK, in the order of setLast()
          holder, owner, used     \* mutex_

INSTANCE MutexLock WITH Threads <- Callers

mutexVars == <<holder, owner, used>>
vars == <<clock, interval, last, call, grants, mutexVars>>

(* Where a caller is, and its locals: n and now of reserveN(), the argument*)
(* of tokensAt(), what tokens() returned, and timeToAct_ of what it waits  *)
(* for.                                                                    *)
Idle == [pc |-> "idle", n |-> 0, now |-> 0, read |-> 0, tokens |-> 0, timeToAct |-> 0]

Times == 0 .. MaxTime
LongestWait == Burst * interval

TypeOK ==
    /\ clock \in Start .. MaxTime
    /\ interval \in Intervals
    /\ last \in Times /\ last <= clock
    /\ call \in [Callers ->
           [pc : {"idle", "reserve", "tokens", "lock", "unlock", "release", "reserved",
                  "wait"},
            n : 0 .. Burst + 1, now : Times, read : Times,
            tokens : 0 .. LongestWait, timeToAct : 0 .. MaxTime + LongestWait]]
    /\ LockTypeOK

Init ==
    /\ clock = Start
    /\ interval \in Intervals
    /\ last = 0
    /\ call = [c \in Callers |-> Idle]
    /\ grants = <<>>
    /\ InitLock

Tick ==
    /\ clock < MaxTime
    /\ clock' = clock + 1
    /\ UNCHANGED <<interval, last, call, grants, mutexVars>>

(* reserve(), reserveN(n): n may be more than the bucket holds.            *)
ReserveN(c, n) ==
    /\ call[c] = Idle /\ Len(grants) < MaxGrants
    /\ call' = [call EXCEPT ![c] = [Idle EXCEPT !.pc = "reserve", !.n = n, !.now = clock]]
    /\ UNCHANGED <<clock, interval, last, grants, mutexVars>>

Grant(c, time) ==
    /\ call' = [call EXCEPT ![c] = [Idle EXCEPT !.pc = "wait", !.timeToAct = time]]
    /\ grants' = Append(grants, [by |-> c, n |-> call[c].n, now |-> call[c].now,
                                 read |-> call[c].read, time |-> time])

(* limit_ == Inf: nothing is counted, and last_ is left alone.             *)
Unlimited(c) ==
    /\ call[c].pc = "reserve"
    /\ interval = 0
    /\ Grant(c, call[c].now)
    /\ UNCHANGED <<clock, interval, last, mutexVars>>

(* tokens(): the argument of tokensAt() is read before it takes the mutex. *)
ReadClock(c) ==
    /\ call[c].pc = "reserve"
    /\ interval > 0
    /\ call' = [call EXCEPT ![c].read = clock, ![c].pc = "tokens"]
    /\ UNCHANGED <<clock, interval, last, grants, mutexVars>>

AtMost(x, y) == IF x < y THEN x ELSE y

(* A mutant of Elapsed: a time before last_ is not allowed for.            *)
ElapsedSigned(t) == t - last

(* A time before last_ counts as last_.                                    *)
Elapsed(t) == t - AtMost(last, t)

Advance(t) == AtMost(Elapsed(t), Burst * interval)

(* tokensAt(): the MutexLockGuard, in between advance(), which reads last_.*)
Lock(c) ==
    /\ call[c].pc = "tokens"
    /\ LockBegin(c)
    /\ call' = [call EXCEPT ![c].pc = "lock"]
    /\ UNCHANGED <<clock, interval, last, grants>>

TokensAt(c) ==
    /\ call[c].pc = "lock"
    /\ LockEnd(c)
    /\ call' = [call EXCEPT ![c].tokens = Advance(call[c].read), ![c].pc = "unlock"]
    /\ UNCHANGED <<clock, interval, last, grants>>

Unlock(c) ==
    /\ call[c].pc = "unlock"
    /\ UnlockBegin(c)
    /\ call' = [call EXCEPT ![c].pc = "release"]
    /\ UNCHANGED <<clock, interval, last, grants>>

Release(c) ==
    /\ call[c].pc = "release"
    /\ UnlockEnd(c)
    /\ call' = [call EXCEPT ![c].pc = "reserved"]
    /\ UNCHANGED <<clock, interval, last, grants>>

DurationFromTokens(missing) == IF missing > 0 THEN missing ELSE 0

WithinBurst(n) == n <= Burst

(* A mutant of SetLast: last_ is not written.                              *)
LastForgotten(c) == UNCHANGED last
SetLast(c) == last' = call[c].now

Reserved(c) ==
    /\ call[c].pc = "reserved"
    /\ WithinBurst(call[c].n)
    /\ Grant(c, call[c].now + DurationFromTokens(call[c].n * interval - call[c].tokens))
    /\ SetLast(c)
    /\ UNCHANGED <<clock, interval, mutexVars>>

Refused(c) ==
    /\ call[c].pc = "reserved"
    /\ ~WithinBurst(call[c].n)
    /\ call' = [call EXCEPT ![c] = Idle]
    /\ UNCHANGED <<clock, interval, last, grants, mutexVars>>

(* Reservation::delay().                                                   *)
Delay(c) == IF call[c].timeToAct > clock THEN call[c].timeToAct - clock ELSE 0

(* The caller has slept for delay(), or longer, and acts.                  *)
Act(c) ==
    /\ call[c].pc = "wait"
    /\ Delay(c) = 0
    /\ call' = [call EXCEPT ![c] = Idle]
    /\ UNCHANGED <<clock, interval, last, grants, mutexVars>>

Next ==
    \/ Tick
    \/ \E c \in Callers :
         \/ \E n \in 1 .. Burst + 1 : ReserveN(c, n)
         \/ Unlimited(c) \/ ReadClock(c)
         \/ Lock(c) \/ TokensAt(c) \/ Unlock(c) \/ Release(c)
         \/ Reserved(c) \/ Refused(c)
         \/ Act(c)

Spec == Init /\ [][Next]_vars
---------------------------------------------------------------------------
(* Properties.                                                             *)

(* However the calls interleave - last_ may by then be later than the time *)
(* a caller has read, or set back by a caller that read it before - nobody *)
(* gets more than the bucket holds, or is told to wait for longer than its *)
(* own tokens take.                                                        *)
WaitIsBounded ==
    \A i \in 1 .. Len(grants) :
        LET g == grants[i] IN
        /\ interval > 0 => g.n <= Burst
        /\ g.now <= g.time /\ g.time <= g.now + g.n * interval

(* A reservation empties the bucket: a caller that reserves again, no other*)
(* one having got tokens in between, is not told to act before the new     *)
(* tokens have come in since, even if others are in the middle of a call   *)
(* and the time they will put into last_ is an old one. What the clock     *)
(* gains between the two readings in reserveN() is counted twice.          *)
ReservationsAreSpaced ==
    \A i \in 1 .. Len(grants) - 1 :
        LET g == grants[i]  h == grants[i + 1] IN
        (interval > 0 /\ g.by = h.by)
            => h.time + (h.read - h.now) >= g.now + h.n * interval

(* The limit: one event in `interval' ticks, and as many more as the bucket*)
(* holds, between any two acts of a caller that only calls reserve(), waits*)
(* as it is told, and has the limiter to itself - and whose clock does not *)
(* even move within reserveN(). The code does not keep it: what a caller   *)
(* has waited for is not taken out of the bucket, tokens_ being never      *)
(* written, so that it is there once more when the caller comes back.      *)
LimitIsKept ==
    \A i, j \in 1 .. Len(grants) :
        (/\ interval > 0 /\ i <= j
         /\ \A k \in i .. j : /\ grants[k].by = grants[i].by /\ grants[k].n = 1
                             /\ grants[k].read = grants[k].now)
            => (j - i + 1) * interval <= Burst * interval + grants[j].time - grants[i].time

(* isLockeddByThisThread() never says yes to a thread that is not between  *)
(* its lock() and its unlock(), however others lock meanwhile; but for the *)
(* thread that made the mutex, until it is used. (It may say yes before the*)
(* mutex is taken, and no to the one that has it.)                         *)
OnlyLockersHold ==
    \A c \in Callers :
        isLockeddByThisThread(c) => call[c].pc \in {"lock", "unlock"} \/ ~used

(* isLockeddByThisThread() says yes to the thread that has the mutex, from *)
(* the return of its lock() to the call of its unlock(). The code does not *)
(* keep it: another thread's lock() overwrites holder_ before it waits for *)
(* the mutex.                                                              *)
HolderIsKnown ==
    \A c \in Callers :
        owner = c /\ call[c].pc = "unlock" => isLockeddByThisThread(c)
=============================================================================
