-------------------------- MODULE ConnectorProofs --------------------------
(***************************************************************************)
(* Proofs about Connector, for any calls of the user and any delays: the   *)
(* connector owns a socket exactly while it is connecting, and polls it;   *)
(* stop() is obeyed; one connect() is one attempt at a time; and the       *)
(* asserts hold on the way.                                                *)
(***************************************************************************)
EXTENDS Connector, QueueLemmas

Reset == "resetChannel"

QueueTypes == /\ pending \in Seq(Functors) /\ batch \in Seq(Functors)
              /\ open \in Int

OwnsWhileConnecting ==
    /\ open = (IF state = "kConnecting" THEN 1 ELSE 0)
    /\ channel = "polled" <=> state = "kConnecting"

(* One reset at most is queued, and only for a channel that was removed: it*)
(* cannot take away the channel of the next attempt.                       *)
ResetOnce ==
    /\ Once(pending, Reset) /\ Once(batch, Reset)
    /\ Holds(pending, Reset) => channel = "removed" /\ ~Holds(batch, Reset)
    /\ Holds(batch, Reset) => channel = "removed" /\ pc = "functors"

(* restart() sets kDisconnected without a look at the state. It follows a  *)
(* connection that was up, so that no attempt is under way.                *)
UpIsConnected ==
    /\ conn = "open" \/ pc = "restart" => state = "kConnected"
    /\ "conn" \in active => conn = "open"
    /\ pc = "restart" => conn # "open"

SocketInv ==
    /\ QueueTypes
    /\ fault = "none" => OwnsWhileConnecting /\ ResetOnce /\ UpIsConnected

---------------------------------------------------------------------------
(* Nothing happens after a fault.                                          *)
LEMMA StepsWithoutFault ==
    ASSUME Next
    PROVE  fault = "none"
BY DEF Next, LoopNext, UserNext, Poll, HandleTimer, StartAgain, RunStart, HandleError, HandleWrite,
       RemoveConnection, Restart, DoPendingFunctors, RunStop, RunResetChannel, RunDestroy,
       RunFreed, PassDone, UserReturn, LoopConnect, LoopStop, CallConnectOrStop, SetConnect,
       Queue, Disconnect, EnableRetry, QueueDestroy, At, Running

(* Whatever was done to the queues, the resets in them are the same.       *)
ResetsKept ==
    /\ pending' \in Seq(Functors) /\ batch' \in Seq(Functors)
    /\ Once(pending, Reset)' /\ Once(batch, Reset)'
    /\ Holds(pending, Reset)' <=> Holds(pending, Reset)
    /\ Holds(batch, Reset)' <=> Holds(batch, Reset)

(* Nothing was done to them.                                               *)
LEMMA UnchangedKeepsResets ==
    ASSUME SocketInv, fault = "none", UNCHANGED <<pending, batch>>
    PROVE  ResetsKept
BY DEF SocketInv, QueueTypes, ResetOnce, ResetsKept, Holds, Once

(* Another functor was queued.                                             *)
LEMMA QueueingKeepsResets ==
    ASSUME SocketInv, fault = "none", NEW f \in Functors, f # Reset,
           pending' = Append(pending, f), UNCHANGED batch
    PROVE  ResetsKept
<1>1. (Holds(Append(pending, f), Reset) <=> Holds(pending, Reset)) /\ Once(Append(pending, f), Reset)
  BY AppendKeepsOnce DEF SocketInv, QueueTypes, ResetOnce
<1>2. Append(pending, f) \in Seq(Functors)
  BY DEF SocketInv, QueueTypes
<1>3. QED
  BY <1>1, <1>2 DEF SocketInv, QueueTypes, ResetOnce, ResetsKept, Holds, Once

(* Another functor is run, and may queue one.                              *)
LEMMA RunningKeepsResets ==
    ASSUME SocketInv, NEW f, f # Reset, Running(f),
           pending' = pending \/ \E g \in Functors : g # Reset /\ pending' = Append(pending, g)
    PROVE  ResetsKept /\ pc = "functors"
<1>1. /\ fault = "none" /\ pc = "functors"
      /\ batch # <<>> /\ Head(batch) # Reset /\ batch' = Tail(batch)
  BY DEF Running, At
<1>2. /\ Holds(Tail(batch), Reset) <=> Holds(batch, Reset)
      /\ Once(Tail(batch), Reset) /\ Tail(batch) \in Seq(Functors)
  BY <1>1, TailKeepsOnce, HeadTailProperties DEF SocketInv, QueueTypes, ResetOnce
<1>3. (Holds(batch, Reset)' <=> Holds(batch, Reset)) /\ Once(batch, Reset)' /\ batch' \in Seq(Functors)
  BY <1>1, <1>2 DEF Holds, Once
<1>4. /\ (Holds(pending, Reset)' <=> Holds(pending, Reset)) /\ Once(pending, Reset)'
      /\ pending' \in Seq(Functors)
  <2>1. CASE pending' = pending
    BY <1>1, <2>1 DEF SocketInv, QueueTypes, ResetOnce, Holds, Once
  <2>2. ASSUME NEW g \in Functors, g # Reset, pending' = Append(pending, g)
        PROVE  /\ (Holds(pending, Reset)' <=> Holds(pending, Reset)) /\ Once(pending, Reset)'
               /\ pending' \in Seq(Functors)
    <3>1. /\ Holds(Append(pending, g), Reset) <=> Holds(pending, Reset)
          /\ Once(Append(pending, g), Reset) /\ Append(pending, g) \in Seq(Functors)
      BY <1>1, <2>2, AppendKeepsOnce DEF SocketInv, QueueTypes, ResetOnce
    <3>2. QED
      BY <2>2, <3>1 DEF Holds, Once
  <2>3. QED
    BY <2>1, <2>2
<1>5. QED
  BY <1>1, <1>3, <1>4 DEF ResetsKept

---------------------------------------------------------------------------
(* The steps.                                                              *)

(* One that has nothing to do with the attempt.                            *)
LEMMA OthersKeepSocketInv ==
    ASSUME SocketInv, fault = "none", ResetsKept, UNCHANGED <<state, channel, open, conn>>,
           active' \subseteq active \/ ("conn" \in active' => conn = "open"),
           pc' = pc \/ (pc # "functors" /\ pc' # "restart")
    PROVE  SocketInv'
<1>1. QueueTypes'
  BY DEF SocketInv, QueueTypes, ResetsKept
<1>2. OwnsWhileConnecting' /\ ResetOnce' /\ UpIsConnected'
  BY DEF SocketInv, ResetsKept, OwnsWhileConnecting, ResetOnce, UpIsConnected
<1>3. QED
  BY <1>1, <1>2 DEF SocketInv

(* startInLoop(): a socket is opened from kDisconnected, when there is none*)
(* that is polled, and the last channel was reset.                         *)
LEMMA StartKeepsSocketInv ==
    ASSUME SocketInv, fault = "none", ResetsKept, NEW result, StartInLoop(result),
           UNCHANGED conn, active' \subseteq active, pc' # "restart",
           pc' = pc \/ pc # "functors"
    PROVE  SocketInv'
<1>1. CASE UNCHANGED <<state, channel, open>>
  BY <1>1, OthersKeepSocketInv
<1>2. CASE state = "kDisconnected" /\ Connecting
  <2>1. open = 0 /\ open' = 1 /\ state' = "kConnecting"
    BY <1>2 DEF Connecting, SocketInv, OwnsWhileConnecting
  <2>2. fault' = "none" => channel = "none" /\ channel' = "polled"
    BY <1>2 DEF Connecting
  <2>3. conn # "open" /\ pc # "restart"
    BY <1>2 DEF SocketInv, UpIsConnected
  <2>4. fault' = "none" => OwnsWhileConnecting' /\ ResetOnce' /\ UpIsConnected'
    BY <2>1, <2>2, <2>3 DEF SocketInv, ResetsKept, OwnsWhileConnecting, ResetOnce, UpIsConnected
  <2>5. QED
    BY <2>1, <2>4 DEF SocketInv, QueueTypes, ResetsKept
<1>3. CASE state = "kDisconnected" /\ Retry(open) /\ UNCHANGED channel
  <2>1. UNCHANGED <<state, channel, open>>
    BY <1>3 DEF Retry
  <2>2. QED
    BY <2>1, <1>1
<1>4. QED
  BY <1>1, <1>2, <1>3 DEF StartInLoop, Connect, attemptVars

(* The end of an attempt: the channel is removed, its reset is queued, and *)
(* there was no other one.                                                 *)
LEMMA EndsAttempt ==
    ASSUME SocketInv, fault = "none", StillConnecting, RemoveAndResetChannel,
           ~Holds(batch, Reset) /\ ~Holds(pending, Reset) =>
               /\ ~Holds(batch, Reset)' /\ Once(batch, Reset)' /\ batch' \in Seq(Functors),
           open' = open - 1, state' \in {"kDisconnected", "kConnected"},
           conn' = conn \/ (conn' = "open" /\ state' = "kConnected"),
           active' \subseteq active, pc' # "restart"
    PROVE  SocketInv'
<1>1. /\ state = "kConnecting" /\ channel = "polled" /\ open = 1
      /\ ~Holds(batch, Reset) /\ ~Holds(pending, Reset) /\ conn # "open" /\ "conn" \notin active
  BY DEF SocketInv, StillConnecting, OwnsWhileConnecting, ResetOnce, UpIsConnected
<1>2. channel' = "removed" /\ pending' = Append(pending, Reset) /\ open' = 0
  BY <1>1 DEF RemoveAndResetChannel, Reset
<1>3. Reset \in Functors /\ pending \in Seq(Functors) /\ Once(pending, Reset)
  BY DEF Reset, Functors, SocketInv, QueueTypes, ResetOnce
<1>4. Once(Append(pending, Reset), Reset) /\ Append(pending, Reset) \in Seq(Functors)
  BY <1>1, <1>3, AppendKeepsOnce
<1>5. Once(pending, Reset)' /\ pending' \in Seq(Functors)
  BY <1>2, <1>4 DEF Once
<1>6. OwnsWhileConnecting' /\ ResetOnce' /\ UpIsConnected'
  BY <1>1, <1>2, <1>5 DEF OwnsWhileConnecting, ResetOnce, UpIsConnected
<1>7. QED
  BY <1>1, <1>2, <1>5, <1>6 DEF SocketInv, QueueTypes

(* The callbacks of the connecting channel.                                *)
LEMMA ChannelKeepsSocketInv ==
    ASSUME SocketInv, HandleError \/ \E connected \in BOOLEAN : HandleWrite(connected)
    PROVE  SocketInv'
<1>1. /\ fault = "none" /\ UNCHANGED batch /\ pc \in {"events", "write"}
      /\ pc' \in {"events", "write", "onConnection"} /\ active' \subseteq active
  BY DEF HandleError, HandleWrite, HandleConnected, At
<1>2. (~Holds(batch, Reset) => ~Holds(batch, Reset)') /\ Once(batch, Reset)' /\ batch' \in Seq(Functors)
  BY <1>1 DEF SocketInv, QueueTypes, ResetOnce, Holds, Once
<1>3. CASE ~StillConnecting
  <2>1. UNCHANGED <<pending, state, channel, open, conn>>
    BY <1>3 DEF HandleError, HandleWrite
  <2>2. QED
    BY <1>1, <2>1, UnchangedKeepsResets, OthersKeepSocketInv
<1>4. CASE StillConnecting
  <2>1. /\ RemoveAndResetChannel /\ open' = open - 1
        /\ state' \in {"kDisconnected", "kConnected"}
        /\ conn' = conn \/ (conn' = "open" /\ state' = "kConnected")
    BY <1>4 DEF HandleError, HandleWrite, HandleConnected, Retry
  <2>2. QED
    BY <1>1, <1>2, <1>4, <2>1, EndsAttempt
<1>5. QED
  BY <1>3, <1>4

(* stopInLoop().                                                           *)
LEMMA RunStopKeepsSocketInv ==
    ASSUME SocketInv, RunStop
    PROVE  SocketInv'
<1>1. /\ fault = "none" /\ Running("stopInLoop") /\ UNCHANGED <<pc, conn, active>> /\ pc = "functors"
      /\ "stopInLoop" # Reset
  BY DEF RunStop, Running, At, Reset
<1>2. CASE ~StillConnecting
  <2>1. UNCHANGED <<pending, state, channel, open>>
    BY <1>2 DEF RunStop
  <2>2. QED
    BY <1>1, <2>1, RunningKeepsResets, OthersKeepSocketInv
<1>3. CASE StillConnecting
  <2>1. RemoveAndResetChannel /\ open' = open - 1 /\ state' = "kDisconnected"
    BY <1>3 DEF RunStop, Retry
  <2>2. /\ batch # <<>> /\ Head(batch) # Reset /\ batch' = Tail(batch)
        /\ batch \in Seq(Functors) /\ Once(batch, Reset)
    BY <1>1 DEF Running, SocketInv, QueueTypes, ResetOnce
  <2>3. /\ Holds(Tail(batch), Reset) <=> Holds(batch, Reset)
        /\ Once(Tail(batch), Reset) /\ Tail(batch) \in Seq(Functors)
    BY <2>2, TailKeepsOnce, HeadTailProperties
  <2>4. /\ Holds(batch, Reset)' <=> Holds(batch, Reset)
        /\ Once(batch, Reset)' /\ batch' \in Seq(Functors)
    BY <2>2, <2>3 DEF Holds, Once
  <2>5. QED
    BY <1>1, <1>3, <2>1, <2>4, EndsAttempt
<1>4. QED
  BY <1>2, <1>3

(* The reset that runs was the only one.                                   *)
LEMMA RunResetKeepsSocketInv ==
    ASSUME SocketInv, RunResetChannel
    PROVE  SocketInv'
<1>1. /\ fault = "none" /\ pc = "functors" /\ UNCHANGED <<pc, active, state, open, conn, pending>>
      /\ batch # <<>> /\ Head(batch) = Reset /\ batch' = Tail(batch) /\ channel' = "none"
  BY DEF RunResetChannel, Running, At, Reset
<1>2. Holds(batch, Reset) /\ ~Holds(Tail(batch), Reset) /\ Once(Tail(batch), Reset)
      /\ Tail(batch) \in Seq(Functors)
  BY <1>1, TailKeepsOnce, HeadTailProperties DEF SocketInv, QueueTypes, ResetOnce
<1>3. ~Holds(batch, Reset)' /\ Once(batch, Reset)' /\ batch' \in Seq(Functors)
  BY <1>1, <1>2 DEF Holds, Once
<1>4. channel = "removed" /\ ~Holds(pending, Reset)
  BY <1>1, <1>2 DEF SocketInv, ResetOnce
<1>5. ~Holds(pending, Reset)' /\ Once(pending, Reset)'
  BY <1>1, <1>4 DEF SocketInv, ResetOnce, Holds, Once
<1>6. OwnsWhileConnecting' /\ ResetOnce' /\ UpIsConnected'
  BY <1>1, <1>3, <1>4, <1>5 DEF SocketInv, OwnsWhileConnecting, ResetOnce, UpIsConnected
<1>7. QED
  BY <1>1, <1>3, <1>6 DEF SocketInv, QueueTypes

(* The swap: outside the pass no reset is left in the batch.               *)
LEMMA SwapKeepsSocketInv ==
    ASSUME SocketInv, DoPendingFunctors
    PROVE  SocketInv'
<1>1. /\ fault = "none" /\ pc = "events" /\ pc' = "functors" /\ batch' = pending /\ pending' = <<>>
      /\ UNCHANGED <<active, state, channel, open, conn>>
  BY DEF DoPendingFunctors, At, attemptVars
<1>2. (Holds(batch, Reset)' <=> Holds(pending, Reset)) /\ Once(batch, Reset)'
  BY <1>1 DEF SocketInv, ResetOnce, Holds, Once
<1>3. ~Holds(pending, Reset)' /\ Once(pending, Reset)' /\ pending' \in Seq(Functors)
  BY <1>1 DEF Holds, Once
<1>4. OwnsWhileConnecting' /\ ResetOnce' /\ UpIsConnected'
  BY <1>1, <1>2, <1>3 DEF SocketInv, OwnsWhileConnecting, ResetOnce, UpIsConnected
<1>5. QED
  BY <1>1, <1>3, <1>4 DEF SocketInv, QueueTypes

(* The other steps of the loop's thread.                                   *)
LEMMA LoopKeepsSocketInv ==
    ASSUME SocketInv, LoopNext
    PROVE  SocketInv'
<1>1. fault = "none"
  BY StepsWithoutFault DEF Next
<1>2. ASSUME NEW events, Poll(events)
      PROVE  SocketInv'
  <2>1. /\ UNCHANGED <<pending, batch, state, channel, open, conn>> /\ pc = "poll" /\ pc' = "events"
        /\ "conn" \in active' => conn = "open"
    BY <1>2 DEF Poll, At, Reportable
  <2>2. QED
    BY <1>1, <2>1, UnchangedKeepsResets, OthersKeepSocketInv
<1>3. ASSUME NEW result, HandleTimer(result) \/ StartAgain(result)
      PROVE  SocketInv'
  <2>1. /\ UNCHANGED <<pending, batch, conn>> /\ StartInLoop(result)
        /\ pc \in {"events", "start"} /\ pc' = "events" /\ active' \subseteq active
    BY <1>3 DEF HandleTimer, StartAgain, At
  <2>2. QED
    BY <1>1, <2>1, UnchangedKeepsResets, StartKeepsSocketInv
<1>4. ASSUME NEW result, RunStart(result)
      PROVE  SocketInv'
  <2>1. /\ UNCHANGED <<pc, active, pending, conn>> /\ StartInLoop(result)
        /\ Running("startInLoop") /\ "startInLoop" # Reset
    BY <1>4 DEF RunStart, Reset
  <2>2. ResetsKept /\ pc = "functors"
    BY <2>1, RunningKeepsResets
  <2>3. QED
    BY <1>1, <2>1, <2>2, StartKeepsSocketInv
<1>5. CASE RemoveConnection
  <2>1. /\ UNCHANGED <<pending, batch, state, channel, open, fault>>
        /\ pc = "events" /\ pc' \in {"restart", "events"} /\ conn' = "none"
        /\ "conn" \in active /\ active' = active \ {"conn"}
    BY <1>5 DEF RemoveConnection, At, attemptVars
  <2>2. ResetsKept /\ state = "kConnected" /\ ~Holds(batch, Reset)
    BY <1>1, <2>1, UnchangedKeepsResets DEF SocketInv, UpIsConnected, ResetOnce
  <2>3. QueueTypes'
    BY <2>1, <2>2 DEF SocketInv, QueueTypes, ResetsKept
  <2>4. OwnsWhileConnecting' /\ ResetOnce' /\ UpIsConnected'
    BY <1>1, <2>1, <2>2 DEF SocketInv, ResetsKept, OwnsWhileConnecting, ResetOnce, UpIsConnected
  <2>5. QED
    BY <2>3, <2>4 DEF SocketInv
<1>6. CASE Restart
  <2>1. /\ UNCHANGED <<pending, batch, channel, open, conn, active, fault>>
        /\ pc = "restart" /\ pc' = "start" /\ state' = "kDisconnected"
    BY <1>6 DEF Restart, At
  <2>2. ResetsKept /\ state = "kConnected" /\ ~Holds(batch, Reset)
    BY <1>1, <2>1, UnchangedKeepsResets DEF SocketInv, UpIsConnected, ResetOnce
  <2>3. conn # "open" /\ "conn" \notin active /\ channel # "polled" /\ open = 0
    BY <1>1, <2>1, <2>2 DEF SocketInv, UpIsConnected, OwnsWhileConnecting
  <2>4. QueueTypes'
    BY <1>6, <2>2 DEF Restart, SocketInv, QueueTypes, ResetsKept
  <2>5. open' = open
    BY <1>6 DEF Restart
  <2>6. OwnsWhileConnecting' /\ ResetOnce' /\ UpIsConnected'
    BY <1>1, <2>1, <2>2, <2>3, <2>5
       DEF SocketInv, ResetsKept, OwnsWhileConnecting, ResetOnce, UpIsConnected
  <2>7. QED
    BY <2>4, <2>6 DEF SocketInv
<1>7. CASE RunDestroy \/ RunFreed
  <2>1. UNCHANGED <<pc, active, state, channel, open, conn>>
    BY <1>7 DEF RunDestroy, RunFreed, attemptVars
  <2>2. ResetsKept \/ fault' # "none"
    <3>1. CASE RunDestroy
      <4>1. /\ Running("destroy") /\ "destroy" # Reset /\ "stopInLoop" # Reset
            /\ "stopInLoop" \in Functors
            /\ pending' = pending \/ pending' = Append(pending, "stopInLoop")
        BY <3>1 DEF RunDestroy, Reset, Functors
      <4>2. QED
        BY <4>1, RunningKeepsResets
    <3>2. CASE RunFreed
      BY <3>2 DEF RunFreed
    <3>3. QED
      BY <1>7, <3>1, <3>2
  <2>3. CASE ResetsKept
    BY <1>1, <2>1, <2>3, OthersKeepSocketInv
  <2>4. CASE fault' # "none"
    <3>1. /\ pending' = pending \/ pending' = Append(pending, "stopInLoop")
          /\ batch # <<>> /\ batch' = Tail(batch)
      BY <1>7 DEF RunDestroy, RunFreed, Running
    <3>2. pending' \in Seq(Functors) /\ batch' \in Seq(Functors)
      BY <3>1, HeadTailProperties, AppendProperties DEF SocketInv, QueueTypes, Functors
    <3>3. QED
      BY <2>1, <2>4, <3>2 DEF SocketInv, QueueTypes
  <2>5. QED
    BY <2>2, <2>3, <2>4
<1>8. CASE PassDone
  <2>1. /\ UNCHANGED <<pending, batch, active, state, channel, open, conn, fault>>
        /\ pc' = "poll" /\ batch = <<>>
    BY <1>8 DEF PassDone, attemptVars
  <2>2. ResetsKept /\ ~Holds(batch, Reset)
    BY <1>1, <2>1, UnchangedKeepsResets DEF Holds
  <2>3. QueueTypes'
    BY <2>1, <2>2 DEF SocketInv, QueueTypes, ResetsKept
  <2>4. OwnsWhileConnecting' /\ ResetOnce' /\ UpIsConnected'
    BY <1>1, <2>1, <2>2 DEF SocketInv, ResetsKept, OwnsWhileConnecting, ResetOnce, UpIsConnected
  <2>5. QED
    BY <2>3, <2>4 DEF SocketInv
<1>9. QED
  BY <1>2, <1>3, <1>4, <1>5, <1>6, <1>7, <1>8, ChannelKeepsSocketInv, RunStopKeepsSocketInv,
     RunResetKeepsSocketInv, SwapKeepsSocketInv
     DEF LoopNext

(* The user's calls only queue startInLoop(), stopInLoop() and the         *)
(* destructor, but for a connect() on the loop's thread, which starts.     *)
LEMMA UserKeepsSocketInv ==
    ASSUME SocketInv, UserNext
    PROVE  SocketInv'
<1>1. fault = "none"
  BY StepsWithoutFault DEF Next
<1>2. ASSUME NEW result, LoopConnect(result)
      PROVE  SocketInv'
  <2>1. /\ UNCHANGED <<pc, active, pending, batch, conn>> /\ StartInLoop(result)
        /\ pc # "restart"
    BY <1>2 DEF LoopConnect, loopVars, UserCode
  <2>2. QED
    BY <1>1, <2>1, UnchangedKeepsResets, StartKeepsSocketInv
<1>3. ASSUME ~\E result \in Results : LoopConnect(result)
      PROVE  SocketInv'
  <2>1. /\ UNCHANGED <<active, batch, state, channel, open, conn>>
        /\ pc' = pc \/ (pc # "functors" /\ pc' # "restart")
    BY <1>3 DEF UserNext, UserReturn, LoopStop, CallConnectOrStop, SetConnect, Queue, Disconnect,
                EnableRetry, QueueDestroy, loopVars, attemptVars, UserCode
  <2>2. \/ pending' = pending
        \/ \E f \in Functors : f # Reset /\ pending' = Append(pending, f)
    <3>1. {"startInLoop", "stopInLoop", "destroy"} \subseteq Functors \ {Reset}
      BY DEF Functors, Reset
    <3>2. \/ pending' = pending
          \/ \E f \in {"startInLoop", "stopInLoop", "destroy"} : pending' = Append(pending, f)
      BY <1>3 DEF UserNext, UserReturn, LoopStop, CallConnectOrStop, SetConnect, Queue, Disconnect,
                  EnableRetry, QueueDestroy
    <3>3. QED
      BY <3>1, <3>2
  <2>3. ResetsKept
    BY <1>1, <2>1, <2>2, UnchangedKeepsResets, QueueingKeepsResets
  <2>4. QED
    BY <1>1, <2>1, <2>3, OthersKeepSocketInv
<1>4. QED
  BY <1>2, <1>3

(* Together: the invariant is inductive.                                   *)
LEMMA SocketInvIsInductive ==
    /\ Init => SocketInv
    /\ SocketInv /\ [Next]_vars => SocketInv'
<1>1. ASSUME Init PROVE SocketInv
  <2>1. /\ ~Holds(pending, Reset) /\ ~Holds(batch, Reset)
        /\ Once(pending, Reset) /\ Once(batch, Reset)
    BY <1>1 DEF Init, Holds, Once
  <2>2. QED
    BY <1>1, <2>1 DEF Init, SocketInv, QueueTypes, OwnsWhileConnecting, ResetOnce, UpIsConnected
<1>2. ASSUME SocketInv, [Next]_vars PROVE SocketInv'
  <2>1. CASE UNCHANGED vars
    BY <1>2, <2>1 DEF vars, userVars, loopVars, attemptVars, SocketInv, QueueTypes,
                      OwnsWhileConnecting, ResetOnce, UpIsConnected, Holds, Once
  <2>2. QED
    BY <1>2, <2>1, LoopKeepsSocketInv, UserKeepsSocketInv DEF Next
<1>3. QED
  BY <1>1, <1>2

(* The connector owns a socket exactly while it is connecting, and that one*)
(* is polled: whatever the user calls, and however attempts fail, nothing  *)
(* leaks.                                                                  *)
THEOREM SocketsDoNotLeak == Spec => []SocketOwned
<1>1. SocketInv => SocketOwned
  BY DEF SocketInv, OwnsWhileConnecting, SocketOwned
<1>2. QED
  BY <1>1, SocketInvIsInductive, PTL DEF Spec

---------------------------------------------------------------------------
(* stop().                                                                 *)

(* After stop(), connect_ stays false, unless restart() sets it again; and *)
(* only a client with enableRetry() comes to restart().                    *)
StopInv ==
    /\ pc = "restart" => retry
    /\ call \in {"connect", "startInLoop"} => ~stopped
    /\ (stopped \/ call = "stopInLoop") /\ ~retry => ~connect

(* The loop's thread makes none of the user's calls.                       *)
LEMMA LoopKeepsStopInv ==
    ASSUME StopInv, LoopNext
    PROVE  StopInv'
<1>1. UNCHANGED <<stopped, call, retry>>
  BY DEF LoopNext, Poll, HandleTimer, StartAgain, RunStart, HandleError, HandleWrite,
         RemoveConnection, Restart, DoPendingFunctors, RunStop, RunResetChannel, RunDestroy,
         RunFreed, PassDone, userVars
<1>2. connect' = connect \/ connect' = FALSE \/ pc = "restart"
  <2>1. UNCHANGED connect \/ RunDestroy \/ Restart
    BY DEF LoopNext, Poll, HandleTimer, StartAgain, RunStart, HandleError, HandleWrite,
           RemoveConnection, DoPendingFunctors, RunStop, RunResetChannel, RunFreed, PassDone
  <2>2. RunDestroy => connect' = connect \/ connect' = FALSE
    BY DEF RunDestroy
  <2>3. Restart => pc = "restart"
    BY DEF Restart, At
  <2>4. QED
    BY <2>1, <2>2, <2>3
<1>3. pc' = "restart" => pc = "restart" \/ RemoveConnection
  BY DEF LoopNext, Poll, HandleTimer, StartAgain, RunStart, HandleError, HandleWrite,
         HandleConnected, Restart, DoPendingFunctors, RunStop, RunResetChannel,
         RunDestroy, RunFreed, PassDone
<1>4. RemoveConnection /\ pc' = "restart" => retry
  BY DEF RemoveConnection
<1>5. QED
  BY <1>1, <1>2, <1>3, <1>4 DEF StopInv

(* The user makes one call at a time.                                      *)
LEMMA UserKeepsStopInv ==
    ASSUME StopInv, UserNext
    PROVE  StopInv'
<1>1. CASE UserReturn \/ Disconnect \/ EnableRetry \/ QueueDestroy
  <2>1. UNCHANGED <<stopped, call, connect>> /\ (pc' = "restart" => pc = "restart")
    BY <1>1 DEF UserReturn, Disconnect, EnableRetry, QueueDestroy, userVars, loopVars, UserCode
  <2>2. retry => retry'
    BY <1>1 DEF UserReturn, Disconnect, EnableRetry, QueueDestroy, userVars
  <2>3. QED
    BY <2>1, <2>2 DEF StopInv
<1>2. ASSUME NEW result, LoopConnect(result)
      PROVE  StopInv'
  <2>1. stopped' = FALSE /\ call' = "none" /\ UNCHANGED <<retry, pc>>
    BY <1>2 DEF LoopConnect, MakesCall, loopVars
  <2>2. QED
    BY <2>1 DEF StopInv
<1>3. CASE LoopStop
  <2>1. call' = "none" /\ connect' = FALSE /\ UNCHANGED <<retry, pc>>
    BY <1>3 DEF LoopStop, MakesCall, loopVars
  <2>2. QED
    BY <2>1 DEF StopInv
<1>4. ASSUME NEW c, CallConnectOrStop(c)
      PROVE  StopInv'
  <2>1. stopped' = FALSE /\ call' \in {"connect", "stop"} /\ UNCHANGED <<retry, pc>>
    BY <1>4 DEF CallConnectOrStop, loopVars
  <2>2. QED
    BY <2>1 DEF StopInv
<1>5. CASE SetConnect
  <2>1. /\ \/ call = "connect" /\ call' = "startInLoop"
           \/ call = "stop" /\ call' = "stopInLoop" /\ connect' = FALSE
        /\ UNCHANGED <<retry, pc, stopped>>
    BY <1>5 DEF SetConnect, loopVars
  <2>2. QED
    BY <2>1 DEF StopInv
<1>6. CASE Queue
  <2>1. /\ call' = "none" /\ stopped' = (call = "stopInLoop")
        /\ UNCHANGED <<retry, pc, connect>>
    BY <1>6 DEF Queue, loopVars
  <2>2. QED
    BY <2>1 DEF StopInv
<1>7. QED
  BY <1>1, <1>2, <1>3, <1>4, <1>5, <1>6 DEF UserNext

(* Without enableRetry(), no connection comes up once stop() has returned, *)
(* whatever was under way: the callback of the socket looks at connect_.   *)
THEOREM StopAlwaysObeyed == Spec => StopIsObeyed
<1>1. Init => StopInv
  BY DEF Init, StopInv
<1>2. StopInv /\ [Next]_vars => StopInv'
  <2>1. SUFFICES ASSUME StopInv, [Next]_vars PROVE StopInv'
    OBVIOUS
  <2>2. CASE UNCHANGED vars
    BY <2>1, <2>2 DEF vars, userVars, loopVars, StopInv
  <2>3. QED
    BY <2>1, <2>2, LoopKeepsStopInv, UserKeepsStopInv DEF Next
<1>3. StopInv /\ [Next]_vars => [stopped /\ ~retry /\ conn = "none" => conn' = "none"]_vars
  <2>1. SUFFICES ASSUME StopInv, Next, stopped, ~retry, conn = "none"
                 PROVE  conn' = "none"
    OBVIOUS
  <2>2. ~connect
    BY <2>1 DEF StopInv
  <2>3. CASE LoopNext
    BY <2>1, <2>2, <2>3
       DEF LoopNext, Poll, HandleTimer, StartAgain, RunStart, HandleError, HandleWrite,
           HandleConnected, RemoveConnection, Restart, DoPendingFunctors, RunStop,
           RunResetChannel, RunDestroy, RunFreed, PassDone
  <2>4. CASE UserNext
    BY <2>1, <2>4
       DEF UserNext, UserReturn, LoopConnect, LoopStop, CallConnectOrStop, SetConnect, Queue,
           Disconnect, EnableRetry, QueueDestroy
  <2>5. QED
    BY <2>1, <2>3, <2>4 DEF Next
<1>4. QED
  BY <1>1, <1>2, <1>3, PTL DEF Spec, StopIsObeyed

---------------------------------------------------------------------------
(* One attempt at a time.                                                  *)

Start == "startInLoop"

(* How far connecting has come: it is yet to be asked for, being asked for,*)
(* queued, waiting for a timer, under way, up, or beginning again.         *)
Stages == {"script", "connect", "startInLoop", "pending", "batch", "timer", "expired",
           "connecting", "up", "start"}

Reached ==
    {s \in Stages : \/ s = "script" /\ Holds(script, "connect")
                    \/ s \in {"connect", "startInLoop"} /\ call = s
                    \/ s = "pending" /\ Holds(pending, Start)
                    \/ s = "batch" /\ Holds(batch, Start)
                    \/ s = "timer" /\ timers > 0
                    \/ s = "expired" /\ "timer" \in active
                    \/ s = "connecting" /\ state = "kConnecting"
                    \/ s = "up" /\ (conn = "open" \/ pc = "restart")
                    \/ s = "start" /\ pc = "start"}

OnceEach == Once(script, "connect") /\ Once(pending, Start) /\ Once(batch, Start)

AttemptInv ==
    /\ script \in Seq(Calls)
    /\ fault = "none" => /\ OnceEach
                         /\ timers \in {0, 1}
                         /\ \A s, t \in Reached : s = t

(* Every step leaves the stages as they are, or moves on from one. While   *)
(* there is nothing but a timer, or a connection, only poll() and restart()*)
(* do.                                                                     *)
MovesOn(s, t) == s \in Reached /\ Reached' \subseteq (Reached \ {s}) \cup {t}
Settled == {"timer", "up"}
AttemptKept == AttemptInv' /\ (Reached \subseteq Settled => Reached' \subseteq Reached)

(* There is still one stage, then ...                                      *)
LEMMA MovingKeepsAttemptInv ==
    ASSUME AttemptInv, fault = "none", script' \in Seq(Calls), OnceEach', timers' \in {0, 1},
           Reached' \subseteq Reached \/ \E s, t \in Stages : MovesOn(s, t)
    PROVE  AttemptInv'
<1>1. \A s, t \in Reached : s = t
  BY DEF AttemptInv
<1>2. \A s, t \in Reached' : s = t
  BY <1>1 DEF MovesOn
<1>3. QED
  BY <1>2 DEF AttemptInv

(* ... and a settled one is not left but by those two.                     *)
LEMMA MovingKeepsAttempt ==
    ASSUME AttemptInv, fault = "none", script' \in Seq(Calls), OnceEach', timers' \in {0, 1},
           Reached' \subseteq Reached \/ \E s \in Stages \ Settled, t \in Stages : MovesOn(s, t)
    PROVE  AttemptKept
<1>1. AttemptInv'
  BY MovingKeepsAttemptInv
<1>2. QED
  BY <1>1 DEF AttemptKept, MovesOn

(* The script only gets shorter.                                           *)
LEMMA ScriptKept ==
    ASSUME AttemptInv, fault = "none",
           script' = script \/ (script # <<>> /\ script' = Tail(script))
    PROVE  /\ script' \in Seq(Calls) /\ Once(script, "connect")'
           /\ Holds(script, "connect")' => Holds(script, "connect")
           /\ script # <<>> /\ Head(script) = "connect" /\ script' = Tail(script)
                 => Holds(script, "connect") /\ ~Holds(script, "connect")'
<1>1. CASE script' = script /\ (script = <<>> \/ script' # Tail(script))
  BY <1>1 DEF AttemptInv, OnceEach, Holds, Once
<1>2. CASE script # <<>> /\ script' = Tail(script)
  <2>1. /\ Once(Tail(script), "connect") /\ Tail(script) \in Seq(Calls)
        /\ Holds(Tail(script), "connect") => Holds(script, "connect")
        /\ Head(script) = "connect" => Holds(script, "connect") /\ ~Holds(Tail(script), "connect")
    BY <1>2, TailKeepsOnce, HeadTailProperties DEF AttemptInv, OnceEach
  <2>2. QED
    BY <1>2, <2>1 DEF Holds, Once
<1>3. QED
  BY <1>1, <1>2

(* The other functors may be queued as they like.                          *)
LEMMA PendingKept ==
    ASSUME AttemptInv, QueueTypes, fault = "none",
           pending' = pending \/ \E f \in Functors : f # Start /\ pending' = Append(pending, f)
    PROVE  Once(pending, Start)' /\ (Holds(pending, Start)' <=> Holds(pending, Start))
<1>1. CASE pending' = pending
  BY <1>1 DEF AttemptInv, OnceEach, Holds, Once
<1>2. ASSUME NEW f \in Functors, f # Start, pending' = Append(pending, f)
      PROVE  Once(pending, Start)' /\ (Holds(pending, Start)' <=> Holds(pending, Start))
  <2>1. /\ Holds(Append(pending, f), Start) <=> Holds(pending, Start)
        /\ Once(Append(pending, f), Start)
    BY <1>2, AppendKeepsOnce DEF AttemptInv, OnceEach, QueueTypes
  <2>2. QED
    BY <1>2, <2>1 DEF Holds, Once
<1>3. QED
  BY <1>1, <1>2

(* The batch only gets shorter.                                            *)
LEMMA BatchKept ==
    ASSUME AttemptInv, QueueTypes, fault = "none",
           batch' = batch \/ (batch # <<>> /\ batch' = Tail(batch))
    PROVE  /\ Once(batch, Start)'
           /\ Holds(batch, Start)' => Holds(batch, Start)
           /\ Running(Start) => Holds(batch, Start) /\ ~Holds(batch, Start)'
<1>1. CASE batch' = batch /\ ~Running(Start)
  BY <1>1 DEF AttemptInv, OnceEach, Holds, Once
<1>2. CASE batch # <<>> /\ batch' = Tail(batch)
  <2>1. /\ Once(Tail(batch), Start)
        /\ Holds(Tail(batch), Start) => Holds(batch, Start)
        /\ Head(batch) = Start => Holds(batch, Start) /\ ~Holds(Tail(batch), Start)
    BY <1>2, TailKeepsOnce DEF AttemptInv, OnceEach, QueueTypes
  <2>2. Running(Start) => Head(batch) = Start
    BY DEF Running
  <2>3. QED
    BY <1>2, <2>1, <2>2 DEF Holds, Once
<1>3. QED
  BY <1>1, <1>2 DEF Running

(* Nothing but the attempt itself is touched.                              *)
QueuesKept ==
    /\ script' \in Seq(Calls) /\ OnceEach'
    /\ Holds(script, "connect")' => Holds(script, "connect")
    /\ Holds(pending, Start)' => Holds(pending, Start)
    /\ Holds(batch, Start)' => Holds(batch, Start)

LEMMA QueuesAreKept ==
    ASSUME AttemptInv, QueueTypes, fault = "none",
           script' = script \/ (script # <<>> /\ script' = Tail(script)),
           pending' = pending \/ \E f \in Functors : f # Start /\ pending' = Append(pending, f),
           batch' = batch \/ (batch # <<>> /\ batch' = Tail(batch))
    PROVE  QueuesKept
BY ScriptKept, PendingKept, BatchKept DEF QueuesKept, OnceEach

(* startInLoop() goes on to a socket, or to a timer.                       *)
LEMMA StartMovesOn ==
    ASSUME NEW result, StartInLoop(result)
    PROVE  \/ timers' = timers /\ state' \in {state, "kConnecting"}
           \/ timers' = timers + 1 /\ state' = state
<1>1. CASE UNCHANGED <<state, timers>>
  BY <1>1
<1>2. CASE Connecting
  BY <1>2 DEF Connecting
<1>3. CASE state = "kDisconnected" /\ Retry(open)
  BY <1>3 DEF Retry
<1>4. QED
  BY <1>1, <1>2, <1>3 DEF StartInLoop, Connect, attemptVars

(* It is called at a stage that it leaves.                                 *)
LEMMA StartKeepsAttempt ==
    ASSUME AttemptInv, fault = "none", QueuesKept, NEW result, StartInLoop(result),
           NEW s \in {"script", "batch", "expired", "start"}, s \in Reached, s \notin Reached',
           call' = call \/ call' = "none", active' \subseteq active, conn' = conn,
           pc' = pc \/ (pc' # "restart" /\ pc' # "start")
    PROVE  AttemptKept
<1>1. timers = 0 /\ state # "kConnecting"
  BY DEF AttemptInv, Reached, Stages
<1>2. \/ timers' = 0 /\ state' = state
      \/ timers' = 0 /\ state' = "kConnecting"
      \/ timers' = 1 /\ state' = state
  BY <1>1, StartMovesOn
<1>3. timers' \in {0, 1} /\ (Reached' \subseteq Reached \/ MovesOn(s, "connecting") \/ MovesOn(s, "timer"))
  BY <1>1, <1>2 DEF Reached, QueuesKept, MovesOn
<1>4. QED
  BY <1>3, MovingKeepsAttempt DEF QueuesKept, Stages, Settled

(* A failure, or stop(), turns the attempt into a timer at most.           *)
LEMMA RetryKeepsAttempt ==
    ASSUME AttemptInv, fault = "none", QueuesKept, StillConnecting, NEW left, Retry(left),
           call' = call, active' \subseteq active, conn' = conn,
           pc' = pc \/ (pc' # "restart" /\ pc' # "start")
    PROVE  AttemptKept /\ Reached' \subseteq Settled
<1>1. "connecting" \in Reached /\ timers = 0
  BY DEF AttemptInv, Reached, Stages, StillConnecting
<1>2. state' = "kDisconnected" /\ timers' \in {0, 1}
  BY <1>1 DEF Retry
<1>3. MovesOn("connecting", "timer")
  BY <1>1, <1>2 DEF Reached, QueuesKept, MovesOn
<1>4. Reached' \subseteq Settled
  BY <1>1, <1>3 DEF MovesOn, AttemptInv, Settled
<1>5. QED
  BY <1>2, <1>3, <1>4, MovingKeepsAttempt DEF QueuesKept, Stages, Settled

(* What has been reached is left as it is.                                 *)
LEMMA OthersKeepAttempt ==
    ASSUME AttemptInv, fault = "none", QueuesKept, timers' = timers, state' = state,
           call' = call \/ call' \notin {"connect", "startInLoop"},
           active' \subseteq active, conn' = conn \/ conn' # "open",
           pc' = pc \/ (pc' # "start" /\ (pc' = "restart" => conn = "open"))
    PROVE  AttemptKept
<1>1. Reached' \subseteq Reached
  BY DEF Reached, QueuesKept
<1>2. timers' \in {0, 1}
  BY DEF AttemptInv
<1>3. QED
  BY <1>1, <1>2, MovingKeepsAttempt DEF QueuesKept

(* The steps that touch no attempt.                                        *)
LEMMA QuietStepsKeepAttempt ==
    ASSUME AttemptInv, SocketInv, fault = "none",
           \/ RemoveConnection \/ RunResetChannel \/ RunDestroy \/ RunFreed \/ PassDone
           \/ UserReturn \/ LoopStop \/ Disconnect \/ EnableRetry \/ QueueDestroy
    PROVE  AttemptKept
<1>1. /\ UNCHANGED <<timers, state, call>> /\ active' \subseteq active
      /\ conn' = conn \/ conn' # "open"
  BY DEF RemoveConnection, RunResetChannel, RunDestroy, RunFreed, PassDone, UserReturn, LoopStop,
         Disconnect, EnableRetry, QueueDestroy, userVars, loopVars, attemptVars
<1>2. pc' = pc \/ (pc' # "start" /\ (pc' = "restart" => conn = "open"))
  <2>1. CASE RemoveConnection
    BY <2>1 DEF RemoveConnection, SocketInv, UpIsConnected
  <2>2. CASE ~RemoveConnection
    BY <2>2 DEF RunResetChannel, RunDestroy, RunFreed, PassDone, UserReturn, LoopStop,
                Disconnect, EnableRetry, QueueDestroy, loopVars
  <2>3. QED
    BY <2>1, <2>2
<1>3. /\ script' = script \/ (script # <<>> /\ script' = Tail(script))
      /\ batch' = batch \/ (batch # <<>> /\ batch' = Tail(batch))
  BY DEF RemoveConnection, RunResetChannel, RunDestroy, RunFreed, PassDone, UserReturn, LoopStop,
         Disconnect, EnableRetry, QueueDestroy, userVars, loopVars, Running, MakesCall
<1>4. pending' = pending \/ \E f \in Functors : f # Start /\ pending' = Append(pending, f)
  <2>1. pending' = pending \/ \E f \in {"stopInLoop", "destroy"} : pending' = Append(pending, f)
    BY DEF RemoveConnection, RunResetChannel, RunDestroy, RunFreed, PassDone, UserReturn, LoopStop,
           Disconnect, EnableRetry, QueueDestroy
  <2>2. {"stopInLoop", "destroy"} \subseteq Functors \ {Start}
    BY DEF Functors, Start
  <2>3. QED
    BY <2>1, <2>2
<1>5. QueuesKept
  BY <1>3, <1>4, QueuesAreKept DEF SocketInv
<1>6. QED
  BY <1>1, <1>2, <1>5, OthersKeepAttempt

(* The steps that start an attempt.                                        *)
LEMMA StartingKeepsAttempt ==
    ASSUME AttemptInv, SocketInv, fault = "none", NEW result,
           HandleTimer(result) \/ StartAgain(result) \/ RunStart(result) \/ LoopConnect(result)
    PROVE  AttemptKept
<1>1. StartInLoop(result) /\ pending' = pending /\ conn' = conn /\ active' \subseteq active
  BY DEF HandleTimer, StartAgain, RunStart, LoopConnect, loopVars
<1>2. CASE HandleTimer(result)
  <2>1. /\ UNCHANGED <<script, call, batch, pc>> /\ pc = "events"
        /\ "timer" \in active /\ active' = active \ {"timer"}
    BY <1>2 DEF HandleTimer, userVars, At
  <2>2. "expired" \in Reached /\ "expired" \notin Reached'
    BY <2>1 DEF Reached, Stages
  <2>3. QED
    BY <1>1, <2>1, <2>2, QueuesAreKept, StartKeepsAttempt DEF SocketInv
<1>3. CASE StartAgain(result)
  <2>1. UNCHANGED <<script, call, batch>> /\ pc = "start" /\ pc' = "events"
    BY <1>3 DEF StartAgain, userVars, At
  <2>2. "start" \in Reached /\ "start" \notin Reached'
    BY <2>1 DEF Reached, Stages
  <2>3. QED
    BY <1>1, <2>1, <2>2, QueuesAreKept, StartKeepsAttempt DEF SocketInv
<1>4. CASE RunStart(result)
  <2>1. /\ UNCHANGED <<script, call, pc>> /\ Running(Start)
        /\ batch # <<>> /\ batch' = Tail(batch)
    BY <1>4 DEF RunStart, userVars, Running, Start
  <2>2. Holds(batch, Start) /\ ~Holds(batch, Start)'
    BY <2>1, BatchKept DEF SocketInv
  <2>3. "batch" \in Reached /\ "batch" \notin Reached'
    BY <2>2 DEF Reached, Stages
  <2>4. QED
    BY <1>1, <2>1, <2>3, QueuesAreKept, StartKeepsAttempt DEF SocketInv
<1>5. CASE LoopConnect(result)
  <2>1. /\ UNCHANGED <<call, pc, batch>>
        /\ script # <<>> /\ Head(script) = "connect" /\ script' = Tail(script)
    BY <1>5 DEF LoopConnect, loopVars, MakesCall
  <2>2. Holds(script, "connect") /\ ~Holds(script, "connect")'
    BY <2>1, ScriptKept
  <2>3. "script" \in Reached /\ "script" \notin Reached'
    BY <2>2 DEF Reached, Stages
  <2>4. QED
    BY <1>1, <2>1, <2>3, QueuesAreKept, StartKeepsAttempt DEF SocketInv
<1>6. QED
  BY <1>2, <1>3, <1>4, <1>5

(* The steps that end one.                                                 *)
LEMMA EndingKeepsAttempt ==
    ASSUME AttemptInv, SocketInv, fault = "none",
           HandleError \/ RunStop \/ \E connected \in BOOLEAN : HandleWrite(connected)
    PROVE  AttemptKept /\ (StillConnecting => Reached' \subseteq Settled)
<1>1. /\ UNCHANGED <<script, call>> /\ active' \subseteq active
      /\ pc' = pc \/ (pc' # "restart" /\ pc' # "start")
      /\ batch' = batch \/ (batch # <<>> /\ batch' = Tail(batch))
  BY DEF HandleError, RunStop, HandleWrite, HandleConnected, userVars, Running
<1>2. pending' = pending \/ pending' = Append(pending, "resetChannel")
  BY DEF HandleError, RunStop, HandleWrite, RemoveAndResetChannel
<1>3. QueuesKept
  <2>1. "resetChannel" \in Functors /\ "resetChannel" # Start
    BY DEF Functors, Start
  <2>2. QED
    BY <1>1, <1>2, <2>1, QueuesAreKept DEF SocketInv
<1>4. \/ StillConnecting /\ conn' = conn /\ \E left \in {open - 1} : Retry(left)
      \/ StillConnecting /\ state' = "kConnected" /\ timers' = timers
      \/ ~StillConnecting /\ UNCHANGED <<timers, state, conn>>
  BY DEF HandleError, RunStop, HandleWrite, HandleConnected
<1>5. CASE StillConnecting /\ conn' = conn /\ \E left \in {open - 1} : Retry(left)
  BY <1>1, <1>3, <1>5, RetryKeepsAttempt
<1>6. CASE StillConnecting /\ state' = "kConnected" /\ timers' = timers
  <2>1. "connecting" \in Reached /\ timers' = 0
    BY <1>6 DEF StillConnecting, AttemptInv, Reached, Stages
  <2>2. MovesOn("connecting", "up")
    BY <1>1, <1>3, <1>6, <2>1 DEF MovesOn, Reached, QueuesKept
  <2>3. Reached' \subseteq Settled
    BY <1>6, <2>1, <2>2 DEF MovesOn, AttemptInv, Settled
  <2>4. QED
    BY <1>3, <2>1, <2>2, <2>3, MovingKeepsAttempt DEF QueuesKept, Stages, Settled
<1>7. CASE ~StillConnecting /\ UNCHANGED <<timers, state, conn>>
  BY <1>1, <1>3, <1>7, OthersKeepAttempt
<1>8. QED
  BY <1>4, <1>5, <1>6, <1>7

(* The timer that poll() reports was the only one.                         *)
LEMMA PollKeepsAttemptInv ==
    ASSUME AttemptInv, SocketInv, fault = "none", NEW events, Poll(events)
    PROVE  AttemptInv' /\ (Reached \subseteq {"up"} => Reached' \subseteq Reached)
<1>1. /\ UNCHANGED <<script, call, pending, batch, state, conn>>
      /\ pc' = "events" /\ active' = events
      /\ timers' = IF "timer" \in events THEN timers - 1 ELSE timers
  BY DEF Poll, userVars
<1>2. QueuesKept
  BY <1>1, QueuesAreKept DEF SocketInv
<1>3. CASE "timer" \in events
  <2>1. timers > 0
    BY <1>3 DEF Poll, Reportable
  <2>2. timers' = 0 /\ "timer" \in Reached
    BY <1>1, <1>3, <2>1 DEF AttemptInv, Reached, Stages
  <2>3. MovesOn("timer", "expired")
    BY <1>1, <1>2, <2>2 DEF MovesOn, Reached, QueuesKept
  <2>4. QED
    BY <1>2, <2>2, <2>3, MovingKeepsAttemptInv DEF QueuesKept, Stages
<1>4. CASE "timer" \notin events
  <2>1. timers' = timers /\ timers \in {0, 1}
    BY <1>1, <1>4 DEF AttemptInv
  <2>2. Reached' \subseteq Reached
    BY <1>1, <1>2, <1>4, <2>1 DEF Reached, QueuesKept
  <2>3. QED
    BY <1>2, <2>1, <2>2, MovingKeepsAttemptInv DEF QueuesKept
<1>5. QED
  BY <1>3, <1>4

(* The swap takes a queued startInLoop() along.                            *)
LEMMA SwapKeepsAttempt ==
    ASSUME AttemptInv, SocketInv, fault = "none", DoPendingFunctors
    PROVE  AttemptKept
<1>1. /\ UNCHANGED <<script, call, active, state, timers, conn>>
      /\ pc' = "functors" /\ batch' = pending /\ pending' = <<>>
  BY DEF DoPendingFunctors, userVars, attemptVars
<1>2. script' \in Seq(Calls) /\ Once(script, "connect")'
      /\ (Holds(script, "connect")' => Holds(script, "connect"))
  BY <1>1, ScriptKept
<1>3. /\ Holds(batch, Start)' <=> Holds(pending, Start)
      /\ ~Holds(pending, Start)' /\ Once(pending, Start)' /\ Once(batch, Start)'
  BY <1>1 DEF AttemptInv, OnceEach, Holds, Once
<1>4. OnceEach' /\ timers' \in {0, 1}
  BY <1>1, <1>2, <1>3 DEF OnceEach, AttemptInv
<1>5. CASE Holds(pending, Start)
  <2>1. MovesOn("pending", "batch")
    BY <1>1, <1>2, <1>3, <1>5 DEF MovesOn, Reached, Stages
  <2>2. QED
    BY <1>2, <1>4, <2>1, MovingKeepsAttempt DEF Stages, Settled
<1>6. CASE ~Holds(pending, Start)
  <2>1. Reached' \subseteq Reached
    BY <1>1, <1>2, <1>3, <1>6 DEF Reached
  <2>2. QED
    BY <1>2, <1>4, <2>1, MovingKeepsAttempt
<1>7. QED
  BY <1>5, <1>6

(* restart() begins again for a connection that is down.                   *)
LEMMA RestartKeepsAttemptInv ==
    ASSUME AttemptInv, SocketInv, fault = "none", Restart
    PROVE  AttemptInv'
<1>1. /\ UNCHANGED <<script, call, pending, batch, active, timers, conn>>
      /\ pc = "restart" /\ pc' = "start" /\ state' = "kDisconnected"
  BY DEF Restart, userVars, At
<1>2. QueuesKept
  BY <1>1, QueuesAreKept DEF SocketInv
<1>3. conn # "open"
  BY <1>1 DEF SocketInv, UpIsConnected
<1>4. MovesOn("up", "start") /\ timers' \in {0, 1}
  BY <1>1, <1>2, <1>3 DEF MovesOn, Reached, Stages, QueuesKept, AttemptInv
<1>5. QED
  BY <1>2, <1>4, MovingKeepsAttemptInv DEF QueuesKept, Stages

(* connect() on another thread, field by field.                            *)
LEMMA ConnectKeepsAttempt ==
    ASSUME AttemptInv, SocketInv, fault = "none",
           SetConnect \/ Queue \/ \E c \in Calls : CallConnectOrStop(c)
    PROVE  AttemptKept
<1>1. UNCHANGED <<pc, active, batch, state, timers, conn>> /\ timers \in {0, 1}
  BY DEF SetConnect, Queue, CallConnectOrStop, loopVars, attemptVars, AttemptInv
<1>2. ASSUME NEW c \in Calls, CallConnectOrStop(c)
      PROVE  AttemptKept
  <2>1. /\ c \in {"connect", "stop"} /\ call' = c /\ pending' = pending
        /\ script # <<>> /\ Head(script) = c /\ script' = Tail(script)
    BY <1>2 DEF CallConnectOrStop, MakesCall
  <2>2. QueuesKept
    BY <1>1, <2>1, QueuesAreKept DEF SocketInv
  <2>3. CASE c = "connect"
    <3>1. Holds(script, "connect") /\ ~Holds(script, "connect")'
      BY <2>1, <2>3, ScriptKept
    <3>2. MovesOn("script", "connect")
      BY <1>1, <2>1, <2>2, <2>3, <3>1 DEF MovesOn, Reached, Stages, QueuesKept
    <3>3. QED
      BY <1>1, <2>2, <3>2, MovingKeepsAttempt DEF QueuesKept, Stages, Settled
  <2>4. CASE c = "stop"
    BY <1>1, <2>1, <2>2, <2>4, OthersKeepAttempt
  <2>5. QED
    BY <2>1, <2>3, <2>4
<1>3. CASE SetConnect
  <2>1. /\ UNCHANGED <<script, pending>>
        /\ \/ call = "connect" /\ call' = "startInLoop"
           \/ call' = "stopInLoop"
    BY <1>3 DEF SetConnect
  <2>2. QueuesKept
    BY <1>1, <2>1, QueuesAreKept DEF SocketInv
  <2>3. CASE call = "connect" /\ call' = "startInLoop"
    <3>1. MovesOn("connect", "startInLoop")
      BY <1>1, <2>1, <2>2, <2>3 DEF MovesOn, Reached, Stages, QueuesKept
    <3>2. QED
      BY <1>1, <2>2, <3>1, MovingKeepsAttempt DEF QueuesKept, Stages, Settled
  <2>4. CASE call' = "stopInLoop"
    BY <1>1, <2>2, <2>4, OthersKeepAttempt
  <2>5. QED
    BY <2>1, <2>3, <2>4
<1>4. CASE Queue
  <2>1. /\ script' = script /\ call' = "none" /\ call \in {"startInLoop", "stopInLoop"}
        /\ pending' = Append(pending, call)
    BY <1>4 DEF Queue
  <2>2. CASE call = "stopInLoop"
    <3>1. call \in Functors /\ call # Start
      BY <2>2 DEF Functors, Start
    <3>2. QueuesKept
      BY <1>1, <2>1, <3>1, QueuesAreKept DEF SocketInv
    <3>3. QED
      BY <1>1, <2>1, <3>2, OthersKeepAttempt
  <2>3. CASE call = "startInLoop"
    <3>1. "startInLoop" \in Reached /\ Start \in Functors
      BY <2>3 DEF Reached, Stages, Start, Functors
    <3>2. ~Holds(pending, Start)
      BY <3>1 DEF AttemptInv, Reached, Stages
    <3>3. Once(Append(pending, Start), Start)
      BY <3>1, <3>2, AppendKeepsOnce DEF AttemptInv, OnceEach, SocketInv, QueueTypes
    <3>4. Once(pending, Start)'
      BY <2>1, <2>3, <3>3 DEF Once, Start
    <3>5. /\ script' \in Seq(Calls) /\ OnceEach'
          /\ Holds(script, "connect")' => Holds(script, "connect")
          /\ Holds(batch, Start)' => Holds(batch, Start)
      BY <1>1, <2>1, <3>4, ScriptKept, BatchKept DEF OnceEach, SocketInv
    <3>6. MovesOn("startInLoop", "pending")
      BY <1>1, <2>1, <3>1, <3>5 DEF MovesOn, Reached
    <3>7. QED
      BY <1>1, <3>5, <3>6, MovingKeepsAttempt DEF Stages, Settled
  <2>4. QED
    BY <2>1, <2>2, <2>3
<1>5. QED
  BY <1>2, <1>3, <1>4

(* An attempt is one of the stages, and a timer is one timer.              *)
LEMMA StagesAreAttempts ==
    ASSUME SocketInv, AttemptInv
    PROVE  OneAttempt
<1>1. Queued(Start) => {"pending", "batch", "startInLoop"} \cap Reached # {}
  <2>1. /\ Start \in ToSet(pending) => Holds(pending, Start)
        /\ Start \in ToSet(batch) => Holds(batch, Start)
    BY DEF ToSet, Holds, SocketInv, QueueTypes
  <2>2. QED
    BY <2>1 DEF Queued, Reached, Stages, Start
<1>2. /\ timers > 0 => "timer" \in Reached
      /\ "timer" \in active => "expired" \in Reached
      /\ state = "kConnecting" => "connecting" \in Reached
      /\ conn = "open" \/ pc = "restart" => "up" \in Reached
  BY DEF Reached, Stages
<1>3. ASSUME fault = "none"
      PROVE  Attempts <= 1
  <2>1. timers \in {0, 1} /\ \A s, t \in Reached : s = t
    BY <1>3 DEF AttemptInv
  <2>2. QED
    BY <1>1, <1>2, <2>1 DEF Attempts, Start
<1>4. QED
  BY <1>3 DEF OneAttempt

(* One call of connect() at most is where an attempt can begin.            *)
LEMMA InitialAttempt ==
    ASSUME Init, script \in Seq(Calls), Once(script, "connect")
    PROVE  AttemptInv
<1>1. /\ ~Holds(pending, Start) /\ ~Holds(batch, Start)
      /\ Once(pending, Start) /\ Once(batch, Start)
  BY DEF Init, Holds, Once
<1>2. \A s \in Reached : s = "script"
  BY <1>1 DEF Init, Reached
<1>3. QED
  BY <1>1, <1>2 DEF Init, AttemptInv, OnceEach

(* Together: there is one attempt at most.                                 *)
LEMMA AttemptInvIsInductive ==
    ASSUME SocketInv, AttemptInv, [Next]_vars
    PROVE  AttemptInv'
<1>1. CASE UNCHANGED vars
  BY <1>1 DEF vars, userVars, loopVars, attemptVars, AttemptInv, OnceEach, Reached, Holds, Once
<1>2. CASE Next
  <2>1. fault = "none"
    BY <1>2, StepsWithoutFault
  <2>2. CASE LoopNext
    BY <2>1, <2>2, PollKeepsAttemptInv, StartingKeepsAttempt, EndingKeepsAttempt,
       RestartKeepsAttemptInv, SwapKeepsAttempt, QuietStepsKeepAttempt
       DEF LoopNext, AttemptKept
  <2>3. CASE UserNext
    BY <2>1, <2>3, StartingKeepsAttempt, ConnectKeepsAttempt, QuietStepsKeepAttempt
       DEF UserNext, AttemptKept
  <2>4. QED
    BY <1>2, <2>2, <2>3 DEF Next
<1>3. QED
  BY <1>1, <1>2

(* A user that connects once has one attempt at a time, whatever else it   *)
(* calls and from whatever thread, and however the attempts go: never two  *)
(* timers, nor one next to a socket that is connecting or connected.       *)
THEOREM OneAttemptAtATime ==
    ASSUME \A s \in Scripts : s \in Seq(Calls) /\ Once(s, "connect")
    PROVE  Spec => []OneAttempt
<1>1. Init => AttemptInv
  BY InitialAttempt DEF Init
<1>2. SocketInv /\ AttemptInv /\ [Next]_vars => AttemptInv'
  BY AttemptInvIsInductive
<1>3. QED
  BY <1>1, <1>2, SocketInvIsInductive, StagesAreAttempts, PTL DEF Spec

---------------------------------------------------------------------------
(* The asserts.                                                            *)

Stop == "stopInLoop"

(* The user connects once, and before it stops or destroys the client.     *)
ConnectsFirst(s) ==
    /\ s \in Seq(Calls) /\ Once(s, "connect")
    /\ \A i, j \in 1 .. Len(s) : s[i] = "connect" /\ s[j] \in {"stop", "destroy"} => i < j

Held(f) == Holds(pending, f) \/ Holds(batch, f)

(* The call of connect() has come, and has been queued.                    *)
AskedFor == ~Holds(script, "connect") /\ call \notin {"connect", "startInLoop"}

StopUnderWay == call = Stop \/ Held(Stop)

(* After stop() only restart() sets connect_ again.                        *)
EndInv ==
    /\ ConnectsFirst(script)
    /\ call = "stop" \/ StopUnderWay \/ Held("destroy") \/ client # "alive" => AskedFor
    /\ call = "stop" \/ StopUnderWay => client # "alive" \/ ~clientConnect
    /\ StopUnderWay /\ connect => retry /\ ~clientConnect
    /\ pc = "restart" => retry /\ client = "alive"

(* A stop() that was lost on restart().                                    *)
StopLost == retry /\ ~clientConnect /\ AskedFor

(* The channel was removed in this iteration of the loop, which resets it  *)
(* before the next poll(); until then no attempt starts.                   *)
BeforeReset ==
    pc \in {"events", "write", "onConnection"} \/ (pc = "functors" /\ Holds(batch, Reset))

ResetSoon ==
    /\ BeforeReset
    /\ Reached \subseteq Settled
    /\ "conn" \notin active

ChannelInv ==
    /\ "out" \in active => state # "kConnected"
    /\ state = "kConnected" => Reached \subseteq {"up"}
    /\ channel = "removed" => Held(Reset)
    /\ channel = "removed" => Reached = {} \/ StopLost \/ ResetSoon

StateTypes ==
    /\ channel \in {"none", "polled", "removed"}
    /\ state \in {"kDisconnected", "kConnecting", "kConnected"}

AssertInv == StateTypes /\ AssertsHold /\ (fault = "none" => EndInv /\ ChannelInv)

(* The calls that are left still are in order; a stop() or a destructor is *)
(* behind the connect().                                                   *)
LEMMA ConnectsFirstKept ==
    ASSUME ConnectsFirst(script), script' = script \/ (script # <<>> /\ script' = Tail(script))
    PROVE  /\ ConnectsFirst(script')
           /\ Holds(script, "connect")' => Holds(script, "connect")
           /\ script # <<>> /\ Head(script) \in {"stop", "destroy"} => ~Holds(script, "connect")
           /\ script # <<>> /\ Head(script) = "connect" => Holds(script, "connect")
<1>1. script # <<>> => /\ Len(Tail(script)) = Len(script) - 1 /\ Len(script) \in Nat \ {0}
                       /\ Head(script) = script[1]
                       /\ \A i \in 1 .. Len(Tail(script)) : Tail(script)[i] = script[i + 1]
                       /\ Tail(script) \in Seq(Calls)
  BY HeadTailProperties, EmptySeq DEF ConnectsFirst
<1>2. script # <<>> => ConnectsFirst(Tail(script))
  <2>1. script # <<>> => Once(Tail(script), "connect")
    BY TailKeepsOnce DEF ConnectsFirst
  <2>2. QED
    BY <1>1, <2>1 DEF ConnectsFirst
<1>3. script # <<>> /\ Head(script) \in {"stop", "destroy"} => ~Holds(script, "connect")
  BY <1>1 DEF ConnectsFirst, Holds
<1>4. script # <<>> => /\ Holds(Tail(script), "connect") => Holds(script, "connect")
                       /\ Head(script) = "connect" => Holds(script, "connect")
  BY TailHolds DEF ConnectsFirst
<1>5. QED
  BY <1>2, <1>3, <1>4 DEF Holds

(* Only what is queued gets into the queues.                               *)
LEMMA HeldKept ==
    ASSUME QueueTypes, NEW New \in SUBSET Functors,
           batch' = batch \/ (batch # <<>> /\ batch' = Tail(batch)),
           pending' = pending \/ \E f \in New : pending' = Append(pending, f)
    PROVE  /\ Stop \notin New /\ Held(Stop)' => Held(Stop)
           /\ "destroy" \notin New /\ Held("destroy")' => Held("destroy")
<1>1. \A e : Holds(batch', e) => Holds(batch, e)
  <2>1. batch # <<>> => \A e : Holds(Tail(batch), e) => Holds(batch, e)
    BY TailHolds DEF QueueTypes
  <2>2. QED
    BY <2>1
<1>2. \A e : Holds(pending', e) => Holds(pending, e) \/ e \in New
  <2>1. ASSUME NEW f \in New
        PROVE  \A e : Holds(Append(pending, f), e) => Holds(pending, e) \/ f = e
    <3>1. pending \in Seq(Functors) /\ f \in Functors
      BY DEF QueueTypes
    <3>2. QED
      BY <3>1, AppendHolds
  <2>2. QED
    BY <2>1
<1>3. QED
  BY <1>1, <1>2 DEF Held, Holds

(* What runs was held.                                                     *)
LEMMA RunningHeld ==
    ASSUME QueueTypes, NEW f, Running(f)
    PROVE  Holds(batch, f)
BY TailHolds DEF QueueTypes, Running

(* Steps that have nothing to do with stopping.                            *)
LEMMA OthersKeepEndInv ==
    ASSUME EndInv, UNCHANGED <<script, call, clientConnect, retry, client, connect>>,
           Held(Stop)' => Held(Stop), Held("destroy")' => Held("destroy"),
           pc' = "restart" => pc = "restart" \/ (retry /\ client = "alive")
    PROVE  EndInv'
BY DEF EndInv, AskedFor, StopUnderWay, ConnectsFirst, Once, Holds

(* The loop's thread.                                                      *)
LEMMA LoopKeepsEndInv ==
    ASSUME EndInv, SocketInv, LoopNext
    PROVE  EndInv'
<1>1. CASE RunDestroy
  <2>1. /\ Running("destroy") /\ UNCHANGED <<script, call, clientConnect, retry, pc>>
        /\ pc = "functors" /\ batch # <<>> /\ batch' = Tail(batch)
        /\ \/ client' = "gone" /\ UNCHANGED <<connect, pending>>
           \/ client' = "abandoned" /\ connect' = FALSE /\ pending' = Append(pending, Stop)
    BY <1>1 DEF RunDestroy, Running, At, Stop
  <2>2. Held("destroy")
    BY <2>1, RunningHeld DEF Held, SocketInv
  <2>3. AskedFor'
    BY <2>1, <2>2 DEF EndInv, AskedFor, Holds
  <2>4. ConnectsFirst(script)'
    BY <2>1 DEF EndInv, ConnectsFirst, Once
  <2>5. CASE client' = "gone" /\ UNCHANGED <<connect, pending>>
    <3>1. Held(Stop)' => Held(Stop)
      BY <2>1, <2>5, TailHolds DEF Held, Holds, SocketInv, QueueTypes
    <3>2. QED
      BY <2>1, <2>3, <2>4, <2>5, <3>1 DEF EndInv, StopUnderWay
  <2>6. CASE client' = "abandoned" /\ connect' = FALSE
    BY <2>1, <2>3, <2>4, <2>6 DEF EndInv
  <2>7. QED
    BY <2>1, <2>5, <2>6
<1>2. CASE Restart
  <2>1. /\ UNCHANGED <<script, call, clientConnect, retry, client, pending, batch>>
        /\ pc = "restart" /\ pc' = "start"
    BY <1>2 DEF Restart, At, userVars
  <2>2. (Held(Stop)' <=> Held(Stop)) /\ (Held("destroy")' <=> Held("destroy"))
    BY <2>1 DEF Held, Holds
  <2>3. AskedFor' <=> AskedFor
    BY <2>1 DEF AskedFor, Holds
  <2>4. ConnectsFirst(script)'
    BY <2>1 DEF EndInv, ConnectsFirst, Once
  <2>5. QED
    BY <2>1, <2>2, <2>3, <2>4 DEF EndInv, StopUnderWay
<1>3. CASE DoPendingFunctors
  <2>1. /\ UNCHANGED <<script, call, clientConnect, retry, client, connect>>
        /\ pc' = "functors" /\ batch' = pending /\ pending' = <<>>
    BY <1>3 DEF DoPendingFunctors, userVars
  <2>2. (Held(Stop)' => Held(Stop)) /\ (Held("destroy")' => Held("destroy"))
    BY <2>1 DEF Held, Holds
  <2>3. QED
    BY <2>1, <2>2, OthersKeepEndInv
<1>4. CASE ~RunDestroy /\ ~Restart /\ ~DoPendingFunctors
  <2>1. UNCHANGED <<script, call, clientConnect, retry, client, connect>>
    BY <1>4 DEF LoopNext, Poll, HandleTimer, StartAgain, RunStart, HandleError, HandleWrite,
                RemoveConnection, RunStop, RunResetChannel, RunFreed, PassDone, userVars
  <2>2. pc' = "restart" => pc = "restart" \/ (retry /\ client = "alive")
    BY <1>4 DEF LoopNext, Poll, HandleTimer, StartAgain, RunStart, HandleError, HandleWrite,
                HandleConnected, RemoveConnection, RunStop, RunResetChannel, RunFreed, PassDone
  <2>3. /\ batch' = batch \/ (batch # <<>> /\ batch' = Tail(batch))
        /\ pending' = pending \/ \E f \in {Reset} : pending' = Append(pending, f)
    BY <1>4 DEF LoopNext, Poll, HandleTimer, StartAgain, RunStart, HandleError, HandleWrite,
                RemoveConnection, RunStop, RunResetChannel, RunFreed, PassDone, Running,
                RemoveAndResetChannel, Reset
  <2>4. {Reset} \in SUBSET Functors /\ Stop \notin {Reset} /\ "destroy" \notin {Reset}
    BY DEF Functors, Stop, Reset
  <2>5. QED
    BY <2>1, <2>2, <2>3, <2>4, HeldKept, OthersKeepEndInv DEF SocketInv
<1>5. QED
  BY <1>1, <1>2, <1>3, <1>4

(* A call of the user, which is the next one of the script.                *)
LEMMA UserKeepsEndInv ==
    ASSUME EndInv, SocketInv, UserNext
    PROVE  EndInv'
<1>1. batch' = batch /\ (pc' = "restart" => pc = "restart")
  BY DEF UserNext, UserReturn, LoopConnect, LoopStop, CallConnectOrStop, SetConnect, Queue,
         Disconnect, EnableRetry, QueueDestroy, loopVars, UserCode
<1>2. script' = script \/ (script # <<>> /\ script' = Tail(script))
  BY DEF UserNext, UserReturn, LoopConnect, LoopStop, CallConnectOrStop, SetConnect, Queue,
         Disconnect, EnableRetry, QueueDestroy, MakesCall, userVars
<1>3. ConnectsFirst(script)' /\ (Holds(script, "connect")' => Holds(script, "connect"))
  BY <1>2, ConnectsFirstKept DEF EndInv, ConnectsFirst, Once
<1>4. \A c \in Calls : MakesCall(c) => client = "alive" /\ call = "none"
  BY DEF MakesCall
<1>5. MakesCall("connect") => ~AskedFor
  BY ConnectsFirstKept DEF EndInv, AskedFor, MakesCall
<1>6. MakesCall("stop") \/ MakesCall("destroy") => ~Holds(script, "connect")'
  BY <1>3, ConnectsFirstKept DEF EndInv, MakesCall
<1>7. /\ pending' = pending => (Held(Stop)' => Held(Stop)) /\ (Held("destroy")' => Held("destroy"))
      /\ pending' = Append(pending, "startInLoop")
            => (Held(Stop)' => Held(Stop)) /\ (Held("destroy")' => Held("destroy"))
      /\ pending' = Append(pending, "stopInLoop") => (Held("destroy")' => Held("destroy"))
      /\ pending' = Append(pending, "destroy") => (Held(Stop)' => Held(Stop))
  <2>1. /\ {"startInLoop"} \in SUBSET Functors /\ {"stopInLoop"} \in SUBSET Functors
        /\ {"destroy"} \in SUBSET Functors
        /\ Stop \notin {"startInLoop", "destroy"} /\ "destroy" \notin {"startInLoop", "stopInLoop"}
    BY DEF Functors, Stop
  <2>2. QED
    BY <1>1, <2>1, HeldKept DEF SocketInv
<1>8. CASE UserReturn
  BY <1>1, <1>7, <1>8, OthersKeepEndInv DEF UserReturn, userVars
<1>9. ASSUME NEW result, LoopConnect(result)
      PROVE  EndInv'
  <2>1. /\ MakesCall("connect") /\ UNCHANGED <<call, retry, client, pc, pending>>
    BY <1>9 DEF LoopConnect, loopVars
  <2>2. /\ call' = "none" /\ client' = "alive" /\ ~Held(Stop)' /\ ~Held("destroy")' /\ pc' = pc
    BY <1>4, <1>5, <1>7, <2>1 DEF EndInv, StopUnderWay, Calls
  <2>3. QED
    BY <1>1, <1>3, <2>1, <2>2 DEF EndInv, StopUnderWay, Stop
<1>10. CASE LoopStop
  <2>1. /\ MakesCall("stop") /\ UNCHANGED <<call, retry, client, pc>>
        /\ clientConnect' = FALSE /\ connect' = FALSE
    BY <1>10 DEF LoopStop, loopVars
  <2>2. AskedFor'
    BY <1>4, <1>6, <2>1 DEF AskedFor, Calls
  <2>3. QED
    BY <1>1, <1>3, <2>1, <2>2 DEF EndInv
<1>11. ASSUME NEW c, CallConnectOrStop(c)
       PROVE  EndInv'
  <2>1. /\ c \in {"connect", "stop"} /\ MakesCall(c) /\ call' = c
        /\ UNCHANGED <<retry, client, pc, pending, connect>> /\ clientConnect' = (c = "connect")
    BY <1>11 DEF CallConnectOrStop, loopVars
  <2>2. client' = "alive" /\ (Held(Stop)' => Held(Stop)) /\ (Held("destroy")' => Held("destroy"))
    BY <1>4, <1>7, <2>1 DEF Calls
  <2>3. CASE c = "connect"
    BY <1>1, <1>3, <1>5, <2>1, <2>2, <2>3 DEF EndInv, StopUnderWay, Stop
  <2>4. CASE c = "stop"
    <3>1. AskedFor'
      BY <1>6, <2>1, <2>4 DEF AskedFor
    <3>2. QED
      BY <1>1, <1>3, <2>1, <2>2, <2>4, <3>1 DEF EndInv, StopUnderWay, Stop
  <2>5. QED
    BY <2>1, <2>3, <2>4
<1>12. CASE SetConnect
  <2>1. /\ UNCHANGED <<script, clientConnect, retry, client, pc, pending>>
        /\ \/ call = "connect" /\ call' = "startInLoop"
           \/ call = "stop" /\ call' = Stop /\ connect' = FALSE
    BY <1>12 DEF SetConnect, loopVars, Stop
  <2>2. (Held(Stop)' => Held(Stop)) /\ (Held("destroy")' => Held("destroy"))
    BY <1>7, <2>1
  <2>3. CASE call = "connect" /\ call' = "startInLoop"
    <3>1. ~AskedFor
      BY <2>3 DEF AskedFor
    <3>2. QED
      BY <1>1, <1>3, <2>1, <2>2, <2>3, <3>1 DEF EndInv, StopUnderWay, Stop
  <2>4. CASE call = "stop" /\ call' = Stop /\ connect' = FALSE
    <3>1. AskedFor'
      BY <2>1, <2>4, <1>3 DEF EndInv, AskedFor, Stop
    <3>2. QED
      BY <1>1, <1>3, <2>1, <2>2, <2>4, <3>1 DEF EndInv, StopUnderWay
  <2>5. QED
    BY <2>1, <2>3, <2>4
<1>13. CASE Queue
  <2>1. /\ UNCHANGED <<script, clientConnect, retry, client, connect, pc>>
        /\ call \in {"startInLoop", "stopInLoop"} /\ call' = "none"
        /\ pending' = Append(pending, call)
    BY <1>13 DEF Queue, loopVars
  <2>2. AskedFor => AskedFor'
    BY <1>3, <2>1 DEF AskedFor
  <2>3. CASE call = "startInLoop"
    <3>1. ~AskedFor
      BY <2>3 DEF AskedFor
    <3>2. QED
      BY <1>1, <1>3, <1>7, <2>1, <2>3, <3>1 DEF EndInv, StopUnderWay, Stop
  <2>4. CASE call = "stopInLoop"
    BY <1>1, <1>3, <1>7, <2>1, <2>2, <2>4 DEF EndInv, StopUnderWay, Stop
  <2>5. QED
    BY <2>1, <2>3, <2>4
<1>14. CASE Disconnect \/ EnableRetry
  <2>1. /\ UNCHANGED <<call, client, pc, pending, connect>>
        /\ clientConnect' => clientConnect
        /\ retry => retry'
    BY <1>14 DEF Disconnect, EnableRetry, loopVars
  <2>2. AskedFor => AskedFor'
    BY <1>3, <2>1 DEF AskedFor
  <2>3. QED
    BY <1>1, <1>3, <1>7, <2>1, <2>2 DEF EndInv, StopUnderWay
<1>15. CASE QueueDestroy
  <2>1. /\ MakesCall("destroy") /\ pending' = Append(pending, "destroy")
        /\ UNCHANGED <<call, clientConnect, retry, client, connect, pc>>
    BY <1>15 DEF QueueDestroy, loopVars
  <2>2. AskedFor'
    BY <1>4, <1>6, <2>1 DEF AskedFor, Calls
  <2>3. QED
    BY <1>1, <1>3, <1>7, <2>1, <2>2 DEF EndInv, StopUnderWay
<1>16. QED
  BY <1>8, <1>9, <1>10, <1>11, <1>12, <1>13, <1>14, <1>15 DEF UserNext

(* A lost stop() stays lost: connect() was the only call that could set    *)
(* TcpClient::connect_.                                                    *)
LEMMA StopStaysLost ==
    ASSUME EndInv, StopLost, Next
    PROVE  StopLost'
<1>1. \/ script' = script
      \/ script # <<>> /\ script' = Tail(script) /\ (Head(script) = "connect" \/ retry' = TRUE)
  BY DEF Next, LoopNext, UserNext, Poll, HandleTimer, StartAgain, RunStart, HandleError, HandleWrite,
         RemoveConnection, Restart, DoPendingFunctors, RunStop, RunResetChannel, RunDestroy,
         RunFreed, PassDone, UserReturn, LoopConnect, LoopStop, CallConnectOrStop, SetConnect,
         Queue, Disconnect, EnableRetry, QueueDestroy, MakesCall, userVars, StopLost
<1>2. /\ Holds(script, "connect")' => Holds(script, "connect")
      /\ \A c \in Calls : MakesCall(c) => c # "connect"
  BY <1>1, ConnectsFirstKept DEF EndInv, StopLost, AskedFor, MakesCall
<1>3. call \notin {"connect", "startInLoop"} /\ ~Holds(script, "connect") /\ ~clientConnect /\ retry
  BY DEF StopLost, AskedFor
<1>4. CASE LoopNext
  <2>1. UNCHANGED <<call, clientConnect, retry>>
    BY <1>4 DEF LoopNext, Poll, HandleTimer, StartAgain, RunStart, HandleError, HandleWrite,
         RemoveConnection, Restart, DoPendingFunctors, RunStop, RunResetChannel, RunDestroy,
         RunFreed, PassDone, userVars
  <2>2. QED
    BY <1>2, <1>3, <2>1 DEF StopLost, AskedFor
<1>5. CASE UserNext
  <2>1. ASSUME NEW c, CallConnectOrStop(c)
        PROVE  call' = "stop" /\ ~clientConnect' /\ retry'
    BY <1>2, <1>3, <2>1 DEF CallConnectOrStop, Calls
  <2>2. ASSUME NEW result, LoopConnect(result)
        PROVE  FALSE
    BY <1>2, <2>2 DEF LoopConnect, Calls
  <2>3. ASSUME \/ UserReturn \/ LoopStop \/ SetConnect \/ Queue \/ Disconnect \/ EnableRetry
               \/ QueueDestroy
        PROVE  call' \notin {"connect", "startInLoop"} /\ ~clientConnect' /\ retry'
    <3>1. call' \in {call, "none", "stopInLoop"}
      BY <1>3, <2>3 DEF UserReturn, LoopStop, SetConnect, Queue, Disconnect, EnableRetry,
                        QueueDestroy, userVars
    <3>2. (clientConnect' => clientConnect) /\ (retry => retry')
      BY <2>3 DEF UserReturn, LoopStop, SetConnect, Queue, Disconnect, EnableRetry,
                  QueueDestroy, userVars
    <3>3. QED
      BY <1>3, <3>1, <3>2
  <2>4. call' \notin {"connect", "startInLoop"} /\ ~clientConnect' /\ retry'
    BY <1>5, <2>1, <2>2, <2>3 DEF UserNext
  <2>5. QED
    BY <1>2, <1>3, <2>4 DEF StopLost, AskedFor
<1>6. QED
  BY <1>4, <1>5 DEF Next

(* A step that neither ends an attempt nor begins one anew.                *)
LEMMA OthersKeepChannelInv ==
    ASSUME ChannelInv, AttemptKept, StopLost => StopLost', active' \subseteq active,
           state' = "kConnected" => state = "kConnected",
           channel' = "removed" => /\ channel = "removed"
                                   /\ Held(Reset) => Held(Reset)'
                                   /\ ResetSoon => BeforeReset'
    PROVE  ChannelInv'
<1>1. Reached \subseteq Settled => Reached' \subseteq Reached
  BY DEF AttemptKept
<1>2. state' = "kConnected" => Reached' \subseteq {"up"}
  BY <1>1 DEF ChannelInv, Settled
<1>3. ASSUME channel' = "removed"
      PROVE  Reached' = {} \/ StopLost' \/ ResetSoon'
  <2>1. CASE Reached = {}
    BY <1>1, <2>1
  <2>2. CASE ResetSoon
    BY <1>1, <1>3, <2>2 DEF ResetSoon
  <2>3. QED
    BY <1>3, <2>1, <2>2 DEF ChannelInv
<1>4. QED
  BY <1>2, <1>3 DEF ChannelInv

(* startInLoop() is called from kDisconnected, and connecting() when there *)
(* is no channel, or a stop() was lost: an attempt that starts is the only *)
(* one, and the channel of the last one was reset before.                  *)
LEMMA StartingAsserts ==
    ASSUME ChannelInv, AttemptInv, SocketInv, AssertInv, fault = "none", StopLost => StopLost',
           NEW result, StartInLoop(result),
           NEW s \in {"script", "batch", "expired", "start"}, s \in Reached
    PROVE  /\ StateTypes' /\ AssertsHold'
           /\ state' = "kConnected" => state = "kConnected"
           /\ channel' = "removed" => channel = "removed"
<1>1. state = "kDisconnected"
  <2>1. state # "kConnecting"
    BY DEF AttemptInv, Reached, Stages
  <2>2. state # "kConnected"
    BY DEF ChannelInv
  <2>3. QED
    BY <2>1, <2>2 DEF AssertInv, StateTypes
<1>2. channel \in {"none", "removed"}
  BY <1>1 DEF SocketInv, OwnsWhileConnecting, AssertInv, StateTypes
<1>3. channel = "removed" => StopLost
  BY DEF ChannelInv, ResetSoon, Settled
<1>4. CASE UNCHANGED <<channel, fault>> /\ state' \in {state, "kDisconnected"}
  BY <1>1, <1>2, <1>4 DEF StateTypes, AssertsHold
<1>5. CASE Connecting
  BY <1>1, <1>2, <1>3, <1>5 DEF Connecting, StateTypes, AssertsHold, StopLost
<1>6. QED
  BY <1>1, <1>4, <1>5 DEF StartInLoop, Connect, Retry, attemptVars

(* startInLoop() is called at a stage at which an attempt is due.          *)
LEMMA StartHasStage ==
    ASSUME AttemptInv, SocketInv, NEW result,
           HandleTimer(result) \/ StartAgain(result) \/ RunStart(result) \/ LoopConnect(result)
    PROVE  \E s \in {"script", "batch", "expired", "start"} : s \in Reached
<1>1. HandleTimer(result) => "expired" \in Reached
  BY DEF HandleTimer, Reached, Stages
<1>2. StartAgain(result) => "start" \in Reached
  BY DEF StartAgain, At, Reached, Stages
<1>3. RunStart(result) => "batch" \in Reached
  <2>1. RunStart(result) => Running(Start)
    BY DEF RunStart, Start
  <2>2. QED
    BY <2>1, RunningHeld DEF SocketInv, Reached, Stages
<1>4. LoopConnect(result) => "script" \in Reached
  <2>1. LoopConnect(result) => script # <<>> /\ Head(script) = "connect"
    BY DEF LoopConnect, MakesCall
  <2>2. script # <<>> /\ Head(script) = "connect" => Holds(script, "connect")
    BY TailHolds DEF AttemptInv
  <2>3. QED
    BY <2>1, <2>2 DEF Reached, Stages
<1>5. QED
  BY <1>1, <1>2, <1>3, <1>4

(* An attempt starts.                                                      *)
LEMMA StartingKeepsAsserts ==
    ASSUME ChannelInv, AttemptInv, SocketInv, AssertInv, fault = "none", StopLost => StopLost',
           NEW result,
           HandleTimer(result) \/ StartAgain(result) \/ RunStart(result) \/ LoopConnect(result)
    PROVE  StateTypes' /\ AssertsHold' /\ ChannelInv'
<1>1. StartInLoop(result) /\ pending' = pending /\ active' \subseteq active
  BY DEF HandleTimer, StartAgain, RunStart, LoopConnect, loopVars
<1>2. \E s \in {"script", "batch", "expired", "start"} : s \in Reached
  BY StartHasStage
<1>3. /\ StateTypes' /\ AssertsHold'
      /\ state' = "kConnected" => state = "kConnected"
      /\ channel' = "removed" => channel = "removed"
  BY <1>1, <1>2, StartingAsserts
<1>4. AttemptKept
  BY StartingKeepsAttempt
<1>5. ResetSoon => FALSE
  BY <1>2 DEF ResetSoon, Settled
<1>6. Held(Reset) => Held(Reset)'
  <2>1. CASE RunStart(result)
    <3>1. Running("startInLoop") /\ "startInLoop" # Reset
      BY <2>1 DEF RunStart, Reset
    <3>2. ResetsKept
      BY <1>1, <3>1, RunningKeepsResets
    <3>3. QED
      BY <3>2 DEF ResetsKept, Held
  <2>2. CASE ~RunStart(result)
    <3>1. batch' = batch
      BY <2>2 DEF HandleTimer, StartAgain, LoopConnect, loopVars
    <3>2. QED
      BY <1>1, <3>1 DEF Held, Holds
  <2>3. QED
    BY <2>1, <2>2
<1>7. QED
  BY <1>1, <1>3, <1>4, <1>5, <1>6, OthersKeepChannelInv

(* One ends, or the callback finds none: then it has ended before.         *)
LEMMA EndingKeepsAsserts ==
    ASSUME ChannelInv, AttemptInv, SocketInv, AssertInv, fault = "none", StopLost => StopLost',
           HandleError \/ RunStop \/ \E connected \in BOOLEAN : HandleWrite(connected)
    PROVE  StateTypes' /\ AssertsHold' /\ ChannelInv'
<1>1. AttemptKept /\ (StillConnecting => Reached' \subseteq Settled)
  BY EndingKeepsAttempt
<1>2. active' \subseteq active
  BY DEF HandleError, RunStop, HandleWrite
<1>3. CASE ~StillConnecting
  <2>1. UNCHANGED <<state, channel, pending>>
    BY <1>3 DEF HandleError, RunStop, HandleWrite
  <2>2. AssertsHold'
    <3>1. CASE HandleError \/ RunStop
      BY <3>1 DEF HandleError, RunStop, AssertsHold
    <3>2. CASE \E connected \in BOOLEAN : HandleWrite(connected)
      <4>1. state # "kConnected" /\ state # "kConnecting"
        BY <1>3, <3>2 DEF HandleWrite, ChannelInv, StillConnecting
      <4>2. state = "kDisconnected"
        BY <4>1 DEF AssertInv, StateTypes
      <4>3. QED
        BY <1>3, <3>2, <4>2 DEF HandleWrite, AssertsHold
    <3>3. QED
      BY <3>1, <3>2
  <2>3. /\ Holds(batch, Reset) => Holds(batch, Reset)'
        /\ BeforeReset => BeforeReset'
    <3>1. CASE RunStop
      <4>1. Running(Stop) /\ Stop # Reset /\ pc' = pc
        BY <3>1 DEF RunStop, Stop, Reset
      <4>2. ResetsKept
        BY <2>1, <4>1, RunningKeepsResets
      <4>3. QED
        BY <4>1, <4>2 DEF ResetsKept, BeforeReset
    <3>2. CASE ~RunStop
      <4>1. batch' = batch /\ pc' \in {"events", "write", "onConnection"}
        BY <3>2 DEF HandleError, HandleWrite, HandleConnected
      <4>2. QED
        BY <4>1 DEF Holds, BeforeReset
    <3>3. QED
      BY <3>1, <3>2
  <2>4. Held(Reset) => Held(Reset)'
    BY <2>1, <2>3 DEF Held, Holds
  <2>5. ChannelInv'
    BY <1>1, <1>2, <2>1, <2>3, <2>4, OthersKeepChannelInv DEF ResetSoon
  <2>6. QED
    BY <2>1, <2>2, <2>5 DEF AssertInv, StateTypes
<1>4. CASE StillConnecting
  <2>1. /\ state = "kConnecting" /\ "connecting" \in Reached /\ timers = 0
        /\ conn # "open" /\ "conn" \notin active /\ pc # "restart"
    BY <1>4 DEF StillConnecting, Reached, Stages, AttemptInv, SocketInv, UpIsConnected
  <2>2. /\ channel' = "removed" /\ pending' = Append(pending, Reset)
        /\ state' \in {"kDisconnected", "kConnected"} /\ fault' = "none"
    BY <1>4, <2>1 DEF HandleError, RunStop, HandleWrite, HandleConnected, Retry,
                      RemoveAndResetChannel, Reset
  <2>3. Held(Reset)'
    <3>1. Holds(Append(pending, Reset), Reset)
      BY AppendHolds DEF SocketInv, QueueTypes, Functors, Reset
    <3>2. QED
      BY <2>2, <3>1 DEF Held, Holds
  <2>4. Reached' = {} \/ StopLost' \/ ResetSoon'
    <3>1. CASE RunStop
      <4>1. Running(Stop) /\ UNCHANGED <<pc, conn, connect, call>>
        BY <3>1 DEF RunStop, Stop, userVars
      <4>2. StopUnderWay
        BY <4>1, RunningHeld DEF StopUnderWay, Held, SocketInv
      <4>3. CASE connect
        BY <4>2, <4>3 DEF AssertInv, EndInv, StopLost
      <4>4. CASE ~connect
        <5>1. timers' = 0
          BY <1>4, <2>1, <3>1, <4>1, <4>4 DEF RunStop, Retry
        <5>2. QED
          BY <1>1, <1>4, <2>1, <4>1, <5>1 DEF Reached, Settled
      <4>5. QED
        BY <4>3, <4>4
    <3>2. CASE ~RunStop
      <4>1. pc' \in {"events", "write", "onConnection"}
        BY <3>2 DEF HandleError, HandleWrite, HandleConnected
      <4>2. QED
        BY <1>1, <1>2, <1>4, <2>1, <4>1 DEF ResetSoon, BeforeReset
    <3>3. QED
      BY <3>1, <3>2
  <2>5. state' = "kConnected" => Reached' \subseteq {"up"} /\ "out" \notin active'
    <3>1. state' = "kConnected" => timers' = 0 /\ "out" \notin active'
      BY <1>4, <2>1 DEF HandleError, RunStop, HandleWrite, HandleConnected, Retry
    <3>2. QED
      BY <1>1, <1>4, <3>1 DEF Reached, Settled
  <2>6. QED
    BY <2>2, <2>3, <2>4, <2>5 DEF StateTypes, AssertsHold, ChannelInv
<1>5. QED
  BY <1>3, <1>4

(* poll() reports a socket as writable only while it is connecting.        *)
LEMMA PollKeepsChannelInv ==
    ASSUME ChannelInv, AttemptInv, SocketInv, fault = "none", StopLost => StopLost',
           NEW events, Poll(events)
    PROVE  ChannelInv'
<1>1. /\ UNCHANGED <<channel, state, pending, batch>> /\ pc = "poll"
      /\ "out" \in active' => channel = "polled"
  BY DEF Poll, Reportable, At
<1>2. Reached \subseteq {"up"} => Reached' \subseteq Reached
  BY PollKeepsAttemptInv
<1>3. "out" \in active' => state' # "kConnected"
  BY <1>1 DEF SocketInv, OwnsWhileConnecting
<1>4. (Held(Reset) <=> Held(Reset)') /\ ~ResetSoon
  BY <1>1 DEF Held, Holds, ResetSoon, BeforeReset
<1>5. QED
  BY <1>1, <1>2, <1>3, <1>4 DEF ChannelInv

(* In restart() the channel is reset, or a stop() was lost.                *)
LEMMA RestartKeepsChannelInv ==
    ASSUME ChannelInv, SocketInv, StopLost => StopLost', Restart
    PROVE  ChannelInv'
<1>1. /\ UNCHANGED <<channel, pending, batch>> /\ pc = "restart" /\ state' = "kDisconnected"
  BY DEF Restart, At
<1>2. (Held(Reset) <=> Held(Reset)') /\ "up" \in Reached /\ ~ResetSoon
  BY <1>1 DEF Held, Holds, Reached, Stages, ResetSoon, BeforeReset
<1>3. QED
  BY <1>1, <1>2 DEF ChannelInv

(* The reset that was queued is in the batch.                              *)
LEMMA SwapKeepsChannelInv ==
    ASSUME ChannelInv, AttemptInv, SocketInv, fault = "none", StopLost => StopLost',
           DoPendingFunctors
    PROVE  ChannelInv'
<1>1. /\ UNCHANGED <<active, state, channel>> /\ pc = "events"
      /\ pc' = "functors" /\ batch' = pending
  BY DEF DoPendingFunctors, attemptVars, At
<1>2. Held(Reset) => Holds(batch, Reset)'
  BY <1>1 DEF SocketInv, ResetOnce, Held, Holds
<1>3. channel = "removed" => Held(Reset)' /\ BeforeReset'
  BY <1>1, <1>2 DEF ChannelInv, Held, BeforeReset
<1>4. AttemptKept
  BY SwapKeepsAttempt
<1>5. QED
  BY <1>1, <1>3, <1>4, OthersKeepChannelInv

(* The other steps do not start, end or reset anything.                    *)
LEMMA QuietStepsKeepChannelInv ==
    ASSUME ChannelInv, AttemptInv, SocketInv, fault = "none", StopLost => StopLost',
           \/ RemoveConnection \/ RunResetChannel \/ RunDestroy \/ PassDone
           \/ UserReturn \/ LoopStop \/ Disconnect \/ EnableRetry \/ QueueDestroy
           \/ SetConnect \/ Queue \/ \E c \in Calls : CallConnectOrStop(c)
    PROVE  ChannelInv'
<1>1. AttemptKept
  BY QuietStepsKeepAttempt, ConnectKeepsAttempt
<1>2. /\ UNCHANGED state /\ active' \subseteq active
      /\ channel' = channel \/ channel' = "none"
  BY DEF RemoveConnection, RunResetChannel, RunDestroy, PassDone, UserReturn, LoopStop,
         Disconnect, EnableRetry, QueueDestroy, SetConnect, Queue, CallConnectOrStop,
         userVars, loopVars, attemptVars
<1>3. CASE RunResetChannel
  BY <1>1, <1>2, <1>3, OthersKeepChannelInv DEF RunResetChannel
<1>4. CASE RunDestroy
  <2>1. /\ Running("destroy") /\ "destroy" # Reset /\ pc' = pc
        /\ pending' = pending \/ \E f \in {Stop} : pending' = Append(pending, f)
    BY <1>4 DEF RunDestroy, Reset, Stop
  <2>2. Stop \in Functors /\ Stop # Reset
    BY DEF Functors, Stop, Reset
  <2>3. ResetsKept
    BY <2>1, <2>2, RunningKeepsResets
  <2>4. (Held(Reset) => Held(Reset)') /\ (BeforeReset => BeforeReset')
    BY <2>1, <2>3 DEF ResetsKept, Held, BeforeReset
  <2>5. QED
    BY <1>1, <1>2, <1>4, <2>4, OthersKeepChannelInv DEF RunDestroy, attemptVars, ResetSoon
<1>5. CASE ~RunResetChannel /\ ~RunDestroy
  <2>1. /\ batch' = batch
        /\ pending' = pending \/ \E f \in Functors : pending' = Append(pending, f)
    BY <1>5 DEF RemoveConnection, PassDone, UserReturn, LoopStop, Disconnect, EnableRetry,
                QueueDestroy, SetConnect, Queue, CallConnectOrStop, loopVars, Functors
  <2>2. Held(Reset) => Held(Reset)'
    <3>1. \A f \in Functors : Holds(pending, Reset) => Holds(Append(pending, f), Reset)
      BY AppendHolds DEF SocketInv, QueueTypes
    <3>2. QED
      BY <2>1, <3>1 DEF Held, Holds
  <2>3. ResetSoon => BeforeReset'
    <3>1. CASE RemoveConnection \/ PassDone \/ UserReturn
      <4>1. PassDone => ~Holds(batch, Reset)
        BY DEF PassDone, Holds
      <4>2. QED
        BY <3>1, <4>1 DEF RemoveConnection, PassDone, UserReturn, At, UserCode, ResetSoon,
                          BeforeReset
    <3>2. CASE ~RemoveConnection /\ ~PassDone /\ ~UserReturn
      <4>1. pc' = pc
        BY <1>5, <3>2 DEF LoopStop, Disconnect, EnableRetry, QueueDestroy, SetConnect, Queue,
                          CallConnectOrStop, loopVars
      <4>2. QED
        BY <2>1, <4>1 DEF ResetSoon, BeforeReset, Holds
    <3>3. QED
      BY <3>1, <3>2
  <2>4. QED
    BY <1>1, <1>2, <1>5, <2>2, <2>3, OthersKeepChannelInv
<1>6. QED
  BY <1>3, <1>4, <1>5

(* They assert nothing, but for what ~Connector() does.                    *)
LEMMA QuietStepsKeepAsserts ==
    ASSUME AssertInv, fault = "none",
           \/ \E events \in SUBSET Reportable : Poll(events)
           \/ Restart \/ DoPendingFunctors \/ RunFreed
           \/ RemoveConnection \/ RunResetChannel \/ RunDestroy \/ PassDone
           \/ UserReturn \/ LoopStop \/ Disconnect \/ EnableRetry \/ QueueDestroy
           \/ SetConnect \/ Queue \/ \E c \in Calls : CallConnectOrStop(c)
    PROVE  StateTypes' /\ AssertsHold'
<1>1. fault' \in {"none", "freed", "destructor"}
  BY DEF Poll, Restart, DoPendingFunctors, RunFreed, RemoveConnection, RunResetChannel, RunDestroy,
         PassDone, UserReturn, LoopStop, Disconnect, EnableRetry, QueueDestroy, SetConnect,
         Queue, CallConnectOrStop
<1>2. channel' \in {channel, "none"} /\ state' \in {state, "kDisconnected"}
  BY DEF Poll, Restart, DoPendingFunctors, RunFreed, RemoveConnection, RunResetChannel, RunDestroy,
         PassDone, UserReturn, LoopStop, Disconnect, EnableRetry, QueueDestroy, SetConnect,
         Queue, CallConnectOrStop, attemptVars
<1>3. QED
  BY <1>1, <1>2 DEF AssertInv, StateTypes, AssertsHold

(* Together, with what is known of the sockets and of the attempts.        *)
LEMMA AssertInvIsInductive ==
    ASSUME SocketInv, AttemptInv, AssertInv, [Next]_vars
    PROVE  AssertInv'
<1>1. CASE UNCHANGED vars
  BY <1>1 DEF vars, userVars, loopVars, attemptVars, AssertInv, StateTypes, AssertsHold, EndInv,
              AskedFor, StopUnderWay, ConnectsFirst, Once, Holds, Held, ChannelInv, ResetSoon,
              BeforeReset, StopLost, Reached
<1>2. CASE Next
  <2>1. fault = "none" /\ EndInv /\ ChannelInv
    BY <1>2, StepsWithoutFault DEF AssertInv
  <2>2. EndInv'
    BY <1>2, <2>1, LoopKeepsEndInv, UserKeepsEndInv DEF Next
  <2>3. StopLost => StopLost'
    BY <1>2, <2>1, StopStaysLost
  <2>4. CASE RunFreed
    BY <2>1, <2>4, QuietStepsKeepAsserts DEF AssertInv, RunFreed
  <2>5. CASE LoopNext /\ ~RunFreed
    BY <2>1, <2>2, <2>3, <2>5, StartingKeepsAsserts, EndingKeepsAsserts, PollKeepsChannelInv,
       RestartKeepsChannelInv, SwapKeepsChannelInv, QuietStepsKeepChannelInv,
       QuietStepsKeepAsserts DEF LoopNext, AssertInv
  <2>6. CASE UserNext
    BY <2>1, <2>2, <2>3, <2>6, StartingKeepsAsserts, QuietStepsKeepChannelInv,
       QuietStepsKeepAsserts DEF UserNext, AssertInv
  <2>7. QED
    BY <1>2, <2>4, <2>5, <2>6 DEF Next
<1>3. QED
  BY <1>1, <1>2

(* They hold at first.                                                     *)
LEMMA InitialAsserts ==
    ASSUME \A s \in Scripts : ConnectsFirst(s), Init
    PROVE  AssertInv
<1>1. ~Held(Stop) /\ ~Held("destroy")
  BY DEF Init, Held, Holds
<1>2. ConnectsFirst(script)
  BY DEF Init
<1>3. EndInv
  BY <1>1, <1>2 DEF Init, EndInv, StopUnderWay, Stop
<1>4. QED
  BY <1>3 DEF Init, AssertInv, StateTypes, AssertsHold, ChannelInv

(* For a user that connects once, and does so first: the asserts of        *)
(* startInLoop() and handlewrite() hold, and the one of connecting() fails *)
(* only after a stop() that was lost on restart().                         *)
THEOREM AssertsAlwaysHold ==
    ASSUME \A s \in Scripts : ConnectsFirst(s)
    PROVE  Spec => []AssertsHold
<1>1. Init => AttemptInv
  BY InitialAttempt DEF ConnectsFirst, Init
<1>2. Init => AssertInv
  BY InitialAsserts
<1>3. AssertInv => AssertsHold
  BY DEF AssertInv
<1>4. SocketInv /\ AttemptInv /\ [Next]_vars => AttemptInv'
  BY AttemptInvIsInductive
<1>5. SocketInv /\ AttemptInv /\ AssertInv /\ [Next]_vars => AssertInv'
  BY AssertInvIsInductive
<1>6. QED
  BY <1>1, <1>2, <1>3, <1>4, <1>5, SocketInvIsInductive, PTL DEF Spec

---------------------------------------------------------------------------
(* The destructor of the client.                                           *)

(* The user has the loop destroy the client in its last call, since there  *)
(* is no client to be called afterwards.                                   *)
DestroysLast(s) == \A i \in 1 .. Len(s) : s[i] = "destroy" => i = Len(s)

(* Behind the destructor only resets of the channel are queued, for failed *)
(* attempts: what the user's calls had queued runs before it.              *)
Behind(s) == \A i, j \in 1 .. Len(s) : s[i] = "destroy" /\ i < j => s[j] = Reset

InOrder ==
    /\ Behind(pending) /\ Behind(batch)
    /\ Holds(batch, "destroy") => \A f \in Functors \ {Reset} : ~Holds(pending, f)

(* What ~TcpClient() leaves: no connect_, or a connection that was up, with*)
(* nothing queued for a connector that no Timer keeps.                     *)
LeftInv ==
    /\ client # "alive" => ~Held("destroy")
    /\ client = "abandoned" => ~connect
    /\ client = "gone" => Reached \subseteq {"up"} /\ (kept \/ \A f \in Functors : ~Held(f))

CallsOver == script = <<>> /\ call = "none"

DestroyInv ==
    /\ DestroyIsSafe /\ client \in {"alive", "gone", "abandoned"}
    /\ fault = "none" => /\ DestroysLast(script)
                         /\ Held("destroy") \/ client # "alive" => CallsOver
                         /\ InOrder
                         /\ LeftInv

(* The queues of a step that queues a reset, or anything before the        *)
(* destructor is queued.                                                   *)
LEMMA OrderKept ==
    ASSUME QueueTypes, InOrder,
           batch' = batch \/ (batch # <<>> /\ batch' = Tail(batch)),
           \/ pending' = pending
           \/ \E f \in Functors : pending' = Append(pending, f) /\ (f = Reset \/ ~Held("destroy"))
    PROVE  InOrder'
<1>1. /\ pending \in Seq(Functors) /\ batch \in Seq(Functors)
      /\ Len(pending) \in Nat /\ Len(batch) \in Nat
  BY DEF QueueTypes
<1>2. Behind(batch')
  <2>1. CASE batch # <<>> /\ batch' = Tail(batch)
    <3>1. /\ Len(Tail(batch)) = Len(batch) - 1
          /\ \A i \in 1 .. Len(Tail(batch)) : Tail(batch)[i] = batch[i + 1]
      BY <1>1, <2>1, HeadTailProperties
    <3>2. ASSUME NEW i \in 1 .. Len(Tail(batch)), NEW j \in 1 .. Len(Tail(batch)),
                 Tail(batch)[i] = "destroy", i < j
          PROVE  Tail(batch)[j] = Reset
      <4>1. /\ i + 1 \in 1 .. Len(batch) /\ j + 1 \in 1 .. Len(batch) /\ i + 1 < j + 1
            /\ batch[i + 1] = "destroy" /\ Tail(batch)[j] = batch[j + 1]
        BY <1>1, <3>1, <3>2
      <4>2. QED
        BY <4>1 DEF InOrder, Behind
    <3>3. QED
      BY <2>1, <3>2 DEF Behind
  <2>2. QED
    BY <2>1 DEF InOrder
<1>3. Holds(batch', "destroy") => Holds(batch, "destroy")
  BY <1>1, TailHolds
<1>4. ASSUME NEW f \in Functors, pending' = Append(pending, f), f = Reset \/ ~Held("destroy")
      PROVE  InOrder'
  <2>1. /\ Len(Append(pending, f)) = Len(pending) + 1
        /\ \A i \in 1 .. Len(pending) : Append(pending, f)[i] = pending[i]
        /\ Append(pending, f)[Len(pending) + 1] = f
    BY <1>1
  <2>2. Behind(pending')
    <3>1. CASE f = Reset
      <4>1. ASSUME NEW i \in 1 .. Len(pending) + 1, NEW j \in 1 .. Len(pending) + 1,
                   Append(pending, f)[i] = "destroy", i < j
            PROVE  Append(pending, f)[j] = Reset
        <5>1. i \in 1 .. Len(pending) /\ (j \in 1 .. Len(pending) \/ j = Len(pending) + 1)
          <6>1. Len(pending) \in Nat /\ i < j
            BY <1>1, <4>1
          <6>2. QED
            BY <6>1
        <5>2. pending[i] = "destroy"
          <6>1. Append(pending, f)[i] = pending[i]
            BY <2>1, <5>1
          <6>2. QED
            BY <4>1, <6>1
        <5>3. CASE j \in 1 .. Len(pending)
          <6>1. pending[j] = Reset
            BY <4>1, <5>1, <5>2, <5>3 DEF InOrder, Behind
          <6>2. QED
            BY <2>1, <5>3, <6>1
        <5>4. CASE j = Len(pending) + 1
          BY <2>1, <3>1, <5>4
        <5>5. QED
          BY <5>1, <5>3, <5>4
      <4>2. QED
        BY <1>4, <2>1, <4>1 DEF Behind
    <3>2. CASE ~Held("destroy")
      BY <1>1, <1>4, <2>1, <3>2 DEF Behind, Held, Holds
    <3>3. QED
      BY <1>4, <3>1, <3>2
  <2>3. Holds(batch', "destroy") => \A g \in Functors \ {Reset} : ~Holds(pending', g)
    <3>1. \A g : Holds(Append(pending, f), g) => Holds(pending, g) \/ f = g
      BY <1>1, AppendHolds
    <3>2. QED
      BY <1>3, <1>4, <3>1 DEF InOrder, Held
  <2>4. QED
    BY <1>2, <2>2, <2>3 DEF InOrder, Behind, Holds
<1>5. CASE pending' = pending
  BY <1>2, <1>3, <1>5 DEF InOrder, Behind, Holds
<1>6. QED
  BY <1>4, <1>5

(* The loop's thread, but for ~TcpClient() itself: it makes no calls, and  *)
(* what it queues are resets.                                              *)
LEMMA LoopKeepsOrder ==
    ASSUME DestroyInv, SocketInv, fault = "none", LoopNext, ~RunDestroy
    PROVE  /\ UNCHANGED <<script, call, client>>
           /\ InOrder' /\ (Held("destroy")' => Held("destroy"))
<1>1. UNCHANGED <<script, call, client>>
  BY DEF LoopNext, Poll, HandleTimer, StartAgain, RunStart, HandleError, HandleWrite,
         RemoveConnection, Restart, DoPendingFunctors, RunStop, RunResetChannel, RunFreed,
         PassDone, userVars
<1>2. CASE DoPendingFunctors
  <2>1. batch' = pending /\ pending' = <<>>
    BY <1>2 DEF DoPendingFunctors
  <2>2. QED
    BY <1>1, <2>1 DEF DestroyInv, InOrder, Behind, Held, Holds
<1>3. CASE ~DoPendingFunctors
  <2>1. /\ batch' = batch \/ (batch # <<>> /\ batch' = Tail(batch))
        /\ pending' = pending \/ \E f \in {Reset} : pending' = Append(pending, f)
    BY <1>3 DEF LoopNext, Poll, HandleTimer, StartAgain, RunStart, HandleError, HandleWrite,
                RemoveConnection, Restart, RunStop, RunResetChannel, RunFreed, PassDone, Running,
                RemoveAndResetChannel, Reset
  <2>2. {Reset} \in SUBSET Functors /\ "destroy" \notin {Reset}
    BY DEF Functors, Reset
  <2>3. Held("destroy")' => Held("destroy")
    BY <2>1, <2>2, HeldKept DEF SocketInv
  <2>4. InOrder'
    BY <2>1, <2>2, OrderKept DEF SocketInv, DestroyInv
  <2>5. QED
    BY <1>1, <2>3, <2>4
<1>4. QED
  BY <1>2, <1>3

(* A connection that was up when the client was destroyed ends, and nothing*)
(* else happens: nothing is due, nothing is queued and no Timer is made.   *)
LEMMA GoneStaysQuiet ==
    ASSUME DestroyInv, EndInv, AttemptInv, SocketInv, fault = "none", client = "gone",
           LoopNext, ~RunDestroy
    PROVE  /\ fault' \in {"none", "handlewrite"} /\ Reached' \subseteq {"up"}
           /\ kept' \/ \A f \in Functors : ~Held(f)'
<1>1. Reached \subseteq {"up"} /\ (kept \/ \A f \in Functors : ~Held(f)) /\ pc # "restart"
  BY DEF DestroyInv, LeftInv, EndInv
<1>2. ~StillConnecting
  BY <1>1 DEF StillConnecting, Reached, Stages
<1>3. \A result : ~HandleTimer(result) /\ ~StartAgain(result) /\ ~RunStart(result)
  BY <1>1, StartHasStage
<1>4. ~Restart
  BY <1>1 DEF Restart, At
<1>5. ~RunFreed
  <2>1. RunFreed => \E f \in {"startInLoop", "stopInLoop", "resetChannel"} : Running(f) /\ ~kept
    BY DEF RunFreed, Freed
  <2>2. \A f \in {"startInLoop", "stopInLoop", "resetChannel"} : Running(f) => Held(f)
    BY RunningHeld DEF Held, SocketInv
  <2>3. {"startInLoop", "stopInLoop", "resetChannel"} \subseteq Functors
    BY DEF Functors
  <2>4. QED
    BY <1>1, <2>1, <2>2, <2>3
<1>6. /\ \/ \E events \in SUBSET Reportable : Poll(events)
         \/ HandleError \/ RunStop \/ \E connected \in BOOLEAN : HandleWrite(connected)
         \/ RemoveConnection \/ RunResetChannel \/ DoPendingFunctors \/ PassDone
      /\ UNCHANGED <<state, kept>>
      /\ \/ pending' = pending /\ (batch' = batch \/ (batch # <<>> /\ batch' = Tail(batch)))
         \/ pending' = <<>> /\ batch' = pending
      /\ fault' \in {"none", "handlewrite"}
  BY <1>2, <1>3, <1>4, <1>5
     DEF LoopNext, Poll, HandleError, HandleWrite, RemoveConnection, DoPendingFunctors, RunStop,
         RunResetChannel, PassDone, Running, attemptVars
<1>7. Reached' \subseteq {"up"}
  <2>1. Reached \subseteq Settled
    BY <1>1 DEF Settled
  <2>2. Reached' \subseteq Reached
    BY <1>1, <1>6, <2>1, PollKeepsAttemptInv, EndingKeepsAttempt, SwapKeepsAttempt,
       QuietStepsKeepAttempt DEF AttemptKept
  <2>3. QED
    BY <1>1, <2>2
<1>8. ASSUME ~kept, NEW f \in Functors
      PROVE  ~Held(f)'
  <2>1. ~Holds(pending, f) /\ ~Holds(batch, f)
    BY <1>1, <1>8 DEF Held
  <2>2. batch # <<>> => ~Holds(Tail(batch), f)
    BY <2>1, TailHolds DEF SocketInv, QueueTypes
  <2>3. ~Holds(<<>>, f)
    BY DEF Holds
  <2>4. QED
    BY <1>6, <2>1, <2>2, <2>3 DEF Held, Holds
<1>9. QED
  BY <1>6, <1>7, <1>8

(* An attempt that is abandoned starts no other one: connect_ stays false. *)
LEMMA AbandonedStaysQuiet ==
    ASSUME DestroyInv, EndInv, fault = "none", client = "abandoned", LoopNext, ~RunDestroy
    PROVE  /\ connect' = FALSE
           /\ fault' \in {"none", "startInLoop", "handlewrite"} \/ (fault' = "freed" /\ ~kept')
<1>1. connect = FALSE /\ ~Restart
  BY DEF DestroyInv, LeftInv, EndInv, Restart, At
<1>2. connect' = FALSE
  BY <1>1 DEF LoopNext, Poll, HandleTimer, StartAgain, RunStart, HandleError, HandleWrite,
              RemoveConnection, DoPendingFunctors, RunStop, RunResetChannel, RunFreed, PassDone
<1>3. CASE RunFreed
  BY <1>2, <1>3 DEF RunFreed, Freed, attemptVars
<1>4. ASSUME NEW result, HandleTimer(result) \/ StartAgain(result) \/ RunStart(result)
      PROVE  fault' \in {"none", "startInLoop"}
  BY <1>2, <1>4 DEF HandleTimer, StartAgain, RunStart, StartInLoop, MayStart
<1>5. QED
  BY <1>1, <1>2, <1>3, <1>4
     DEF LoopNext, Poll, HandleError, HandleWrite, RemoveConnection, DoPendingFunctors, RunStop,
         RunResetChannel, PassDone

(* The loop's thread keeps the invariant ...                               *)
LEMMA LoopKeepsDestroyInv ==
    ASSUME DestroyInv, EndInv, AttemptInv, SocketInv, fault = "none", AssertsHold',
           LoopNext, ~RunDestroy
    PROVE  DestroyInv'
<1>1. /\ UNCHANGED <<script, call, client>>
      /\ InOrder' /\ (Held("destroy")' => Held("destroy"))
  BY LoopKeepsOrder
<1>2. fault' \notin {"startInLoop", "handlewrite"}
  BY DEF AssertsHold
<1>3. client = "gone" => /\ fault' = "none" /\ Reached' \subseteq {"up"}
                         /\ kept' \/ \A f \in Functors : ~Held(f)'
  BY <1>2, GoneStaysQuiet
<1>4. client = "abandoned" => connect' = FALSE /\ (fault' # "none" => ~kept')
  BY <1>2, AbandonedStaysQuiet
<1>5. DestroyIsSafe' /\ (fault' = "none" => LeftInv')
  BY <1>1, <1>3, <1>4 DEF DestroyIsSafe, DestroyInv, LeftInv
<1>6. QED
  BY <1>1, <1>5 DEF DestroyInv, CallsOver, DestroysLast

(* ... and so does ~TcpClient(). If the connection is up, only the reset of*)
(* its attempt's channel may still be queued.                              *)
LEMMA RunDestroyKeepsDestroyInv ==
    ASSUME DestroyInv, ChannelInv, StateTypes, AttemptInv, SocketInv, fault = "none", RunDestroy
    PROVE  DestroyInv'
<1>1. /\ UNCHANGED <<script, call, conn, kept, channel>>
      /\ batch # <<>> /\ Head(batch) = "destroy" /\ batch' = Tail(batch)
  BY DEF RunDestroy, Running, attemptVars
<1>2. /\ batch \in Seq(Functors) /\ pending \in Seq(Functors) /\ Stop \in Functors
      /\ Len(batch) \in Nat \ {0} /\ Len(Tail(batch)) = Len(batch) - 1 /\ Head(batch) = batch[1]
      /\ \A i \in 1 .. Len(Tail(batch)) : Tail(batch)[i] = batch[i + 1]
  BY <1>1, HeadTailProperties, EmptySeq DEF SocketInv, QueueTypes, Functors, Stop
<1>3. Holds(batch, "destroy") /\ \A f \in Functors \ {Reset} : ~Holds(Tail(batch), f)
  <2>1. Holds(batch, "destroy")
    BY <1>1, <1>2 DEF Holds
  <2>2. \A i \in 1 .. Len(Tail(batch)) : Tail(batch)[i] = Reset
    BY <1>1, <1>2 DEF DestroyInv, InOrder, Behind
  <2>3. QED
    BY <2>1, <2>2 DEF Holds
<1>4. \A f \in Functors \ {Reset} : ~Holds(pending, f)
  BY <1>3 DEF DestroyInv, InOrder
<1>5. ~Held("destroy")' /\ InOrder'
  <2>1. pending' = pending \/ pending' = Append(pending, Stop)
    BY DEF RunDestroy, Stop
  <2>2. "destroy" \in Functors \ {Reset} /\ Stop # "destroy"
    BY DEF Functors, Reset, Stop
  <2>3. ~Holds(pending, "destroy") /\ ~Holds(Tail(batch), "destroy")
    BY <1>3, <1>4, <2>2
  <2>4. ~Holds(Append(pending, Stop), "destroy")
    BY <1>2, <2>2, <2>3, AppendHolds
  <2>5. ~Holds(pending', "destroy") /\ ~Holds(batch', "destroy")
    BY <1>1, <2>1, <2>3, <2>4
  <2>6. QED
    BY <2>5 DEF Held, InOrder, Behind, Holds
<1>6. CallsOver' /\ DestroysLast(script)'
  BY <1>1, <1>3 DEF DestroyInv, Held, CallsOver, DestroysLast
<1>7. CASE conn = "open"
  <2>1. client' = "gone" /\ pending' = pending
        /\ (fault' # "none" => ~kept' /\ channel # "none")
        /\ (fault' = "none" => kept' \/ channel = "none")
    BY <1>1, <1>7 DEF RunDestroy
  <2>2. "up" \in Reached /\ channel # "polled"
    BY <1>7 DEF Reached, Stages, SocketInv, UpIsConnected, OwnsWhileConnecting
  <2>3. Reached' \subseteq {"up"}
    <3>1. Reached \subseteq {"up"}
      BY <2>2 DEF AttemptInv
    <3>2. AttemptKept
      BY QuietStepsKeepAttempt
    <3>3. QED
      BY <3>1, <3>2 DEF AttemptKept, Settled
  <2>4. channel # "none" => Queued(Reset)'
    <3>1. channel # "none" => Held(Reset)
      BY <2>2 DEF StateTypes, ChannelInv
    <3>2. Held(Reset) => Holds(pending, Reset) \/ Holds(Tail(batch), Reset)
      BY <1>1, <1>2, TailHolds DEF Held, Reset
    <3>3. Holds(pending', Reset) \/ Holds(batch', Reset)
            => Reset \in ToSet(pending') \cup ToSet(batch')
      BY DEF Holds, ToSet
    <3>4. channel # "none" => Reset \in ToSet(pending') \cup ToSet(batch')
      BY <1>1, <2>1, <3>1, <3>2, <3>3
    <3>5. QED
      BY <3>4 DEF Queued
  <2>5. channel = "none" => \A f \in Functors : ~Held(f)'
    <3>1. channel = "none" => ~Holds(pending, Reset) /\ ~Holds(batch, Reset)
      BY DEF SocketInv, ResetOnce
    <3>2. ~Holds(batch, Reset) => ~Holds(Tail(batch), Reset)
      BY <1>1, <1>2, TailHolds
    <3>3. QED
      BY <1>1, <1>3, <1>4, <2>1, <3>1, <3>2 DEF Held, Holds
  <2>6. QED
    BY <1>5, <1>6, <2>1, <2>3, <2>4, <2>5 DEF DestroyInv, DestroyIsSafe, LeftInv, Reset
<1>8. CASE conn # "open"
  <2>1. client' = "abandoned" /\ connect' = FALSE /\ (fault' # "none" => ~kept')
    BY <1>1, <1>8 DEF RunDestroy
  <2>2. QED
    BY <1>5, <1>6, <2>1 DEF DestroyInv, DestroyIsSafe, LeftInv
<1>9. QED
  BY <1>7, <1>8

(* The script is left as it is, or gets shorter.                           *)
LEMMA LastCallKept ==
    ASSUME DestroysLast(script), script \in Seq(Calls),
           script' = script \/ (script # <<>> /\ script' = Tail(script))
    PROVE  /\ DestroysLast(script')
           /\ script # <<>> /\ Head(script) = "destroy" /\ script' = Tail(script) => script' = <<>>
<1>1. CASE script' = script /\ (script = <<>> \/ script' # Tail(script))
  BY <1>1
<1>2. CASE script # <<>> /\ script' = Tail(script)
  <2>1. /\ Len(script) \in Nat \ {0} /\ Len(Tail(script)) = Len(script) - 1
        /\ Head(script) = script[1] /\ Tail(script) \in Seq(Calls)
        /\ \A i \in 1 .. Len(Tail(script)) : Tail(script)[i] = script[i + 1]
    BY <1>2, HeadTailProperties, EmptySeq
  <2>2. DestroysLast(script')
    <3>1. ASSUME NEW i \in 1 .. Len(Tail(script)), Tail(script)[i] = "destroy"
          PROVE  i = Len(Tail(script))
      <4>1. i \in Nat /\ i + 1 \in 1 .. Len(script)
        BY <2>1, <3>1
      <4>2. script[i + 1] = "destroy"
        BY <2>1, <3>1
      <4>3. i + 1 = Len(script)
        BY <4>1, <4>2 DEF DestroysLast
      <4>4. Len(Tail(script)) = Len(script) - 1 /\ Len(script) \in Nat
        BY <2>1
      <4>5. QED
        BY <4>1, <4>3, <4>4
    <3>2. QED
      BY <1>2, <3>1 DEF DestroysLast
  <2>3. Head(script) = "destroy" => Len(Tail(script)) = 0
    <3>1. 1 \in 1 .. Len(script)
      BY <2>1
    <3>2. Head(script) = "destroy" => Len(script) = 1
      BY <2>1, <3>1 DEF DestroysLast
    <3>3. QED
      BY <2>1, <3>2
  <2>4. QED
    BY <1>2, <2>1, <2>2, <2>3, EmptySeq
<1>3. QED
  BY <1>1, <1>2

(* The user's calls: there are none once the destructor is queued.         *)
LEMMA UserKeepsDestroyInv ==
    ASSUME DestroyInv, AttemptInv, SocketInv, fault = "none", UserNext
    PROVE  DestroyInv'
<1>1. CASE UserReturn
  <2>1. UNCHANGED <<script, call, client, batch, pending, connect, conn, kept, state, active,
                    timers, fault>>
        /\ pc' \in {"poll", "events"}
    BY <1>1 DEF UserReturn, userVars, attemptVars
  <2>2. Reached' \subseteq Reached
    BY <2>1 DEF Reached, Holds
  <2>3. QED
    BY <2>1, <2>2 DEF DestroyInv, DestroyIsSafe, DestroysLast, Held, Holds, CallsOver, InOrder,
                      Behind, LeftInv, Queued
<1>2. CASE ~UserReturn
  <2>1. client = "alive" /\ ~Held("destroy") /\ client' = client /\ batch' = batch
    <3>1. client = "alive" /\ ~CallsOver
      <4>1. ~CallsOver
        BY <1>2 DEF UserNext, LoopConnect, LoopStop, CallConnectOrStop, SetConnect, Queue,
                    Disconnect, EnableRetry, QueueDestroy, MakesCall, CallsOver
      <4>2. QED
        BY <4>1 DEF DestroyInv
    <3>2. client' = client /\ batch' = batch
      BY <1>2 DEF UserNext, LoopConnect, LoopStop, CallConnectOrStop, SetConnect, Queue,
                  Disconnect, EnableRetry, QueueDestroy, loopVars
    <3>3. QED
      BY <3>1, <3>2 DEF DestroyInv
  <2>2. /\ script' = script \/ (script # <<>> /\ script' = Tail(script))
        /\ pending' = pending \/ \E f \in {Start, Stop, "destroy"} : pending' = Append(pending, f)
    BY <1>2 DEF UserNext, LoopConnect, LoopStop, CallConnectOrStop, SetConnect, Queue, Start, Stop,
                Disconnect, EnableRetry, QueueDestroy, MakesCall
  <2>3. {Start, Stop, "destroy"} \in SUBSET Functors
    BY DEF Functors, Start, Stop
  <2>4. InOrder'
    BY <2>1, <2>2, <2>3, OrderKept DEF DestroyInv, SocketInv
  <2>5. DestroysLast(script)'
    BY <2>2, LastCallKept DEF DestroyInv, AttemptInv, DestroysLast
  <2>6. Held("destroy")' => CallsOver'
    <3>1. CASE QueueDestroy
      BY <2>2, <3>1, LastCallKept DEF QueueDestroy, MakesCall, CallsOver, DestroyInv, AttemptInv
    <3>2. CASE ~QueueDestroy
      <4>1. pending' = pending \/ \E f \in {Start, Stop} : pending' = Append(pending, f)
        BY <1>2, <3>2 DEF UserNext, LoopConnect, LoopStop, CallConnectOrStop, SetConnect, Queue,
                          Start, Stop, Disconnect, EnableRetry
      <4>2. {Start, Stop} \in SUBSET Functors /\ "destroy" \notin {Start, Stop}
        BY DEF Functors, Start, Stop
      <4>3. ~Held("destroy")'
        BY <2>1, <4>1, <4>2, HeldKept DEF SocketInv
      <4>4. QED
        BY <4>3
    <3>3. QED
      BY <3>1, <3>2
  <2>7. QED
    BY <2>1, <2>4, <2>5, <2>6 DEF DestroyInv, DestroyIsSafe, LeftInv
<1>3. QED
  BY <1>1, <1>2

(* Together, with what is known of sockets, attempts and asserts.          *)
LEMMA DestroyInvIsInductive ==
    ASSUME SocketInv, AttemptInv, AssertInv, DestroyInv, [Next]_vars
    PROVE  DestroyInv'
<1>1. CASE UNCHANGED vars
  BY <1>1 DEF vars, userVars, loopVars, attemptVars, DestroyInv, DestroyIsSafe, DestroysLast, Held,
              Holds, CallsOver, InOrder, Behind, LeftInv, Queued, Reached
<1>2. CASE Next
  <2>1. fault = "none" /\ AssertsHold'
    BY <1>2, StepsWithoutFault, AssertInvIsInductive DEF AssertInv
  <2>2. QED
    BY <1>2, <2>1, LoopKeepsDestroyInv, RunDestroyKeepsDestroyInv, UserKeepsDestroyInv
       DEF Next, AssertInv
<1>3. QED
  BY <1>1, <1>2

(* For a user that connects once and first, and destroys the client last:  *)
(* what ~TcpClient() leaves behind is harmless if the connection is up, but*)
(* for the time until the channel of its attempt is reset, or if a Timer   *)
(* keeps the connector.                                                    *)
THEOREM DestroyAlwaysSafe ==
    ASSUME \A s \in Scripts : ConnectsFirst(s) /\ DestroysLast(s)
    PROVE  Spec => []DestroyIsSafe
<1>1. Init => AttemptInv
  BY InitialAttempt DEF ConnectsFirst, Init
<1>2. Init => AssertInv
  BY InitialAsserts
<1>3. Init => DestroyInv
  BY DEF Init, DestroyInv, DestroyIsSafe, InOrder, Behind, LeftInv, Held, Holds
<1>4. DestroyInv => DestroyIsSafe
  BY DEF DestroyInv
<1>5. SocketInv /\ AttemptInv /\ [Next]_vars => AttemptInv'
  BY AttemptInvIsInductive
<1>6. SocketInv /\ AttemptInv /\ AssertInv /\ [Next]_vars => AssertInv'
  BY AssertInvIsInductive
<1>7. SocketInv /\ AttemptInv /\ AssertInv /\ DestroyInv /\ [Next]_vars => DestroyInv'
  BY DestroyInvIsInductive
<1>8. QED
  BY <1>1, <1>2, <1>3, <1>4, <1>5, <1>6, <1>7, SocketInvIsInductive, PTL DEF Spec
---------------------------------------------------------------------------
(* The types, in three parts: the connector's own fields, what the user    *)
(* writes, and the loop.                                                   *)
AttemptTypes ==
    /\ state \in {"kDisconnected", "kConnecting", "kConnected"}
    /\ channel \in {"none", "polled", "removed"}
    /\ timers \in Nat /\ kept \in BOOLEAN /\ delay \in InitDelay .. MaxDelay
    /\ open \in Nat /\ gaveUp \in BOOLEAN

UserTypes ==
    /\ script \in Seq(Calls)
    /\ call \in {"none", "connect", "stop", "startInLoop", "stopInLoop"}
    /\ stopped \in BOOLEAN /\ clientConnect \in BOOLEAN
    /\ retry \in BOOLEAN /\ connect \in BOOLEAN
    /\ client \in {"alive", "gone", "abandoned"}

LoopTypes ==
    /\ pc \in UserCode \cup {"poll", "events", "write", "restart", "start", "functors"}
    /\ active \subseteq {"timer", "conn", "err", "out"}
    /\ conn \in {"none", "open"}
    /\ fault \in {"none", "startInLoop", "connecting", "handlewrite", "destructor", "freed"}

(* The delay that is doubled stays within its bounds.                      *)
LEMMA NextDelayIs ==
    ASSUME NEW d \in InitDelay .. MaxDelay
    PROVE  NextDelay(d) \in InitDelay .. MaxDelay
BY DelayAssumption DEF NextDelay

LEMMA RetryTypes ==
    ASSUME AttemptTypes, NEW left \in Nat, Retry(left)
    PROVE  /\ state' = "kDisconnected" /\ open' \in Nat
           /\ timers' \in Nat /\ kept' \in BOOLEAN /\ delay' \in InitDelay .. MaxDelay
<1>1. /\ state' = "kDisconnected" /\ open' = left
      /\ \/ timers' = timers + 1 /\ kept' = TRUE /\ delay' = NextDelay(delay)
         \/ UNCHANGED <<timers, kept, delay>>
  BY Zenon DEF Retry
<1>2. kept' \in BOOLEAN
  BY <1>1 DEF AttemptTypes
<1>3. QED
  BY <1>1, <1>2, NextDelayIs DEF AttemptTypes

LEMMA StartTypes ==
    ASSUME AttemptTypes, LoopTypes, NEW result, StartInLoop(result)
    PROVE  /\ AttemptTypes'
           /\ fault' \in {"none", "startInLoop", "connecting", "handlewrite", "destructor",
                          "freed"}
<1>1. CASE UNCHANGED attemptVars /\ fault' \in {fault, "startInLoop"}
  BY <1>1 DEF AttemptTypes, LoopTypes, attemptVars
<1>2. CASE Connecting
  BY <1>2 DEF Connecting, AttemptTypes, LoopTypes
<1>3. CASE Retry(open) /\ UNCHANGED <<channel, gaveUp, fault>>
  <2>1. open \in Nat
    BY DEF AttemptTypes
  <2>2. QED
    BY <1>3, <2>1, RetryTypes DEF AttemptTypes, LoopTypes
<1>4. CASE gaveUp' = TRUE /\ UNCHANGED <<state, channel, timers, kept, delay, open, fault>>
  BY <1>4 DEF AttemptTypes, LoopTypes
<1>5. QED
  BY <1>1, <1>2, <1>3, <1>4, Zenon DEF StartInLoop, Connect, MayStart

(* The three handlers that end an attempt own the socket they close.       *)
LEMMA EndTypes ==
    ASSUME AttemptTypes, SocketInv, fault = "none", StillConnecting, RemoveAndResetChannel,
           UNCHANGED gaveUp,
           Retry(open - 1) \/ HandleConnected
    PROVE  AttemptTypes'
<1>1. open - 1 \in Nat
  BY DEF SocketInv, OwnsWhileConnecting, StillConnecting
<1>2. channel' = "removed" /\ gaveUp' \in BOOLEAN
  BY DEF RemoveAndResetChannel, AttemptTypes
<1>3. CASE Retry(open - 1)
  BY <1>1, <1>2, <1>3, RetryTypes DEF AttemptTypes
<1>4. CASE HandleConnected
  <2>1. state' = "kConnected" /\ open' = open - 1 /\ UNCHANGED <<timers, kept, delay>>
    BY <1>4 DEF HandleConnected
  <2>2. QED
    BY <1>1, <1>2, <2>1 DEF AttemptTypes
<1>5. QED
  BY <1>3, <1>4

(* The user's steps.                                                       *)
LEMMA UserKeepsTypes ==
    ASSUME AttemptTypes, UserTypes, LoopTypes, UserNext
    PROVE  AttemptTypes' /\ UserTypes' /\ LoopTypes'
<1>1. script' \in Seq(Calls) /\ client' = client
  <2>1. script' = script \/ \E c \in Calls : MakesCall(c)
    BY DEF UserNext, UserReturn, LoopConnect, LoopStop, CallConnectOrStop, SetConnect, Queue,
       Disconnect, EnableRetry, QueueDestroy, userVars, Calls
  <2>2. ASSUME NEW c, MakesCall(c) PROVE script' \in Seq(Calls)
    BY <2>2, HeadTailProperties DEF MakesCall, UserTypes
  <2>3. client' = client
    BY DEF UserNext, UserReturn, LoopConnect, LoopStop, CallConnectOrStop, SetConnect, Queue,
       Disconnect, EnableRetry, QueueDestroy, userVars
  <2>4. QED
    BY <2>1, <2>2, <2>3 DEF UserTypes
<1>2. UserTypes'
  <2>1. /\ stopped' \in {stopped, FALSE, TRUE, call = "stopInLoop"}
        /\ clientConnect' \in {clientConnect, FALSE, TRUE}
        /\ retry' \in {retry, TRUE}
        /\ connect' \in {connect, FALSE, TRUE, call = "connect"}
    BY DEF UserNext, UserReturn, LoopConnect, LoopStop, CallConnectOrStop, SetConnect, Queue,
       Disconnect, EnableRetry, QueueDestroy, userVars
  <2>2. call' \in {call, "none", "connect", "stop", "startInLoop", "stopInLoop"}
    BY DEF UserNext, UserReturn, LoopConnect, LoopStop, CallConnectOrStop, SetConnect, Queue,
       Disconnect, EnableRetry, QueueDestroy, userVars
  <2>3. /\ stopped' \in BOOLEAN /\ clientConnect' \in BOOLEAN
        /\ retry' \in BOOLEAN /\ connect' \in BOOLEAN
    BY <2>1 DEF UserTypes
  <2>4. QED
    BY <1>1, <2>2, <2>3 DEF UserTypes
<1>3. AttemptTypes' /\ LoopTypes'
  <2>1. CASE UserReturn
    <3>1. pc' \in {"poll", "events"} /\ UNCHANGED <<active, attemptVars, conn, fault>>
      BY <2>1 DEF UserReturn
    <3>2. QED
      BY <3>1 DEF AttemptTypes, LoopTypes, attemptVars
  <2>2. ASSUME NEW result, LoopConnect(result)
        PROVE  AttemptTypes' /\ LoopTypes'
    <3>1. StartInLoop(result) /\ UNCHANGED <<loopVars, conn>>
      BY <2>2 DEF LoopConnect
    <3>2. QED
      BY <3>1, StartTypes DEF LoopTypes, loopVars
  <2>3. CASE UNCHANGED <<loopVars, attemptVars, conn, fault>>
    BY <2>3 DEF AttemptTypes, LoopTypes, loopVars, attemptVars
  <2>4. QED
    BY <2>1, <2>2, <2>3 DEF UserNext, LoopStop, CallConnectOrStop, SetConnect, Queue, Disconnect,
       EnableRetry, QueueDestroy
<1>4. QED
  BY <1>2, <1>3

(* The loop's steps.                                                       *)
LEMMA LoopKeepsTypes ==
    ASSUME AttemptTypes, UserTypes, LoopTypes, SocketInv, LoopNext
    PROVE  AttemptTypes' /\ UserTypes' /\ LoopTypes'
<1>1. fault = "none"
  BY StepsWithoutFault DEF Next
<1>2. UserTypes'
  <2>1. /\ UNCHANGED <<script, call, stopped, clientConnect, retry>>
        /\ client' \in {client, "gone", "abandoned"}
        /\ connect' \in {connect, FALSE, TRUE}
    BY DEF LoopNext, Poll, HandleTimer, StartAgain, RunStart, HandleError, HandleWrite,
       RemoveConnection, Restart, DoPendingFunctors, RunStop, RunResetChannel, RunDestroy,
       RunFreed, PassDone, userVars
  <2>2. connect' \in BOOLEAN
    BY <2>1 DEF UserTypes
  <2>3. QED
    BY <2>1, <2>2 DEF UserTypes
<1>3. ASSUME NEW events \in SUBSET Reportable, Poll(events)
      PROVE  AttemptTypes' /\ LoopTypes'
  <2>1. Reportable \subseteq {"timer", "conn", "err", "out"}
        /\ ("timer" \in Reportable => timers > 0)
    BY DEF Reportable
  <2>2. /\ active' = events /\ pc' = "events"
        /\ timers' = IF "timer" \in events THEN timers - 1 ELSE timers
        /\ UNCHANGED <<state, channel, kept, delay, open, gaveUp, conn, fault>>
    BY <1>3 DEF Poll
  <2>3. timers' \in Nat
    BY <2>1, <2>2 DEF AttemptTypes
  <2>4. QED
    BY <2>1, <2>2, <2>3 DEF AttemptTypes, LoopTypes
<1>4. ASSUME NEW result, HandleTimer(result) \/ StartAgain(result) \/ RunStart(result)
      PROVE  AttemptTypes' /\ LoopTypes'
  <2>1. /\ StartInLoop(result) /\ conn' = conn
        /\ pc' \in {pc, "events"} /\ active' \subseteq active
    BY <1>4 DEF HandleTimer, StartAgain, RunStart
  <2>2. QED
    BY <2>1, StartTypes DEF LoopTypes
<1>5. CASE HandleError \/ RunStop
  <2>1. /\ pc' \in {pc, "write", "events"} /\ active' \subseteq active
        /\ UNCHANGED <<gaveUp, conn, fault>>
    BY <1>5 DEF HandleError, RunStop
  <2>2. \/ StillConnecting /\ RemoveAndResetChannel /\ Retry(open - 1)
        \/ UNCHANGED <<channel, open, state, timers, kept, delay>>
    BY <1>5, Zenon DEF HandleError, RunStop
  <2>3. AttemptTypes'
    <3>1. CASE UNCHANGED <<channel, open, state, timers, kept, delay>>
      BY <2>1, <3>1 DEF AttemptTypes
    <3>2. QED
      BY <1>1, <2>1, <2>2, <3>1, EndTypes
  <2>4. QED
    BY <1>2, <2>1, <2>3 DEF LoopTypes
<1>6. ASSUME NEW connected \in BOOLEAN, HandleWrite(connected)
      PROVE  AttemptTypes' /\ LoopTypes'
  <2>1. /\ active' = active \ {"out"} /\ gaveUp' = gaveUp
        /\ \/ /\ StillConnecting /\ RemoveAndResetChannel /\ fault' = fault
              /\ \/ HandleConnected
                 \/ Retry(open - 1) /\ pc' = "events" /\ conn' = conn
           \/ /\ pc' = "events" /\ fault' \in {"none", "handlewrite"}
              /\ UNCHANGED <<channel, open, state, timers, kept, delay, conn>>
    BY <1>6, Zenon DEF HandleWrite
  <2>2. HandleConnected => pc' \in {"onConnection", "events"} /\ conn' \in {"open", conn}
    BY DEF HandleConnected
  <2>3. AttemptTypes'
    <3>1. CASE UNCHANGED <<channel, open, state, timers, kept, delay>>
      BY <2>1, <3>1 DEF AttemptTypes
    <3>2. QED
      BY <1>1, <2>1, <3>1, EndTypes
  <2>4. LoopTypes'
    BY <2>1, <2>2 DEF LoopTypes, UserCode
  <2>5. QED
    BY <2>3, <2>4
<1>7. CASE RemoveConnection \/ DoPendingFunctors \/ PassDone
  <2>1. /\ pc' \in {"restart", "events", "functors", "poll"} /\ active' \subseteq active
        /\ conn' \in {conn, "none"} /\ UNCHANGED <<attemptVars, fault>>
    BY <1>7 DEF RemoveConnection, DoPendingFunctors, PassDone
  <2>2. QED
    BY <1>2, <2>1 DEF AttemptTypes, LoopTypes, attemptVars
<1>8. CASE Restart
  <2>1. /\ state' = "kDisconnected" /\ delay' = InitDelay /\ pc' = "start"
        /\ UNCHANGED <<active, channel, timers, kept, open, gaveUp, conn, fault>>
    BY <1>8 DEF Restart
  <2>2. InitDelay \in InitDelay .. MaxDelay
    BY DelayAssumption
  <2>3. QED
    BY <1>2, <2>1, <2>2 DEF AttemptTypes, LoopTypes
<1>9. CASE RunResetChannel \/ RunDestroy \/ RunFreed
  <2>1. /\ UNCHANGED <<pc, active, state, timers, kept, delay, open, gaveUp, conn>>
        /\ channel' \in {channel, "none"}
        /\ fault' \in {fault, "none", "destructor", "freed"}
    BY <1>9 DEF RunResetChannel, RunDestroy, RunFreed, attemptVars
  <2>2. QED
    BY <1>2, <2>1 DEF AttemptTypes, LoopTypes
<1>10. QED
  BY <1>2, <1>3, <1>4, <1>5, <1>6, <1>7, <1>8, <1>9 DEF LoopNext

(* The fields keep their types, whatever is called: no socket is closed    *)
(* that is not owned, no timer expires that was not scheduled, and the     *)
(* delay stays within its bounds.                                          *)
THEOREM ConnectorTypeCorrect ==
    ASSUME Scripts \subseteq Seq(Calls)
    PROVE  Spec => []TypeOK
<1> DEFINE Types == AttemptTypes /\ UserTypes /\ LoopTypes
<1>1. Init => Types
  <2> SUFFICES ASSUME Init PROVE Types
    OBVIOUS
  <2>1. InitDelay \in InitDelay .. MaxDelay /\ script \in Seq(Calls)
    BY DelayAssumption DEF Init
  <2>2. QED
    BY <2>1 DEF Init, AttemptTypes, UserTypes, LoopTypes, UserCode
<1>2. SocketInv /\ Types /\ [Next]_vars => Types'
  <2> SUFFICES ASSUME SocketInv, Types, [Next]_vars PROVE Types'
    OBVIOUS
  <2>1. CASE UNCHANGED vars
    BY <2>1 DEF AttemptTypes, UserTypes, LoopTypes, vars, userVars, loopVars, attemptVars
  <2>2. QED
    BY <2>1, UserKeepsTypes, LoopKeepsTypes DEF Next
<1>3. SocketInv /\ Types => TypeOK
  BY DEF SocketInv, QueueTypes, AttemptTypes, UserTypes, LoopTypes, TypeOK
<1> HIDE DEF Types
<1>4. QED
  BY <1>1, <1>2, <1>3, SocketInvIsInductive, PTL DEF Spec
=============================================================================
