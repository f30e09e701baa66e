-------------------------- MODULE EventLoopProofs --------------------------
(***************************************************************************)
(* Proofs about EventLoop and its poller, each by itself.                  *)
(* EventLoop, for any sets of threads, functors and channels: type         *)
(* correctness, no lost wakeup, bounded passes, and that the loop          *)
(* implements TaskQueue.                                                   *)
(* PollPoller, for any set of channels and any descriptors: type           *)
(* correctness, the consistency of pollfds_, channels_ and index_, that the*)
(* poller's own asserts never fail, and that a channel's update leaves the *)
(* others alone.                                                           *)
(***************************************************************************)
EXTENDS EventLoop, PollPoller, QueueLemmas

(* Every variable keeps its type.                                          *)
THEOREM TypeCorrect == Spec => []TypeOK
<1>1. Init => TypeOK
  <2> SUFFICES ASSUME Init PROVE TypeOK
    OBVIOUS
  <2>1. pc \in PCs /\ quit \in BOOLEAN /\ calling \in BOOLEAN /\ eventFd \in BOOLEAN
    BY DEF Init, PCs
  <2>2. call \in [Threads -> Calls]
    BY DEF Init, Calls
  <2>3. pending \in Seq(Functors) /\ batch \in Seq(Functors) /\ ran \in Seq(Functors)
    BY DEF Init
  <2>4. QED
    BY <2>1, <2>2, <2>3 DEF Init, TypeOK
<1>2. TypeOK /\ [Next]_vars => TypeOK'
  <2> SUFFICES ASSUME TypeOK, [Next]_vars PROVE TypeOK'
    OBVIOUS
  <2> USE DEF TypeOK, PCs, Calls
  <2>1. CASE Loop
    BY <2>1 DEF Loop
  <2>2. CASE ExitLoop
    BY <2>2 DEF ExitLoop
  <2>3. CASE EnterPoll
    BY <2>3 DEF EnterPoll
  <2>4. CASE PollTimeout
    BY <2>4 DEF PollTimeout
  <2>5. CASE HandleRead
    BY <2>5 DEF HandleRead
  <2>6. CASE HandlerReturn
    BY <2>6 DEF HandlerReturn
  <2>7. CASE DoPendingFunctors
    BY <2>7 DEF DoPendingFunctors
  <2>8. CASE RunFunctor
    BY <2>8 DEF RunFunctor
  <2>9. CASE FunctorReturn
    BY <2>9 DEF FunctorReturn
  <2>10. CASE PendingDone
    BY <2>10 DEF PendingDone
  <2>11. ASSUME NEW io \in SUBSET IoChannels, PollReturn(io) PROVE TypeOK'
    BY <2>11 DEF PollReturn
  <2>12. ASSUME NEW ch \in IoChannels, HandleIo(ch) PROVE TypeOK'
    BY <2>12 DEF HandleIo
  <2>13. ASSUME NEW f \in Functors, OwnerRunInLoop(f) PROVE TypeOK'
    BY <2>13 DEF OwnerRunInLoop
  <2>14. ASSUME NEW f \in Functors, OwnerQueueInLoop(f) PROVE TypeOK'
    BY <2>14 DEF OwnerQueueInLoop, Enqueue, OwnerMustWake
  <2>15. CASE OwnerQuit
    BY <2>15 DEF OwnerQuit
  <2>16. ASSUME NEW t \in Threads, NEW f \in Functors, QueueInLoop(t, f) PROVE TypeOK'
    BY <2>16 DEF QueueInLoop, Enqueue
  <2>17. ASSUME NEW t \in Threads, Quit(t) PROVE TypeOK'
    BY <2>17 DEF Quit
  <2>18. ASSUME NEW t \in Threads, Wakeup(t) PROVE TypeOK'
    BY <2>18 DEF Wakeup
  <2>19. CASE UNCHANGED vars
    BY <2>19 DEF vars
  <2>20. CASE Destroy
    BY <2>20 DEF Destroy
  <2>21. ASSUME NEW t \in Threads, LateWakeup(t) PROVE TypeOK'
    BY <2>21 DEF LateWakeup
  <2>22. QED
    BY <2>1, <2>2, <2>3, <2>4, <2>5, <2>6, <2>7, <2>8, <2>9, <2>10, <2>11, <2>12, <2>13, <2>14, <2>15, <2>16, <2>17, <2>18, <2>19, <2>20,
       <2>21 DEF Next, LoopCode, OwnerCalls, ThreadCalls
<1>3. QED
  BY <1>1, <1>2, PTL DEF Spec

(* While functors wait and no pass over them is certain, a wakeup is in    *)
(* flight or has arrived: the owner never sleeps on queued work.           *)
THEOREM WakeupNotLost == Spec => []NoLostWakeup
<1>1. Init => NoLostWakeupInv
  BY DEF Init, NoLostWakeupInv, Range
<1>2. TypeOK /\ NoLostWakeupInv /\ [Next]_vars => NoLostWakeupInv'
  <2> SUFFICES ASSUME TypeOK, NoLostWakeupInv, [Next]_vars PROVE NoLostWakeupInv'
    OBVIOUS
  <2> USE DEF NoLostWakeupInv, Signalled
  <2>1. CASE Loop
    BY <2>1 DEF Loop
  <2>2. CASE ExitLoop
    BY <2>2 DEF ExitLoop
  <2>3. CASE EnterPoll
    BY <2>3 DEF EnterPoll
  <2>4. CASE PollTimeout
    BY <2>4 DEF PollTimeout
  <2>5. CASE HandleRead
    BY <2>5 DEF HandleRead
  <2>6. CASE HandlerReturn
    BY <2>6 DEF HandlerReturn
  <2>7. CASE DoPendingFunctors
    BY <2>7 DEF DoPendingFunctors, Range
  <2>8. CASE RunFunctor
    BY <2>8 DEF RunFunctor
  <2>9. CASE FunctorReturn
    BY <2>9 DEF FunctorReturn
  <2>10. CASE PendingDone
    BY <2>10 DEF PendingDone
  <2>11. ASSUME NEW io \in SUBSET IoChannels, PollReturn(io) PROVE NoLostWakeupInv'
    BY <2>11 DEF PollReturn
  <2>12. ASSUME NEW ch \in IoChannels, HandleIo(ch) PROVE NoLostWakeupInv'
    BY <2>12 DEF HandleIo
  <2>13. ASSUME NEW f \in Functors, OwnerRunInLoop(f) PROVE NoLostWakeupInv'
    BY <2>13 DEF OwnerRunInLoop
  <2>14. ASSUME NEW f \in Functors, OwnerQueueInLoop(f) PROVE NoLostWakeupInv'
    <3>1. Range(pending') = Range(pending) \cup {f}
      BY <2>14, RangeAppend DEF OwnerQueueInLoop, Enqueue, TypeOK
    <3>2. CASE pc = "idle" /\ ~calling
      BY <2>14, <3>1, <3>2 DEF OwnerQueueInLoop, OwnerMustWake
    <3>3. CASE calling
      BY <2>14, <3>3 DEF OwnerQueueInLoop, OwnerMustWake
    <3>4. CASE pc = "handler"
      BY <2>14, <3>4 DEF OwnerQueueInLoop, OwnerMustWake
    <3>5. QED
      BY <2>14, <3>2, <3>3, <3>4 DEF OwnerQueueInLoop, InUserCode
  <2>15. CASE OwnerQuit
    BY <2>15 DEF OwnerQuit
  <2>16. ASSUME NEW t \in Threads, NEW f \in Functors, QueueInLoop(t, f) PROVE NoLostWakeupInv'
    BY <2>16 DEF QueueInLoop, TypeOK
  <2>17. ASSUME NEW t \in Threads, Quit(t) PROVE NoLostWakeupInv'
    BY <2>17 DEF Quit, TypeOK
  <2>18. ASSUME NEW t \in Threads, Wakeup(t) PROVE NoLostWakeupInv'
    BY <2>18 DEF Wakeup, TypeOK
  <2>19. CASE UNCHANGED vars
    BY <2>19 DEF vars
  <2>20. CASE Destroy
    BY <2>20 DEF Destroy
  <2>21. ASSUME NEW t \in Threads, LateWakeup(t) PROVE NoLostWakeupInv'
    BY <2>21 DEF LateWakeup
  <2>22. QED
    BY <2>1, <2>2, <2>3, <2>4, <2>5, <2>6, <2>7, <2>8, <2>9, <2>10, <2>11, <2>12, <2>13, <2>14, <2>15, <2>16, <2>17, <2>18, <2>19, <2>20,
       <2>21 DEF Next, LoopCode, OwnerCalls, ThreadCalls
<1>3. NoLostWakeupInv => NoLostWakeup
  BY DEF NoLostWakeupInv, NoLostWakeup
<1>4. QED
  BY <1>1, <1>2, <1>3, TypeCorrect, PTL DEF Spec

(* Only doPendingFunctors() has a vector in its hands.                     *)
BatchInPass == pc \notin {"functors", "functor"} => batch = <<>>

(* No vector is in the hands of doPendingFunctors() outside its pass.      *)
LEMMA BatchOnlyInPass == Spec => []BatchInPass
<1>1. Init => BatchInPass
  BY DEF Init, BatchInPass
<1>2. BatchInPass /\ [Next]_vars => BatchInPass'
  BY DEF BatchInPass, Next, vars, LoopCode, OwnerCalls, ThreadCalls,
     Loop, ExitLoop, EnterPoll, PollReturn, PollTimeout, HandleRead, HandleIo, HandlerReturn,
     DoPendingFunctors, RunFunctor, FunctorReturn, PendingDone, OwnerRunInLoop,
     OwnerQueueInLoop, OwnerQuit, Destroy, QueueInLoop, Quit, Wakeup, LateWakeup, Enqueue
<1>3. QED
  BY <1>1, <1>2, PTL DEF Spec

(* A pass runs what was pending when it began; nothing joins it.           *)
THEOREM PassesAreBounded == Spec => PassIsBounded
<1>1. BatchInPass /\ [Next]_vars => [batch # <<>> => batch' \in {batch, Tail(batch)}]_vars
  BY DEF BatchInPass, Next, vars, LoopCode, OwnerCalls, ThreadCalls,
     Loop, ExitLoop, EnterPoll, PollReturn, PollTimeout, HandleRead, HandleIo, HandlerReturn,
     DoPendingFunctors, RunFunctor, FunctorReturn, PendingDone, OwnerRunInLoop,
     OwnerQueueInLoop, OwnerQuit, Destroy, QueueInLoop, Quit, Wakeup, LateWakeup, Enqueue
<1>2. QED
  BY <1>1, BatchOnlyInPass, PTL DEF Spec, PassIsBounded

(* A functor nobody handed over yet is one the abstract queue has not seen.*)
LEMMA FreshIsAbstractlyFresh ==
    ASSUME TypeOK, NEW f \in Functors, Fresh(f)
    PROVE  TQ!Fresh(f)
<1>1. Range(batch \o pending) = Range(batch) \cup Range(pending)
  <2>1. batch \in Seq(Functors) /\ pending \in Seq(Functors)
    BY DEF TypeOK
  <2>2. QED
    BY <2>1, RangeConcatenation, Zenon
<1>2. ASSUME NEW s PROVE TQ!Range(s) = Range(s)
  BY Zenon DEF Range, TQ!Range
<1>3. QED
  BY <1>1, <1>2, Zenon DEF Fresh, TQ!Fresh

(* Handing a functor over is the abstract Submit.                          *)
LEMMA EnqueueIsSubmit ==
    ASSUME TypeOK, NEW f \in Functors, Fresh(f), Enqueue(f), ran' = ran
    PROVE  TQ!Submit(f)
<1>1. batch \o Append(pending, f) = Append(batch \o pending, f)
  BY AppendToConcat DEF TypeOK
<1>2. QED
  BY <1>1, FreshIsAbstractlyFresh DEF Enqueue, TQ!Submit

(* The loop implements the task queue: batch \o pending behaves as one     *)
(* FIFO queue, whatever the interleaving of the owner and the others.      *)
THEOREM LoopImplementsTaskQueue == Spec => ImplementsTaskQueue
<1>1. Init => TQ!Init
  BY DEF Init, TQ!Init
<1>2. TypeOK /\ BatchInPass /\ [Next]_vars => [TQ!Next]_(TQ!vars)
  <2> SUFFICES ASSUME TypeOK, BatchInPass, [Next]_vars PROVE [TQ!Next]_(TQ!vars)
    OBVIOUS
  <2>1. ASSUME UNCHANGED <<pending, batch, ran>> PROVE UNCHANGED TQ!vars
    BY <2>1 DEF TQ!vars
  <2>2. CASE DoPendingFunctors
    <3>1. batch = <<>>
      BY <2>2 DEF BatchInPass, DoPendingFunctors
    <3>2. batch' \o pending' = batch \o pending
      BY <2>2, <3>1, ConcatEmptySeq DEF DoPendingFunctors, TypeOK
    <3>3. QED
      BY <2>2, <3>2 DEF DoPendingFunctors, TQ!vars
  <2>3. CASE RunFunctor
    <3>1. /\ batch \o pending # <<>> /\ Head(batch \o pending) = Head(batch)
          /\ Tail(batch \o pending) = Tail(batch) \o pending
      BY <2>3, TailOfConcat DEF RunFunctor, TypeOK
    <3>2. TQ!RunNext
      BY <2>3, <3>1 DEF RunFunctor, TQ!RunNext
    <3>3. QED
      BY <3>2 DEF TQ!Next
  <2>4. ASSUME NEW f \in Functors, OwnerRunInLoop(f) PROVE TQ!Next
    BY <2>4, FreshIsAbstractlyFresh DEF OwnerRunInLoop, TQ!Next, TQ!RunNow
  <2>5. ASSUME NEW f \in Functors, OwnerQueueInLoop(f) PROVE TQ!Next
    BY <2>5, EnqueueIsSubmit DEF OwnerQueueInLoop, TQ!Next
  <2>6. ASSUME NEW t \in Threads, NEW f \in Functors, QueueInLoop(t, f) PROVE TQ!Next
    BY <2>6, EnqueueIsSubmit DEF QueueInLoop, TQ!Next
  <2>7. CASE LoopCode /\ ~DoPendingFunctors /\ ~RunFunctor
    BY <2>1, <2>7 DEF LoopCode, Loop, ExitLoop, EnterPoll, PollReturn, PollTimeout,
       HandleRead, HandleIo, HandlerReturn, FunctorReturn, PendingDone
  <2>8. CASE OwnerQuit \/ Destroy \/ \E t \in Threads : Quit(t) \/ Wakeup(t) \/ LateWakeup(t)
    BY <2>1, <2>8 DEF OwnerQuit, Destroy, Quit, Wakeup, LateWakeup
  <2>9. CASE UNCHANGED vars
    BY <2>1, <2>9 DEF vars
  <2>10. QED
    BY <2>2, <2>3, <2>4, <2>5, <2>6, <2>7, <2>8, <2>9 DEF Next, OwnerCalls, ThreadCalls
<1>3. QED
  BY <1>1, <1>2, TypeCorrect, BatchOnlyInPass, PTL DEF Spec, ImplementsTaskQueue, TQ!Spec

---------------------------------------------------------------------------
(* PollPoller.                                                             *)


(* A step that ends in a fault changes nothing but fault.                  *)
LEMMA FailKeeps ==
    ASSUME NEW f \in Faults, Fail(f), PollerTypeOK
    PROVE  PollerTypeOK' /\ (IndexConsistent => IndexConsistent')
  BY DEF Fail, PollerTypeOK, IndexConsistent, ChannelHasEntry, EntryHasChannel, EntriesDistinct

(* updateChannel() for a new channel keeps the types.                      *)
LEMMA AddKeepsType ==
    ASSUME PollerTypeOK, NEW c \in Channels, NEW ev \in SUBSET Events, AddChannel(c, ev)
    PROVE  PollerTypeOK'
<1>1. CASE FdOf[c] \in DOMAIN channels
  BY <1>1, FailKeeps DEF AddChannel, Faults
<1>2. CASE FdOf[c] \notin DOMAIN channels
  <2>1. FdOf[c] \in Nat
    BY FdAssumption
  <2>2. pollfds' \in Seq(PollFds)
    <3> DEFINE entry == [fd |-> FdOf[c], events |-> ev]
    <3>1. entry \in PollFds
      BY <2>1 DEF PollFds
    <3>2. pollfds' = Append(pollfds, entry) /\ pollfds \in Seq(PollFds)
      BY <1>2 DEF AddChannel, PollerTypeOK
    <3> HIDE DEF entry
    <3>3. QED
      BY <3>1, <3>2, AppendProperties
  <2>3. DOMAIN channels' = DOMAIN channels \cup {FdOf[c]}
        /\ \A fd \in DOMAIN channels' : channels'[fd] = IF fd = FdOf[c] THEN c ELSE channels[fd]
    BY <1>2 DEF AddChannel
  <2>4. index' \in [Channels -> Int] /\ events' \in [Channels -> SUBSET Events]
    BY <1>2 DEF AddChannel, PollerTypeOK, NewIndex
  <2>5. QED
    BY <1>2, <2>1, <2>2, <2>3, <2>4 DEF AddChannel, PollerTypeOK
<1>3. QED
  BY <1>1, <1>2

(* updateChannel() for a known channel keeps the types.                    *)
LEMMA ModifyKeepsType ==
    ASSUME PollerTypeOK, NEW c \in Channels, NEW ev \in SUBSET Events, ModifyChannel(c, ev)
    PROVE  PollerTypeOK'
<1> DEFINE i == index[c] + 1
<1>1. CASE Fail("notRegistered") \/ Fail("otherChannel") \/ Fail("badIndex")
  BY <1>1, FailKeeps DEF Faults
<1>2. CASE /\ i \in 1 .. Len(pollfds)
           /\ pollfds' = [pollfds EXCEPT ![i] = UpdatedEntry(i, ev)]
           /\ events' = [events EXCEPT ![c] = ev]
           /\ UNCHANGED <<channels, index, fault>>
  <2>1. pollfds[i] \in PollFds
    BY <1>2, ElementOfSeq DEF PollerTypeOK
  <2>2. UpdatedEntry(i, ev) \in PollFds
    BY <2>1 DEF UpdatedEntry, PollFds
  <2>3. pollfds' \in Seq(PollFds)
    BY <1>2, <2>2, ExceptSeq DEF PollerTypeOK
  <2>4. QED
    BY <1>2, <2>3 DEF PollerTypeOK
<1>3. QED
  BY <1>1, <1>2 DEF ModifyChannel

(* removeChannel() keeps the types.                                        *)
LEMMA RemoveKeepsType ==
    ASSUME PollerTypeOK, NEW c \in Channels, RemoveChannel(c), IndexConsistent
    PROVE  PollerTypeOK'
<1> DEFINE fdAtEnd == pollfds[Len(pollfds)].fd
           i == IF fdAtEnd = FdOf[c] THEN Len(pollfds) ELSE index[c] + 1
<1>1. CASE \E f \in Faults : Fail(f)
  BY <1>1, FailKeeps
<1>2. CASE /\ channels' = [fd \in DOMAIN channels \ {FdOf[c]} |-> channels[fd]]
           /\ index' = IF fdAtEnd = FdOf[c] THEN index ELSE SwapOut(c, channels[fdAtEnd])
           /\ pollfds' = DropEntry(i)
           /\ UNCHANGED <<events, fault>>
  <2>1. \A j \in 1 .. Len(pollfds) : pollfds[j] \in PollFds
    BY ElementOfSeq DEF PollerTypeOK
  <2>2. Len(pollfds) \in Nat
    BY LenProperties DEF PollerTypeOK
  <2>3. pollfds' \in Seq(PollFds)
    <3>1. CASE Len(pollfds) = 0
      <4>1. pollfds' = <<>>
        BY <1>2, <3>1 DEF DropEntry
      <4>2. QED
        BY <4>1
    <3>2. CASE Len(pollfds) > 0
      <4>1. Len(pollfds) - 1 \in Nat
        BY <2>2, <3>2
      <4>2. \A j \in 1 .. Len(pollfds) - 1 :
               (IF j = i THEN pollfds[Len(pollfds)] ELSE pollfds[j]) \in PollFds
        BY <2>1, <2>2, <3>2
      <4>3. pollfds' \in [1 .. Len(pollfds) - 1 -> PollFds]
        BY <1>2, <4>2 DEF DropEntry
      <4>4. QED
        BY <4>1, <4>3, SeqDef
    <3>3. QED
      BY <2>2, <3>1, <3>2
  <2>4. index' \in [Channels -> Int]
    BY <1>2 DEF PollerTypeOK, SwapOut
  <2>5. QED
    BY <1>2, <2>3, <2>4 DEF PollerTypeOK
<1>3. QED
  BY <1>1, <1>2 DEF RemoveChannel, Faults

(* Pushing an entry back: the new channel gets the last place.             *)
LEMMA AddKeepsIndex ==
    ASSUME PollerTypeOK, IndexConsistent, NEW c \in Channels, NEW ev \in SUBSET Events,
           AddChannel(c, ev)
    PROVE  IndexConsistent'
<1>1. CASE FdOf[c] \in DOMAIN channels
  BY <1>1, FailKeeps DEF AddChannel, Faults
<1>2. CASE FdOf[c] \notin DOMAIN channels
  <2> DEFINE n == Len(pollfds)
             entry == [fd |-> FdOf[c], events |-> ev]
  <2>1. FdOf[c] \in Nat /\ entry \in PollFds
    BY FdAssumption DEF PollFds
  <2>2. n \in Nat /\ pollfds \in Seq(PollFds) /\ pollfds' = Append(pollfds, entry)
    BY <1>2, LenProperties DEF AddChannel, PollerTypeOK
  <2>3. /\ Len(pollfds') = n + 1
        /\ \A j \in 1 .. n : pollfds'[j] = pollfds[j]
        /\ pollfds'[n + 1] = entry
    <3> HIDE DEF entry
    <3>1. QED
      BY <2>1, <2>2, AppendProperties
  <2>4. /\ DOMAIN channels' = DOMAIN channels \cup {FdOf[c]}
        /\ channels'[FdOf[c]] = c
        /\ \A fd \in DOMAIN channels : channels'[fd] = channels[fd]
    BY <1>2 DEF AddChannel
  <2>5. index'[c] = n /\ events'[c] = ev
    BY <1>2 DEF AddChannel, NewIndex, PollerTypeOK
  <2>6. ASSUME NEW fd \in DOMAIN channels
        PROVE  /\ channels[fd] # c
               /\ channels[fd] \in Channels
               /\ index'[channels[fd]] = index[channels[fd]]
               /\ events'[channels[fd]] = events[channels[fd]]
               /\ index[channels[fd]] + 1 \in 1 .. n
               /\ index[channels[fd]] \in Int
    BY <1>2 DEF AddChannel, PollerTypeOK, IndexConsistent, ChannelHasEntry
  <2>7. ChannelHasEntry'
    <3> SUFFICES ASSUME NEW fd \in DOMAIN channels'
                 PROVE  LET d == channels'[fd]
                            i == index'[d] + 1 IN
                        /\ FdOf[d] = fd
                        /\ i \in 1 .. Len(pollfds')
                        /\ pollfds'[i].fd \in {fd, Parked}
                        /\ pollfds'[i].events = events'[d]
      BY DEF ChannelHasEntry
    <3>1. CASE fd = FdOf[c]
      BY <3>1, <2>2, <2>3, <2>4, <2>5
    <3>2. CASE fd # FdOf[c]
      <4>1. fd \in DOMAIN channels
        BY <3>2, <2>4
      <4>2. QED
        BY <4>1, <2>2, <2>3, <2>4, <2>6 DEF IndexConsistent, ChannelHasEntry
    <3>3. QED
      BY <3>1, <3>2
  <2>8. EntryHasChannel'
    <3> SUFFICES ASSUME NEW i \in 1 .. Len(pollfds')
                 PROVE  \E fd \in DOMAIN channels' : index'[channels'[fd]] = i - 1
      BY DEF EntryHasChannel
    <3>1. CASE i = n + 1
      BY <3>1, <2>2, <2>4, <2>5
    <3>2. CASE i # n + 1
      <4>1. PICK fd \in DOMAIN channels : index[channels[fd]] = i - 1
        BY <3>2, <2>2, <2>3 DEF IndexConsistent, EntryHasChannel
      <4>2. QED
        BY <4>1, <2>4, <2>6
    <3>3. QED
      BY <3>1, <3>2
  <2>9. EntriesDistinct'
    <3> SUFFICES ASSUME NEW fd1 \in DOMAIN channels', NEW fd2 \in DOMAIN channels',
                        index'[channels'[fd1]] = index'[channels'[fd2]]
                 PROVE  fd1 = fd2
      BY DEF EntriesDistinct
    <3>1. \A fd \in DOMAIN channels : index'[channels'[fd]] # n
      BY <2>2, <2>4, <2>6
    <3>2. CASE fd1 = FdOf[c] \/ fd2 = FdOf[c]
      BY <3>1, <3>2, <2>4, <2>5
    <3>3. CASE fd1 # FdOf[c] /\ fd2 # FdOf[c]
      BY <3>3, <2>4, <2>6 DEF IndexConsistent, EntriesDistinct
    <3>4. QED
      BY <3>2, <3>3
  <2>10. QED
    BY <2>7, <2>8, <2>9 DEF IndexConsistent
<1>3. QED
  BY <1>1, <1>2

(* Changing an entry in place: nobody else's entry is at that place.       *)
LEMMA ModifyKeepsIndex ==
    ASSUME PollerTypeOK, IndexConsistent, NEW c \in Channels, NEW ev \in SUBSET Events,
           ModifyChannel(c, ev)
    PROVE  IndexConsistent'
<1> DEFINE i == index[c] + 1
<1>1. CASE Fail("notRegistered") \/ Fail("otherChannel") \/ Fail("badIndex")
  BY <1>1, FailKeeps DEF Faults
<1>2. CASE /\ FdOf[c] \in DOMAIN channels /\ channels[FdOf[c]] = c
           /\ i \in 1 .. Len(pollfds)
           /\ pollfds[i].fd \in {FdOf[c], Parked}
           /\ pollfds' = [pollfds EXCEPT ![i] = UpdatedEntry(i, ev)]
           /\ events' = [events EXCEPT ![c] = ev]
           /\ UNCHANGED <<channels, index, fault>>
  <2>1. /\ Len(pollfds') = Len(pollfds)
        /\ \A j \in 1 .. Len(pollfds) :
              pollfds'[j] = IF j = i THEN UpdatedEntry(i, ev) ELSE pollfds[j]
    <3>1. UpdatedEntry(i, ev) \in PollFds
      BY <1>2, ElementOfSeq DEF PollerTypeOK, UpdatedEntry, PollFds
    <3>2. QED
      BY <1>2, <3>1, ExceptSeq DEF PollerTypeOK
  <2>2. /\ UpdatedEntry(i, ev).fd \in {FdOf[c], Parked}
        /\ UpdatedEntry(i, ev).events = ev
    BY <1>2 DEF UpdatedEntry
  <2>3. ChannelHasEntry'
    <3> SUFFICES ASSUME NEW fd \in DOMAIN channels
                 PROVE  LET d == channels[fd]
                            j == index[d] + 1 IN
                        /\ FdOf[d] = fd
                        /\ j \in 1 .. Len(pollfds')
                        /\ pollfds'[j].fd \in {fd, Parked}
                        /\ pollfds'[j].events = events'[d]
      BY <1>2 DEF ChannelHasEntry
    <3>1. CASE fd = FdOf[c]
      BY <3>1, <1>2, <2>1, <2>2 DEF PollerTypeOK
    <3>2. CASE fd # FdOf[c]
      <4>1. channels[fd] # c /\ index[channels[fd]] # index[c]
        BY <3>2, <1>2 DEF IndexConsistent, ChannelHasEntry, EntriesDistinct
      <4>2. index[channels[fd]] + 1 # i /\ events'[channels[fd]] = events[channels[fd]]
        BY <4>1, <1>2 DEF PollerTypeOK
      <4>3. QED
        BY <4>2, <2>1 DEF IndexConsistent, ChannelHasEntry
    <3>3. QED
      BY <3>1, <3>2
  <2>4. EntryHasChannel' /\ EntriesDistinct'
    BY <1>2, <2>1 DEF IndexConsistent, EntryHasChannel, EntriesDistinct
  <2>5. QED
    BY <2>3, <2>4 DEF IndexConsistent
<1>3. QED
  BY <1>1, <1>2 DEF ModifyChannel

(* The entry whose descriptor is that of a registered channel is that      *)
(* channel's entry.                                                        *)
LEMMA EntryOwner ==
    ASSUME PollerTypeOK, IndexConsistent, NEW i \in 1 .. Len(pollfds),
           pollfds[i].fd \in DOMAIN channels
    PROVE  index[channels[pollfds[i].fd]] = i - 1
<1>1. PICK fd \in DOMAIN channels : index[channels[fd]] = i - 1
  BY DEF IndexConsistent, EntryHasChannel
<1>2. index[channels[fd]] + 1 = i
  BY <1>1, LenProperties DEF PollerTypeOK
<1>3. pollfds[i].fd \in {fd, Parked}
  BY <1>2 DEF IndexConsistent, ChannelHasEntry
<1>4. pollfds[i].fd # Parked
  BY DEF PollerTypeOK, Parked
<1>5. QED
  BY <1>1, <1>3, <1>4

(* Removing an entry: the last one moves into its place, and the channel   *)
(* it belongs to is told.                                                  *)
LEMMA RemoveKeepsIndex ==
    ASSUME PollerTypeOK, IndexConsistent, NEW c \in Channels, RemoveChannel(c)
    PROVE  IndexConsistent'
<1> DEFINE n == Len(pollfds)
           fdAtEnd == pollfds[n].fd
           last == channels[fdAtEnd]
           i == IF fdAtEnd = FdOf[c] THEN n ELSE index[c] + 1
<1>1. CASE \E f \in Faults : Fail(f)
  BY <1>1, FailKeeps
<1>2. CASE /\ FdOf[c] \in DOMAIN channels /\ channels[FdOf[c]] = c
           /\ fdAtEnd \in DOMAIN channels
           /\ channels' = [fd \in DOMAIN channels \ {FdOf[c]} |-> channels[fd]]
           /\ index' = IF fdAtEnd = FdOf[c] THEN index ELSE SwapOut(c, last)
           /\ pollfds' = DropEntry(i)
           /\ UNCHANGED <<events, fault>>
  <2>1. n \in Nat /\ index[c] \in Int /\ index[c] + 1 \in 1 .. n
    BY <1>2, LenProperties DEF PollerTypeOK, IndexConsistent, ChannelHasEntry
  <2>2. last \in Channels /\ FdOf[last] = fdAtEnd /\ index[last] = n - 1
    <3>1. n \in 1 .. Len(pollfds)
      BY <2>1
    <3>2. QED
      BY <1>2, <3>1, EntryOwner DEF PollerTypeOK, IndexConsistent, ChannelHasEntry
  <2>3. i = index[c] + 1 /\ (fdAtEnd = FdOf[c] <=> i = n) /\ (fdAtEnd = FdOf[c] <=> last = c)
    <3>1. CASE fdAtEnd = FdOf[c]
      BY <3>1, <1>2, <2>1, <2>2
    <3>2. CASE fdAtEnd # FdOf[c]
      <4>1. last # c
        BY <3>2, <2>2
      <4>2. index[c] # n - 1
        BY <3>2, <1>2, <2>2 DEF IndexConsistent, EntriesDistinct
      <4>3. QED
        BY <3>2, <4>1, <4>2, <2>1
    <3>3. QED
      BY <3>1, <3>2
  <2>4. /\ Len(pollfds') = n - 1
        /\ \A j \in 1 .. n - 1 : pollfds'[j] = IF j = i THEN pollfds[n] ELSE pollfds[j]
    BY <1>2, <2>1 DEF DropEntry
  <2>5. /\ DOMAIN channels' = DOMAIN channels \ {FdOf[c]}
        /\ \A fd \in DOMAIN channels' : channels'[fd] = channels[fd]
    BY <1>2
  <2>6. ASSUME NEW fd \in DOMAIN channels'
        PROVE  LET d == channels[fd] IN
               /\ d \in Channels /\ d # c /\ FdOf[d] = fd
               /\ index[d] \in Int /\ index[d] + 1 \in 1 .. n /\ index[d] # index[c]
               /\ pollfds[index[d] + 1].fd \in {fd, Parked}
               /\ pollfds[index[d] + 1].events = events[d]
               /\ index'[d] = IF d = last THEN index[c] ELSE index[d]
               /\ d = last <=> index[d] = n - 1
               /\ d = last <=> fd = fdAtEnd
    <3> DEFINE d == channels[fd]
    <3>1. fd \in DOMAIN channels /\ fd # FdOf[c]
      BY <2>5
    <3>2. /\ d \in Channels /\ FdOf[d] = fd
          /\ index[d] \in Int /\ index[d] + 1 \in 1 .. n
          /\ pollfds[index[d] + 1].fd \in {fd, Parked}
          /\ pollfds[index[d] + 1].events = events[d]
      BY <3>1 DEF PollerTypeOK, IndexConsistent, ChannelHasEntry
    <3>3. d # c /\ index[d] # index[c]
      BY <3>1, <3>2, <1>2 DEF IndexConsistent, EntriesDistinct
    <3>4. d = last <=> fd = fdAtEnd
      BY <3>2, <2>2
    <3>5. d = last <=> index[d] = n - 1
      BY <3>1, <3>4, <1>2, <2>2 DEF IndexConsistent, EntriesDistinct
    <3>6. index'[d] = IF d = last THEN index[c] ELSE index[d]
      BY <1>2, <2>2, <2>3, <3>2, <3>3 DEF SwapOut, PollerTypeOK
    <3>7. QED
      BY <3>2, <3>3, <3>4, <3>5, <3>6
  <2>7. ChannelHasEntry'
    <3> SUFFICES ASSUME NEW fd \in DOMAIN channels'
                 PROVE  LET d == channels[fd]
                            j == index'[d] + 1 IN
                        /\ FdOf[d] = fd
                        /\ j \in 1 .. Len(pollfds')
                        /\ pollfds'[j].fd \in {fd, Parked}
                        /\ pollfds'[j].events = events'[d]
      BY <2>5 DEF ChannelHasEntry
    <3> DEFINE d == channels[fd]
    <3>1. CASE d = last
      <4>1. index'[d] + 1 = i /\ i # n /\ index[d] + 1 = n
        BY <3>1, <2>1, <2>3, <2>6
      <4>2. pollfds'[i] = pollfds[n] /\ i \in 1 .. n - 1
        BY <4>1, <2>1, <2>3, <2>4
      <4>3. QED
        BY <4>1, <4>2, <2>4, <2>6, <1>2
    <3>2. CASE d # last
      <4>1. index'[d] = index[d] /\ index[d] + 1 \in 1 .. n - 1 /\ index[d] + 1 # i
        BY <3>2, <2>1, <2>3, <2>6
      <4>2. pollfds'[index[d] + 1] = pollfds[index[d] + 1]
        BY <4>1, <2>4
      <4>3. index'[d] + 1 \in 1 .. Len(pollfds') /\ events' = events
        BY <4>1, <2>4, <1>2
      <4>4. QED
        BY <4>1, <4>2, <4>3, <2>6
    <3>3. QED
      BY <3>1, <3>2
  <2>8. EntryHasChannel'
    <3> SUFFICES ASSUME NEW j \in 1 .. n - 1
                 PROVE  \E fd \in DOMAIN channels' : index'[channels[fd]] = j - 1
      BY <2>4, <2>5 DEF EntryHasChannel
    <3>1. CASE j = i
      <4>1. fdAtEnd \in DOMAIN channels'
        BY <3>1, <1>2, <2>1, <2>3, <2>5
      <4>2. index'[last] = index[c]
        BY <4>1, <2>6
      <4>3. QED
        BY <3>1, <4>1, <4>2, <2>1, <2>3
    <3>2. CASE j # i
      <4>1. PICK fd \in DOMAIN channels : index[channels[fd]] = j - 1
        BY <2>1 DEF IndexConsistent, EntryHasChannel
      <4>2. fd # FdOf[c]
        BY <3>2, <4>1, <1>2, <2>1, <2>3
      <4>3. fd \in DOMAIN channels' /\ channels[fd] # last
        BY <4>1, <4>2, <2>1, <2>2, <2>5
      <4>4. QED
        BY <4>1, <4>3, <2>6
    <3>3. QED
      BY <3>1, <3>2
  <2>9. EntriesDistinct'
    <3> SUFFICES ASSUME NEW fd1 \in DOMAIN channels', NEW fd2 \in DOMAIN channels',
                        index'[channels[fd1]] = index'[channels[fd2]]
                 PROVE  fd1 = fd2
      BY <2>5 DEF EntriesDistinct
    <3>1. CASE channels[fd1] = last \/ channels[fd2] = last
      BY <3>1, <2>6
    <3>2. CASE channels[fd1] # last /\ channels[fd2] # last
      BY <3>2, <2>5, <2>6 DEF IndexConsistent, EntriesDistinct
    <3>3. QED
      BY <3>1, <3>2
  <2>10. QED
    BY <2>7, <2>8, <2>9 DEF IndexConsistent
<1>3. QED
  BY <1>1, <1>2 DEF RemoveChannel, Faults

(* Each step keeps the types and the consistency of the bookkeeping.       *)
LEMMA StepKeeps ==
    PollerTypeOK /\ IndexConsistent /\ [PollerNext]_pollerVars => PollerTypeOK' /\ IndexConsistent'
<1> SUFFICES ASSUME PollerTypeOK, IndexConsistent, [PollerNext]_pollerVars
             PROVE  PollerTypeOK' /\ IndexConsistent'
  OBVIOUS
<1>1. ASSUME NEW c \in Channels, NEW ev \in SUBSET Events, UpdateChannel(c, ev)
      PROVE  PollerTypeOK' /\ IndexConsistent'
  BY <1>1, AddKeepsType, AddKeepsIndex, ModifyKeepsType, ModifyKeepsIndex DEF UpdateChannel
<1>2. ASSUME NEW c \in Channels,
             EnableReading(c) \/ EnableWriting(c) \/ DisableWriting(c) \/ DisableAll(c)
      PROVE  PollerTypeOK' /\ IndexConsistent'
  <2>1. events[c] \in SUBSET Events
    BY DEF PollerTypeOK
  <2>2. /\ events[c] \cup {"read"} \in SUBSET Events
        /\ events[c] \cup {"write"} \in SUBSET Events
        /\ events[c] \ {"write"} \in SUBSET Events
    BY <2>1 DEF Events
  <2>3. QED
    BY <1>1, <1>2, <2>1, <2>2 DEF EnableReading, EnableWriting, DisableWriting, DisableAll
<1>3. ASSUME NEW c \in Channels, RemoveChannel(c) PROVE PollerTypeOK' /\ IndexConsistent'
  BY <1>3, RemoveKeepsType, RemoveKeepsIndex
<1>4. ASSUME NEW c \in Channels, Rebuild(c) PROVE PollerTypeOK' /\ IndexConsistent'
  <2>1. PollerTypeOK'
    BY <1>4 DEF Rebuild, PollerTypeOK, NoIndex
  <2>2. \A fd \in DOMAIN channels : channels[fd] # c
    BY <1>4 DEF Rebuild, Registered, IndexConsistent, ChannelHasEntry
  <2>3. \A fd \in DOMAIN channels :
           /\ index'[channels[fd]] = index[channels[fd]]
           /\ events'[channels[fd]] = events[channels[fd]]
    BY <1>4, <2>2 DEF Rebuild, PollerTypeOK
  <2>4. IndexConsistent'
    BY <1>4, <2>3 DEF Rebuild, IndexConsistent, ChannelHasEntry, EntryHasChannel, EntriesDistinct
  <2>5. QED
    BY <2>1, <2>4
<1>5. ASSUME NEW reported \in SUBSET Reportable, Poll(reported)
      PROVE  PollerTypeOK' /\ IndexConsistent'
  <2>1. CASE Fail("unknownFd")
    BY <2>1, FailKeeps DEF Faults
  <2>2. CASE UNCHANGED pollerVars
    BY <2>2 DEF pollerVars, PollerTypeOK, IndexConsistent, ChannelHasEntry, EntryHasChannel, EntriesDistinct
  <2>3. QED
    BY <1>5, <2>1, <2>2 DEF Poll
<1>6. CASE UNCHANGED pollerVars
  BY <1>6 DEF pollerVars, PollerTypeOK, IndexConsistent, ChannelHasEntry, EntryHasChannel, EntriesDistinct
<1>7. QED
  BY <1>2, <1>3, <1>4, <1>5, <1>6 DEF PollerNext

(* An empty poller is consistent.                                          *)
LEMMA InitConsistent == PollerInit => PollerTypeOK /\ IndexConsistent
<1> SUFFICES ASSUME PollerInit PROVE PollerTypeOK /\ IndexConsistent
  OBVIOUS
<1>1. DOMAIN channels = {} /\ pollfds = <<>> /\ Len(pollfds) = 0
  BY DEF PollerInit
<1>2. PollerTypeOK
  BY <1>1 DEF PollerInit, PollerTypeOK, NoIndex, Faults
<1>3. IndexConsistent
  BY <1>1 DEF IndexConsistent, ChannelHasEntry, EntryHasChannel, EntriesDistinct
<1>4. QED
  BY <1>2, <1>3

(* Every variable keeps its type.                                          *)
THEOREM PollerTypeCorrect == PollerSpec => []PollerTypeOK
  BY InitConsistent, StepKeeps, PTL DEF PollerSpec

(* pollfds_, channels_, index_ and events_ stay consistent through every   *)
(* sequence of enable, disable and remove calls.                           *)
THEOREM IndexStaysConsistent == PollerSpec => []IndexConsistent
  BY InitConsistent, StepKeeps, PTL DEF PollerSpec

(* The asserts of updateChannel() on the index and of fillActiveChannels() *)
(* on the map never fail.                                                  *)
THEOREM BookkeepingAssertsHold == PollerSpec => []BookkeepingSound
<1>1. PollerInit => BookkeepingSound
  BY DEF PollerInit, BookkeepingSound
<1>2. PollerTypeOK /\ IndexConsistent /\ BookkeepingSound /\ [PollerNext]_pollerVars => BookkeepingSound'
  <2> SUFFICES ASSUME PollerTypeOK, IndexConsistent, BookkeepingSound, [PollerNext]_pollerVars
               PROVE  BookkeepingSound'
    OBVIOUS
  <2>1. ASSUME NEW c \in Channels, NEW ev, UpdateChannel(c, ev) PROVE BookkeepingSound'
    <3>1. CASE AddChannel(c, ev)
      BY <3>1 DEF AddChannel, Fail, BookkeepingSound
    <3>2. CASE ModifyChannel(c, ev)
      <4>1. CASE FdOf[c] \in DOMAIN channels /\ channels[FdOf[c]] = c
        <5>1. index[c] + 1 \in 1 .. Len(pollfds) /\ pollfds[index[c] + 1].fd \in {FdOf[c], Parked}
          BY <4>1 DEF IndexConsistent, ChannelHasEntry
        <5>2. QED
          BY <3>2, <4>1, <5>1 DEF ModifyChannel, BookkeepingSound
      <4>2. CASE ~(FdOf[c] \in DOMAIN channels /\ channels[FdOf[c]] = c)
        BY <3>2, <4>2 DEF ModifyChannel, Fail, BookkeepingSound
      <4>3. QED
        BY <4>1, <4>2
    <3>3. QED
      BY <2>1, <3>1, <3>2 DEF UpdateChannel
  <2>2. ASSUME NEW c \in Channels, RemoveChannel(c) PROVE BookkeepingSound'
    BY <2>2 DEF RemoveChannel, Fail, BookkeepingSound
  <2>3. ASSUME NEW c \in Channels, Rebuild(c) PROVE BookkeepingSound'
    BY <2>3 DEF Rebuild, BookkeepingSound
  <2>4. ASSUME NEW reported \in SUBSET Reportable, Poll(reported) PROVE BookkeepingSound'
    <3>1. ASSUME NEW i \in reported
          PROVE  pollfds[i].fd \in DOMAIN channels /\ FdOf[channels[pollfds[i].fd]] = pollfds[i].fd
      <4>1. i \in 1 .. Len(pollfds) /\ pollfds[i].fd # Parked
        BY <3>1 DEF Reportable
      <4>2. PICK fd \in DOMAIN channels : index[channels[fd]] = i - 1
        BY <4>1 DEF IndexConsistent, EntryHasChannel
      <4>3. index[channels[fd]] + 1 = i
        BY <4>1, <4>2, LenProperties DEF PollerTypeOK
      <4>4. pollfds[i].fd = fd /\ FdOf[channels[fd]] = fd
        BY <4>1, <4>3 DEF IndexConsistent, ChannelHasEntry
      <4>5. QED
        BY <4>4
    <3>2. QED
      BY <2>4, <3>1 DEF Poll, pollerVars, BookkeepingSound
  <2>5. CASE UNCHANGED pollerVars
    BY <2>5 DEF pollerVars, BookkeepingSound
  <2>6. QED
    BY <2>1, <2>2, <2>3, <2>4, <2>5
       DEF PollerNext, EnableReading, EnableWriting, DisableWriting, DisableAll
<1>3. QED
  BY <1>1, <1>2, PollerTypeCorrect, IndexStaysConsistent, PTL DEF PollerSpec
---------------------------------------------------------------------------
(* Other channels' entries.                                                *)

(* A channel that stays registered, with the same events.                  *)
Stays(c) == /\ Registered(c) /\ events[c] # {}
            /\ Registered(c)' /\ events'[c] = events[c]

Undisturbed == \A c \in Channels : Stays(c) => pollfds'[index'[c] + 1] = pollfds[index[c] + 1]

(* Where a registered channel's entry is.                                  *)
LEMMA RegisteredEntry ==
    ASSUME PollerTypeOK, IndexConsistent, NEW c \in Channels, Registered(c)
    PROVE  /\ index[c] \in Int /\ index[c] + 1 \in 1 .. Len(pollfds)
           /\ pollfds[index[c] + 1].events = events[c]
           /\ \A d \in Channels : Registered(d) /\ index[d] = index[c] => d = c
<1>1. FdOf[c] \in DOMAIN channels /\ channels[FdOf[c]] = c
  BY DEF Registered
<1>2. index[c] + 1 \in 1 .. Len(pollfds) /\ pollfds[index[c] + 1].events = events[c]
  BY <1>1 DEF IndexConsistent, ChannelHasEntry
<1>3. ASSUME NEW d \in Channels, Registered(d), index[d] = index[c]
      PROVE  d = c
  BY <1>1, <1>3 DEF Registered, IndexConsistent, EntriesDistinct
<1>4. QED
  BY <1>2, <1>3 DEF PollerTypeOK

(* A failed assert changes nothing.                                        *)
LEMMA FailUndisturbed ==
    ASSUME NEW f, Fail(f)
    PROVE  Undisturbed
BY DEF Fail, Undisturbed

(* A new entry at the end.                                                 *)
LEMMA AddUndisturbed ==
    ASSUME PollerTypeOK, IndexConsistent, NEW d \in Channels, NEW ev \in SUBSET Events,
           AddChannel(d, ev)
    PROVE  Undisturbed
<1>1. CASE FdOf[d] \in DOMAIN channels
  BY <1>1, FailUndisturbed DEF AddChannel
<1>2. CASE FdOf[d] \notin DOMAIN channels
  <2> DEFINE entry == [fd |-> FdOf[d], events |-> ev]
  <2>1. /\ pollfds' = Append(pollfds, entry)
        /\ index' = [index EXCEPT ![d] = NewIndex]
    BY <1>2 DEF AddChannel
  <2>2. entry \in PollFds
    BY FdAssumption DEF PollFds
  <2> HIDE DEF entry
  <2>3. \A j \in 1 .. Len(pollfds) : pollfds'[j] = pollfds[j]
    BY <2>1, <2>2, AppendProperties DEF PollerTypeOK
  <2>4. ASSUME NEW c \in Channels, Stays(c)
        PROVE  pollfds'[index'[c] + 1] = pollfds[index[c] + 1]
    <3>1. Registered(c)
      BY <2>4 DEF Stays
    <3>2. c # d
      BY <1>2, <3>1 DEF Registered
    <3>3. index'[c] = index[c]
      BY <2>1, <3>2 DEF PollerTypeOK
    <3>4. QED
      BY <2>3, <3>1, <3>3, RegisteredEntry
  <2>5. QED
    BY <2>4 DEF Undisturbed
<1>3. QED
  BY <1>1, <1>2

(* The entry of one channel is written: no other one has that place.       *)
LEMMA ModifyUndisturbed ==
    ASSUME PollerTypeOK, IndexConsistent, NEW d \in Channels, NEW ev \in SUBSET Events,
           ModifyChannel(d, ev)
    PROVE  Undisturbed
<1> DEFINE i == index[d] + 1
<1>1. CASE Fail("notRegistered") \/ Fail("otherChannel") \/ Fail("badIndex")
  BY <1>1, FailUndisturbed
<1>2. CASE /\ FdOf[d] \in DOMAIN channels /\ channels[FdOf[d]] = d
           /\ pollfds' = [pollfds EXCEPT ![i] = UpdatedEntry(i, ev)]
           /\ events' = [events EXCEPT ![d] = ev]
           /\ UNCHANGED index
  <2>1. Registered(d)
    BY <1>2 DEF Registered
  <2>2. i \in 1 .. Len(pollfds) /\ pollfds[i].events = events[d] /\ index[d] \in Int
    BY <2>1, RegisteredEntry
  <2>3. /\ \A j \in 1 .. Len(pollfds) : j # i => pollfds'[j] = pollfds[j]
        /\ pollfds'[i] = UpdatedEntry(i, ev)
    BY <1>2, <2>2, LenProperties DEF PollerTypeOK
  <2>4. ASSUME NEW c \in Channels, Stays(c)
        PROVE  pollfds'[index'[c] + 1] = pollfds[index[c] + 1]
    <3>1. Registered(c) /\ index'[c] = index[c]
      BY <1>2, <2>4 DEF Stays
    <3>2. index[c] + 1 \in 1 .. Len(pollfds) /\ index[c] \in Int
      BY <3>1, RegisteredEntry
    <3>3. CASE c # d
      <4>1. index[c] # index[d]
        BY <2>1, <3>1, <3>3, RegisteredEntry
      <4>2. QED
        BY <2>2, <2>3, <3>1, <3>2, <4>1
    <3>4. CASE c = d
      <4>1. ev = events[d] /\ ev # {}
        BY <1>2, <2>4, <3>4 DEF Stays, PollerTypeOK
      <4>2. pollfds[i] \in PollFds
        BY <2>2, ElementOfSeq DEF PollerTypeOK
      <4>3. pollfds[i] = [fd |-> pollfds[i].fd, events |-> pollfds[i].events]
        BY <4>2 DEF PollFds
      <4>4. UpdatedEntry(i, ev) = pollfds[i]
        BY <2>2, <4>1, <4>3 DEF UpdatedEntry
      <4>5. QED
        BY <2>3, <3>1, <3>4, <4>4
    <3>5. QED
      BY <3>3, <3>4
  <2>5. QED
    BY <2>4 DEF Undisturbed
<1>3. QED
  BY <1>1, <1>2 DEF ModifyChannel

(* The last entry fills the hole, and its channel is told so.              *)
LEMMA RemoveUndisturbed ==
    ASSUME PollerTypeOK, IndexConsistent, NEW d \in Channels, RemoveChannel(d)
    PROVE  Undisturbed
<1> DEFINE n == Len(pollfds)
           fdAtEnd == pollfds[n].fd
           last == channels[fdAtEnd]
           i == IF fdAtEnd = FdOf[d] THEN n ELSE index[d] + 1
<1>1. CASE \E f \in Faults : Fail(f)
  BY <1>1, FailUndisturbed
<1>2. CASE /\ FdOf[d] \in DOMAIN channels /\ channels[FdOf[d]] = d
           /\ fdAtEnd \in DOMAIN channels
           /\ channels' = [fd \in DOMAIN channels \ {FdOf[d]} |-> channels[fd]]
           /\ index' = IF fdAtEnd = FdOf[d] THEN index ELSE SwapOut(d, last)
           /\ pollfds' = DropEntry(i)
  <2>1. Registered(d)
    BY <1>2 DEF Registered
  <2>2. n \in Nat /\ index[d] \in Int /\ index[d] + 1 \in 1 .. n
    BY <2>1, RegisteredEntry, LenProperties DEF PollerTypeOK
  <2>3. n \in 1 .. n
    BY <2>2
  <2>4. last \in Channels /\ index[last] = n - 1 /\ FdOf[last] = fdAtEnd /\ Registered(last)
    <3>1. index[last] = n - 1
      BY <1>2, <2>3, EntryOwner
    <3>2. last \in Channels /\ FdOf[last] = fdAtEnd
      BY <1>2 DEF PollerTypeOK, IndexConsistent, ChannelHasEntry
    <3>3. QED
      BY <1>2, <3>1, <3>2 DEF Registered
  <2>5. \A j \in 1 .. n - 1 : pollfds'[j] = IF j = i THEN pollfds[n] ELSE pollfds[j]
    BY <1>2 DEF DropEntry
  <2>6. ASSUME NEW c \in Channels, Stays(c)
        PROVE  pollfds'[index'[c] + 1] = pollfds[index[c] + 1]
    <3>1. Registered(c) /\ c # d
      <4>1. FdOf[c] \in DOMAIN channels'
        BY <2>6 DEF Stays, Registered
      <4>2. QED
        BY <1>2, <2>6, <4>1 DEF Stays
    <3>2. index[c] \in Int /\ index[c] + 1 \in 1 .. n /\ index[c] # index[d]
      BY <2>1, <3>1, RegisteredEntry
    <3>3. CASE fdAtEnd = FdOf[d]
      <4>1. index'[c] = index[c] /\ i = n /\ last = d
        BY <1>2, <3>3
      <4>2. index[c] + 1 \in 1 .. n - 1 /\ index[c] + 1 # n
        BY <2>2, <2>4, <3>2, <4>1
      <4> HIDE DEF n, fdAtEnd, last, i
      <4>3. QED
        BY <2>5, <4>1, <4>2
    <3>4. CASE fdAtEnd # FdOf[d] /\ c = last
      <4>1. index'[c] = index[d] /\ i = index[d] + 1 /\ index[c] = n - 1
        BY <1>2, <2>4, <3>4 DEF SwapOut, PollerTypeOK
      <4>2. index[d] + 1 \in 1 .. n - 1 /\ index[c] + 1 = n
        BY <2>2, <3>2, <4>1
      <4> HIDE DEF n, fdAtEnd, last, i
      <4>3. QED
        BY <2>5, <4>1, <4>2
    <3>5. CASE fdAtEnd # FdOf[d] /\ c # last
      <4>1. index'[c] = index[c] /\ i = index[d] + 1
        BY <1>2, <3>5 DEF SwapOut, PollerTypeOK
      <4>2. index[c] # n - 1
        BY <2>4, <3>1, <3>5, RegisteredEntry
      <4>3. index[c] + 1 \in 1 .. n - 1 /\ index[c] + 1 # i
        BY <2>2, <3>2, <4>1, <4>2
      <4> HIDE DEF n, fdAtEnd, last, i
      <4>4. QED
        BY <2>5, <4>1, <4>3
    <3>6. QED
      BY <3>3, <3>4, <3>5
  <2>7. QED
    BY <2>6 DEF Undisturbed
<1>3. QED
  BY <1>1, <1>2 DEF RemoveChannel, Faults

(* Adding, changing or removing one channel leaves the entries of all the  *)
(* others as poll(2) sees them alone, wherever they are moved.             *)
THEOREM OthersStayUndisturbed == PollerSpec => OthersUndisturbed
<1>1. PollerTypeOK /\ IndexConsistent /\ [PollerNext]_pollerVars => [Undisturbed]_pollerVars
  <2>1. SUFFICES ASSUME PollerTypeOK, IndexConsistent, PollerNext PROVE Undisturbed
    OBVIOUS
  <2>2. ASSUME NEW d \in Channels, NEW ev \in SUBSET Events, UpdateChannel(d, ev)
        PROVE  Undisturbed
    BY <2>1, <2>2, AddUndisturbed, ModifyUndisturbed DEF UpdateChannel
  <2>3. ASSUME NEW d \in Channels,
               EnableReading(d) \/ EnableWriting(d) \/ DisableWriting(d) \/ DisableAll(d)
        PROVE  Undisturbed
    <3>1. events[d] \in SUBSET Events
      BY <2>1 DEF PollerTypeOK
    <3>2. /\ events[d] \cup {"read"} \in SUBSET Events
          /\ events[d] \cup {"write"} \in SUBSET Events
          /\ events[d] \ {"write"} \in SUBSET Events
      BY <3>1 DEF Events
    <3>3. QED
      BY <2>2, <2>3, <3>1, <3>2 DEF EnableReading, EnableWriting, DisableWriting, DisableAll
  <2>4. ASSUME NEW d \in Channels, Rebuild(d)
        PROVE  Undisturbed
    <3>1. /\ ~Registered(d) /\ pollfds' = pollfds
          /\ index' = [index EXCEPT ![d] = NoIndex]
      BY <2>4 DEF Rebuild
    <3>2. ASSUME NEW c \in Channels, Stays(c)
          PROVE  index'[c] = index[c]
      BY <2>1, <3>1, <3>2 DEF Stays, PollerTypeOK
    <3>3. QED
      BY <3>1, <3>2 DEF Undisturbed
  <2>5. ASSUME NEW reported \in SUBSET Reportable, Poll(reported)
        PROVE  Undisturbed
    BY <2>5, FailUndisturbed DEF Poll, pollerVars, Undisturbed
  <2>6. QED
    BY <2>1, <2>3, <2>4, <2>5, RemoveUndisturbed DEF PollerNext
<1>2. [Undisturbed]_pollerVars =>
        [\A c \in Channels :
          /\ Registered(c) /\ events[c] # {}
          /\ Registered(c)' /\ events'[c] = events[c]
          => pollfds'[index'[c] + 1] = pollfds[index[c] + 1]]_pollerVars
  BY Zenon DEF Undisturbed, Stays
<1>3. QED
  BY <1>1, <1>2, PollerTypeCorrect, IndexStaysConsistent, PTL DEF PollerSpec, OthersUndisturbed
=============================================================================
