---------------------------- MODULE ServerProofs ---------------------------
(***************************************************************************)
(* Proofs about TcpServer, for any number of threads and of connections:   *)
(* what is polled is alive, the loops are taken in turn, and only accesses *)
(* that meet in connections_ lose a connection.                            *)
(***************************************************************************)
EXTENDS TcpServer, QueueLemmas, FiniteSetTheorems

(* The main thread is in newConnectionCallback().                          *)
Making == {"insert", "callbacks", "establish"}

(* TypeOK without the bound of seenSize, and without what no proof needs.  *)
ServerTypes ==
    /\ thread \in [Threads -> {"none", "new", "push", "poll", "events", "erase", "functors"}]
    /\ seenSize \in [Threads -> Nat]
    /\ loops \in Seq(Threads \cup {None})
    /\ next \in 0 .. NumThreads - 1
    /\ accepted \in 0 .. MaxConns
    /\ loopOf \in [Conns -> Threads \cup {None}]
    /\ connections \subseteq Conns
    /\ state \in [Conns -> {"kConnecting", "kConnected", "kDisconnected"}]
    /\ polled \subseteq Conns
    /\ closing \in [Threads -> Conns \cup {None}]
    /\ pending \in [Threads -> Seq(Functors)]
    /\ batch \in [Threads -> Seq(Functors)]
    /\ main \in Making => Current \in Conns

(* An array is a sequence.                                                 *)
LEMMA ArrayIsSeq ==
    ASSUME NEW S, NEW n \in Nat, NEW f \in [1 .. n -> S]
    PROVE  f \in Seq(S) /\ Len(f) = n
<1>1. f \in Seq(S)
  BY SeqDef
<1>2. Len(f) = n
  BY <1>1, LenProperties
<1>3. QED
  BY <1>1, <1>2

(* next_ goes round.                                                       *)
LEMMA NextLoopIs ==
    ASSUME next \in 0 .. NumThreads - 1
    PROVE  NextLoop = IF next + 1 < NumThreads THEN next + 1 ELSE 0
<1>1. NumThreads \in Nat \ {0}
  BY ServerAssumption
<1>2. CASE next + 1 < NumThreads
  BY <1>1, <1>2 DEF NextLoop
<1>3. CASE next + 1 = NumThreads
  BY <1>1, <1>3 DEF NextLoop
<1>4. QED
  BY <1>1, <1>2, <1>3

(* The loop that a connection is given to.                                 *)
Chosen == loops[NextLoop + 1]

LEMMA AcceptGives ==
    ASSUME ServerTypes, Accept
    PROVE  /\ fault = "none" /\ main = "poll" /\ accepted + 1 \in Conns /\ accepted' = accepted + 1
           /\ next' = NextLoop /\ NextLoop \in 0 .. NumThreads - 1
           /\ \/ fault' = "noLoop" /\ UNCHANGED <<main, loopOf, raced, overlap, pending>>
              \/ /\ NextLoop + 1 \in 1 .. Len(loops) /\ Chosen \in Threads
                 /\ loopOf' = [loopOf EXCEPT ![accepted + 1] = Chosen]
                 /\ pending' = [pending EXCEPT ![Chosen] =
                                   Append(pending[Chosen], <<"enableRead", accepted + 1>>)]
                 /\ main' = "insert" /\ EnterMap(None) /\ fault' = fault
<1>1. NumThreads \in Nat \ {0} /\ MaxConns \in Nat
  BY ServerAssumption
<1>2. accepted + 1 \in Conns
  BY <1>1 DEF Accept, ClientComes, ServerTypes, Conns
<1>3. NextLoop \in 0 .. NumThreads - 1
  BY <1>1, NextLoopIs DEF ServerTypes
<1>4. NextLoop < Len(loops) => NextLoop + 1 \in 1 .. Len(loops)
  BY <1>1, <1>3 DEF ServerTypes
<1>5. NextLoop + 1 \in 1 .. Len(loops) => Chosen \in Threads \cup {None}
  BY ElementOfSeq DEF ServerTypes, Chosen
<1>6. NextLoop >= Len(loops) \/ NextLoop < Len(loops)
  BY <1>1, <1>3 DEF ServerTypes
<1>7. QED
  BY <1>2, <1>3, <1>4, <1>5, <1>6 DEF Accept, ClientComes, MainAt, Chosen

(* A functor of t is the head of its batch.                                *)
LEMMA RunningTakes ==
    ASSUME ServerTypes, NEW t \in Threads, NEW f, Running(t, f)
    PROVE  /\ fault = "none" /\ thread[t] = "functors"
           /\ batch[t] \in Seq(Functors) /\ batch[t] # <<>> /\ Head(batch[t]) = f
           /\ batch' = [batch EXCEPT ![t] = Tail(batch[t])]
           /\ Tail(batch[t]) \in Seq(Functors)
<1>1. batch[t] \in Seq(Functors) /\ batch[t] # <<>>
  BY DEF Running, ServerTypes
<1>2. Tail(batch[t]) \in Seq(Functors)
  BY <1>1, HeadTailProperties
<1>3. QED
  BY <1>1, <1>2 DEF Running, At

(* Nothing happens after a fault.                                          *)
LEMMA NextNeedsNoFault ==
    ASSUME Next
    PROVE  fault = "none"
BY DEF Next, MainNext, LoopNext, Start, Accept, ClientComes, Insert, SetCallbacks,
   QueueEstablished, Destroy, PushBegin, PushEnd, Poll, HandleMessage, HandleClose,
   RemoveConnection, DoPendingFunctors, RunEnableRead, RunEstablish, Running, PassDone,
   MainAt, At

(* Every step keeps the types.                                             *)
LEMMA StepKeepsTypes ==
    ASSUME ServerTypes, [Next]_vars
    PROVE  ServerTypes'
<1> USE DEF ServerTypes
<1>1. CASE UNCHANGED vars
  BY <1>1 DEF vars, startVars, acceptVars, mapVars, connVars, eventVars, queueVars, Current
<1>2. CASE Start \/ SetCallbacks \/ Destroy \/ Insert
  <2>1. thread' = thread \/ thread' = [t \in Threads |-> "new"]
    BY <1>2 DEF Start, StartThreads, SetCallbacks, Destroy, Insert
  <2>2. main' \in Making => main \in Making
    BY <1>2 DEF Start, SetCallbacks, Destroy, Insert, Making, MainAt
  <2>3. Insert => connections' \subseteq connections \cup {Current} /\ Current \in Conns
    BY DEF Insert, Making, MainAt
  <2>4. connections' \subseteq Conns /\ accepted' = accepted
    BY <1>2, <2>3 DEF Start, SetCallbacks, Destroy, Insert, mapVars, acceptVars
  <2>5. QED
    BY <1>2, <2>1, <2>2, <2>4 DEF Start, SetCallbacks, Destroy, Insert, startVars, acceptVars,
       mapVars, connVars, eventVars, queueVars, Current
<1>3. CASE Accept
  <2>1. /\ accepted' = accepted + 1 /\ accepted + 1 \in Conns
        /\ next' \in 0 .. NumThreads - 1
        /\ main \notin Making
    BY <1>3, AcceptGives DEF Making
  <2>2. UNCHANGED <<thread, startVars, connections, connVars, closing, batch>>
    BY <1>3 DEF Accept, eventVars
  <2>3. accepted' \in 0 .. MaxConns
    BY <2>1, ServerAssumption DEF Conns
  <2>4. CASE UNCHANGED <<main, loopOf, pending>>
    BY <2>1, <2>2, <2>3, <2>4 DEF startVars, connVars
  <2>5. CASE ~UNCHANGED <<main, loopOf, pending>>
    <3> DEFINE f == <<"enableRead", accepted + 1>>
    <3>1. /\ Chosen \in Threads /\ loopOf' = [loopOf EXCEPT ![accepted + 1] = Chosen]
          /\ pending' = [pending EXCEPT ![Chosen] = Append(pending[Chosen], f)]
      BY <1>3, <2>5, AcceptGives
    <3>2. f \in Functors
      BY <2>1 DEF Functors
    <3>3. Append(pending[Chosen], f) \in Seq(Functors)
      BY <3>1, <3>2, AppendProperties
    <3>4. pending' \in [Threads -> Seq(Functors)]
      BY <3>1, <3>3
    <3>5. QED
      BY <2>1, <2>2, <2>3, <3>1, <3>4 DEF startVars, connVars, Current
  <2>6. QED
    BY <2>4, <2>5
<1>4. CASE QueueEstablished
  <2> DEFINE f == <<"establish", Current>>
  <2>1. /\ Current \in Conns /\ main' \notin Making /\ f \in Functors
        /\ pending' = [pending EXCEPT ![loopOf[Current]] = Append(pending[loopOf[Current]], f)]
    BY <1>4 DEF QueueEstablished, Making, MainAt, Functors
  <2>2. pending' \in [Threads -> Seq(Functors)]
    <3>1. CASE loopOf[Current] \in Threads
      <4>1. Append(pending[loopOf[Current]], f) \in Seq(Functors)
        BY <2>1, <3>1, AppendProperties
      <4>2. QED
        BY <2>1, <4>1
    <3>2. CASE loopOf[Current] \notin Threads
      BY <2>1, <3>2
    <3>3. QED
      BY <3>1, <3>2
  <2>3. QED
    BY <1>4, <2>1, <2>2 DEF QueueEstablished, startVars, acceptVars, mapVars, connVars, eventVars
<1>5. ASSUME NEW t \in Threads, PushBegin(t) \/ PushEnd(t)
      PROVE  ServerTypes'
  <2>1. /\ UNCHANGED <<main, acceptVars, mapVars, connVars, eventVars, queueVars>>
        /\ \E p \in {"push", "poll"} : thread' = [thread EXCEPT ![t] = p]
    BY <1>5, Zenon DEF PushBegin, PushEnd, Goto
  <2>2. CASE PushBegin(t)
    BY <2>1, <2>2 DEF PushBegin, acceptVars, mapVars, connVars, eventVars, queueVars, Current
  <2>3. CASE PushEnd(t)
    <3>1. PICK left \in [Beyond(t) -> Threads \cup {None}] :
              loops' = [i \in 1 .. seenSize[t] + 1 |->
                           IF i = seenSize[t] + 1 THEN t
                           ELSE IF i \in Beyond(t) THEN left[i] ELSE loops[i]]
      BY <2>3 DEF PushEnd
    <3>2. seenSize[t] \in Nat /\ Len(loops) \in Nat
      OBVIOUS
    <3>3. \A i \in 1 .. seenSize[t] : i \in Beyond(t) \/ i \in 1 .. Len(loops)
      BY <3>2 DEF Beyond
    <3>4. \A i \in 1 .. Len(loops) : loops[i] \in Threads \cup {None}
      BY ElementOfSeq
    <3>5. loops' \in [1 .. seenSize[t] + 1 -> Threads \cup {None}]
      BY <3>1, <3>2, <3>3, <3>4
    <3>6. loops' \in Seq(Threads \cup {None})
      <4> HIDE DEF ServerTypes
      <4> DEFINE n == seenSize[t] + 1
      <4>1. n \in Nat /\ loops' \in [1 .. n -> Threads \cup {None}]
        BY <3>2, <3>5
      <4> HIDE DEF n
      <4>2. QED
        BY <4>1, ArrayIsSeq
    <3>7. seenSize' = seenSize
      BY <2>3 DEF PushEnd
    <3>8. QED
      BY <2>1, <3>6, <3>7 DEF acceptVars, mapVars, connVars, eventVars, queueVars, Current
  <2>4. QED
    BY <1>5, <2>2, <2>3
<1>6. ASSUME NEW t \in Threads,
             \/ \E evs \in SUBSET Events : Poll(t, evs)
             \/ \E c \in Conns : HandleMessage(t, c) \/ HandleClose(t, c)
             \/ \E found \in BOOLEAN : RemoveConnection(t, found)
             \/ PassDone(t)
      PROVE  ServerTypes'
  <2>1. UNCHANGED <<main, startVars, acceptVars, queueVars>>
    BY <1>6 DEF Poll, HandleMessage, HandleClose, RemoveConnection, PassDone
  <2>2. thread' = thread \/ \E p \in {"events", "erase", "poll"} : thread' = [thread EXCEPT ![t] = p]
    BY <1>6 DEF Poll, HandleMessage, HandleClose, RemoveConnection, PassDone, Goto
  <2>3. connections' \subseteq connections
    BY <1>6 DEF Poll, HandleMessage, HandleClose, RemoveConnection, PassDone, mapVars, Erase
  <2>4. /\ state' = state \/ state' = [state EXCEPT ![closing[t]] = "kDisconnected"]
        /\ polled' = polled \/ polled' = polled \ {closing[t]}
    <3>1. UNCHANGED connVars \/ ConnectDestroyed(closing[t])
      <4>1. ASSUME NEW found \in BOOLEAN, RemoveConnection(t, found)
            PROVE  UNCHANGED connVars \/ ConnectDestroyed(closing[t])
        BY <4>1, Zenon DEF RemoveConnection
      <4>2. QED
        BY <1>6, <4>1 DEF Poll, HandleMessage, HandleClose, PassDone
    <3>2. QED
      BY <3>1 DEF connVars, ConnectDestroyed
  <2>5. closing' = closing \/ \E c \in Conns \cup {None} : closing' = [closing EXCEPT ![t] = c]
    <3>1. ASSUME NEW found \in BOOLEAN, RemoveConnection(t, found)
          PROVE  closing' = [closing EXCEPT ![t] = None]
      BY <3>1, Zenon DEF RemoveConnection
    <3>2. ASSUME NEW c \in Conns, HandleClose(t, c)
          PROVE  closing' = closing \/ closing' = [closing EXCEPT ![t] = c]
      BY <3>2, Zenon DEF HandleClose
    <3>3. ASSUME NEW c \in Conns, HandleMessage(t, c)
          PROVE  closing' = closing
      BY <3>3, Zenon DEF HandleMessage
    <3>4. (\E evs \in SUBSET Events : Poll(t, evs)) \/ PassDone(t) => closing' = closing
      BY Zenon DEF Poll, PassDone, eventVars
    <3>5. QED
      BY <1>6, <3>1, <3>2, <3>3, <3>4
  <2>6. thread' \in [Threads -> {"none", "new", "push", "poll", "events", "erase", "functors"}]
    BY <2>2
  <2>7. closing' \in [Threads -> Conns \cup {None}]
    BY <2>5
  <2>8. state' \in [Conns -> {"kConnecting", "kConnected", "kDisconnected"}]
        /\ polled' \subseteq Conns
    BY <2>4
  <2>9. UNCHANGED <<main, seenSize, loops, next, accepted, loopOf, pending, batch>>
    BY <2>1 DEF startVars, acceptVars, queueVars
  <2>10. QED
    BY <2>3, <2>6, <2>7, <2>8, <2>9 DEF Current
<1>7. ASSUME NEW t \in Threads, DoPendingFunctors(t)
      PROVE  ServerTypes'
  <2>1. /\ UNCHANGED <<main, startVars, acceptVars, mapVars, connVars, eventVars>>
        /\ thread' = [thread EXCEPT ![t] = "functors"]
        /\ batch' = [batch EXCEPT ![t] = pending[t]]
        /\ pending' = [pending EXCEPT ![t] = <<>>]
    BY <1>7 DEF DoPendingFunctors, Goto
  <2>2. QED
    BY <2>1 DEF startVars, acceptVars, mapVars, connVars, eventVars, Current
<1>8. ASSUME NEW t \in Threads, NEW c \in Conns, RunEnableRead(t, c) \/ RunEstablish(t, c)
      PROVE  ServerTypes'
  <2>1. /\ UNCHANGED <<main, thread, startVars, acceptVars, mapVars, eventVars, pending>>
        /\ state' = state \/ state' = [state EXCEPT ![c] = "kConnected"]
        /\ polled' = polled \cup {c}
        /\ \E f : Running(t, f)
    BY <1>8 DEF RunEnableRead, RunEstablish
  <2>2. batch' \in [Threads -> Seq(Functors)]
    BY <2>1, RunningTakes
  <2>3. QED
    BY <2>1, <2>2 DEF startVars, acceptVars, mapVars, eventVars, Current
<1>9. QED
  BY <1>1, <1>2, <1>3, <1>4, <1>5, <1>6, <1>7, <1>8 DEF Next, MainNext, LoopNext

---------------------------------------------------------------------------
(* Where the threads are. A sub-loop's thread is in handleClose() of one   *)
(* connection while it is inside connections_, and has a batch of functors *)
(* only while it runs them.                                                *)
Places ==
    /\ main = "start" => \A t \in Threads : thread[t] = "none"
    /\ \A t \in Threads :
        /\ thread[t] = "erase" <=> closing[t] # None
        /\ thread[t] # "functors" => batch[t] = <<>>

(* Every step keeps them.                                                  *)
LEMMA StepKeepsPlaces ==
    ASSUME ServerTypes, Places, [Next]_vars
    PROVE  Places'
<1> USE DEF Places
<1>1. CASE UNCHANGED vars
  BY <1>1 DEF vars, eventVars, queueVars
<1>2. CASE Start \/ Accept \/ SetCallbacks \/ QueueEstablished \/ Destroy \/ Insert
  <2>1. /\ main' # "start" /\ UNCHANGED <<eventVars, batch>>
        /\ UNCHANGED thread \/ (main = "start" /\ StartThreads)
    <3>1. Accept => main' # "start" /\ UNCHANGED <<eventVars, batch, thread>>
      <4>1. Accept => main' # "start"
        BY AcceptGives
      <4>2. QED
        BY <4>1, Zenon DEF Accept
    <3>2. QED
      BY <1>2, <3>1 DEF Start, SetCallbacks, QueueEstablished, Destroy, Insert, MainAt, queueVars
  <2>2. QED
    BY <2>1 DEF StartThreads, eventVars, ServerTypes
<1>3. ASSUME NEW t \in Threads, NEW c \in Conns,
             HandleMessage(t, c) \/ HandleClose(t, c)
      PROVE  Places'
  <2>1. UNCHANGED <<main, batch>> /\ thread[t] = "events"
    BY <1>3 DEF HandleMessage, HandleClose, At, queueVars
  <2>2. \/ UNCHANGED <<thread, closing>>
        \/ thread' = [thread EXCEPT ![t] = "erase"] /\ closing' = [closing EXCEPT ![t] = c]
    BY <1>3 DEF HandleMessage, HandleClose, Goto
  <2>3. c # None
    BY DEF Conns, None
  <2>4. QED
    BY <2>1, <2>2, <2>3 DEF ServerTypes
<1>4. ASSUME NEW t \in Threads, NEW found \in BOOLEAN, RemoveConnection(t, found)
      PROVE  Places'
  <2>1. /\ UNCHANGED <<main, batch>> /\ thread[t] = "erase"
        /\ thread' = [thread EXCEPT ![t] = "events"] /\ closing' = [closing EXCEPT ![t] = None]
    BY <1>4, Zenon DEF RemoveConnection, At, queueVars, Goto
  <2>2. QED
    BY <2>1 DEF ServerTypes
<1>5. ASSUME NEW t \in Threads,
             \/ \E evs \in SUBSET Events : Poll(t, evs)
             \/ PushBegin(t) \/ PushEnd(t) \/ PassDone(t) \/ DoPendingFunctors(t)
      PROVE  Places'
  <2>1. UNCHANGED <<main, closing>> /\ thread[t] \notin {"none", "erase"}
    BY <1>5 DEF Poll, PushBegin, PushEnd, PassDone, DoPendingFunctors, At, eventVars
  <2>2. CASE DoPendingFunctors(t)
    <3>1. /\ thread' = [thread EXCEPT ![t] = "functors"]
          /\ batch' = [batch EXCEPT ![t] = pending[t]]
      BY <2>2 DEF DoPendingFunctors, Goto
    <3>2. QED
      BY <2>1, <3>1 DEF ServerTypes
  <2>3. CASE ~DoPendingFunctors(t)
    <3>1. /\ batch' = batch /\ batch[t] = <<>>
          /\ \E p \in {"push", "poll", "events"} : thread' = [thread EXCEPT ![t] = p]
      BY <1>5, <2>3 DEF Poll, PushBegin, PushEnd, PassDone, At, Goto, queueVars
    <3>2. QED
      BY <2>1, <3>1 DEF ServerTypes
  <2>4. QED
    BY <2>2, <2>3
<1>6. ASSUME NEW t \in Threads, NEW c \in Conns, RunEnableRead(t, c) \/ RunEstablish(t, c)
      PROVE  Places'
  <2>1. /\ UNCHANGED <<main, thread, closing>> /\ thread[t] = "functors"
        /\ \E b : batch' = [batch EXCEPT ![t] = b]
    BY <1>6 DEF RunEnableRead, RunEstablish, Running, At, eventVars
  <2>2. QED
    BY <2>1 DEF ServerTypes
<1>7. QED
  BY <1>1, <1>2, <1>3, <1>4, <1>5, <1>6 DEF Next, MainNext, LoopNext

---------------------------------------------------------------------------
(* A queue that asks for nothing about a connection once it has asked for  *)
(* its establishment.                                                      *)
Behind(s) == \A i, j \in 1 .. Len(s) : s[i][1] = "establish" /\ i < j => s[j][2] # s[i][2]

LEMMA AppendKeepsBehind ==
    ASSUME NEW s \in Seq(Functors), NEW f \in Functors, Behind(s),
           ~Holds(s, <<"establish", f[2]>>)
    PROVE  Behind(Append(s, f))
<1>1. /\ Len(s) \in Nat /\ Len(Append(s, f)) = Len(s) + 1
      /\ \A i \in 1 .. Len(s) : Append(s, f)[i] = s[i] /\ s[i] \in Functors
      /\ Append(s, f)[Len(s) + 1] = f
  BY AppendProperties, ElementOfSeq
<1>2. ASSUME NEW i \in 1 .. Len(s) + 1, NEW j \in 1 .. Len(s) + 1, i < j,
             Append(s, f)[i][1] = "establish"
      PROVE  Append(s, f)[j][2] # Append(s, f)[i][2]
  <2>1. i \in 1 .. Len(s) /\ Append(s, f)[i] = s[i] /\ s[i] \in Functors
    BY <1>1, <1>2
  <2>2. CASE j = Len(s) + 1
    <3>1. s[i] = <<"establish", s[i][2]>>
      BY <1>2, <2>1 DEF Functors
    <3>2. s[i][2] # f[2]
      BY <2>1, <3>1 DEF Holds
    <3>3. QED
      BY <1>1, <2>1, <2>2, <3>2
  <2>3. CASE j \in 1 .. Len(s)
    BY <1>1, <1>2, <2>1, <2>3 DEF Behind
  <2>4. QED
    BY <1>1, <2>2, <2>3
<1>3. QED
  BY <1>1, <1>2 DEF Behind

LEMMA TailKeepsBehind ==
    ASSUME NEW s \in Seq(Functors), s # <<>>, Behind(s)
    PROVE  /\ Behind(Tail(s))
           /\ Head(s)[1] = "establish" => \A k : ~Holds(Tail(s), <<k, Head(s)[2]>>)
<1>1. /\ Len(Tail(s)) = Len(s) - 1 /\ Len(s) \in Nat \ {0} /\ Head(s) = s[1]
      /\ \A i \in 1 .. Len(Tail(s)) : Tail(s)[i] = s[i + 1]
  BY HeadTailProperties, EmptySeq
<1>2. ASSUME NEW i \in 1 .. Len(Tail(s)), NEW j \in 1 .. Len(Tail(s)), i < j,
             Tail(s)[i][1] = "establish"
      PROVE  Tail(s)[j][2] # Tail(s)[i][2]
  <2>1. i + 1 \in 1 .. Len(s) /\ j + 1 \in 1 .. Len(s) /\ i + 1 < j + 1
    BY <1>1, <1>2
  <2>2. s[i + 1][1] = "establish"
    BY <1>1, <1>2
  <2>3. s[j + 1][2] # s[i + 1][2]
    BY <2>1, <2>2 DEF Behind
  <2>4. QED
    BY <1>1, <2>3
<1>3. ASSUME Head(s)[1] = "establish", NEW k, NEW i \in 1 .. Len(Tail(s)),
             Tail(s)[i] = <<k, Head(s)[2]>>
      PROVE  FALSE
  <2>1. i + 1 \in 1 .. Len(s) /\ 1 \in 1 .. Len(s) /\ 1 < i + 1
    BY <1>1
  <2>2. s[i + 1][2] # s[1][2]
    BY <1>1, <1>3, <2>1 DEF Behind
  <2>3. QED
    BY <1>1, <1>3, <2>2
<1>4. QED
  BY <1>2, <1>3 DEF Behind, Holds

(* The functors that the loop of t still has to run, and their order.      *)
Held(t, f) == Holds(pending[t], f) \/ Holds(batch[t], f)
InOrder(t) ==
    /\ Behind(pending[t]) /\ Behind(batch[t])
    /\ \A c \in Conns : Holds(batch[t], <<"establish", c>>)
            => \A k \in {"enableRead", "establish"} : ~Holds(pending[t], <<k, c>>)

(* A functor is queued.                                                    *)
LEMMA QueueGrows ==
    ASSUME ServerTypes, NEW t \in Threads, NEW f \in Functors, \A u \in Threads : InOrder(u),
           ~Held(t, <<"establish", f[2]>>),
           pending' = [pending EXCEPT ![t] = Append(pending[t], f)], batch' = batch
    PROVE  /\ \A u \in Threads : InOrder(u)'
           /\ \A u \in Threads, g \in Functors : Held(u, g)' <=> Held(u, g) \/ (u = t /\ g = f)
<1>1. pending[t] \in Seq(Functors) /\ pending'[t] = Append(pending[t], f)
  BY DEF ServerTypes
<1>2. \A u \in Threads : u # t => pending'[u] = pending[u]
  BY DEF ServerTypes
<1>3. \A e : Holds(pending'[t], e) <=> Holds(pending[t], e) \/ f = e
  BY <1>1, AppendHolds
<1>4. Behind(pending'[t])
  BY <1>1, AppendKeepsBehind DEF InOrder, Held
<1>5. ASSUME NEW c \in Conns, Holds(batch[t], <<"establish", c>>),
             NEW k \in {"enableRead", "establish"}
      PROVE  ~Holds(pending'[t], <<k, c>>)
  <2>1. f # <<k, c>>
    BY <1>5 DEF Held
  <2>2. QED
    BY <1>3, <1>5, <2>1 DEF InOrder
<1>6. InOrder(t)'
  BY <1>4, <1>5 DEF InOrder
<1>7. ASSUME NEW u \in Threads, u # t PROVE InOrder(u)'
  BY <1>2, <1>7 DEF InOrder
<1>8. QED
  BY <1>2, <1>3, <1>6, <1>7 DEF Held

(* A functor is run.                                                       *)
LEMMA QueueShrinks ==
    ASSUME ServerTypes, NEW t \in Threads, NEW f \in Functors, \A u \in Threads : InOrder(u),
           Running(t, f), pending' = pending
    PROVE  /\ \A u \in Threads : InOrder(u)'
           /\ Held(t, f)
           /\ \A u \in Threads, g \in Functors :
                /\ Held(u, g)' => Held(u, g)
                /\ Held(u, g) /\ ~(u = t /\ g = f) => Held(u, g)'
           /\ f[1] = "establish" => \A k \in {"enableRead", "establish"} : ~Held(t, <<k, f[2]>>)'
<1>1. /\ batch[t] \in Seq(Functors) /\ batch[t] # <<>> /\ Head(batch[t]) = f
      /\ batch' = [batch EXCEPT ![t] = Tail(batch[t])]
  BY RunningTakes
<1>2. batch'[t] = Tail(batch[t]) /\ \A u \in Threads : u # t => batch'[u] = batch[u]
  BY <1>1 DEF ServerTypes
<1>3. \A e : /\ Holds(batch'[t], e) => Holds(batch[t], e)
             /\ Holds(batch[t], e) => e = f \/ Holds(batch'[t], e)
             /\ Holds(batch[t], f)
  BY <1>1, <1>2, TailHolds
<1>4. Behind(batch'[t]) /\ (f[1] = "establish" => \A k : ~Holds(batch'[t], <<k, f[2]>>))
  BY <1>1, <1>2, TailKeepsBehind DEF InOrder
<1>5. InOrder(t)'
  BY <1>3, <1>4 DEF InOrder
<1>6. ASSUME NEW u \in Threads, u # t PROVE InOrder(u)'
  BY <1>2, <1>6 DEF InOrder
<1>7. ASSUME f[1] = "establish", NEW k \in {"enableRead", "establish"}
      PROVE  ~Held(t, <<k, f[2]>>)'
  <2>1. f = <<"establish", f[2]>> /\ f[2] \in Conns
    BY <1>7 DEF Functors
  <2>2. ~Holds(pending[t], <<k, f[2]>>)
    BY <1>3, <2>1 DEF InOrder
  <2>3. QED
    BY <1>4, <1>7, <2>2 DEF Held
<1>8. QED
  BY <1>2, <1>3, <1>5, <1>6, <1>7 DEF Held

(* The queue becomes the batch.                                            *)
LEMMA QueueSwaps ==
    ASSUME ServerTypes, Places, NEW t \in Threads, \A u \in Threads : InOrder(u),
           DoPendingFunctors(t)
    PROVE  /\ \A u \in Threads : InOrder(u)'
           /\ \A u \in Threads, g \in Functors : Held(u, g)' <=> Held(u, g)
<1>1. /\ batch' = [batch EXCEPT ![t] = pending[t]] /\ pending' = [pending EXCEPT ![t] = <<>>]
      /\ batch[t] = <<>>
  BY DEF DoPendingFunctors, At, Places
<1>2. batch'[t] = pending[t] /\ pending'[t] = <<>>
  BY <1>1 DEF ServerTypes
<1>3. \A u \in Threads : u # t => batch'[u] = batch[u] /\ pending'[u] = pending[u]
  BY <1>1 DEF ServerTypes
<1>4. \A e : ~Holds(<<>>, e)
  BY DEF Holds
<1>5. Behind(<<>>)
  BY DEF Behind
<1>6. InOrder(t)'
  BY <1>2, <1>4, <1>5 DEF InOrder
<1>7. ASSUME NEW u \in Threads, u # t PROVE InOrder(u)'
  BY <1>3, <1>7 DEF InOrder
<1>8. QED
  BY <1>1, <1>2, <1>3, <1>4, <1>6, <1>7 DEF Held

---------------------------------------------------------------------------
(* The invariant under PolledIsAlive. A functor is held by the loop that   *)
(* its connection was given to, until the connection is established; and   *)
(* what a connection has been through says who holds it.                   *)
Given(c) == loopOf[c] # None
BeingMade(c) == c = Current /\ main \in Making
Waits(c) == Held(loopOf[c], <<"establish", c>>)

QueueInv ==
    /\ \A t \in Threads : InOrder(t)
    /\ \A t \in Threads, f \in Functors :
          Held(t, f) => loopOf[f[2]] = t /\ state[f[2]] = "kConnecting"
    /\ \A c \in Conns : Given(c) => c <= accepted

MakingInv ==
    main \in Making =>
        /\ Given(Current) /\ state[Current] = "kConnecting"
        /\ ~Waits(Current)

LifeInv(c) ==
    /\ ~Given(c) => c \notin polled /\ state[c] = "kConnecting"
    /\ Given(c) /\ state[c] = "kConnecting" => BeingMade(c) \/ Waits(c)
    /\ state[c] = "kConnected" => c \in connections \/ \E t \in Threads : closing[t] = c
    /\ state[c] = "kDisconnected" => c \notin polled

ClosingInv == \A t \in Threads : closing[t] # None => state[closing[t]] # "kConnecting"

ConnInv == MakingInv /\ (\A c \in Conns : LifeInv(c)) /\ ClosingInv

(* The functors are couples of a kind and a connection.                    *)
LEMMA FunctorIs ==
    /\ \A f \in Functors : f = <<f[1], f[2]>> /\ f[1] \in {"enableRead", "establish"}
                           /\ f[2] \in Conns
    /\ \A c \in Conns : <<"enableRead", c>> \in Functors /\ <<"establish", c>> \in Functors
BY DEF Functors

(* A step that leaves the queues and the connections as they are, and the  *)
(* map too, or what it held of the connections that are established.       *)
LEMMA QuietKeepsPoll ==
    ASSUME ServerTypes, QueueInv, ConnInv, UNCHANGED <<loopOf, accepted, connVars, queueVars>>,
           main' \in Making <=> main \in Making,
           ClosingInv',
           \A c \in Conns : state[c] = "kConnected" =>
              c \in connections' \/ \E t \in Threads : closing'[t] = c
    PROVE  QueueInv' /\ ConnInv'
<1>1. /\ UNCHANGED <<loopOf, accepted, state, polled, pending, batch, Current>>
      /\ \A t, f : Held(t, f)' <=> Held(t, f)
      /\ \A t : InOrder(t)' <=> InOrder(t)
  BY DEF connVars, queueVars, Current, Held, InOrder
<1>2. QueueInv'
  BY <1>1 DEF QueueInv, Given
<1>3. \A c : (Given(c)' <=> Given(c)) /\ (Waits(c)' <=> Waits(c)) /\ (BeingMade(c)' <=> BeingMade(c))
  BY <1>1 DEF Given, Waits, Held, BeingMade
<1>4. MakingInv'
  BY <1>1, <1>3 DEF MakingInv, ConnInv
<1>5. \A c \in Conns : LifeInv(c)'
  BY <1>1, <1>3 DEF LifeInv, ConnInv
<1>6. QED
  BY <1>2, <1>4, <1>5 DEF ConnInv

(* The steps of that kind.                                                 *)
LEMMA QuietSteps ==
    ASSUME ServerTypes, Places, QueueInv, ConnInv,
           \/ Start \/ Insert \/ SetCallbacks \/ UNCHANGED vars
           \/ \E t \in Threads : \/ PushBegin(t) \/ PushEnd(t) \/ PassDone(t)
                                 \/ \E evs \in SUBSET Events : Poll(t, evs)
                                 \/ \E c \in Conns : HandleMessage(t, c)
    PROVE  QueueInv' /\ ConnInv'
<1>1. /\ UNCHANGED <<loopOf, accepted, connVars, queueVars, closing>>
      /\ connections \subseteq connections'
      /\ main' \in Making <=> main \in Making
  <2>1. CASE Start \/ Insert \/ SetCallbacks \/ UNCHANGED vars
    BY <2>1 DEF Start, Insert, SetCallbacks, vars, acceptVars, mapVars, eventVars, MainAt, Making
  <2>2. ASSUME NEW t \in Threads,
               \/ PushBegin(t) \/ PushEnd(t) \/ PassDone(t)
               \/ \E evs \in SUBSET Events : Poll(t, evs)
               \/ \E c \in Conns : HandleMessage(t, c)
        PROVE  UNCHANGED <<loopOf, accepted, connVars, queueVars, closing, connections, main>>
    BY <2>2 DEF PushBegin, PushEnd, PassDone, Poll, HandleMessage, acceptVars, mapVars, eventVars
  <2>3. QED
    BY <2>1, <2>2
<1>2. ClosingInv'
  BY <1>1 DEF ClosingInv, ConnInv, connVars
<1>3. ASSUME NEW c \in Conns, state[c] = "kConnected"
      PROVE  c \in connections' \/ \E t \in Threads : closing'[t] = c
  BY <1>1, <1>3 DEF ConnInv, LifeInv
<1>4. QED
  BY <1>1, <1>2, <1>3, QuietKeepsPoll

(* An event is taken: at the end of a stream the connection is closing.    *)
LEMMA HandleCloseKeepsPoll ==
    ASSUME ServerTypes, Places, QueueInv, ConnInv, fault' = "none",
           NEW t \in Threads, NEW c \in Conns, HandleClose(t, c)
    PROVE  QueueInv' /\ ConnInv'
<1>1. /\ UNCHANGED <<loopOf, accepted, connVars, queueVars, connections, main>>
      /\ state[c] = "kConnected" /\ closing' = [closing EXCEPT ![t] = c] /\ thread[t] = "events"
  BY DEF HandleClose, acceptVars, At
<1>2. closing[t] = None /\ c # None
  BY <1>1 DEF Places, Conns, None
<1>3. closing'[t] = c /\ \A u \in Threads : u # t => closing'[u] = closing[u]
  BY <1>1 DEF ServerTypes
<1>4. ClosingInv'
  BY <1>1, <1>3 DEF ClosingInv, ConnInv, connVars
<1>5. ASSUME NEW d \in Conns, state[d] = "kConnected"
      PROVE  d \in connections' \/ \E u \in Threads : closing'[u] = d
  <2>1. CASE d \in connections
    BY <1>1, <2>1
  <2>2. ASSUME NEW u \in Threads, closing[u] = d PROVE closing'[u] = d
    BY <1>2, <1>3, <2>2 DEF Conns, None
  <2>3. QED
    BY <1>5, <2>1, <2>2 DEF ConnInv, LifeInv
<1>6. QED
  BY <1>1, <1>4, <1>5, QuietKeepsPoll

(* What a queue holds, as the set of its elements.                         *)
LEMMA ToSetHolds ==
    ASSUME NEW S, NEW s \in Seq(S), NEW e
    PROVE  e \in ToSet(s) <=> Holds(s, e)
<1>1. DOMAIN s = 1 .. Len(s)
  BY LenProperties
<1>2. QED
  BY <1>1 DEF ToSet, Holds

(* Who may hold a connection after a step.                                 *)
LEMMA AliveAfter ==
    ASSUME ServerTypes', NEW c \in Conns, Alive(c)'
    PROVE  \/ BeingMade(c)' \/ c \in connections' \/ \E t \in Threads : closing'[t] = c
           \/ \E t \in Threads : Held(t, <<"establish", c>>)'
<1>1. ASSUME NEW t \in Threads,
             <<"establish", c>> \in ToSet(pending'[t]) \cup ToSet(batch'[t])
      PROVE  Held(t, <<"establish", c>>)'
  <2>1. pending'[t] \in Seq(Functors) /\ batch'[t] \in Seq(Functors)
    BY DEF ServerTypes
  <2>2. QED
    BY <1>1, <2>1, ToSetHolds DEF Held
<1>2. QED
  BY <1>1 DEF Alive, Queued, BeingMade, Making

(* ~TcpServer() gives up the map: what is connected is being closed.       *)
LEMMA DestroyKeepsPoll ==
    ASSUME ServerTypes, ServerTypes', QueueInv, ConnInv, fault' = "none", Destroy
    PROVE  QueueInv' /\ ConnInv'
<1>1. /\ UNCHANGED <<loopOf, accepted, connVars, queueVars, closing, state, pending, batch>>
      /\ main' \notin Making /\ main \notin Making /\ connections' = {}
      /\ fault' = Released(connections)
  BY DEF Destroy, acceptVars, eventVars, connVars, queueVars, MainAt, Making
<1>2. ASSUME NEW c \in Conns, state[c] = "kConnected"
      PROVE  c \in connections' \/ \E t \in Threads : closing'[t] = c
  <2>1. CASE c \in connections
    <3>1. Alive(c)'
      BY <1>1, <1>2, <2>1 DEF Released
    <3>2. \A t \in Threads : ~Held(t, <<"establish", c>>)'
      BY <1>1, <1>2, FunctorIs DEF QueueInv, Held
    <3>3. ~BeingMade(c)'
      BY <1>1 DEF BeingMade
    <3>4. QED
      BY <3>1, <3>2, <3>3, AliveAfter
  <2>2. QED
    BY <1>1, <1>2, <2>1 DEF ConnInv, LifeInv
<1>3. ClosingInv'
  BY <1>1 DEF ClosingInv, ConnInv
<1>4. QED
  BY <1>1, <1>2, <1>3, QuietKeepsPoll

(* A connection is accepted: it is new, and nothing is queued for it.      *)
LEMMA AcceptKeepsPoll ==
    ASSUME ServerTypes, QueueInv, ConnInv, fault' = "none", Accept
    PROVE  QueueInv' /\ ConnInv'
<1>0. PICK c : c = accepted + 1
  OBVIOUS
<1> DEFINE f == <<"enableRead", c>>
<1>1. /\ main \notin Making /\ c \in Conns /\ accepted' = c /\ Chosen \in Threads
      /\ loopOf' = [loopOf EXCEPT ![c] = Chosen] /\ main' = "insert"
      /\ pending' = [pending EXCEPT ![Chosen] = Append(pending[Chosen], f)]
  BY <1>0, AcceptGives DEF Making
<1>2. UNCHANGED <<state, polled, batch, closing, connections>>
  BY DEF Accept, connVars, eventVars
<1>3. ~Given(c) /\ f \in Functors
  <2>1. ~(c <= accepted)
    BY <1>0 DEF ServerTypes
  <2>2. QED
    BY <1>1, <2>1, FunctorIs DEF QueueInv
<1>4. \A t \in Threads, g \in Functors : Held(t, g) => g[2] # c
  BY <1>3 DEF QueueInv, Given, Threads, None
<1>5. /\ \A u \in Threads : InOrder(u)'
      /\ \A u \in Threads, g \in Functors : Held(u, g)' <=> Held(u, g) \/ (u = Chosen /\ g = f)
  <2>1. ~Held(Chosen, <<"establish", f[2]>>)
    BY <1>1, <1>4, FunctorIs
  <2> HIDE DEF f
  <2>2. QED
    BY <1>1, <1>2, <1>3, <2>1, QueueGrows DEF QueueInv
<1>6. /\ loopOf'[c] = Chosen /\ \A d \in Conns : d # c => loopOf'[d] = loopOf[d]
      /\ Chosen # None
  BY <1>1 DEF ServerTypes, Threads, None
<1>7. QueueInv'
  <2>1. ASSUME NEW t \in Threads, NEW g \in Functors, Held(t, g)'
        PROVE  loopOf'[g[2]] = t /\ state'[g[2]] = "kConnecting"
    <3>1. CASE Held(t, g)
      BY <1>2, <1>4, <1>6, <3>1, FunctorIs DEF QueueInv
    <3>2. CASE t = Chosen /\ g = f
      BY <1>1, <1>2, <1>3, <1>6, <3>2 DEF ConnInv, LifeInv
    <3>3. QED
      BY <1>5, <2>1, <3>1, <3>2
  <2>2. ASSUME NEW d \in Conns, Given(d)' PROVE d <= accepted'
    BY <1>0, <1>1, <1>6, <2>2 DEF QueueInv, Given, ServerTypes, Conns
  <2>3. QED
    BY <1>5, <2>1, <2>2 DEF QueueInv
<1>8. ASSUME NEW d \in Conns, d # c
      PROVE  (Given(d)' <=> Given(d)) /\ (Given(d) => (Waits(d)' <=> Waits(d)))
  <2>1. Given(d)' <=> Given(d)
    BY <1>6, <1>8 DEF Given
  <2>2. ASSUME Given(d) PROVE Waits(d)' <=> Waits(d)
    <3>1. loopOf[d] \in Threads /\ <<"establish", d>> \in Functors /\ <<"establish", d>> # f
      BY <2>2, FunctorIs DEF Given, ServerTypes
    <3>2. QED
      BY <1>5, <1>6, <1>8, <3>1 DEF Waits
  <2>3. QED
    BY <2>1, <2>2
<1>9. Current' = c /\ BeingMade(c)' /\ Given(c)' /\ state'[c] = "kConnecting" /\ ~Waits(c)'
  <2>1. Current' = c /\ BeingMade(c)' /\ Given(c)'
    BY <1>1, <1>6 DEF Current, BeingMade, Making, Given
  <2>2. state'[c] = "kConnecting"
    BY <1>1, <1>2, <1>3 DEF ConnInv, LifeInv
  <2>3. PICK u : u = Chosen
    OBVIOUS
  <2>4. <<"establish", c>> # f /\ <<"establish", c>> \in Functors /\ <<"establish", c>>[2] = c
    BY <1>1, FunctorIs
  <2>5. ~Held(u, <<"establish", c>>)'
    BY <1>1, <1>4, <1>5, <2>3, <2>4
  <2>6. loopOf'[c] = u
    BY <1>6, <2>3
  <2>7. ~Waits(c)'
    BY <2>5, <2>6 DEF Waits
  <2>8. QED
    BY <2>1, <2>2, <2>7
<1>10. ASSUME NEW d \in Conns PROVE LifeInv(d)'
  <2>1. CASE d = c
    BY <1>2, <1>9, <2>1 DEF LifeInv
  <2>2. CASE d # c
    BY <1>1, <1>2, <1>8, <2>2 DEF LifeInv, ConnInv, BeingMade
  <2>3. QED
    BY <2>1, <2>2
<1>11. ClosingInv'
  BY <1>2 DEF ClosingInv, ConnInv
<1>12. QED
  BY <1>7, <1>9, <1>10, <1>11 DEF ConnInv, MakingInv

(* The loop is asked to establish the connection: now it waits.            *)
LEMMA QueueEstablishedKeepsPoll ==
    ASSUME ServerTypes, QueueInv, ConnInv, QueueEstablished
    PROVE  QueueInv' /\ ConnInv'
<1> DEFINE t == loopOf[Current]
           f == <<"establish", Current>>
<1>1. /\ main \in Making /\ main' \notin Making /\ Current \in Conns
      /\ pending' = [pending EXCEPT ![t] = Append(pending[t], f)]
      /\ UNCHANGED <<loopOf, accepted, state, polled, batch, closing, connections>>
  BY DEF QueueEstablished, MainAt, Making, ServerTypes, acceptVars, mapVars, connVars, eventVars
<1>2. t \in Threads /\ state[Current] = "kConnecting" /\ ~Held(t, f)
  BY <1>1 DEF ConnInv, MakingInv, Given, Waits, ServerTypes
<1>3. f \in Functors /\ f[2] = Current /\ f = <<"establish", f[2]>>
  BY <1>1, FunctorIs
<1>4. /\ \A u \in Threads : InOrder(u)'
      /\ \A u \in Threads, g \in Functors : Held(u, g)' <=> Held(u, g) \/ (u = t /\ g = f)
  <2> HIDE DEF f, t
  <2>1. QED
    BY <1>1, <1>2, <1>3, QueueGrows DEF QueueInv
<1>5. QueueInv'
  BY <1>1, <1>2, <1>3, <1>4 DEF QueueInv, Given
<1>6. ASSUME NEW d \in Conns PROVE LifeInv(d)'
  <2>1. Given(d)' <=> Given(d)
    BY <1>1 DEF Given
  <2>2. Given(d) => (Waits(d)' <=> Waits(d) \/ d = Current)
    BY <1>1, <1>2, <1>4, FunctorIs DEF Waits, Given, ServerTypes
  <2>3. QED
    BY <1>1, <2>1, <2>2 DEF LifeInv, ConnInv, BeingMade
<1>7. QED
  BY <1>1, <1>5, <1>6 DEF ConnInv, MakingInv, ClosingInv

(* The functors of a loop become its batch.                                *)
LEMMA SwapKeepsPoll ==
    ASSUME ServerTypes, Places, QueueInv, ConnInv, NEW t \in Threads, DoPendingFunctors(t)
    PROVE  QueueInv' /\ ConnInv'
<1>1. UNCHANGED <<main, loopOf, accepted, state, polled, closing, connections, Current>>
  BY DEF DoPendingFunctors, acceptVars, mapVars, connVars, eventVars, Current
<1>2. /\ \A u \in Threads : InOrder(u)'
      /\ \A u \in Threads, g \in Functors : Held(u, g)' <=> Held(u, g)
  BY QueueSwaps DEF QueueInv
<1>3. \A d \in Conns : /\ (Given(d)' <=> Given(d)) /\ (BeingMade(d)' <=> BeingMade(d))
                       /\ Given(d) => (Waits(d)' <=> Waits(d))
  BY <1>1, <1>2, FunctorIs DEF Given, Waits, BeingMade, ServerTypes
<1>4. QueueInv'
  BY <1>1, <1>2 DEF QueueInv, Given
<1>5. \A d \in Conns : LifeInv(d)'
  BY <1>1, <1>3 DEF LifeInv, ConnInv
<1>6. MakingInv' /\ ClosingInv'
  BY <1>1, <1>3 DEF MakingInv, ClosingInv, ConnInv, ServerTypes
<1>7. QED
  BY <1>4, <1>5, <1>6 DEF ConnInv

(* A connection's channel enters the poller, its establishment still to    *)
(* come.                                                                   *)
LEMMA EnableReadKeepsPoll ==
    ASSUME ServerTypes, QueueInv, ConnInv, NEW t \in Threads, NEW c \in Conns,
           RunEnableRead(t, c)
    PROVE  QueueInv' /\ ConnInv'
<1> DEFINE f == <<"enableRead", c>>
<1>1. /\ UNCHANGED <<main, loopOf, accepted, state, closing, connections, Current, pending>>
      /\ polled' = polled \cup {c} /\ Running(t, f)
  BY DEF RunEnableRead, acceptVars, mapVars, eventVars, Current
<1>2. f \in Functors /\ f[2] = c /\ \A d : f # <<"establish", d>>
  BY FunctorIs
<1>3. /\ \A u \in Threads : InOrder(u)'
      /\ Held(t, f)
      /\ \A u \in Threads, g \in Functors :
           /\ Held(u, g)' => Held(u, g)
           /\ Held(u, g) /\ ~(u = t /\ g = f) => Held(u, g)'
  <2> HIDE DEF f
  <2>1. QED
    BY <1>1, <1>2, QueueShrinks DEF QueueInv
<1>4. loopOf[c] = t /\ state[c] = "kConnecting" /\ Given(c)
  BY <1>2, <1>3 DEF QueueInv, Given, Threads, None
<1>5. \A d \in Conns : /\ (Given(d)' <=> Given(d)) /\ (BeingMade(d)' <=> BeingMade(d))
                       /\ Given(d) => (Waits(d)' <=> Waits(d))
  BY <1>1, <1>2, <1>3, FunctorIs DEF Given, Waits, BeingMade, ServerTypes
<1>6. QueueInv'
  BY <1>1, <1>3 DEF QueueInv, Given
<1>7. \A d \in Conns : LifeInv(d)'
  BY <1>1, <1>4, <1>5 DEF LifeInv, ConnInv
<1>8. MakingInv' /\ ClosingInv'
  BY <1>1, <1>5 DEF MakingInv, ClosingInv, ConnInv, ServerTypes
<1>9. QED
  BY <1>6, <1>7, <1>8 DEF ConnInv

(* A connection is established. It has been inserted, or another thread    *)
(* holds it; nothing is asked for it any more.                             *)
LEMMA EstablishKeepsPoll ==
    ASSUME ServerTypes, ServerTypes', QueueInv, ConnInv, NEW t \in Threads, NEW c \in Conns,
           RunEstablish(t, c), fault' = "none"
    PROVE  QueueInv' /\ ConnInv'
<1> DEFINE f == <<"establish", c>>
<1>1. /\ UNCHANGED <<main, loopOf, accepted, closing, connections, Current, pending>>
      /\ polled' = polled \cup {c} /\ state' = [state EXCEPT ![c] = "kConnected"]
      /\ Running(t, f) /\ fault' = Released({c})
  BY DEF RunEstablish, acceptVars, mapVars, eventVars, Current
<1>2. f \in Functors /\ f[2] = c /\ f[1] = "establish"
  BY FunctorIs
<1>3. /\ \A u \in Threads : InOrder(u)'
      /\ Held(t, f)
      /\ \A u \in Threads, g \in Functors :
           /\ Held(u, g)' => Held(u, g)
           /\ Held(u, g) /\ ~(u = t /\ g = f) => Held(u, g)'
      /\ \A k \in {"enableRead", "establish"} : ~Held(t, <<k, c>>)'
  <2> HIDE DEF f
  <2>1. QED
    BY <1>1, <1>2, QueueShrinks DEF QueueInv
<1>4. loopOf[c] = t /\ state[c] = "kConnecting" /\ Given(c)
  BY <1>2, <1>3 DEF QueueInv, Given, Threads, None
<1>5. state'[c] = "kConnected" /\ \A d \in Conns : d # c => state'[d] = state[d]
  BY <1>1 DEF ServerTypes
<1>6. \A u \in Threads, g \in Functors : Held(u, g)' => g[2] # c
  <2>1. ASSUME NEW u \in Threads, NEW g \in Functors, Held(u, g)', g[2] = c
        PROVE  FALSE
    <3>1. u = t
      BY <1>3, <1>4, <2>1 DEF QueueInv
    <3>2. g[1] \in {"enableRead", "establish"} /\ g = <<g[1], c>>
      BY <2>1, FunctorIs
    <3>3. QED
      BY <1>3, <2>1, <3>1, <3>2
  <2>2. QED
    BY <2>1
<1>7. QueueInv'
  <2>1. ASSUME NEW u \in Threads, NEW g \in Functors, Held(u, g)'
        PROVE  loopOf'[g[2]] = u /\ state'[g[2]] = "kConnecting"
    BY <1>1, <1>3, <1>5, <1>6, <2>1, FunctorIs DEF QueueInv
  <2>2. QED
    BY <1>1, <1>3, <2>1 DEF QueueInv, Given
<1>8. /\ \A d \in Conns : (Given(d)' <=> Given(d)) /\ (BeingMade(d)' <=> BeingMade(d))
      /\ \A d \in Conns : Given(d) /\ d # c => (Waits(d)' <=> Waits(d))
  BY <1>1, <1>2, <1>3, FunctorIs DEF Given, Waits, BeingMade, ServerTypes
<1>9. ~BeingMade(c)
  BY <1>3, <1>4 DEF BeingMade, ConnInv, MakingInv, Waits
<1>10. c \in connections' \/ \E u \in Threads : closing'[u] = c
  <2>1. Alive(c)'
    BY <1>1, <1>5 DEF Released
  <2>2. \A u \in Threads : ~Held(u, <<"establish", c>>)'
    BY <1>2, <1>6
  <2>3. QED
    BY <1>8, <1>9, <2>1, <2>2, AliveAfter
<1>11. ASSUME NEW d \in Conns PROVE LifeInv(d)'
  <2>1. CASE d = c
    BY <1>4, <1>5, <1>8, <1>10, <2>1 DEF LifeInv
  <2>2. CASE d # c
    BY <1>1, <1>5, <1>8, <2>2 DEF LifeInv, ConnInv
  <2>3. QED
    BY <2>1, <2>2
<1>12. MakingInv'
  BY <1>1, <1>5, <1>8, <1>9 DEF MakingInv, ConnInv, ServerTypes, BeingMade
<1>13. ClosingInv'
  BY <1>1, <1>5 DEF ClosingInv, ConnInv, ServerTypes
<1>14. QED
  BY <1>7, <1>11, <1>12, <1>13 DEF ConnInv

(* A connection has been erased, and is destroyed.                         *)
LEMMA RemoveKeepsPoll ==
    ASSUME ServerTypes, Places, QueueInv, ConnInv, NEW t \in Threads, NEW found \in BOOLEAN,
           RemoveConnection(t, found), fault' = "none"
    PROVE  QueueInv' /\ ConnInv'
<1> DEFINE c == closing[t]
<1>1. /\ UNCHANGED <<main, loopOf, accepted, Current, pending, batch>>
      /\ thread[t] = "erase" /\ closing' = [closing EXCEPT ![t] = None]
      /\ Erase(t, c, found)
      /\ found
  BY DEF RemoveConnection, acceptVars, queueVars, Current, At
<1>2. ConnectDestroyed(c)
  BY <1>1, Zenon DEF RemoveConnection
<1>3. c \in Conns /\ c # None /\ state[c] # "kConnecting"
  BY <1>1 DEF Places, ServerTypes, ConnInv, ClosingInv
<1>4. /\ state'[c] = "kDisconnected" /\ c \notin polled' /\ polled' \subseteq polled
      /\ \A d \in Conns : d # c => state'[d] = state[d]
  BY <1>2, <1>3 DEF ConnectDestroyed, ServerTypes
<1>5. /\ \A d \in connections : d # c => d \in connections'
      /\ \A u \in Threads : u # t => closing'[u] = closing[u]
      /\ closing'[t] = None
  BY <1>1 DEF Erase, ServerTypes
<1>6. /\ \A u, g : Held(u, g)' <=> Held(u, g)
      /\ \A u \in Threads : InOrder(u)' <=> InOrder(u)
      /\ \A d \in Conns : /\ (Given(d)' <=> Given(d)) /\ (BeingMade(d)' <=> BeingMade(d))
                          /\ (Waits(d)' <=> Waits(d))
  BY <1>1 DEF Held, InOrder, Given, BeingMade, Waits
<1>7. QueueInv'
  BY <1>1, <1>3, <1>4, <1>6, FunctorIs DEF QueueInv
<1>8. ASSUME NEW d \in Conns PROVE LifeInv(d)'
  <2>1. CASE d = c
    BY <1>3, <1>4, <1>6, <2>1 DEF LifeInv, ConnInv
  <2>2. CASE d # c
    BY <1>4, <1>5, <1>6, <2>2 DEF LifeInv, ConnInv
  <2>3. QED
    BY <2>1, <2>2
<1>9. MakingInv'
  BY <1>1, <1>3, <1>4, <1>6 DEF MakingInv, ConnInv, ServerTypes
<1>10. ClosingInv'
  BY <1>4, <1>5 DEF ClosingInv, ConnInv, ServerTypes
<1>11. QED
  BY <1>7, <1>8, <1>9, <1>10 DEF ConnInv

(* Every step keeps the invariant, unless it fails.                        *)
PollInv == fault = "none" => QueueInv /\ ConnInv

LEMMA StepKeepsPoll ==
    ASSUME ServerTypes, ServerTypes', Places, PollInv, [Next]_vars
    PROVE  PollInv'
<1> SUFFICES ASSUME fault' = "none" PROVE QueueInv' /\ ConnInv'
  BY DEF PollInv
<1>1. CASE UNCHANGED vars
  BY <1>1, QuietSteps DEF PollInv, vars
<1>2. CASE Next
  <2>1. CASE Start \/ Insert \/ SetCallbacks
    BY <2>1, QuietSteps DEF PollInv, Start, Insert, SetCallbacks, MainAt
  <2>2. CASE Accept
    BY <2>2, AcceptKeepsPoll DEF PollInv, Accept, ClientComes, MainAt
  <2>3. CASE QueueEstablished
    BY <2>3, QueueEstablishedKeepsPoll DEF PollInv, QueueEstablished, MainAt
  <2>4. CASE Destroy
    BY <2>4, DestroyKeepsPoll DEF PollInv, Destroy, MainAt
  <2>5. ASSUME NEW t \in Threads, LoopNext(t) PROVE QueueInv' /\ ConnInv'
    <3>1. fault = "none" => QueueInv /\ ConnInv
      BY DEF PollInv
    <3>2. CASE \/ PushBegin(t) \/ PushEnd(t) \/ PassDone(t)
               \/ \E evs \in SUBSET Events : Poll(t, evs)
               \/ \E c \in Conns : HandleMessage(t, c)
      <4>1. fault = "none"
        BY <3>2 DEF PushBegin, PushEnd, PassDone, Poll, HandleMessage, At
      <4>2. QED
        BY <3>1, <3>2, <4>1, QuietSteps
    <3>3. ASSUME NEW c \in Conns, HandleClose(t, c) PROVE QueueInv' /\ ConnInv'
      BY <3>1, <3>3, HandleCloseKeepsPoll DEF HandleClose, At
    <3>4. ASSUME NEW found \in BOOLEAN, RemoveConnection(t, found)
          PROVE  QueueInv' /\ ConnInv'
      <4>1. fault = "none"
        BY <3>4 DEF RemoveConnection, At
      <4>2. QED
        BY <3>1, <3>4, <4>1, RemoveKeepsPoll
    <3>5. CASE DoPendingFunctors(t)
      BY <3>1, <3>5, SwapKeepsPoll DEF DoPendingFunctors, At
    <3>6. ASSUME NEW c \in Conns, RunEnableRead(t, c) PROVE QueueInv' /\ ConnInv'
      BY <3>1, <3>6, EnableReadKeepsPoll DEF RunEnableRead, Running, At
    <3>7. ASSUME NEW c \in Conns, RunEstablish(t, c) PROVE QueueInv' /\ ConnInv'
      BY <3>1, <3>7, EstablishKeepsPoll DEF RunEstablish, Running, At
    <3>8. QED
      BY <2>5, <3>2, <3>3, <3>4, <3>5, <3>6, <3>7 DEF LoopNext
  <2>6. QED
    BY <1>2, <2>1, <2>2, <2>3, <2>4, <2>5 DEF Next, MainNext
<1>3. QED
  BY <1>1, <1>2

(* The first state.                                                        *)
LEMMA InitIsPlain ==
    ASSUME Init
    PROVE  ServerTypes /\ Places /\ PollInv
<1>1. /\ 0 \in 0 .. NumThreads - 1 /\ 0 \in 0 .. MaxConns
  BY ServerAssumption
<1>2. <<>> \in Seq(Threads \cup {None}) /\ <<>> \in Seq(Functors)
  OBVIOUS
<1>3. ServerTypes
  BY <1>1, <1>2 DEF Init, ServerTypes, Making
<1>4. Places
  BY DEF Init, Places
<1>5. \A t \in Threads : InOrder(t) /\ \A f : ~Held(t, f)
  <2>1. \A e : ~Holds(<<>>, e)
    BY DEF Holds
  <2>2. Behind(<<>>)
    BY DEF Behind
  <2>3. QED
    BY <2>1, <2>2 DEF Init, InOrder, Held
<1>6. \A c \in Conns : ~Given(c)
  BY DEF Init, Given
<1>7. QueueInv
  BY <1>5, <1>6 DEF QueueInv
<1>8. ConnInv
  BY <1>6 DEF Init, ConnInv, MakingInv, LifeInv, ClosingInv, Making
<1>9. QED
  BY <1>3, <1>4, <1>7, <1>8 DEF PollInv

(* What is polled, or will be through a bare pointer, is held by somebody. *)
LEMMA PollInvSuffices ==
    ASSUME ServerTypes, PollInv
    PROVE  PolledIsAlive
<1> SUFFICES ASSUME QueueInv, ConnInv, NEW c \in Conns,
                    c \in polled \/ Queued(<<"enableRead", c>>)
             PROVE  Alive(c)
  BY DEF PolledIsAlive, PollInv
<1>1. \A t \in Threads : \A e :
                            /\ e \in ToSet(pending[t]) <=> Holds(pending[t], e)
                            /\ e \in ToSet(batch[t]) <=> Holds(batch[t], e)
  BY ToSetHolds DEF ServerTypes
<1>2. \A f : Queued(f) <=> \E t \in Threads : Held(t, f)
  BY <1>1 DEF Queued, Held
<1>3. Given(c) /\ state[c] # "kDisconnected"
  <2>1. CASE c \in polled
    BY <2>1 DEF ConnInv, LifeInv
  <2>2. CASE Queued(<<"enableRead", c>>)
    <3>1. PICK t \in Threads : Held(t, <<"enableRead", c>>)
      BY <1>2, <2>2
    <3>2. loopOf[c] = t /\ state[c] = "kConnecting"
      BY <3>1, FunctorIs DEF QueueInv
    <3>3. QED
      BY <3>2 DEF Given, Threads, None
  <2>3. QED
    BY <2>1, <2>2
<1>4. CASE state[c] = "kConnecting"
  <2>1. BeingMade(c) \/ Waits(c)
    BY <1>3, <1>4 DEF ConnInv, LifeInv
  <2>2. loopOf[c] \in Threads
    BY <1>3 DEF Given, ServerTypes
  <2>3. QED
    BY <1>2, <2>1, <2>2 DEF Alive, BeingMade, Making, Waits
<1>5. CASE state[c] = "kConnected"
  BY <1>5 DEF ConnInv, LifeInv, Alive
<1>6. QED
  BY <1>3, <1>4, <1>5 DEF ServerTypes

(* The types, the places and the invariant, in every state.                *)
THEOREM ServerKeepsInv == Spec => [](ServerTypes /\ Places /\ PollInv)
<1>1. ServerTypes /\ Places /\ PollInv /\ [Next]_vars => (ServerTypes /\ Places /\ PollInv)'
  BY StepKeepsTypes, StepKeepsPlaces, StepKeepsPoll
<1>2. QED
  BY InitIsPlain, <1>1, PTL DEF Spec

(* PolledIsAlive: a channel that is in a poller, or will be put there      *)
(* through the bare pointer that enableReadInLoop() is bound to, belongs to*)
(* a connection that somebody holds, whichever threads come and go.        *)
THEOREM PolledStaysAlive == Spec => []PolledIsAlive
<1>1. ServerTypes /\ Places /\ PollInv => PolledIsAlive
  BY PollInvSuffices
<1>2. QED
  BY ServerKeepsInv, <1>1, PTL

---------------------------------------------------------------------------
(* The invariant under OnlyRacesLose. While no two threads have met in the *)
(* map: it holds what is not being inserted and has not been destroyed; a  *)
(* thread that erases is alone, and its connection is connected; and after *)
(* ~TcpServer(), if there was nothing left to do, there is nothing to do.  *)
StoredInv ==
    ~overlap /\ main # "gone" =>
        \A c \in Conns : Given(c) =>
            (c = Current /\ main = "insert") \/ c \in connections \/ state[c] = "kDisconnected"

AloneInv ==
    ~overlap => \A t \in Threads : closing[t] # None =>
        /\ state[closing[t]] = "kConnected" /\ main # "insert"
        /\ \A u \in Threads : thread[u] = "erase" => u = t

DoneInv ==
    ~overlap /\ ~busy /\ main = "gone" =>
        /\ \A c \in Conns : Given(c) => state[c] = "kDisconnected"
        /\ \A t \in Threads : thread[t] \notin {"new", "push", "erase"}

MapInv == (raced # {} => overlap) /\ StoredInv /\ AloneInv /\ DoneInv

RaceInv == OnlyRacesLose /\ (fault = "none" => MapInv)

(* What is connected, or asked for, has been given to a loop.              *)
LEMMA ConnectedIsGiven ==
    ASSUME QueueInv, ConnInv
    PROVE  /\ \A c \in Conns : state[c] = "kConnected" => Given(c)
           /\ \A t \in Threads, f \in Functors :
                 Held(t, f) => Given(f[2]) /\ state[f[2]] = "kConnecting"
<1>1. \A c \in Conns : state[c] = "kConnected" => Given(c)
  BY DEF ConnInv, LifeInv
<1>2. \A t \in Threads, f \in Functors :
         Held(t, f) => Given(f[2]) /\ state[f[2]] = "kConnecting"
  BY DEF QueueInv, Given, Threads, None
<1>3. QED
  BY <1>1, <1>2

(* A step that does not touch the map, and makes, opens and closes nothing.*)
LEMMA QuietKeepsMap ==
    ASSUME MapInv,
           UNCHANGED <<connections, raced, overlap, busy, state, closing, accepted, loopOf>>,
           main' = "gone" <=> main = "gone", main = "insert" <=> main' = "insert",
           \A t \in Threads : thread'[t] = "erase" => thread[t] = "erase",
           main = "gone" =>
              \A t \in Threads : thread'[t] \in {"new", "push"} => thread[t] \in {"new", "push"}
    PROVE  MapInv'
<1>1. StoredInv'
  BY DEF StoredInv, MapInv, Given, Current
<1>2. AloneInv'
  BY DEF AloneInv, MapInv
<1>3. DoneInv'
  BY DEF DoneInv, MapInv, Given
<1>4. QED
  BY <1>1, <1>2, <1>3 DEF MapInv

LEMMA QuietStepsRace ==
    ASSUME ServerTypes, MapInv, OnlyRacesLose,
           \/ Start \/ SetCallbacks \/ QueueEstablished \/ UNCHANGED vars
           \/ \E t \in Threads : \/ PushBegin(t) \/ PushEnd(t) \/ PassDone(t)
                                 \/ \E evs \in SUBSET Events : Poll(t, evs)
                                 \/ \E c \in Conns : HandleMessage(t, c) \/ RunEnableRead(t, c)
                                 \/ DoPendingFunctors(t)
    PROVE  RaceInv'
<1>1. CASE Start \/ SetCallbacks \/ QueueEstablished \/ UNCHANGED vars
  <2>1. /\ UNCHANGED <<connections, raced, overlap, busy, state, closing, accepted, loopOf, fault>>
        /\ (main' = "gone" <=> main = "gone") /\ (main = "insert" <=> main' = "insert")
        /\ thread' = thread \/ (thread' = [t \in Threads |-> "new"] /\ main # "gone")
    BY <1>1 DEF Start, StartThreads, SetCallbacks, QueueEstablished, vars, acceptVars, mapVars,
       connVars, eventVars, MainAt
  <2>2. MapInv'
    BY <2>1, QuietKeepsMap
  <2>3. QED
    BY <2>1, <2>2 DEF RaceInv, OnlyRacesLose
<1>2. ASSUME NEW t \in Threads,
             \/ PushBegin(t) \/ PushEnd(t) \/ PassDone(t)
             \/ \E evs \in SUBSET Events : Poll(t, evs)
             \/ \E c \in Conns : HandleMessage(t, c) \/ RunEnableRead(t, c)
             \/ DoPendingFunctors(t)
      PROVE  RaceInv'
  <2>1. /\ UNCHANGED <<connections, raced, overlap, busy, state, closing, accepted, loopOf, main>>
        /\ \/ thread' = thread
           \/ \E p \in {"poll", "events", "functors"} : thread' = [thread EXCEPT ![t] = p]
           \/ thread' = [thread EXCEPT ![t] = "push"] /\ thread[t] = "new"
    BY <1>2 DEF PushBegin, PushEnd, PassDone, Poll, HandleMessage, RunEnableRead,
       DoPendingFunctors, acceptVars, mapVars, connVars, eventVars, Goto, At
  <2>2. MapInv'
    BY <2>1, QuietKeepsMap DEF ServerTypes
  <2>3. fault' \in {"none", "noCallback"} \/ (fault' = IntoServer /\ thread[t] \in {"new", "push"})
    BY <1>2 DEF PushBegin, PushEnd, PassDone, Poll, HandleMessage, RunEnableRead, Running,
       DoPendingFunctors, At
  <2>4. CASE fault' = "serverGone"
    <3>1. main = "gone" /\ thread[t] \in {"new", "push"}
      BY <2>3, <2>4 DEF IntoServer
    <3>2. overlap \/ busy
      BY <3>1 DEF MapInv, DoneInv
    <3>3. QED
      BY <2>1, <2>2, <3>2 DEF RaceInv, OnlyRacesLose
  <2>5. CASE fault' # "serverGone"
    BY <2>2, <2>3, <2>5 DEF RaceInv, OnlyRacesLose, IntoServer
  <2>6. QED
    BY <2>4, <2>5
<1>3. QED
  BY <1>1, <1>2

(* The main thread enters the map ...                                      *)
LEMMA AcceptKeepsRace ==
    ASSUME ServerTypes, Places, QueueInv, ConnInv, MapInv, OnlyRacesLose, Accept
    PROVE  RaceInv'
<1>1. CASE fault' = "noLoop"
  BY <1>1 DEF RaceInv, OnlyRacesLose
<1>2. CASE fault' # "noLoop"
  <2>0. PICK c : c = accepted + 1
    OBVIOUS
  <2>1. /\ main = "poll" /\ accepted' = c /\ c \in Conns /\ main' = "insert" /\ fault' = "none"
        /\ loopOf' = [loopOf EXCEPT ![c] = Chosen] /\ EnterMap(None)
    BY <1>2, <2>0, AcceptGives
  <2>2. UNCHANGED <<thread, connections, state, closing, busy>>
    BY DEF Accept, connVars, eventVars
  <2>3. \A d \in Conns : d # c => (Given(d)' <=> Given(d))
    BY <2>1 DEF Given, ServerTypes
  <2>4. ~overlap' => ~overlap /\ InMap = {} /\ raced' = {}
    BY <2>1 DEF EnterMap
  <2>5. StoredInv'
    <3>1. ASSUME NEW d \in Conns, ~overlap', Given(d)'
          PROVE  (d = Current' /\ main' = "insert") \/ d \in connections' \/ state'[d] = "kDisconnected"
      <4>1. CASE d = c
        BY <2>1, <4>1 DEF Current
      <4>2. CASE d # c
        BY <2>1, <2>2, <2>3, <2>4, <3>1, <4>2 DEF MapInv, StoredInv
      <4>3. QED
        BY <4>1, <4>2
    <3>2. QED
      BY <3>1 DEF StoredInv
  <2>6. ~overlap' => \A t \in Threads : closing'[t] = None
    BY <2>2, <2>4 DEF InMap, Places
  <2>7. AloneInv'
    BY <2>6 DEF AloneInv
  <2>8. DoneInv' /\ (raced' # {} => overlap')
    BY <2>1, <2>4 DEF DoneInv
  <2>9. QED
    BY <2>1, <2>5, <2>7, <2>8 DEF RaceInv, MapInv, OnlyRacesLose
<1>3. QED
  BY <1>1, <1>2

(* ... and leaves it.                                                      *)
LEMMA InsertKeepsRace ==
    ASSUME ServerTypes, Places, MapInv, OnlyRacesLose, Insert
    PROVE  RaceInv'
<1>1. /\ main = "insert" /\ main' = "callbacks" /\ fault' = "none"
      /\ UNCHANGED <<thread, loopOf, accepted, state, closing, busy, overlap>>
      /\ raced' \subseteq raced /\ connections \subseteq connections'
      /\ ~overlap => Current \in connections'
  BY DEF Insert, MainAt, acceptVars, connVars, eventVars, LeaveMap, MapInv
<1>2. StoredInv'
  BY <1>1 DEF StoredInv, MapInv, Given
<1>3. AloneInv' /\ DoneInv'
  BY <1>1 DEF AloneInv, DoneInv, MapInv
<1>4. QED
  BY <1>1, <1>2, <1>3 DEF RaceInv, MapInv, OnlyRacesLose

(* ~TcpServer(): with nothing left to do, all connections are destroyed.   *)
LEMMA DestroyKeepsRace ==
    ASSUME ServerTypes, Places, QueueInv, ConnInv, MapInv, OnlyRacesLose, Destroy
    PROVE  RaceInv'
<1>1. /\ main = "poll" /\ main' = "gone" /\ connections' = {} /\ busy' = LeftToDo
      /\ overlap' = (overlap \/ InMap # {}) /\ fault' = Released(connections)
      /\ UNCHANGED <<thread, loopOf, raced, state, closing>>
  BY DEF Destroy, MainAt, acceptVars, connVars, eventVars
<1>2. OnlyRacesLose'
  <2>1. fault' \in {"none", "destroyedConnected"}
    BY <1>1 DEF Released
  <2>2. fault' # "none" => connections # {}
    BY <1>1 DEF Released
  <2>3. QED
    BY <1>1, <2>1, <2>2 DEF OnlyRacesLose, LeftToDo
<1>3. StoredInv' /\ (raced' # {} => overlap')
  BY <1>1 DEF StoredInv, MapInv
<1>4. ~overlap' => \A t \in Threads : closing'[t] = None /\ thread'[t] # "erase"
  BY <1>1 DEF InMap, Places
<1>5. AloneInv'
  BY <1>4 DEF AloneInv
<1>6. DoneInv'
  <2>1. ASSUME ~overlap', ~busy', NEW c \in Conns, Given(c)'
        PROVE  state'[c] = "kDisconnected"
    BY <1>1, <2>1 DEF MapInv, StoredInv, LeftToDo, Given
  <2>2. ASSUME ~busy', NEW t \in Threads PROVE thread'[t] \notin {"new", "push"}
    BY <1>1, <2>2 DEF LeftToDo
  <2>3. QED
    BY <1>4, <2>1, <2>2 DEF DoneInv
<1>7. QED
  BY <1>2, <1>3, <1>5, <1>6 DEF RaceInv, MapInv

(* A sub-loop's thread enters the map ...                                  *)
LEMMA HandleCloseKeepsRace ==
    ASSUME ServerTypes, Places, QueueInv, ConnInv, MapInv, OnlyRacesLose,
           NEW t \in Threads, NEW c \in Conns, HandleClose(t, c)
    PROVE  RaceInv'
<1>1. CASE fault' = "earlyEof"
  BY <1>1 DEF RaceInv, OnlyRacesLose
<1>2. CASE fault' # "earlyEof"
  <2>1. /\ state[c] = "kConnected" /\ thread' = [thread EXCEPT ![t] = "erase"]
        /\ closing' = [closing EXCEPT ![t] = c] /\ EnterMap(t) /\ fault' = "none"
        /\ UNCHANGED <<main, connections, state, accepted, loopOf, busy>>
    BY <1>2 DEF HandleClose, acceptVars, connVars, Goto, At
  <2>2. ~overlap' => ~overlap /\ InMap = {} /\ raced' = {}
    BY <2>1 DEF EnterMap
  <2>3. StoredInv'
    BY <2>1, <2>2 DEF MapInv, StoredInv, Given, Current
  <2>4. ~overlap' => main # "insert" /\ \A u \in Threads : thread[u] # "erase"
    BY <2>2 DEF InMap
  <2>5. ~overlap' => \A u \in Threads : closing'[u] # None => u = t
    BY <2>1, <2>4 DEF Places, ServerTypes
  <2>6. closing'[t] = c /\ \A u \in Threads : u # t => thread'[u] = thread[u]
    BY <2>1 DEF ServerTypes
  <2>7. AloneInv'
    BY <2>1, <2>4, <2>5, <2>6 DEF AloneInv
  <2>8. Given(c)
    BY <2>1, ConnectedIsGiven
  <2>9. DoneInv'
    BY <2>1, <2>2, <2>8 DEF MapInv, DoneInv
  <2>10. QED
    BY <2>1, <2>2, <2>3, <2>7, <2>9 DEF RaceInv, MapInv, OnlyRacesLose
<1>3. QED
  BY <1>1, <1>2

(* ... and leaves it: alone, it has found its connection, and destroyed it.*)
LEMMA RemoveKeepsRace ==
    ASSUME ServerTypes, Places, QueueInv, ConnInv, MapInv, OnlyRacesLose,
           NEW t \in Threads, NEW found \in BOOLEAN, RemoveConnection(t, found)
    PROVE  RaceInv'
<1>0. PICK c : c = closing[t]
  OBVIOUS
<1>1. /\ thread[t] = "erase" /\ Erase(t, c, found) /\ raced' \subseteq raced
      /\ UNCHANGED <<main, loopOf, accepted, busy, overlap>>
      /\ closing' = [closing EXCEPT ![t] = None]
      /\ thread' = [thread EXCEPT ![t] = "events"]
      /\ fault' \in {"serverGone", "eraseNone", "none", "freedChannel"}
  BY <1>0 DEF RemoveConnection, acceptVars, At, LeaveMap, Goto
<1>2. /\ fault' = "serverGone" => main = "gone"
      /\ fault' = "eraseNone" => ~found /\ main # "gone"
      /\ fault' = "none" => found /\ main # "gone"
  BY DEF RemoveConnection
<1>3. c \in Conns /\ closing[t] = c /\ closing[t] # None
  BY <1>0, <1>1 DEF Places, ServerTypes
<1>4. OnlyRacesLose'
  <2>1. CASE fault' = "serverGone"
    BY <1>1, <1>2, <2>1 DEF MapInv, DoneInv, OnlyRacesLose
  <2>2. CASE fault' = "eraseNone"
    <3>1. SUFFICES ASSUME ~overlap PROVE FALSE
      BY <1>1 DEF OnlyRacesLose
    <3>2. c \notin connections
      BY <1>1, <1>2, <2>2, <3>1 DEF Erase, MapInv
    <3>3. state[c] = "kConnected" /\ main # "insert" /\ Given(c)
      BY <1>3, <3>1, ConnectedIsGiven DEF MapInv, AloneInv
    <3>4. QED
      BY <1>2, <1>3, <2>2, <3>1, <3>2, <3>3 DEF MapInv, StoredInv
  <2>3. QED
    BY <1>1, <2>1, <2>2 DEF OnlyRacesLose
<1>5. CASE fault' = "none"
  <2>1. found /\ main # "gone"
    BY <1>2, <1>5
  <2>2. ConnectDestroyed(c)
    BY <1>0, <2>1, Zenon DEF RemoveConnection
  <2>3. /\ state'[c] = "kDisconnected"
        /\ \A d \in Conns : d # c => state'[d] = state[d]
        /\ \A d \in connections : d # c => d \in connections'
    BY <1>1, <1>3, <2>2 DEF ConnectDestroyed, ServerTypes, Erase
  <2>4. StoredInv'
    <3>1. ASSUME NEW d \in Conns, ~overlap, Given(d)
          PROVE  (d = Current /\ main = "insert") \/ d \in connections' \/ state'[d] = "kDisconnected"
      <4>1. CASE d = c
        BY <2>3, <4>1
      <4>2. CASE d # c
        BY <2>1, <2>3, <3>1, <4>2 DEF MapInv, StoredInv
      <4>3. QED
        BY <4>1, <4>2
    <3>2. QED
      BY <1>1, <3>1 DEF StoredInv, Given, Current
  <2>5. ~overlap => \A u \in Threads : closing'[u] = None
    BY <1>1, <1>3 DEF MapInv, AloneInv, Places, ServerTypes
  <2>6. AloneInv' /\ DoneInv'
    BY <1>1, <2>1, <2>5 DEF AloneInv, DoneInv
  <2>7. QED
    BY <1>1, <1>4, <2>4, <2>6 DEF RaceInv, MapInv
<1>6. QED
  BY <1>4, <1>5 DEF RaceInv

(* A connection is established: the map holds it, if nobody has met there. *)
LEMMA EstablishKeepsRace ==
    ASSUME ServerTypes, QueueInv, ConnInv, MapInv, OnlyRacesLose,
           NEW t \in Threads, NEW c \in Conns, RunEstablish(t, c)
    PROVE  RaceInv'
<1> DEFINE f == <<"establish", c>>
<1>1. /\ UNCHANGED <<main, thread, loopOf, accepted, closing, connections, raced, overlap, busy>>
      /\ state' = [state EXCEPT ![c] = "kConnected"] /\ Running(t, f)
      /\ fault' = Released({c})
  BY DEF RunEstablish, acceptVars, mapVars, eventVars
<1>2. f \in Functors /\ f[2] = c
  BY FunctorIs
<1>3. Held(t, f)
  <2> HIDE DEF f
  <2>1. Head(batch[t]) = f /\ batch[t] # <<>> /\ batch[t] \in Seq(Functors)
    BY <1>1, <1>2, RunningTakes
  <2>2. QED
    BY <2>1, TailHolds DEF Held
<1>4. Given(c) /\ state[c] = "kConnecting"
  BY <1>2, <1>3, ConnectedIsGiven
<1>5. state'[c] = "kConnected" /\ \A d \in Conns : d # c => state'[d] = state[d]
  BY <1>1 DEF ServerTypes
<1>6. ~overlap /\ main # "gone" => c \in connections \/ (c = Current /\ main = "insert")
  BY <1>4 DEF MapInv, StoredInv
<1>7. ~overlap /\ main = "gone" => busy
  BY <1>4 DEF MapInv, DoneInv
<1>8. OnlyRacesLose'
  <2>1. fault' # "none" => ~Alive(c)'
    BY <1>1 DEF Released
  <2>2. c \in connections \/ (c = Current /\ main = "insert") => Alive(c)'
    BY <1>1 DEF Alive, Current
  <2>3. QED
    BY <1>1, <1>6, <1>7, <2>1, <2>2 DEF OnlyRacesLose
<1>9. MapInv'
  <2>1. StoredInv'
    BY <1>1, <1>4, <1>5 DEF MapInv, StoredInv, Given, Current
  <2>2. AloneInv'
    BY <1>1, <1>4, <1>5 DEF MapInv, AloneInv, ServerTypes
  <2>3. DoneInv'
    BY <1>1, <1>4, <1>5 DEF MapInv, DoneInv, Given
  <2>4. QED
    BY <1>1, <2>1, <2>2, <2>3 DEF MapInv
<1>10. QED
  BY <1>8, <1>9 DEF RaceInv

(* Every step keeps the invariant.                                         *)
LEMMA StepKeepsRace ==
    ASSUME ServerTypes, Places, PollInv, RaceInv, [Next]_vars
    PROVE  RaceInv'
<1>1. CASE UNCHANGED vars
  <2>1. fault' = fault /\ UNCHANGED <<overlap, busy>>
    BY <1>1 DEF vars, mapVars
  <2>2. CASE fault = "none"
    BY <1>1, <2>2, QuietStepsRace DEF RaceInv
  <2>3. CASE fault # "none"
    BY <2>1, <2>3 DEF RaceInv, OnlyRacesLose
  <2>4. QED
    BY <2>2, <2>3
<1>2. CASE Next
  <2>1. fault = "none"
    BY <1>2, NextNeedsNoFault
  <2>2. QueueInv /\ ConnInv /\ MapInv /\ OnlyRacesLose
    BY <2>1 DEF PollInv, RaceInv
  <2>3. CASE Start \/ SetCallbacks \/ QueueEstablished
    BY <2>2, <2>3, QuietStepsRace
  <2>4. CASE Accept \/ Insert \/ Destroy
    BY <2>2, <2>4, AcceptKeepsRace, InsertKeepsRace, DestroyKeepsRace
  <2>5. ASSUME NEW t \in Threads, LoopNext(t) PROVE RaceInv'
    <3>1. CASE \/ PushBegin(t) \/ PushEnd(t) \/ PassDone(t)
               \/ \E evs \in SUBSET Events : Poll(t, evs)
               \/ \E c \in Conns : HandleMessage(t, c) \/ RunEnableRead(t, c)
               \/ DoPendingFunctors(t)
      BY <2>2, <3>1, QuietStepsRace
    <3>2. ASSUME NEW c \in Conns, HandleClose(t, c) \/ RunEstablish(t, c) PROVE RaceInv'
      BY <2>2, <3>2, HandleCloseKeepsRace, EstablishKeepsRace
    <3>3. ASSUME NEW found \in BOOLEAN, RemoveConnection(t, found) PROVE RaceInv'
      BY <2>2, <3>3, RemoveKeepsRace
    <3>4. QED
      BY <2>5, <3>1, <3>2, <3>3 DEF LoopNext
  <2>6. QED
    BY <1>2, <2>3, <2>4, <2>5 DEF Next, MainNext
<1>3. QED
  BY <1>1, <1>2

LEMMA InitIsRaceFree ==
    ASSUME Init
    PROVE  RaceInv
<1>1. \A c \in Conns : ~Given(c)
  BY DEF Init, Given
<1>2. QED
  BY <1>1 DEF Init, RaceInv, OnlyRacesLose, MapInv, StoredInv, AloneInv, DoneInv

(* OnlyRacesLose: as long as no two threads have met inside connections_,  *)
(* and ~TcpServer() came when there was nothing left to do, the assert of  *)
(* removeConnectionInLoop() holds, no connection is destroyed while it is  *)
(* connected, and no thread comes back to a server that is gone.           *)
THEOREM OnlyRacesEverLose == Spec => []OnlyRacesLose
<1>1. Init => RaceInv
  BY InitIsRaceFree
<1>2. ServerTypes /\ Places /\ PollInv /\ RaceInv /\ [Next]_vars => RaceInv'
  BY StepKeepsRace
<1>3. RaceInv => OnlyRacesLose
  BY DEF RaceInv
<1>4. QED
  BY <1>1, <1>2, <1>3, ServerKeepsInv, PTL DEF Spec

---------------------------------------------------------------------------
(* The invariant under RoundRobin. Up is the set of the threads that have  *)
(* pushed their loops; loops were lost if there are more of them than there*)
(* are in loops_. As long as none has been lost, loops_ has the loop of    *)
(* each once, the next thread to push will do it at the end, and the shares*)
(* tell the turn that next_ has come to in the round after the q-th.       *)
Up == {t \in Threads : thread[t] \notin {"none", "new", "push"}}
Lost == Len(loops) < Cardinality(Up)

PushInv ==
    /\ Len(loops) <= Cardinality(Up)
    /\ \A t \in Threads : thread[t] = "push" =>
          seenSize[t] <= Cardinality(Up) /\ (Lost => seenSize[t] < Cardinality(Up))

SlotInv ==
    ~Lost => /\ \A k \in 1 .. Len(loops) : loops[k] \in Up
             /\ \A j, k \in 1 .. Len(loops) : loops[j] = loops[k] => j = k

Turn(k, q) == IF 2 <= k /\ k <= next + 1 THEN q + 1 ELSE q

ShareInv ==
    ~Lost => /\ \E q \in Nat : /\ \A k \in 1 .. Len(loops) : Share(loops[k]) = Turn(k, q)
                               /\ Len(loops) < NumThreads => q = 0
             /\ \A t \in Threads \ Up : Share(t) = 0
             /\ next = 0 \/ next < Len(loops)

RobinInv == PushInv /\ SlotInv /\ ShareInv

(* The threads are finitely many, and so are those that are up.            *)
LEMMA ThreadsAreFinite ==
    ASSUME NEW S, S \subseteq Threads
    PROVE  /\ IsFiniteSet(S) /\ Cardinality(S) \in Nat /\ Cardinality(S) <= NumThreads
           /\ \A t \in Threads : t \notin S => /\ Cardinality(S) < NumThreads
                                               /\ Cardinality(S \cup {t}) = Cardinality(S) + 1
<1>1. NumThreads \in Nat \ {0} /\ 1 \in Int /\ NumThreads \in Int
  BY ServerAssumption
<1>2. IsFiniteSet(Threads) /\ Cardinality(Threads) = NumThreads
  BY <1>1, FS_Interval DEF Threads
<1>3. /\ IsFiniteSet(S) /\ Cardinality(S) <= NumThreads
      /\ Cardinality(Threads) = Cardinality(S) => Threads = S
  BY <1>2, FS_Subset
<1>4. Cardinality(S) \in Nat
  BY <1>3, FS_CardinalityType
<1>5. ASSUME NEW t \in Threads, t \notin S
      PROVE  Cardinality(S) < NumThreads /\ Cardinality(S \cup {t}) = Cardinality(S) + 1
  <2>1. Cardinality(S) # NumThreads
    BY <1>2, <1>3, <1>5
  <2>2. Cardinality(S \cup {t}) = Cardinality(S) + 1
    BY <1>3, <1>5, FS_AddElement
  <2>3. QED
    BY <1>1, <1>3, <1>4, <2>1, <2>2
<1>6. QED
  BY <1>3, <1>4, <1>5

(* What has been given to a loop is finite.                                *)
LEMMA LoadIsFinite ==
    ASSUME NEW S, S \subseteq Conns
    PROVE  /\ IsFiniteSet(S) /\ Cardinality(S) \in Nat
           /\ \A c : c \notin S => Cardinality(S \cup {c}) = Cardinality(S) + 1
<1>1. MaxConns \in Int /\ 1 \in Int
  BY ServerAssumption
<1>2. IsFiniteSet(Conns)
  BY <1>1, FS_Interval DEF Conns
<1>3. IsFiniteSet(S)
  BY <1>2, FS_Subset
<1>4. Cardinality(S) \in Nat
  BY <1>3, FS_CardinalityType
<1>5. QED
  BY <1>3, <1>4, FS_AddElement

(* A step that brings no loop up and takes no turn.                        *)
LEMMA QuietKeepsRobin ==
    ASSUME RobinInv, UNCHANGED <<loops, next, loopOf>>, Up' = Up,
           \A t \in Threads : thread'[t] = "push" =>
               seenSize'[t] <= Cardinality(Up) /\ (Lost => seenSize'[t] < Cardinality(Up))
    PROVE  RobinInv'
<1>1. Lost' <=> Lost
  BY DEF Lost
<1>2. PushInv'
  BY <1>1 DEF PushInv, RobinInv
<1>3. SlotInv'
  BY <1>1 DEF SlotInv, RobinInv
<1>4. ShareInv'
  <2>1. \A t : Share(t)' = Share(t)
    BY DEF Share
  <2>2. \A k, q : Turn(k, q)' = Turn(k, q)
    BY DEF Turn
  <2>3. QED
    BY <1>1, <2>1, <2>2 DEF ShareInv, RobinInv
<1>5. QED
  BY <1>2, <1>3, <1>4 DEF RobinInv

LEMMA QuietStepsRobin ==
    ASSUME ServerTypes, Places, RobinInv,
           \/ Start \/ Insert \/ SetCallbacks \/ QueueEstablished \/ Destroy \/ UNCHANGED vars
           \/ \E t \in Threads : \/ PushBegin(t) \/ PassDone(t) \/ DoPendingFunctors(t)
                                 \/ \E evs \in SUBSET Events : Poll(t, evs)
                                 \/ \E c \in Conns : HandleMessage(t, c) \/ HandleClose(t, c)
                                 \/ \E found \in BOOLEAN : RemoveConnection(t, found)
                                 \/ \E c \in Conns : RunEnableRead(t, c) \/ RunEstablish(t, c)
    PROVE  RobinInv'
<1>1. CASE Start \/ Insert \/ SetCallbacks \/ QueueEstablished \/ Destroy \/ UNCHANGED vars
  <2>1. /\ UNCHANGED <<loops, next, loopOf, seenSize>>
        /\ thread' = thread \/ (main = "start" /\ thread' = [t \in Threads |-> "new"])
    BY <1>1 DEF Start, StartThreads, Insert, SetCallbacks, QueueEstablished, Destroy, vars,
       startVars, acceptVars, MainAt
  <2>2. Up' = Up /\ \A t \in Threads : thread'[t] = "push" => thread[t] = "push"
    BY <2>1 DEF Up, Places
  <2>3. QED
    BY <2>1, <2>2, QuietKeepsRobin DEF RobinInv, PushInv
<1>2. ASSUME NEW t \in Threads, PushBegin(t)
      PROVE  RobinInv'
  <2>1. /\ UNCHANGED <<loops, next, loopOf>> /\ thread[t] = "new"
        /\ thread' = [thread EXCEPT ![t] = "push"]
        /\ seenSize' = [seenSize EXCEPT ![t] = Len(loops)]
    BY <1>2 DEF PushBegin, At, Goto, acceptVars
  <2>2. Up' = Up
    BY <2>1 DEF Up, ServerTypes
  <2>3. ASSUME NEW u \in Threads, thread'[u] = "push"
        PROVE  seenSize'[u] <= Cardinality(Up) /\ (Lost => seenSize'[u] < Cardinality(Up))
    <3>1. CASE u = t
      BY <2>1, <3>1 DEF RobinInv, PushInv, Lost, ServerTypes
    <3>2. CASE u # t
      BY <2>1, <2>3, <3>2 DEF RobinInv, PushInv, ServerTypes
    <3>3. QED
      BY <3>1, <3>2
  <2>4. QED
    BY <2>1, <2>2, <2>3, QuietKeepsRobin
<1>3. ASSUME NEW t \in Threads,
             \/ PassDone(t) \/ DoPendingFunctors(t)
             \/ \E evs \in SUBSET Events : Poll(t, evs)
             \/ \E c \in Conns : HandleMessage(t, c) \/ HandleClose(t, c)
             \/ \E found \in BOOLEAN : RemoveConnection(t, found)
             \/ \E c \in Conns : RunEnableRead(t, c) \/ RunEstablish(t, c)
      PROVE  RobinInv'
  <2>1. /\ UNCHANGED <<loops, next, loopOf, seenSize>>
        /\ thread[t] \in {"poll", "events", "erase", "functors"}
        /\ \/ thread' = thread
           \/ \E p \in {"poll", "events", "erase", "functors"} : thread' = [thread EXCEPT ![t] = p]
    BY <1>3 DEF PassDone, DoPendingFunctors, Poll, HandleMessage, HandleClose, RemoveConnection,
       RunEnableRead, RunEstablish, Running, At, Goto, startVars, acceptVars
  <2>2. Up' = Up /\ \A u \in Threads : thread'[u] = "push" => thread[u] = "push"
    BY <2>1 DEF Up, ServerTypes
  <2>3. QED
    BY <2>1, <2>2, QuietKeepsRobin DEF RobinInv, PushInv
<1>4. QED
  BY <1>1, <1>2, <1>3

(* A loop comes up. If none is lost by that, none was lost before, and the *)
(* loop goes to the end.                                                   *)
LEMMA PushKeepsRobin ==
    ASSUME ServerTypes, Places, RobinInv, NEW t \in Threads, PushEnd(t)
    PROVE  RobinInv'
<1>0. PICK n : n = Cardinality(Up)
  OBVIOUS
<1>1. /\ thread[t] = "push" /\ UNCHANGED <<seenSize, next, loopOf>>
      /\ thread' = [thread EXCEPT ![t] = "poll"]
  BY DEF PushEnd, At, Goto, acceptVars
<1>2. PICK left \in [Beyond(t) -> Threads \cup {None}] :
          loops' = [i \in 1 .. seenSize[t] + 1 |->
                       IF i = seenSize[t] + 1 THEN t
                       ELSE IF i \in Beyond(t) THEN left[i] ELSE loops[i]]
  BY DEF PushEnd
<1>3. t \notin Up /\ Up' = Up \cup {t}
  BY <1>1 DEF Up, ServerTypes
<1>4. n \in Nat /\ n < NumThreads /\ Cardinality(Up') = n + 1
  <2>1. Up \subseteq Threads
    BY DEF Up
  <2>2. QED
    BY <1>0, <1>3, <2>1, ThreadsAreFinite
<1>5. /\ seenSize[t] \in Nat /\ seenSize[t] <= n /\ (Lost => seenSize[t] < n)
      /\ Len(loops) \in Nat /\ Len(loops) <= n
  BY <1>0, <1>1 DEF RobinInv, PushInv, ServerTypes
<1>6. Len(loops') = seenSize[t] + 1
  <2>1. seenSize[t] + 1 \in Nat
    BY <1>5
  <2>2. DOMAIN loops' = 1 .. seenSize[t] + 1
    BY <1>2
  <2>3. loops' \in Seq(Threads \cup {None})
    <3>1. ServerTypes'
      <4>1. [Next]_vars
        BY DEF Next, LoopNext
      <4>2. QED
        BY <4>1, StepKeepsTypes
    <3>2. QED
      BY <3>1 DEF ServerTypes
  <2>4. DOMAIN loops' = 1 .. Len(loops') /\ Len(loops') \in Nat
    BY <2>3, LenProperties
  <2>5. QED
    BY <2>1, <2>2, <2>4
<1>7. Lost' <=> seenSize[t] < n
  BY <1>4, <1>5, <1>6 DEF Lost
<1>8. PushInv'
  <2>1. ASSUME NEW u \in Threads, thread'[u] = "push"
        PROVE  seenSize'[u] \in Nat /\ seenSize'[u] <= n
    <3>1. thread[u] = "push"
      BY <1>1, <2>1 DEF ServerTypes
    <3>2. QED
      BY <1>0, <1>1, <3>1 DEF RobinInv, PushInv, ServerTypes
  <2>2. QED
    BY <1>4, <1>5, <1>6, <2>1 DEF PushInv
<1>9. ASSUME ~Lost'
      PROVE  /\ ~Lost /\ Len(loops) = n /\ Len(loops') = n + 1
             /\ \A k \in 1 .. n : loops'[k] = loops[k]
             /\ loops'[n + 1] = t
  <2>1. seenSize[t] = n /\ ~Lost
    BY <1>4, <1>5, <1>7, <1>9
  <2>2. Len(loops) = n
    BY <1>0, <1>4, <1>5, <2>1 DEF Lost
  <2>3. \A k \in 1 .. n : k \in 1 .. n + 1 /\ k # n + 1 /\ k \notin Beyond(t)
    BY <1>4, <2>1, <2>2 DEF Beyond
  <2>4. n + 1 \in 1 .. n + 1
    BY <1>4
  <2>5. QED
    BY <1>2, <1>6, <2>1, <2>2, <2>3, <2>4
<1>10. \A k \in 1 .. n + 1 : k \in 1 .. n \/ k = n + 1
  BY <1>4
<1>11. SlotInv'
  <2>1. SUFFICES ASSUME ~Lost'
                 PROVE  /\ \A k \in 1 .. n + 1 : loops'[k] \in Up'
                        /\ \A j, k \in 1 .. n + 1 : loops'[j] = loops'[k] => j = k
    BY <1>9 DEF SlotInv
  <2>2. \A k \in 1 .. n : loops'[k] \in Up /\ loops'[k] # t
    BY <1>3, <1>9, <2>1 DEF RobinInv, SlotInv
  <2>3. \A j, k \in 1 .. n : loops'[j] = loops'[k] => j = k
    BY <1>9, <2>1 DEF RobinInv, SlotInv
  <2>4. QED
    BY <1>3, <1>9, <1>10, <2>1, <2>2, <2>3
<1>12. ShareInv'
  <2>1. SUFFICES ASSUME ~Lost' PROVE ShareInv'
    BY DEF ShareInv
  <2>2. /\ \A u : Share(u)' = Share(u)
        /\ \A k, q : Turn(k, q)' = Turn(k, q)
    BY <1>1 DEF Share, Turn
  <2>3. PICK q \in Nat : /\ \A k \in 1 .. n : Share(loops[k]) = Turn(k, q)
                         /\ n < NumThreads => q = 0
    BY <1>9, <2>1 DEF RobinInv, ShareInv
  <2>4. Share(t) = 0 /\ (next = 0 \/ next < n) /\ next \in Nat
    BY <1>3, <1>9, <2>1 DEF RobinInv, ShareInv, ServerTypes
  <2>5. q = 0 /\ Turn(n + 1, q) = 0
    BY <1>4, <2>3, <2>4 DEF Turn
  <2>6. ASSUME NEW k \in 1 .. n + 1 PROVE Share(loops[k])' = Turn(k, q)'
    <3>1. PICK u : u = loops'[k]
      OBVIOUS
    <3>2. Share(loops[k])' = Share(u)
      BY <1>1, <3>1 DEF Share
    <3>3. Share(u) = Turn(k, q)
      BY <1>9, <1>10, <2>1, <2>3, <2>4, <2>5, <3>1
    <3>4. QED
      BY <2>2, <3>2, <3>3
  <2>7. \A u \in Threads \ Up' : Share(u)' = 0
    BY <1>3, <1>9, <2>1, <2>2 DEF RobinInv, ShareInv
  <2>8. next' = 0 \/ next' < n + 1
    BY <1>1, <1>4, <2>4
  <2>9. Len(loops') < NumThreads => q = 0
    BY <2>5
  <2>10. QED
    BY <1>9, <2>1, <2>6, <2>7, <2>8, <2>9 DEF ShareInv
<1>13. QED
  BY <1>8, <1>11, <1>12 DEF RobinInv

(* A connection is given to the loop whose turn it is.                     *)
LEMMA AcceptKeepsRobin ==
    ASSUME ServerTypes, QueueInv, RobinInv, Accept, fault' = "none"
    PROVE  RobinInv'
<1>0. PICK c, t, m : c = accepted + 1 /\ t = Chosen /\ m = NextLoop
  OBVIOUS
<1>1. /\ c \in Conns /\ m + 1 \in 1 .. Len(loops) /\ t = loops[m + 1] /\ t \in Threads
      /\ m \in 0 .. NumThreads - 1 /\ next' = m /\ loopOf' = [loopOf EXCEPT ![c] = t]
  BY <1>0, AcceptGives DEF Chosen
<1>2. UNCHANGED <<thread, seenSize, loops>>
  BY DEF Accept, startVars
<1>3. /\ Up' = Up /\ (Lost' <=> Lost)
  BY <1>2 DEF Up, Lost
<1>4. PushInv' /\ SlotInv'
  BY <1>2, <1>3 DEF PushInv, SlotInv, RobinInv
<1>5. loopOf[c] = None
  BY <1>0, <1>1 DEF QueueInv, Given, ServerTypes
<1>6. Share(t)' = Share(t) + 1 /\ \A u \in Threads : u # t => Share(u)' = Share(u)
  <2> DEFINE L(u) == {d \in Conns : loopOf[d] = u}
  <2>1. L(t)' = L(t) \cup {c} /\ c \notin L(t)
    BY <1>1, <1>5 DEF ServerTypes, Threads, None
  <2>2. \A u \in Threads : u # t => L(u)' = L(u)
    BY <1>1, <1>5 DEF ServerTypes, Threads, None
  <2>3. L(t) \subseteq Conns
    OBVIOUS
  <2>4. Cardinality(L(t) \cup {c}) = Cardinality(L(t)) + 1
    <3> HIDE DEF L
    <3>1. QED
      BY <2>1, <2>3, LoadIsFinite
  <2>5. QED
    BY <2>1, <2>2, <2>4 DEF Share
<1>7. ShareInv'
  <2>1. SUFFICES ASSUME ~Lost PROVE ShareInv'
    BY <1>3 DEF ShareInv
  <2>2. PICK q \in Nat : /\ \A k \in 1 .. Len(loops) : Share(loops[k]) = Turn(k, q)
                         /\ Len(loops) < NumThreads => q = 0
    BY <2>1 DEF RobinInv, ShareInv
  <2>3. /\ \A k \in 1 .. Len(loops) : loops[k] \in Up
        /\ \A k \in 1 .. Len(loops) : k # m + 1 => loops[k] # t
    BY <1>1, <2>1 DEF RobinInv, SlotInv
  <2>4. t \in Up /\ Up \subseteq Threads
    BY <1>1, <2>3 DEF Up
  <2>5. \A u \in Threads \ Up' : Share(u)' = 0
    BY <1>3, <1>6, <2>1, <2>4 DEF RobinInv, ShareInv
  <2>6. /\ Len(loops) \in Nat /\ NumThreads \in Nat \ {0} /\ next \in 0 .. NumThreads - 1
        /\ Len(loops) <= NumThreads /\ m + 1 <= Len(loops) /\ m \in Nat
        /\ next = 0 \/ next < Len(loops)
    <3>1. Len(loops) \in Nat /\ NumThreads \in Nat \ {0} /\ next \in 0 .. NumThreads - 1
          /\ m + 1 <= Len(loops) /\ m \in Nat
      BY <1>1, ServerAssumption DEF ServerTypes
    <3>2. next = 0 \/ next < Len(loops)
      BY <2>1 DEF RobinInv, ShareInv
    <3>3. Len(loops) <= Cardinality(Up)
      BY DEF RobinInv, PushInv
    <3>4. QED
      BY <2>4, <3>1, <3>2, <3>3, ThreadsAreFinite
  <2>7. m = IF next + 1 < NumThreads THEN next + 1 ELSE 0
    BY <1>0, NextLoopIs DEF ServerTypes
  <2>8. \A k \in 1 .. Len(loops) :
           Share(loops[k])' = IF k = m + 1 THEN Turn(k, q) + 1 ELSE Turn(k, q)
    <3>1. ASSUME NEW k \in 1 .. Len(loops)
          PROVE  Share(loops[k])' = IF k = m + 1 THEN Share(loops[k]) + 1 ELSE Share(loops[k])
      <4>1. loops'[k] = loops[k] /\ loops[k] \in Threads
        BY <1>2, <2>3, <2>4
      <4>2. PICK u \in Threads : u = loops[k]
        BY <4>1
      <4>3. Share(loops[k])' = Share(u)'
        BY <4>1, <4>2 DEF Share
      <4>4. QED
        BY <1>1, <1>6, <2>3, <4>2, <4>3
    <3>2. QED
      BY <2>2, <3>1
  <2>9. PICK r \in Nat : /\ \A k \in 1 .. Len(loops) : Share(loops[k])' = Turn(k, r)'
                         /\ Len(loops) < NumThreads => r = 0
    <3>1. CASE next + 1 < NumThreads
      <4>1. m = next + 1 /\ next' = next + 1
        BY <1>1, <2>7, <3>1
      <4>2. ASSUME NEW k \in 1 .. Len(loops) PROVE Share(loops[k])' = Turn(k, q)'
        BY <2>2, <2>6, <2>8, <4>1 DEF Turn
      <4>3. QED
        BY <2>2, <4>2
    <3>2. CASE ~(next + 1 < NumThreads)
      <4>1. m = 0 /\ next' = 0 /\ next + 1 = NumThreads /\ Len(loops) = NumThreads
        BY <1>1, <2>6, <2>7, <3>2
      <4>2. ASSUME NEW k \in 1 .. Len(loops) PROVE Share(loops[k])' = Turn(k, q + 1)'
        BY <2>2, <2>6, <2>8, <4>1 DEF Turn
      <4>3. q + 1 \in Nat
        BY <2>2
      <4>4. QED
        BY <4>1, <4>2, <4>3
    <3>3. QED
      BY <3>1, <3>2
  <2>10. next' = 0 \/ next' < Len(loops)
    BY <1>1, <2>6
  <2>11. QED
    BY <1>2, <1>3, <2>1, <2>5, <2>9, <2>10 DEF ShareInv
<1>8. QED
  BY <1>4, <1>7 DEF RobinInv

(* The shares of a round are even.                                         *)
LEMMA RoundIsEven ==
    ASSUME ServerTypes', RobinInv'
    PROVE  RoundRobin'
<1>1. Cardinality(Up') \in Nat /\ Cardinality(Up') <= NumThreads
  <2>1. Up' \subseteq Threads
    BY DEF Up
  <2>2. QED
    BY <2>1, ThreadsAreFinite
<1> SUFFICES ASSUME Len(loops') = NumThreads, NEW t \in ToSet(loops'), NEW u \in ToSet(loops')
             PROVE  Share(t)' <= Share(u)' + 1
  BY DEF RoundRobin
<1>2. ~Lost'
  BY <1>1, ServerAssumption DEF Lost
<1>3. Holds(loops', t) /\ Holds(loops', u)
  BY ToSetHolds DEF ServerTypes
<1>4. PICK j \in 1 .. Len(loops'), k \in 1 .. Len(loops') : loops'[j] = t /\ loops'[k] = u
  BY <1>3 DEF Holds
<1>5. PICK q \in Nat : \A i \in 1 .. Len(loops') : Share(loops[i])' = Turn(i, q)'
  BY <1>2 DEF RobinInv, ShareInv
<1>6. \A i : Turn(i, q)' \in {q, q + 1}
  BY DEF Turn
<1>7. Share(t)' \in {q, q + 1} /\ Share(u)' \in {q, q + 1}
  BY <1>4, <1>5, <1>6 DEF Share
<1>8. QED
  BY <1>7

(* Every step keeps the invariant; when there was no loop to take, nothing *)
(* has been given to anyone.                                               *)
TurnInv == RoundRobin /\ (fault = "none" => RobinInv)

LEMMA StepKeepsTurns ==
    ASSUME ServerTypes, ServerTypes', Places, PollInv, TurnInv, [Next]_vars
    PROVE  TurnInv'
<1>1. ASSUME RobinInv' PROVE TurnInv'
  BY <1>1, RoundIsEven DEF TurnInv
<1>2. ASSUME UNCHANGED <<loops, loopOf>> PROVE RoundRobin'
  BY <1>2 DEF TurnInv, RoundRobin, Share
<1>3. CASE fault # "none"
  <2>1. UNCHANGED vars
    BY <1>3, NextNeedsNoFault
  <2>2. QED
    BY <1>2, <1>3, <2>1 DEF vars, startVars, acceptVars, TurnInv
<1>4. CASE fault = "none"
  <2>1. RobinInv /\ QueueInv
    BY <1>4 DEF TurnInv, PollInv
  <2>2. CASE Start \/ Insert \/ SetCallbacks \/ QueueEstablished \/ Destroy \/ UNCHANGED vars
    BY <1>1, <2>1, <2>2, QuietStepsRobin
  <2>3. CASE Accept
    <3>1. CASE fault' = "none"
      BY <1>1, <2>1, <2>3, <3>1, AcceptKeepsRobin
    <3>2. CASE fault' # "none"
      <4>1. UNCHANGED <<loops, loopOf>>
        BY <1>4, <2>3, <3>2, AcceptGives DEF Accept, startVars
      <4>2. QED
        BY <1>2, <3>2, <4>1 DEF TurnInv
    <3>3. QED
      BY <3>1, <3>2
  <2>4. ASSUME NEW t \in Threads, PushEnd(t) PROVE TurnInv'
    BY <1>1, <2>1, <2>4, PushKeepsRobin
  <2>5. ASSUME NEW t \in Threads,
               \/ PushBegin(t) \/ PassDone(t) \/ DoPendingFunctors(t)
               \/ \E evs \in SUBSET Events : Poll(t, evs)
               \/ \E c \in Conns : HandleMessage(t, c) \/ HandleClose(t, c)
               \/ \E found \in BOOLEAN : RemoveConnection(t, found)
               \/ \E c \in Conns : RunEnableRead(t, c) \/ RunEstablish(t, c)
        PROVE  TurnInv'
    BY <1>1, <2>1, <2>5, QuietStepsRobin
  <2>6. QED
    BY <2>2, <2>3, <2>4, <2>5 DEF Next, MainNext, LoopNext
<1>5. QED
  BY <1>3, <1>4

LEMMA InitIsEven ==
    ASSUME Init
    PROVE  TurnInv
<1>1. Len(<<>>) = 0 /\ NumThreads \in Nat \ {0}
  BY ServerAssumption
<1>2. Up = {}
  BY DEF Init, Up
<1>3. Cardinality(Up) = 0
  BY <1>2, FS_EmptySet
<1>4. \A t \in Threads : Share(t) = 0
  <2>1. \A t \in Threads : {c \in Conns : loopOf[c] = t} = {}
    BY DEF Init, Threads, None
  <2>2. QED
    BY <2>1, FS_EmptySet DEF Share
<1>5. RoundRobin
  BY <1>1 DEF Init, RoundRobin
<1>6. PushInv /\ SlotInv
  BY <1>1, <1>3 DEF Init, PushInv, SlotInv
<1>7. ShareInv
  <2>1. \A k \in 1 .. Len(loops) : Share(loops[k]) = Turn(k, 0)
    BY <1>1 DEF Init
  <2>2. QED
    BY <1>4, <2>1 DEF Init, ShareInv
<1>8. QED
  BY <1>5, <1>6, <1>7 DEF TurnInv, RobinInv

(* RoundRobin: in whatever order the threads came up, once all loops are in*)
(* loops_, none has been given two connections more than another one.      *)
THEOREM TurnsAreEven == Spec => []RoundRobin
<1>1. Init => TurnInv
  BY InitIsEven
<1>2. ServerTypes /\ Places /\ PollInv /\ ServerTypes' /\ TurnInv /\ [Next]_vars => TurnInv'
  BY StepKeepsTurns
<1>3. TurnInv => RoundRobin
  BY DEF TurnInv
<1>4. QED
  BY <1>1, <1>2, <1>3, ServerKeepsInv, PTL DEF Spec
---------------------------------------------------------------------------
(* The rest of TypeOK. That push_back() reads no size beyond the number of *)
(* threads is because loops_ has no more places than there are threads up  *)
(* (PushInv).                                                              *)
RestTypes ==
    /\ main \in {"start", "poll", "insert", "callbacks", "establish", "gone"}
    /\ seenSize \in [Threads -> 0 .. NumThreads]
    /\ raced \subseteq Threads \cup {None} /\ overlap \in BOOLEAN
    /\ callbacks \subseteq Conns
    /\ active \in [Threads -> SUBSET Events]
    /\ busy \in BOOLEAN
    /\ fault \in Faults

(* Who comes into the map, or leaves it, is one of the threads.            *)
LEMMA MapTypes ==
    ASSUME RestTypes, NEW who \in Threads \cup {None}, EnterMap(who) \/ LeaveMap(who)
    PROVE  raced' \subseteq Threads \cup {None} /\ overlap' \in BOOLEAN
<1>1. InMap \subseteq Threads \cup {None}
  BY DEF InMap
<1>2. raced' \subseteq Threads \cup {None}
  BY <1>1 DEF RestTypes, EnterMap, LeaveMap
<1>3. overlap \in BOOLEAN
  BY DEF RestTypes
<1>4. overlap' \in BOOLEAN
  BY <1>3 DEF EnterMap, LeaveMap
<1>5. QED
  BY <1>2, <1>4

(* Every step keeps them.                                                  *)
LEMMA StepKeepsRest ==
    ASSUME ServerTypes, TurnInv, RestTypes, [Next]_vars
    PROVE  RestTypes'
<1>1. CASE UNCHANGED vars
  BY <1>1 DEF RestTypes, vars, startVars, acceptVars, mapVars, eventVars
<1>2. CASE Start \/ SetCallbacks \/ QueueEstablished
  <2>1. UNCHANGED <<seenSize, raced, overlap, active, busy, fault>>
    BY <1>2 DEF Start, SetCallbacks, QueueEstablished, startVars, mapVars, eventVars
  <2>2. main' \in {"poll", "establish"}
    BY <1>2 DEF Start, SetCallbacks, QueueEstablished
  <2>3. callbacks' \subseteq Conns
    <3>1. SetCallbacks => callbacks' = callbacks \cup {Current} /\ Current \in Conns
      BY DEF SetCallbacks, MainAt, ServerTypes, Making
    <3>2. QED
      BY <1>2, <3>1 DEF Start, QueueEstablished, acceptVars, RestTypes
  <2>4. QED
    BY <2>1, <2>2, <2>3 DEF RestTypes
<1>3. CASE Accept
  <2>1. UNCHANGED <<seenSize, callbacks, active, busy>>
    BY <1>3 DEF Accept, startVars, eventVars
  <2>2. \/ fault' = "noLoop" /\ UNCHANGED <<main, raced, overlap>>
        \/ fault' = fault /\ main' = "insert" /\ EnterMap(None)
    BY <1>3, Zenon DEF Accept
  <2>3. raced' \subseteq Threads \cup {None} /\ overlap' \in BOOLEAN
    BY <2>2, MapTypes DEF RestTypes
  <2>4. QED
    BY <2>1, <2>2, <2>3 DEF RestTypes, Faults
<1>4. CASE Insert
  <2>1. UNCHANGED <<seenSize, callbacks, active, busy, fault>> /\ main' = "callbacks"
        /\ LeaveMap(None)
    BY <1>4 DEF Insert, startVars, acceptVars, eventVars
  <2>2. raced' \subseteq Threads \cup {None} /\ overlap' \in BOOLEAN
    BY <2>1, MapTypes
  <2>3. QED
    BY <2>1, <2>2 DEF RestTypes
<1>5. CASE Destroy
  <2>1. /\ UNCHANGED <<seenSize, callbacks, active, raced>> /\ main' = "gone"
        /\ busy' = LeftToDo /\ overlap' = (overlap \/ InMap # {})
        /\ fault' = Released(connections)
    BY <1>5 DEF Destroy, startVars, acceptVars, eventVars
  <2>2. fault' \in Faults
    BY <2>1 DEF Released, Faults
  <2>3. LeftToDo \in BOOLEAN
    BY Zenon DEF LeftToDo
  <2>4. busy' \in BOOLEAN
    BY <2>1, <2>3
  <2>5. overlap \in BOOLEAN
    BY DEF RestTypes
  <2>6. overlap' \in BOOLEAN
    BY <2>1, <2>5
  <2>7. QED
    BY <2>1, <2>2, <2>4, <2>6 DEF RestTypes
<1>6. ASSUME NEW t \in Threads, PushBegin(t) \/ PushEnd(t)
      PROVE  RestTypes'
  <2>1. /\ UNCHANGED <<main, callbacks, raced, overlap, active, busy>>
        /\ fault' = IntoServer
        /\ seenSize' = seenSize \/ seenSize' = [seenSize EXCEPT ![t] = Len(loops)]
    BY <1>6 DEF PushBegin, PushEnd, acceptVars, mapVars, eventVars
  <2>2. Len(loops) \in 0 .. NumThreads
    <3>1. fault = "none"
      BY <1>6 DEF PushBegin, PushEnd, At
    <3>2. Len(loops) <= Cardinality(Up) /\ Len(loops) \in Nat
      BY <3>1 DEF TurnInv, RobinInv, PushInv, ServerTypes
    <3>3. Cardinality(Up) \in Nat /\ Cardinality(Up) <= NumThreads /\ NumThreads \in Nat
      BY ThreadsAreFinite, ServerAssumption DEF Up
    <3>4. QED
      BY <3>2, <3>3
  <2>3. seenSize' \in [Threads -> 0 .. NumThreads]
    BY <2>1, <2>2 DEF RestTypes
  <2>4. fault' \in Faults
    BY <2>1 DEF IntoServer, Faults
  <2>5. QED
    BY <2>1, <2>3, <2>4 DEF RestTypes
<1>7. ASSUME NEW t \in Threads,
             \/ \E evs \in SUBSET Events : Poll(t, evs)
             \/ \E c \in Conns : HandleMessage(t, c) \/ HandleClose(t, c)
      PROVE  RestTypes'
  <2>1. UNCHANGED <<main, seenSize, callbacks, busy>>
    BY <1>7 DEF Poll, HandleMessage, HandleClose, startVars, acceptVars
  <2>2. \E evs \in SUBSET Events : active' = [active EXCEPT ![t] = evs]
    <3>1. active[t] \in SUBSET Events
      BY DEF RestTypes
    <3>2. ASSUME NEW c \in Conns, HandleMessage(t, c) \/ HandleClose(t, c)
          PROVE  \E e : active' = [active EXCEPT ![t] = active[t] \ {e}]
      BY <3>2, Zenon DEF HandleMessage, HandleClose
    <3>3. ASSUME NEW evs \in SUBSET Events, Poll(t, evs)
          PROVE  active' = [active EXCEPT ![t] = evs]
      BY <3>3 DEF Poll
    <3>4. QED
      BY <1>7, <3>1, <3>2, <3>3
  <2>3. \/ UNCHANGED <<raced, overlap>>
        \/ EnterMap(t)
    <3>1. ASSUME NEW c \in Conns, HandleClose(t, c)
          PROVE  UNCHANGED <<raced, overlap>> \/ EnterMap(t)
      BY <3>1, Zenon DEF HandleClose
    <3>2. QED
      BY <1>7, <3>1 DEF Poll, HandleMessage, mapVars
  <2>4. raced' \subseteq Threads \cup {None} /\ overlap' \in BOOLEAN
    BY <2>3, MapTypes DEF RestTypes
  <2>5. fault' \in {fault, "none", "noCallback", "earlyEof"}
    <3>1. ASSUME NEW c \in Conns, HandleClose(t, c)
          PROVE  fault' \in {fault, "earlyEof"}
      BY <3>1, Zenon DEF HandleClose
    <3>2. QED
      BY <1>7, <3>1 DEF Poll, HandleMessage
  <2>6. active' \in [Threads -> SUBSET Events]
    BY <2>2 DEF RestTypes
  <2>7. QED
    BY <2>1, <2>4, <2>5, <2>6 DEF RestTypes, Faults
<1>8. ASSUME NEW t \in Threads, NEW found \in BOOLEAN, RemoveConnection(t, found)
      PROVE  RestTypes'
  <2>1. UNCHANGED <<main, seenSize, callbacks, active, busy>> /\ LeaveMap(t)
    BY <1>8, Zenon DEF RemoveConnection, startVars, acceptVars
  <2>2. fault' \in {"serverGone", "eraseNone", "none", "freedChannel"}
    <3>1. fault' \in (IF main = "gone" THEN {"serverGone"}
                  ELSE IF ~found THEN {"eraseNone"}
                  ELSE IF Alive(closing[t])' THEN {"none"} ELSE {"none", "freedChannel"})
      BY <1>8, Zenon DEF RemoveConnection
    <3>2. QED
      BY <3>1
  <2>3. raced' \subseteq Threads \cup {None} /\ overlap' \in BOOLEAN
    BY <2>1, MapTypes
  <2>4. QED
    BY <2>1, <2>2, <2>3 DEF RestTypes, Faults
<1>9. ASSUME NEW t \in Threads,
             \/ DoPendingFunctors(t) \/ PassDone(t)
             \/ \E c \in Conns : RunEnableRead(t, c) \/ RunEstablish(t, c)
      PROVE  RestTypes'
  <2>1. UNCHANGED <<main, seenSize, callbacks, raced, overlap, active, busy>>
    BY <1>9 DEF DoPendingFunctors, PassDone, RunEnableRead, RunEstablish, startVars, acceptVars,
       mapVars, eventVars
  <2>2. fault' \in {fault, "none", "destroyedConnected"}
    BY <1>9 DEF DoPendingFunctors, PassDone, RunEnableRead, RunEstablish, Released
  <2>3. QED
    BY <2>1, <2>2 DEF RestTypes, Faults
<1>10. QED
  BY <1>1, <1>2, <1>3, <1>4, <1>5, <1>6, <1>7, <1>8, <1>9 DEF Next, MainNext, LoopNext

(* TypeOK, with the bounds that TLC checks: no thread reads a size of      *)
(* loops_ larger than the number of threads, whatever the races did to it. *)
THEOREM ServerTypeCorrect == Spec => []TypeOK
<1>1. Init => RestTypes
  <2>1. 0 \in 0 .. NumThreads /\ {} \in SUBSET Events
    BY ServerAssumption
  <2>2. Init => busy \in BOOLEAN /\ overlap \in BOOLEAN /\ fault \in Faults
    BY DEF Init, Faults
  <2>3. QED
    BY <2>1, <2>2 DEF Init, RestTypes
<1>2. ServerTypes /\ TurnInv /\ RestTypes /\ [Next]_vars => RestTypes'
  BY StepKeepsRest
<1>3. ServerTypes /\ RestTypes => TypeOK
  BY DEF ServerTypes, RestTypes, TypeOK
<1>4. ServerTypes /\ Places /\ PollInv /\ ServerTypes' /\ TurnInv /\ [Next]_vars => TurnInv'
  BY StepKeepsTurns
<1>5. QED
  BY <1>1, <1>2, <1>3, <1>4, InitIsEven, ServerKeepsInv, PTL DEF Spec
=============================================================================
