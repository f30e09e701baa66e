------------------------ MODULE TcpConnectionProofs ------------------------
(***************************************************************************)
(* Proofs about TcpConnection, for any senders, messages and owners: type  *)
(* correctness; POLLOUT is asked for while there is output, from which the *)
(* FIN comes after all output; a connection is closed once; and it         *)
(* implements the stream of whole messages.                                *)
(***************************************************************************)
EXTENDS TcpConnection, QueueLemmas

(* A message is a sequence of units, which write(2) may cut anywhere.      *)
LEMMA MessageIsUnits ==
    ASSUME NEW m \in Messages
    PROVE  /\ UnitsOf(m) \in Seq(Units)
           /\ Len(UnitsOf(m)) = MsgLen
           /\ \A i \in 1 .. MsgLen : UnitsOf(m)[i] = <<m, i>>
<1>1. MsgLen \in Nat
  BY ConnectionAssumption
<1>2. UnitsOf(m) \in [1 .. MsgLen -> Units]
  BY DEF UnitsOf, Units
<1>3. QED
  BY <1>1, <1>2 DEF UnitsOf

(* The two parts of a sequence that is cut.                                *)
LEMMA CutInTwo ==
    ASSUME NEW S, NEW s \in Seq(S), NEW n \in 0 .. Len(s)
    PROVE  /\ SubSeq(s, 1, n) \in Seq(S)
           /\ SubSeq(s, n + 1, Len(s)) \in Seq(S)
           /\ Len(SubSeq(s, 1, n)) = n
           /\ Len(SubSeq(s, n + 1, Len(s))) = Len(s) - n
           /\ SubSeq(s, 1, n) \o SubSeq(s, n + 1, Len(s)) = s
<1>1. Len(s) \in Nat
  BY LenProperties
<1>2. /\ SubSeq(s, 1, n) \in Seq(S)
      /\ Len(SubSeq(s, 1, n)) = IF 1 <= n THEN n - 1 + 1 ELSE 0
  BY <1>1, SubSeqProperties
<1>3. /\ SubSeq(s, n + 1, Len(s)) \in Seq(S)
      /\ Len(SubSeq(s, n + 1, Len(s))) = IF n + 1 <= Len(s) THEN Len(s) - (n + 1) + 1 ELSE 0
  BY <1>1, SubSeqProperties
<1>4. SubSeq(s, 1, n) \o SubSeq(s, n + 1, Len(s)) = s
  <2>1. 1 \in 1 .. Len(s) + 1 /\ n \in 1 - 1 .. Len(s) /\ Len(s) \in n .. Len(s)
    BY <1>1
  <2>2. SubSeq(s, 1, n) \o SubSeq(s, n + 1, Len(s)) = SubSeq(s, 1, Len(s))
    BY <2>1, ConcatAdjacentSubSeq, Zenon
  <2>3. QED
    BY <2>2, SubSeqFull
<1>5. Len(SubSeq(s, 1, n)) = n /\ Len(SubSeq(s, n + 1, Len(s))) = Len(s) - n
  BY <1>1, <1>2, <1>3
<1>6. QED
  BY <1>2, <1>3, <1>4, <1>5, Zenon

(* What sendInLoop() leaves for later, and what it writes at once.         *)
LEMMA RemainderIsUnits ==
    ASSUME NEW m \in Messages, NEW n \in 1 .. MsgLen
    PROVE  /\ SubSeq(UnitsOf(m), 1, n) \in Seq(Units)
           /\ Remainder(m, n) \in Seq(Units)
           /\ Remainder(m, n) = <<>> <=> n = MsgLen
           /\ SubSeq(UnitsOf(m), 1, n) \o Remainder(m, n) = UnitsOf(m)
<1>1. MsgLen \in Nat /\ n \in 0 .. Len(UnitsOf(m))
  BY MessageIsUnits, ConnectionAssumption
<1>2. /\ SubSeq(UnitsOf(m), 1, n) \in Seq(Units)
      /\ Remainder(m, n) \in Seq(Units)
      /\ Len(Remainder(m, n)) = MsgLen - n
      /\ SubSeq(UnitsOf(m), 1, n) \o Remainder(m, n) = UnitsOf(m)
  BY <1>1, MessageIsUnits, CutInTwo DEF Remainder
<1>3. QED
  BY <1>1, <1>2, EmptySeq

(* sendInLoop() keeps the types.                                           *)
LEMMA SendKeepsTypes ==
    ASSUME TypeOK, NEW m \in Messages, NEW n \in WriteResults, SendInLoop(m, n)
    PROVE  /\ output' \in Seq(Units) /\ wire' \in Seq(Units)
           /\ dropped' \subseteq Messages
           /\ finSent' \in BOOLEAN /\ writing' \in BOOLEAN
           /\ pending' \in Seq(Functors)
           /\ fault' \in Faults
<1> USE DEF TypeOK, Faults, SendInLoop, dataVars
<1>1. CASE ~MayWriteAtOnce \/ finSent \/ n = -1
  BY <1>1
<1>2. CASE MayWriteAtOnce /\ ~finSent /\ n \in 1 .. MsgLen
  <2>1. SubSeq(UnitsOf(m), 1, n) \in Seq(Units) /\ Remainder(m, n) \in Seq(Units)
    BY <1>2, RemainderIsUnits
  <2>2. <<"complete">> \in Functors
    BY DEF Functors
  <2>3. n # -1
    BY <1>2, ConnectionAssumption
  <2>4. /\ wire' = wire \o SubSeq(UnitsOf(m), 1, n)
        /\ output' = output \o Remainder(m, n)
        /\ writing' = (n < MsgLen)
        /\ pending' \in {pending, Append(pending, <<"complete">>)}
        /\ fault' \in {"none", "notRegistered"}
        /\ finSent' = finSent /\ dropped' = dropped
    BY <1>2, <2>3
  <2>5. wire' \in Seq(Units) /\ output' \in Seq(Units)
    BY <2>1, <2>4, ConcatProperties
  <2>6. pending' \in Seq(Functors)
    <3>1. pending \in Seq(Functors)
      OBVIOUS
    <3>2. Append(pending, <<"complete">>) \in Seq(Functors)
      BY <2>2, <3>1, AppendProperties
    <3>3. QED
      BY ONLY <2>4, <3>1, <3>2
  <2>7. writing' \in BOOLEAN
    <3>1. n \in Nat /\ MsgLen \in Nat
      BY <1>2, ConnectionAssumption
    <3>2. CASE n < MsgLen
      BY <2>4, <3>1, <3>2
    <3>3. CASE ~(n < MsgLen)
      BY <2>4, <3>1, <3>3
    <3>4. QED
      BY <3>2, <3>3
  <2>8. QED
    BY <2>4, <2>5, <2>6, <2>7
<1>3. QED
  BY <1>1, <1>2 DEF WriteResults

---------------------------------------------------------------------------
(* Type correctness.                                                       *)

(* A step that leaves these alone only has the rest to answer for.         *)
LEMMA FunctorKinds ==
    /\ <<"shutdown">> \in Functors
    /\ <<"destroy">> \in Functors
    /\ <<"complete">> \in Functors
    /\ \A m \in Messages : <<"send", m>> \in Functors
BY DEF Functors

(* handleWrite(), when write(2) has taken something.                       *)
LEMMA WrittenPart ==
    ASSUME TypeOK, NEW n \in 1 .. Len(output), HandleWrite(n)
    PROVE  /\ wire' = wire \o SubSeq(output, 1, n)
           /\ output' = SubSeq(output, n + 1, Len(output))
           /\ writing' \in BOOLEAN
           /\ writing' <=> n < Len(output)
           /\ n < Len(output) => UNCHANGED <<pending, finSent>>
<1>0. Len(output) \in Nat /\ n \in Nat
  BY LenProperties DEF TypeOK
<1>1. n # -1
  BY <1>0
<1>2. writing' = (n < Len(output))
  BY <1>1, Zenon DEF HandleWrite, StillWriting
<1>3. writing' \in BOOLEAN /\ (writing' <=> n < Len(output))
  <2>1. CASE n < Len(output)
    BY <1>2, <2>1, Zenon
  <2>2. CASE ~(n < Len(output))
    <3>1. (n < Len(output)) = FALSE
      BY <1>0, <2>2
    <3>2. writing' = FALSE
      BY <1>2, <3>1, Zenon
    <3>3. QED
      BY <2>2, <3>2
  <2>3. QED
    BY <2>1, <2>2, Zenon
<1>4. QED
  BY <1>1, <1>3, Zenon DEF HandleWrite

(* The loop's thread outside the functors and user code.                   *)
LEMMA HandlersKeepTypes ==
    ASSUME TypeOK,
           \/ ConnectEstablished
           \/ \E in \in {"none", "data", "eof"}, out \in BOOLEAN : Poll(in, out)
           \/ HandleRead \/ HandleClose
           \/ \E n \in -1 .. Len(output) : HandleWrite(n)
           \/ DoPendingFunctors
    PROVE  TypeOK'
<1> USE DEF TypeOK, Faults, UserCode, At, loopVars, dataVars, connVars, threadVars
<1>1. CASE ConnectEstablished
  BY <1>1 DEF ConnectEstablished
<1>2. ASSUME NEW in \in {"none", "data", "eof"}, NEW out \in BOOLEAN, Poll(in, out)
      PROVE  TypeOK'
  BY <1>2 DEF Poll
<1>3. CASE HandleRead
  BY <1>3 DEF HandleRead
<1>4. CASE HandleClose
  <2>1. pending' \in Seq(Functors)
    <3>1. pending \in Seq(Functors) /\ Append(pending, <<"destroy">>) \in Seq(Functors)
      BY FunctorKinds, AppendProperties
    <3>2. pending' \in {pending, Append(pending, <<"destroy">>)}
      BY <1>4 DEF HandleClose, Fail, Destroy
    <3>3. QED
      BY ONLY <3>1, <3>2
  <2>2. QED
    BY <1>4, <2>1 DEF HandleClose, Fail, Destroy, Unregister
<1>5. ASSUME NEW n \in -1 .. Len(output), HandleWrite(n)
      PROVE  TypeOK'
  <2>1. CASE n = -1
    BY <1>5, <2>1 DEF HandleWrite, NoEvents
  <2>2. CASE n \in 1 .. Len(output)
    <3>1. SubSeq(output, 1, n) \in Seq(Units) /\ SubSeq(output, n + 1, Len(output)) \in Seq(Units)
      BY <2>2, CutInTwo
    <3>2. wire' \in Seq(Units) /\ output' \in Seq(Units)
      <4>1. wire' = wire \o SubSeq(output, 1, n) /\ output' = SubSeq(output, n + 1, Len(output))
        BY <1>5, <2>2, WrittenPart
      <4>2. QED
        BY <3>1, <4>1, ConcatProperties
    <3>3. pending' \in Seq(Functors)
      <4>1. pending \in Seq(Functors) /\ Append(pending, <<"complete">>) \in Seq(Functors)
        BY FunctorKinds, AppendProperties
      <4>2. pending' \in {pending, Append(pending, <<"complete">>)}
        BY <1>5 DEF HandleWrite
      <4>3. QED
        BY ONLY <4>1, <4>2
    <3>4. writing' \in BOOLEAN
      BY <1>5, <2>2, WrittenPart
    <3>5. finSent' \in BOOLEAN /\ fault' \in Faults
      BY <1>5 DEF HandleWrite
    <3>6. QED
      BY <1>5, <3>2, <3>3, <3>4, <3>5 DEF HandleWrite, NoEvents
  <2>3. QED
    BY <1>5, <2>1, <2>2 DEF HandleWrite
<1>6. CASE DoPendingFunctors
  BY <1>6 DEF DoPendingFunctors, NoEvents
<1>7. QED
  BY <1>1, <1>2, <1>3, <1>4, <1>5, <1>6

(* A functor is taken from the front of the batch.                         *)
LEMMA RunningKeepsTypes ==
    ASSUME TypeOK, NEW f, Running(f)
    PROVE  batch' \in Seq(Functors) /\ f \in Functors /\ fault = "none"
BY HeadTailProperties DEF TypeOK, Running, At

(* send() in user code on the loop's thread counts its message.            *)
LEMMA LoopMessage ==
    ASSUME TypeOK, NEW n, LoopSend(n)
    PROVE  /\ sent' \in [Senders -> 0 .. MaxSends]
           /\ <<"loop", sent'["loop"]>> \in Messages
<1>1. "loop" \in Senders /\ MaxSends \in Nat
  BY ConnectionAssumption DEF Senders
<1>2. sent["loop"] + 1 \in 1 .. MaxSends
  BY <1>1 DEF LoopSend, TypeOK
<1>3. QED
  BY <1>1, <1>2 DEF LoopSend, TypeOK, Messages

(* The functors and user code.                                             *)
LEMMA FunctorsKeepTypes ==
    ASSUME TypeOK,
           \/ \E m \in Messages, n \in WriteResults : RunSend(m, n)
           \/ RunShutdown \/ RunDestroy \/ RunWriteComplete \/ PassDone
           \/ CallbackReturn
           \/ \E n \in WriteResults : LoopSend(n)
           \/ LoopShutdown
    PROVE  TypeOK'
<1>1. ASSUME NEW m \in Messages, NEW n \in WriteResults, RunSend(m, n)
      PROVE  TypeOK'
  <2>1. batch' \in Seq(Functors)
    BY <1>1, RunningKeepsTypes DEF RunSend
  <2>2. SendInLoop(m, n)
    BY <1>1 DEF RunSend
  <2>3. QED
    BY <1>1, <2>1, <2>2, SendKeepsTypes DEF RunSend, TypeOK, threadVars
<1>2. CASE RunShutdown
  <2>1. batch' \in Seq(Functors)
    BY <1>2, RunningKeepsTypes DEF RunShutdown
  <2>2. QED
    BY <1>2, <2>1 DEF RunShutdown, ShutdownInLoop, TypeOK, threadVars, connVars
<1>3. CASE RunDestroy
  <2>1. batch' \in Seq(Functors)
    BY <1>3, RunningKeepsTypes DEF RunDestroy
  <2>2. CASE MayDestroy
    BY <1>3, <2>1, <2>2 DEF RunDestroy, Destroy, Unregister, TypeOK, threadVars, dataVars
  <2>3. CASE ~MayDestroy
    BY <1>3, <2>1, <2>3 DEF RunDestroy, TypeOK, Faults, threadVars, dataVars
  <2>4. QED
    BY <2>2, <2>3
<1>4. CASE RunWriteComplete
  <2>1. batch' \in Seq(Functors)
    BY <1>4, RunningKeepsTypes DEF RunWriteComplete
  <2>2. QED
    BY <1>4, <2>1 DEF RunWriteComplete, TypeOK, UserCode, threadVars, dataVars, connVars
<1>5. CASE PassDone
  BY <1>5 DEF PassDone, TypeOK, threadVars, dataVars, connVars
<1>6. CASE CallbackReturn
  BY <1>6 DEF CallbackReturn, TypeOK, threadVars, dataVars, connVars
<1>7. ASSUME NEW n \in WriteResults, LoopSend(n)
      PROVE  TypeOK'
  <2>1. sent' \in [Senders -> 0 .. MaxSends] /\ <<"loop", sent'["loop"]>> \in Messages
    BY <1>7, LoopMessage
  <2>2. SendInLoop(<<"loop", sent'["loop"]>>, n)
    BY <1>7 DEF LoopSend
  <2>3. QED
    BY <1>7, <2>1, <2>2, SendKeepsTypes DEF LoopSend, TypeOK, loopVars
<1>8. CASE LoopShutdown
  BY <1>8 DEF LoopShutdown, ShutdownInLoop, TypeOK, loopVars, threadVars
<1>9. QED
  BY <1>1, <1>2, <1>3, <1>4, <1>5, <1>6, <1>7, <1>8

(* A call of send() has counted its message. Without this TypeOK is not    *)
(* inductive: what QueueSend() queues would be no message.                 *)
SendCounted == \A t \in Threads : call[t] = "send" => sent[t] \in 1 .. MaxSends

(* The calls of other threads.                                             *)
LEMMA CallsKeepTypes ==
    ASSUME TypeOK, SendCounted, ThreadNext
    PROVE  TypeOK' /\ SendCounted'
<1>1. PICK t \in Threads :
          \/ CallSend(t) \/ QueueSend(t)
          \/ CallShutdown(t) \/ SetDisconnecting(t) \/ QueueShutdown(t)
  BY DEF ThreadNext
<1> USE DEF TypeOK, SendCounted, InCall, loopVars, dataVars, connVars
<1>2. Threads \subseteq Senders /\ MaxSends \in Nat /\ sent[t] \in 0 .. MaxSends
  BY ConnectionAssumption DEF Senders
<1>3. CASE CallSend(t)
  BY <1>2, <1>3 DEF CallSend
<1>4. CASE QueueSend(t)
  <2>1. <<"send", <<t, sent[t]>>>> \in Functors
    BY <1>2, <1>4, FunctorKinds DEF QueueSend, Messages
  <2>2. pending' \in Seq(Functors)
    BY <1>4, <2>1, AppendProperties DEF QueueSend, Enqueue
  <2>3. QED
    BY <1>4, <2>2 DEF QueueSend
<1>5. CASE CallShutdown(t)
  BY <1>5 DEF CallShutdown
<1>6. CASE SetDisconnecting(t)
  BY <1>6 DEF SetDisconnecting, threadVars
<1>7. CASE QueueShutdown(t)
  <2>1. pending' \in Seq(Functors)
    BY <1>7, FunctorKinds, AppendProperties DEF QueueShutdown, Enqueue
  <2>2. QED
    BY <1>7, <2>1 DEF QueueShutdown
<1>8. QED
  BY <1>1, <1>3, <1>4, <1>5, <1>6, <1>7

(* The loop's thread makes no call of another thread.                      *)
LEMMA LoopKeepsCounts ==
    ASSUME TypeOK, SendCounted, LoopNext
    PROVE  SendCounted'
<1> USE DEF threadVars
<1>1. UNCHANGED threadVars \/ \E n \in WriteResults : LoopSend(n)
  BY DEF LoopNext, ConnectEstablished, Poll, HandleRead, HandleClose, Fail, HandleWrite,
         DoPendingFunctors, RunSend, RunShutdown, RunDestroy, RunWriteComplete, PassDone,
         CallbackReturn, LoopShutdown
<1>2. CASE UNCHANGED threadVars
  BY <1>2 DEF SendCounted
<1>3. ASSUME NEW n \in WriteResults, LoopSend(n)
      PROVE  SendCounted'
  <2>1. \A t \in Threads : call'[t] = call[t] /\ sent'[t] = sent[t]
    BY <1>3, ConnectionAssumption DEF LoopSend, TypeOK, Senders
  <2>2. QED
    BY <2>1 DEF SendCounted
<1>4. QED
  BY <1>1, <1>2, <1>3

(* The inductive type invariant.                                           *)
LEMMA TypeInvHolds == Spec => [](TypeOK /\ SendCounted)
<1>1. Init => TypeOK /\ SendCounted
  <2>1. SUFFICES ASSUME Init PROVE TypeOK /\ SendCounted
    OBVIOUS
  <2>2. <<>> \in Seq(Functors) /\ <<>> \in Seq(Units)
    BY EmptySeq
  <2>3. MaxSends \in Nat
    BY ConnectionAssumption
  <2>4. sent \in [Senders -> 0 .. MaxSends]
    BY <2>1, <2>3 DEF Init
  <2>5. call \in [Threads -> {"none", "send", "shutdown", "queueShutdown"}] /\ SendCounted
    BY <2>1 DEF Init, SendCounted
  <2>6. revents \in [in : {"none", "data", "eof"}, out : BOOLEAN]
    BY <2>1 DEF Init, NoEvents
  <2>7. QED
    BY <2>1, <2>2, <2>4, <2>5, <2>6 DEF Init, TypeOK, Faults
<1>2. TypeOK /\ SendCounted /\ [Next]_vars => (TypeOK /\ SendCounted)'
  <2>1. SUFFICES ASSUME TypeOK, SendCounted, [Next]_vars PROVE TypeOK' /\ SendCounted'
    OBVIOUS
  <2>2. CASE UNCHANGED vars
    BY <2>1, <2>2 DEF vars, loopVars, dataVars, connVars, threadVars, TypeOK, SendCounted
  <2>3. CASE LoopNext
    BY <2>1, <2>3, HandlersKeepTypes, FunctorsKeepTypes, LoopKeepsCounts DEF LoopNext
  <2>4. CASE ThreadNext
    BY <2>1, <2>4, CallsKeepTypes
  <2>5. QED
    BY <2>1, <2>2, <2>3, <2>4 DEF Next
<1>3. QED
  BY <1>1, <1>2, PTL DEF Spec

(* Every variable stays in its type; above all, pending and batch only ever*)
(* hold functors that the loop can run.                                    *)
THEOREM TypeCorrect == Spec => []TypeOK
BY TypeInvHolds, PTL

---------------------------------------------------------------------------
(* POLLOUT and the FIN.                                                    *)

(* Both follow the output buffer. They hold together: shutdownInLoop()     *)
(* goes by writing, so that the FIN is right because POLLOUT is; and a     *)
(* message that finds the FIN sent never gets into the buffer.             *)
OutputInv == WritingWhileOutput /\ FinAfterOutput

(* sendInLoop() keeps POLLOUT and the FIN right.                           *)
LEMMA SendKeepsOutputInv ==
    ASSUME TypeOK, OutputInv, fault = "none",
           NEW m \in Messages, NEW n \in WriteResults, SendInLoop(m, n)
    PROVE  OutputInv'
<1> USE DEF OutputInv, WritingWhileOutput, FinAfterOutput
<1>1. CASE ~MayWriteAtOnce \/ finSent \/ n = -1
  <2>1. UNCHANGED <<output, writing, finSent>>
    BY <1>1, ConnectionAssumption DEF SendInLoop, dataVars
  <2>2. fault' = "none" => fault = "none"
    BY DEF TypeOK
  <2>3. QED
    BY <2>1
<1>2. CASE MayWriteAtOnce /\ ~finSent /\ n \in 1 .. MsgLen
  <2>1. n \in Nat /\ MsgLen \in Nat /\ n # -1
    BY <1>2, ConnectionAssumption
  <2>2. /\ output' = output \o Remainder(m, n)
        /\ writing' = (n < MsgLen)
        /\ finSent' = FALSE
        /\ output = <<>>
    BY <1>2, <2>1 DEF SendInLoop, MayWriteAtOnce, TypeOK
  <2>3. Remainder(m, n) \in Seq(Units) /\ (Remainder(m, n) = <<>> <=> n = MsgLen)
    BY <1>2, RemainderIsUnits
  <2>4. output' = Remainder(m, n)
    BY <2>2, <2>3, ConcatEmptySeq
  <2>5. n < MsgLen <=> n # MsgLen
    BY <1>2, <2>1
  <2>6. QED
    BY <2>2, <2>3, <2>4, <2>5
<1>3. QED
  BY <1>1, <1>2 DEF WriteResults

(* Every step keeps POLLOUT and the FIN right.                             *)
LEMMA StepKeepsOutputInv ==
    ASSUME TypeOK, OutputInv, Next
    PROVE  OutputInv'
<1> USE DEF OutputInv, WritingWhileOutput, FinAfterOutput
<1>1. fault = "none"
  BY DEF Next, LoopNext, ThreadNext, At, InCall, InUserCode, ConnectEstablished, Poll, HandleRead,
         HandleClose, HandleWrite, DoPendingFunctors, Running, RunSend, RunShutdown, RunDestroy,
         RunWriteComplete, PassDone, CallbackReturn, LoopSend, LoopShutdown, CallSend, QueueSend,
         CallShutdown, SetDisconnecting, QueueShutdown
<1>2. CASE UNCHANGED <<output, writing, finSent>>
  BY <1>1, <1>2
<1>3. ASSUME NEW n \in -1 .. Len(output), HandleWrite(n)
      PROVE  OutputInv'
  <2>1. CASE n = -1
    BY <1>1, <1>3, <2>1 DEF HandleWrite
  <2>2. CASE n \in 1 .. Len(output)
    <3>1. Len(output) \in Nat /\ n # -1
      BY <2>2, LenProperties DEF TypeOK
    <3>2. /\ output' = SubSeq(output, n + 1, Len(output))
          /\ output' \in Seq(Units) /\ Len(output') = Len(output) - n
      <4>1. n \in 0 .. Len(output) /\ output \in Seq(Units)
        BY <2>2 DEF TypeOK
      <4>2. output' = SubSeq(output, n + 1, Len(output))
        BY <1>3, <2>2, WrittenPart
      <4>3. QED
        BY <4>1, <4>2, CutInTwo
    <3>3. output' = <<>> <=> n = Len(output)
      BY <2>2, <3>1, <3>2, EmptySeq
    <3>4. writing' <=> n < Len(output)
      BY <1>3, <2>2, WrittenPart
    <3>5. ~finSent
      <4>1. output # <<>>
        BY <2>2, <3>1
      <4>2. QED
        BY <4>1
    <3>6. n < Len(output) => finSent' = finSent
      BY <1>3, <2>2, WrittenPart
    <3>7. n < Len(output) <=> n # Len(output)
      BY <2>2, <3>1
    <3>8. QED
      BY <3>3, <3>4, <3>5, <3>6, <3>7
  <2>3. QED
    BY <1>3, <2>1, <2>2 DEF HandleWrite
<1>4. ASSUME NEW m \in Messages, NEW n \in WriteResults, RunSend(m, n)
      PROVE  OutputInv'
  BY <1>1, <1>4, SendKeepsOutputInv DEF RunSend
<1>5. ASSUME NEW n \in WriteResults, LoopSend(n)
      PROVE  OutputInv'
  <2>1. <<"loop", sent'["loop"]>> \in Messages
    BY <1>5, LoopMessage DEF LoopSend
  <2>2. QED
    BY <1>1, <1>5, <2>1, SendKeepsOutputInv DEF LoopSend
<1>6. CASE RunShutdown \/ LoopShutdown
  <2>1. UNCHANGED <<output, writing, fault>> /\ finSent' = (finSent \/ ~writing)
    BY <1>6 DEF RunShutdown, LoopShutdown, ShutdownInLoop, connVars
  <2>2. QED
    BY <1>1, <2>1 DEF TypeOK
<1>7. QED
  <2>1. \/ UNCHANGED <<output, writing, finSent>>
        \/ \E n \in -1 .. Len(output) : HandleWrite(n)
        \/ \E m \in Messages, n \in WriteResults : RunSend(m, n)
        \/ \E n \in WriteResults : LoopSend(n)
        \/ RunShutdown \/ LoopShutdown
    BY DEF Next, LoopNext, ThreadNext, ConnectEstablished, Poll, HandleRead,
         HandleClose, Fail, DoPendingFunctors, RunDestroy, Destroy,
         RunWriteComplete, PassDone, CallbackReturn, CallSend, QueueSend,
         CallShutdown, SetDisconnecting, QueueShutdown, dataVars, connVars
  <2>2. QED
    BY <1>2, <1>3, <1>4, <1>5, <1>6, <2>1

(* The inductive invariant of both theorems below.                         *)
LEMMA OutputInvHolds == Spec => []OutputInv
<1>1. Init => OutputInv
  BY DEF Init, OutputInv, WritingWhileOutput, FinAfterOutput
<1>2. TypeOK /\ OutputInv /\ [Next]_vars => OutputInv'
  <2>1. SUFFICES ASSUME TypeOK, OutputInv, [Next]_vars PROVE OutputInv'
    OBVIOUS
  <2>2. CASE UNCHANGED vars
    BY <2>1, <2>2 DEF vars, dataVars, connVars, OutputInv, WritingWhileOutput, FinAfterOutput
  <2>3. QED
    BY <2>1, <2>2, StepKeepsOutputInv
<1>3. QED
  BY <1>1, <1>2, TypeCorrect, PTL DEF Spec

(* POLLOUT is asked for exactly while there is output, wherever write(2)   *)
(* cut the messages of however many senders.                               *)
THEOREM PolloutFollowsOutput == Spec => []WritingWhileOutput
<1>1. OutputInv => WritingWhileOutput
  BY DEF OutputInv
<1>2. QED
  BY <1>1, OutputInvHolds, PTL

(* The FIN never overtakes output.                                         *)
THEOREM FinComesLast == Spec => []FinAfterOutput
<1>1. OutputInv => FinAfterOutput
  BY DEF OutputInv
<1>2. QED
  BY <1>1, OutputInvHolds, PTL
---------------------------------------------------------------------------
(* Closing.                                                                *)

Closing == <<"destroy">>

(* A client's connectDestroyed() is queued once, after the owner has let go*)
(* of the connection, and runs before poll() is called again.              *)
DestroyOnce ==
    /\ owner # "none" => ~Holds(pending, Closing) /\ ~Holds(batch, Closing)
    /\ Holds(pending, Closing) => pc = "out"
    /\ Holds(batch, Closing) => pc \in {"functors", "onWriteComplete"}
    /\ Once(pending, Closing) /\ Once(batch, Closing)

(* Who is yet to be closed, or destroyed, is open; who is in the poller has*)
(* an owner or is about to leave it.                                       *)
StillOpen ==
    /\ pc # "connect" /\ (owner # "none" \/ Holds(pending, Closing) \/ Holds(batch, Closing)) => MayDestroy
    /\ registered => owner # "none" \/ Holds(pending, Closing) \/ Holds(batch, Closing)
    /\ pc = "in" /\ revents.in = "eof" => registered

CloseInv == ClosedOnce /\ DestroyOnce /\ StillOpen

(* A functor that does not destroy the connection.                         *)
Harmless(f) == f \in Functors /\ f # Closing

LEMMA HarmlessFunctors ==
    /\ Harmless(<<"shutdown">>) /\ Harmless(<<"complete">>)
    /\ \A m \in Messages : Harmless(<<"send", m>>)
BY FunctorKinds DEF Harmless, Closing

(* A step of user code, of another thread or of handleWrite(): it may queue*)
(* a functor, and set kDisconnecting.                                      *)
LEMMA CallsKeepCloseInv ==
    ASSUME TypeOK, CloseInv, fault' # "badState",
           UNCHANGED <<pc, batch, owner, registered>>,
           revents' = revents \/ pc = "out",
           state' \in {state, "kConnected", "kDisconnecting"},
           pending' = pending \/ \E f \in Functors : Harmless(f) /\ pending' = Append(pending, f)
    PROVE  CloseInv'
<1>1. (Holds(pending, Closing)' <=> Holds(pending, Closing)) /\ Once(pending, Closing)'
  <2>1. CASE pending' = pending
    BY <2>1 DEF CloseInv, DestroyOnce, Holds, Once
  <2>2. ASSUME NEW f \in Functors, Harmless(f), pending' = Append(pending, f)
        PROVE  (Holds(pending, Closing)' <=> Holds(pending, Closing)) /\ Once(pending, Closing)'
    <3>1. (Holds(Append(pending, f), Closing) <=> Holds(pending, Closing)) /\ Once(Append(pending, f), Closing)
      BY <2>2, AppendKeepsOnce DEF Harmless, CloseInv, DestroyOnce, TypeOK
    <3>2. QED
      BY <2>2, <3>1 DEF Holds, Once
  <2>3. QED
    BY <2>1, <2>2
<1>2. (Holds(batch, Closing)' <=> Holds(batch, Closing)) /\ Once(batch, Closing)'
  BY DEF CloseInv, DestroyOnce, Holds, Once
<1>3. MayDestroy => MayDestroy'
  BY DEF MayDestroy
<1>4. DestroyOnce'
  BY <1>1, <1>2 DEF CloseInv, DestroyOnce
<1>5. StillOpen'
  BY <1>1, <1>2, <1>3 DEF CloseInv, StillOpen
<1>6. QED
  BY <1>4, <1>5 DEF CloseInv, ClosedOnce

(* A functor other than connectDestroyed().                                *)
LEMMA FunctorsKeepCloseInv ==
    ASSUME TypeOK, CloseInv, fault' # "badState",
           NEW f, Harmless(f), Running(f),
           UNCHANGED <<owner, registered, state, revents>>,
           pc' \in {pc, "onWriteComplete"},
           pending' = pending \/ \E g \in Functors : Harmless(g) /\ pending' = Append(pending, g)
    PROVE  CloseInv'
<1>1. pc = "functors" /\ batch # <<>> /\ Head(batch) # Closing /\ batch' = Tail(batch)
  BY DEF Running, At, Harmless
<1>2. (Holds(pending, Closing)' <=> Holds(pending, Closing)) /\ Once(pending, Closing)'
  <2>1. CASE pending' = pending
    BY <2>1 DEF CloseInv, DestroyOnce, Holds, Once
  <2>2. ASSUME NEW g \in Functors, Harmless(g), pending' = Append(pending, g)
        PROVE  (Holds(pending, Closing)' <=> Holds(pending, Closing)) /\ Once(pending, Closing)'
    <3>1. (Holds(Append(pending, g), Closing) <=> Holds(pending, Closing)) /\ Once(Append(pending, g), Closing)
      BY <2>2, AppendKeepsOnce DEF Harmless, CloseInv, DestroyOnce, TypeOK
    <3>2. QED
      BY <2>2, <3>1 DEF Holds, Once
  <2>3. QED
    BY <2>1, <2>2
<1>3. (Holds(batch, Closing)' <=> Holds(batch, Closing)) /\ Once(batch, Closing)'
  <2>1. (Holds(Tail(batch), Closing) <=> Holds(batch, Closing)) /\ Once(Tail(batch), Closing)
    BY <1>1, TailKeepsOnce DEF CloseInv, DestroyOnce, TypeOK
  <2>2. QED
    BY <1>1, <2>1 DEF Holds, Once
<1>4. MayDestroy' <=> MayDestroy
  BY DEF MayDestroy
<1>5. DestroyOnce'
  BY <1>1, <1>2, <1>3 DEF CloseInv, DestroyOnce
<1>6. StillOpen'
  BY <1>1, <1>2, <1>3, <1>4 DEF CloseInv, StillOpen
<1>7. QED
  BY <1>5, <1>6 DEF CloseInv, ClosedOnce

(* What sendInLoop() queues.                                               *)
LEMMA SendQueues ==
    ASSUME fault = "none", NEW m, NEW n \in WriteResults, SendInLoop(m, n)
    PROVE  /\ fault' # "badState"
           /\ pending' = pending \/ \E f \in Functors : Harmless(f) /\ pending' = Append(pending, f)
<1>1. pending' = pending \/ pending' = Append(pending, <<"complete">>)
  BY DEF SendInLoop
<1>2. fault' # "badState"
  BY DEF SendInLoop
<1>3. QED
  BY <1>1, <1>2, HarmlessFunctors DEF Harmless

(* The loop goes from one place to the next.                               *)
LEMMA MovesKeepCloseInv ==
    ASSUME TypeOK, CloseInv,
           \/ ConnectEstablished \/ HandleRead \/ PassDone \/ CallbackReturn
           \/ \E in \in {"none", "data", "eof"}, out \in BOOLEAN : Poll(in, out)
    PROVE  CloseInv'
<1>1. UNCHANGED <<batch, pending, owner, registered, fault>>
  BY DEF ConnectEstablished, HandleRead, PassDone, CallbackReturn, Poll, dataVars, connVars
<1>2. /\ Holds(pending, Closing)' <=> Holds(pending, Closing)
      /\ Holds(batch, Closing)' <=> Holds(batch, Closing)
      /\ Once(pending, Closing)' /\ Once(batch, Closing)'
  BY <1>1 DEF CloseInv, DestroyOnce, Holds, Once
<1>3. batch = <<>> => ~Holds(batch, Closing)
  BY DEF Holds
<1>4. CASE ConnectEstablished
  BY <1>1, <1>2, <1>4 DEF ConnectEstablished, At, CloseInv, ClosedOnce, DestroyOnce, StillOpen,
                          MayDestroy
<1>5. CASE HandleRead
  BY <1>1, <1>2, <1>5 DEF HandleRead, At, CloseInv, ClosedOnce, DestroyOnce, StillOpen,
                          MayDestroy, connVars
<1>6. CASE PassDone
  BY <1>1, <1>2, <1>3, <1>6 DEF PassDone, At, CloseInv, ClosedOnce, DestroyOnce, StillOpen,
                          MayDestroy, connVars
<1>7. CASE CallbackReturn
  BY <1>1, <1>2, <1>7 DEF CallbackReturn, InUserCode, UserCode, CloseInv, ClosedOnce, DestroyOnce,
                          StillOpen, MayDestroy, connVars
<1>8. ASSUME NEW in \in {"none", "data", "eof"}, NEW out \in BOOLEAN, Poll(in, out)
      PROVE  CloseInv'
  <2>1. pc = "poll" /\ pc' = "in" /\ revents'.in = in /\ state' = state /\ (in # "none" => registered)
    BY <1>8 DEF Poll, At, connVars
  <2>2. QED
    BY <1>1, <1>2, <2>1 DEF CloseInv, ClosedOnce, DestroyOnce, StillOpen, MayDestroy
<1>9. QED
  BY <1>4, <1>5, <1>6, <1>7, <1>8

(* The swap.                                                               *)
LEMMA SwapKeepsCloseInv ==
    ASSUME CloseInv, DoPendingFunctors
    PROVE  CloseInv'
<1>1. /\ pc = "out" /\ pc' = "functors" /\ batch' = pending /\ pending' = <<>>
      /\ UNCHANGED <<state, owner, registered, fault>>
  BY DEF DoPendingFunctors, At, connVars
<1>2. (Holds(batch, Closing)' <=> Holds(pending, Closing)) /\ Once(batch, Closing)'
  BY <1>1 DEF CloseInv, DestroyOnce, Holds, Once
<1>3. ~Holds(pending, Closing)' /\ Once(pending, Closing)'
  BY <1>1 DEF Holds, Once
<1>4. ~Holds(batch, Closing) /\ (MayDestroy' <=> MayDestroy)
  BY <1>1 DEF CloseInv, DestroyOnce, MayDestroy
<1>5. QED
  BY <1>1, <1>2, <1>3, <1>4 DEF CloseInv, ClosedOnce, DestroyOnce, StillOpen

(* The end of the stream: the connection is open, and its owner lets go.   *)
LEMMA HandleCloseKeepsCloseInv ==
    ASSUME TypeOK, CloseInv, HandleClose
    PROVE  CloseInv'
<1>1. pc = "in" /\ revents.in = "eof" /\ fault = "none"
  BY DEF HandleClose, At
<1>2. ~Holds(pending, Closing) /\ ~Holds(batch, Closing) /\ Once(pending, Closing) /\ Once(batch, Closing)
  BY <1>1 DEF CloseInv, DestroyOnce
<1>3. MayDestroy /\ owner # "none"
  BY <1>1, <1>2 DEF CloseInv, StillOpen
<1>4. pc' = "out" /\ owner' = "none" /\ UNCHANGED <<fault, batch>>
  BY <1>3 DEF HandleClose
<1>5. ~Holds(batch, Closing)' /\ Once(batch, Closing)'
  BY <1>2, <1>4 DEF Holds, Once
<1>6. CASE owner = "server"
  <2>1. pending' = pending /\ registered' = FALSE
    BY <1>3, <1>6 DEF HandleClose, Destroy, Unregister
  <2>2. ~Holds(pending, Closing)' /\ Once(pending, Closing)'
    BY <1>2, <2>1 DEF Holds, Once
  <2>3. QED
    BY <1>1, <1>4, <1>5, <2>1, <2>2 DEF CloseInv, ClosedOnce, DestroyOnce, StillOpen
<1>7. CASE owner # "server"
  <2>1. pending' = Append(pending, Closing) /\ state' = state
    BY <1>3, <1>7 DEF HandleClose, Closing
  <2>2. Holds(Append(pending, Closing), Closing) /\ Once(Append(pending, Closing), Closing)
    BY <1>2, AppendKeepsOnce, FunctorKinds DEF TypeOK, Closing
  <2>3. Holds(pending, Closing)' /\ Once(pending, Closing)'
    BY <2>1, <2>2 DEF Holds, Once
  <2>4. MayDestroy'
    BY <1>3, <2>1 DEF MayDestroy
  <2>5. QED
    BY <1>1, <1>4, <1>5, <2>3, <2>4 DEF CloseInv, ClosedOnce, DestroyOnce, StillOpen
<1>8. QED
  BY <1>6, <1>7

(* connectDestroyed() finds the connection open.                           *)
LEMMA RunDestroyKeepsCloseInv ==
    ASSUME TypeOK, CloseInv, RunDestroy
    PROVE  CloseInv'
<1>1. /\ pc = "functors" /\ fault = "none" /\ UNCHANGED <<pc, owner, pending>>
      /\ batch # <<>> /\ Head(batch) = Closing /\ batch' = Tail(batch)
  BY DEF RunDestroy, Running, At, Closing
<1>2. Holds(batch, Closing) /\ ~Holds(Tail(batch), Closing) /\ Once(Tail(batch), Closing)
  BY <1>1, TailKeepsOnce DEF CloseInv, DestroyOnce, TypeOK
<1>3. MayDestroy /\ owner = "none"
  BY <1>1, <1>2 DEF CloseInv, DestroyOnce, StillOpen
<1>4. registered' = FALSE /\ fault' = "none"
  BY <1>1, <1>3 DEF RunDestroy, Destroy, Unregister
<1>5. ~Holds(batch, Closing)' /\ Once(batch, Closing)'
  BY <1>1, <1>2 DEF Holds, Once
<1>6. ~Holds(pending, Closing)' /\ Once(pending, Closing)'
  BY <1>1 DEF CloseInv, DestroyOnce, Holds, Once
<1>7. QED
  BY <1>1, <1>3, <1>4, <1>5, <1>6 DEF CloseInv, ClosedOnce, DestroyOnce, StillOpen

(* Every step keeps the invariant.                                         *)
LEMMA StepKeepsCloseInv ==
    ASSUME TypeOK, SendCounted, CloseInv, Next
    PROVE  CloseInv'
<1>1. ASSUME NEW n \in -1 .. Len(output), HandleWrite(n)
      PROVE  CloseInv'
  <2>1. /\ UNCHANGED <<pc, batch, owner, registered, state>> /\ pc = "out"
        /\ fault = "none" /\ fault' # "badState"
        /\ pending' = pending \/ pending' = Append(pending, <<"complete">>)
    BY <1>1 DEF HandleWrite, At
  <2>2. QED
    BY <2>1, HarmlessFunctors, CallsKeepCloseInv DEF Harmless
<1>2. ASSUME NEW m \in Messages, NEW n \in WriteResults, RunSend(m, n)
      PROVE  CloseInv'
  <2>1. /\ fault = "none" /\ Running(<<"send", m>>) /\ Harmless(<<"send", m>>)
        /\ UNCHANGED <<pc, owner, registered, state, revents>>
    BY <1>2, HarmlessFunctors DEF RunSend, Running, At
  <2>2. QED
    BY <1>2, <2>1, SendQueues, FunctorsKeepCloseInv DEF RunSend
<1>3. CASE RunShutdown
  BY <1>3, HarmlessFunctors, FunctorsKeepCloseInv
     DEF RunShutdown, CloseInv, ClosedOnce, connVars
<1>4. CASE RunWriteComplete
  BY <1>4, HarmlessFunctors, FunctorsKeepCloseInv
     DEF RunWriteComplete, CloseInv, ClosedOnce, connVars
<1>5. ASSUME NEW n \in WriteResults, LoopSend(n)
      PROVE  CloseInv'
  <2>1. UNCHANGED <<pc, revents, batch, owner, registered, state>> /\ fault = "none"
    BY <1>5 DEF LoopSend, InUserCode, loopVars
  <2>2. QED
    BY <1>5, <2>1, SendQueues, CallsKeepCloseInv DEF LoopSend
<1>6. CASE LoopShutdown
  BY <1>6, CallsKeepCloseInv DEF LoopShutdown, loopVars, CloseInv, ClosedOnce
<1>7. CASE ThreadNext
  <2>1. PICK t \in Threads : \/ CallSend(t) \/ QueueSend(t) \/ CallShutdown(t)
                             \/ SetDisconnecting(t) \/ QueueShutdown(t)
    BY <1>7 DEF ThreadNext
  <2>2. /\ UNCHANGED <<pc, revents, batch, owner, registered, fault>>
        /\ state' \in {state, "kDisconnecting"}
    BY <2>1 DEF CallSend, QueueSend, CallShutdown, SetDisconnecting, QueueShutdown,
                loopVars, connVars
  <2>3. pending' = pending \/ \E f \in Functors : Harmless(f) /\ pending' = Append(pending, f)
    <3>1. CASE QueueSend(t)
      <4>1. <<t, sent[t]>> \in Messages
        BY <3>1 DEF QueueSend, InCall, SendCounted, Messages, Senders
      <4>2. QED
        BY <3>1, <4>1, HarmlessFunctors DEF QueueSend, Enqueue, Harmless
    <3>2. CASE QueueShutdown(t)
      BY <3>2, HarmlessFunctors DEF QueueShutdown, Enqueue, Harmless
    <3>3. CASE CallSend(t) \/ CallShutdown(t) \/ SetDisconnecting(t)
      BY <3>3 DEF CallSend, CallShutdown, SetDisconnecting
    <3>4. QED
      BY <2>1, <3>1, <3>2, <3>3
  <2>4. QED
    BY <2>2, <2>3, CallsKeepCloseInv DEF CloseInv, ClosedOnce
<1>8. QED
  BY <1>1, <1>2, <1>3, <1>4, <1>5, <1>6, <1>7, MovesKeepCloseInv, SwapKeepsCloseInv,
     HandleCloseKeepsCloseInv, RunDestroyKeepsCloseInv
     DEF Next, LoopNext

(* The asserts on state_ in handleClose() and connectDestroyed() never     *)
(* fail: a connection is closed and destroyed once, by either kind of      *)
(* owner, whatever other threads do to state_ meanwhile.                   *)
THEOREM ConnectionClosedOnce == Spec => []ClosedOnce
<1>1. Init => CloseInv
  <2>1. SUFFICES ASSUME Init PROVE CloseInv
    OBVIOUS
  <2>2. ~Holds(pending, Closing) /\ ~Holds(batch, Closing) /\ Once(pending, Closing) /\ Once(batch, Closing)
    BY <2>1 DEF Init, Holds, Once
  <2>3. QED
    BY <2>1, <2>2, ConnectionAssumption
       DEF Init, CloseInv, ClosedOnce, DestroyOnce, StillOpen, NoEvents
<1>2. TypeOK /\ SendCounted /\ CloseInv /\ [Next]_vars => CloseInv'
  <2>1. SUFFICES ASSUME TypeOK, SendCounted, CloseInv, [Next]_vars PROVE CloseInv'
    OBVIOUS
  <2>2. CASE UNCHANGED vars
    BY <2>1, <2>2 DEF vars, loopVars, connVars, CloseInv, ClosedOnce, DestroyOnce, StillOpen,
                      Holds, Once, MayDestroy
  <2>3. QED
    BY <2>1, <2>2, StepKeepsCloseInv
<1>3. CloseInv => ClosedOnce
  BY DEF CloseInv
<1>4. QED
  BY <1>1, <1>2, <1>3, TypeInvHolds, PTL DEF Spec

---------------------------------------------------------------------------
(* The stream. Partial writes are bookkeeping: what is in the buffer       *)
(* completes what is in the socket. The order of the messages takes an     *)
(* invariant that follows them from the call of send() through pending and *)
(* batch into the stream.                                                  *)

(* The functors that are still to run, in the order they will.             *)
Queue == batch \o pending

(* The messages of the send functors in q, and those of a stream of units. *)
SendsOf(q) == {m \in Messages : <<"send", m>> \in Range(q)}
MessagesOf(s) == {u[1] : u \in Range(s)}

(* The send functors of one sender are in the order of its calls.          *)
Ordered(q) ==
    \A i, j \in 1 .. Len(q) : \A m, k \in Messages :
        i < j /\ q[i] = <<"send", m>> /\ q[j] = <<"send", k>> /\ m[1] = k[1] => m[2] < k[2]

(* m was sent, and is not the one that its sender has yet to queue.        *)
Counted(m) ==
    /\ m[2] <= sent[m[1]]
    /\ m[1] \in Threads /\ call[m[1]] = "send" => m[2] < sent[m[1]]

(* Nothing of a batch is left where doPendingFunctors() swaps.             *)
BatchInPass == batch # <<>> => pc \in {"functors", "onWriteComplete"}

QueueInOrder ==
    /\ Ordered(Queue)
    /\ \A m \in SendsOf(Queue) : m[1] \in Threads /\ Counted(m)

StreamInOrder ==
    /\ \A m \in MessagesOf(Stream) : Counted(m)
    /\ \A m \in SendsOf(Queue), k \in MessagesOf(Stream) : k[1] = m[1] => k[2] < m[2]

OrderInv == QueueInOrder /\ StreamInOrder

---------------------------------------------------------------------------
(* Sequences of functors and of units.                                     *)

(* The front of a concatenation.                                           *)
LEMMA FrontOfConcat ==
    ASSUME NEW S, NEW s \in Seq(S), NEW t \in Seq(S)
    PROVE  SubSeq(s \o t, 1, Len(s)) = s
<1>1. /\ s \o t \in Seq(S) /\ Len(s) \in 0 .. Len(s \o t)
      /\ \A i \in 1 .. Len(s) : (s \o t)[i] = s[i]
  BY ConcatProperties, LenProperties
<1>2. SubSeq(s \o t, 1, Len(s)) \in Seq(S) /\ Len(SubSeq(s \o t, 1, Len(s))) = Len(s)
  BY <1>1, CutInTwo
<1>3. \A i \in 1 .. Len(s) : SubSeq(s \o t, 1, Len(s))[i] = s[i]
  BY <1>1, <1>2
<1>4. QED
  BY <1>2, <1>3, SeqEqual

(* Units may be put together in any grouping.                              *)
LEMMA AssociateUnits ==
    \A s, t, u \in Seq(Units) : (s \o t) \o u = s \o (t \o u)
BY ConcatAssociative

(* Queueing a functor that comes after those of its sender.                *)
LEMMA AppendKeepsOrder ==
    ASSUME NEW q \in Seq(Functors), Ordered(q), NEW f \in Functors,
           \A m \in Messages, k \in SendsOf(q) :
               f = <<"send", m>> /\ k[1] = m[1] => k[2] < m[2]
    PROVE  /\ Ordered(Append(q, f))
           /\ SendsOf(Append(q, f)) = SendsOf(q) \cup {m \in Messages : f = <<"send", m>>}
<1>1. Range(Append(q, f)) = Range(q) \cup {f}
  BY RangeAppend
<1>2. SendsOf(Append(q, f)) = SendsOf(q) \cup {m \in Messages : f = <<"send", m>>}
  BY <1>1 DEF SendsOf
<1>3. /\ Len(Append(q, f)) = Len(q) + 1
      /\ \A i \in 1 .. Len(q) : Append(q, f)[i] = q[i]
      /\ Append(q, f)[Len(q) + 1] = f
      /\ Len(q) \in Nat
  BY AppendProperties, LenProperties
<1>4. ASSUME NEW i \in 1 .. Len(q) + 1, NEW j \in 1 .. Len(q) + 1, i < j,
             NEW m \in Messages, NEW k \in Messages, m[1] = k[1],
             Append(q, f)[i] = <<"send", m>>, Append(q, f)[j] = <<"send", k>>
      PROVE  m[2] < k[2]
  <2>1. i \in 1 .. Len(q) /\ q[i] = <<"send", m>>
    BY <1>3, <1>4
  <2>2. CASE j \in 1 .. Len(q)
    BY <1>3, <1>4, <2>1, <2>2 DEF Ordered
  <2>3. CASE j = Len(q) + 1
    <3>1. f = <<"send", k>>
      BY <1>3, <1>4, <2>3
    <3>2. m \in SendsOf(q)
      BY <2>1, RangeEquality DEF SendsOf
    <3>3. QED
      BY <1>4, <3>1, <3>2
  <2>4. QED
    BY <1>3, <2>2, <2>3
<1>5. QED
  BY <1>2, <1>3, <1>4 DEF Ordered

(* Taking a functor from the front: those of its sender that are left came *)
(* after it.                                                               *)
LEMMA TailKeepsOrder ==
    ASSUME NEW q \in Seq(Functors), q # <<>>, Ordered(q)
    PROVE  /\ Ordered(Tail(q))
           /\ SendsOf(Tail(q)) \subseteq SendsOf(q)
           /\ \A m \in Messages, k \in SendsOf(Tail(q)) :
                  Head(q) = <<"send", m>> /\ m[1] = k[1] => m[2] < k[2]
<1>1. /\ Tail(q) \in Seq(Functors) /\ Len(Tail(q)) = Len(q) - 1
      /\ \A i \in 1 .. Len(Tail(q)) : Tail(q)[i] = q[i + 1]
      /\ Len(q) \in Nat \ {0} /\ Head(q) = q[1]
  BY HeadTailProperties, EmptySeq
<1>2. Ordered(Tail(q))
  BY <1>1 DEF Ordered
<1>3. SendsOf(Tail(q)) \subseteq SendsOf(q)
  BY RangeHeadTail DEF SendsOf
<1>4. ASSUME NEW m \in Messages, NEW k \in SendsOf(Tail(q)), Head(q) = <<"send", m>>, m[1] = k[1]
      PROVE  m[2] < k[2]
  <2>1. k \in Messages /\ <<"send", k>> \in Range(Tail(q))
    BY DEF SendsOf
  <2>2. PICK i \in 1 .. Len(Tail(q)) : Tail(q)[i] = <<"send", k>>
    <3>1. Range(Tail(q)) = {Tail(q)[i] : i \in 1 .. Len(Tail(q))}
      BY <1>1, RangeEquality, Zenon
    <3>2. QED
      BY <2>1, <3>1
  <2>3. /\ 1 \in 1 .. Len(q) /\ i + 1 \in 1 .. Len(q) /\ 1 < i + 1
        /\ q[1] = <<"send", m>> /\ q[i + 1] = <<"send", k>>
    BY <1>1, <1>4, <2>2
  <2>4. QED
    BY <1>4, <2>1, <2>3 DEF Ordered
<1>5. QED
  BY <1>2, <1>3, <1>4

(* Accepting a message puts that message into the stream.                  *)
LEMMA MessagesOfConcat ==
    ASSUME NEW s \in Seq(Units), NEW m \in Messages
    PROVE  MessagesOf(s \o UnitsOf(m)) = MessagesOf(s) \cup {m}
<1>1. Range(s \o UnitsOf(m)) = Range(s) \cup Range(UnitsOf(m))
  BY MessageIsUnits, RangeConcatenation
<1>2. Range(UnitsOf(m)) = {<<m, i>> : i \in 1 .. MsgLen}
  <2>1. Range(UnitsOf(m)) = {UnitsOf(m)[i] : i \in 1 .. MsgLen}
    BY MessageIsUnits, RangeEquality
  <2>2. QED
    BY <2>1, MessageIsUnits
<1>3. 1 \in 1 .. MsgLen
  BY ConnectionAssumption
<1>4. {u[1] : u \in Range(UnitsOf(m))} = {m}
  <2>1. \A u \in Range(UnitsOf(m)) : u[1] = m
    BY <1>2
  <2>2. <<m, 1>> \in Range(UnitsOf(m)) /\ <<m, 1>>[1] = m
    BY <1>2, <1>3
  <2>3. QED
    BY <2>1, <2>2
<1>5. QED
  BY <1>1, <1>4 DEF MessagesOf

(* What is in the queue and in the stream is messages.                     *)
LEMMA StreamOfMessages ==
    ASSUME TypeOK
    PROVE  /\ Queue \in Seq(Functors) /\ Stream \in Seq(Units)
           /\ SendsOf(Queue) \subseteq Messages
           /\ MessagesOf(Stream) \subseteq Messages
<1>1. Queue \in Seq(Functors) /\ Stream \in Seq(Units)
  BY ConcatProperties DEF TypeOK, Queue, Stream
<1>2. Range(Stream) \subseteq Units
  BY <1>1, RangeOfSeq
<1>3. QED
  BY <1>1, <1>2 DEF SendsOf, MessagesOf, Units

---------------------------------------------------------------------------
(* What the steps do to the queue, to the stream and to the counts.        *)

(* Appending to pending is appending to the queue.                         *)
LEMMA EnqueueAppends ==
    ASSUME TypeOK, NEW f \in Functors, UNCHANGED batch, pending' = Append(pending, f)
    PROVE  Queue' = Append(Queue, f)
BY AppendToConcat DEF TypeOK, Queue

(* Running a functor takes the head of the queue.                          *)
LEMMA RunningTakesHead ==
    ASSUME TypeOK, NEW f, Running(f)
    PROVE  /\ Queue # <<>> /\ Head(Queue) = f
           /\ batch' \o pending = Tail(Queue)
<1>1. batch \in Seq(Functors) /\ pending \in Seq(Functors) /\ batch # <<>>
  BY DEF TypeOK, Running
<1>2. Head(batch) = f /\ batch' = Tail(batch)
  BY DEF Running
<1>3. /\ batch \o pending # <<>> /\ Head(batch \o pending) = Head(batch)
      /\ Tail(batch \o pending) = Tail(batch) \o pending
  BY <1>1, TailOfConcat
<1>4. QED
  BY <1>2, <1>3 DEF Queue

(* A message whose functor runs leaves the ones of its sender behind it.   *)
LEMMA RunningKeepsOrder ==
    ASSUME TypeOK, QueueInOrder, NEW f, Running(f)
    PROVE  /\ Ordered(Tail(Queue)) /\ Tail(Queue) \in Seq(Functors)
           /\ SendsOf(Tail(Queue)) \subseteq SendsOf(Queue)
           /\ \A m \in Messages, k \in SendsOf(Tail(Queue)) :
                  f = <<"send", m>> /\ m[1] = k[1] => m[2] < k[2]
           /\ \A m \in Messages : f = <<"send", m>> => m \in SendsOf(Queue)
<1>1. Queue \in Seq(Functors) /\ Queue # <<>> /\ Head(Queue) = f
  BY StreamOfMessages, RunningTakesHead
<1>2. f \in Range(Queue)
  BY <1>1, RangeHeadTail
<1>3. QED
  BY <1>1, <1>2, TailKeepsOrder, HeadTailProperties DEF QueueInOrder, SendsOf

(* "complete" and the like are not messages.                               *)
LEMMA OthersKeepOrder ==
    ASSUME NEW q \in Seq(Functors), Ordered(q),
           NEW f \in {<<"shutdown">>, <<"destroy">>, <<"complete">>}
    PROVE  Ordered(Append(q, f)) /\ SendsOf(Append(q, f)) = SendsOf(q)
<1>1. f \in Functors
  BY FunctorKinds
<1>2. \A m \in Messages : f # <<"send", m>>
  OBVIOUS
<1>3. SendsOf(Append(q, f)) = SendsOf(q) \cup {m \in Messages : f = <<"send", m>>}
      /\ Ordered(Append(q, f))
  BY <1>1, <1>2, AppendKeepsOrder
<1>4. QED
  BY <1>2, <1>3

(* sendInLoop() accepts the whole message or nothing of it.                *)
LEMMA SendAcceptsWhole ==
    ASSUME TypeOK, NEW m \in Messages, NEW n \in WriteResults, SendInLoop(m, n)
    PROVE  /\ pending' \in {pending, Append(pending, <<"complete">>)}
           /\ finSent' = finSent
           /\ \/ UNCHANGED <<output, wire>>
              \/ /\ ~finSent
                 /\ Stream' = Stream \o UnitsOf(m)
                 /\ Len(wire) <= Len(wire')
<1>1. CASE ~MayWriteAtOnce \/ finSent \/ n = -1
  BY <1>1, ConnectionAssumption DEF SendInLoop, dataVars
<1>2. CASE MayWriteAtOnce /\ ~finSent /\ n \in 1 .. MsgLen
  <2>1. n \in Nat /\ MsgLen \in Nat /\ n # -1
    BY <1>2, ConnectionAssumption
  <2>2. /\ wire' = wire \o SubSeq(UnitsOf(m), 1, n)
        /\ output' = output \o Remainder(m, n)
        /\ pending' \in {pending, Append(pending, <<"complete">>)}
        /\ finSent' = finSent /\ output = <<>>
    BY <1>2, <2>1 DEF SendInLoop, MayWriteAtOnce
  <2>3. /\ SubSeq(UnitsOf(m), 1, n) \in Seq(Units) /\ Remainder(m, n) \in Seq(Units)
        /\ SubSeq(UnitsOf(m), 1, n) \o Remainder(m, n) = UnitsOf(m)
    BY <1>2, RemainderIsUnits
  <2>4. wire \in Seq(Units)
    BY DEF TypeOK
  <2>5. output' = Remainder(m, n) /\ Stream = wire
    BY <2>2, <2>3, <2>4, ConcatEmptySeq DEF Stream
  <2>6. Stream' = Stream \o UnitsOf(m)
    <3>1. Stream' = (wire \o SubSeq(UnitsOf(m), 1, n)) \o Remainder(m, n)
      BY <2>2, <2>5 DEF Stream
    <3>2. Stream' = wire \o (SubSeq(UnitsOf(m), 1, n) \o Remainder(m, n))
      BY <2>3, <2>4, <3>1, AssociateUnits, Zenon
    <3>3. QED
      BY <2>3, <2>5, <3>2, Zenon
  <2>7. Len(wire) <= Len(wire')
    BY <2>2, <2>3, <2>4, ConcatProperties, LenProperties
  <2>8. QED
    BY <1>2, <2>2, <2>6, <2>7
<1>3. QED
  BY <1>1, <1>2 DEF WriteResults

(* handleWrite() moves units from the buffer to the socket.                *)
LEMMA WriteKeepsStream ==
    ASSUME TypeOK, NEW n \in -1 .. Len(output), HandleWrite(n)
    PROVE  /\ Stream' = Stream /\ Len(wire) <= Len(wire')
           /\ finSent => finSent'
           /\ pending' \in {pending, Append(pending, <<"complete">>)}
<1>1. CASE n = -1
  BY <1>1, LenProperties DEF HandleWrite, Stream, TypeOK
<1>2. CASE n \in 1 .. Len(output)
  <2>1. n \in 0 .. Len(output) /\ output \in Seq(Units) /\ wire \in Seq(Units)
    BY <1>2 DEF TypeOK
  <2>2. /\ SubSeq(output, 1, n) \in Seq(Units) /\ SubSeq(output, n + 1, Len(output)) \in Seq(Units)
        /\ SubSeq(output, 1, n) \o SubSeq(output, n + 1, Len(output)) = output
    BY <2>1, CutInTwo
  <2>3. wire' = wire \o SubSeq(output, 1, n) /\ output' = SubSeq(output, n + 1, Len(output))
    BY <1>2, WrittenPart
  <2>4. Stream' = Stream
    <3>1. Stream' = (wire \o SubSeq(output, 1, n)) \o SubSeq(output, n + 1, Len(output))
      BY <2>3 DEF Stream
    <3>2. Stream' = wire \o (SubSeq(output, 1, n) \o SubSeq(output, n + 1, Len(output)))
      BY <2>1, <2>2, <3>1, AssociateUnits, Zenon
    <3>3. QED
      BY <2>2, <3>2, Zenon DEF Stream
  <2>5. Len(wire) <= Len(wire')
    BY <2>1, <2>2, <2>3, ConcatProperties, LenProperties
  <2>6. (finSent => finSent') /\ pending' \in {pending, Append(pending, <<"complete">>)}
    BY DEF HandleWrite
  <2>7. QED
    BY <2>4, <2>5, <2>6
<1>3. QED
  BY <1>1, <1>2 DEF HandleWrite

(* Counts only grow, and a call that begins counts a message of its own.   *)
LEMMA CountsKept ==
    ASSUME TypeOK, Next
    PROVE  \A m \in Messages : Counted(m) => Counted(m)'
<1> SUFFICES ASSUME NEW m \in Messages, Counted(m) PROVE Counted(m)'
  OBVIOUS
<1>1. m[1] \in Senders /\ m[2] \in Nat /\ sent[m[1]] \in Nat
  BY ConnectionAssumption DEF Messages, TypeOK
<1>2. CASE UNCHANGED threadVars
  BY <1>2 DEF Counted, threadVars
<1>3. ASSUME NEW n \in WriteResults, LoopSend(n)
      PROVE  Counted(m)'
  BY <1>1, <1>3, ConnectionAssumption DEF LoopSend, Counted, TypeOK, Senders
<1>4. CASE ThreadNext
  <2>1. PICK t \in Threads :
            \/ CallSend(t) \/ QueueSend(t)
            \/ CallShutdown(t) \/ SetDisconnecting(t) \/ QueueShutdown(t)
    BY <1>4 DEF ThreadNext
  <2>2. CASE CallSend(t)
    BY <1>1, <2>2 DEF CallSend, InCall, Counted, TypeOK
  <2>3. CASE ~CallSend(t)
    <3>1. sent' = sent /\ \E c \in {"none", "shutdown", "queueShutdown"} : call' = [call EXCEPT ![t] = c]
      BY <2>1, <2>3 DEF QueueSend, CallShutdown, SetDisconnecting, QueueShutdown
    <3>2. QED
      BY <1>1, <3>1 DEF Counted, TypeOK
  <2>4. QED
    BY <2>2, <2>3
<1>5. QED
  <2>1. UNCHANGED threadVars \/ (\E n \in WriteResults : LoopSend(n)) \/ ThreadNext
    BY DEF Next, LoopNext, ConnectEstablished, Poll, HandleRead, HandleClose, Fail, HandleWrite,
           DoPendingFunctors, RunSend, RunShutdown, RunDestroy, RunWriteComplete, PassDone,
           CallbackReturn, LoopShutdown
  <2>2. QED
    BY <1>2, <1>3, <1>4, <2>1

---------------------------------------------------------------------------
(* The messages keep their order.                                          *)

(* No functors are in the hands of doPendingFunctors() outside its pass.   *)
LEMMA BatchOnlyInPass == Spec => []BatchInPass
<1>1. Init => BatchInPass
  BY DEF Init, BatchInPass
<1>2. TypeOK /\ BatchInPass /\ [Next]_vars => BatchInPass'
  <2> SUFFICES ASSUME TypeOK, BatchInPass, [Next]_vars PROVE BatchInPass'
    OBVIOUS
  <2>1. CASE UNCHANGED <<pc, batch>>
    BY <2>1 DEF BatchInPass
  <2>2. CASE UNCHANGED batch /\ pc \notin {"functors", "onWriteComplete"}
    BY <2>2 DEF BatchInPass
  <2>3. CASE pc' \in {"functors", "onWriteComplete"}
    BY <2>3 DEF BatchInPass
  <2>4. CASE PassDone \/ CallbackReturn
    BY <2>4 DEF PassDone, CallbackReturn, BatchInPass, InUserCode, UserCode
  <2>5. QED
    BY <2>1, <2>2, <2>3, <2>4 DEF Next, LoopNext, ThreadNext, vars, loopVars, At, Running,
       ConnectEstablished, Poll, HandleRead, HandleClose, Fail, HandleWrite, DoPendingFunctors,
       RunSend, RunShutdown, RunDestroy, RunWriteComplete, LoopSend, LoopShutdown,
       CallSend, QueueSend, CallShutdown, SetDisconnecting, QueueShutdown
<1>3. QED
  BY <1>1, <1>2, TypeCorrect, PTL DEF Spec

(* A step that queues no message, and accepts those of M.                  *)
LEMMA OrderKept ==
    ASSUME TypeOK, OrderInv, Next,
           Ordered(Queue'), SendsOf(Queue') \subseteq SendsOf(Queue),
           NEW M \in SUBSET Messages,
           MessagesOf(Stream') = MessagesOf(Stream) \cup M,
           \A m \in M : /\ Counted(m)'
                        /\ \A k \in SendsOf(Queue') : m[1] = k[1] => m[2] < k[2]
    PROVE  OrderInv'
<1>1. SendsOf(Queue) \subseteq Messages /\ MessagesOf(Stream) \subseteq Messages
  BY StreamOfMessages
<1>2. \A m \in Messages : Counted(m) => Counted(m)'
  BY CountsKept
<1>3. \A m \in SendsOf(Queue') : m[1] \in Threads /\ Counted(m)'
  BY <1>1, <1>2 DEF OrderInv, QueueInOrder
<1>4. \A m \in MessagesOf(Stream') : Counted(m)'
  BY <1>1, <1>2 DEF OrderInv, StreamInOrder
<1>5. \A m \in SendsOf(Queue'), k \in MessagesOf(Stream') : k[1] = m[1] => k[2] < m[2]
  BY DEF OrderInv, StreamInOrder
<1>6. QED
  BY <1>3, <1>4, <1>5 DEF OrderInv, QueueInOrder, StreamInOrder

(* The messages already in the stream come before the one that is sent.    *)
LEMMA SentLater ==
    ASSUME TypeOK, OrderInv, NEW m \in Messages, NEW n \in WriteResults,
           \/ RunSend(m, n)
           \/ LoopSend(n) /\ m = <<"loop", sent["loop"] + 1>>
    PROVE  \A k \in MessagesOf(Stream) : k[1] = m[1] => k[2] < m[2]
<1>1. CASE RunSend(m, n)
  <2>1. m \in SendsOf(Queue)
    BY <1>1, RunningKeepsOrder DEF RunSend, OrderInv
  <2>2. QED
    BY <2>1 DEF OrderInv, StreamInOrder
<1>2. CASE m = <<"loop", sent["loop"] + 1>>
  <2>1. \A k \in MessagesOf(Stream) : k \in Messages /\ k[2] <= sent[k[1]]
    BY StreamOfMessages DEF OrderInv, StreamInOrder, Counted
  <2>2. sent["loop"] \in Nat /\ \A k \in Messages : k[2] \in Nat
    BY ConnectionAssumption DEF TypeOK, Messages, Senders
  <2>3. QED
    BY <1>2, <2>1, <2>2
<1>3. QED
  BY <1>1, <1>2

(* sendInLoop() as a functor, or in a callback.                            *)
LEMMA SendsKeepOrder ==
    ASSUME TypeOK, OrderInv, NEW m \in Messages, NEW n \in WriteResults,
           \/ RunSend(m, n)
           \/ LoopSend(n) /\ m = <<"loop", sent["loop"] + 1>>
    PROVE  OrderInv'
<1>1. SendInLoop(m, n) /\ Next
  <2>1. CASE RunSend(m, n)
    BY <2>1 DEF RunSend, Next, LoopNext
  <2>2. CASE LoopSend(n) /\ m = <<"loop", sent["loop"] + 1>>
    <3>1. sent'["loop"] = sent["loop"] + 1
      BY <2>2, ConnectionAssumption DEF LoopSend, TypeOK, Senders
    <3>2. QED
      BY <2>2, <3>1 DEF LoopSend, Next, LoopNext
  <2>3. QED
    BY <2>1, <2>2
<1>2. DEFINE rest == IF RunSend(m, n) THEN Tail(Queue) ELSE Queue
<1>3. /\ rest \in Seq(Functors) /\ Ordered(rest) /\ SendsOf(rest) \subseteq SendsOf(Queue)
      /\ \A k \in SendsOf(rest) : m[1] = k[1] => m[2] < k[2]
  <2>1. CASE RunSend(m, n)
    BY <2>1, RunningKeepsOrder DEF RunSend, OrderInv
  <2>2. CASE ~RunSend(m, n)
    <3>1. \A k \in SendsOf(Queue) : k[1] \in Threads
      BY DEF OrderInv, QueueInOrder
    <3>2. m[1] = "loop"
      BY <2>2
    <3>3. QED
      BY <2>2, <3>1, <3>2, StreamOfMessages, ConnectionAssumption DEF OrderInv, QueueInOrder
  <2>3. QED
    BY <2>1, <2>2
<1>4. Queue' \in {rest, Append(rest, <<"complete">>)}
  <2>1. pending' \in {pending, Append(pending, <<"complete">>)}
    BY <1>1, SendAcceptsWhole
  <2>2. batch' \in Seq(Functors) /\ pending \in Seq(Functors) /\ rest = batch' \o pending
    <3>1. CASE RunSend(m, n)
      BY <3>1, RunningTakesHead, RunningKeepsTypes DEF RunSend, TypeOK
    <3>2. CASE ~RunSend(m, n)
      BY <3>2 DEF LoopSend, loopVars, Queue, TypeOK
    <3>3. QED
      BY <3>1, <3>2
  <2>3. batch' \o Append(pending, <<"complete">>) = Append(batch' \o pending, <<"complete">>)
    BY <2>2, AppendToConcat, FunctorKinds
  <2>4. QED
    BY <2>1, <2>2, <2>3 DEF Queue
<1>5. Ordered(Queue') /\ SendsOf(Queue') = SendsOf(rest)
  BY <1>3, <1>4, OthersKeepOrder
<1>6. PICK M \in {{}, {m}} : MessagesOf(Stream') = MessagesOf(Stream) \cup M
  <2>1. CASE UNCHANGED <<output, wire>>
    BY <2>1 DEF Stream
  <2>2. CASE Stream' = Stream \o UnitsOf(m)
    BY <2>2, MessagesOfConcat, StreamOfMessages
  <2>3. QED
    BY <1>1, <2>1, <2>2, SendAcceptsWhole
<1>7. Counted(m)'
  <2>1. CASE RunSend(m, n)
    <3>1. Counted(m)
      BY <2>1, RunningKeepsOrder DEF RunSend, OrderInv, QueueInOrder
    <3>2. QED
      BY <1>1, <3>1, CountsKept
  <2>2. CASE LoopSend(n) /\ m = <<"loop", sent["loop"] + 1>>
    <3>1. sent'["loop"] = m[2] /\ m[2] \in Nat
      BY <2>2, ConnectionAssumption DEF LoopSend, TypeOK, Senders, Messages
    <3>2. QED
      BY <2>2, <3>1, ConnectionAssumption DEF Counted
  <2>3. QED
    BY <2>1, <2>2
<1>8. QED
  BY <1>1, <1>3, <1>5, <1>6, <1>7, OrderKept

(* send() on another thread queues its message behind the earlier ones.    *)
LEMMA QueueSendKeepsOrder ==
    ASSUME TypeOK, SendCounted, OrderInv, NEW t \in Threads, QueueSend(t)
    PROVE  OrderInv'
<1>0. PICK m : m = <<t, sent[t]>>
  OBVIOUS
<1>1. call[t] = "send" /\ m \in Messages /\ <<"send", m>> \in Functors /\ sent[t] \in Nat
  BY <1>0, ConnectionAssumption, FunctorKinds DEF QueueSend, InCall, SendCounted, Messages, Senders
<1>2. Queue' = Append(Queue, <<"send", m>>) /\ Stream' = Stream /\ UNCHANGED sent
  BY <1>0, <1>1, EnqueueAppends DEF QueueSend, Enqueue, loopVars, dataVars, Stream
<1>3. Queue \in Seq(Functors) /\ SendsOf(Queue) \subseteq Messages /\ MessagesOf(Stream) \subseteq Messages
  BY StreamOfMessages
<1>4. \A k \in SendsOf(Queue) \cup MessagesOf(Stream) : k[1] = t => k[2] < sent[t]
  BY <1>1 DEF OrderInv, QueueInOrder, StreamInOrder, Counted
<1>5. Ordered(Queue') /\ SendsOf(Queue') = SendsOf(Queue) \cup {m}
  <2>1. /\ Ordered(Append(Queue, <<"send", m>>))
        /\ SendsOf(Append(Queue, <<"send", m>>)) =
               SendsOf(Queue) \cup {k \in Messages : <<"send", m>> = <<"send", k>>}
    <3>1. \A j \in Messages, k \in SendsOf(Queue) :
              <<"send", m>> = <<"send", j>> /\ k[1] = j[1] => k[2] < j[2]
      BY <1>0, <1>4
    <3>2. QED
      BY <1>1, <1>3, <3>1, AppendKeepsOrder DEF OrderInv, QueueInOrder
  <2>2. {k \in Messages : <<"send", m>> = <<"send", k>>} = {m}
    BY <1>1
  <2>3. QED
    BY <1>2, <2>1, <2>2
<1>6. \A k \in Messages : Counted(k) => Counted(k)'
  <2>1. Next
    BY DEF Next, ThreadNext
  <2>2. QED
    BY <2>1, CountsKept
<1>7. Counted(m)'
  <2>1. call'[t] # "send" /\ sent' = sent
    BY DEF QueueSend, TypeOK
  <2>2. QED
    BY <1>0, <1>1, <2>1 DEF Counted
<1>8. \A k \in SendsOf(Queue') : k[1] \in Threads /\ Counted(k)'
  <2>1. \A k \in SendsOf(Queue) : k[1] \in Threads /\ Counted(k)'
    BY <1>3, <1>6 DEF OrderInv, QueueInOrder
  <2>2. m[1] \in Threads
    BY <1>0
  <2>3. QED
    BY <1>5, <1>7, <2>1, <2>2
<1>9. \A k \in MessagesOf(Stream') : Counted(k)'
  BY <1>2, <1>3, <1>6 DEF OrderInv, StreamInOrder
<1>10. \A j \in SendsOf(Queue'), k \in MessagesOf(Stream') : k[1] = j[1] => k[2] < j[2]
  BY <1>0, <1>2, <1>4, <1>5 DEF OrderInv, StreamInOrder
<1>11. QED
  BY <1>5, <1>8, <1>9, <1>10 DEF OrderInv, QueueInOrder, StreamInOrder

(* Every step keeps the order of the messages.                             *)
LEMMA StepKeepsOrder ==
    ASSUME TypeOK, SendCounted, BatchInPass, OrderInv, Next
    PROVE  OrderInv'
<1>1. ASSUME Ordered(Queue'), SendsOf(Queue') \subseteq SendsOf(Queue), Stream' = Stream
      PROVE  OrderInv'
  <2>1. {} \in SUBSET Messages /\ MessagesOf(Stream') = MessagesOf(Stream) \cup {}
    BY <1>1
  <2>2. QED
    BY <1>1, <2>1, OrderKept
<1> DEFINE Others == {<<"shutdown">>, <<"destroy">>, <<"complete">>}
<1>2. Queue \in Seq(Functors) /\ Ordered(Queue)
  BY StreamOfMessages DEF OrderInv, QueueInOrder
<1>3. ASSUME UNCHANGED batch,
             pending' = pending \/ \E f \in Others : pending' = Append(pending, f)
      PROVE  Ordered(Queue') /\ SendsOf(Queue') = SendsOf(Queue)
  <2>1. Others \subseteq Functors
    BY FunctorKinds
  <2>2. CASE pending' = pending
    BY <1>2, <1>3, <2>2 DEF Queue
  <2>3. ASSUME NEW f \in Others, pending' = Append(pending, f)
        PROVE  Ordered(Queue') /\ SendsOf(Queue') = SendsOf(Queue)
    <3>1. Queue' = Append(Queue, f)
      BY <1>3, <2>1, <2>3, EnqueueAppends
    <3>2. QED
      BY <1>2, <3>1, OthersKeepOrder
  <2>4. QED
    BY <1>3, <2>2, <2>3
<1>4. CASE UNCHANGED <<batch, pending, output, wire>>
  BY <1>1, <1>3, <1>4 DEF Stream
<1>5. CASE HandleClose \/ \E t \in Threads : QueueShutdown(t)
  <2>1. UNCHANGED <<batch, output, wire>>
    BY <1>5 DEF HandleClose, Fail, QueueShutdown, loopVars, dataVars
  <2>2. pending' = pending \/ \E f \in Others : pending' = Append(pending, f)
    BY <1>5 DEF HandleClose, Fail, Destroy, QueueShutdown, Enqueue
  <2>3. QED
    BY <1>1, <1>3, <2>1, <2>2 DEF Stream
<1>6. ASSUME NEW n \in -1 .. Len(output), HandleWrite(n)
      PROVE  OrderInv'
  <2>1. Stream' = Stream /\ pending' \in {pending, Append(pending, <<"complete">>)} /\ UNCHANGED batch
    BY <1>6, WriteKeepsStream DEF HandleWrite
  <2>2. QED
    BY <1>1, <1>3, <2>1
<1>7. CASE DoPendingFunctors
  <2>1. batch = <<>> /\ pending \in Seq(Functors)
    BY <1>7 DEF DoPendingFunctors, BatchInPass, At, TypeOK
  <2>2. Queue' = Queue
    BY <1>7, <2>1, ConcatEmptySeq DEF DoPendingFunctors, Queue
  <2>3. Stream' = Stream
    BY <1>7 DEF DoPendingFunctors, dataVars, Stream
  <2>4. QED
    BY <1>1, <1>2, <2>2, <2>3
<1>8. CASE RunShutdown \/ RunDestroy \/ RunWriteComplete
  <2>1. PICK f \in Others : Running(f)
    BY <1>8 DEF RunShutdown, RunDestroy, RunWriteComplete
  <2>2. UNCHANGED <<pending, output, wire>>
    BY <1>8 DEF RunShutdown, RunDestroy, RunWriteComplete, dataVars
  <2>3. Queue' = Tail(Queue)
    BY <2>1, <2>2, RunningTakesHead DEF Queue
  <2>4. Ordered(Queue') /\ SendsOf(Queue') \subseteq SendsOf(Queue)
    BY <2>1, <2>3, RunningKeepsOrder DEF OrderInv
  <2>5. QED
    BY <1>1, <2>2, <2>4 DEF Stream
<1>9. ASSUME NEW m \in Messages, NEW n \in WriteResults, RunSend(m, n)
      PROVE  OrderInv'
  BY <1>9, SendsKeepOrder
<1>10. ASSUME NEW n \in WriteResults, LoopSend(n)
       PROVE  OrderInv'
  <2>1. <<"loop", sent["loop"] + 1>> \in Messages
    BY <1>10, LoopMessage, ConnectionAssumption DEF LoopSend, TypeOK, Senders
  <2>2. QED
    BY <1>10, <2>1, SendsKeepOrder
<1>11. ASSUME NEW t \in Threads, QueueSend(t)
       PROVE  OrderInv'
  BY <1>11, QueueSendKeepsOrder
<1>12. QED
  <2>1. \/ UNCHANGED <<batch, pending, output, wire>>
        \/ HandleClose \/ DoPendingFunctors \/ RunShutdown \/ RunDestroy \/ RunWriteComplete
        \/ \E n \in -1 .. Len(output) : HandleWrite(n)
        \/ \E m \in Messages, n \in WriteResults : RunSend(m, n)
        \/ \E n \in WriteResults : LoopSend(n)
        \/ \E t \in Threads : QueueSend(t) \/ QueueShutdown(t)
    BY DEF Next, LoopNext, ThreadNext, ConnectEstablished, Poll, HandleRead, PassDone,
           CallbackReturn, LoopShutdown, CallSend, CallShutdown, SetDisconnecting,
           loopVars, dataVars
  <2>2. QED
    BY <1>4, <1>5, <1>6, <1>7, <1>8, <1>9, <1>10, <1>11, <2>1

(* The messages of a sender stay in the order of its calls.                *)
LEMMA OrderInvHolds == Spec => []OrderInv
<1>1. Init => OrderInv
  <2> SUFFICES ASSUME Init PROVE OrderInv
    OBVIOUS
  <2>1. Queue = <<>> /\ Stream = <<>>
    <3>1. <<>> \in Seq(Functors) /\ <<>> \in Seq(Units)
      BY EmptySeq
    <3>2. QED
      BY <3>1, ConcatEmptySeq DEF Init, Queue, Stream
  <2>2. Range(<<>>) = {} /\ Len(<<>>) = 0
    <3>1. <<>> \in Seq(Functors) /\ Len(<<>>) = 0
      BY EmptySeq
    <3>2. Range(<<>>) = {<<>>[i] : i \in 1 .. Len(<<>>)}
      BY <3>1, RangeEquality, Zenon
    <3>3. QED
      BY <3>1, <3>2
  <2>3. QED
    BY <2>1, <2>2 DEF OrderInv, QueueInOrder, StreamInOrder, Ordered, SendsOf, MessagesOf
<1>2. TypeOK /\ SendCounted /\ BatchInPass /\ OrderInv /\ [Next]_vars => OrderInv'
  <2> SUFFICES ASSUME TypeOK, SendCounted, BatchInPass, OrderInv, [Next]_vars PROVE OrderInv'
    OBVIOUS
  <2>1. CASE UNCHANGED vars
    BY <2>1 DEF vars, loopVars, dataVars, threadVars, OrderInv, QueueInOrder, StreamInOrder,
                Queue, Stream, Counted
  <2>2. QED
    BY <2>1, StepKeepsOrder
<1>3. QED
  BY <1>1, <1>2, TypeInvHolds, BatchOnlyInPass, PTL DEF Spec

---------------------------------------------------------------------------
(* The refinement.                                                         *)

(* A step of the connection is one of the stream: it accepts at most one   *)
(* message, moves units to the socket, and may finish.                     *)
LEMMA StepIsAbstract ==
    ASSUME TypeOK, TypeOK', FinAfterOutput',
           Len(wire) <= Len(wire'), finSent => finSent',
           \/ Stream' = Stream
           \/ \E m \in Messages :
                /\ ~finSent /\ Stream' = Stream \o UnitsOf(m)
                /\ \A k \in MessagesOf(Stream) : k[1] = m[1] => k[2] < m[2]
    PROVE  Abstract!Next
<1>1. (\E m \in Messages : Abstract!Accept(m)) \/ UNCHANGED Stream
  <2>1. ASSUME NEW m \in Messages, ~finSent, Stream' = Stream \o UnitsOf(m),
               \A k \in MessagesOf(Stream) : k[1] = m[1] => k[2] < m[2]
        PROVE  Abstract!Accept(m)
    <3>1. \A u \in Range(Stream) : u[1] \in MessagesOf(Stream)
      BY DEF MessagesOf
    <3>2. Abstract!Later(m)
      BY <2>1, <3>1 DEF Abstract!Later, Abstract!Range, Range
    <3>3. QED
      BY <2>1, <3>2 DEF Abstract!Accept, UnitsOf
  <2>2. QED
    BY <2>1
<1>2. Abstract!Take
  <2>1. wire' \in Seq(Units) /\ output' \in Seq(Units) /\ Len(wire) \in Nat
    BY LenProperties DEF TypeOK
  <2>2. wire' = SubSeq(Stream', 1, Len(wire'))
    BY <2>1, FrontOfConcat DEF Stream
  <2>3. Len(wire') \in Len(wire) .. Len(Stream')
    BY <2>1, ConcatProperties, LenProperties DEF Stream
  <2>4. QED
    BY <2>2, <2>3 DEF Abstract!Take
<1>3. Abstract!Finish \/ UNCHANGED finSent
  <2>1. CASE finSent'
    <3>1. wire' = Stream'
      BY <2>1, ConcatEmptySeq DEF FinAfterOutput, TypeOK, Stream
    <3>2. QED
      BY <2>1, <3>1 DEF Abstract!Finish, TypeOK
  <2>2. CASE ~finSent'
    BY <2>2 DEF TypeOK
  <2>3. QED
    BY <2>1, <2>2
<1>4. QED
  BY <1>1, <1>2, <1>3 DEF Abstract!Next

(* What the peer gets is whole messages, those of one sender in the order  *)
(* of its calls of send(), and the FIN behind them, for any number of      *)
(* sending threads, any lengths and any cuts by write(2).                  *)
THEOREM ConnectionImplementsMessageStream == Spec => ImplementsMessageStream
<1>1. Init => Abstract!Init
  BY EmptySeq, ConcatEmptySeq DEF Init, Abstract!Init, Stream
<1>2. TypeOK /\ TypeOK' /\ FinAfterOutput' /\ OrderInv /\ [Next]_vars
          => [Abstract!Next]_(Abstract!vars)
  <2> SUFFICES ASSUME TypeOK, TypeOK', FinAfterOutput', OrderInv, [Next]_vars
               PROVE  [Abstract!Next]_(Abstract!vars)
    OBVIOUS
  <2>1. CASE UNCHANGED <<output, wire, finSent>>
    BY <2>1 DEF Stream, Abstract!vars
  <2>2. ASSUME NEW n \in -1 .. Len(output), HandleWrite(n)
        PROVE  Abstract!Next
    BY <2>2, WriteKeepsStream, StepIsAbstract
  <2>3. CASE RunShutdown \/ LoopShutdown
    <3>1. UNCHANGED <<output, wire>> /\ (finSent => finSent')
      BY <2>3 DEF RunShutdown, LoopShutdown, ShutdownInLoop
    <3>2. Len(wire) <= Len(wire') /\ Stream' = Stream
      BY <3>1, LenProperties DEF Stream, TypeOK
    <3>3. QED
      BY <3>1, <3>2, StepIsAbstract
  <2>4. ASSUME NEW m \in Messages, NEW n \in WriteResults, SendInLoop(m, n),
               RunSend(m, n) \/ (LoopSend(n) /\ m = <<"loop", sent["loop"] + 1>>)
        PROVE  [Abstract!Next]_(Abstract!vars)
    <3>1. CASE UNCHANGED <<output, wire>>
      BY <2>4, <3>1, SendAcceptsWhole DEF Stream, Abstract!vars
    <3>2. CASE ~finSent /\ Stream' = Stream \o UnitsOf(m) /\ Len(wire) <= Len(wire')
      <4>1. \A k \in MessagesOf(Stream) : k[1] = m[1] => k[2] < m[2]
        BY <2>4, SentLater
      <4>2. QED
        BY <3>2, <4>1, StepIsAbstract
    <3>3. QED
      BY <2>4, <3>1, <3>2, SendAcceptsWhole
  <2>5. ASSUME NEW m \in Messages, NEW n \in WriteResults, RunSend(m, n)
        PROVE  [Abstract!Next]_(Abstract!vars)
    BY <2>4, <2>5 DEF RunSend
  <2>6. ASSUME NEW n \in WriteResults, LoopSend(n)
        PROVE  [Abstract!Next]_(Abstract!vars)
    <3>1. sent'["loop"] = sent["loop"] + 1
      BY <2>6, ConnectionAssumption DEF LoopSend, TypeOK, Senders
    <3>2. <<"loop", sent["loop"] + 1>> \in Messages /\ SendInLoop(<<"loop", sent["loop"] + 1>>, n)
      BY <2>6, <3>1, LoopMessage DEF LoopSend
    <3>3. QED
      BY <2>4, <2>6, <3>2
  <2>7. QED
    <3>1. \/ UNCHANGED <<output, wire, finSent>>
          \/ \E n \in -1 .. Len(output) : HandleWrite(n)
          \/ RunShutdown \/ LoopShutdown
          \/ \E m \in Messages, n \in WriteResults : RunSend(m, n)
          \/ \E n \in WriteResults : LoopSend(n)
      BY DEF Next, LoopNext, ThreadNext, ConnectEstablished, Poll, HandleRead, HandleClose, Fail,
             Destroy, DoPendingFunctors, RunDestroy, RunWriteComplete, PassDone, CallbackReturn,
             CallSend, QueueSend, CallShutdown, SetDisconnecting, QueueShutdown, dataVars, vars
    <3>2. QED
      BY <2>1, <2>2, <2>3, <2>5, <2>6, <3>1
<1>3. QED
  BY <1>1, <1>2, TypeCorrect, FinComesLast, OrderInvHolds, PTL DEF Spec, ImplementsMessageStream, Abstract!Spec
=============================================================================
