----------------------------- MODULE TaskQueue -----------------------------
(***************************************************************************)
(* What runInLoop and queueInLoop promise to their callers, with no loop,  *)
(* no poll and no wakeup in sight: a task handed over is run exactly once, *)
(* and tasks that were queued are run in the order they were queued in.    *)
(* A task the owner thread runs on the spot overtakes the queue.           *)
(***************************************************************************)
EXTENDS Sequences, Functions

CONSTANT Tasks

VARIABLES queue,   \* tasks handed over and not yet started
          ran      \* tasks started, in the order they were started

vars == <<queue, ran>>

Fresh(f) == f \notin Range(queue) \cup Range(ran)

Init == queue = <<>> /\ ran = <<>>

Submit(f) ==
    /\ Fresh(f)
    /\ queue' = Append(queue, f)
    /\ UNCHANGED ran

RunNow(f) ==
    /\ Fresh(f)
    /\ ran' = Append(ran, f)
    /\ UNCHANGED queue

RunNext ==
    /\ queue # <<>>
    /\ ran' = Append(ran, Head(queue))
    /\ queue' = Tail(queue)

Next ==
    \/ \E f \in Tasks : Submit(f) \/ RunNow(f)
    \/ RunNext

Spec == Init /\ [][Next]_vars
=============================================================================
