----------------------------- MODULE MCObjects -----------------------------
(***************************************************************************)
(* A TLC instance of the three components that only answer their callers:  *)
(* a PollPoller with its channels, a Buffer, and a RateLimiter with its    *)
(* mutex. They share nothing, and only safety is asked of them: a behaviour*)
(* is one of one of the three, and the other two stay as they began.       *)
(*                                                                         *)
(* The poller has three descriptors, one of them used by two channel       *)
(* objects, as a descriptor that the kernel hands out again. The buffer    *)
(* gets chunks shorter than, as long as and longer than the room that can  *)
(* be left. The limiter has two callers, and may be without a limit.       *)
(***************************************************************************)
EXTENDS PollPoller, Buffer, RateLimiter, TLC

CONSTANTS c1, c2, c3, c4, t1, t2

MCFdOf == [c \in Channels |-> CASE c = c1 -> 5 [] c = c2 -> 6 [] c = c3 -> 7 [] c = c4 -> 5]
MCChunks == {<<"a">>, <<"a", "b">>, <<"b", "a", "b">>, <<"a", "b", "b", "a">>}
TwoCallers == {t1, t2}
NoneOrTwo == {0, 2}
Symmetry == Permutations(TwoCallers)

VARIABLE which     \* the one that this behaviour is about

ObjectsInit ==
    /\ which \in {"poller", "buffer", "limiter"}
    /\ PollerInit /\ BufferInit /\ Init
    /\ which # "limiter" => interval = 2 /\ holder = Nobody

ObjectsNext ==
    /\ UNCHANGED which
    /\ \/ which = "poller" /\ PollerNext /\ UNCHANGED <<buf, vars>>
       \/ which = "buffer" /\ BufferNext /\ UNCHANGED <<pollerVars, vars>>
       \/ which = "limiter" /\ Next /\ UNCHANGED <<pollerVars, buf>>

ObjectsSpec == ObjectsInit /\ [][ObjectsNext]_<<which, pollerVars, buf, vars>>
=============================================================================
