--------------------------- MODULE MessageStream ---------------------------
(***************************************************************************)
(* What a TcpConnection promises to those who call send() and shutdown(),  *)
(* with no loop, no buffer and no partial write in sight: the peer gets a  *)
(* stream of whole messages, those of one sender in the order it sent them,*)
(* each at most once; the socket takes the stream from its front; and the  *)
(* FIN, after which nothing is accepted, comes when it has taken all of it.*)
(* A message may be lost, as a whole.                                      *)
(***************************************************************************)
EXTENDS Integers, Sequences, Functions

CONSTANTS Messages,     \* <<s, n>> is the n-th message of s
          MsgLen        \* units of a message

VARIABLES stream,       \* the units accepted, in the order they will go out
          wire,         \* those the socket has taken
          finished      \* the FIN has been sent

vars == <<stream, wire, finished>>

Init == stream = <<>> /\ wire = <<>> /\ finished = FALSE

(* m was sent after all the messages of its sender that are in the stream. *)
Later(m) == \A u \in Range(stream) : u[1][1] = m[1] => u[1][2] < m[2]

Accept(m) ==
    /\ ~finished
    /\ Later(m)
    /\ stream' = stream \o [i \in 1 .. MsgLen |-> <<m, i>>]

(* The socket takes some of what there is, or nothing.                     *)
Take ==
    \E n \in Len(wire) .. Len(stream') : wire' = SubSeq(stream', 1, n)

Finish == finished' = TRUE /\ wire' = stream'

(* Accepting, writing and finishing may come in one step, as they do where *)
(* write(2) is tried at once, and where the last of the output is written. *)
Next ==
    /\ (\E m \in Messages : Accept(m)) \/ UNCHANGED stream
    /\ Take
    /\ Finish \/ UNCHANGED finished

Spec == Init /\ [][Next]_vars
=============================================================================
