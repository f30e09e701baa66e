------------------------------ MODULE ByteFifo ------------------------------
(***************************************************************************)
(* What a Buffer promises to its users: a queue of bytes. Bytes come out in*)
(* the order they were put in; prepend() puts some back at the front.      *)
(***************************************************************************)
EXTENDS Integers, Sequences

CONSTANT Chunks     \* the sequences of bytes its users handle

VARIABLE bytes

Init == bytes = <<>>

PutLast(s) == bytes' = bytes \o s

PutFirst(s) == bytes' = s \o bytes

TakeFirst(n) == bytes' = SubSeq(bytes, n + 1, Len(bytes))

Next ==
    \/ \E s \in Chunks : PutLast(s) \/ PutFirst(s)
    \/ \E n \in 0 .. Len(bytes) : TakeFirst(n)

Spec == Init /\ [][Next]_bytes
=============================================================================
