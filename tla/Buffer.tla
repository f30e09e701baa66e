------------------------------- MODULE Buffer -------------------------------
(***************************************************************************)
(* Buffer (net/wf_buffer.cc): a vector and two indices into it. The bytes  *)
(* between them are readable; in front of them is room to prepend, behind  *)
(* them room to append, which makeSpace() gains by moving the bytes to the *)
(* front or by enlarging the vector.                                       *)
(* A buffer is a record, and an operation an operator from the buffer      *)
(* before it to the buffer after it.                                       *)
(***************************************************************************)
EXTENDS Integers, Sequences

CONSTANTS Byte,
          Zero,           \* what the vector is filled with
          kCheapPrepend, kInitialSize,
          ExtraSize,      \* the size of readFd()'s extrabuf
          Chunks,         \* what users append and prepend, and readv(2) delivers
          MaxBytes        \* bound on the bytes held at a time

ASSUME BufferAssumption ==
    /\ Zero \in Byte
    /\ kCheapPrepend \in Nat /\ kInitialSize \in Nat /\ ExtraSize \in Nat
    /\ Chunks \subseteq Seq(Byte)
    /\ MaxBytes \in Nat

VARIABLE buf

readableBytes(b) == b.writer - b.reader
writableBytes(b) == b.size - b.writer
prependableBytes(b) == b.reader

(* The readable bytes, from peek() on.                                     *)
Contents(b) == [i \in 1 .. readableBytes(b) |-> b.data[b.reader + i - 1]]

Vector(n) == [0 .. n - 1 -> Byte]

Make(n, data, reader, writer) ==
    [size |-> n, data |-> data, reader |-> reader, writer |-> writer]

(* The indices are in order and within the vector.                         *)
IsBuffer(b) ==
    /\ b = Make(b.size, b.data, b.reader, b.writer)
    /\ b.size \in Nat
    /\ b.data \in Vector(b.size)
    /\ b.reader \in Nat /\ b.writer \in Nat
    /\ kCheapPrepend <= b.size
    /\ b.reader <= b.writer /\ b.writer <= b.size

BufferTypeOK == IsBuffer(buf)

BufferInit ==
    buf = Make(kCheapPrepend + kInitialSize,
               [i \in 0 .. kCheapPrepend + kInitialSize - 1 |-> Zero],
               kCheapPrepend, kCheapPrepend)

---------------------------------------------------------------------------
(* std::copy of s to position p.                                           *)
CopyTo(data, p, s) ==
    [i \in DOMAIN data |-> IF i \in p .. p + Len(s) - 1 THEN s[i - p + 1] ELSE data[i]]

(* resize() to n: what is new is filled with Zero.                         *)
Resized(b, n) ==
    Make(n, [i \in 0 .. n - 1 |-> IF i < b.size THEN b.data[i] ELSE Zero],
         b.reader, b.writer)

(* A mutant of MovedToFront: the room for prepend() is given away.         *)
MovedToZero(b) ==
    Make(b.size, CopyTo(b.data, 0, Contents(b)), 0, readableBytes(b))

MovedToFront(b) ==
    Make(b.size, CopyTo(b.data, kCheapPrepend, Contents(b)),
         kCheapPrepend, kCheapPrepend + readableBytes(b))

(* A mutant of MovingIsNotEnough: the bytes are never moved.               *)
NeverMove(b, len) == TRUE

MovingIsNotEnough(b, len) ==
    writableBytes(b) + prependableBytes(b) < len + kCheapPrepend

makeSpace(b, len) ==
    IF MovingIsNotEnough(b, len) THEN Resized(b, b.writer + len) ELSE MovedToFront(b)

(* s written at beginWrite().                                              *)
Written(b, s) ==
    Make(b.size, CopyTo(b.data, b.writer, s), b.reader, b.writer + Len(s))

append(b, s) ==
    Written(IF writableBytes(b) < Len(s) THEN makeSpace(b, Len(s)) ELSE b, s)

prepend(b, s) ==
    Make(b.size, CopyTo(b.data, b.reader - Len(s), s), b.reader - Len(s), b.writer)

(* A mutant of retrieve: one byte too many is skipped.                     *)
SkipOneMore(b, n) == Make(b.size, b.data, b.reader + n + 1, b.writer)

retrieve(b, n) == Make(b.size, b.data, b.reader + n, b.writer)

retrieveAll(b) == Make(b.size, b.data, kCheapPrepend, kCheapPrepend)

(* readFd(): readv(2) fills the writable part first and extrabuf with the  *)
(* rest, which is appended once the vector is full.                        *)
readFd(b, s) ==
    LET room == writableBytes(b) IN
    IF Len(s) <= room
    THEN Written(b, s)
    ELSE append(Written(b, SubSeq(s, 1, room)), SubSeq(s, room + 1, Len(s)))

---------------------------------------------------------------------------
Fits(s) == readableBytes(buf) + Len(s) <= MaxBytes

AppendData(s) == Fits(s) /\ buf' = append(buf, s)

(* The assert of prepend() is its callers' duty, as that of retrieve() is. *)
Prepend(s) ==
    /\ Fits(s)
    /\ Len(s) <= prependableBytes(buf)
    /\ buf' = prepend(buf, s)

Retrieve(n) ==
    /\ n <= readableBytes(buf)
    /\ buf' = retrieve(buf, n)

(* retrieveAll(), and retrieveAsString() of everything.                    *)
RetrieveAll == buf' = retrieveAll(buf)

ReadFd(s) ==
    /\ Fits(s)
    /\ Len(s) <= writableBytes(buf) + ExtraSize
    /\ buf' = readFd(buf, s)

BufferNext ==
    \/ \E s \in Chunks : AppendData(s) \/ Prepend(s) \/ ReadFd(s)
    \/ \E n \in 0 .. MaxBytes : Retrieve(n)
    \/ RetrieveAll

BufferSpec == BufferInit /\ [][BufferNext]_buf

---------------------------------------------------------------------------
(* Properties.                                                             *)

(* However appends, partial retrievals, prepends, moves and resizes follow *)
(* each other, the readable bytes are a queue: none is lost, duplicated,   *)
(* reordered or overwritten.                                               *)
Fifo == INSTANCE ByteFifo WITH bytes <- Contents(buf)
ImplementsByteFifo == Fifo!Spec

(* Memory stays within twice what is held at a time: space that was        *)
(* retrieved is used again, although retrieve() never moves the indices    *)
(* back.                                                                   *)
MemoryBounded ==
    \/ buf.size <= kCheapPrepend + kInitialSize
    \/ buf.size <= kCheapPrepend + 2 * MaxBytes

(* Only prepend() uses up the room for prepending: what an append or a     *)
(* retrieval leaves is kCheapPrepend, or what there was.                   *)
PrependRoomKept ==
    [][(\E s \in Chunks : Prepend(s))
       \/ buf'.reader >= buf.reader \/ buf'.reader >= kCheapPrepend]_buf
=============================================================================
