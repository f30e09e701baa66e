---------------------------- MODULE InputProofs -----------------------------
(***************************************************************************)
(* Proofs about what becomes of input. First about Buffer, for vectors,    *)
(* chunks and bounds of any size: each operator gets a lemma that says     *)
(* what it returns - a buffer again, and what has become of its contents - *)
(* and the theorems follow action by action. Then about HttpServer, for    *)
(* any set of requests and any number of them: the parser, the replies and *)
(* the requests, each with its invariant.                                  *)
(***************************************************************************)
EXTENDS Buffer, HttpServer, SequenceTheorems, TLAPS

(* ------------------------------ The buffer ----------------------------- *)

USE DEF readableBytes, writableBytes, prependableBytes, Make

(* What the proofs need of the indices, for steps of arithmetic alone.     *)
LEMMA IndicesInOrder ==
    ASSUME NEW b, IsBuffer(b)
    PROVE  /\ b.size \in Nat /\ b.reader \in Nat /\ b.writer \in Nat
           /\ b.reader <= b.writer /\ b.writer <= b.size /\ kCheapPrepend <= b.size
           /\ kCheapPrepend \in Nat
BY BufferAssumption DEF IsBuffer

(* The contents are a sequence as long as the indices say.                 *)
LEMMA ContentsAreBytes ==
    ASSUME NEW b, IsBuffer(b)
    PROVE  /\ Contents(b) \in Seq(Byte)
           /\ Len(Contents(b)) = b.writer - b.reader
           /\ \A i \in 1 .. b.writer - b.reader : Contents(b)[i] = b.data[b.reader + i - 1]
<1> DEFINE n == b.writer - b.reader
<1>1. n \in Nat
  BY DEF IsBuffer
<1>2. \A i \in 1 .. n : b.reader + i - 1 \in 0 .. b.size - 1
  BY DEF IsBuffer
<1>3. \A i \in 1 .. n : b.data[b.reader + i - 1] \in Byte
  BY <1>2 DEF IsBuffer, Vector
<1>4. Contents(b) = [i \in 1 .. n |-> b.data[b.reader + i - 1]]
  BY DEF Contents
<1>5. Contents(b) \in [1 .. n -> Byte]
  BY <1>3, <1>4
<1>6. QED
  BY <1>1, <1>4, <1>5

(* A sequence with the elements of s, then those of t, is s \o t.          *)
LEMMA IsConcatenation ==
    ASSUME NEW s \in Seq(Byte), NEW t \in Seq(Byte), NEW u \in Seq(Byte),
           Len(u) = Len(s) + Len(t),
           \A i \in 1 .. Len(s) + Len(t) : u[i] = IF i <= Len(s) THEN s[i] ELSE t[i - Len(s)]
    PROVE  u = s \o t
<1>1. /\ s \o t \in Seq(Byte)
      /\ Len(s \o t) = Len(s) + Len(t)
      /\ \A i \in 1 .. Len(s) + Len(t) :
             (s \o t)[i] = IF i <= Len(s) THEN s[i] ELSE t[i - Len(s)]
  BY ConcatProperties
<1> DEFINE v == s \o t
<1>2. v \in Seq(Byte) /\ Len(v) = Len(u) /\ \A i \in 1 .. Len(u) : u[i] = v[i]
  BY <1>1
<1> HIDE DEF v
<1>3. u = v
  BY <1>2, SeqEqual
<1>4. QED
  BY <1>3 DEF v

(* Two buffers that hold the same bytes have the same contents.            *)
LEMMA SameContents ==
    ASSUME NEW a, IsBuffer(a), NEW b, IsBuffer(b),
           a.writer - a.reader = b.writer - b.reader,
           \A i \in 1 .. b.writer - b.reader :
               a.data[a.reader + i - 1] = b.data[b.reader + i - 1]
    PROVE  Contents(a) = Contents(b)
BY DEF Contents

(* resize() to a larger vector keeps the contents where they are.          *)
LEMMA ResizedKeepsContents ==
    ASSUME NEW b, IsBuffer(b), NEW n \in Nat, b.size <= n
    PROVE  /\ IsBuffer(Resized(b, n))
           /\ Contents(Resized(b, n)) = Contents(b)
           /\ Resized(b, n).size = n
           /\ Resized(b, n).reader = b.reader /\ Resized(b, n).writer = b.writer
<1> DEFINE d == [i \in 0 .. n - 1 |-> IF i < b.size THEN b.data[i] ELSE Zero]
           r == Make(n, d, b.reader, b.writer)
<1>1. Resized(b, n) = r
  BY DEF Resized
<1>2. d \in Vector(n)
  <2>1. \A i \in 0 .. n - 1 : i < b.size => b.data[i] \in Byte
    BY DEF IsBuffer, Vector
  <2>2. QED
    BY <2>1, BufferAssumption DEF Vector
<1>3. IsBuffer(r)
  BY <1>2, BufferAssumption DEF IsBuffer
<1>4. \A i \in 1 .. b.writer - b.reader : r.data[r.reader + i - 1] = b.data[b.reader + i - 1]
  BY DEF IsBuffer
<1>5. Contents(r) = Contents(b)
  BY <1>3, <1>4 DEF Contents
<1>6. QED
  BY <1>1, <1>3, <1>5

(* Moving the contents to the front keeps them.                            *)
LEMMA MovedKeepsContents ==
    ASSUME NEW b, IsBuffer(b), kCheapPrepend + (b.writer - b.reader) <= b.size
    PROVE  LET r == MovedToFront(b) IN
           /\ IsBuffer(r)
           /\ Contents(r) = Contents(b)
           /\ r.size = b.size
           /\ r.reader = kCheapPrepend /\ r.writer = kCheapPrepend + (b.writer - b.reader)
<1> DEFINE n == b.writer - b.reader
           d == CopyTo(b.data, kCheapPrepend, Contents(b))
           r == Make(b.size, d, kCheapPrepend, kCheapPrepend + n)
<1>1. MovedToFront(b) = r
  BY DEF MovedToFront
<1>2. n \in Nat /\ kCheapPrepend \in Nat /\ b.size \in Nat
  BY BufferAssumption DEF IsBuffer
<1>3. /\ Len(Contents(b)) = n
      /\ \A i \in 1 .. n : Contents(b)[i] \in Byte
      /\ \A i \in 1 .. n : Contents(b)[i] = b.data[b.reader + i - 1]
  BY ContentsAreBytes
<1>4. d = [i \in 0 .. b.size - 1 |->
              IF i \in kCheapPrepend .. kCheapPrepend + n - 1
              THEN Contents(b)[i - kCheapPrepend + 1] ELSE b.data[i]]
  BY <1>3 DEF CopyTo, IsBuffer, Vector
<1>5. d \in Vector(b.size)
  <2>1. \A i \in 0 .. b.size - 1 : b.data[i] \in Byte
    BY DEF IsBuffer, Vector
  <2>2. \A i \in kCheapPrepend .. kCheapPrepend + n - 1 : i - kCheapPrepend + 1 \in 1 .. n
    BY <1>2
  <2>3. QED
    BY <1>2, <1>3, <1>4, <2>1, <2>2 DEF Vector
<1>6. IsBuffer(r)
  <2> HIDE DEF d
  <2>1. QED
    BY <1>2, <1>5 DEF IsBuffer
<1>7. \A i \in 1 .. n : d[kCheapPrepend + i - 1] = b.data[b.reader + i - 1]
  <2>1. ASSUME NEW i \in 1 .. n PROVE d[kCheapPrepend + i - 1] = Contents(b)[i]
    <3>1. kCheapPrepend + i - 1 \in 0 .. b.size - 1
      BY <1>2
    <3>2. kCheapPrepend + i - 1 \in kCheapPrepend .. kCheapPrepend + n - 1
      BY <1>2
    <3>3. (kCheapPrepend + i - 1) - kCheapPrepend + 1 = i
      BY <1>2
    <3>4. QED
      BY <1>4, <3>1, <3>2, <3>3
  <2>2. QED
    BY <2>1, <1>3
<1>8. Contents(r) = Contents(b)
  <2> HIDE DEF d
  <2>1. r.writer - r.reader = n
    BY <1>2
  <2>2. QED
    BY <1>6, <1>7, <2>1, SameContents
<1>9. QED
  <2> HIDE DEF d
  <2>1. QED
    BY <1>1, <1>6, <1>8

(* makeSpace() makes room for len bytes and keeps the contents; it enlarges*)
(* the vector only if len more bytes would not have fitted otherwise.      *)
LEMMA MakeSpaceMakesRoom ==
    ASSUME NEW b, IsBuffer(b), NEW len \in Nat, writableBytes(b) < len
    PROVE  LET r == makeSpace(b, len) IN
           /\ IsBuffer(r)
           /\ Contents(r) = Contents(b)
           /\ len <= r.size - r.writer
           /\ r.reader >= b.reader \/ r.reader >= kCheapPrepend
           /\ \/ r.size = b.size
              \/ r.size <= kCheapPrepend + 2 * (b.writer - b.reader + len)
<1>1. /\ b.size \in Nat /\ b.reader \in Nat /\ b.writer \in Nat
      /\ b.reader <= b.writer /\ b.writer <= b.size /\ kCheapPrepend \in Nat
  BY IndicesInOrder
<1>2. CASE MovingIsNotEnough(b, len)
  <2> DEFINE r == Resized(b, b.writer + len)
  <2>1. makeSpace(b, len) = r
    BY <1>2 DEF makeSpace
  <2>2. b.writer + len \in Nat /\ b.size <= b.writer + len
    BY <1>1
  <2>3. b.writer + len <= kCheapPrepend + 2 * (b.writer - b.reader + len)
    BY <1>1, <1>2 DEF MovingIsNotEnough
  <2>4. /\ IsBuffer(r) /\ Contents(r) = Contents(b)
        /\ r.size = b.writer + len /\ r.reader = b.reader /\ r.writer = b.writer
    BY <2>2, ResizedKeepsContents
  <2> HIDE DEF r
  <2>5. len <= r.size - r.writer
    BY <1>1, <2>4
  <2>6. r.reader >= b.reader
    BY <1>1, <2>4
  <2>7. QED
    BY <2>1, <2>3, <2>4, <2>5, <2>6
<1>3. CASE ~MovingIsNotEnough(b, len)
  <2> DEFINE r == MovedToFront(b)
  <2>1. makeSpace(b, len) = r
    BY <1>3 DEF makeSpace
  <2>2. kCheapPrepend + (b.writer - b.reader) <= b.size - len
    BY <1>1, <1>3 DEF MovingIsNotEnough
  <2>3. kCheapPrepend + (b.writer - b.reader) <= b.size
    BY <1>1, <2>2
  <2>4. /\ IsBuffer(r) /\ Contents(r) = Contents(b) /\ r.size = b.size
        /\ r.reader = kCheapPrepend /\ r.writer = kCheapPrepend + (b.writer - b.reader)
    BY <2>3, MovedKeepsContents
  <2> HIDE DEF r
  <2>5. len <= r.size - r.writer
    BY <1>1, <2>2, <2>4
  <2>6. r.reader >= kCheapPrepend
    BY <1>1, <2>4
  <2>7. QED
    BY <2>1, <2>4, <2>5, <2>6
<1>4. QED
  BY <1>2, <1>3

---------------------------------------------------------------------------

(* A copy that fits writes the bytes it is given, and no others.           *)
LEMMA CopyWritesOnlyItsRange ==
    ASSUME NEW n \in Nat, NEW data \in Vector(n), NEW s \in Seq(Byte), NEW p \in Nat
    PROVE  /\ CopyTo(data, p, s) \in Vector(n)
           /\ \A i \in 0 .. n - 1 : i < p \/ p + Len(s) <= i => CopyTo(data, p, s)[i] = data[i]
           /\ \A i \in 1 .. Len(s) : p + i - 1 < n => CopyTo(data, p, s)[p + i - 1] = s[i]
<1>1. Len(s) \in Nat /\ \A i \in 1 .. Len(s) : s[i] \in Byte
  OBVIOUS
<1>2. CopyTo(data, p, s) =
        [i \in 0 .. n - 1 |-> IF i \in p .. p + Len(s) - 1 THEN s[i - p + 1] ELSE data[i]]
  BY DEF CopyTo, Vector
<1>3. \A i \in 0 .. n - 1 : data[i] \in Byte
  BY DEF Vector
<1>4. \A i \in 0 .. n - 1 : i \in p .. p + Len(s) - 1 => i - p + 1 \in 1 .. Len(s)
  BY <1>1
<1>5. CopyTo(data, p, s) \in Vector(n)
  BY <1>1, <1>2, <1>3, <1>4 DEF Vector
<1>6. \A i \in 0 .. n - 1 : i < p \/ p + Len(s) <= i => CopyTo(data, p, s)[i] = data[i]
  BY <1>1, <1>2
<1>7. ASSUME NEW i \in 1 .. Len(s), p + i - 1 < n PROVE CopyTo(data, p, s)[p + i - 1] = s[i]
  <2>1. p + i - 1 \in 0 .. n - 1 /\ p + i - 1 \in p .. p + Len(s) - 1
    BY <1>1, <1>7
  <2>2. (p + i - 1) - p + 1 = i
    OBVIOUS
  <2>3. QED
    BY <1>2, <2>1, <2>2
<1>8. QED
  BY <1>5, <1>6, <1>7

(* Where byte i of n is, when the first is at r.                           *)
LEMMA PositionInRange ==
    ASSUME NEW r \in Nat, NEW n \in Nat, NEW w \in Nat, NEW z \in Nat,
           w = r + n, w <= z, NEW i \in 1 .. n
    PROVE  r + i - 1 \in 0 .. z - 1 /\ r + i - 1 < w
OBVIOUS

(* What is written at beginWrite() joins the end of the contents.          *)
LEMMA WrittenExtends ==
    ASSUME NEW b, IsBuffer(b), NEW s \in Seq(Byte), Len(s) <= b.size - b.writer
    PROVE  /\ IsBuffer(Written(b, s))
           /\ Contents(Written(b, s)) = Contents(b) \o s
           /\ Written(b, s).size = b.size
           /\ Written(b, s).reader = b.reader
           /\ Written(b, s).writer = b.writer + Len(s)
<1> DEFINE n == b.writer - b.reader
           d == CopyTo(b.data, b.writer, s)
           r == Make(b.size, d, b.reader, b.writer + Len(s))
<1>1. Written(b, s) = r
  BY DEF Written
<1>2. /\ Len(s) \in Nat /\ n \in Nat
      /\ b.size \in Nat /\ b.reader \in Nat /\ b.writer \in Nat
      /\ b.writer = b.reader + n /\ b.writer <= b.size
  BY IndicesInOrder
<1>3. /\ d \in Vector(b.size)
      /\ \A i \in 0 .. b.size - 1 : i < b.writer => d[i] = b.data[i]
      /\ \A i \in 1 .. Len(s) : b.writer + i - 1 < b.size => d[b.writer + i - 1] = s[i]
  <2>1. b.data \in Vector(b.size)
    BY DEF IsBuffer
  <2> DEFINE p == b.writer
  <2>2. b.size \in Nat /\ p \in Nat
    BY <1>2
  <2> HIDE DEF p
  <2>3. /\ CopyTo(b.data, p, s) \in Vector(b.size)
        /\ \A i \in 0 .. b.size - 1 :
              i < p \/ p + Len(s) <= i => CopyTo(b.data, p, s)[i] = b.data[i]
        /\ \A i \in 1 .. Len(s) : p + i - 1 < b.size => CopyTo(b.data, p, s)[p + i - 1] = s[i]
    BY <2>1, <2>2, CopyWritesOnlyItsRange
  <2>4. QED
    BY <2>3 DEF p
<1> HIDE DEF d
<1>4. IsBuffer(r)
  BY <1>2, <1>3 DEF IsBuffer
<1>5. /\ Contents(r) \in Seq(Byte) /\ Len(Contents(r)) = n + Len(s)
      /\ \A i \in 1 .. n + Len(s) : Contents(r)[i] = d[b.reader + i - 1]
  <2>1. r.writer - r.reader = n + Len(s)
    BY <1>2
  <2>2. QED
    BY <1>4, <2>1, ContentsAreBytes
<1>6. /\ Contents(b) \in Seq(Byte) /\ Len(Contents(b)) = n
      /\ \A i \in 1 .. n : Contents(b)[i] = b.data[b.reader + i - 1]
  BY ContentsAreBytes
<1>8. ASSUME NEW i \in 1 .. n + Len(s)
      PROVE  d[b.reader + i - 1] = IF i <= n THEN Contents(b)[i] ELSE s[i - n]
  <2> HIDE DEF n
  <2>1. CASE i <= n
    <3>1. i \in 1 .. n
      BY <1>2, <2>1
    <3>2. b.reader + i - 1 \in 0 .. b.size - 1 /\ b.reader + i - 1 < b.writer
      BY <1>2, <3>1, PositionInRange
    <3>3. QED
      BY <1>3, <1>6, <2>1, <3>1, <3>2
  <2>2. CASE ~(i <= n)
    <3>1. i - n \in 1 .. Len(s) /\ b.writer + (i - n) - 1 < b.size
      BY <1>2, <2>2
    <3>2. b.writer + (i - n) - 1 = b.reader + i - 1
      BY <1>2
    <3>3. d[b.writer + (i - n) - 1] = s[i - n]
      BY <1>3, <3>1
    <3>4. QED
      BY <2>2, <3>2, <3>3
  <2>3. QED
    BY <2>1, <2>2
<1>9. Contents(r) = Contents(b) \o s
  <2> DEFINE c == Contents(b)
             cr == Contents(r)
  <2>1. /\ c \in Seq(Byte) /\ Len(c) = n /\ cr \in Seq(Byte) /\ Len(cr) = n + Len(s)
        /\ \A i \in 1 .. n + Len(s) : cr[i] = IF i <= n THEN c[i] ELSE s[i - n]
    BY <1>5, <1>6, <1>8
  <2> HIDE DEF c, cr, n
  <2>2. cr = c \o s
    BY <2>1, IsConcatenation
  <2>3. QED
    BY <2>2 DEF c, cr
<1>10. QED
  BY <1>1, <1>4, <1>9

(* How large an operation that adds len bytes may leave the vector.        *)
Grown(b, r, len) ==
    r.size = b.size \/ r.size <= kCheapPrepend + 2 * (b.writer - b.reader + len)

(* append() joins its bytes to the contents, whether or not they fitted.   *)
LEMMA AppendExtends ==
    ASSUME NEW b, IsBuffer(b), NEW s \in Seq(Byte)
    PROVE  LET r == append(b, s) IN
           /\ IsBuffer(r)
           /\ Contents(r) = Contents(b) \o s
           /\ r.reader >= b.reader \/ r.reader >= kCheapPrepend
           /\ Grown(b, r, Len(s))
<1>1. Len(s) \in Nat
  OBVIOUS
<1>2. CASE writableBytes(b) < Len(s)
  <2> DEFINE m == makeSpace(b, Len(s))
  <2>1. append(b, s) = Written(m, s)
    BY <1>2 DEF append
  <2>2. /\ IsBuffer(m) /\ Contents(m) = Contents(b) /\ Len(s) <= m.size - m.writer
        /\ m.reader >= b.reader \/ m.reader >= kCheapPrepend
        /\ \/ m.size = b.size
           \/ m.size <= kCheapPrepend + 2 * (b.writer - b.reader + Len(s))
    BY <1>1, <1>2, MakeSpaceMakesRoom
  <2> HIDE DEF m
  <2>3. /\ IsBuffer(Written(m, s)) /\ Contents(Written(m, s)) = Contents(m) \o s
        /\ Written(m, s).size = m.size /\ Written(m, s).reader = m.reader
    BY <2>2, WrittenExtends
  <2>4. QED
    BY <2>1, <2>2, <2>3 DEF Grown
<1>3. CASE ~(writableBytes(b) < Len(s))
  <2>1. append(b, s) = Written(b, s)
    BY <1>3 DEF append
  <2>2. Len(s) <= b.size - b.writer
    BY <1>1, <1>3 DEF IsBuffer
  <2>3. b.reader >= b.reader
    BY DEF IsBuffer
  <2>4. QED
    BY <2>1, <2>2, <2>3, WrittenExtends DEF Grown
<1>4. QED
  BY <1>2, <1>3

(* A sequence is its first part followed by the rest of it.                *)
LEMMA SplitSequence ==
    ASSUME NEW s \in Seq(Byte), NEW n \in 0 .. Len(s)
    PROVE  LET t == SubSeq(s, 1, n)
               u == SubSeq(s, n + 1, Len(s)) IN
           /\ t \in Seq(Byte) /\ Len(t) = n
           /\ u \in Seq(Byte) /\ Len(u) = Len(s) - n
           /\ \A i \in 1 .. Len(s) - n : u[i] = s[n + i]
           /\ t \o u = s
<1> DEFINE t == SubSeq(s, 1, n)
           u == SubSeq(s, n + 1, Len(s))
<1>1. Len(s) \in Nat /\ n \in Nat /\ n <= Len(s) /\ \A i \in 1 .. Len(s) : s[i] \in Byte
  OBVIOUS
<1>2. t \in Seq(Byte) /\ Len(t) = n /\ \A i \in 1 .. n : t[i] = s[i]
  <2>1. \A i \in 1 .. n : s[i] \in Byte
    BY <1>1
  <2>2. /\ t \in Seq(Byte)
        /\ Len(t) = IF 1 <= n THEN n - 1 + 1 ELSE 0
        /\ \A i \in 1 .. n - 1 + 1 : t[i] = s[1 + i - 1]
    BY <1>1, <2>1, SubSeqProperties
  <2> HIDE DEF t
  <2>3. QED
    BY <1>1, <2>2
<1>3. /\ u \in Seq(Byte) /\ Len(u) = Len(s) - n
      /\ \A i \in 1 .. Len(s) - n : u[i] = s[n + i]
  <2>1. \A i \in n + 1 .. Len(s) : s[i] \in Byte
    BY <1>1
  <2>2. /\ u \in Seq(Byte)
        /\ Len(u) = IF n + 1 <= Len(s) THEN Len(s) - (n + 1) + 1 ELSE 0
        /\ \A i \in 1 .. Len(s) - (n + 1) + 1 : u[i] = s[(n + 1) + i - 1]
    BY <1>1, <2>1, SubSeqProperties
  <2> HIDE DEF u
  <2>3. QED
    BY <1>1, <2>2
<1> HIDE DEF t, u
<1>4. /\ t \o u \in Seq(Byte) /\ Len(t \o u) = Len(s)
      /\ \A i \in 1 .. Len(s) : (t \o u)[i] = IF i <= n THEN t[i] ELSE u[i - n]
  <2>1. /\ t \o u \in Seq(Byte) /\ Len(t \o u) = Len(t) + Len(u)
        /\ \A i \in 1 .. Len(t) + Len(u) : (t \o u)[i] = IF i <= Len(t) THEN t[i] ELSE u[i - Len(t)]
    BY <1>2, <1>3, ConcatProperties
  <2>2. Len(t) + Len(u) = Len(s)
    BY <1>1, <1>2, <1>3
  <2>3. QED
    BY <1>2, <2>1, <2>2
<1>5. ASSUME NEW i \in 1 .. Len(s) PROVE (t \o u)[i] = s[i]
  <2>1. (t \o u)[i] = IF i <= n THEN t[i] ELSE u[i - n]
    BY <1>4
  <2>2. CASE i <= n
    <3>1. i \in 1 .. n
      BY <1>1, <2>2
    <3>2. QED
      BY <1>2, <2>1, <2>2, <3>1
  <2>3. CASE ~(i <= n)
    <3>1. i - n \in 1 .. Len(s) - n /\ n + (i - n) = i
      BY <1>1, <2>3
    <3>2. QED
      BY <1>3, <2>1, <2>3, <3>1
  <2>4. QED
    BY <2>2, <2>3
<1>6. t \o u = s
  BY <1>4, <1>5, SeqEqual
<1>7. QED
  BY <1>2, <1>3, <1>6 DEF t, u

(* Bytes may be appended in one piece or in two.                           *)
LEMMA ConcatenationsAssociate ==
    ASSUME NEW c \in Seq(Byte), NEW x \in Seq(Byte), NEW y \in Seq(Byte)
    PROVE  (c \o x) \o y = c \o (x \o y)
BY ConcatAssociative

(* readFd() joins what readv(2) delivered to the contents, in order,       *)
(* although part of it went to extrabuf.                                   *)
LEMMA ReadFdExtends ==
    ASSUME NEW b, IsBuffer(b), NEW s \in Seq(Byte)
    PROVE  LET r == readFd(b, s) IN
           /\ IsBuffer(r)
           /\ Contents(r) = Contents(b) \o s
           /\ r.reader >= b.reader \/ r.reader >= kCheapPrepend
           /\ Grown(b, r, Len(s))
<1> DEFINE room == b.size - b.writer
           t == SubSeq(s, 1, room)
           u == SubSeq(s, room + 1, Len(s))
           w == Written(b, t)
<1>1. Len(s) \in Nat /\ room \in Nat /\ b.reader >= b.reader
  BY DEF IsBuffer
<1>2. CASE Len(s) <= room
  <2>1. readFd(b, s) = Written(b, s)
    BY <1>2 DEF readFd
  <2>2. QED
    BY <1>1, <1>2, <2>1, WrittenExtends DEF Grown
<1>3. CASE ~(Len(s) <= room)
  <2>1. readFd(b, s) = append(w, u)
    BY <1>3 DEF readFd
  <2>2. /\ t \in Seq(Byte) /\ Len(t) = room /\ t \o u = s
        /\ u \in Seq(Byte) /\ Len(u) = Len(s) - room
    <3>1. room \in 0 .. Len(s)
      BY <1>1, <1>3
    <3> HIDE DEF room
    <3>2. QED
      BY <3>1, SplitSequence
  <2> HIDE DEF t, u
  <2>3. /\ IsBuffer(w) /\ Contents(w) = Contents(b) \o t
        /\ w.size = b.size /\ w.reader = b.reader /\ w.writer = b.writer + room
    BY <1>1, <2>2, WrittenExtends
  <2> HIDE DEF w
  <2>4. /\ IsBuffer(append(w, u)) /\ Contents(append(w, u)) = Contents(w) \o u
        /\ append(w, u).reader >= w.reader \/ append(w, u).reader >= kCheapPrepend
        /\ Grown(w, append(w, u), Len(u))
    BY <2>2, <2>3, AppendExtends
  <2>5. (Contents(b) \o t) \o u = Contents(b) \o s
    <3>1. Contents(b) \in Seq(Byte)
      BY ContentsAreBytes
    <3>2. t \in Seq(Byte) /\ u \in Seq(Byte) /\ t \o u = s
      BY <2>2
    <3>3. (Contents(b) \o t) \o u = Contents(b) \o (t \o u)
      BY <3>1, <3>2, ConcatenationsAssociate, Zenon
    <3>4. QED
      BY <3>2, <3>3, Zenon
  <2>6. w.writer - w.reader + Len(u) = b.writer - b.reader + Len(s)
    BY <1>1, <2>2, <2>3 DEF IsBuffer
  <2>7. QED
    BY <2>1, <2>3, <2>4, <2>5, <2>6 DEF Grown
<1>4. QED
  BY <1>2, <1>3

(* prepend() puts its bytes in front of the contents.                      *)
LEMMA PrependPutsFirst ==
    ASSUME NEW b, IsBuffer(b), NEW s \in Seq(Byte), Len(s) <= b.reader
    PROVE  LET r == prepend(b, s) IN
           /\ IsBuffer(r) /\ r.size = b.size
           /\ Contents(r) = s \o Contents(b)
<1> DEFINE n == b.writer - b.reader
           p == b.reader - Len(s)
           d == CopyTo(b.data, p, s)
           r == Make(b.size, d, p, b.writer)
<1>1. prepend(b, s) = r
  BY DEF prepend
<1>2. /\ Len(s) \in Nat /\ n \in Nat /\ p \in Nat
      /\ b.size \in Nat /\ b.reader \in Nat /\ b.writer \in Nat
      /\ b.reader = p + Len(s) /\ b.writer = b.reader + n /\ b.writer <= b.size
  BY IndicesInOrder
<1>3. /\ d \in Vector(b.size)
      /\ \A i \in 0 .. b.size - 1 : i < p \/ p + Len(s) <= i => d[i] = b.data[i]
      /\ \A i \in 1 .. Len(s) : p + i - 1 < b.size => d[p + i - 1] = s[i]
  <2>1. b.data \in Vector(b.size)
    BY DEF IsBuffer
  <2> HIDE DEF p
  <2>2. /\ CopyTo(b.data, p, s) \in Vector(b.size)
        /\ \A i \in 0 .. b.size - 1 :
              i < p \/ p + Len(s) <= i => CopyTo(b.data, p, s)[i] = b.data[i]
        /\ \A i \in 1 .. Len(s) : p + i - 1 < b.size => CopyTo(b.data, p, s)[p + i - 1] = s[i]
    BY <1>2, <2>1, CopyWritesOnlyItsRange
  <2>3. QED
    BY <2>2
<1> HIDE DEF d
<1>4. IsBuffer(r)
  BY <1>2, <1>3 DEF IsBuffer
<1>5. /\ Contents(r) \in Seq(Byte) /\ Len(Contents(r)) = Len(s) + n
      /\ \A i \in 1 .. Len(s) + n : Contents(r)[i] = d[p + i - 1]
  <2>1. r.writer - r.reader = Len(s) + n
    BY <1>2
  <2>2. QED
    BY <1>4, <2>1, ContentsAreBytes
<1>6. /\ Contents(b) \in Seq(Byte) /\ Len(Contents(b)) = n
      /\ \A i \in 1 .. n : Contents(b)[i] = b.data[b.reader + i - 1]
  BY ContentsAreBytes
<1>8. ASSUME NEW i \in 1 .. Len(s) + n
      PROVE  d[p + i - 1] = IF i <= Len(s) THEN s[i] ELSE Contents(b)[i - Len(s)]
  <2> HIDE DEF n, p
  <2>1. CASE i <= Len(s)
    <3>1. i \in 1 .. Len(s) /\ p + i - 1 < b.size
      BY <1>2, <2>1
    <3>2. QED
      BY <1>3, <2>1, <3>1
  <2>2. CASE ~(i <= Len(s))
    <3>1. i - Len(s) \in 1 .. n /\ p + i - 1 \in 0 .. b.size - 1 /\ p + Len(s) <= p + i - 1
      BY <1>2, <2>2
    <3>2. b.reader + (i - Len(s)) - 1 = p + i - 1
      BY <1>2
    <3>3. Contents(b)[i - Len(s)] = b.data[p + i - 1]
      BY <1>6, <3>1, <3>2
    <3>4. QED
      BY <1>3, <2>2, <3>1, <3>3
  <2>3. QED
    BY <2>1, <2>2
<1>9. Contents(r) = s \o Contents(b)
  <2> DEFINE c == Contents(b)
             cr == Contents(r)
  <2>1. /\ c \in Seq(Byte) /\ Len(c) = n /\ cr \in Seq(Byte) /\ Len(cr) = Len(s) + n
        /\ \A i \in 1 .. Len(s) + n : cr[i] = IF i <= Len(s) THEN s[i] ELSE c[i - Len(s)]
    BY <1>5, <1>6, <1>8
  <2> HIDE DEF c, cr, n
  <2>2. cr = s \o c
    BY <2>1, IsConcatenation
  <2>3. QED
    BY <2>2 DEF c, cr
<1>10. QED
  BY <1>1, <1>4, <1>9

(* retrieve() drops the first n bytes of the contents.                     *)
LEMMA RetrieveDropsFirst ==
    ASSUME NEW b, IsBuffer(b), NEW n \in 0 .. b.writer - b.reader
    PROVE  LET r == retrieve(b, n) IN
           /\ IsBuffer(r) /\ r.size = b.size /\ r.reader >= b.reader
           /\ Contents(r) = SubSeq(Contents(b), n + 1, Len(Contents(b)))
<1> DEFINE m == b.writer - b.reader
           r == Make(b.size, b.data, b.reader + n, b.writer)
           c == Contents(b)
           u == SubSeq(c, n + 1, Len(c))
<1>1. retrieve(b, n) = r
  BY DEF retrieve
<1>2. m \in Nat /\ n \in Nat /\ n <= m /\ b.reader \in Nat /\ b.writer \in Nat
  BY DEF IsBuffer
<1>3. IsBuffer(r) /\ r.size = b.size /\ r.reader >= b.reader
  BY <1>2 DEF IsBuffer
<1>4. /\ Contents(r) \in Seq(Byte) /\ Len(Contents(r)) = m - n
      /\ \A i \in 1 .. m - n : Contents(r)[i] = b.data[(b.reader + n) + i - 1]
  <2>1. r.writer - r.reader = m - n
    BY <1>2
  <2>2. QED
    BY <1>3, <2>1, ContentsAreBytes
<1>5. c \in Seq(Byte) /\ Len(c) = m /\ \A i \in 1 .. m : c[i] = b.data[b.reader + i - 1]
  BY ContentsAreBytes
<1> HIDE DEF c
<1>6. u \in Seq(Byte) /\ Len(u) = m - n /\ \A i \in 1 .. m - n : u[i] = c[n + i]
  <2>1. n \in 0 .. Len(c)
    BY <1>2, <1>5
  <2> HIDE DEF m
  <2>2. /\ u \in Seq(Byte) /\ Len(u) = Len(c) - n
        /\ \A i \in 1 .. Len(c) - n : u[i] = c[n + i]
    BY <1>5, <2>1, SplitSequence
  <2>3. QED
    BY <1>5, <2>2
<1> HIDE DEF u
<1>7. \A i \in 1 .. m - n : Contents(r)[i] = u[i]
  <2>1. ASSUME NEW i \in 1 .. m - n PROVE Contents(r)[i] = u[i]
    <3>1. n + i \in 1 .. m /\ b.reader + (n + i) - 1 = (b.reader + n) + i - 1
      BY <1>2
    <3>2. c[n + i] = b.data[(b.reader + n) + i - 1]
      BY <1>5, <3>1
    <3>3. QED
      BY <1>4, <1>6, <3>2
  <2>2. QED
    BY <2>1
<1>8. Contents(r) = u
  BY <1>4, <1>6, <1>7, SeqEqual
<1>9. QED
  BY <1>1, <1>3, <1>8 DEF u, c

(* retrieveAll() empties the buffer.                                       *)
LEMMA RetrieveAllEmpties ==
    ASSUME NEW b, IsBuffer(b)
    PROVE  LET r == retrieveAll(b) IN
           /\ IsBuffer(r) /\ r.size = b.size /\ r.reader = kCheapPrepend
           /\ Contents(r) = SubSeq(Contents(b), Len(Contents(b)) + 1, Len(Contents(b)))
<1> DEFINE r == Make(b.size, b.data, kCheapPrepend, kCheapPrepend)
           c == Contents(b)
<1>1. retrieveAll(b) = r
  BY DEF retrieveAll
<1>2. IsBuffer(r) /\ r.size = b.size /\ r.reader = kCheapPrepend
  BY BufferAssumption DEF IsBuffer
<1>3. Contents(r) \in Seq(Byte) /\ Len(Contents(r)) = 0
  <2>1. r.writer - r.reader = 0
    BY BufferAssumption
  <2>2. QED
    BY <1>2, <2>1, ContentsAreBytes
<1>4. Contents(r) = << >>
  BY <1>3, EmptySeq
<1>5. Len(c) \in Nat
  BY ContentsAreBytes
<1> HIDE DEF c
<1>6. SubSeq(c, Len(c) + 1, Len(c)) = << >>
  BY <1>5, SubSeqEmpty
<1>7. QED
  BY <1>1, <1>2, <1>4, <1>6 DEF c

---------------------------------------------------------------------------

(* The indices never leave the vector and never cross.                     *)
THEOREM BufferTypeCorrect == BufferSpec => []BufferTypeOK
<1>1. BufferInit => BufferTypeOK
  <2> SUFFICES ASSUME BufferInit PROVE BufferTypeOK
    OBVIOUS
  <2> DEFINE n == kCheapPrepend + kInitialSize
             d == [i \in 0 .. kCheapPrepend + kInitialSize - 1 |-> Zero]
  <2>1. d \in Vector(n) /\ n \in Nat /\ kCheapPrepend \in Nat /\ kCheapPrepend <= n
    BY BufferAssumption DEF Vector
  <2>2. buf = Make(n, d, kCheapPrepend, kCheapPrepend)
    BY Zenon DEF BufferInit
  <2> HIDE DEF n, d
  <2>3. QED
    BY <2>1, <2>2 DEF BufferTypeOK, IsBuffer
<1>2. BufferTypeOK /\ [BufferNext]_buf => BufferTypeOK'
  <2> SUFFICES ASSUME IsBuffer(buf), [BufferNext]_buf PROVE IsBuffer(buf')
    BY DEF BufferTypeOK
  <2> USE BufferAssumption
  <2>1. ASSUME NEW s \in Chunks, AppendData(s) PROVE IsBuffer(buf')
    BY <2>1, AppendExtends DEF AppendData
  <2>2. ASSUME NEW s \in Chunks, Prepend(s) PROVE IsBuffer(buf')
    BY <2>2, PrependPutsFirst DEF Prepend
  <2>3. ASSUME NEW s \in Chunks, ReadFd(s) PROVE IsBuffer(buf')
    BY <2>3, ReadFdExtends DEF ReadFd
  <2>4. ASSUME NEW n \in 0 .. MaxBytes, Retrieve(n) PROVE IsBuffer(buf')
    <3>1. n \in 0 .. buf.writer - buf.reader
      BY <2>4 DEF Retrieve, IsBuffer
    <3>2. QED
      BY <2>4, <3>1, RetrieveDropsFirst DEF Retrieve
  <2>5. CASE RetrieveAll
    BY <2>5, RetrieveAllEmpties DEF RetrieveAll
  <2>6. CASE UNCHANGED buf
    BY <2>6
  <2>7. QED
    BY <2>1, <2>2, <2>3, <2>4, <2>5, <2>6 DEF BufferNext
<1>3. QED
  BY <1>1, <1>2, PTL DEF BufferSpec

(* Nothing a user does to a buffer breaks the queue of bytes: every step of*)
(* the vector and its indices is a step of ByteFifo.                       *)
THEOREM BufferImplementsByteFifo == BufferSpec => ImplementsByteFifo
<1>1. BufferInit => Fifo!Init
  <2> SUFFICES ASSUME BufferInit PROVE Contents(buf) = << >>
    BY DEF Fifo!Init
  <2> DEFINE n == kCheapPrepend + kInitialSize
             d == [i \in 0 .. kCheapPrepend + kInitialSize - 1 |-> Zero]
  <2>1. buf = Make(n, d, kCheapPrepend, kCheapPrepend)
    BY Zenon DEF BufferInit
  <2> HIDE DEF n, d
  <2>2. Contents(buf) = [i \in 1 .. 0 |-> d[kCheapPrepend + i - 1]]
    BY <2>1, BufferAssumption DEF Contents
  <2>3. QED
    BY <2>2
<1>2. BufferTypeOK /\ [BufferNext]_buf => [Fifo!Next]_(Contents(buf))
  <2> SUFFICES ASSUME IsBuffer(buf), [BufferNext]_buf
               PROVE  Fifo!Next \/ UNCHANGED Contents(buf)
    BY DEF BufferTypeOK
  <2> USE BufferAssumption
  <2>1. ASSUME NEW s \in Chunks, AppendData(s) PROVE Fifo!Next
    <3>1. Contents(buf') = Contents(buf) \o s
      BY <2>1, AppendExtends DEF AppendData
    <3>2. QED
      BY <3>1 DEF Fifo!Next, Fifo!PutLast
  <2>2. ASSUME NEW s \in Chunks, Prepend(s) PROVE Fifo!Next
    <3>1. Contents(buf') = s \o Contents(buf)
      BY <2>2, PrependPutsFirst DEF Prepend
    <3>2. QED
      BY <3>1 DEF Fifo!Next, Fifo!PutFirst
  <2>3. ASSUME NEW s \in Chunks, ReadFd(s) PROVE Fifo!Next
    <3>1. Contents(buf') = Contents(buf) \o s
      BY <2>3, ReadFdExtends DEF ReadFd
    <3>2. QED
      BY <3>1 DEF Fifo!Next, Fifo!PutLast
  <2>4. ASSUME NEW n \in 0 .. MaxBytes, Retrieve(n) PROVE Fifo!Next
    <3>1. n \in 0 .. buf.writer - buf.reader /\ n \in 0 .. Len(Contents(buf))
      BY <2>4, ContentsAreBytes DEF Retrieve, IsBuffer
    <3>2. Contents(buf') = SubSeq(Contents(buf), n + 1, Len(Contents(buf)))
      BY <2>4, <3>1, RetrieveDropsFirst DEF Retrieve
    <3>3. QED
      BY <3>1, <3>2 DEF Fifo!Next, Fifo!TakeFirst
  <2>5. ASSUME RetrieveAll PROVE Fifo!Next
    <3>1. Len(Contents(buf)) \in 0 .. Len(Contents(buf))
      BY ContentsAreBytes
    <3>2. Contents(buf') =
            SubSeq(Contents(buf), Len(Contents(buf)) + 1, Len(Contents(buf)))
      BY <2>5, RetrieveAllEmpties DEF RetrieveAll
    <3>3. QED
      BY <3>1, <3>2 DEF Fifo!Next, Fifo!TakeFirst
  <2>6. CASE UNCHANGED buf
    BY <2>6 DEF Contents
  <2>7. QED
    BY <2>1, <2>2, <2>3, <2>4, <2>5, <2>6 DEF BufferNext
<1>3. QED
  BY <1>1, <1>2, BufferTypeCorrect, PTL DEF BufferSpec, ImplementsByteFifo, Fifo!Spec

(* The vector never takes more than the initial size, or twice the bound   *)
(* on what it holds, with the room for prepending.                         *)
THEOREM MemoryStaysBounded == BufferSpec => []MemoryBounded
<1>1. BufferInit => MemoryBounded
  BY BufferAssumption DEF BufferInit, MemoryBounded
<1>2. BufferTypeOK /\ MemoryBounded /\ [BufferNext]_buf => MemoryBounded'
  <2> SUFFICES ASSUME IsBuffer(buf), MemoryBounded, [BufferNext]_buf PROVE MemoryBounded'
    BY DEF BufferTypeOK
  <2> USE BufferAssumption
  <2>1. ASSUME NEW s \in Chunks, NEW r, IsBuffer(r), Grown(buf, r, Len(s)), Fits(s), buf' = r
        PROVE  MemoryBounded'
    <3>1. /\ Len(s) \in Nat /\ buf.reader \in Nat /\ buf.writer \in Nat
          /\ r.size \in Nat /\ kCheapPrepend \in Nat /\ MaxBytes \in Nat
      BY <2>1, IndicesInOrder
    <3>2. CASE r.size = buf.size
      BY <2>1, <3>2 DEF MemoryBounded
    <3>3. CASE r.size <= kCheapPrepend + 2 * (buf.writer - buf.reader + Len(s))
      <4>1. buf.writer - buf.reader + Len(s) <= MaxBytes
        BY <2>1 DEF Fits
      <4>2. r.size <= kCheapPrepend + 2 * MaxBytes
        BY <3>1, <3>3, <4>1
      <4>3. QED
        BY <2>1, <4>2 DEF MemoryBounded
    <3>4. QED
      BY <2>1, <3>2, <3>3 DEF Grown
  <2>2. ASSUME NEW s \in Chunks, AppendData(s) PROVE MemoryBounded'
    BY <2>1, <2>2, AppendExtends DEF AppendData
  <2>3. ASSUME NEW s \in Chunks, ReadFd(s) PROVE MemoryBounded'
    BY <2>1, <2>3, ReadFdExtends DEF ReadFd
  <2>4. ASSUME buf'.size = buf.size PROVE MemoryBounded'
    BY <2>4 DEF MemoryBounded
  <2>5. ASSUME NEW s \in Chunks, Prepend(s) PROVE MemoryBounded'
    BY <2>4, <2>5, PrependPutsFirst DEF Prepend
  <2>6. ASSUME NEW n \in 0 .. MaxBytes, Retrieve(n) PROVE MemoryBounded'
    BY <2>4, <2>6 DEF Retrieve, retrieve
  <2>7. CASE RetrieveAll
    BY <2>4, <2>7 DEF RetrieveAll, retrieveAll
  <2>8. CASE UNCHANGED buf
    BY <2>4, <2>8
  <2>9. QED
    BY <2>2, <2>3, <2>5, <2>6, <2>7, <2>8 DEF BufferNext
<1>3. QED
  BY <1>1, <1>2, BufferTypeCorrect, PTL DEF BufferSpec

(* Appends and retrievals leave the room for prepending alone.             *)
THEOREM PrependRoomIsKept == BufferSpec => PrependRoomKept
<1>1. BufferTypeOK /\ [BufferNext]_buf =>
        [(\E s \in Chunks : Prepend(s))
         \/ buf'.reader >= buf.reader \/ buf'.reader >= kCheapPrepend]_buf
  <2> SUFFICES ASSUME IsBuffer(buf), BufferNext, ~(\E s \in Chunks : Prepend(s))
               PROVE  buf'.reader >= buf.reader \/ buf'.reader >= kCheapPrepend
    BY DEF BufferTypeOK
  <2> USE BufferAssumption
  <2>1. ASSUME NEW s \in Chunks, AppendData(s)
        PROVE  buf'.reader >= buf.reader \/ buf'.reader >= kCheapPrepend
    BY <2>1, AppendExtends DEF AppendData
  <2>2. ASSUME NEW s \in Chunks, ReadFd(s)
        PROVE  buf'.reader >= buf.reader \/ buf'.reader >= kCheapPrepend
    BY <2>2, ReadFdExtends DEF ReadFd
  <2>3. ASSUME NEW n \in 0 .. MaxBytes, Retrieve(n)
        PROVE  buf'.reader >= buf.reader \/ buf'.reader >= kCheapPrepend
    BY <2>3 DEF Retrieve, retrieve, IsBuffer
  <2>4. CASE RetrieveAll
    BY <2>4, RetrieveAllEmpties DEF RetrieveAll
  <2>5. QED
    BY <2>1, <2>2, <2>3, <2>4 DEF BufferNext
<1>2. QED
  BY <1>1, BufferTypeCorrect, PTL DEF BufferSpec, PrependRoomKept

HIDE DEF readableBytes, writableBytes, prependableBytes, Make

(* ------------------------- Minima and sequences ------------------------ *)

(* A least element is the least element.                                   *)
LEMMA MinIs ==
    ASSUME NEW S \in SUBSET Int, NEW m \in S, \A k \in S : m <= k
    PROVE  Min(S) = m
<1>1. \E x \in S : \A y \in S : x <= y
  OBVIOUS
<1>2. Min(S) \in S /\ \A y \in S : Min(S) <= y
  BY <1>1 DEF Min
<1>3. Min(S) <= m /\ m <= Min(S) /\ Min(S) \in Int /\ m \in Int
  BY <1>2
<1>4. QED
  BY <1>3

LEMMA MaxIs ==
    ASSUME NEW S \in SUBSET Int, NEW m \in S, \A k \in S : k <= m
    PROVE  Max(S) = m
<1>1. \E x \in S : \A y \in S : x >= y
  OBVIOUS
<1>2. Max(S) \in S /\ \A y \in S : Max(S) >= y
  BY <1>1 DEF Max
<1>3. Max(S) <= m /\ m <= Max(S) /\ Max(S) \in Int /\ m \in Int
  BY <1>2
<1>4. QED
  BY <1>3

IsSeq(s) == \E S : s \in Seq(S)

(* What Append does to a sequence, whatever its elements are.              *)
LEMMA AppendIs ==
    ASSUME NEW s, NEW x, IsSeq(s)
    PROVE  /\ IsSeq(Append(s, x))
           /\ Len(s) \in Nat /\ Len(Append(s, x)) = Len(s) + 1
           /\ \A i \in 1 .. Len(s) : Append(s, x)[i] = s[i]
           /\ Append(s, x)[Len(s) + 1] = x
           /\ DOMAIN s = 1 .. Len(s)
<1>1. PICK S : s \in Seq(S)
  BY DEF IsSeq
<1>2. s \in Seq(S \cup {x})
  BY <1>1, SeqMonotonic, S \subseteq S \cup {x}
<1>3. Append(s, x) \in Seq(S \cup {x})
  BY <1>2
<1>4. IsSeq(Append(s, x))
  BY <1>3 DEF IsSeq
<1>5. QED
  BY <1>2, <1>4

(* A sequence and then another one, element by element.                    *)
LEMMA ConcatIs ==
    ASSUME NEW S, NEW s \in Seq(S), NEW t \in Seq(S)
    PROVE  /\ s \o t \in Seq(S) /\ Len(s \o t) = Len(s) + Len(t)
           /\ \A i \in 1 .. Len(s) : (s \o t)[i] = s[i]
           /\ \A i \in 1 .. Len(t) : (s \o t)[Len(s) + i] = t[i]
<1>1. Len(s) \in Nat /\ Len(t) \in Nat
  OBVIOUS
<1>2. \A i \in 1 .. Len(s) : (s \o t)[i] = s[i]
  BY <1>1, ConcatProperties
<1>3. \A i \in 1 .. Len(t) : (s \o t)[Len(s) + i] = t[i]
  <2> TAKE i \in 1 .. Len(t)
  <2>1. /\ Len(s) + i \in 1 .. Len(s) + Len(t) /\ ~(Len(s) + i <= Len(s))
        /\ Len(s) + i - Len(s) = i
    BY <1>1
  <2>2. QED
    BY <2>1, ConcatProperties
<1>4. QED
  BY <1>2, <1>3, ConcatProperties

(* ------------------------------ The parser ----------------------------- *)

IsRequest(q) ==
    q = [method |-> q.method, version |-> q.version, path |-> q.path, query |-> q.query,
         headers |-> q.headers]

IsContext(c) == c = [state |-> c.state, request |-> c.request] /\ IsRequest(c.request)

(* Where the thread is says what it expects, and a connection that is not  *)
(* established has no context and no input yet.                            *)
ParserInv ==
    /\ IsContext(context)
    /\ pc \in {"poll", "parse", "bad", "request"}
    /\ context.state \in {"none", "kExpectRequestLine", "kExpectHeaders", "kGotAll"}
    /\ context.state = "none" => context = NoContext
    /\ state = "kConnecting" => context = NoContext
    /\ pc = "poll" => context.state # "kGotAll"
    /\ pc = "parse" => context.state \in {"kExpectRequestLine", "kExpectHeaders"}
    /\ pc = "bad" => context.state = "kExpectRequestLine"
    /\ pc = "request" => context.state = "kGotAll"

LEMMA NewContextIs ==
    /\ IsContext(NewContext) /\ NewContext.state = "kExpectRequestLine"
    /\ IsContext(NoContext) /\ NoContext.state = "none"
    /\ NewContext # NoContext /\ NewContext.request = NewRequest
    /\ NoContext.request = NewRequest
BY DEF NewContext, NoContext, NewRequest, IsContext, IsRequest

(* A request that is changed is a request, with what was set and the rest. *)
LEMMA RequestExcept ==
    ASSUME NEW q, IsRequest(q), NEW x, NEW y
    PROVE  /\ [q EXCEPT !.method = x] =
                  [method |-> x, version |-> q.version, path |-> q.path, query |-> q.query,
                   headers |-> q.headers]
           /\ [q EXCEPT !.version = x] =
                  [method |-> q.method, version |-> x, path |-> q.path, query |-> q.query,
                   headers |-> q.headers]
           /\ [q EXCEPT !.path = x, !.query = y] =
                  [method |-> q.method, version |-> q.version, path |-> x, query |-> y,
                   headers |-> q.headers]
           /\ [q EXCEPT !.headers = x] =
                  [method |-> q.method, version |-> q.version, path |-> q.path,
                   query |-> q.query, headers |-> x]
<1>1. PICK m, v, p, u, h :
          q = [method |-> m, version |-> v, path |-> p, query |-> u, headers |-> h]
  BY Zenon DEF IsRequest
<1>2. q.method = m /\ q.version = v /\ q.path = p /\ q.query = u /\ q.headers = h
  BY <1>1
<1>3. /\ [q EXCEPT !.method = x] =
             [method |-> x, version |-> v, path |-> p, query |-> u, headers |-> h]
      /\ [q EXCEPT !.version = x] =
             [method |-> m, version |-> x, path |-> p, query |-> u, headers |-> h]
      /\ [q EXCEPT !.headers = x] =
             [method |-> m, version |-> v, path |-> p, query |-> u, headers |-> x]
  BY <1>1
<1>4. [q EXCEPT !.path = x, !.query = y] =
             [method |-> m, version |-> v, path |-> x, query |-> y, headers |-> h]
  <2> DEFINE z == [q EXCEPT !.path = x, !.query = y]
             fields == {"method", "version", "path", "query", "headers"}
  <2>1. DOMAIN q = fields /\ DOMAIN z = DOMAIN q
    BY <1>1
  <2>2. z.path = x /\ z.query = y /\ z.method = m /\ z.version = v /\ z.headers = h
    BY <1>1
  <2>3. z = [k \in fields |-> z[k]]
    BY <2>1
  <2> HIDE DEF z
  <2>4. z = [method |-> m, version |-> v, path |-> x, query |-> y, headers |-> h]
    BY <2>2, <2>3
  <2>5. QED
    BY <2>4 DEF z
<1>5. QED
  BY <1>2, <1>3, <1>4

SecondSpace(line) == Find(line, "SP", Find(line, "SP", 1) + 1)
QueryStart(line) ==
    Find(SubSeq(line, 1, SecondSpace(line) - 1), "?", Find(line, "SP", 1) + 1)
PathOf(line) == SubSeq(line, Find(line, "SP", 1) + 1, QueryStart(line) - 1)
QueryOf(line) == SubSeq(line, QueryStart(line), SecondSpace(line) - 1)

(* A request after its line: the target is set if there is a second space. *)
RequestAfter(q, method, line) ==
    [method |-> method, version |-> q.version,
     path |-> IF SecondSpace(line) > Len(line) THEN q.path ELSE PathOf(line),
     query |-> IF SecondSpace(line) > Len(line) THEN q.query ELSE QueryOf(line),
     headers |-> q.headers]

LEMMA RequestAfterIs ==
    ASSUME NEW q, IsRequest(q), NEW method, NEW line
    PROVE  WithTarget([q EXCEPT !.method = method], line) = RequestAfter(q, method, line)
<1> DEFINE r == [q EXCEPT !.method = method]
<1>1. r = [method |-> method, version |-> q.version, path |-> q.path, query |-> q.query,
           headers |-> q.headers]
  BY RequestExcept
<1> HIDE DEF r
<1>2. /\ r.method = method /\ r.version = q.version /\ r.path = q.path
      /\ r.query = q.query /\ r.headers = q.headers
  BY <1>1
<1>3. IsRequest(r)
  BY <1>1, <1>2, Zenon DEF IsRequest
<1>4. [r EXCEPT !.path = PathOf(line), !.query = QueryOf(line)] =
          [method |-> r.method, version |-> r.version, path |-> PathOf(line),
           query |-> QueryOf(line), headers |-> r.headers]
  BY <1>3, RequestExcept
<1>5. WithTarget(r, line) =
          IF SecondSpace(line) > Len(line) THEN r
          ELSE [r EXCEPT !.path = PathOf(line), !.query = QueryOf(line)]
  BY Zenon DEF WithTarget, PathOf, QueryOf, QueryStart, SecondSpace
<1>6. CASE SecondSpace(line) > Len(line)
  <2>1. WithTarget(r, line) = r
    BY <1>5, <1>6, Zenon
  <2>2. QED
    BY <1>1, <1>6, <2>1 DEF RequestAfter, r
<1>7. CASE ~(SecondSpace(line) > Len(line))
  <2>1. WithTarget(r, line) =
            [method |-> r.method, version |-> r.version, path |-> PathOf(line),
             query |-> QueryOf(line), headers |-> r.headers]
    BY <1>4, <1>5, <1>7, Zenon
  <2>2. QED
    BY <1>2, <1>7, <2>1 DEF RequestAfter, r
<1>8. QED
  BY <1>6, <1>7

(* Contexts that are put together, or changed, are contexts.               *)
LEMMA ContextIs ==
    ASSUME NEW c, IsContext(c), NEW q, IsRequest(q), NEW v, NEW s
    PROVE  /\ IsContext([state |-> s, request |-> [q EXCEPT !.version = v]])
           /\ IsContext([c EXCEPT !.request = q])
           /\ [c EXCEPT !.request = q].state = c.state
           /\ [c EXCEPT !.request = q].request = q
<1>1. IsRequest([q EXCEPT !.version = v])
  BY RequestExcept DEF IsRequest
<1>2. [c EXCEPT !.request = q] = [state |-> c.state, request |-> q]
  BY DEF IsContext
<1>3. QED
  BY <1>1, <1>2 DEF IsContext

LEMMA HeaderContext ==
    ASSUME NEW c, IsContext(c), NEW line
    PROVE  LET d == [c EXCEPT !.request.headers = AddHeader(@, line)]
               e == [c EXCEPT !.state = "kGotAll"] IN
           /\ IsContext(d) /\ d.state = c.state
           /\ d.request = [c.request EXCEPT !.headers = AddHeader(c.request.headers, line)]
           /\ IsContext(e) /\ e.state = "kGotAll" /\ e.request = c.request
BY DEF IsContext, IsRequest

LEMMA ParserStep ==
    ASSUME ParserInv, [Next]_vars
    PROVE  ParserInv'
<1> USE DEF ParserInv, At
<1>1. CASE OnConnection
  BY <1>1, NewContextIs DEF OnConnection
<1>2. ASSUME NEW r \in Requests, Write(r) PROVE ParserInv'
  BY <1>2 DEF Write, outputVars
<1>3. ASSUME NEW n \in 1 .. 2 * Len(stream), OnMessage(n) PROVE ParserInv'
  <2>1. context = NoContext \/ context.state \in {"kExpectRequestLine", "kExpectHeaders"}
    BY <1>3 DEF OnMessage
  <2>2. QED
    BY <1>3, <2>1, NewContextIs DEF OnMessage, outputVars
<1>4. CASE HandleWrite
  BY <1>4 DEF HandleWrite
<1>5. CASE PeerCloses
  BY <1>5 DEF PeerCloses
<1>6. CASE NoMore
  BY <1>6 DEF NoMore, outputVars
<1>7. CASE ProcessRequestLine
  <2> DEFINE method == IF HasMethod(Line) THEN MethodOf(Line) ELSE "kInvalid"
             q == WithTarget([context.request EXCEPT !.method = method], Line)
  <2>1. \/ UNCHANGED <<context, pc, state>>
        \/ UNCHANGED <<context, state>> /\ pc' = "bad"
        \/ UNCHANGED state /\ pc' = "bad" /\ context' = [context EXCEPT !.request = q]
        \/ \E v : /\ UNCHANGED <<pc, state>>
                  /\ context' = [state |-> "kExpectHeaders",
                                 request |-> [q EXCEPT !.version = v]]
    BY <1>7 DEF ProcessRequestLine, outputVars
  <2>2. pc = "parse" /\ context.state = "kExpectRequestLine" /\ state # "kConnecting"
    BY <1>7, NewContextIs DEF ProcessRequestLine
  <2> HIDE DEF method, q
  <2>3. /\ IsContext([context EXCEPT !.request = q])
        /\ [context EXCEPT !.request = q].state = context.state
        /\ \A v : IsContext([state |-> "kExpectHeaders",
                             request |-> [q EXCEPT !.version = v]])
    <3>1. IsContext(context) /\ IsRequest(context.request)
      BY DEF IsContext
    <3>2. q = RequestAfter(context.request, method, Line)
      BY <3>1, RequestAfterIs DEF q
    <3>3. IsRequest(q)
      BY <3>2 DEF RequestAfter, IsRequest
    <3>4. QED
      BY <3>1, <3>3, ContextIs
  <2>4. IsContext(context') /\ pc' \in {"parse", "bad"} /\ state' # "kConnecting"
    BY <2>1, <2>2, <2>3
  <2>5. /\ context'.state \in {"kExpectRequestLine", "kExpectHeaders"}
        /\ pc' = "bad" => context'.state = "kExpectRequestLine"
    <3>1. CASE UNCHANGED context
      BY <2>2, <3>1
    <3>2. CASE context' = [context EXCEPT !.request = q]
      BY <2>2, <2>3, <3>2
    <3>3. CASE pc' = pc /\ \E v : context' = [state |-> "kExpectHeaders",
                                           request |-> [q EXCEPT !.version = v]]
      BY <2>2, <3>3
    <3>4. QED
      BY <2>1, <3>1, <3>2, <3>3
  <2>6. QED
    BY <2>4, <2>5
<1>8. CASE ProcessHeader
  <2> DEFINE d == [context EXCEPT !.request.headers = AddHeader(@, Line)]
             e == [context EXCEPT !.state = "kGotAll"]
  <2>1. /\ state' = state /\ pc = "parse" /\ context.state = "kExpectHeaders"
        /\ \/ context' = d /\ pc' = pc
           \/ context' = e /\ pc' = "request"
    BY <1>8 DEF ProcessHeader, outputVars
  <2>2. state # "kConnecting"
    BY <2>1, NewContextIs
  <2>3. IsContext(d) /\ d.state = context.state /\ IsContext(e) /\ e.state = "kGotAll"
    BY HeaderContext
  <2> HIDE DEF d, e
  <2>4. QED
    BY <2>1, <2>2, <2>3
<1>9. CASE BadRequest
  <2>1. state = "kConnecting" <=> state' = "kConnecting"
    BY <1>9 DEF BadRequest, Shutdown
  <2>2. QED
    BY <1>9, <2>1 DEF BadRequest
<1>10. ASSUME NEW choice \in {"leave", "on", "off"}, OnRequest(choice) PROVE ParserInv'
  <2>1. state # "kConnecting" /\ state' # "kConnecting"
    BY <1>10, NewContextIs DEF OnRequest, Shutdown
  <2>2. pc' = "poll" /\ context' = NewContext
    BY <1>10 DEF OnRequest, Reset
  <2>3. QED
    BY <2>1, <2>2, NewContextIs
<1>11. CASE UNCHANGED vars
  BY <1>11 DEF vars, outputVars
<1>12. QED
  BY <1>1, <1>2, <1>3, <1>4, <1>5, <1>6, <1>7, <1>8, <1>9, <1>10, <1>11 DEF Next

(* onMessage() enters parseRequest() in a state that its while knows how   *)
(* to leave.                                                               *)
THEOREM ParserAlwaysLeaves == Spec => []ParserLeaves
<1>1. Init => ParserInv
  BY NewContextIs DEF Init, ParserInv
<1>2. ParserInv => ParserLeaves
  BY DEF ParserInv, ParserLeaves
<1>3. QED
  BY <1>1, <1>2, ParserStep, PTL DEF Spec

(* ------------------------------ The input ------------------------------ *)

(* Sequences of fewer tokens, and sequences put together, are sequences.   *)
LEMMA TokenSequences ==
    /\ \A s \in Seq(Tokens \ {":"}) : s \in Seq(Tokens)
    /\ \A s \in Seq(Tokens \ {"SP"}) : s \in Seq(Tokens)
    /\ \A s \in Seq(Tokens \ {"SP", "?"}) : s \in Seq(Tokens \ {"SP"})
    /\ \A s \in Seq({"SP"}) : s \in Seq(Tokens)
    /\ \A s, t \in Seq(Tokens) : s \o t \in Seq(Tokens)
<1>1. /\ Tokens \ {":"} \subseteq Tokens /\ Tokens \ {"SP"} \subseteq Tokens
      /\ Tokens \ {"SP", "?"} \subseteq Tokens \ {"SP"} /\ {"SP"} \subseteq Tokens
  BY TokensAssumption
<1>2. /\ Seq(Tokens \ {":"}) \subseteq Seq(Tokens) /\ Seq(Tokens \ {"SP"}) \subseteq Seq(Tokens)
      /\ Seq(Tokens \ {"SP", "?"}) \subseteq Seq(Tokens \ {"SP"})
      /\ Seq({"SP"}) \subseteq Seq(Tokens)
  BY <1>1, SeqMonotonic, Zenon
<1>3. \A s, t \in Seq(Tokens) : s \o t \in Seq(Tokens)
  BY ConcatProperties, Zenon
<1>4. QED
  BY <1>2, <1>3, Zenon

(* A header of a request, with its types.                                  *)
LEMMA HeaderTypes ==
    ASSUME NEW r \in Requests, NEW i \in 1 .. Len(r.headers)
    PROVE  /\ r.headers[i].field \in Seq(Tokens \ {":"}) /\ r.headers[i].value \in Seq(Tokens)
           /\ r.headers[i].before \in Seq({"SP"}) /\ r.headers[i].after \in Seq({"SP"})
<1> DEFINE H == [field : Seq(Tokens \ {":"}), value : Seq(Tokens),
                 before : Seq({"SP"}), after : Seq({"SP"})]
<1>1. r.headers \in Seq(H)
  BY RequestsAssumption, Zenon
<1>2. r.headers[i] \in H
  BY <1>1, ElementOfSeq
<1>3. QED
  BY <1>2

(* A request's lines: the request line, its headers, and an empty one.     *)
LEMMA LinesAre ==
    ASSUME NEW r \in Requests
    PROVE  /\ LinesOf(r) \in Seq(Seq(Tokens))
           /\ Len(r.headers) \in Nat /\ Len(LinesOf(r)) = Len(r.headers) + 2
           /\ LinesOf(r)[1] = RequestLine(r)
           /\ \A i \in 1 .. Len(r.headers) : LinesOf(r)[i + 1] = HeaderLine(r.headers[i])
           /\ LinesOf(r)[Len(r.headers) + 2] = <<>>
<1> DEFINE n == Len(r.headers)
           headers == [i \in DOMAIN r.headers |-> HeaderLine(r.headers[i])]
<1>1. /\ r.method # "none" => r.method \in Tokens
      /\ r.minor # "none" => r.minor \in Tokens
      /\ r.path \in Seq(Tokens) /\ r.query \in Seq(Tokens)
  BY RequestsAssumption, TokenSequences
<1>2. RequestLine(r) \in Seq(Tokens)
  <2>1. /\ <<>> \in Seq(Tokens)
        /\ r.method # "none" => <<r.method, "SP">> \in Seq(Tokens)
        /\ r.minor # "none" => <<"SP", "HTTP/1.", r.minor>> \in Seq(Tokens)
    BY <1>1, TokensAssumption
  <2>2. QED
    BY <1>1, <2>1, TokenSequences, Zenon DEF RequestLine
<1>3. r.headers \in Seq([field : Seq(Tokens \ {":"}), value : Seq(Tokens),
                         before : Seq({"SP"}), after : Seq({"SP"})])
  BY RequestsAssumption
<1>4. n \in Nat /\ DOMAIN r.headers = 1 .. n
  BY <1>3
<1>5. \A i \in 1 .. n : HeaderLine(r.headers[i]) \in Seq(Tokens)
  <2> TAKE i \in 1 .. n
  <2>1. /\ r.headers[i].field \in Seq(Tokens) /\ r.headers[i].value \in Seq(Tokens)
        /\ r.headers[i].before \in Seq(Tokens) /\ r.headers[i].after \in Seq(Tokens)
    BY HeaderTypes, TokenSequences
  <2>2. <<":">> \in Seq(Tokens)
    BY TokensAssumption
  <2>3. QED
    BY <2>1, <2>2, TokenSequences, Zenon DEF HeaderLine
<1>6. headers \in Seq(Seq(Tokens)) /\ Len(headers) = n
      /\ \A i \in 1 .. n : headers[i] = HeaderLine(r.headers[i])
  BY <1>4, <1>5
<1>7. LinesOf(r) = <<RequestLine(r)>> \o headers \o << <<>> >>
  BY DEF LinesOf
<1> HIDE DEF headers
<1>8. /\ <<RequestLine(r)>> \in Seq(Seq(Tokens)) /\ Len(<<RequestLine(r)>>) = 1
      /\ <<RequestLine(r)>>[1] = RequestLine(r)
  BY <1>2
<1>9. <<RequestLine(r)>> \o headers \in Seq(Seq(Tokens))
      /\ Len(<<RequestLine(r)>> \o headers) = n + 1
      /\ (<<RequestLine(r)>> \o headers)[1] = RequestLine(r)
      /\ \A i \in 1 .. n : (<<RequestLine(r)>> \o headers)[i + 1] = HeaderLine(r.headers[i])
  <2> DEFINE first == <<RequestLine(r)>>
  <2>1. /\ first \in Seq(Seq(Tokens)) /\ headers \in Seq(Seq(Tokens))
        /\ Len(first) = 1 /\ first[1] = RequestLine(r)
    BY <1>6, <1>8
  <2> HIDE DEF first
  <2>2. /\ first \o headers \in Seq(Seq(Tokens))
        /\ Len(first \o headers) = Len(first) + Len(headers)
        /\ \A i \in 1 .. Len(first) : (first \o headers)[i] = first[i]
        /\ \A i \in 1 .. Len(headers) : (first \o headers)[Len(first) + i] = headers[i]
    <3>1. first \in Seq(Seq(Tokens)) /\ headers \in Seq(Seq(Tokens))
      BY <2>1
    <3>2. QED
      BY <3>1, ConcatIs
  <2> DEFINE both == first \o headers
  <2> HIDE DEF both
  <2>3. /\ both \in Seq(Seq(Tokens)) /\ Len(both) = 1 + n
        /\ \A i \in 1 .. 1 : both[i] = first[i]
        /\ \A i \in 1 .. n : both[1 + i] = headers[i]
    BY <1>6, <2>1, <2>2, Zenon DEF both
  <2>4. /\ Len(both) = n + 1 /\ both[1] = RequestLine(r)
        /\ \A i \in 1 .. n : both[i + 1] = HeaderLine(r.headers[i])
    <3>1. \A i \in 1 .. n : i + 1 = 1 + i
      BY <1>4
    <3>2. QED
      BY <1>4, <1>6, <2>1, <2>3, <3>1
  <2>5. QED
    BY <2>3, <2>4, Zenon DEF both, first
<1> DEFINE front == <<RequestLine(r)>> \o headers
<1> HIDE DEF front
<1>10. /\ front \in Seq(Seq(Tokens)) /\ Len(front) = n + 1
       /\ front[1] = RequestLine(r)
       /\ \A i \in 1 .. n : front[i + 1] = HeaderLine(r.headers[i])
  BY <1>9 DEF front
<1>11. LinesOf(r) = front \o << <<>> >>
  BY <1>7 DEF front
<1>12. QED
  BY <1>4, <1>10, <1>11

InputInv ==
    /\ client \in Seq(Requests) /\ stream \in Seq(Seq(Tokens))
    /\ got \in Nat /\ taken \in Nat
    /\ 2 * taken <= got /\ got <= 2 * Len(stream)

(* A line that has arrived is in the stream, and stays the line it is.     *)
LEMMA LineIsThere ==
    ASSUME InputInv, HasCrlf
    PROVE  taken + 1 \in 1 .. Len(stream)
BY DEF InputInv, HasCrlf

LEMMA InputStep ==
    ASSUME InputInv, [Next]_vars
    PROVE  /\ InputInv'
           /\ \A k \in 1 .. Len(stream) : stream'[k] = stream[k]
           /\ got' >= got
<1> USE DEF InputInv
<1>1. CASE UNCHANGED <<client, stream, pipelined, got, taken>>
  BY <1>1
<1>2. ASSUME NEW r \in Requests, Write(r)
      PROVE  /\ InputInv'
             /\ \A k \in 1 .. Len(stream) : stream'[k] = stream[k]
             /\ got' >= got
  <2>1. LinesOf(r) \in Seq(Seq(Tokens))
    BY LinesAre
  <2>2. /\ client' = Append(client, r) /\ stream' = stream \o LinesOf(r)
        /\ UNCHANGED <<got, taken>>
    BY <1>2 DEF Write
  <2>3. stream' \in Seq(Seq(Tokens)) /\ Len(stream') >= Len(stream)
        /\ \A k \in 1 .. Len(stream) : stream'[k] = stream[k]
    BY <2>1, <2>2
  <2>4. QED
    BY <2>2, <2>3
<1>3. ASSUME NEW n \in 1 .. 2 * Len(stream), OnMessage(n)
      PROVE  /\ InputInv'
             /\ \A k \in 1 .. Len(stream) : stream'[k] = stream[k]
             /\ got' >= got
  BY <1>3 DEF OnMessage
<1>4. ASSUME ProcessRequestLine \/ ProcessHeader
      PROVE  /\ InputInv'
             /\ \A k \in 1 .. Len(stream) : stream'[k] = stream[k]
             /\ got' >= got
  <2>1. /\ client' = client /\ stream' = stream /\ got' = got
        /\ taken' = taken \/ taken' = taken + 1
        /\ got >= 2 * (taken + 1)
    BY <1>4 DEF ProcessRequestLine, ProcessHeader, inputVars, HasCrlf
  <2>2. QED
    BY <2>1
<1>5. OnConnection \/ HandleWrite \/ PeerCloses \/ NoMore \/ BadRequest
        \/ (\E choice \in {"leave", "on", "off"} : OnRequest(choice)) \/ UNCHANGED vars
      => UNCHANGED <<client, stream, pipelined, got, taken>>
  BY DEF OnConnection, HandleWrite, PeerCloses, NoMore, BadRequest, OnRequest, inputVars, vars
<1>6. QED
  BY <1>1, <1>2, <1>3, <1>4, <1>5 DEF Next

(* ------------------------------ The replies ---------------------------- *)

(* A line at which the parser is stuck: it cannot be a request line, or    *)
(* it follows one that could not, whose method is still set.               *)
Stuck ==
    /\ context.state = "kExpectRequestLine"
    /\ HasCrlf
    /\ \/ ~HasMethod(Line)
       \/ MethodOf(Line) = "kInvalid"
       \/ context.request.method # "kInvalid"

Closes(h, m) == m \in 1 .. Len(h) /\ h[m].close /\ \A i \in 1 .. m - 1 : ~h[i].close
NoneCloses(h) == \A i \in 1 .. Len(h) : ~h[i].close
AnswersTo(h, n) == [i \in 1 .. n |-> AppendToBuffer(i, h[i].close)]
Refusal == [request |-> 0, connection |-> "none"]

(* Up to what the replies have come: all the requests, with a 400 behind   *)
(* them, or up to the first one that closes the connection.                *)
Answered == NoneCloses(handled) /\ (~lost => replies = AnswersTo(handled, Len(handled)))
Refused ==
    /\ NoneCloses(handled)
    /\ ~lost => replies = Append(AnswersTo(handled, Len(handled)), Refusal)
Closed ==
    \E m \in 1 .. Len(handled) : Closes(handled, m) /\ (~lost => replies = AnswersTo(handled, m))

(* The connection's state says which: it closes with the first request     *)
(* that asks for it, or with a line at which the parser is stuck from      *)
(* then on.                                                                *)
ReplyInv ==
    /\ IsSeq(handled)
    /\ pc = "bad" => Stuck
    /\ state \in {"kConnecting", "kConnected", "kDisconnecting", "kDisconnected"}
    /\ state \in {"kConnecting", "kConnected"} => Answered
    /\ state = "kDisconnecting" => (Refused /\ Stuck) \/ Closed
    /\ state = "kDisconnected" => pc = "poll" /\ (Answered \/ Refused \/ Closed)

(* Answers are a sequence, and one request more is one answer more.        *)
LEMMA AnswersAre ==
    ASSUME NEW h, IsSeq(h), NEW x
    PROVE  /\ AnswersTo(Append(h, x), Len(h) + 1) =
                  Append(AnswersTo(h, Len(h)), AppendToBuffer(Len(h) + 1, x.close))
           /\ \A n \in 0 .. Len(h) : AnswersTo(Append(h, x), n) = AnswersTo(h, n)
           /\ NoneCloses(h) /\ ~x.close => NoneCloses(Append(h, x))
           /\ NoneCloses(h) /\ x.close => Closes(Append(h, x), Len(h) + 1)
           /\ \A m \in 1 .. Len(h) : Closes(h, m) => Closes(Append(h, x), m)
           /\ Len(h) \in Nat /\ Len(Append(h, x)) = Len(h) + 1
<1> DEFINE g == Append(h, x)
           n == Len(h)
<1>1. /\ n \in Nat /\ Len(g) = n + 1 /\ g[n + 1] = x
      /\ \A i \in 1 .. n : g[i] = h[i]
  BY AppendIs
<1> HIDE DEF g
<1>2. \A k \in 0 .. n : AnswersTo(g, k) = AnswersTo(h, k)
  BY <1>1 DEF AnswersTo
<1>3. /\ NoneCloses(h) /\ ~x.close => NoneCloses(g)
      /\ NoneCloses(h) /\ x.close => Closes(g, n + 1)
      /\ \A m \in 1 .. n : Closes(h, m) => Closes(g, m)
  BY <1>1 DEF NoneCloses, Closes
<1>4. AnswersTo(g, n + 1) = Append(AnswersTo(h, n), AppendToBuffer(n + 1, x.close))
  <2> DEFINE A == {AppendToBuffer(i, h[i].close) : i \in 1 .. n}
                    \cup {AppendToBuffer(n + 1, x.close)}
             a == AnswersTo(h, n)
             b == AnswersTo(g, n + 1)
  <2>1. a \in [1 .. n -> A] /\ b \in [1 .. n + 1 -> A]
    BY <1>1 DEF AnswersTo
  <2>2. b[n + 1] = AppendToBuffer(n + 1, x.close) /\ \A i \in 1 .. n : b[i] = a[i]
    BY <1>1 DEF AnswersTo
  <2>3. AppendToBuffer(n + 1, x.close) \in A
    OBVIOUS
  <2> HIDE DEF A, a, b
  <2>4. a \in Seq(A) /\ b \in Seq(A) /\ Len(a) = n /\ Len(b) = n + 1
    BY <2>1, <1>1
  <2>5. /\ Append(a, AppendToBuffer(n + 1, x.close)) \in Seq(A)
        /\ Len(Append(a, AppendToBuffer(n + 1, x.close))) = n + 1
        /\ \A i \in 1 .. n + 1 : Append(a, AppendToBuffer(n + 1, x.close))[i] = b[i]
    BY <2>2, <2>3, <2>4, <1>1
  <2>6. b = Append(a, AppendToBuffer(n + 1, x.close))
    BY <2>4, <2>5, SeqEqual
  <2>7. QED
    BY <2>6 DEF a, b
<1>5. QED
  BY <1>1, <1>2, <1>3, <1>4 DEF g

(* The state of the replies is what the property says.                     *)
LEMMA RepliesAre ==
    ASSUME ReplyInv
    PROVE  RepliesFollowRequests
<1> DEFINE n == Len(handled)
           closing == {i \in 1 .. n : handled[i].close}
           last == Min(closing \cup {n})
           answered == [i \in 1 .. last |->
                           [request |-> i,
                            connection |-> IF i \in closing THEN "close" ELSE "keepAlive"]]
<1>1. n \in Nat
  BY AppendIs DEF ReplyInv
<1>2. ASSUME NEW k \in 0 .. n, last = k
      PROVE  answered = AnswersTo(handled, k)
  <2>1. \A i \in 1 .. k : i \in closing <=> handled[i].close
    BY <1>1
  <2>2. answered = [i \in 1 .. k |->
                       [request |-> i,
                        connection |-> IF i \in closing THEN "close" ELSE "keepAlive"]]
    BY <1>2
  <2> HIDE DEF closing, answered
  <2>3. QED
    BY <2>1, <2>2 DEF AnswersTo, AppendToBuffer
<1>3. NoneCloses(handled) => closing = {} /\ last = n
  <2>1. NoneCloses(handled) => closing = {}
    BY DEF NoneCloses
  <2>2. Min({n}) = n
    BY <1>1, MinIs
  <2>3. QED
    BY <2>1, <2>2
<1>4. \A m \in 1 .. n : Closes(handled, m) => last = m
  <2> SUFFICES ASSUME NEW m \in 1 .. n, Closes(handled, m) PROVE last = m
    OBVIOUS
  <2>1. m \in closing \cup {n} /\ closing \cup {n} \in SUBSET Int
    BY <1>1 DEF Closes
  <2>2. \A k \in closing \cup {n} : m <= k
    BY <1>1 DEF Closes
  <2>3. QED
    BY <2>1, <2>2, MinIs, Zenon
<1>5. Answered \/ Refused \/ Closed
  BY DEF ReplyInv
<1> HIDE DEF closing, answered, last
<1>6. ~lost => replies = answered
                \/ (closing = {} /\ replies = Append(answered, Refusal))
  <2>1. CASE Answered
    BY <2>1, <1>1, <1>2, <1>3 DEF Answered
  <2>2. CASE Refused
    BY <2>2, <1>1, <1>2, <1>3 DEF Refused
  <2>3. CASE Closed
    BY <2>3, <1>1, <1>2, <1>4 DEF Closed
  <2>4. QED
    BY <1>5, <2>1, <2>2, <2>3
<1>7. QED
  BY <1>6 DEF RepliesFollowRequests, Refusal, closing, answered, last

(* What has arrived stays, so the parser stays where it is stuck as long   *)
(* as it takes nothing and its context is the same.                        *)
LEMMA StuckStays ==
    ASSUME InputInv, Stuck, UNCHANGED <<taken, context>>, got' >= got, got' \in Nat,
           \A k \in 1 .. Len(stream) : stream'[k] = stream[k]
    PROVE  Stuck'
<1>1. Line' = Line
  BY LineIsThere DEF Line, Stuck
<1>2. HasCrlf'
  BY DEF HasCrlf, Stuck, InputInv
<1>3. QED
  BY <1>1, <1>2 DEF Stuck

(* A line that fails, and only such a line, is one the parser is stuck at: *)
(* it then comes to nothing again and again.                               *)
LEMMA BadIsStuck ==
    ASSUME InputInv, ParserInv, ProcessRequestLine
    PROVE  /\ pc' \in {"parse", "bad"}
           /\ pc' = "bad" => Stuck'
           /\ Stuck => Stuck'
<1> DEFINE method == IF HasMethod(Line) THEN MethodOf(Line) ELSE "kInvalid"
           version == VersionOf(Line)
           q == WithTarget([context.request EXCEPT !.method = method], Line)
<1>1. /\ pc = "parse" /\ HasCrlf /\ context.state = "kExpectRequestLine"
      /\ UNCHANGED <<stream, got>>
      /\ \/ HasMethod(Line) /\ context.request.method # "kInvalid"
            /\ UNCHANGED <<pc, taken, context>>
         \/ method = "kInvalid" /\ pc' = "bad" /\ UNCHANGED <<taken, context>>
         \/ /\ ~(HasMethod(Line) /\ context.request.method # "kInvalid")
            /\ method # "kInvalid"
            /\ pc' = "bad" /\ UNCHANGED taken
            /\ context' = [context EXCEPT !.request = q]
         \/ /\ ~(HasMethod(Line) /\ context.request.method # "kInvalid")
            /\ method # "kInvalid"
            /\ UNCHANGED pc
  BY DEF ProcessRequestLine, At, inputVars
<1>2. IsContext(context)
  BY DEF ParserInv
<1>3. q.method = method
      /\ [context EXCEPT !.request = q].state = context.state
      /\ [context EXCEPT !.request = q].request = q
  <2> HIDE DEF method
  <2>1. IsRequest(context.request)
    BY <1>2 DEF IsContext
  <2>2. q = RequestAfter(context.request, method, Line)
    BY <2>1, RequestAfterIs
  <2> HIDE DEF q
  <2>3. IsRequest(q) /\ q.method = method
    BY <2>2 DEF RequestAfter, IsRequest
  <2>4. QED
    BY <1>2, <2>3, ContextIs
<1> HIDE DEF q
<1>4. Line' = stream[taken' + 1] /\ (HasCrlf' <=> got >= 2 * (taken' + 1))
  BY <1>1 DEF Line, HasCrlf
<1>5. CASE HasMethod(Line) /\ context.request.method # "kInvalid"
           /\ UNCHANGED <<pc, taken, context>>
  BY <1>1, <1>4, <1>5 DEF Stuck, Line, HasCrlf
<1>6. CASE method = "kInvalid" /\ pc' = "bad" /\ UNCHANGED <<taken, context>>
  <2>1. ~HasMethod(Line) \/ MethodOf(Line) = "kInvalid"
    BY <1>6
  <2>2. QED
    BY <1>1, <1>4, <1>6, <2>1 DEF Stuck, Line, HasCrlf
<1>7. CASE /\ ~(HasMethod(Line) /\ context.request.method # "kInvalid")
           /\ method # "kInvalid"
           /\ pc' = "bad" /\ UNCHANGED taken
           /\ context' = [context EXCEPT !.request = q]
  <2>1. context'.request.method # "kInvalid" /\ context'.state = "kExpectRequestLine"
    BY <1>1, <1>3, <1>7
  <2>2. Stuck'
    BY <1>1, <1>4, <1>7, <2>1 DEF Stuck, HasCrlf
  <2>3. QED
    BY <1>7, <2>2
<1>8. CASE /\ ~(HasMethod(Line) /\ context.request.method # "kInvalid")
           /\ method # "kInvalid"
           /\ UNCHANGED pc
  <2>1. HasMethod(Line) /\ MethodOf(Line) # "kInvalid"
    BY <1>8
  <2>2. ~Stuck
    BY <1>8, <2>1 DEF Stuck
  <2>3. QED
    BY <1>1, <1>8, <2>2
<1>9. QED
  BY <1>1, <1>5, <1>6, <1>7, <1>8

LEMMA ReplyStep ==
    ASSUME InputInv, ParserInv, ReplyInv, [Next]_vars
    PROVE  ReplyInv'
<1> USE DEF ReplyInv
<1>1. /\ InputInv' /\ got' \in Nat /\ got' >= got
      /\ \A k \in 1 .. Len(stream) : stream'[k] = stream[k]
  BY InputStep DEF InputInv
<1>2. Stuck /\ UNCHANGED <<taken, context>> => Stuck'
  BY <1>1, StuckStays
<1>3. UNCHANGED <<handled, replies, lost>> =>
          (Answered' <=> Answered) /\ (Refused' <=> Refused) /\ (Closed' <=> Closed)
  BY DEF Answered, Refused, Closed
<1>4. state = "kConnecting" => pc = "poll"
  BY NewContextIs DEF ParserInv
<1>5. CASE OnConnection
  BY <1>5, <1>3 DEF OnConnection, At
<1>6. ASSUME \/ \E r \in Requests : Write(r)
             \/ \E n \in 1 .. 2 * Len(stream) : OnMessage(n)
             \/ HandleWrite \/ NoMore \/ UNCHANGED vars
      PROVE  ReplyInv'
  <2>1. /\ UNCHANGED <<taken, context, state, handled, replies, lost>>
        /\ pc' = pc \/ pc' = "poll" \/ (pc' = "parse" /\ state # "kDisconnected")
    BY <1>6 DEF Write, OnMessage, HandleWrite, NoMore, At, outputVars, inputVars, vars
  <2>2. QED
    BY <2>1, <1>2, <1>3
<1>7. CASE PeerCloses
  BY <1>7, <1>3 DEF PeerCloses, At
<1>8. CASE ProcessRequestLine
  <2>1. UNCHANGED <<state, handled, replies, lost>> /\ pc = "parse"
    BY <1>8 DEF ProcessRequestLine, At, outputVars
  <2>2. QED
    BY <1>8, <1>3, <2>1, BadIsStuck
<1>9. CASE ProcessHeader
  <2>1. /\ UNCHANGED <<state, handled, replies, lost>> /\ pc = "parse"
        /\ pc' \in {"parse", "request"} /\ context.state = "kExpectHeaders"
    BY <1>9 DEF ProcessHeader, At, outputVars
  <2>2. ~Stuck
    BY <2>1 DEF Stuck
  <2>3. QED
    BY <1>3, <2>1, <2>2
<1>10. CASE BadRequest
  <2>1. /\ Send(Refusal) /\ Shutdown /\ pc = "bad" /\ pc' = "poll"
        /\ UNCHANGED <<taken, context, handled>>
    BY <1>10 DEF BadRequest, Refusal, At
  <2>2. Stuck'
    BY <1>2, <2>1
  <2>3. CASE state = "kConnected"
    <3>1. state' = "kDisconnecting" /\ Answered
      BY <2>1, <2>3 DEF Shutdown
    <3>2. \/ lost' = TRUE
          \/ replies' = Append(replies, Refusal) /\ lost' = lost
      BY <2>1, <2>3 DEF Send
    <3>3. Refused'
      BY <2>1, <3>1, <3>2 DEF Answered, Refused
    <3>4. QED
      BY <2>1, <2>2, <3>1, <3>3
  <2>4. CASE state = "kDisconnecting"
    <3>1. UNCHANGED <<state, replies, lost>>
      BY <2>1, <2>4 DEF Send, Shutdown
    <3>2. QED
      BY <1>3, <2>1, <2>2, <2>4, <3>1
  <2>5. QED
    BY <1>4, <2>1, <2>3, <2>4
<1>11. ASSUME NEW choice \in {"leave", "on", "off"}, OnRequest(choice) PROVE ReplyInv'
  <2> DEFINE close == CloseConnection(choice)
             n == Len(handled)
             x == [request |-> context.request, close |-> close]
  <2>1. /\ handled' = Append(handled, x)
        /\ Send(AppendToBuffer(Len(handled'), close))
        /\ IF close THEN Shutdown ELSE UNCHANGED state
        /\ pc = "request" /\ pc' = "poll"
    BY <1>11 DEF OnRequest, At
  <2>2. ~Stuck
    BY <2>1 DEF Stuck, ParserInv
  <2>3. x.close = close
    OBVIOUS
  <2> HIDE DEF close, x
  <2>4. /\ AnswersTo(handled', n + 1) = Append(AnswersTo(handled, n), AppendToBuffer(n + 1, close))
        /\ \A k \in 0 .. n : AnswersTo(handled', k) = AnswersTo(handled, k)
        /\ NoneCloses(handled) /\ ~close => NoneCloses(handled')
        /\ NoneCloses(handled) /\ close => Closes(handled', n + 1)
        /\ \A m \in 1 .. n : Closes(handled, m) => Closes(handled', m)
        /\ n \in Nat /\ Len(handled') = n + 1
    BY <2>1, <2>3, AnswersAre
  <2>5. IsSeq(handled')
    BY <2>1, AppendIs
  <2>6. CASE state = "kConnected"
    <3>1. Answered
      BY <2>6
    <3>2. \/ lost' = TRUE
          \/ replies' = Append(replies, AppendToBuffer(n + 1, close)) /\ lost' = lost
      BY <2>1, <2>4, <2>6 DEF Send
    <3>3. ~lost' => replies' = AnswersTo(handled', n + 1)
      BY <2>4, <3>1, <3>2 DEF Answered
    <3>4. CASE close
      <4>1. state' = "kDisconnecting"
        BY <2>1, <2>6, <3>4 DEF Shutdown
      <4>2. Closes(handled', n + 1) /\ n + 1 \in 1 .. Len(handled')
        BY <2>4, <3>1, <3>4 DEF Answered
      <4>3. Closed'
        BY <3>3, <4>2 DEF Closed
      <4>4. QED
        BY <2>1, <2>5, <4>1, <4>3
    <3>5. CASE ~close
      <4>1. state' = "kConnected"
        BY <2>1, <2>6, <3>5
      <4>2. Answered'
        BY <2>4, <3>1, <3>3, <3>5 DEF Answered
      <4>3. QED
        BY <2>1, <2>5, <4>1, <4>2
    <3>6. QED
      BY <3>4, <3>5
  <2>7. CASE state = "kDisconnecting"
    <3>1. UNCHANGED <<state, replies, lost>>
      BY <2>1, <2>7 DEF Send, Shutdown
    <3>2. PICK m \in 1 .. n : Closes(handled, m) /\ (~lost => replies = AnswersTo(handled, m))
      BY <2>2, <2>7 DEF Closed
    <3>3. /\ m \in 1 .. Len(handled') /\ Closes(handled', m)
          /\ ~lost' => replies' = AnswersTo(handled', m)
      BY <2>4, <3>1, <3>2
    <3>4. Closed'
      BY <3>3 DEF Closed
    <3>5. QED
      BY <2>1, <2>5, <2>7, <3>1, <3>4
  <2>8. QED
    BY <1>4, <2>1, <2>6, <2>7
<1>12. QED
  BY <1>5, <1>6, <1>7, <1>8, <1>9, <1>10, <1>11 DEF Next

HttpInv == InputInv /\ ParserInv /\ ReplyInv

LEMMA HttpInit == Init => HttpInv
<1> SUFFICES ASSUME Init PROVE HttpInv
  OBVIOUS
<1>1. InputInv
  BY DEF Init, InputInv
<1>2. ParserInv
  BY NewContextIs DEF Init, ParserInv
<1>3. IsSeq(handled) /\ Len(handled) = 0
  <2>1. handled = <<>> /\ <<>> \in Seq({})
    BY DEF Init
  <2>2. QED
    BY <2>1 DEF IsSeq
<1>4. Answered
  <2>1. NoneCloses(handled) /\ AnswersTo(handled, 0) = <<>>
    BY <1>3 DEF NoneCloses, AnswersTo
  <2>2. QED
    BY <1>3, <2>1 DEF Init, Answered
<1>5. QED
  BY <1>1, <1>2, <1>3, <1>4 DEF Init, ReplyInv, HttpInv

LEMMA HttpKeepsInv == Spec => []HttpInv
<1>1. HttpInv /\ [Next]_vars => HttpInv'
  BY InputStep, ParserStep, ReplyStep DEF HttpInv
<1>2. QED
  BY HttpInit, <1>1, PTL DEF Spec

(* However the input is cut, and whatever the callback decides: the        *)
(* replies that are not lost are those of the requests, in their order, up *)
(* to the one that closes the connection or to a 400.                      *)
THEOREM RepliesAlwaysFollow == Spec => []RepliesFollowRequests
<1>1. HttpInv => RepliesFollowRequests
  BY RepliesAre DEF HttpInv
<1>2. QED
  BY <1>1, HttpKeepsInv, PTL

(* ----------------------------- The requests ---------------------------- *)

(* std::find() stops at the first one, or at the line's end.               *)
LEMMA FindIs ==
    ASSUME NEW line, Len(line) \in Nat, NEW t, NEW i \in Nat, NEW k \in i .. Len(line),
           line[k] = t, \A j \in i .. k - 1 : line[j] # t
    PROVE  Find(line, t, i) = k
<1> DEFINE found == {j \in i .. Len(line) : line[j] = t} \cup {Len(line) + 1}
<1>1. found \in SUBSET Int /\ k \in found /\ \A j \in found : k <= j
  OBVIOUS
<1> HIDE DEF found
<1>2. Min(found) = k
  BY <1>1, MinIs
<1>3. QED
  BY <1>2 DEF Find, found

LEMMA FindNone ==
    ASSUME NEW line, Len(line) \in Nat, NEW t, NEW i \in Nat,
           \A j \in i .. Len(line) : line[j] # t
    PROVE  Find(line, t, i) = Len(line) + 1
<1>1. {j \in i .. Len(line) : line[j] = t} \cup {Len(line) + 1} = {Len(line) + 1}
  OBVIOUS
<1>2. Min({Len(line) + 1}) = Len(line) + 1
  BY MinIs
<1>3. QED
  BY <1>1, <1>2 DEF Find

(* A piece of a sequence, by its elements.                                 *)
LEMMA PieceIs ==
    ASSUME NEW s \in Seq(Tokens), NEW t \in Seq(Tokens), NEW a \in Nat, NEW b \in Nat,
           a >= 1, b = a + Len(t) - 1, b <= Len(s), \A i \in 1 .. Len(t) : s[a + i - 1] = t[i]
    PROVE  SubSeq(s, a, b) = t
<1>1. \A i \in a .. b : s[i] \in Tokens
  BY ElementOfSeq
<1>2. /\ SubSeq(s, a, b) \in Seq(Tokens)
      /\ Len(SubSeq(s, a, b)) = Len(t)
      /\ \A i \in 1 .. Len(t) : SubSeq(s, a, b)[i] = s[a + i - 1]
  BY <1>1
<1>3. QED
  BY <1>2, SeqEqual

(* The request line, token by token.                                       *)
LEMMA RequestLineIs ==
    ASSUME NEW r \in Requests, r.method # "none"
    PROVE  LET P == Len(r.path)
               Q == Len(r.query) IN
           /\ P \in Nat /\ Q \in Nat /\ RequestLine(r) \in Seq(Tokens)
           /\ Len(RequestLine(r)) = 2 + P + Q + (IF r.minor = "none" THEN 0 ELSE 3)
           /\ RequestLine(r)[1] = r.method /\ RequestLine(r)[2] = "SP"
           /\ \A i \in 1 .. P : RequestLine(r)[2 + i] = r.path[i]
           /\ \A i \in 1 .. Q : RequestLine(r)[2 + P + i] = r.query[i]
           /\ r.minor # "none" => /\ RequestLine(r)[3 + P + Q] = "SP"
                                  /\ RequestLine(r)[4 + P + Q] = "HTTP/1."
                                  /\ RequestLine(r)[5 + P + Q] = r.minor
<1> DEFINE P == Len(r.path)
           Q == Len(r.query)
<1>1. /\ r.path \in Seq(Tokens) /\ r.query \in Seq(Tokens) /\ P \in Nat /\ Q \in Nat
      /\ r.method \in Tokens /\ "SP" \in Tokens
  BY RequestsAssumption, TokenSequences, TokensAssumption
<1> DEFINE a == <<r.method, "SP">>
           b == a \o r.path
           c == b \o r.query
           e == IF r.minor = "none" THEN <<>> ELSE <<"SP", "HTTP/1.", r.minor>>
<1>2. P = Len(r.path) /\ Q = Len(r.query)
  OBVIOUS
<1> HIDE DEF P, Q
<1>3. a \in Seq(Tokens) /\ Len(a) = 2 /\ a[1] = r.method /\ a[2] = "SP"
  BY <1>1
<1>4. /\ e \in Seq(Tokens) /\ Len(e) = IF r.minor = "none" THEN 0 ELSE 3
      /\ r.minor # "none" => e[1] = "SP" /\ e[2] = "HTTP/1." /\ e[3] = r.minor
  BY RequestsAssumption, TokensAssumption
<1>5. RequestLine(r) = c \o e
  BY Zenon DEF RequestLine
<1> HIDE DEF a
<1>6. b = a \o r.path
  OBVIOUS
<1> HIDE DEF b
<1>7. /\ b \in Seq(Tokens) /\ Len(b) = 2 + P /\ \A i \in 1 .. 2 : b[i] = a[i]
      /\ \A i \in 1 .. P : b[2 + i] = r.path[i]
  <2>1. /\ a \o r.path \in Seq(Tokens) /\ Len(a \o r.path) = Len(a) + Len(r.path)
        /\ \A i \in 1 .. Len(a) : (a \o r.path)[i] = a[i]
        /\ \A i \in 1 .. Len(r.path) : (a \o r.path)[Len(a) + i] = r.path[i]
    BY <1>1, <1>3, ConcatIs
  <2>2. Len(a) = 2 /\ Len(r.path) = P
    BY <1>2, <1>1, <1>3, <1>6
  <2>3. ASSUME NEW i \in 1 .. P PROVE b[2 + i] = r.path[i]
    <3>1. (a \o r.path)[Len(a) + i] = r.path[i]
      BY <2>1, <2>2, Zenon
    <3>2. QED
      BY <1>2, <1>1, <1>3, <1>6, <2>2, <3>1, Zenon
  <2>4. ASSUME NEW i \in 1 .. 2 PROVE b[i] = a[i]
    BY <1>2, <1>1, <1>3, <1>6, <2>1, <2>2, Zenon
  <2>5. b \in Seq(Tokens) /\ Len(b) = 2 + P
    BY <1>2, <1>1, <1>3, <1>6, <2>1, <2>2, Zenon
  <2>6. QED
    BY <2>3, <2>4, <2>5, Zenon
<1>8. /\ b \in Seq(Tokens) /\ Len(b) = 2 + P
      /\ b[1] = r.method /\ b[2] = "SP" /\ \A i \in 1 .. P : b[2 + i] = r.path[i]
  BY <1>3, <1>7
<1>9. c = b \o r.query
  OBVIOUS
<1> HIDE DEF c
<1>10. /\ c \in Seq(Tokens) /\ Len(c) = 2 + P + Q /\ \A i \in 1 .. 2 + P : c[i] = b[i]
       /\ \A i \in 1 .. Q : c[2 + P + i] = r.query[i]
  <2>1. b \in Seq(Tokens) /\ r.query \in Seq(Tokens)
    BY <1>1, <1>8
  <2>2. /\ b \o r.query \in Seq(Tokens) /\ Len(b \o r.query) = Len(b) + Len(r.query)
        /\ \A i \in 1 .. Len(b) : (b \o r.query)[i] = b[i]
        /\ \A i \in 1 .. Len(r.query) : (b \o r.query)[Len(b) + i] = r.query[i]
    BY <2>1, ConcatIs
  <2>3. Len(b) = 2 + P /\ Len(r.query) = Q
    BY <1>2, <1>1, <1>8, <1>9
  <2>4. ASSUME NEW i \in 1 .. Q PROVE c[2 + P + i] = r.query[i]
    <3>1. (b \o r.query)[Len(b) + i] = r.query[i]
      BY <2>2, <2>3, Zenon
    <3>2. QED
      BY <1>2, <1>1, <1>8, <1>9, <2>3, <3>1, Zenon
  <2>5. ASSUME NEW i \in 1 .. 2 + P PROVE c[i] = b[i]
    BY <1>2, <1>1, <1>8, <1>9, <2>2, <2>3, Zenon
  <2>6. c \in Seq(Tokens) /\ Len(c) = 2 + P + Q
    BY <1>2, <1>1, <1>8, <1>9, <2>2, <2>3, Zenon
  <2>7. QED
    BY <2>4, <2>5, <2>6, Zenon
<1>11. /\ c \in Seq(Tokens) /\ Len(c) = 2 + P + Q
       /\ c[1] = r.method /\ c[2] = "SP" /\ \A i \in 1 .. P : c[2 + i] = r.path[i]
       /\ \A i \in 1 .. Q : c[2 + P + i] = r.query[i]
  <2>1. 1 \in 1 .. 2 + P /\ 2 \in 1 .. 2 + P /\ \A i \in 1 .. P : 2 + i \in 1 .. 2 + P
    BY <1>1
  <2>2. QED
    BY <1>8, <1>10, <2>1, Zenon
<1> HIDE DEF e
<1> DEFINE d == c \o e
<1>12. d = c \o e
  OBVIOUS
<1> HIDE DEF d
<1>13. Len(e) \in Nat
  BY <1>4
<1>14. /\ d \in Seq(Tokens) /\ Len(d) = 2 + P + Q + Len(e)
       /\ \A i \in 1 .. 2 + P + Q : d[i] = c[i]
       /\ \A i \in 1 .. Len(e) : d[2 + P + Q + i] = e[i]
  <2>1. c \in Seq(Tokens) /\ e \in Seq(Tokens)
    BY <1>4, <1>11
  <2>2. /\ c \o e \in Seq(Tokens) /\ Len(c \o e) = Len(c) + Len(e)
        /\ \A i \in 1 .. Len(c) : (c \o e)[i] = c[i]
        /\ \A i \in 1 .. Len(e) : (c \o e)[Len(c) + i] = e[i]
    BY <2>1, ConcatIs
  <2>3. Len(c) = 2 + P + Q /\ Len(e) = Len(e)
    BY <1>1, <1>4, <1>11, <1>12
  <2>4. ASSUME NEW i \in 1 .. Len(e) PROVE d[2 + P + Q + i] = e[i]
    <3>1. (c \o e)[Len(c) + i] = e[i]
      BY <2>2, <2>3, Zenon
    <3>2. QED
      BY <1>1, <1>4, <1>11, <1>12, <2>3, <3>1, Zenon
  <2>5. ASSUME NEW i \in 1 .. 2 + P + Q PROVE d[i] = c[i]
    BY <1>1, <1>4, <1>11, <1>12, <2>2, <2>3, Zenon
  <2>6. d \in Seq(Tokens) /\ Len(d) = 2 + P + Q + Len(e)
    BY <1>1, <1>4, <1>11, <1>12, <2>2, <2>3, Zenon
  <2>7. QED
    BY <2>4, <2>5, <2>6, Zenon
<1>15. /\ d \in Seq(Tokens) /\ Len(d) = 2 + P + Q + Len(e)
       /\ d[1] = r.method /\ d[2] = "SP" /\ \A i \in 1 .. P : d[2 + i] = r.path[i]
       /\ \A i \in 1 .. Q : d[2 + P + i] = r.query[i]
       /\ \A i \in 1 .. Len(e) : d[2 + P + Q + i] = e[i]
  <2>1. /\ 1 \in 1 .. 2 + P + Q /\ 2 \in 1 .. 2 + P + Q
        /\ \A i \in 1 .. P : 2 + i \in 1 .. 2 + P + Q
        /\ \A i \in 1 .. Q : 2 + P + i \in 1 .. 2 + P + Q
    BY <1>1
  <2>2. QED
    BY <1>11, <1>14, <2>1, Zenon
<1>16. RequestLine(r) = d
  BY <1>5 DEF d
<1>17. r.minor # "none" => /\ d[3 + P + Q] = "SP" /\ d[4 + P + Q] = "HTTP/1."
                           /\ d[5 + P + Q] = r.minor
  <2>1. r.minor # "none" => 1 \in 1 .. Len(e) /\ 2 \in 1 .. Len(e) /\ 3 \in 1 .. Len(e)
    BY <1>4
  <2>2. r.minor # "none" => /\ d[2 + P + Q + 1] = e[1] /\ d[2 + P + Q + 2] = e[2]
                            /\ d[2 + P + Q + 3] = e[3]
    BY <1>15, <2>1
  <2>3. 2 + P + Q + 1 = 3 + P + Q /\ 2 + P + Q + 2 = 4 + P + Q /\ 2 + P + Q + 3 = 5 + P + Q
    BY <1>1
  <2>4. QED
    BY <1>4, <2>2, <2>3
<1>18. QED
  BY <1>1, <1>4, <1>15, <1>16, <1>17 DEF P, Q

(* What the parser takes from a request line is what the client means.     *)
LEMMA RequestLineParsed ==
    ASSUME NEW r \in Requests, NEW line, line = RequestLine(r)
    PROVE  /\ HasMethod(line) <=> r.method # "none"
           /\ HasMethod(line) =>
                  MethodOf(line) = IF r.method \in Methods THEN r.method ELSE "kInvalid"
           /\ VersionOf(line) # "kUnkown" => r.minor \in {"0", "1"}
           /\ HasMethod(line) /\ r.minor \in {"0", "1"} =>
                  /\ VersionOf(line) = IF r.minor = "1" THEN "kHttp11" ELSE "kHttp10"
                  /\ ~(SecondSpace(line) > Len(line))
                  /\ PathOf(line) = r.path /\ QueryOf(line) = r.query
<1> DEFINE P == Len(r.path)
           Q == Len(r.query)
<1>1. CASE r.method = "none"
  <2>1. line = <<>> /\ Len(line) = 0
    BY <1>1 DEF RequestLine
  <2>2. \A i \in Nat : i >= 1 => Find(line, "SP", i) = 1
    BY <2>1, FindNone
  <2>3. ~HasMethod(line)
    BY <2>1, <2>2 DEF HasMethod
  <2>4. VersionOf(line) = "kUnkown"
    <3>1. SubSeq(line, 1 + 1, Len(line)) = <<>>
      BY <2>1
    <3>2. Find(line, "SP", Find(line, "SP", 1) + 1) = 1
      BY <2>2
    <3>3. <<>> # <<"HTTP/1.", "1">> /\ <<>> # <<"HTTP/1.", "0">>
      OBVIOUS
    <3>4. QED
      BY <3>1, <3>2, <3>3 DEF VersionOf
  <2>5. QED
    BY <1>1, <2>3, <2>4
<1>2. CASE r.method # "none"
  <2>1. /\ P \in Nat /\ Q \in Nat /\ line \in Seq(Tokens)
        /\ Len(line) = 2 + P + Q + (IF r.minor = "none" THEN 0 ELSE 3)
        /\ line[1] = r.method /\ line[2] = "SP"
        /\ \A i \in 1 .. P : line[2 + i] = r.path[i]
        /\ \A i \in 1 .. Q : line[2 + P + i] = r.query[i]
        /\ r.minor # "none" => /\ line[3 + P + Q] = "SP" /\ line[4 + P + Q] = "HTTP/1."
                               /\ line[5 + P + Q] = r.minor
    BY <1>2, RequestLineIs
  <2>2. /\ r.path \in Seq(Tokens \ {"SP", "?"}) /\ r.query \in Seq(Tokens \ {"SP"})
        /\ r.path \in Seq(Tokens) /\ r.query \in Seq(Tokens)
        /\ r.method # "SP" /\ r.minor # "SP" /\ r.method \in Tokens
        /\ r.query # <<>> => r.query[1] = "?"
        /\ r.minor # "none" => r.minor \in Tokens
    BY <1>2, RequestsAssumption, TokenSequences
  <2>3. /\ \A i \in 1 .. P : r.path[i] # "SP" /\ r.path[i] # "?"
        /\ \A i \in 1 .. Q : r.query[i] # "SP"
    BY <2>2, ElementOfSeq
  <2> HIDE DEF P, Q
  <2>4. Find(line, "SP", 1) = 2
    BY <2>1, <2>2, FindIs
  <2>5. HasMethod(line)
    BY <2>1, <2>4 DEF HasMethod
  <2>6. MethodOf(line) = IF r.method \in Methods THEN r.method ELSE "kInvalid"
    <3>1. SubSeq(line, 1, 1) = <<r.method>>
      <4> DEFINE t == <<r.method>>
      <4>1. t \in Seq(Tokens) /\ Len(t) = 1 /\ t[1] = r.method
        BY <2>2
      <4> HIDE DEF t
      <4>2. /\ line \in Seq(Tokens) /\ 1 \in Nat /\ 1 >= 1 /\ 1 = 1 + Len(t) - 1
            /\ 1 <= Len(line) /\ \A i \in 1 .. Len(t) : line[1 + i - 1] = t[i]
        BY <2>1, <4>1
      <4>3. SubSeq(line, 1, 1) = t
        BY <4>1, <4>2, PieceIs
      <4>4. QED
        BY <4>3 DEF t
    <3>2. \A k : <<r.method>> = <<k>> <=> r.method = k
      OBVIOUS
    <3>3. SubSeq(line, 1, Find(line, "SP", 1) - 1) = <<r.method>>
      BY <2>4, <3>1
    <3>4. <<r.method>>[1] = r.method
      OBVIOUS
    <3>5. QED
      BY <3>2, <3>3, <3>4 DEF MethodOf
  <2>7. \A i \in 3 .. 2 + P + Q : line[i] # "SP"
    <3> TAKE i \in 3 .. 2 + P + Q
    <3>1. CASE i <= 2 + P
      <4>1. i - 2 \in 1 .. P /\ 2 + (i - 2) = i
        BY <2>1, <3>1
      <4>2. line[i] = r.path[i - 2]
        BY <2>1, <4>1
      <4>3. QED
        BY <2>3, <4>1, <4>2
    <3>2. CASE i > 2 + P
      <4>1. i - 2 - P \in 1 .. Q /\ 2 + P + (i - 2 - P) = i
        BY <2>1, <3>2
      <4>2. line[i] = r.query[i - 2 - P]
        BY <2>1, <4>1
      <4>3. QED
        BY <2>3, <4>1, <4>2
    <3>3. QED
      BY <2>1, <3>1, <3>2
  <2>8. SecondSpace(line) = 3 + P + Q
    <3>1. CASE r.minor = "none"
      BY <2>1, <2>4, <2>7, <3>1, FindNone DEF SecondSpace
    <3>2. CASE r.minor # "none"
      BY <2>1, <2>4, <2>7, <3>2, FindIs DEF SecondSpace
    <3>3. QED
      BY <3>1, <3>2
  <2> DEFINE rest == SubSeq(line, 4 + P + Q, Len(line))
  <2>9. VersionOf(line) = CASE rest = <<"HTTP/1.", "1">> -> "kHttp11"
                            [] rest = <<"HTTP/1.", "0">> -> "kHttp10"
                            [] OTHER -> "kUnkown"
    <3>1. SecondSpace(line) + 1 = 4 + P + Q
      BY <2>1, <2>8
    <3>2. rest = SubSeq(line, SecondSpace(line) + 1, Len(line))
      BY <3>1
    <3> HIDE DEF rest
    <3>3. QED
      BY <3>2, Zenon DEF VersionOf, SecondSpace
  <2>10. r.minor = "none" => rest = <<>>
    BY <2>1, SubSeqEmpty
  <2>11. r.minor # "none" => rest = <<"HTTP/1.", r.minor>>
    <3> SUFFICES ASSUME r.minor # "none" PROVE rest = <<"HTTP/1.", r.minor>>
      OBVIOUS
    <3> DEFINE t == <<"HTTP/1.", r.minor>>
    <3>1. t \in Seq(Tokens) /\ Len(t) = 2 /\ t[1] = "HTTP/1." /\ t[2] = r.minor
      BY <2>2, TokensAssumption
    <3> HIDE DEF t
    <3>2. \A i \in 1 .. 2 : line[(4 + P + Q) + i - 1] = t[i]
      <4>1. (4 + P + Q) + 1 - 1 = 4 + P + Q /\ (4 + P + Q) + 2 - 1 = 5 + P + Q
        BY <2>1
      <4>2. line[(4 + P + Q) + 1 - 1] = t[1] /\ line[(4 + P + Q) + 2 - 1] = t[2]
        BY <2>1, <3>1, <4>1
      <4>3. QED
        BY <4>2
    <3>3. SubSeq(line, 4 + P + Q, 5 + P + Q) = t
      <4>1. /\ 4 + P + Q \in Nat /\ 5 + P + Q \in Nat /\ 4 + P + Q >= 1
            /\ 5 + P + Q = (4 + P + Q) + Len(t) - 1 /\ 5 + P + Q <= Len(line)
        BY <2>1, <3>1
      <4>2. \A i \in 1 .. Len(t) : line[(4 + P + Q) + i - 1] = t[i]
        BY <3>1, <3>2
      <4>3. line \in Seq(Tokens)
        BY <2>1
      <4>4. QED
        BY <3>1, <4>1, <4>2, <4>3, PieceIs
    <3>4. QED
      BY <2>1, <3>3 DEF t
  <2> HIDE DEF rest
  <2>12. \A x, y : <<"HTTP/1.", x>> = <<"HTTP/1.", y>> <=> x = y
    OBVIOUS
  <2>13. <<>> # <<"HTTP/1.", "1">> /\ <<>> # <<"HTTP/1.", "0">>
    OBVIOUS
  <2>14. VersionOf(line) = IF r.minor = "1" THEN "kHttp11" ELSE IF r.minor = "0" THEN "kHttp10"
                           ELSE "kUnkown"
    <3>1. CASE r.minor = "none"
      BY <2>9, <2>10, <2>13, <3>1
    <3>2. CASE r.minor # "none"
      BY <2>9, <2>11, <2>12, <3>2
    <3>3. QED
      BY <3>1, <3>2
  <2>15. ASSUME r.minor \in {"0", "1"}
         PROVE  PathOf(line) = r.path /\ QueryOf(line) = r.query
    <3> DEFINE front == SubSeq(line, 1, 2 + P + Q)
    <3>1. /\ front \in Seq(Tokens) /\ Len(front) = 2 + P + Q
          /\ \A i \in 1 .. 2 + P + Q : front[i] = line[i]
      BY <2>1, <2>15, SubSeqProperties
    <3> HIDE DEF front
    <3>2. \A i \in 3 .. 2 + P : front[i] # "?"
      <4> TAKE i \in 3 .. 2 + P
      <4>1. i - 2 \in 1 .. P /\ 2 + (i - 2) = i /\ i \in 1 .. 2 + P + Q
        BY <2>1
      <4>2. front[i] = r.path[i - 2]
        BY <2>1, <3>1, <4>1
      <4>3. QED
        BY <2>3, <4>1, <4>2
    <3>3. Find(front, "?", 3) = 3 + P
      <4>1. CASE Q = 0
        BY <2>1, <3>1, <3>2, <4>1, FindNone
      <4>2. CASE Q # 0
        <5>1. r.query # <<>> /\ 1 \in 1 .. Q
          BY <2>1, <4>2 DEF Q
        <5>2. front[2 + P + 1] = "?" /\ 2 + P + 1 = 3 + P
          BY <2>1, <2>2, <3>1, <5>1
        <5>3. QED
          BY <2>1, <3>1, <3>2, <4>2, <5>2, FindIs
      <4>3. QED
        BY <4>1, <4>2
    <3>4. QueryStart(line) = 3 + P
      <4>1. SecondSpace(line) - 1 = 2 + P + Q /\ Find(line, "SP", 1) + 1 = 3
        BY <2>1, <2>4, <2>8
      <4>2. QED
        BY <3>3, <4>1 DEF QueryStart, front
    <3> DEFINE u == r.path
               v == r.query
    <3>5. /\ u \in Seq(Tokens) /\ Len(u) = P /\ v \in Seq(Tokens) /\ Len(v) = Q
          /\ \A i \in 1 .. P : line[2 + i] = u[i]
          /\ \A i \in 1 .. Q : line[2 + P + i] = v[i]
      BY <2>1, <2>2 DEF P, Q
    <3> HIDE DEF u, v
    <3>6. SubSeq(line, 3, 2 + P) = u
      <4>1. \A i \in 1 .. Len(u) : line[3 + i - 1] = u[i]
        <5> TAKE i \in 1 .. Len(u)
        <5>1. 3 + i - 1 = 2 + i
          BY <2>1, <3>5
        <5>2. QED
          BY <3>5, <5>1
      <4>2. /\ 2 + P \in Nat /\ 2 + P = 3 + Len(u) - 1 /\ 2 + P <= Len(line)
            /\ line \in Seq(Tokens) /\ u \in Seq(Tokens)
        BY <2>1, <3>5
      <4>3. QED
        BY <4>1, <4>2, PieceIs
    <3>7. SubSeq(line, 3 + P, 2 + P + Q) = v
      <4>1. \A i \in 1 .. Len(v) : line[(3 + P) + i - 1] = v[i]
        <5> TAKE i \in 1 .. Len(v)
        <5>1. (3 + P) + i - 1 = 2 + P + i
          BY <2>1, <3>5
        <5>2. QED
          BY <3>5, <5>1
      <4>2. /\ 3 + P \in Nat /\ 2 + P + Q \in Nat /\ 3 + P >= 1
            /\ 2 + P + Q = (3 + P) + Len(v) - 1 /\ 2 + P + Q <= Len(line)
            /\ line \in Seq(Tokens) /\ v \in Seq(Tokens)
        BY <2>1, <3>5
      <4>3. QED
        BY <4>1, <4>2, PieceIs
    <3>8. /\ Find(line, "SP", 1) + 1 = 3 /\ QueryStart(line) - 1 = 2 + P
          /\ SecondSpace(line) - 1 = 2 + P + Q
      BY <2>1, <2>4, <2>8, <3>4
    <3>9. QED
      BY <3>4, <3>6, <3>7, <3>8 DEF PathOf, QueryOf, u, v
  <2>16. r.minor \in {"0", "1"} => ~(SecondSpace(line) > Len(line))
    BY <2>1, <2>8
  <2>17. QED
    BY <1>2, <2>5, <2>6, <2>14, <2>15, <2>16
<1>3. QED
  BY <1>1, <1>2

(* A header line, token by token.                                          *)
LEMMA HeaderLineIs ==
    ASSUME NEW h, h.field \in Seq(Tokens), h.before \in Seq(Tokens), h.value \in Seq(Tokens),
           h.after \in Seq(Tokens), NEW line, line = HeaderLine(h)
    PROVE  /\ Len(h.field) \in Nat /\ Len(h.before) \in Nat
           /\ Len(h.value) \in Nat /\ Len(h.after) \in Nat
           /\ line \in Seq(Tokens)
           /\ Len(line) = Len(h.field) + 1 + Len(h.before) + Len(h.value) + Len(h.after)
           /\ \A i \in 1 .. Len(h.field) : line[i] = h.field[i]
           /\ line[Len(h.field) + 1] = ":"
           /\ \A i \in 1 .. Len(h.before) : line[Len(h.field) + 1 + i] = h.before[i]
           /\ \A i \in 1 .. Len(h.value) :
                  line[Len(h.field) + 1 + Len(h.before) + i] = h.value[i]
           /\ \A i \in 1 .. Len(h.after) :
                  line[Len(h.field) + 1 + Len(h.before) + Len(h.value) + i] = h.after[i]
<1> DEFINE f == h.field
           b == h.before
           v == h.value
           a == h.after
           F == Len(f)
           B == Len(b)
           V == Len(v)
           A == Len(a)
           colon == <<":">>
           s1 == f \o colon
           s2 == s1 \o b
           s3 == s2 \o v
           s4 == s3 \o a
<1>1. /\ f \in Seq(Tokens) /\ b \in Seq(Tokens) /\ v \in Seq(Tokens) /\ a \in Seq(Tokens)
      /\ F \in Nat /\ B \in Nat /\ V \in Nat /\ A \in Nat
  OBVIOUS
<1>2. colon \in Seq(Tokens) /\ Len(colon) = 1 /\ colon[1] = ":"
  BY TokensAssumption
<1>3. line = s4
  BY Zenon DEF HeaderLine
<1> HIDE DEF f, b, v, a, colon
<1>4. /\ s1 \in Seq(Tokens) /\ Len(s1) = F + 1
      /\ \A i \in 1 .. F : s1[i] = f[i]
      /\ s1[F + 1] = ":"
  <2>1. /\ f \o colon \in Seq(Tokens) /\ Len(f \o colon) = Len(f) + Len(colon)
        /\ \A i \in 1 .. Len(f) : (f \o colon)[i] = f[i]
        /\ \A i \in 1 .. Len(colon) : (f \o colon)[Len(f) + i] = colon[i]
    <3>1. f \in Seq(Tokens) /\ colon \in Seq(Tokens)
      BY <1>1, <1>2
    <3>2. QED
      BY <3>1, ConcatIs
  <2>2. QED
    BY <1>1, <1>2, <2>1
<1> HIDE DEF s1
<1>5. /\ s2 \in Seq(Tokens) /\ Len(s2) = F + 1 + B
      /\ \A i \in 1 .. F + 1 : s2[i] = s1[i]
      /\ \A i \in 1 .. B : s2[F + 1 + i] = b[i]
  <2>1. s1 \in Seq(Tokens) /\ b \in Seq(Tokens)
    BY <1>1, <1>4
  <2>2. /\ s1 \o b \in Seq(Tokens) /\ Len(s1 \o b) = Len(s1) + Len(b)
        /\ \A i \in 1 .. Len(s1) : (s1 \o b)[i] = s1[i]
        /\ \A i \in 1 .. Len(b) : (s1 \o b)[Len(s1) + i] = b[i]
    BY <2>1, ConcatIs
  <2>3. Len(s1) = F + 1
    BY <1>4
  <2>4. QED
    BY <2>2, <2>3, Zenon
<1> HIDE DEF s2
<1>6. /\ s3 \in Seq(Tokens) /\ Len(s3) = F + 1 + B + V
      /\ \A i \in 1 .. F + 1 + B : s3[i] = s2[i]
      /\ \A i \in 1 .. V : s3[F + 1 + B + i] = v[i]
  <2>1. s2 \in Seq(Tokens) /\ v \in Seq(Tokens)
    BY <1>1, <1>5
  <2>2. /\ s2 \o v \in Seq(Tokens) /\ Len(s2 \o v) = Len(s2) + Len(v)
        /\ \A i \in 1 .. Len(s2) : (s2 \o v)[i] = s2[i]
        /\ \A i \in 1 .. Len(v) : (s2 \o v)[Len(s2) + i] = v[i]
    BY <2>1, ConcatIs
  <2>3. Len(s2) = F + 1 + B
    BY <1>5
  <2>4. QED
    BY <2>2, <2>3, Zenon
<1> HIDE DEF s3
<1>7. /\ s4 \in Seq(Tokens) /\ Len(s4) = F + 1 + B + V + A
      /\ \A i \in 1 .. F + 1 + B + V : s4[i] = s3[i]
      /\ \A i \in 1 .. A : s4[F + 1 + B + V + i] = a[i]
  <2>1. s3 \in Seq(Tokens) /\ a \in Seq(Tokens)
    BY <1>1, <1>6
  <2>2. /\ s3 \o a \in Seq(Tokens) /\ Len(s3 \o a) = Len(s3) + Len(a)
        /\ \A i \in 1 .. Len(s3) : (s3 \o a)[i] = s3[i]
        /\ \A i \in 1 .. Len(a) : (s3 \o a)[Len(s3) + i] = a[i]
    BY <2>1, ConcatIs
  <2>3. Len(s3) = F + 1 + B + V
    BY <1>6
  <2>4. QED
    BY <2>2, <2>3, Zenon
<1> HIDE DEF s4, F, B, V, A
<1>8. /\ \A i \in 1 .. F : i \in 1 .. F + 1 /\ i \in 1 .. F + 1 + B /\ i \in 1 .. F + 1 + B + V
      /\ F + 1 \in 1 .. F + 1 /\ F + 1 \in 1 .. F + 1 + B /\ F + 1 \in 1 .. F + 1 + B + V
      /\ \A i \in 1 .. B : F + 1 + i \in 1 .. F + 1 + B /\ F + 1 + i \in 1 .. F + 1 + B + V
      /\ \A i \in 1 .. V : F + 1 + B + i \in 1 .. F + 1 + B + V
  BY <1>1
<1>9. /\ \A i \in 1 .. F : s4[i] = f[i]
      /\ s4[F + 1] = ":"
      /\ \A i \in 1 .. B : s4[F + 1 + i] = b[i]
      /\ \A i \in 1 .. V : s4[F + 1 + B + i] = v[i]
  <2>1. \A i \in 1 .. F : s4[i] = f[i]
    BY <1>4, <1>5, <1>6, <1>7, <1>8, Zenon
  <2>2. s4[F + 1] = ":"
    BY <1>4, <1>5, <1>6, <1>7, <1>8, Zenon
  <2>3. \A i \in 1 .. B : s4[F + 1 + i] = b[i]
    BY <1>5, <1>6, <1>7, <1>8, Zenon
  <2>4. \A i \in 1 .. V : s4[F + 1 + B + i] = v[i]
    BY <1>6, <1>7, <1>8, Zenon
  <2>5. QED
    BY <2>1, <2>2, <2>3, <2>4
<1>10. QED
  BY <1>1, <1>3, <1>7, <1>9, Zenon DEF F, B, V, A, f, b, v, a

(* What the parser takes from a header line is the field and its value,    *)
(* without the blanks around it.                                           *)
LEMMA HeaderLineParsed ==
    ASSUME NEW r \in Requests, NEW k \in 1 .. Len(r.headers), NEW line,
           line = HeaderLine(r.headers[k])
    PROVE  /\ Find(line, ":", 1) <= Len(line)
           /\ SubSeq(line, 1, Find(line, ":", 1) - 1) = r.headers[k].field
           /\ ValueOf(line) = r.headers[k].value
<1> DEFINE h == r.headers[k]
           f == h.field
           b == h.before
           v == h.value
           a == h.after
           F == Len(f)
           B == Len(b)
           V == Len(v)
           A == Len(a)
<1>1. /\ f \in Seq(Tokens \ {":"}) /\ v \in Seq(Tokens)
      /\ b \in Seq({"SP"}) /\ a \in Seq({"SP"})
  BY HeaderTypes
<1>2. f \in Seq(Tokens) /\ b \in Seq(Tokens) /\ a \in Seq(Tokens)
  BY <1>1, TokenSequences
<1>3. v # <<>> => v[1] # "SP" /\ v[V] # "SP"
  <2>1. k \in DOMAIN r.headers
    BY RequestsAssumption
  <2>2. QED
    BY <2>1, RequestsAssumption
<1>4. /\ F \in Nat /\ B \in Nat /\ V \in Nat /\ A \in Nat
      /\ line \in Seq(Tokens)
      /\ Len(line) = F + 1 + B + V + A
      /\ \A i \in 1 .. F : line[i] = f[i]
      /\ line[F + 1] = ":"
      /\ \A i \in 1 .. B : line[F + 1 + i] = b[i]
      /\ \A i \in 1 .. V : line[F + 1 + B + i] = v[i]
      /\ \A i \in 1 .. A : line[F + 1 + B + V + i] = a[i]
  <2>1. /\ h.field \in Seq(Tokens) /\ h.before \in Seq(Tokens)
        /\ h.value \in Seq(Tokens) /\ h.after \in Seq(Tokens)
    BY <1>1, <1>2
  <2>2. line = HeaderLine(h)
    OBVIOUS
  <2> HIDE DEF h
  <2>3. /\ Len(h.field) \in Nat /\ Len(h.before) \in Nat
        /\ Len(h.value) \in Nat /\ Len(h.after) \in Nat
        /\ line \in Seq(Tokens)
        /\ Len(line) = Len(h.field) + 1 + Len(h.before) + Len(h.value) + Len(h.after)
        /\ \A i \in 1 .. Len(h.field) : line[i] = h.field[i]
        /\ line[Len(h.field) + 1] = ":"
        /\ \A i \in 1 .. Len(h.before) : line[Len(h.field) + 1 + i] = h.before[i]
        /\ \A i \in 1 .. Len(h.value) :
               line[Len(h.field) + 1 + Len(h.before) + i] = h.value[i]
        /\ \A i \in 1 .. Len(h.after) :
               line[Len(h.field) + 1 + Len(h.before) + Len(h.value) + i] = h.after[i]
    <3>1. /\ h.field \in Seq(Tokens) /\ h.before \in Seq(Tokens)
          /\ h.value \in Seq(Tokens) /\ h.after \in Seq(Tokens) /\ line = HeaderLine(h)
      BY <2>1, <2>2
    <3>2. QED
      BY <3>1, HeaderLineIs, ZenonT(60)
  <2>4. QED
    BY <2>3, Zenon DEF F, B, V, A, f, b, v, a
<1>5. /\ \A i \in 1 .. F : f[i] # ":"
      /\ \A i \in 1 .. B : b[i] = "SP"
      /\ \A i \in 1 .. A : a[i] = "SP"
      /\ F = Len(f) /\ V = Len(v)
      /\ V # 0 => v # <<>>
      /\ V = 0 => v = <<>>
  <2> HIDE DEF f, b, v, a
  <2>1. QED
    BY <1>1, ElementOfSeq
<1> HIDE DEF F, B, V, A, f, b, v, a
<1>6. Find(line, ":", 1) = F + 1
  <2> DEFINE k0 == F + 1
  <2>1. /\ Len(line) \in Nat /\ k0 \in 1 .. Len(line) /\ line[k0] = ":" /\ 1 \in Nat
        /\ \A j \in 1 .. k0 - 1 : line[j] # ":"
    BY <1>4, <1>5
  <2> HIDE DEF k0
  <2>2. Find(line, ":", 1) = k0
    BY <2>1, FindIs
  <2>3. QED
    BY <2>2 DEF k0
<1>7. SubSeq(line, 1, F) = f
  <2>1. /\ 1 \in Nat /\ 1 >= 1 /\ F = 1 + Len(f) - 1 /\ F <= Len(line)
        /\ \A i \in 1 .. Len(f) : line[1 + i - 1] = f[i]
    BY <1>4, <1>5
  <2>2. QED
    BY <1>2, <1>4, <2>1, PieceIs
<1> DEFINE text == {i \in F + 2 .. Len(line) : line[i] # "SP"}
<1>8. /\ \A i \in F + 2 .. F + 1 + B : line[i] = "SP"
      /\ \A i \in F + 2 + B + V .. Len(line) : line[i] = "SP"
  <2>1. ASSUME NEW i \in F + 2 .. F + 1 + B PROVE line[i] = "SP"
    <3>1. i - F - 1 \in 1 .. B /\ F + 1 + (i - F - 1) = i
      BY <1>4
    <3>2. QED
      BY <1>4, <1>5, <3>1
  <2>2. ASSUME NEW i \in F + 2 + B + V .. Len(line) PROVE line[i] = "SP"
    <3>1. i - F - 1 - B - V \in 1 .. A /\ F + 1 + B + V + (i - F - 1 - B - V) = i
      BY <1>4
    <3>2. QED
      BY <1>4, <1>5, <3>1
  <2>3. QED
    BY <2>1, <2>2
<1>9. ValueOf(line) = IF text = {} THEN <<>> ELSE SubSeq(line, Min(text), Max(text))
  <2>1. F + 1 + 1 = F + 2
    BY <1>4
  <2>2. QED
    BY <1>6, <2>1 DEF ValueOf
<1>10. CASE V = 0
  <2>1. text = {}
    <3>1. ASSUME NEW i \in F + 2 .. Len(line) PROVE line[i] = "SP"
      <4>1. i \in F + 2 + B + V .. Len(line) \/ i \in F + 2 .. F + 1 + B
        BY <1>4, <1>10
      <4>2. QED
        BY <1>8, <4>1
    <3>2. QED
      BY <3>1
  <2>2. QED
    BY <1>4, <1>5, <1>6, <1>7, <1>9, <1>10, <2>1 DEF f, v
<1>11. CASE V # 0
  <2>1. line[F + 2 + B] = v[1] /\ line[F + 1 + B + V] = v[V]
    <3>1. 1 \in 1 .. V /\ V \in 1 .. V /\ F + 1 + B + 1 = F + 2 + B
      BY <1>4, <1>11
    <3>2. QED
      BY <1>4, <3>1
  <2>2. F + 2 + B \in text /\ F + 1 + B + V \in text /\ text \in SUBSET Int
    <3>1. v[1] # "SP" /\ v[V] # "SP"
      BY <1>3, <1>5, <1>11, Zenon
    <3>2. /\ F + 2 + B \in F + 2 .. Len(line) /\ F + 1 + B + V \in F + 2 .. Len(line)
      BY <1>4, <1>11
    <3>3. QED
      BY <1>4, <2>1, <3>1, <3>2
  <2>3. \A i \in text : F + 2 + B <= i /\ i <= F + 1 + B + V
    <3> TAKE i \in text
    <3>1. i \in F + 2 .. Len(line) /\ line[i] # "SP"
      OBVIOUS
    <3>2. i \notin F + 2 .. F + 1 + B /\ i \notin F + 2 + B + V .. Len(line)
      BY <1>8, <3>1
    <3>3. F \in Nat /\ B \in Nat /\ V \in Nat /\ Len(line) \in Nat
      BY <1>4
    <3> HIDE DEF text
    <3>4. QED
      BY <3>1, <3>2, <3>3
  <2> HIDE DEF text
  <2>4. Min(text) = F + 2 + B /\ Max(text) = F + 1 + B + V /\ text # {}
    BY <2>2, <2>3, MinIs, MaxIs
  <2>5. SubSeq(line, F + 2 + B, F + 1 + B + V) = v
    <3>1. \A i \in 1 .. Len(v) : line[(F + 2 + B) + i - 1] = v[i]
      <4> TAKE i \in 1 .. Len(v)
      <4>1. (F + 2 + B) + i - 1 = F + 1 + B + i
        BY <1>4, <1>5
      <4>2. QED
        BY <1>4, <1>5, <4>1
    <3>2. /\ F + 2 + B \in Nat /\ F + 1 + B + V \in Nat /\ F + 2 + B >= 1
          /\ F + 1 + B + V = (F + 2 + B) + Len(v) - 1 /\ F + 1 + B + V <= Len(line)
          /\ line \in Seq(Tokens) /\ v \in Seq(Tokens)
      BY <1>1, <1>4, <1>5
    <3>3. QED
      BY <3>1, <3>2, PieceIs
  <2>6. ValueOf(line) = v
    BY <1>9, <2>4, <2>5
  <2>7. QED
    BY <1>4, <1>6, <1>7, <2>6 DEF f, v
<1>12. QED
  BY <1>10, <1>11

(* The headers a client means by the first n of those it writes.           *)
HeadersUpTo(r, n) ==
    [f \in {r.headers[i].field : i \in 1 .. n} |->
        r.headers[Max({i \in 1 .. n : r.headers[i].field = f})].value]

(* The request as far as its line and n headers.                           *)
PartOf(r, n) ==
    [method |-> r.method, path |-> r.path, query |-> r.query,
     version |-> IF r.minor = "1" THEN "kHttp11" ELSE "kHttp10",
     headers |-> HeadersUpTo(r, n)]

LEMMA MeaningIs ==
    ASSUME NEW r \in Requests
    PROVE  Meaning(r) = PartOf(r, Len(r.headers))
<1>1. DOMAIN r.headers = 1 .. Len(r.headers)
  BY RequestsAssumption
<1>2. QED
  BY <1>1, Zenon DEF Meaning, PartOf, HeadersUpTo

LEMMA NoHeaders ==
    ASSUME NEW r
    PROVE  HeadersUpTo(r, 0) = <<>>
<1>1. {r.headers[i].field : i \in 1 .. 0} = {}
  OBVIOUS
<1>2. HeadersUpTo(r, 0) =
          [f \in {} |-> r.headers[Max({i \in 1 .. 0 : r.headers[i].field = f})].value]
  BY <1>1, Zenon DEF HeadersUpTo
<1> DEFINE value(f) == r.headers[Max({i \in 1 .. 0 : r.headers[i].field = f})].value
<1> HIDE DEF value
<1>3. [f \in {} |-> value(f)] = <<>>
  OBVIOUS
<1>4. QED
  BY <1>2, <1>3, Zenon DEF value

(* One header more, which takes the place of an earlier one of its name.   *)
LEMMA AddHeaderIs ==
    ASSUME NEW r \in Requests, NEW n \in Nat, n + 1 <= Len(r.headers), NEW line,
           line = HeaderLine(r.headers[n + 1])
    PROVE  AddHeader(HeadersUpTo(r, n), line) = HeadersUpTo(r, n + 1)
<1> DEFINE field(i) == r.headers[i].field
           value(i) == r.headers[i].value
           before == {field(i) : i \in 1 .. n}
           after == {field(i) : i \in 1 .. n + 1}
           last(f, m) == Max({i \in 1 .. m : field(i) = f})
           old == HeadersUpTo(r, n)
           new == HeadersUpTo(r, n + 1)
           g == field(n + 1)
<1>1. /\ SubSeq(line, 1, Find(line, ":", 1) - 1) = g
      /\ ValueOf(line) = value(n + 1)
  <2>1. n + 1 \in 1 .. Len(r.headers)
    BY RequestsAssumption
  <2>2. QED
    BY <2>1, HeaderLineParsed
<1> DEFINE add == [f \in DOMAIN old \cup {g} |-> IF f = g THEN value(n + 1) ELSE old[f]]
<1>2. AddHeader(old, line) = add
  BY <1>1, Zenon DEF AddHeader
<1>3. /\ old = [f \in before |-> value(last(f, n))]
      /\ new = [f \in after |-> value(last(f, n + 1))]
  BY Zenon DEF HeadersUpTo
<1> HIDE DEF field, value, old, new
<1>4. before \cup {g} = after
  <2>1. \A i : i \in 1 .. n + 1 <=> i \in 1 .. n \/ i = n + 1
    OBVIOUS
  <2>2. QED
    BY <2>1
<1>5. last(g, n + 1) = n + 1
  <2> DEFINE S == {i \in 1 .. n + 1 : field(i) = g}
  <2>1. S \in SUBSET Int /\ n + 1 \in S /\ \A i \in S : i <= n + 1
    OBVIOUS
  <2> HIDE DEF S
  <2>2. Max(S) = n + 1
    BY <2>1, MaxIs
  <2>3. QED
    BY <2>2 DEF S
<1>6. ASSUME NEW f, f # g PROVE last(f, n + 1) = last(f, n)
  <2>1. {i \in 1 .. n + 1 : field(i) = f} = {i \in 1 .. n : field(i) = f}
    BY <1>6
  <2>2. QED
    BY <2>1
<1>7. add = [f \in after |-> IF f = g THEN value(n + 1) ELSE old[f]]
  BY <1>3, <1>4
<1>8. new = [f \in after |-> IF f = g THEN value(n + 1) ELSE old[f]]
  <2>1. ASSUME NEW f \in after
        PROVE  value(last(f, n + 1)) = IF f = g THEN value(n + 1) ELSE old[f]
    <3>1. CASE f = g
      BY <1>5, <3>1
    <3>2. CASE f # g
      <4>1. f \in before
        BY <1>4, <3>2
      <4>2. old[f] = value(last(f, n))
        BY <1>3, <4>1
      <4>3. QED
        BY <1>6, <3>2, <4>2
    <3>3. QED
      BY <3>1, <3>2
  <2> HIDE DEF after, g, last
  <2>2. QED
    BY <1>3, <2>1
<1>9. QED
  BY <1>2, <1>7, <1>8, Zenon DEF old, new

(* Where the requests' lines are in the stream: request i is behind at[i]. *)
StreamIs(at) ==
    /\ at \in [1 .. Len(client) + 1 -> Nat]
    /\ at[1] = 0 /\ at[Len(client) + 1] = Len(stream)
    /\ \A i \in 1 .. Len(client) :
        /\ at[i + 1] = at[i] + Len(LinesOf(client[i])) /\ at[i + 1] <= Len(stream)
        /\ \A k \in 1 .. Len(LinesOf(client[i])) : stream[at[i] + k] = LinesOf(client[i])[k]

(* The requests handled are the client's first ones.                       *)
Seen ==
    /\ Len(handled) <= Len(client)
    /\ \A i \in 1 .. Len(handled) :
        WellFormed(client[i]) /\ handled[i].request = Meaning(client[i])

(* How far the next one has been parsed, by the parser's state.            *)
ParsedTo(at) ==
    LET n == Len(handled)
        next == client[n + 1] IN
    /\ context.state \in {"none", "kExpectRequestLine"} =>
           taken = at[n + 1] /\ (context.request = NewRequest \/ Stuck)
    /\ context.state = "kExpectHeaders" =>
           /\ n < Len(client) /\ WellFormed(next)
           /\ \E k \in 0 .. Len(next.headers) :
               taken = at[n + 1] + 1 + k /\ context.request = PartOf(next, k)
    /\ context.state = "kGotAll" =>
           /\ n < Len(client) /\ WellFormed(next)
           /\ taken = at[n + 2] /\ context.request = Meaning(next)

RequestInv == Seen /\ \E at : StreamIs(at) /\ ParsedTo(at)

(* A line of the stream is a line of the request it is in.                 *)
LEMMA LineOfRequest ==
    ASSUME InputInv, NEW at, StreamIs(at), NEW i \in 1 .. Len(client),
           NEW k \in 1 .. Len(LinesOf(client[i])), taken + 1 = at[i] + k
    PROVE  Line = LinesOf(client[i])[k]
<1>1. stream[at[i] + k] = LinesOf(client[i])[k]
  BY Zenon DEF StreamIs
<1>2. QED
  BY <1>1 DEF Line

(* If nobody has written, the requests are where they were.                *)
LEMMA StreamStays ==
    ASSUME UNCHANGED <<client, stream>>, NEW at, StreamIs(at)
    PROVE  StreamIs(at)'
<1>1. client' = client /\ stream' = stream
  OBVIOUS
<1>2. QED
  BY <1>1, Zenon DEF StreamIs

(* A request that is written lies behind all the others.                   *)
LEMMA StreamGrows ==
    ASSUME InputInv, NEW at, StreamIs(at), NEW r \in Requests,
           client' = Append(client, r), stream' = stream \o LinesOf(r),
           NEW next, next = [i \in 1 .. Len(client) + 2 |->
                                IF i = Len(client) + 2 THEN Len(stream) + Len(LinesOf(r))
                                ELSE at[i]]
    PROVE  /\ StreamIs(next)'
           /\ \A i \in 1 .. Len(client) + 1 : next[i] = at[i]
           /\ Len(client) \in Nat /\ Len(client') = Len(client) + 1
           /\ \A i \in 1 .. Len(client) : client'[i] = client[i]
<1> DEFINE n == Len(client)
<1>1. /\ client \in Seq(Requests) /\ stream \in Seq(Seq(Tokens)) /\ n \in Nat
      /\ LinesOf(r) \in Seq(Seq(Tokens)) /\ Len(LinesOf(r)) \in Nat /\ Len(stream) \in Nat
  BY LinesAre DEF InputInv
<1>2. /\ Len(client') = n + 1 /\ client'[n + 1] = r
      /\ \A i \in 1 .. n : client'[i] = client[i]
  BY <1>1
<1>3. /\ Len(stream') = Len(stream) + Len(LinesOf(r))
      /\ \A k \in 1 .. Len(stream) : stream'[k] = stream[k]
      /\ \A k \in 1 .. Len(LinesOf(r)) : stream'[Len(stream) + k] = LinesOf(r)[k]
  <2>1. stream \in Seq(Seq(Tokens)) /\ LinesOf(r) \in Seq(Seq(Tokens))
    BY <1>1
  <2>2. /\ Len(stream \o LinesOf(r)) = Len(stream) + Len(LinesOf(r))
        /\ \A k \in 1 .. Len(stream) : (stream \o LinesOf(r))[k] = stream[k]
        /\ \A k \in 1 .. Len(LinesOf(r)) :
            (stream \o LinesOf(r))[Len(stream) + k] = LinesOf(r)[k]
    BY <2>1, ConcatIs
  <2>3. stream' = stream \o LinesOf(r)
    OBVIOUS
  <2>4. QED
    BY <2>2, <2>3, Zenon
<1>4. /\ at \in [1 .. n + 1 -> Nat] /\ at[1] = 0 /\ at[n + 1] = Len(stream)
      /\ \A i \in 1 .. n :
          /\ at[i + 1] = at[i] + Len(LinesOf(client[i])) /\ at[i + 1] <= Len(stream)
          /\ \A k \in 1 .. Len(LinesOf(client[i])) : stream[at[i] + k] = LinesOf(client[i])[k]
  BY Zenon DEF StreamIs
<1>5. ASSUME NEW i \in 1 .. n
      PROVE  Len(LinesOf(client[i])) \in Nat /\ at[i] \in Nat /\ at[i + 1] \in Nat
  <2>1. client[i] \in Requests
    BY <1>1, ElementOfSeq
  <2>2. LinesOf(client[i]) \in Seq(Seq(Tokens))
    BY <2>1, LinesAre
  <2>3. Len(LinesOf(client[i])) \in Nat
    BY <2>2
  <2>4. i \in 1 .. n + 1 /\ i + 1 \in 1 .. n + 1
    BY <1>1
  <2>5. at \in [1 .. n + 1 -> Nat]
    BY <1>4
  <2>6. QED
    BY <2>3, <2>4, <2>5
<1>6. /\ next \in [1 .. n + 2 -> Nat] /\ next[n + 2] = Len(stream')
      /\ \A i \in 1 .. n + 1 : next[i] = at[i]
  BY <1>1, <1>3, <1>4
<1>7. next[n + 1] = Len(stream) /\ next[n + 2] = Len(stream) + Len(LinesOf(r))
  BY <1>1, <1>3, <1>4, <1>6
<1>8. ASSUME NEW i \in 1 .. n + 1
      PROVE  /\ next[i + 1] = next[i] + Len(LinesOf(client'[i])) /\ next[i + 1] <= Len(stream')
             /\ \A k \in 1 .. Len(LinesOf(client'[i])) :
                 stream'[next[i] + k] = LinesOf(client'[i])[k]
  <2>1. CASE i = n + 1
    <3>1. i + 1 = n + 2 /\ client'[i] = r /\ next[i] = Len(stream)
      BY <1>1, <1>2, <1>7, <2>1
    <3>2. next[i + 1] = next[i] + Len(LinesOf(client'[i])) /\ next[i + 1] <= Len(stream')
      <4>1. next[i + 1] = next[n + 2]
        BY <3>1, Zenon
      <4>2. next[i] + Len(LinesOf(client'[i])) = Len(stream) + Len(LinesOf(r))
        BY <3>1, Zenon
      <4>3. next[n + 2] = Len(stream')
        BY <1>3, <1>7, Zenon
      <4>4. Len(stream') \in Nat
        BY <1>1, <1>3
      <4>5. next[i + 1] = next[i] + Len(LinesOf(client'[i]))
        BY <1>7, <4>1, <4>2, Zenon
      <4>6. next[i + 1] <= Len(stream')
        BY <4>1, <4>3, <4>4
      <4>7. QED
        BY <4>5, <4>6
    <3>3. \A k \in 1 .. Len(LinesOf(client'[i])) :
              stream'[next[i] + k] = LinesOf(client'[i])[k]
      BY <1>3, <3>1, Zenon
    <3>4. QED
      BY <3>2, <3>3
  <2>2. CASE i # n + 1
    <3>1. i \in 1 .. n /\ i + 1 \in 1 .. n + 1 /\ i \in 1 .. n + 1
      BY <1>1, <2>2
    <3>2. client'[i] = client[i] /\ next[i] = at[i] /\ next[i + 1] = at[i + 1]
      BY <1>2, <1>6, <3>1
    <3>3. next[i + 1] = next[i] + Len(LinesOf(client'[i])) /\ next[i + 1] <= Len(stream')
      BY <1>1, <1>3, <1>4, <1>5, <3>1, <3>2
    <3>4. ASSUME NEW k \in 1 .. Len(LinesOf(client[i]))
          PROVE  stream'[at[i] + k] = LinesOf(client[i])[k]
      <4>1. at[i] + k \in 1 .. Len(stream)
        <5>1. /\ at[i] \in Nat /\ k \in 1 .. Len(LinesOf(client[i]))
              /\ Len(LinesOf(client[i])) \in Nat
          BY <1>5, <3>1
        <5>2. at[i + 1] = at[i] + Len(LinesOf(client[i])) /\ at[i + 1] <= Len(stream)
          BY <1>4, <3>1, Zenon
        <5> DEFINE a == at[i]
                   b == at[i + 1]
                   L == Len(LinesOf(client[i]))
                   M == Len(stream)
        <5>3. a \in Nat /\ L \in Nat /\ M \in Nat /\ k \in 1 .. L /\ b = a + L /\ b <= M
          BY <1>1, <5>1, <5>2, Zenon
        <5> HIDE DEF a, b, L, M
        <5>4. a + k \in 1 .. M
          BY <5>3
        <5>5. QED
          BY <5>4 DEF a, M
      <4>2. stream'[at[i] + k] = stream[at[i] + k]
        BY <1>3, <4>1, Zenon
      <4>3. stream[at[i] + k] = LinesOf(client[i])[k]
        BY <1>4, <3>1, Zenon
      <4>4. QED
        BY <4>2, <4>3
    <3>5. QED
      BY <3>2, <3>3, <3>4
  <2>3. QED
    BY <2>1, <2>2
<1>9. /\ 1 \in 1 .. n + 1 /\ Len(client') + 1 = n + 2
  BY <1>1, <1>2
<1>10. StreamIs(next)'
  <2>1. next[1] = 0 /\ next \in [1 .. Len(client') + 1 -> Nat]
        /\ next[Len(client') + 1] = Len(stream')
    <3>1. 1 .. Len(client') + 1 = 1 .. n + 2
      BY <1>9
    <3>2. next \in [1 .. Len(client') + 1 -> Nat]
      BY <1>6, <3>1, Zenon
    <3>3. next[1] = 0
      BY <1>4, <1>6, <1>9, Zenon
    <3>4. next[Len(client') + 1] = Len(stream')
      BY <1>6, <1>9, Zenon
    <3>5. QED
      BY <3>2, <3>3, <3>4
  <2>2. 1 .. Len(client') = 1 .. n + 1
    BY <1>2
  <2>3. ASSUME NEW i \in 1 .. Len(client')
        PROVE  /\ next[i + 1] = next[i] + Len(LinesOf(client'[i]))
               /\ next[i + 1] <= Len(stream')
               /\ \A k \in 1 .. Len(LinesOf(client'[i])) :
                   stream'[next[i] + k] = LinesOf(client'[i])[k]
    <3>1. i \in 1 .. n + 1
      BY <2>2, Zenon
    <3>2. QED
      BY <1>8, <3>1, Zenon
  <2>4. QED
    BY <2>1, <2>3, Zenon DEF StreamIs
<1>11. QED
  BY <1>1, <1>2, <1>6, <1>10

(* Where a request begins is a number, and it is as many lines long as it  *)
(* has headers, and two.                                                   *)
LEMMA PlacesAre ==
    ASSUME InputInv, NEW at, StreamIs(at)
    PROVE  /\ Len(client) \in Nat /\ Len(stream) \in Nat
           /\ at[1] = 0 /\ at[Len(client) + 1] = Len(stream)
           /\ \A i \in 1 .. Len(client) + 1 : at[i] \in Nat
           /\ \A i \in 1 .. Len(client) :
               /\ client[i] \in Requests /\ Len(client[i].headers) \in Nat
               /\ Len(LinesOf(client[i])) = Len(client[i].headers) + 2
               /\ at[i + 1] = at[i] + Len(client[i].headers) + 2
<1>1. /\ client \in Seq(Requests) /\ stream \in Seq(Seq(Tokens))
  BY DEF InputInv
<1>2. /\ at \in [1 .. Len(client) + 1 -> Nat]
      /\ at[1] = 0 /\ at[Len(client) + 1] = Len(stream)
      /\ \A i \in 1 .. Len(client) : at[i + 1] = at[i] + Len(LinesOf(client[i]))
  BY Zenon DEF StreamIs
<1>3. Len(client) \in Nat /\ Len(stream) \in Nat
  BY <1>1
<1>4. \A i \in 1 .. Len(client) + 1 : at[i] \in Nat
  BY <1>2
<1>5. ASSUME NEW i \in 1 .. Len(client)
      PROVE  /\ client[i] \in Requests /\ Len(client[i].headers) \in Nat
             /\ Len(LinesOf(client[i])) = Len(client[i].headers) + 2
             /\ at[i + 1] = at[i] + Len(client[i].headers) + 2
  <2>1. client[i] \in Requests
    BY <1>1, ElementOfSeq
  <2>2. Len(client[i].headers) \in Nat
        /\ Len(LinesOf(client[i])) = Len(client[i].headers) + 2
    BY <2>1, LinesAre
  <2>3. at[i + 1] = at[i] + Len(LinesOf(client[i])) /\ i \in 1 .. Len(client) + 1
    BY <1>2, <1>3
  <2> DEFINE a == at[i]
             b == at[i + 1]
             h == Len(client[i].headers)
             L == Len(LinesOf(client[i]))
  <2>4. a \in Nat /\ h \in Nat /\ L = h + 2 /\ b = a + L
    BY <1>4, <2>2, <2>3, Zenon
  <2> HIDE DEF a, b, h, L
  <2>5. b = a + h + 2
    BY <2>4
  <2>6. QED
    BY <2>1, <2>2, <2>5 DEF a, b, h
<1>6. QED
  BY <1>2, <1>3, <1>4, <1>5

(* When the parser expects a request line, the line that has arrived is    *)
(* the first one of the next request.                                      *)
LEMMA NextRequestLine ==
    ASSUME InputInv, HasCrlf, NEW at, StreamIs(at),
           NEW n \in Nat, n <= Len(client), taken = at[n + 1]
    PROVE  /\ n < Len(client) /\ client[n + 1] \in Requests
           /\ Line = RequestLine(client[n + 1])
<1>1. /\ Len(client) \in Nat /\ Len(stream) \in Nat /\ at[Len(client) + 1] = Len(stream)
      /\ \A i \in 1 .. Len(client) : client[i] \in Requests
  BY PlacesAre
<1>2. taken + 1 \in 1 .. Len(stream) /\ taken \in Nat
  BY LineIsThere DEF InputInv
<1>3. n # Len(client)
  <2>1. SUFFICES ASSUME n = Len(client) PROVE FALSE
    OBVIOUS
  <2>2. taken = Len(stream)
    BY <1>1, <2>1, Zenon
  <2>3. QED
    BY <1>1, <1>2, <2>2
<1>4. n < Len(client) /\ n + 1 \in 1 .. Len(client)
  BY <1>1, <1>3
<1>5. client[n + 1] \in Requests
  BY <1>1, <1>4
<1>6. /\ Len(client[n + 1].headers) \in Nat
      /\ Len(LinesOf(client[n + 1])) = Len(client[n + 1].headers) + 2
      /\ LinesOf(client[n + 1])[1] = RequestLine(client[n + 1])
  BY <1>5, LinesAre
<1>7. 1 \in 1 .. Len(LinesOf(client[n + 1])) /\ taken + 1 = at[n + 1] + 1
  BY <1>6
<1>8. Line = LinesOf(client[n + 1])[1]
  BY <1>4, <1>7, LineOfRequest
<1>9. QED
  BY <1>4, <1>5, <1>6, <1>8

(* When it expects headers and has seen k of them, the next line is the    *)
(* next header, or the empty one behind them, the request's last.          *)
LEMMA NextHeaderLine ==
    ASSUME InputInv, NEW at, StreamIs(at), NEW n \in Nat, n < Len(client),
           NEW k \in 0 .. Len(client[n + 1].headers), taken = at[n + 1] + 1 + k
    PROVE  LET headers == client[n + 1].headers IN
           /\ client[n + 1] \in Requests /\ Len(headers) \in Nat
           /\ k < Len(headers) => Line = HeaderLine(headers[k + 1])
           /\ k = Len(headers) => Line = <<>> /\ taken + 1 = at[n + 2]
<1> DEFINE h == Len(client[n + 1].headers)
<1>1. Len(client) \in Nat /\ n + 1 \in 1 .. Len(client) /\ n + 1 \in 1 .. Len(client) + 1
  BY PlacesAre
<1>2. /\ client[n + 1] \in Requests /\ h \in Nat /\ at[n + 1] \in Nat
      /\ Len(LinesOf(client[n + 1])) = h + 2 /\ at[(n + 1) + 1] = at[n + 1] + h + 2
  BY <1>1, PlacesAre
<1>3. /\ \A i \in 1 .. h : LinesOf(client[n + 1])[i + 1] = HeaderLine(client[n + 1].headers[i])
      /\ LinesOf(client[n + 1])[h + 2] = <<>>
  BY <1>2, LinesAre
<1> HIDE DEF h
<1>4. k \in 0 .. h
  BY DEF h
<1>5. k + 2 \in 1 .. Len(LinesOf(client[n + 1])) /\ taken + 1 = at[n + 1] + (k + 2)
  <2> DEFINE a == at[n + 1]
             L == Len(LinesOf(client[n + 1]))
  <2>1. a \in Nat /\ L = h + 2 /\ taken = a + 1 + k
    BY <1>2
  <2> HIDE DEF a, L
  <2>2. k + 2 \in 1 .. L /\ taken + 1 = a + (k + 2)
    BY <1>2, <1>4, <2>1
  <2>3. QED
    BY <2>2 DEF a, L
<1>6. Line = LinesOf(client[n + 1])[k + 2]
  BY <1>1, <1>5, LineOfRequest
<1>7. k < h => Line = HeaderLine(client[n + 1].headers[k + 1])
  <2>1. SUFFICES ASSUME k < h PROVE Line = HeaderLine(client[n + 1].headers[k + 1])
    OBVIOUS
  <2>2. k + 1 \in 1 .. h /\ (k + 1) + 1 = k + 2
    BY <1>2, <1>4, <2>1
  <2>3. QED
    BY <1>3, <1>6, <2>2
<1>8. k = h => Line = <<>> /\ taken + 1 = at[n + 2]
  <2>1. (n + 1) + 1 = n + 2
    OBVIOUS
  <2>2. k = h => Line = <<>>
    BY <1>3, <1>6
  <2>3. k = h => taken + 1 = at[n + 2]
    BY <1>2, <1>4, <1>5, <2>1
  <2>4. QED
    BY <2>2, <2>3
<1>9. QED
  BY <1>2, <1>7, <1>8 DEF h

(* A step that leaves the parser and the requests alone.                   *)
LEMMA QuietRequest ==
    ASSUME InputInv, RequestInv, UNCHANGED <<client, stream, taken, context, handled>>,
           got' >= got, got' \in Nat
    PROVE  RequestInv'
<1>1. PICK at : StreamIs(at) /\ ParsedTo(at)
  BY DEF RequestInv
<1>2. StreamIs(at)'
  BY <1>1, StreamStays
<1>3. Stuck => Stuck'
  BY StuckStays
<1>4. ParsedTo(at)'
  BY <1>1, <1>3 DEF ParsedTo
<1>5. Seen'
  BY DEF RequestInv, Seen
<1>6. QED
  BY <1>2, <1>4, <1>5 DEF RequestInv

(* A request line that is stuck stays, a good one is that of the next      *)
(* request, which has no headers yet.                                      *)
LEMMA RequestLineStep ==
    ASSUME InputInv, ParserInv, ReplyInv, RequestInv, ProcessRequestLine
    PROVE  RequestInv'
<1> DEFINE n == Len(handled)
           r == client[n + 1]
           method == IF HasMethod(Line) THEN MethodOf(Line) ELSE "kInvalid"
           version == VersionOf(Line)
           q == WithTarget([context.request EXCEPT !.method = method], Line)
<1>1. PICK at : StreamIs(at) /\ ParsedTo(at)
  BY DEF RequestInv
<1>2. /\ pc = "parse" /\ HasCrlf /\ context.state = "kExpectRequestLine"
      /\ client' = client /\ stream' = stream /\ handled' = handled
      /\ \/ HasMethod(Line) /\ context.request.method # "kInvalid" /\ taken' = taken
            /\ context' = context
         \/ method = "kInvalid" /\ pc' = "bad" /\ taken' = taken /\ context' = context
         \/ /\ ~(HasMethod(Line) /\ context.request.method # "kInvalid")
            /\ method # "kInvalid"
            /\ pc' = "bad" /\ taken' = taken
         \/ /\ ~(HasMethod(Line) /\ context.request.method # "kInvalid")
            /\ method # "kInvalid" /\ version # "kUnkown"
            /\ context' = [state |-> "kExpectHeaders",
                           request |-> [q EXCEPT !.version = version]]
            /\ taken' = taken + 1
  BY DEF ProcessRequestLine, At, inputVars
<1>3. StreamIs(at)' /\ Seen'
  BY <1>1, <1>2, StreamStays DEF RequestInv, Seen
<1>4. /\ n \in Nat /\ n <= Len(client)
      /\ taken = at[n + 1] /\ (context.request = NewRequest \/ Stuck)
  BY <1>1, <1>2, AppendIs DEF ReplyInv, RequestInv, Seen, ParsedTo
<1>5. ASSUME Stuck', taken' = taken PROVE ParsedTo(at)'
  BY <1>2, <1>4, <1>5 DEF ParsedTo, Stuck
<1>6. CASE taken' = taken
  <2>1. Stuck'
    <3>1. pc' = "bad" => Stuck'
      BY BadIsStuck
    <3>2. Stuck => Stuck'
      BY BadIsStuck
    <3>3. taken \in Nat
      BY DEF InputInv
    <3> HIDE DEF method, version, q
    <3>4. pc' = "bad" \/ (HasMethod(Line) /\ context.request.method # "kInvalid")
      BY <1>2, <1>6, <3>3
    <3>5. QED
      BY <1>2, <3>1, <3>2, <3>4 DEF Stuck
  <2>2. QED
    BY <1>3, <1>5, <1>6, <2>1 DEF RequestInv
<1>7. CASE taken' # taken
  <2>1. /\ HasMethod(Line) /\ method = MethodOf(Line) /\ method # "kInvalid"
        /\ version # "kUnkown" /\ ~Stuck /\ context.request = NewRequest
        /\ context' = [state |-> "kExpectHeaders", request |-> [q EXCEPT !.version = version]]
        /\ taken' = taken + 1
    BY <1>2, <1>4, <1>7 DEF Stuck
  <2>2. n < Len(client) /\ r \in Requests /\ Line = RequestLine(r)
    BY <1>1, <1>2, <1>4, NextRequestLine
  <2>3. /\ r.minor \in {"0", "1"} /\ r.method \in Methods /\ method = r.method
        /\ version = IF r.minor = "1" THEN "kHttp11" ELSE "kHttp10"
        /\ ~(SecondSpace(Line) > Len(Line))
        /\ PathOf(Line) = r.path /\ QueryOf(Line) = r.query
    <3> DEFINE line == Line
    <3>1. r \in Requests /\ line = RequestLine(r)
      BY <2>2
    <3> HIDE DEF line, r
    <3>2. /\ HasMethod(line) <=> r.method # "none"
          /\ HasMethod(line) =>
                 MethodOf(line) = IF r.method \in Methods THEN r.method ELSE "kInvalid"
          /\ VersionOf(line) # "kUnkown" => r.minor \in {"0", "1"}
          /\ HasMethod(line) /\ r.minor \in {"0", "1"} =>
                 /\ VersionOf(line) = IF r.minor = "1" THEN "kHttp11" ELSE "kHttp10"
                 /\ ~(SecondSpace(line) > Len(line))
                 /\ PathOf(line) = r.path /\ QueryOf(line) = r.query
      BY <3>1, RequestLineParsed
    <3> HIDE DEF method
    <3>3. HasMethod(line) /\ VersionOf(line) # "kUnkown" /\ version = VersionOf(line)
          /\ method = MethodOf(line) /\ method # "kInvalid"
      BY <2>1 DEF line
    <3>4. r.method \in Methods /\ method = r.method
      BY <3>2, <3>3
    <3>5. QED
      BY <3>2, <3>3, <3>4 DEF line
  <2>4. q = [method |-> r.method, version |-> "kUnkown", path |-> r.path, query |-> r.query,
             headers |-> <<>>]
    <3>1. IsRequest(NewRequest)
      BY DEF IsRequest, NewRequest
    <3>2. q = RequestAfter(NewRequest, method, Line)
      BY <2>1, <3>1, RequestAfterIs
    <3> HIDE DEF q, method, r
    <3>3. /\ RequestAfter(NewRequest, method, Line) =
                 [method |-> method, version |-> NewRequest.version,
                  path |-> IF SecondSpace(Line) > Len(Line) THEN NewRequest.path
                           ELSE PathOf(Line),
                  query |-> IF SecondSpace(Line) > Len(Line) THEN NewRequest.query
                            ELSE QueryOf(Line),
                  headers |-> NewRequest.headers]
      BY Zenon DEF RequestAfter
    <3>4. NewRequest.version = "kUnkown" /\ NewRequest.headers = <<>>
      BY DEF NewRequest
    <3>5. QED
      BY <2>3, <3>2, <3>3, <3>4
  <2>5. [q EXCEPT !.version = version] = PartOf(r, 0)
    <3>1. HeadersUpTo(r, 0) = <<>>
      BY NoHeaders
    <3> HIDE DEF q, r, version
    <3>2. IsRequest(q)
      BY <2>4 DEF IsRequest
    <3>3. [q EXCEPT !.version = version] =
              [method |-> q.method, version |-> version, path |-> q.path,
               query |-> q.query, headers |-> q.headers]
      BY <3>2, RequestExcept
    <3>4. /\ q.method = r.method /\ q.path = r.path /\ q.query = r.query /\ q.headers = <<>>
      BY <2>4
    <3>5. QED
      BY <2>3, <3>1, <3>3, <3>4, Zenon DEF PartOf
  <2>6. /\ context'.state = "kExpectHeaders" /\ context'.request = PartOf(r, 0)
    <3> HIDE DEF q, r, version
    <3>1. QED
      BY <2>1, <2>5
  <2>7. /\ WellFormed(r) /\ 0 \in 0 .. Len(r.headers) /\ taken' = at[n + 1] + 1 + 0
    <3>1. Len(r.headers) \in Nat
      BY <2>2, LinesAre
    <3>2. at[n + 1] \in Nat
      BY <1>4 DEF InputInv
    <3>3. QED
      BY <1>4, <2>1, <2>3, <3>1, <3>2 DEF WellFormed
  <2>8. Len(handled') = n /\ client'[n + 1] = r
    BY <1>2
  <2>9. ParsedTo(at)'
    BY <1>2, <2>2, <2>6, <2>7, <2>8 DEF ParsedTo
  <2>10. QED
    BY <1>3, <2>9 DEF RequestInv
<1>8. QED
  BY <1>6, <1>7

(* A header joins those before it; the empty line completes the request.   *)
LEMMA HeaderStep ==
    ASSUME InputInv, ParserInv, ReplyInv, RequestInv, ProcessHeader
    PROVE  RequestInv'
<1> DEFINE n == Len(handled)
           r == client[n + 1]
<1>1. PICK at : StreamIs(at) /\ ParsedTo(at)
  BY DEF RequestInv
<1>2. /\ context.state = "kExpectHeaders" /\ HasCrlf
      /\ client' = client /\ stream' = stream /\ handled' = handled
      /\ taken' = taken + 1
      /\ IF Find(Line, ":", 1) <= Len(Line)
         THEN context' = [context EXCEPT !.request.headers = AddHeader(@, Line)]
         ELSE context' = [context EXCEPT !.state = "kGotAll"]
  BY DEF ProcessHeader, At, inputVars
<1>3. StreamIs(at)' /\ Seen'
  BY <1>1, <1>2, StreamStays DEF RequestInv, Seen
<1>4. /\ n < Len(client) /\ WellFormed(r)
      /\ \E k \in 0 .. Len(r.headers) :
            taken = at[n + 1] + 1 + k /\ context.request = PartOf(r, k)
  BY <1>1, <1>2 DEF ParsedTo
<1>5. PICK k \in 0 .. Len(r.headers) :
          taken = at[n + 1] + 1 + k /\ context.request = PartOf(r, k)
  BY <1>4
<1>6. n \in Nat /\ Len(handled') = n /\ client'[n + 1] = r
  BY <1>2, AppendIs DEF ReplyInv
<1>7. /\ r \in Requests /\ Len(r.headers) \in Nat
      /\ k < Len(r.headers) => Line = HeaderLine(r.headers[k + 1])
      /\ k = Len(r.headers) => Line = <<>> /\ taken + 1 = at[n + 2]
  BY <1>1, <1>4, <1>5, <1>6, NextHeaderLine
<1>8. /\ IsContext(context) /\ taken \in Nat
  BY DEF ParserInv, InputInv
<1>9. CASE k < Len(r.headers)
  <2>1. Find(Line, ":", 1) <= Len(Line)
        /\ AddHeader(HeadersUpTo(r, k), Line) = HeadersUpTo(r, k + 1)
    <3>1. k \in Nat /\ k + 1 <= Len(r.headers) /\ k + 1 \in 1 .. Len(r.headers)
      BY <1>5, <1>7, <1>9
    <3>2. r \in Requests /\ Line = HeaderLine(r.headers[k + 1])
      BY <1>7, <1>9
    <3> HIDE DEF r
    <3>3. QED
      BY <3>1, <3>2, HeaderLineParsed, AddHeaderIs
  <2>2. context' = [context EXCEPT !.request.headers = AddHeader(@, Line)]
    BY <1>2, <2>1
  <2>3. /\ context'.state = context.state
        /\ context'.request =
               [context.request EXCEPT !.headers = AddHeader(context.request.headers, Line)]
    BY <1>8, <2>2, HeaderContext
  <2>4. context'.request = PartOf(r, k + 1)
    <3> DEFINE p == PartOf(r, k)
               g == HeadersUpTo(r, k + 1)
               v == IF r.minor = "1" THEN "kHttp11" ELSE "kHttp10"
    <3> HIDE DEF r, v
    <3>1. p = [method |-> r.method, path |-> r.path, query |-> r.query, version |-> v,
               headers |-> HeadersUpTo(r, k)]
      BY Zenon DEF PartOf, v
    <3> HIDE DEF p, g
    <3>2. /\ IsRequest(p) /\ p.method = r.method /\ p.path = r.path /\ p.query = r.query
          /\ p.version = v /\ p.headers = HeadersUpTo(r, k)
      BY <3>1 DEF IsRequest
    <3>3. [p EXCEPT !.headers = g] =
              [method |-> p.method, version |-> p.version, path |-> p.path,
               query |-> p.query, headers |-> g]
      BY <3>2, RequestExcept
    <3>4. context.request = p /\ AddHeader(p.headers, Line) = g
      BY <1>5, <2>1, <3>2, Zenon DEF p, g
    <3>5. context'.request = [p EXCEPT !.headers = g]
      BY <2>3, <3>4, Zenon
    <3>6. [p EXCEPT !.headers = g] =
              [method |-> r.method, path |-> r.path, query |-> r.query, version |-> v,
               headers |-> g]
      BY <3>2, <3>3
    <3>7. QED
      BY <3>5, <3>6, Zenon DEF PartOf, v, g
  <2>5. k + 1 \in 0 .. Len(r.headers) /\ taken' = at[n + 1] + 1 + (k + 1)
    <3> DEFINE a == at[n + 1]
    <3>1. a \in Nat
      BY <1>1, <1>4, <1>6, PlacesAre
    <3>2. taken = a + 1 + k
      BY <1>5
    <3> HIDE DEF a
    <3>3. taken' = a + 1 + (k + 1)
      BY <1>2, <1>5, <3>1, <3>2
    <3>4. QED
      BY <1>5, <1>7, <1>9, <3>3 DEF a
  <2> HIDE DEF r, n
  <2>6. ParsedTo(at)'
    BY <1>2, <1>4, <1>6, <2>3, <2>4, <2>5 DEF ParsedTo, n
  <2>7. QED
    BY <1>3, <2>6 DEF RequestInv
<1>10. CASE k = Len(r.headers)
  <2>1. Line = <<>> /\ taken' = at[n + 2]
    BY <1>2, <1>7, <1>10
  <2>2. ~(Find(Line, ":", 1) <= Len(Line))
    <3>1. Len(Line) = 0
      BY <2>1
    <3>2. Find(Line, ":", 1) = Len(Line) + 1
      BY <3>1, FindNone
    <3>3. QED
      BY <3>1, <3>2
  <2>3. context' = [context EXCEPT !.state = "kGotAll"]
    BY <1>2, <2>2
  <2>4. context'.state = "kGotAll" /\ context'.request = context.request
    BY <1>8, <2>3, HeaderContext
  <2>5. context'.request = Meaning(r)
    <3>1. context.request = PartOf(r, Len(r.headers))
      BY <1>5, <1>10, Zenon
    <3> HIDE DEF r
    <3>2. Meaning(r) = PartOf(r, Len(r.headers))
      BY <1>7, MeaningIs
    <3>3. QED
      BY <2>4, <3>1, <3>2
  <2>6. ParsedTo(at)'
    BY <1>2, <1>4, <1>6, <2>1, <2>4, <2>5 DEF ParsedTo
  <2>7. QED
    BY <1>3, <2>6 DEF RequestInv
<1>11. QED
  BY <1>5, <1>7, <1>9, <1>10

(* The request that has been completed is handled; the parser, reset,      *)
(* expects the line behind it.                                             *)
LEMMA HandledStep ==
    ASSUME InputInv, ParserInv, ReplyInv, RequestInv,
           NEW choice \in {"leave", "on", "off"}, OnRequest(choice)
    PROVE  RequestInv'
<1> DEFINE n == Len(handled)
           r == client[n + 1]
           close == CloseConnection(choice)
           entry == [request |-> context.request, close |-> close]
<1>1. PICK at : StreamIs(at) /\ ParsedTo(at)
  BY DEF RequestInv
<1>2. /\ pc = "request" /\ handled' = Append(handled, entry)
      /\ client' = client /\ stream' = stream /\ taken' = taken /\ context' = NewContext
  BY DEF OnRequest, At, inputVars, Reset
<1>3. context.state = "kGotAll"
  BY <1>2 DEF ParserInv
<1>4. /\ n < Len(client) /\ WellFormed(r) /\ taken = at[n + 2]
      /\ context.request = Meaning(r)
  BY <1>1, <1>3 DEF ParsedTo
<1>5. entry.request = context.request
  OBVIOUS
<1> HIDE DEF entry
<1>6. /\ n \in Nat /\ Len(handled') = n + 1
      /\ \A i \in 1 .. n : handled'[i] = handled[i]
      /\ handled'[n + 1] = entry
  BY <1>2, AppendIs DEF ReplyInv
<1>7. Len(client) \in Nat
  BY DEF InputInv
<1>8. StreamIs(at)'
  BY <1>1, <1>2, StreamStays
<1>9. Seen'
  <2>1. Len(handled') <= Len(client')
    BY <1>2, <1>4, <1>6, <1>7
  <2>2. ASSUME NEW i \in 1 .. Len(handled')
        PROVE  WellFormed(client'[i]) /\ handled'[i].request = Meaning(client'[i])
    <3>1. CASE i = n + 1
      BY <1>2, <1>4, <1>5, <1>6, <3>1
    <3>2. CASE i # n + 1
      <4>1. i \in 1 .. n
        BY <1>6, <3>2
      <4>2. WellFormed(client[i]) /\ handled[i].request = Meaning(client[i])
        BY <4>1 DEF RequestInv, Seen
      <4>3. QED
        BY <1>2, <1>6, <4>1, <4>2
    <3>3. QED
      BY <3>1, <3>2
  <2>3. QED
    BY <2>1, <2>2, Zenon DEF Seen
<1>10. ParsedTo(at)'
  <2>1. context'.state = "kExpectRequestLine" /\ context'.request = NewRequest
    BY <1>2, NewContextIs
  <2>2. taken' = at[Len(handled') + 1]
    <3>1. Len(handled') + 1 = n + 2
      BY <1>6
    <3>2. QED
      BY <1>2, <1>4, <3>1
  <2>3. QED
    BY <2>1, <2>2 DEF ParsedTo
<1>11. QED
  BY <1>8, <1>9, <1>10 DEF RequestInv

(* What the client writes comes behind what the parser has seen.           *)
LEMMA WriteStep ==
    ASSUME InputInv, ParserInv, ReplyInv, RequestInv, NEW r \in Requests, Write(r)
    PROVE  RequestInv'
<1> DEFINE n == Len(handled)
<1>1. PICK at : StreamIs(at) /\ ParsedTo(at)
  BY DEF RequestInv
<1>2. /\ client' = Append(client, r) /\ stream' = stream \o LinesOf(r)
      /\ taken' = taken /\ context' = context /\ handled' = handled /\ got' = got
  BY DEF Write
<1>3. PICK next : next = [i \in 1 .. Len(client) + 2 |->
                             IF i = Len(client) + 2 THEN Len(stream) + Len(LinesOf(r))
                             ELSE at[i]]
  OBVIOUS
<1>4. /\ StreamIs(next)'
      /\ \A i \in 1 .. Len(client) + 1 : next[i] = at[i]
      /\ Len(client) \in Nat /\ Len(client') = Len(client) + 1
      /\ \A i \in 1 .. Len(client) : client'[i] = client[i]
  <2>1. StreamIs(at) /\ client' = Append(client, r) /\ stream' = stream \o LinesOf(r)
    BY <1>1, <1>2
  <2>2. StreamIs(next)'
    BY <1>3, <2>1, StreamGrows, Zenon
  <2>3. \A i \in 1 .. Len(client) + 1 : next[i] = at[i]
    BY <1>3, PlacesAre, <1>1
  <2>4. /\ Len(client) \in Nat /\ Len(client') = Len(client) + 1
        /\ \A i \in 1 .. Len(client) : client'[i] = client[i]
    BY <1>3, <2>1, StreamGrows, Zenon
  <2>5. QED
    BY <2>2, <2>3, <2>4
<1>5. n \in Nat /\ n <= Len(client)
  BY AppendIs DEF ReplyInv, RequestInv, Seen
<1>6. Seen'
  <2>1. Len(handled') <= Len(client')
    BY <1>2, <1>4, <1>5
  <2>2. ASSUME NEW i \in 1 .. Len(handled)
        PROVE  WellFormed(client'[i]) /\ handled[i].request = Meaning(client'[i])
    <3>1. i \in 1 .. Len(client)
      BY <1>4, <1>5
    <3>2. client'[i] = client[i]
      BY <1>4, <3>1
    <3>3. QED
      BY <3>2 DEF RequestInv, Seen
  <2>3. QED
    BY <1>2, <2>1, <2>2 DEF Seen
<1>7. Stuck => Stuck'
  <2>1. got' \in Nat /\ got' >= got
    BY <1>2 DEF InputInv
  <2>2. \A k \in 1 .. Len(stream) : stream'[k] = stream[k]
    <3>1. stream \in Seq(Seq(Tokens)) /\ LinesOf(r) \in Seq(Seq(Tokens))
      BY LinesAre DEF InputInv
    <3>2. \A k \in 1 .. Len(stream) : (stream \o LinesOf(r))[k] = stream[k]
      BY <3>1, ConcatIs
    <3>3. QED
      BY <1>2, <3>2, Zenon
  <2>3. QED
    BY <1>2, <2>1, <2>2, StuckStays
<1>8. ParsedTo(next)'
  <2>1. next[n + 1] = at[n + 1]
    BY <1>4, <1>5
  <2>2. ASSUME n < Len(client)
        PROVE  client'[n + 1] = client[n + 1] /\ next[n + 2] = at[n + 2] /\ n < Len(client')
    BY <1>4, <1>5, <2>2
  <2>3. ASSUME context.state \in {"none", "kExpectRequestLine"}
        PROVE  taken = next[n + 1] /\ (context.request = NewRequest \/ Stuck')
    BY <1>1, <1>7, <2>1, <2>3 DEF ParsedTo
  <2>4. ASSUME context.state = "kExpectHeaders"
        PROVE  /\ n < Len(client') /\ WellFormed(client'[n + 1])
               /\ \E k \in 0 .. Len(client'[n + 1].headers) :
                   taken = next[n + 1] + 1 + k /\ context.request = PartOf(client'[n + 1], k)
    <3>1. /\ n < Len(client) /\ WellFormed(client[n + 1])
          /\ \E k \in 0 .. Len(client[n + 1].headers) :
              taken = at[n + 1] + 1 + k /\ context.request = PartOf(client[n + 1], k)
      BY <1>1, <2>4 DEF ParsedTo
    <3>2. QED
      BY <2>1, <2>2, <3>1
  <2>5. ASSUME context.state = "kGotAll"
        PROVE  /\ n < Len(client') /\ WellFormed(client'[n + 1])
               /\ taken = next[n + 2] /\ context.request = Meaning(client'[n + 1])
    <3>1. /\ n < Len(client) /\ WellFormed(client[n + 1])
          /\ taken = at[n + 2] /\ context.request = Meaning(client[n + 1])
      BY <1>1, <2>5 DEF ParsedTo
    <3>2. QED
      BY <2>2, <3>1
  <2>6. QED
    BY <1>2, <2>3, <2>4, <2>5 DEF ParsedTo
<1>9. QED
  BY <1>4, <1>6, <1>8 DEF RequestInv

LEMMA RequestStep ==
    ASSUME InputInv, ParserInv, ReplyInv, RequestInv, [Next]_vars
    PROVE  RequestInv'
<1>1. got' >= got /\ got' \in Nat
  BY InputStep DEF InputInv
<1>2. CASE UNCHANGED <<client, stream, taken, context, handled>>
  BY <1>1, <1>2, QuietRequest
<1>3. CASE OnConnection
  <2>1. PICK at : StreamIs(at) /\ ParsedTo(at)
    BY DEF RequestInv
  <2>2. /\ client' = client /\ stream' = stream /\ taken' = taken /\ handled' = handled
        /\ context' = NewContext /\ state = "kConnecting"
    BY <1>3 DEF OnConnection, inputVars
  <2>3. context.state = "none"
    BY <2>2, NewContextIs DEF ParserInv
  <2>4. ParsedTo(at)'
    BY <2>1, <2>2, <2>3, NewContextIs DEF ParsedTo
  <2>5. StreamIs(at)' /\ Seen'
    BY <2>1, <2>2, StreamStays DEF RequestInv, Seen
  <2>6. QED
    BY <2>4, <2>5 DEF RequestInv
<1>4. ASSUME NEW r \in Requests, Write(r) PROVE RequestInv'
  BY <1>4, WriteStep
<1>5. CASE ProcessRequestLine
  BY <1>5, RequestLineStep
<1>6. CASE ProcessHeader
  BY <1>6, HeaderStep
<1>7. ASSUME NEW choice \in {"leave", "on", "off"}, OnRequest(choice) PROVE RequestInv'
  BY <1>7, HandledStep
<1>8. (\E k \in 1 .. 2 * Len(stream) : OnMessage(k)) \/ HandleWrite \/ PeerCloses \/ NoMore
        \/ BadRequest \/ UNCHANGED vars
      => UNCHANGED <<client, stream, taken, context, handled>>
  BY DEF OnMessage, HandleWrite, PeerCloses, NoMore, BadRequest, inputVars, vars
<1>9. QED
  BY <1>2, <1>3, <1>4, <1>5, <1>6, <1>7, <1>8 DEF Next

LEMMA RequestInit == Init => RequestInv
<1> SUFFICES ASSUME Init PROVE RequestInv
  OBVIOUS
<1>1. /\ client = <<>> /\ stream = <<>> /\ handled = <<>> /\ taken = 0
      /\ context = NoContext /\ Len(client) = 0 /\ Len(stream) = 0 /\ Len(handled) = 0
  BY DEF Init
<1>2. PICK at : at = [i \in 1 .. 1 |-> 0]
  OBVIOUS
<1>3. at[1] = 0 /\ at \in [1 .. Len(client) + 1 -> Nat]
  BY <1>1, <1>2
<1>4. StreamIs(at)
  BY <1>1, <1>3 DEF StreamIs
<1>5. ParsedTo(at)
  BY <1>1, <1>3, NewContextIs DEF ParsedTo
<1>6. Seen
  BY <1>1 DEF Seen
<1>7. QED
  BY <1>4, <1>5, <1>6 DEF RequestInv

(* However the input is cut into pieces and whenever the client writes:    *)
(* the requests the callback sees are those the client wrote, in order,    *)
(* with what it meant by each of them.                                     *)
THEOREM RequestsAlwaysFollow == Spec => []RequestsFollowStream
<1>1. HttpInv /\ RequestInv /\ [Next]_vars => RequestInv'
  BY RequestStep DEF HttpInv
<1>2. HttpInv /\ RequestInv => RequestsFollowStream
  <2> SUFFICES ASSUME HttpInv, RequestInv PROVE RequestsFollowStream
    OBVIOUS
  <2>1. DOMAIN handled = 1 .. Len(handled) /\ Len(handled) \in Nat
    BY AppendIs DEF HttpInv, ReplyInv
  <2>2. Seen
    BY DEF RequestInv
  <2>3. ASSUME NEW i \in 1 .. Len(handled)
        PROVE  /\ \A j \in 1 .. i : WellFormed(client[j])
               /\ handled[i].request = Meaning(client[i])
    <3>1. \A j \in 1 .. i : j \in 1 .. Len(handled)
      BY <2>1
    <3>2. QED
      BY <2>2, <3>1 DEF Seen
  <2>4. QED
    BY <2>1, <2>2, <2>3, Zenon DEF RequestsFollowStream, Seen
<1>3. QED
  BY <1>1, <1>2, RequestInit, HttpKeepsInv, PTL DEF Spec

(* ------------------------------ The types ------------------------------ *)

(* What the other invariants do not say of the types.                      *)
HttpTypes ==
    /\ pipelined \in BOOLEAN /\ waiting \in BOOLEAN /\ lost \in BOOLEAN
    /\ context.request.method \in Methods \cup {"kInvalid"}
    /\ context.request.version \in {"kUnkown", "kHttp10", "kHttp11"}
    /\ \A i \in 1 .. Len(handled) : handled[i].close \in BOOLEAN
    /\ replies \in Seq([request : 0 .. Len(handled),
                        connection : {"close", "keepAlive", "none"}])
    /\ fault \in {"none", "noContext", "methodSet"}

(* What a request line sets is of its type, even if it is not accepted.    *)
LEMMA LineTypes ==
    ASSUME NEW line
    PROVE  /\ MethodOf(line) \in Methods \cup {"kInvalid"}
           /\ VersionOf(line) \in {"kUnkown", "kHttp10", "kHttp11"}
<1>1. MethodOf(line) \in Methods \cup {"kInvalid"}
  <2> DEFINE m == SubSeq(line, 1, Find(line, "SP", 1) - 1)
  <2>1. MethodOf(line) = IF \E k \in Methods : m = <<k>> THEN m[1] ELSE "kInvalid"
    BY Zenon DEF MethodOf
  <2> HIDE DEF m
  <2>2. CASE \E k \in Methods : m = <<k>>
    <3>1. PICK k \in Methods : m = <<k>>
      BY <2>2
    <3>2. m[1] = k
      BY <3>1
    <3>3. QED
      BY <2>1, <2>2, <3>2
  <2>3. CASE ~\E k \in Methods : m = <<k>>
    BY <2>1, <2>3
  <2>4. QED
    BY <2>2, <2>3
<1>2. VersionOf(line) \in {"kUnkown", "kHttp10", "kHttp11"}
  <2> DEFINE rest == SubSeq(line, SecondSpace(line) + 1, Len(line))
  <2>1. VersionOf(line) = CASE rest = <<"HTTP/1.", "1">> -> "kHttp11"
                            [] rest = <<"HTTP/1.", "0">> -> "kHttp10"
                            [] OTHER -> "kUnkown"
    BY Zenon DEF VersionOf, SecondSpace
  <2> HIDE DEF rest
  <2>2. QED
    BY <2>1
<1>3. QED
  BY <1>1, <1>2

(* A reply to one of the requests handled is one that can be sent.         *)
LEMMA SentTypes ==
    ASSUME HttpTypes, NEW n \in Nat, Len(handled) \in Nat, n >= Len(handled), NEW reply,
           reply \in [request : 0 .. n, connection : {"close", "keepAlive", "none"}],
           Send(reply)
    PROVE  /\ waiting' \in BOOLEAN /\ lost' \in BOOLEAN
           /\ replies' \in Seq([request : 0 .. n,
                                connection : {"close", "keepAlive", "none"}])
<1> DEFINE Replies(m) == [request : 0 .. m, connection : {"close", "keepAlive", "none"}]
<1>1. Replies(Len(handled)) \subseteq Replies(n)
  <2>1. 0 .. Len(handled) \subseteq 0 .. n
    OBVIOUS
  <2>2. QED
    BY <2>1
<1>2. replies \in Seq(Replies(Len(handled))) /\ reply \in Replies(n)
  BY DEF HttpTypes
<1> HIDE DEF Replies
<1>3. replies \in Seq(Replies(n))
  BY <1>1, <1>2, SeqMonotonic
<1>4. Append(replies, reply) \in Seq(Replies(n))
  BY <1>2, <1>3
<1>5. waiting \in BOOLEAN /\ lost \in BOOLEAN
  BY DEF HttpTypes
<1>6. waiting' \in BOOLEAN /\ lost' \in BOOLEAN
  BY <1>5 DEF Send
<1>7. replies' = replies \/ replies' = Append(replies, reply)
  BY DEF Send
<1>8. replies' \in Seq(Replies(n))
  BY <1>3, <1>4, <1>7
<1>9. QED
  BY <1>6, <1>8 DEF Replies

(* Whether a request has its connection closed is a matter of yes or no.   *)
LEMMA ClosesOrNot ==
    ASSUME NEW choice \in {"leave", "on", "off"}
    PROVE  CloseConnection(choice) \in BOOLEAN
BY DEF CloseConnection, WantsClose

LEMMA TypesStep ==
    ASSUME InputInv, ParserInv, ReplyInv, HttpTypes, [Next]_vars
    PROVE  HttpTypes'
<1>1. CASE UNCHANGED vars
  BY <1>1 DEF vars, inputVars, outputVars, HttpTypes
<1>2. CASE OnConnection
  <2>1. context'.request = NewRequest
    BY <1>2, NewContextIs DEF OnConnection
  <2>2. QED
    BY <1>2, <2>1 DEF OnConnection, inputVars, HttpTypes, NewRequest
<1>3. CASE \/ \E r \in Requests : Write(r)
           \/ \E n \in 1 .. 2 * Len(stream) : OnMessage(n)
           \/ HandleWrite \/ PeerCloses \/ NoMore
  BY <1>3 DEF Write, OnMessage, HandleWrite, PeerCloses, NoMore, At, inputVars, outputVars,
              HttpTypes
<1>4. CASE ProcessRequestLine
  <2> DEFINE method == IF HasMethod(Line) THEN MethodOf(Line) ELSE "kInvalid"
             version == VersionOf(Line)
             q == WithTarget([context.request EXCEPT !.method = method], Line)
  <2>1. /\ \/ context' = context
           \/ context' = [context EXCEPT !.request = q]
           \/ context' = [state |-> "kExpectHeaders", request |-> [q EXCEPT !.version = version]]
        /\ fault' = fault \/ fault' = "methodSet"
        /\ UNCHANGED <<pipelined, waiting, lost, handled, replies>>
    BY <1>4 DEF ProcessRequestLine, inputVars, outputVars
  <2>2. IsContext(context) /\ IsRequest(context.request)
    BY DEF ParserInv, IsContext
  <2>3. q = RequestAfter(context.request, method, Line)
    BY <2>2, RequestAfterIs
  <2>4. method \in Methods \cup {"kInvalid"} /\ version \in {"kUnkown", "kHttp10", "kHttp11"}
    BY LineTypes
  <2> HIDE DEF q, method, version
  <2>5. IsRequest(q) /\ q.method = method /\ q.version = context.request.version
    BY <2>3 DEF RequestAfter, IsRequest
  <2>6. [q EXCEPT !.version = version] =
            [method |-> q.method, version |-> version, path |-> q.path, query |-> q.query,
             headers |-> q.headers]
    BY <2>5, RequestExcept
  <2>7. [context EXCEPT !.request = q].request = q
    BY <2>2, <2>5, ContextIs
  <2>8. /\ context'.request.method \in Methods \cup {"kInvalid"}
        /\ context'.request.version \in {"kUnkown", "kHttp10", "kHttp11"}
    <3>1. CASE context' = context
      BY <3>1 DEF HttpTypes
    <3>2. CASE context' = [context EXCEPT !.request = q]
      BY <2>4, <2>5, <2>7, <3>2 DEF HttpTypes
    <3>3. CASE context' = [state |-> "kExpectHeaders",
                           request |-> [q EXCEPT !.version = version]]
      <4>1. context'.request.method = method /\ context'.request.version = version
        BY <2>5, <2>6, <3>3
      <4>2. QED
        BY <2>4, <4>1
    <3>4. QED
      BY <2>1, <3>1, <3>2, <3>3
  <2>9. QED
    BY <2>1, <2>8 DEF HttpTypes
<1>5. CASE ProcessHeader
  <2>1. /\ \/ context' = [context EXCEPT !.request.headers = AddHeader(@, Line)]
           \/ context' = [context EXCEPT !.state = "kGotAll"]
        /\ UNCHANGED <<pipelined, waiting, lost, handled, replies, fault>>
    BY <1>5 DEF ProcessHeader, inputVars, outputVars
  <2>2. IsContext(context) /\ IsRequest(context.request)
    BY DEF ParserInv, IsContext
  <2>3. \/ context'.request =
               [context.request EXCEPT !.headers = AddHeader(context.request.headers, Line)]
        \/ context'.request = context.request
    BY <2>1, <2>2, HeaderContext
  <2> DEFINE headers == AddHeader(context.request.headers, Line)
             c == context.request
  <2> HIDE DEF headers, c
  <2>4. /\ [c EXCEPT !.headers = headers].method = c.method
        /\ [c EXCEPT !.headers = headers].version = c.version
    <3>1. IsRequest(c)
      BY <2>2 DEF c
    <3>2. [c EXCEPT !.headers = headers] =
              [method |-> c.method, version |-> c.version, path |-> c.path,
               query |-> c.query, headers |-> headers]
      BY <3>1, RequestExcept
    <3>3. QED
      BY <3>2
  <2>5. context'.request.method = c.method /\ context'.request.version = c.version
    BY <2>3, <2>4 DEF headers, c
  <2>6. QED
    BY <2>1, <2>5 DEF HttpTypes, c
<1>6. CASE BadRequest
  <2>1. Len(handled) \in Nat
    BY AppendIs DEF ReplyInv
  <2>2. /\ Send([request |-> 0, connection |-> "none"])
        /\ UNCHANGED <<pipelined, context, handled, fault>>
    BY <1>6 DEF BadRequest, inputVars
  <2>3. [request |-> 0, connection |-> "none"] \in
            [request : 0 .. Len(handled), connection : {"close", "keepAlive", "none"}]
    BY <2>1
  <2>4. /\ waiting' \in BOOLEAN /\ lost' \in BOOLEAN
        /\ replies' \in Seq([request : 0 .. Len(handled),
                             connection : {"close", "keepAlive", "none"}])
    <3> DEFINE reply == [request |-> 0, connection |-> "none"]
    <3>1. Send(reply) /\ reply \in [request : 0 .. Len(handled),
                                   connection : {"close", "keepAlive", "none"}]
      BY <2>2, <2>3
    <3>2. Len(handled) >= Len(handled)
      BY <2>1
    <3> HIDE DEF reply
    <3>3. QED
      BY <2>1, <3>1, <3>2, SentTypes
  <2>5. QED
    BY <2>2, <2>4 DEF HttpTypes
<1>7. ASSUME NEW choice \in {"leave", "on", "off"}, OnRequest(choice)
      PROVE  HttpTypes'
  <2> DEFINE close == CloseConnection(choice)
             entry == [request |-> context.request, close |-> close]
             n == Len(handled)
  <2>1. /\ handled' = Append(handled, entry)
        /\ Send(AppendToBuffer(Len(handled'), close))
        /\ context' = NewContext /\ UNCHANGED <<pipelined, fault>>
    BY <1>7 DEF OnRequest, Reset, inputVars
  <2>2. close \in BOOLEAN /\ entry.close = close
    BY ClosesOrNot
  <2> HIDE DEF entry, close
  <2>3. /\ n \in Nat /\ Len(handled') = n + 1
        /\ \A i \in 1 .. n : handled'[i] = handled[i]
        /\ handled'[n + 1] = entry
    BY <2>1, AppendIs DEF ReplyInv
  <2>4. AppendToBuffer(n + 1, close) \in
            [request : 0 .. n + 1, connection : {"close", "keepAlive", "none"}]
    BY <2>3 DEF AppendToBuffer
  <2>5. /\ waiting' \in BOOLEAN /\ lost' \in BOOLEAN
        /\ replies' \in Seq([request : 0 .. n + 1,
                             connection : {"close", "keepAlive", "none"}])
    <3>1. Send(AppendToBuffer(n + 1, close)) /\ n + 1 \in Nat /\ n + 1 >= Len(handled)
      BY <2>1, <2>3
    <3>2. QED
      BY <2>3, <2>4, <3>1, SentTypes
  <2>6. ASSUME NEW i \in 1 .. Len(handled')
        PROVE  handled'[i].close \in BOOLEAN
    <3>1. CASE i = n + 1
      BY <2>2, <2>3, <3>1
    <3>2. CASE i # n + 1
      <4>1. i \in 1 .. n
        BY <2>3, <3>2
      <4>2. QED
        BY <2>3, <4>1 DEF HttpTypes
    <3>3. QED
      BY <3>1, <3>2
  <2>7. context'.request = NewRequest
    BY <2>1, NewContextIs
  <2>8. QED
    BY <2>1, <2>3, <2>5, <2>6, <2>7 DEF HttpTypes, NewRequest
<1>8. QED
  BY <1>1, <1>2, <1>3, <1>4, <1>5, <1>6, <1>7 DEF Next

(* The connection, its parser and what it has sent keep their types.       *)
THEOREM HttpTypeCorrect == Spec => []TypeOK
<1>1. Init => HttpTypes
  <2> SUFFICES ASSUME Init PROVE HttpTypes
    OBVIOUS
  <2>1. context.request = NewRequest /\ Len(handled) = 0 /\ replies = <<>>
    BY NewContextIs DEF Init
  <2>2. replies \in Seq([request : 0 .. Len(handled),
                         connection : {"close", "keepAlive", "none"}])
    BY <2>1
  <2>3. \A i \in 1 .. Len(handled) : handled[i].close \in BOOLEAN
    <3>1. 1 .. 0 = {}
      OBVIOUS
    <3>2. QED
      BY <2>1, <3>1
  <2>4. NewRequest.method = "kInvalid" /\ NewRequest.version = "kUnkown"
    BY DEF NewRequest
  <2>5. QED
    BY <2>1, <2>2, <2>3, <2>4 DEF Init, HttpTypes
<1>2. HttpInv /\ HttpTypes /\ [Next]_vars => HttpTypes'
  BY TypesStep DEF HttpInv
<1>3. HttpInv /\ HttpTypes => TypeOK
  <2> SUFFICES ASSUME HttpInv, HttpTypes PROVE TypeOK
    OBVIOUS
  <2>1. DOMAIN handled = 1 .. Len(handled)
    BY AppendIs DEF HttpInv, ReplyInv
  <2>2. Len(stream) \in Nat
    BY DEF HttpInv, InputInv
  <2>3. got \in 0 .. 2 * Len(stream)
    BY <2>2 DEF HttpInv, InputInv
  <2>4. QED
    BY <2>1, <2>3 DEF HttpInv, InputInv, ParserInv, ReplyInv, HttpTypes, TypeOK
<1>4. QED
  BY <1>1, <1>2, <1>3, HttpKeepsInv, PTL DEF Spec
=============================================================================
