---------------------------- MODULE QueueLemmas ----------------------------
(***************************************************************************)
(* Facts about sequences used as queues, shared by the proof modules.      *)
(***************************************************************************)
EXTENDS SequenceTheorems, TLAPS

(* Enqueueing adds one element to the contents.                            *)
LEMMA RangeAppend ==
    ASSUME NEW S, NEW s \in Seq(S), NEW e \in S
    PROVE  Range(Append(s, e)) = Range(s) \cup {e}
<1>1. Append(s, e) = s \o <<e>>
  BY AppendIsConcat
<1>2. <<e>> \in Seq(S)
  OBVIOUS
<1>3. Range(<<e>>) = {e}
  <2>1. Len(<<e>>) = 1 /\ <<e>>[1] = e
    OBVIOUS
  <2>2. Range(<<e>>) = {<<e>>[i] : i \in 1 .. 1}
    BY <1>2, <2>1, RangeEquality
  <2>3. QED
    BY <2>1, <2>2
<1>4. Range(s \o <<e>>) = Range(s) \cup Range(<<e>>)
  BY <1>2, RangeConcatenation, Zenon
<1>5. QED
  BY <1>1, <1>3, <1>4, Zenon

(* Dequeueing takes out the head, and only the head.                       *)
LEMMA RangeHeadTail ==
    ASSUME NEW S, NEW s \in Seq(S), s # <<>>
    PROVE  Range(s) = {Head(s)} \cup Range(Tail(s))
<1>1. /\ Len(Tail(s)) = Len(s) - 1
      /\ \A i \in 1 .. Len(Tail(s)) : Tail(s)[i] = s[i + 1]
      /\ Tail(s) \in Seq(S)
  BY HeadTailProperties
<1>2. Len(s) \in Nat \ {0} /\ Head(s) = s[1]
  BY EmptySeq
<1>3. Range(s) = {s[i] : i \in 1 .. Len(s)}
  BY RangeEquality
<1>4. Range(Tail(s)) = {s[i + 1] : i \in 1 .. Len(s) - 1}
  <2>1. Range(Tail(s)) = {Tail(s)[i] : i \in 1 .. Len(Tail(s))}
    BY <1>1, RangeEquality, Zenon
  <2>2. QED
    BY <1>1, <2>1
<1>5. ASSUME NEW x PROVE x \in Range(s) <=> x = Head(s) \/ x \in Range(Tail(s))
  <2>1. \A i \in 1 .. Len(s) : i = 1 \/ (i - 1 \in 1 .. Len(s) - 1 /\ s[i] = s[(i - 1) + 1])
    BY <1>2
  <2>2. ASSUME x \in Range(s) PROVE x = Head(s) \/ x \in Range(Tail(s))
    <3>1. PICK i \in 1 .. Len(s) : x = s[i]
      BY <2>2, <1>3
    <3>2. QED
      BY <3>1, <2>1, <1>2, <1>4
  <2>3. ASSUME x = Head(s) \/ x \in Range(Tail(s)) PROVE x \in Range(s)
    BY <2>3, <1>2, <1>3, <1>4
  <2>4. QED
    BY <2>2, <2>3
<1>6. QED
  BY <1>5

(* Enqueueing behind a concatenation is enqueueing behind its second part. *)
LEMMA AppendToConcat ==
    ASSUME NEW S, NEW s \in Seq(S), NEW t \in Seq(S), NEW e \in S
    PROVE  s \o Append(t, e) = Append(s \o t, e)
<1>1. Append(t, e) = t \o <<e>> /\ s \o t \in Seq(S) /\ <<e>> \in Seq(S)
  BY AppendIsConcat, ConcatProperties
<1>2. Append(s \o t, e) = (s \o t) \o <<e>>
  BY <1>1, AppendIsConcat
<1>3. QED
  BY <1>1, <1>2, ConcatAssociative

(* Dequeueing from a concatenation is dequeueing from its first part.      *)
LEMMA TailOfConcat ==
    ASSUME NEW S, NEW s \in Seq(S), NEW t \in Seq(S), s # <<>>
    PROVE  /\ s \o t # <<>>
           /\ Head(s \o t) = Head(s)
           /\ Tail(s \o t) = Tail(s) \o t
<1>1. s \o t \in Seq(S) /\ Len(s \o t) = Len(s) + Len(t) /\ Len(s) \in Nat \ {0} /\ Len(t) \in Nat
  BY ConcatProperties, EmptySeq
<1>2. s \o t # <<>> /\ Head(s \o t) = Head(s)
  BY <1>1, ConcatProperties
<1>3. /\ Tail(s) \in Seq(S) /\ Len(Tail(s)) = Len(s) - 1
      /\ \A i \in 1 .. Len(Tail(s)) : Tail(s)[i] = s[i + 1]
  BY HeadTailProperties
<1>4. /\ Tail(s \o t) \in Seq(S) /\ Len(Tail(s \o t)) = Len(s) + Len(t) - 1
      /\ \A i \in 1 .. Len(Tail(s \o t)) : Tail(s \o t)[i] = (s \o t)[i + 1]
  BY <1>1, <1>2, HeadTailProperties
<1>5. /\ Tail(s) \o t \in Seq(S) /\ Len(Tail(s) \o t) = Len(s) - 1 + Len(t)
      /\ \A i \in 1 .. Len(s) - 1 + Len(t) :
            (Tail(s) \o t)[i] = IF i <= Len(s) - 1 THEN Tail(s)[i] ELSE t[i - (Len(s) - 1)]
  BY <1>3, ConcatProperties
<1>6. \A i \in 1 .. Len(s) + Len(t) - 1 : Tail(s \o t)[i] = (Tail(s) \o t)[i]
  <2> SUFFICES ASSUME NEW i \in 1 .. Len(s) + Len(t) - 1
               PROVE  Tail(s \o t)[i] = (Tail(s) \o t)[i]
    OBVIOUS
  <2>1. Tail(s \o t)[i] = IF i + 1 <= Len(s) THEN s[i + 1] ELSE t[i + 1 - Len(s)]
    BY <1>1, <1>4, ConcatProperties
  <2>2. CASE i + 1 <= Len(s)
    BY <2>1, <2>2, <1>1, <1>3, <1>5
  <2>3. CASE i + 1 > Len(s)
    BY <2>1, <2>3, <1>1, <1>5
  <2>4. QED
    BY <2>2, <2>3, <1>1
<1>7. Tail(s \o t) = Tail(s) \o t
  BY <1>1, <1>4, <1>5, <1>6, SeqEqual
<1>8. QED
  BY <1>2, <1>7
---------------------------------------------------------------------------
(* An element that a queue holds, and holds once.                          *)
Holds(s, e) == \E i \in 1 .. Len(s) : s[i] = e
Once(s, e) == \A i, j \in 1 .. Len(s) : s[i] = e /\ s[j] = e => i = j

(* Queueing another element than e, or e where there is none.              *)
LEMMA AppendKeepsOnce ==
    ASSUME NEW S, NEW e, NEW s \in Seq(S), NEW f \in S, Once(s, e)
    PROVE  /\ f # e => (Holds(Append(s, f), e) <=> Holds(s, e)) /\ Once(Append(s, f), e)
           /\ f = e /\ ~Holds(s, e) => Holds(Append(s, f), e) /\ Once(Append(s, f), e)
<1>1. /\ Len(s) \in Nat /\ Len(Append(s, f)) = Len(s) + 1
      /\ \A i \in 1 .. Len(s) : Append(s, f)[i] = s[i]
      /\ Append(s, f)[Len(s) + 1] = f
  BY AppendProperties, LenProperties
<1>2. \A i \in 1 .. Len(s) + 1 : i \in 1 .. Len(s) \/ i = Len(s) + 1
  BY <1>1
<1>3. 1 .. Len(s) \subseteq 1 .. Len(s) + 1 /\ Len(s) + 1 \in 1 .. Len(s) + 1
  BY <1>1
<1>4. ASSUME f # e
      PROVE  (Holds(Append(s, f), e) <=> Holds(s, e)) /\ Once(Append(s, f), e)
  BY <1>1, <1>2, <1>3, <1>4 DEF Holds, Once
<1>5. ASSUME f = e, ~Holds(s, e)
      PROVE  Holds(Append(s, f), e) /\ Once(Append(s, f), e)
  BY <1>1, <1>2, <1>3, <1>5 DEF Holds, Once
<1>6. QED
  BY <1>4, <1>5

(* Taking the first element.                                               *)
LEMMA TailKeepsOnce ==
    ASSUME NEW S, NEW e, NEW s \in Seq(S), s # <<>>, Once(s, e)
    PROVE  /\ Once(Tail(s), e)
           /\ Head(s) = e => Holds(s, e) /\ ~Holds(Tail(s), e)
           /\ Head(s) # e => (Holds(Tail(s), e) <=> Holds(s, e))
<1>1. /\ Len(Tail(s)) = Len(s) - 1
      /\ \A i \in 1 .. Len(Tail(s)) : Tail(s)[i] = s[i + 1]
  BY HeadTailProperties
<1>2. Len(s) \in Nat \ {0} /\ Head(s) = s[1]
  BY EmptySeq
<1>3. \A i \in 1 .. Len(Tail(s)) : i + 1 \in 1 .. Len(s) /\ i + 1 # 1
  BY <1>1, <1>2
<1>4. \A i \in 1 .. Len(s) : i = 1 \/ (i - 1 \in 1 .. Len(Tail(s)) /\ (i - 1) + 1 = i)
  BY <1>1, <1>2
<1>5. 1 \in 1 .. Len(s)
  BY <1>2
<1>6. Once(Tail(s), e)
  <2>1. ASSUME NEW i \in 1 .. Len(Tail(s)), NEW j \in 1 .. Len(Tail(s)),
               Tail(s)[i] = e, Tail(s)[j] = e
        PROVE  i = j
    <3>1. i + 1 = j + 1
      BY <1>1, <1>3, <2>1 DEF Once
    <3>2. QED
      BY <1>1, <1>2, <3>1
  <2>2. QED
    BY <2>1 DEF Once
<1>7. Holds(Tail(s), e) => \E i \in 1 .. Len(s) : i # 1 /\ s[i] = e
  BY <1>1, <1>3 DEF Holds
<1>8. ASSUME Head(s) = e
      PROVE  Holds(s, e) /\ ~Holds(Tail(s), e)
  BY <1>2, <1>5, <1>7, <1>8 DEF Holds, Once
<1>9. ASSUME Head(s) # e
      PROVE  Holds(Tail(s), e) <=> Holds(s, e)
  <2>1. ASSUME NEW i \in 1 .. Len(s), s[i] = e
        PROVE  Holds(Tail(s), e)
    <3>1. i # 1
      BY <1>2, <1>9, <2>1
    <3>2. i - 1 \in 1 .. Len(Tail(s)) /\ Tail(s)[i - 1] = s[i]
      BY <1>1, <1>4, <3>1
    <3>3. QED
      BY <2>1, <3>2 DEF Holds
  <2>2. QED
    BY <1>7, <2>1 DEF Holds
<1>10. QED
  BY <1>6, <1>8, <1>9

(* What a queue holds when something has been appended ...                 *)
LEMMA AppendHolds ==
    ASSUME NEW S, NEW s \in Seq(S), NEW f \in S
    PROVE  \A e : Holds(Append(s, f), e) <=> Holds(s, e) \/ f = e
<1>1. /\ Len(Append(s, f)) = Len(s) + 1 /\ Len(s) \in Nat
      /\ \A i \in 1 .. Len(s) : Append(s, f)[i] = s[i]
      /\ Append(s, f)[Len(s) + 1] = f
  BY AppendProperties
<1>2. QED
  BY <1>1 DEF Holds

(* ... and when its head has been taken.                                   *)
LEMMA TailHolds ==
    ASSUME NEW S, NEW s \in Seq(S), s # <<>>
    PROVE  \A e : /\ Holds(Tail(s), e) => Holds(s, e)
                  /\ Holds(s, e) => e = Head(s) \/ Holds(Tail(s), e)
                  /\ Holds(s, Head(s))
<1>1. /\ Len(Tail(s)) = Len(s) - 1 /\ Len(s) \in Nat \ {0} /\ Head(s) = s[1]
      /\ \A i \in 1 .. Len(Tail(s)) : Tail(s)[i] = s[i + 1]
  BY HeadTailProperties, EmptySeq
<1>2. \A e : Holds(Tail(s), e) => Holds(s, e)
  BY <1>1 DEF Holds
<1>3. \A i \in 1 .. Len(s) : i = 1 \/ (i - 1 \in 1 .. Len(Tail(s)) /\ Tail(s)[i - 1] = s[i])
  BY <1>1
<1>4. ASSUME NEW e, Holds(s, e) PROVE e = Head(s) \/ Holds(Tail(s), e)
  BY <1>1, <1>3, <1>4 DEF Holds
<1>5. Holds(s, Head(s))
  BY <1>1 DEF Holds
<1>6. QED
  BY <1>2, <1>4, <1>5
=============================================================================
