---------------------------- MODULE FrameQueues ----------------------------
(***************************************************************************)
(* Lemmas about FIFO queues of frames: which frames a queue holds, and in  *)
(* which order.  A kind of frame is given as a set.                        *)
(***************************************************************************)
EXTENDS Naturals, Sequences, SequenceTheorems, TLAPS

Has(q, A) == \E i \in 1 .. Len(q) : q[i] \in A

Before(q, A, B) == \E i, j \in 1 .. Len(q) : i < j /\ q[i] \in A /\ q[j] \in B

\* The positions of a queue and of its tail.
LEMMA TailPositions ==
    ASSUME NEW T, NEW q \in Seq(T), q # <<>>
    PROVE  /\ Tail(q) \in Seq(T) /\ Head(q) \in T /\ Head(q) = q[1]
           /\ Len(Tail(q)) = Len(q) - 1 /\ Len(q) \in Nat \ {0} /\ 1 \in 1 .. Len(q)
           /\ \A i \in 1 .. Len(Tail(q)) : Tail(q)[i] = q[i + 1] /\ i + 1 \in 1 .. Len(q)
           /\ \A i \in 1 .. Len(q) : i = 1 \/ (i - 1 \in 1 .. Len(Tail(q)) /\ q[i] = Tail(q)[i - 1])
  BY HeadTailProperties, LenProperties

\* And those of a queue and of the same with a frame at its end.
LEMMA AppendPositions ==
    ASSUME NEW T, NEW q \in Seq(T), NEW f \in T
    PROVE  /\ Append(q, f) \in Seq(T) /\ Len(q) \in Nat /\ Len(Append(q, f)) = Len(q) + 1
           /\ Append(q, f)[Len(q) + 1] = f /\ Len(q) + 1 \in 1 .. Len(q) + 1
           /\ \A i \in 1 .. Len(q) : Append(q, f)[i] = q[i] /\ i \in 1 .. Len(q) + 1
           /\ \A i \in 1 .. Len(q) + 1 : i \in 1 .. Len(q) \/ i = Len(q) + 1
  BY AppendProperties, LenProperties

LEMMA HasAppend ==
    ASSUME NEW T, NEW q \in Seq(T), NEW f \in T, NEW A
    PROVE  Has(Append(q, f), A) <=> Has(q, A) \/ f \in A
  BY AppendPositions DEF Has

LEMMA HasTail ==
    ASSUME NEW T, NEW q \in Seq(T), q # <<>>, NEW A
    PROVE  Has(q, A) <=> Has(Tail(q), A) \/ Head(q) \in A
  BY TailPositions DEF Has

LEMMA BeforeAppend ==
    ASSUME NEW T, NEW q \in Seq(T), NEW f \in T, NEW A, NEW B
    PROVE  Before(Append(q, f), A, B) => Before(q, A, B) \/ (Has(q, A) /\ f \in B)
  <1> SUFFICES ASSUME NEW i \in 1 .. Len(q) + 1, NEW j \in 1 .. Len(q) + 1, i < j,
                      Append(q, f)[i] \in A, Append(q, f)[j] \in B
               PROVE  Before(q, A, B) \/ (Has(q, A) /\ f \in B)
    BY AppendPositions DEF Before
  <1>1. i \in 1 .. Len(q) /\ q[i] \in A
    BY AppendPositions
  <1>2. CASE j \in 1 .. Len(q)
    BY <1>1, <1>2, AppendPositions DEF Before
  <1>3. CASE j = Len(q) + 1
    BY <1>1, <1>3, AppendPositions DEF Has
  <1> QED BY <1>2, <1>3, AppendPositions

LEMMA BeforeTail ==
    ASSUME NEW T, NEW q \in Seq(T), q # <<>>, NEW A, NEW B
    PROVE  /\ Before(Tail(q), A, B) => Before(q, A, B)
           /\ Head(q) \in A /\ Has(Tail(q), B) => Before(q, A, B)
  <1>1. ASSUME NEW i \in 1 .. Len(Tail(q)), NEW j \in 1 .. Len(Tail(q)), i < j,
               Tail(q)[i] \in A, Tail(q)[j] \in B
        PROVE  Before(q, A, B)
    <2>1. /\ i + 1 \in 1 .. Len(q) /\ j + 1 \in 1 .. Len(q) /\ i + 1 < j + 1
          /\ q[i + 1] \in A /\ q[j + 1] \in B
      BY <1>1, TailPositions
    <2> QED BY <2>1 DEF Before
  <1>2. ASSUME Head(q) \in A, NEW j \in 1 .. Len(Tail(q)), Tail(q)[j] \in B
        PROVE  Before(q, A, B)
    <2>1. /\ 1 \in 1 .. Len(q) /\ j + 1 \in 1 .. Len(q) /\ 1 < j + 1
          /\ q[1] \in A /\ q[j + 1] \in B
      BY <1>2, TailPositions
    <2> QED BY <2>1 DEF Before
  <1> QED BY <1>1, <1>2 DEF Before, Has

LEMMA EmptyQueue ==
    /\ \A A : ~ Has(<<>>, A)
    /\ \A A, B : ~ Before(<<>>, A, B)
  <1>1. Len(<<>>) = 0 /\ 1 .. 0 = {}
    OBVIOUS
  <1> QED BY <1>1 DEF Has, Before
=============================================================================
