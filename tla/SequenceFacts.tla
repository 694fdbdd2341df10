---------------------------- MODULE SequenceFacts ----------------------------
(***************************************************************************)
(* Facts about sequences and sets of numbers that the proofs of several    *)
(* modules need: what inserting into a list and removing from it do, and   *)
(* the least and the greatest number of a set.                             *)
(***************************************************************************)
EXTENDS Integers, Sequences, FiniteSets, SequencesExt, SequenceTheorems,
        WellFoundedInduction, TLAPS

-----------------------------------------------------------------------------
(* Numbers.                                                                *)

\* A set of numbers that is not empty has a least one.
LEMMA LeastNumber ==
    ASSUME NEW T, T \subseteq Nat, T # {}
    PROVE  \E t \in T : \A u \in T : t <= u
<1>1. \E t \in T : \A u \in T : <<u, t>> \notin OpToRel(<, Nat)
  BY WFMin, NatLessThanWellFounded
<1>2. \A u, t \in Nat : u < t => <<u, t>> \in OpToRel(<, Nat)
  BY DEF OpToRel
<1>3. \A u, t \in Nat : ~(u < t) => t <= u
  OBVIOUS
<1> QED BY <1>1, <1>2, <1>3

LEMMA MinIs ==
    ASSUME NEW T, T \subseteq Nat, T # {}
    PROVE  Min(T) \in T /\ \A u \in T : Min(T) <= u
<1>1. \E t \in T : \A u \in T : t <= u
  BY LeastNumber
<1> QED BY <1>1 DEF Min

\* The bound makes up for the direction.
LEMMA MaxIs ==
    ASSUME NEW n \in Nat, NEW T, T \subseteq 0 .. n, T # {}
    PROVE  Max(T) \in T /\ \A u \in T : u <= Max(T)
<1> DEFINE Bounds == {b \in Nat : \A u \in T : u <= b}
<1>1. Bounds \subseteq Nat /\ n \in Bounds
  OBVIOUS
<1>2. PICK b \in Bounds : \A c \in Bounds : b <= c
  BY <1>1, LeastNumber
<1>3. b \in T
  <2>1. SUFFICES ASSUME b \notin T PROVE FALSE
    OBVIOUS
  <2>2. \A u \in T : u \in Nat /\ u <= b /\ u # b
    BY <1>2, <2>1
  <2>3. b - 1 \in Nat
    <3>1. PICK u \in T : TRUE
      OBVIOUS
    <3>2. u \in Nat /\ u <= b /\ u # b /\ b \in Nat
      BY <2>2, <3>1
    <3> QED BY <3>2
  <2>4. b - 1 \in Bounds
    BY <2>2, <2>3
  <2> QED BY <1>2, <2>3, <2>4
<1>4. \E t \in T : \A u \in T : t >= u
  BY <1>2, <1>3
<1>5. Max(T) \in T /\ \A u \in T : Max(T) >= u
  BY <1>4 DEF Max
<1> QED BY <1>5

\* Induction up to a number, for a set of numbers: the least number not in it would
\* be 0 or follow one that is.
LEMMA UpTo ==
    ASSUME NEW n \in Nat, NEW T, 0 \in T, \A i \in 0 .. n - 1 : i \in T => i + 1 \in T
    PROVE  \A i \in 0 .. n : i \in T
<1> DEFINE Out == {i \in 0 .. n : i \notin T}
<1>1. SUFFICES ASSUME Out # {} PROVE FALSE
  OBVIOUS
<1>2. PICK i \in Out : \A j \in Out : i <= j
  <2>1. Out \subseteq Nat
    OBVIOUS
  <2> HIDE DEF Out
  <2> QED BY <1>1, <2>1, LeastNumber
<1>3. i # 0 /\ i \in Nat /\ i - 1 \in 0 .. n - 1
  BY <1>2
<1>4. i - 1 \in T
  BY <1>2, <1>3
<1> QED BY <1>2, <1>3, <1>4

-----------------------------------------------------------------------------
(* Sequences.                                                              *)

\* Unlinking the i-th element keeps the others, in order.
LEMMA RemoveAtProperties ==
    ASSUME NEW S, NEW s \in Seq(S), NEW i \in 1..Len(s)
    PROVE  /\ RemoveAt(s, i) \in Seq(S)
           /\ Len(RemoveAt(s, i)) = Len(s) - 1
           /\ \A j \in 1..(Len(s) - 1) :
                RemoveAt(s, i)[j] = IF j < i THEN s[j] ELSE s[j + 1]
<1> DEFINE front == SubSeq(s, 1, i - 1)
           back  == SubSeq(s, i + 1, Len(s))
<1>1. /\ front \in Seq(S) /\ Len(front) = i - 1
      /\ \A j \in 1..(i - 1) : front[j] = s[j]
  OBVIOUS
<1>2. /\ back \in Seq(S) /\ Len(back) = Len(s) - i
      /\ \A j \in 1..(Len(s) - i) : back[j] = s[j + i]
  OBVIOUS
<1>3. RemoveAt(s, i) = front \o back
  BY DEF RemoveAt
<1>4. /\ front \o back \in Seq(S)
      /\ Len(front \o back) = Len(front) + Len(back)
      /\ \A j \in 1..(Len(front) + Len(back)) :
           (front \o back)[j] = IF j <= Len(front) THEN front[j]
                                                   ELSE back[j - Len(front)]
  BY <1>1, <1>2, ConcatProperties
<1> HIDE DEF front, back
<1>5. ASSUME NEW j \in 1..(Len(s) - 1)
      PROVE  (front \o back)[j] = IF j < i THEN s[j] ELSE s[j + 1]
  BY <1>1, <1>2, <1>4
<1> QED BY <1>1, <1>2, <1>3, <1>4, <1>5

\* Putting an element in front shifts the others by one.
LEMMA PushProperties ==
    ASSUME NEW S, NEW s \in Seq(S), NEW e \in S
    PROVE  /\ <<e>> \o s \in Seq(S)
           /\ Len(<<e>> \o s) = Len(s) + 1
           /\ \A j \in 1..(Len(s) + 1) :
                (<<e>> \o s)[j] = IF j = 1 THEN e ELSE s[j - 1]
<1>1. <<e>> \in Seq(S) /\ Len(<<e>>) = 1 /\ <<e>>[1] = e
  OBVIOUS
<1>2. /\ <<e>> \o s \in Seq(S)
      /\ Len(<<e>> \o s) = Len(<<e>>) + Len(s)
      /\ \A j \in 1..(Len(<<e>>) + Len(s)) :
           (<<e>> \o s)[j] = IF j <= Len(<<e>>) THEN <<e>>[j] ELSE s[j - Len(<<e>>)]
  BY <1>1, ConcatProperties
<1> QED BY <1>1, <1>2

\* Inserting at the i-th place shifts the elements from there on.
LEMMA InsertAtProperties ==
    ASSUME NEW S, NEW s \in Seq(S), NEW i \in 1..(Len(s) + 1), NEW e \in S
    PROVE  /\ InsertAt(s, i, e) \in Seq(S)
           /\ Len(InsertAt(s, i, e)) = Len(s) + 1
           /\ \A j \in 1..(Len(s) + 1) :
                InsertAt(s, i, e)[j] = IF j < i THEN s[j] ELSE IF j = i THEN e ELSE s[j - 1]
<1> DEFINE front == SubSeq(s, 1, i - 1)
           back  == SubSeq(s, i, Len(s))
<1>0. Len(s) \in Nat /\ i \in Nat /\ i >= 1
  OBVIOUS
<1>1. /\ front \in Seq(S) /\ Len(front) = i - 1
      /\ \A j \in 1..(i - 1) : front[j] = s[j]
  OBVIOUS
<1>2. /\ back \in Seq(S) /\ Len(back) = Len(s) - i + 1
      /\ \A j \in 1..(Len(s) - i + 1) : back[j] = s[j + i - 1]
  OBVIOUS
<1>3. <<e>> \in Seq(S) /\ Len(<<e>>) = 1 /\ <<e>>[1] = e
  OBVIOUS
<1>4. InsertAt(s, i, e) = (front \o <<e>>) \o back
  BY DEF InsertAt
<1> HIDE DEF front, back
<1>5. /\ front \o <<e>> \in Seq(S)
      /\ Len(front \o <<e>>) = i
      /\ \A j \in 1..i : (front \o <<e>>)[j] = IF j < i THEN s[j] ELSE e
  <2>1. /\ front \o <<e>> \in Seq(S)
        /\ Len(front \o <<e>>) = Len(front) + Len(<<e>>)
        /\ \A j \in 1..(Len(front) + Len(<<e>>)) :
             (front \o <<e>>)[j] = IF j <= Len(front) THEN front[j]
                                                     ELSE <<e>>[j - Len(front)]
    BY <1>1, <1>3, ConcatProperties
  <2>2. \A j \in 1..i : (front \o <<e>>)[j] = IF j < i THEN s[j] ELSE e
    <3>1. ASSUME NEW j \in 1..i, j < i PROVE (front \o <<e>>)[j] = s[j]
      BY <1>1, <1>3, <2>1, <3>1
    <3>2. (front \o <<e>>)[i] = e
      BY <1>1, <1>3, <2>1
    <3>3. \A j \in 1..i : j < i \/ j = i
      BY <1>0
    <3> QED BY <3>1, <3>2, <3>3
  <2> QED BY <1>1, <1>3, <2>1, <2>2
<1>6. /\ (front \o <<e>>) \o back \in Seq(S)
      /\ Len((front \o <<e>>) \o back) = i + Len(back)
      /\ \A j \in 1..(i + Len(back)) :
           ((front \o <<e>>) \o back)[j] = IF j <= i THEN (front \o <<e>>)[j] ELSE back[j - i]
  BY <1>2, <1>5, ConcatProperties
<1> DEFINE t == (front \o <<e>>) \o back
<1>7. ASSUME NEW j \in 1..(Len(s) + 1)
      PROVE  t[j] = IF j < i THEN s[j] ELSE IF j = i THEN e ELSE s[j - 1]
  <2>1. CASE j <= i
    BY <1>2, <1>5, <1>6, <2>1
  <2>2. CASE j > i
    <3>1. j - i \in 1..(Len(s) - i + 1) /\ j \in 1..(i + Len(back))
      BY <1>2, <2>2
    <3>2. t[j] = back[j - i]
      BY <1>6, <2>2, <3>1
    <3>3. back[j - i] = s[(j - i) + i - 1]
      BY <1>2, <3>1
    <3>4. (j - i) + i - 1 = j - 1
      BY <1>0
    <3>5. ~(j < i) /\ j # i
      BY <1>0, <2>2
    <3> QED BY <3>2, <3>3, <3>4, <3>5
  <2>3. j <= i \/ j > i
    BY <1>0
  <2> QED BY <2>1, <2>2, <2>3
<1> QED BY <1>2, <1>4, <1>6, <1>7
=============================================================================
