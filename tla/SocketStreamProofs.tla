------------------------- MODULE SocketStreamProofs -------------------------
(***************************************************************************)
(* Proofs about SocketStream, for any numbers of bytes and of pieces of    *)
(* text, any sizes of the buffers and either habit of the script.          *)
(***************************************************************************)
EXTENDS SocketStream, SequenceTheorems, TLAPS

-----------------------------------------------------------------------------
(* Sequences that share no element.                                        *)

Distinct(s) == \A i, j \in 1..Len(s) : s[i] = s[j] => i = j
Apart(s, t) == \A i \in 1..Len(s), j \in 1..Len(t) : s[i] # t[j]
Separate(s, t, u) ==
    /\ Distinct(s) /\ Distinct(t) /\ Distinct(u)
    /\ Apart(s, t) /\ Apart(s, u) /\ Apart(t, u)

\* A concatenation is injective if its parts are and share nothing.
LEMMA ConcatDistinct ==
    ASSUME NEW S, NEW s \in Seq(S), NEW t \in Seq(S)
    PROVE  Distinct(s \o t) <=> Distinct(s) /\ Distinct(t) /\ Apart(s, t)
<1>1. /\ s \o t \in Seq(S) /\ Len(s \o t) = Len(s) + Len(t)
      /\ Len(s) \in Nat /\ Len(t) \in Nat
      /\ \A i \in 1..Len(s) : i \in 1..Len(s \o t) /\ (s \o t)[i] = s[i]
      /\ \A i \in 1..Len(t) : Len(s) + i \in 1..Len(s \o t) /\ (s \o t)[Len(s) + i] = t[i]
  OBVIOUS
<1>2. \A i \in 1..Len(s \o t) :
        \/ i \in 1..Len(s)
        \/ i - Len(s) \in 1..Len(t) /\ i = Len(s) + (i - Len(s))
  BY <1>1
<1>3. ASSUME Distinct(s \o t)
      PROVE  Distinct(s) /\ Distinct(t) /\ Apart(s, t)
  <2>1. Distinct(s)
    BY <1>1, <1>3 DEF Distinct
  <2>2. Distinct(t)
    <3> SUFFICES ASSUME NEW i \in 1..Len(t), NEW j \in 1..Len(t), t[i] = t[j]
                 PROVE  i = j
      BY DEF Distinct
    <3>1. Len(s) + i = Len(s) + j
      BY <1>1, <1>3 DEF Distinct
    <3> QED BY <1>1, <3>1
  <2>3. Apart(s, t)
    <3> SUFFICES ASSUME NEW i \in 1..Len(s), NEW j \in 1..Len(t), s[i] = t[j]
                 PROVE  FALSE
      BY DEF Apart
    <3>1. i = Len(s) + j
      BY <1>1, <1>3 DEF Distinct
    <3> QED BY <1>1, <3>1
  <2> QED BY <2>1, <2>2, <2>3
<1>4. ASSUME Distinct(s), Distinct(t), Apart(s, t)
      PROVE  Distinct(s \o t)
  <2> SUFFICES ASSUME NEW i \in 1..Len(s \o t), NEW j \in 1..Len(s \o t),
                      (s \o t)[i] = (s \o t)[j]
               PROVE  i = j
    BY DEF Distinct
  <2>1. CASE i \in 1..Len(s) /\ j \in 1..Len(s)
    BY <1>1, <1>4, <2>1 DEF Distinct
  <2>2. CASE i \in 1..Len(s) /\ j - Len(s) \in 1..Len(t)
    <3>1. s[i] = t[j - Len(s)]
      BY <1>1, <1>2, <2>2
    <3> QED BY <1>4, <2>2, <3>1 DEF Apart
  <2>3. CASE i - Len(s) \in 1..Len(t) /\ j \in 1..Len(s)
    <3>1. s[j] = t[i - Len(s)]
      BY <1>1, <1>2, <2>3
    <3> QED BY <1>4, <2>3, <3>1 DEF Apart
  <2>4. CASE i - Len(s) \in 1..Len(t) /\ j - Len(s) \in 1..Len(t)
    <3>1. t[i - Len(s)] = t[j - Len(s)]
      BY <1>1, <1>2, <2>4
    <3>2. i - Len(s) = j - Len(s)
      BY <1>4, <2>4, <3>1 DEF Distinct
    <3> QED BY <1>1, <3>2
  <2> QED BY <1>2, <2>1, <2>2, <2>3, <2>4
<1> QED BY <1>3, <1>4

LEMMA SeparateConcat ==
    ASSUME NEW S, NEW s \in Seq(S), NEW t \in Seq(S), NEW u \in Seq(S)
    PROVE  IsInjective(s \o t \o u) <=> Separate(s, t, u)
<1>1. s \o t \in Seq(S) /\ s \o t \o u \in Seq(S)
  OBVIOUS
<1>2. IsInjective(s \o t \o u) <=> Distinct(s \o t \o u)
  <2>1. DOMAIN (s \o t \o u) = 1..Len(s \o t \o u)
    BY <1>1
  <2> QED BY <2>1 DEF IsInjective, Distinct
<1>3. /\ Distinct(s \o t \o u) <=> Distinct(s \o t) /\ Distinct(u) /\ Apart(s \o t, u)
      /\ Distinct(s \o t) <=> Distinct(s) /\ Distinct(t) /\ Apart(s, t)
  BY <1>1, ConcatDistinct
<1>4. Apart(s \o t, u) <=> Apart(s, u) /\ Apart(t, u)
  <2>1. /\ Len(s \o t) = Len(s) + Len(t) /\ Len(s) \in Nat /\ Len(t) \in Nat
        /\ \A i \in 1..Len(s) : i \in 1..Len(s \o t) /\ (s \o t)[i] = s[i]
        /\ \A i \in 1..Len(t) : Len(s) + i \in 1..Len(s \o t) /\ (s \o t)[Len(s) + i] = t[i]
    OBVIOUS
  <2>2. \A i \in 1..Len(s \o t) :
          \/ i \in 1..Len(s)
          \/ i - Len(s) \in 1..Len(t) /\ (s \o t)[i] = t[i - Len(s)]
    BY <2>1
  <2>3. Apart(s \o t, u) => Apart(s, u)
    BY <2>1 DEF Apart
  <2>4. Apart(s \o t, u) => Apart(t, u)
    BY <2>1 DEF Apart
  <2>5. Apart(s, u) /\ Apart(t, u) => Apart(s \o t, u)
    BY <2>1, <2>2 DEF Apart
  <2> QED BY <2>3, <2>4, <2>5
<1> QED BY <1>2, <1>3, <1>4 DEF Separate

\* A part of a sequence, k elements in.
Part(s, t, k) ==
    /\ k \in Nat /\ k + Len(s) <= Len(t)
    /\ \A i \in 1..Len(s) : i + k \in 1..Len(t) /\ s[i] = t[i + k]

Below(s, n) == \A i \in 1..Len(s) : s[i] <= n

LEMMA PartInherits ==
    ASSUME NEW S, NEW s \in Seq(S), NEW t \in Seq(S), NEW u \in Seq(S), NEW k, Part(s, t, k)
    PROVE  /\ Distinct(t) => Distinct(s)
           /\ Apart(t, u) => Apart(s, u)
           /\ Apart(u, t) => Apart(u, s)
           /\ \A n : Below(t, n) => Below(s, n)
<1>1. Distinct(t) => Distinct(s)
  <2> SUFFICES ASSUME Distinct(t), NEW i \in 1..Len(s), NEW j \in 1..Len(s), s[i] = s[j]
               PROVE  i = j
    BY DEF Distinct
  <2>1. i + k = j + k
    BY DEF Part, Distinct
  <2> QED BY <2>1 DEF Part
<1>2. Apart(t, u) => Apart(s, u)
  BY DEF Part, Apart
<1>3. Apart(u, t) => Apart(u, s)
  BY DEF Part, Apart
<1>4. \A n : Below(t, n) => Below(s, n)
  BY DEF Part, Below
<1> QED BY <1>1, <1>2, <1>3, <1>4

\* Parts that do not overlap share nothing.
LEMMA PartsApart ==
    ASSUME NEW S, NEW s \in Seq(S), NEW t \in Seq(S), NEW u \in Seq(S), NEW k, NEW l,
           Distinct(u), Part(s, u, k), Part(t, u, l), k + Len(s) <= l
    PROVE  Apart(s, t) /\ Apart(t, s)
<1>1. ASSUME NEW i \in 1..Len(s), NEW j \in 1..Len(t), s[i] = t[j]
      PROVE  FALSE
  <2>1. i + k = j + l
    BY <1>1 DEF Part, Distinct
  <2> QED BY <2>1 DEF Part
<1> QED BY <1>1 DEF Apart

LEMMA ConcatInherits ==
    ASSUME NEW S, NEW s \in Seq(S), NEW t \in Seq(S), NEW u \in Seq(S)
    PROVE  /\ s \o t \in Seq(S)
           /\ Distinct(s \o t) <=> Distinct(s) /\ Distinct(t) /\ Apart(s, t)
           /\ Apart(s \o t, u) <=> Apart(s, u) /\ Apart(t, u)
           /\ Apart(u, s \o t) <=> Apart(u, s) /\ Apart(u, t)
           /\ \A n : Below(s \o t, n) <=> Below(s, n) /\ Below(t, n)
<1>1. /\ Len(s \o t) = Len(s) + Len(t) /\ Len(s) \in Nat /\ Len(t) \in Nat
      /\ \A i \in 1..Len(s) : i \in 1..Len(s \o t) /\ (s \o t)[i] = s[i]
      /\ \A i \in 1..Len(t) : Len(s) + i \in 1..Len(s \o t) /\ (s \o t)[Len(s) + i] = t[i]
  OBVIOUS
<1>2. \A i \in 1..Len(s \o t) :
        \/ i \in 1..Len(s) /\ (s \o t)[i] = s[i]
        \/ i - Len(s) \in 1..Len(t) /\ (s \o t)[i] = t[i - Len(s)]
  BY <1>1
<1>3. Apart(s \o t, u) <=> Apart(s, u) /\ Apart(t, u)
  <2>1. Apart(s \o t, u) => Apart(s, u)
    BY <1>1 DEF Apart
  <2>2. Apart(s \o t, u) => Apart(t, u)
    BY <1>1 DEF Apart
  <2>3. Apart(s, u) /\ Apart(t, u) => Apart(s \o t, u)
    BY <1>2 DEF Apart
  <2> QED BY <2>1, <2>2, <2>3
<1>4. Apart(u, s \o t) <=> Apart(u, s) /\ Apart(u, t)
  <2>1. \A v, w : Apart(v, w) <=> Apart(w, v)
    BY DEF Apart
  <2> QED BY <1>3, <2>1
<1>5. ASSUME NEW n PROVE Below(s \o t, n) <=> Below(s, n) /\ Below(t, n)
  <2>1. Below(s \o t, n) => Below(s, n)
    BY <1>1 DEF Below
  <2>2. Below(s \o t, n) => Below(t, n)
    BY <1>1 DEF Below
  <2>3. Below(s, n) /\ Below(t, n) => Below(s \o t, n)
    BY <1>2 DEF Below
  <2> QED BY <2>1, <2>2, <2>3
<1>6. s \o t \in Seq(S)
  OBVIOUS
<1> QED BY <1>3, <1>4, <1>5, <1>6, ConcatDistinct

LEMMA NothingShared ==
    ASSUME NEW S, NEW s \in Seq(S)
    PROVE  /\ << >> \in Seq(S) /\ Distinct(<< >>) /\ Apart(s, << >>) /\ Apart(<< >>, s)
           /\ \A n : Below(<< >>, n)
<1>1. 1..Len(<< >>) = {} /\ << >> \in Seq(S)
  OBVIOUS
<1> QED BY <1>1 DEF Distinct, Apart, Below

\* One element before a sequence.
LEMMA BeforeProperties ==
    ASSUME NEW S, NEW h \in Seq(S), NEW t \in Seq(S), Len(h) = 1
    PROVE  /\ h \o t \in Seq(S) /\ Len(h \o t) = Len(t) + 1
           /\ \A i \in 1..(Len(t) + 1) : (h \o t)[i] = IF i = 1 THEN h[1] ELSE t[i - 1]
<1>0. Len(t) \in Nat
  OBVIOUS
<1>1. /\ h \o t \in Seq(S) /\ Len(h \o t) = Len(h) + Len(t)
      /\ \A i \in 1..(Len(h) + Len(t)) :
           (h \o t)[i] = IF i <= Len(h) THEN h[i] ELSE t[i - Len(h)]
  BY ConcatProperties, Zenon
<1>2. Len(h) + Len(t) = Len(t) + 1
  BY <1>0
<1>3. ASSUME NEW i \in 1..(Len(t) + 1)
      PROVE  (h \o t)[i] = IF i = 1 THEN h[1] ELSE t[i - 1]
  <2>1. (h \o t)[i] = IF i <= 1 THEN h[i] ELSE t[i - 1]
    BY <1>1, <1>2
  <2> QED BY <1>1, <2>1
<1> QED BY <1>1, <1>2, <1>3

\* The parts that the operators of Sequences name.
LEMMA SomeParts ==
    ASSUME NEW S, NEW s \in Seq(S), NEW n \in 0..Len(s)
    PROVE  /\ SubSeq(s, 1, n) \in Seq(S) /\ Part(SubSeq(s, 1, n), s, 0)
           /\ Len(SubSeq(s, 1, n)) = n
           /\ SubSeq(s, n + 1, Len(s)) \in Seq(S) /\ Part(SubSeq(s, n + 1, Len(s)), s, n)
           /\ n > 0 => /\ SubSeq(s, 2, n) \in Seq(S) /\ Part(SubSeq(s, 2, n), s, 1)
                       /\ Len(SubSeq(s, 2, n)) = n - 1
                       /\ <<Head(s)>> \in Seq(S) /\ Part(<<Head(s)>>, s, 0)
                       /\ Len(<<Head(s)>>) = 1
                       /\ Tail(s) \in Seq(S) /\ Part(Tail(s), s, 1)
                       /\ <<Head(s)>> \o Tail(s) = s
                       /\ <<Head(s)>> \o SubSeq(s, 2, n) = SubSeq(s, 1, n)
<1>1. /\ SubSeq(s, 1, n) \in Seq(S) /\ Part(SubSeq(s, 1, n), s, 0)
      /\ Len(SubSeq(s, 1, n)) = n
  BY DEF Part
<1>2. SubSeq(s, n + 1, Len(s)) \in Seq(S) /\ Part(SubSeq(s, n + 1, Len(s)), s, n)
  BY DEF Part
<1>3. ASSUME n > 0
      PROVE  /\ SubSeq(s, 2, n) \in Seq(S) /\ Part(SubSeq(s, 2, n), s, 1)
             /\ Len(SubSeq(s, 2, n)) = n - 1
  BY <1>3 DEF Part
<1>4. ASSUME n > 0
      PROVE  /\ <<Head(s)>> \in Seq(S) /\ Part(<<Head(s)>>, s, 0) /\ Len(<<Head(s)>>) = 1
  <2>1. s # << >> /\ Len(s) >= 1 /\ Head(s) = s[1] /\ Head(s) \in S
    BY <1>4
  <2>2. <<Head(s)>> \in Seq(S) /\ Len(<<Head(s)>>) = 1 /\ <<Head(s)>>[1] = s[1]
    BY <2>1
  <2> HIDE <2>1
  <2> DEFINE h == <<Head(s)>>
  <2>3. h \in Seq(S) /\ Len(h) = 1 /\ h[1] = s[1]
    BY <2>2
  <2> HIDE DEF h
  <2>4. Part(h, s, 0)
    BY <2>1, <2>3 DEF Part
  <2> QED BY <2>3, <2>4 DEF h
<1>5. ASSUME n > 0
      PROVE  Tail(s) \in Seq(S) /\ Part(Tail(s), s, 1) /\ Len(Tail(s)) = Len(s) - 1
  BY <1>5 DEF Part
<1>6. ASSUME n > 0
      PROVE  <<Head(s)>> \o Tail(s) = s
  <2> DEFINE h == <<Head(s)>>
  <2>1. /\ h \in Seq(S) /\ Len(h) = 1 /\ h[1] = s[1]
        /\ Tail(s) \in Seq(S) /\ Len(Tail(s)) = Len(s) - 1
        /\ \A i \in 1..(Len(s) - 1) : Tail(s)[i] = s[i + 1]
    BY <1>4, <1>5, <1>6 DEF Part
  <2> HIDE DEF h
  <2>2. /\ h \o Tail(s) \in Seq(S) /\ Len(h \o Tail(s)) = Len(s)
        /\ \A i \in 1..Len(s) : (h \o Tail(s))[i] = IF i = 1 THEN h[1] ELSE Tail(s)[i - 1]
    <3> DEFINE t == Tail(s)
    <3>1. t \in Seq(S) /\ Len(t) + 1 = Len(s) /\ h \in Seq(S) /\ Len(h) = 1
      BY <2>1
    <3> HIDE DEF t
    <3>2. /\ h \o t \in Seq(S) /\ Len(h \o t) = Len(s)
          /\ \A i \in 1..Len(s) : (h \o t)[i] = IF i = 1 THEN h[1] ELSE t[i - 1]
      BY <3>1, BeforeProperties
    <3> QED BY <3>2 DEF t
  <2>3. \A i \in 1..Len(s) : (h \o Tail(s))[i] = s[i]
    BY <2>1, <2>2
  <2>4. h \o Tail(s) = s
    BY <2>2, <2>3, SeqEqual
  <2> QED BY <2>4 DEF h
<1>7. ASSUME n > 0
      PROVE  <<Head(s)>> \o SubSeq(s, 2, n) = SubSeq(s, 1, n)
  <2> DEFINE h == <<Head(s)>>
             t == SubSeq(s, 2, n)
             r == SubSeq(s, 1, n)
  <2>1. /\ h \in Seq(S) /\ Len(h) = 1 /\ h[1] = s[1]
        /\ t \in Seq(S) /\ Len(t) = n - 1 /\ \A i \in 1..(n - 1) : t[i] = s[i + 1]
        /\ r \in Seq(S) /\ Len(r) = n /\ \A i \in 1..n : r[i] = s[i]
    BY <1>1, <1>3, <1>4, <1>7 DEF Part
  <2> HIDE DEF h, t, r
  <2>2. /\ h \o t \in Seq(S) /\ Len(h \o t) = n
        /\ \A i \in 1..n : (h \o t)[i] = IF i = 1 THEN h[1] ELSE t[i - 1]
    <3>1. Len(t) + 1 = n
      BY <2>1
    <3> QED BY <2>1, <3>1, BeforeProperties
  <2>3. \A i \in 1..n : (h \o t)[i] = r[i]
    BY <2>1, <2>2
  <2>4. h \o t = r
    BY <2>1, <2>2, <2>3, SeqEqual
  <2> QED BY <2>4 DEF h, t, r
<1> QED BY <1>1, <1>2, <1>3, <1>4, <1>5, <1>6, <1>7

-----------------------------------------------------------------------------
(* Three places with distinct things numbered up to n, and how they move.  *)

Orderly(s, t, u, n) ==
    Separate(s, t, u) /\ Below(s, n) /\ Below(t, n) /\ Below(u, n)

LEMMA OrderlyMeans ==
    ASSUME NEW S, NEW s \in Seq(S), NEW t \in Seq(S), NEW u \in Seq(S), NEW n
    PROVE  Orderly(s, t, u, n) <=>
             /\ IsInjective(s \o t \o u)
             /\ \A v \in {s, t, u} : \A i \in DOMAIN v : v[i] <= n
<1>1. DOMAIN s = 1..Len(s) /\ DOMAIN t = 1..Len(t) /\ DOMAIN u = 1..Len(u)
  OBVIOUS
<1>2. Below(s, n) /\ Below(t, n) /\ Below(u, n) <=>
        \A v \in {s, t, u} : \A i \in DOMAIN v : v[i] <= n
  BY <1>1 DEF Below
<1> QED BY <1>2, SeparateConcat DEF Orderly

LEMMA OrderlyEitherWay ==
    ASSUME NEW s, NEW t, NEW u, NEW n, Orderly(s, t, u, n)
    PROVE  /\ Orderly(s, u, t, n) /\ Orderly(t, s, u, n) /\ Orderly(t, u, s, n)
           /\ Orderly(u, s, t, n) /\ Orderly(u, t, s, n)
<1>1. \A v, w : Apart(v, w) <=> Apart(w, v)
  BY DEF Apart
<1> QED BY <1>1 DEF Orderly, Separate

\* A part of the last joins the second, and another part of it is kept.
LEMMA OrderlyMove ==
    ASSUME NEW S, NEW s \in Seq(S), NEW t \in Seq(S), NEW u \in Seq(S), NEW n,
           Orderly(s, t, u, n),
           NEW a \in Seq(S), NEW k, Part(a, u, k),
           NEW b \in Seq(S), NEW l, Part(b, u, l),
           k + Len(a) <= l \/ l + Len(b) <= k
    PROVE  Orderly(s, t \o a, b, n)
<1>1. /\ Distinct(a) /\ Distinct(b) /\ Below(a, n) /\ Below(b, n)
      /\ Apart(s, a) /\ Apart(t, a) /\ Apart(s, b) /\ Apart(t, b)
  BY PartInherits DEF Orderly, Separate
<1>2. Apart(a, b)
  BY PartsApart DEF Orderly, Separate
<1>3. t \o a \in Seq(S)
  OBVIOUS
<1>4. Distinct(t \o a)
  BY <1>1, ConcatInherits DEF Orderly, Separate
<1>5. Apart(s, t \o a) /\ Apart(t \o a, b) /\ Below(t \o a, n)
  BY <1>1, <1>2, ConcatInherits DEF Orderly, Separate
<1> QED BY <1>1, <1>4, <1>5 DEF Orderly, Separate

LEMMA WholeAndNothing ==
    ASSUME NEW S, NEW s \in Seq(S)
    PROVE  /\ << >> \in Seq(S) /\ Part(s, s, 0)
           /\ \A k \in 0..Len(s) : Part(<< >>, s, k)
           /\ s \o << >> = s /\ << >> \o s = s /\ Len(<< >>) = 0
<1>1. << >> \in Seq(S) /\ Len(<< >>) = 0 /\ 1..Len(<< >>) = {} /\ Len(s) \in Nat
  OBVIOUS
<1>2. s \o << >> = s /\ << >> \o s = s
  OBVIOUS
<1>3. Part(s, s, 0)
  BY <1>1 DEF Part
<1>4. \A k \in 0..Len(s) : Part(<< >>, s, k)
  BY <1>1 DEF Part
<1> QED BY <1>1, <1>2, <1>3, <1>4

\* A part of the last is kept, and the rest is gone.
LEMMA OrderlyKeep ==
    ASSUME NEW S, NEW s \in Seq(S), NEW t \in Seq(S), NEW u \in Seq(S), NEW n,
           Orderly(s, t, u, n), NEW b \in Seq(S), NEW l, Part(b, u, l)
    PROVE  Orderly(s, t, b, n)
<1>1. /\ Distinct(b) /\ Below(b, n) /\ Apart(s, b) /\ Apart(t, b)
  BY PartInherits DEF Orderly, Separate
<1> QED BY <1>1 DEF Orderly, Separate

\* The next one, numbered n + 1, joins the last.
LEMMA OrderlyGrow ==
    ASSUME NEW S \in SUBSET Int, NEW s \in Seq(S), NEW t \in Seq(S), NEW u \in Seq(S),
           NEW n \in Int, Orderly(s, t, u, n), n + 1 \in S
    PROVE  /\ <<n + 1>> \in Seq(S)
           /\ Orderly(s, t, u \o <<n + 1>>, n + 1)
           /\ Append(u, n + 1) = u \o <<n + 1>>
           /\ Part(u, u \o <<n + 1>>, 0)
           /\ Part(<<n + 1>>, u \o <<n + 1>>, Len(u))
<1> DEFINE e == <<n + 1>>
<1>1. e \in Seq(S) /\ Len(e) = 1 /\ e[1] = n + 1 /\ Append(u, n + 1) = u \o e
  OBVIOUS
<1> HIDE DEF e
<1>2. ASSUME NEW v \in Seq(S), Below(v, n)
      PROVE  Apart(v, e) /\ Below(v, n + 1)
  <2>0. \A i \in 1..Len(v) : v[i] \in S
    OBVIOUS
  <2>1. \A i \in 1..Len(v) : v[i] \in Int /\ v[i] <= n
    BY <1>2, <2>0 DEF Below
  <2>2. \A i \in 1..Len(v) : v[i] # n + 1 /\ v[i] <= n + 1
    BY <2>1
  <2> QED BY <1>1, <2>2 DEF Apart, Below
<1>3. Distinct(e) /\ Below(e, n + 1)
  BY <1>1 DEF Distinct, Below
<1>4. Distinct(u \o e) /\ Apart(s, u \o e) /\ Apart(t, u \o e) /\ Below(u \o e, n + 1)
  <2>1. /\ Apart(s, e) /\ Apart(t, e) /\ Apart(u, e) /\ Below(u, n + 1)
    BY <1>2 DEF Orderly
  <2>2. Distinct(u \o e)
    BY <1>1, <1>3, <2>1, ConcatInherits DEF Orderly, Separate
  <2>3. Apart(s, u \o e) /\ Below(u \o e, n + 1)
    BY <1>1, <1>3, <2>1, ConcatInherits DEF Orderly, Separate
  <2>4. Apart(t, u \o e)
    BY <1>1, <2>1, ConcatInherits DEF Orderly, Separate
  <2> QED BY <2>2, <2>3, <2>4
<1>5. Orderly(s, t, u \o e, n + 1)
  BY <1>2, <1>4 DEF Orderly, Separate
<1>6. /\ Len(u \o e) = Len(u) + 1 /\ Len(u) \in Nat
      /\ \A i \in 1..(Len(u) + 1) : (u \o e)[i] = IF i <= Len(u) THEN u[i] ELSE e[i - Len(u)]
  <2>1. Len(u) + Len(e) = Len(u) + 1
    BY <1>1
  <2> QED BY <1>1, <2>1, ConcatProperties
<1>7. Part(u, u \o e, 0)
  BY <1>6 DEF Part
<1>8. Part(e, u \o e, Len(u))
  <2>1. (u \o e)[1 + Len(u)] = e[1]
    BY <1>6
  <2>2. \A i \in 1..Len(e) : i = 1
    BY <1>1
  <2> QED BY <1>1, <1>6, <2>1, <2>2 DEF Part
<1> QED BY <1>1, <1>5, <1>7, <1>8 DEF e

-----------------------------------------------------------------------------
(* What the library's and the kernel's operations answer.                  *)

LEMMA FileOperations ==
    ASSUME NEW f \in FileState
    PROVE  /\ ToPut(f) \in FileState /\ ToGet(f) \in FileState /\ Drained(f) \in FileState
           /\ Outgoing(f) \in Seq(Text)
           /\ ToPut(f).rd = f.rd /\ ToGet(f).rd = f.rd /\ Drained(f).rd = f.rd
           /\ ToPut(f).wr = f.wr /\ ToGet(f).wr = << >>
           /\ Drained(f).wr = IF f.stale THEN f.wr ELSE << >>
           /\ ToPut(f).tiny = f.tiny /\ ToGet(f).tiny = f.tiny /\ Drained(f).tiny = f.tiny
           /\ ToPut(f).mode = f.mode /\ ToGet(f).mode = f.mode /\ Drained(f).mode = f.mode
           /\ ToPut(f).putting /\ ~ToGet(f).stale
           /\ Drained(f).stale = f.stale /\ Drained(f).putting = f.putting
<1>1. << >> \in Seq(Text) /\ f.wr \in Seq(Text)
  BY DEF FileState
<1> QED BY <1>1 DEF FileState, ToPut, ToGet, Drained, Outgoing

\* A write hands over a prefix of what it is given.
LEMMA EmitPrefix ==
    ASSUME TypeOK, NEW t \in Seq(Text), Emit(t)
    PROVE  /\ sq' \in Seq(Text)
           /\ peer' = peer \/ (peer = "gone" /\ peer' = "reset")
           /\ \E a \in Seq(Text) :
                /\ sq' = sq \o a /\ Len(a) <= Len(t)
                /\ \A i \in 1..Len(a) : a[i] = t[i]
<1>1. sq \in Seq(Text) /\ << >> \in Seq(Text) /\ sq \o << >> = sq /\ Len(t) \in Nat
  BY DEF TypeOK
<1>2. CASE t = << >> \/ peer = "gone"
  <2>1. sq' = sq
    BY <1>2 DEF Emit
  <2>2. peer' = peer \/ (peer = "gone" /\ peer' = "reset")
    BY <1>2 DEF Emit
  <2> DEFINE a == << >>
  <2>3. /\ a \in Seq(Text) /\ sq' = sq \o a /\ Len(a) <= Len(t)
        /\ \A i \in 1..Len(a) : a[i] = t[i]
    BY <1>1, <2>1
  <2>4. sq' \in Seq(Text)
    BY <1>1, <2>1
  <2> HIDE DEF a
  <2> QED BY <2>2, <2>3, <2>4
<1>3. CASE ~(t = << >> \/ peer = "gone")
  <2>1. sq' = sq \o Taken(t) /\ peer' = peer
    BY <1>3 DEF Emit
  <2>2. Room \in Nat
    BY <1>1, BoundsAssumption DEF Room
  <2>3. /\ Taken(t) \in Seq(Text) /\ Len(Taken(t)) <= Len(t)
        /\ \A i \in 1..Len(Taken(t)) : Taken(t)[i] = t[i]
    BY <1>1, <2>2 DEF Taken
  <2> DEFINE a == Taken(t)
  <2>4. a \in Seq(Text) /\ sq' = sq \o a /\ peer' = peer
    BY <2>1, <2>3
  <2>5. sq' \in Seq(Text)
    BY <1>1, <2>4
  <2> HIDE DEF a
  <2>6. Len(a) <= Len(t) /\ \A i \in 1..Len(a) : a[i] = t[i]
    BY <2>3 DEF a
  <2> QED BY <2>4, <2>5, <2>6
<1> QED BY <1>2, <1>3

\* The next byte is the first of what is read ahead, or else of what waits; the
\* rest stays in order.
LEMMA FetchTakesFirst ==
    ASSUME TypeOK, NEW x \in Fetch
    PROVE  /\ x.byte \in Byte /\ x.rd \in Seq(Byte) /\ x.rq \in Seq(Byte)
           /\ \/ /\ file.rd # << >> /\ x.byte = Head(file.rd)
                 /\ x.rd = Tail(file.rd) /\ x.rq = rq
              \/ /\ file.rd = << >> /\ rq # << >> /\ x.byte = Head(rq)
                 /\ \E n \in 1..Len(rq) :
                      /\ x.rd = SubSeq(rq, 2, n) /\ x.rq = SubSeq(rq, n + 1, Len(rq))
                      /\ file.tiny => n = 1
<1>1. file.rd \in Seq(Byte) /\ rq \in Seq(Byte)
  BY DEF TypeOK, FileState
<1>2. CASE file.rd # << >>
  <2>1. x = [byte |-> Head(file.rd), rd |-> Tail(file.rd), rq |-> rq]
    BY <1>2 DEF Fetch
  <2>2. Head(file.rd) \in Byte /\ Tail(file.rd) \in Seq(Byte)
    BY <1>1, <1>2
  <2> QED BY <1>1, <1>2, <2>1, <2>2
<1>3. CASE file.rd = << >>
  <2>1. rq # << >> /\ Len(rq) \in Nat \ {0}
    BY <1>1, <1>3 DEF Fetch
  <2> DEFINE n == IF file.tiny THEN 1 ELSE IF BufSize < Len(rq) THEN BufSize ELSE Len(rq)
  <2>2. n \in 1..Len(rq)
    BY <2>1, BoundsAssumption
  <2>3. x = [byte |-> Head(rq), rd |-> SubSeq(rq, 2, n), rq |-> SubSeq(rq, n + 1, Len(rq))]
    BY <1>3 DEF Fetch
  <2>4. Head(rq) \in Byte /\ SubSeq(rq, 2, n) \in Seq(Byte)
        /\ SubSeq(rq, n + 1, Len(rq)) \in Seq(Byte)
    BY <1>1, <2>1, <2>2
  <2>5. file.tiny => n = 1
    OBVIOUS
  <2> HIDE DEF n
  <2> QED BY <1>3, <2>1, <2>2, <2>3, <2>4, <2>5
<1> QED BY <1>2, <1>3

-----------------------------------------------------------------------------
(* Types.                                                                  *)

LEMMA GetByteType ==
    ASSUME TypeOK, NEW x \in Fetch, NEW back \in {<< >>, <<x.byte>>}, GetByte(x, back)
    PROVE  /\ file' \in FileState /\ rq' \in Seq(Byte) /\ sq' \in Seq(Text)
           /\ peer' \in {"open", "finished", "gone", "reset"}
<1>1. /\ x.byte \in Byte /\ x.rd \in Seq(Byte) /\ x.rq \in Seq(Byte)
  BY FetchTakesFirst
<1>2. ToGet(file) \in FileState /\ Outgoing(file) \in Seq(Text)
  BY FileOperations DEF TypeOK
<1>3. back \o x.rd \in Seq(Byte)
  <2>1. CASE back = << >>
    BY <1>1, <2>1
  <2>2. CASE back = <<x.byte>>
    <3>1. <<x.byte>> \in Seq(Byte)
      BY <1>1
    <3> QED BY <1>1, <2>2, <3>1
  <2> QED BY <2>1, <2>2
<1>4. sq' \in Seq(Text) /\ (peer' = peer \/ peer' = "reset")
  BY <1>2, EmitPrefix DEF GetByte
<1> QED BY <1>1, <1>2, <1>3, <1>4 DEF GetByte, FileState, TypeOK

LEMMA GetEofType ==
    ASSUME TypeOK, GetEof
    PROVE  /\ file' \in FileState /\ rq' \in Seq(Byte) /\ sq' \in Seq(Text)
           /\ peer' \in {"open", "finished", "gone", "reset"}
<1>1. /\ ToGet(file) \in FileState /\ Outgoing(file) \in Seq(Text)
      /\ Drained(file) \in FileState
  BY FileOperations DEF TypeOK
<1>2. Emit(Outgoing(file)) => sq' \in Seq(Text) /\ (peer' = peer \/ peer' = "reset")
  BY <1>1, EmitPrefix
<1>3. InputEnded \in BOOLEAN
  BY DEF InputEnded, TypeOK
<1> QED BY <1>1, <1>2, <1>3 DEF GetEof, FileState, TypeOK

LEMMA TypeStep == TypeOK /\ [Next]_vars => TypeOK'
<1> SUFFICES ASSUME TypeOK, [Next]_vars PROVE TypeOK'
  OBVIOUS
<1> USE DEF TypeOK, Options
<1>0. /\ ToPut(file) \in FileState /\ ToGet(file) \in FileState
      /\ Drained(file) \in FileState /\ Outgoing(file) \in Seq(Text)
  BY FileOperations
<1>e. ASSUME NEW t \in Seq(Text), Emit(t)
      PROVE  sq' \in Seq(Text) /\ peer' \in {"open", "finished", "gone", "reset"}
  BY <1>e, EmitPrefix
<1>1. CASE ReadSocket /\ UNCHANGED habit
  <2>1. ASSUME NEW x \in Fetch, GetByte(x, << >>), got' = Append(got, x.byte)
        PROVE  TypeOK'
    <3>1. x.byte \in Byte
      BY FetchTakesFirst
    <3>2. got' \in Seq(Byte)
      BY <2>1, <3>1
    <3> QED BY <1>1, <2>1, <3>2, GetByteType DEF ReadSocket
  <2>2. CASE GetEof /\ UNCHANGED got
    BY <1>1, <2>2, GetEofType DEF ReadSocket
  <2> QED BY <1>1, <2>1, <2>2 DEF ReadSocket
<1>2. CASE UnreadSocket /\ UNCHANGED habit
  BY <1>2, GetByteType DEF UnreadSocket
<1>3. ASSUME NEW b \in BOOLEAN, WriteSocket(b), UNCHANGED habit
      PROVE  TypeOK'
  <2> DEFINE f == ToPut(file)
             p == printed + 1
             all == [f EXCEPT !.wr = Append(@, p)]
  <2>1. p \in Text /\ printed' = p /\ f \in FileState /\ f.wr \in Seq(Text)
    BY <1>0, <1>3 DEF WriteSocket, FileState
  <2>2. <<p>> \in Seq(Text) /\ Append(f.wr, p) \in Seq(Text)
    BY <2>1
  <2>3. all \in FileState /\ [f EXCEPT !.wr = <<p>>] \in FileState
    BY <2>1, <2>2 DEF FileState
  <2>4. /\ Outgoing(all) \in Seq(Text) /\ Outgoing(f) \in Seq(Text)
        /\ Drained(all) \in FileState
    BY <2>1, <2>3, FileOperations
  <2>5. printed' \in 0..OutMax
    BY <2>1, BoundsAssumption DEF Text
  <2>6. /\ file' \in {f, all, Drained(all), [f EXCEPT !.wr = <<p>>]}
        /\ UNCHANGED <<sq, peer>> \/ \E t \in Seq(Text) : Emit(t)
    <3> HIDE DEF f, p, all
    <3> QED BY <1>3, <2>2, <2>4 DEF WriteSocket, f, p, all
  <2>7. file' \in FileState
    BY <2>1, <2>3, <2>4, <2>6
  <2>8. sq' \in Seq(Text) /\ peer' \in {"open", "finished", "gone", "reset"}
    BY <1>e, <2>6
  <2> QED BY <1>3, <2>5, <2>7, <2>8 DEF WriteSocket
<1>4. CASE RecvfromFunction /\ UNCHANGED habit
  <2>1. PICK n \in 1..Len(rq) :
          got' = got \o SubSeq(rq, 1, n) /\ rq' = SubSeq(rq, n + 1, Len(rq))
    BY <1>4 DEF RecvfromFunction
  <2>2. got' \in Seq(Byte) /\ rq' \in Seq(Byte)
    BY <2>1
  <2> QED BY <1>4, <2>2 DEF RecvfromFunction
<1>5. CASE SendtoFunction /\ UNCHANGED habit
  <2>1. printed' \in 0..OutMax /\ <<printed + 1>> \in Seq(Text)
    BY <1>5, BoundsAssumption DEF SendtoFunction, Text
  <2> QED BY <1>5, <1>e, <2>1 DEF SendtoFunction
<1>6. CASE FlushConnection /\ UNCHANGED habit
  BY <1>6, <1>0, <1>e DEF FlushConnection
<1>7. CASE EmptyConnection /\ UNCHANGED habit
  BY <1>7 DEF EmptyConnection
<1>8. CASE SetNotBuffered /\ UNCHANGED habit
  <2> DEFINE kept == [Drained(file) EXCEPT !.mode = "not"]
             purged == [ToGet(file) EXCEPT !.mode = "not", !.tiny = TRUE, !.rd = << >>]
  <2>1. << >> \in Seq(Byte)
    OBVIOUS
  <2>2. kept \in FileState /\ purged \in FileState
    BY <1>0, <2>1 DEF FileState
  <2>3. file' \in {kept, purged}
    BY <1>8 DEF SetNotBuffered
  <2> HIDE DEF kept, purged
  <2> QED BY <1>8, <1>0, <1>e, <2>2, <2>3 DEF SetNotBuffered
<1>9. ASSUME NEW m \in {"fully", "line"}, SetBuffered(m), UNCHANGED habit
      PROVE  TypeOK'
  BY <1>9 DEF SetBuffered, FileState
<1>10. ASSUME NEW b \in BOOLEAN, FcntlStatusFlags(b), UNCHANGED habit
       PROVE  TypeOK'
  BY <1>10 DEF FcntlStatusFlags
<1>11. ASSUME NEW us \in {"zero", "short", "long"}, SetTimeout(us), UNCHANGED habit
       PROVE  TypeOK'
  BY <1>11 DEF SetTimeout
<1>12. CASE ShutdownConnection /\ UNCHANGED habit
  BY <1>12 DEF ShutdownConnection
<1>13. CASE CloseConnection /\ UNCHANGED habit
  <2>1. << >> \in Seq(Text)
    OBVIOUS
  <2>2. sq' \in Seq(Text) /\ peer' \in {"open", "finished", "gone", "reset"}
    BY <1>13, <1>0, <1>e, <2>1 DEF CloseConnection
  <2> QED BY <1>13, <1>0, <2>2 DEF CloseConnection
<1>14. CASE EmptyConnectionByte /\ UNCHANGED habit
  <2>1. ASSUME NEW x \in Fetch, GetByte(x, << >>), UNCHANGED doing
        PROVE  TypeOK'
    BY <1>14, <2>1, GetByteType DEF EmptyConnectionByte
  <2>2. CASE GetEof /\ doing' = "script"
    BY <1>14, <2>2, GetEofType DEF EmptyConnectionByte
  <2> QED BY <1>14, <2>1, <2>2 DEF EmptyConnectionByte
<1>15. CASE BrokenPipe /\ UNCHANGED habit
  BY <1>15 DEF BrokenPipe
<1>16. CASE PeerSends /\ UNCHANGED habit
  <2>1. sent + 1 \in Byte /\ sent' \in 0..InMax
    BY <1>16, BoundsAssumption DEF PeerSends, Byte
  <2>2. rq' \in Seq(Byte)
    BY <1>16, <2>1 DEF PeerSends
  <2> QED BY <1>16, <2>1, <2>2 DEF PeerSends
<1>17. CASE PeerReceives /\ UNCHANGED habit
  <2>1. arrived' \in Seq(Text) /\ sq' \in Seq(Text)
    BY <1>17 DEF PeerReceives
  <2> QED BY <1>17, <2>1 DEF PeerReceives
<1>18. ASSUME NEW how \in {"finished", "gone", "reset"}, PeerLeaves(how), UNCHANGED habit
       PROVE  TypeOK'
  BY <1>18 DEF PeerLeaves
<1>19. CASE UNCHANGED vars
  BY <1>19 DEF vars
<1>20. CASE (PeerSendsMore \/ EmptyConnectionMore) /\ UNCHANGED habit
  BY <1>20 DEF PeerSendsMore, EmptyConnectionMore
<1> QED
  BY <1>1, <1>2, <1>3, <1>4, <1>5, <1>6, <1>7, <1>8, <1>9, <1>10, <1>11, <1>12, <1>13,
     <1>14, <1>15, <1>16, <1>17, <1>18, <1>19, <1>20
     DEF Next, Transfer, Control, Peer, Over

-----------------------------------------------------------------------------
(* Bytes on their way in.                                                  *)

InputOrderly == Orderly(got, file.rd, rq, sent)

\* A refill first moves what it reads ahead out of the kernel; the byte is then
\* the first of what is read ahead.
LEMMA NextByte ==
    ASSUME TypeOK, InputOrderly, NEW x \in Fetch
    PROVE  \E r \in Seq(Byte) :
             /\ r # << >> /\ x.byte = Head(r) /\ x.rd = Tail(r)
             /\ x.rq \in Seq(Byte) /\ Orderly(got, r, x.rq, sent)
<1>1. got \in Seq(Byte) /\ file.rd \in Seq(Byte) /\ rq \in Seq(Byte) /\ x.rq \in Seq(Byte)
  BY FetchTakesFirst DEF TypeOK, FileState
<1>2. CASE /\ file.rd # << >> /\ x.byte = Head(file.rd)
           /\ x.rd = Tail(file.rd) /\ x.rq = rq
  BY <1>1, <1>2 DEF InputOrderly
<1>3. ASSUME file.rd = << >>, rq # << >>, x.byte = Head(rq),
             NEW n \in 1..Len(rq), x.rd = SubSeq(rq, 2, n), x.rq = SubSeq(rq, n + 1, Len(rq))
      PROVE  \E r \in Seq(Byte) :
               /\ r # << >> /\ x.byte = Head(r) /\ x.rd = Tail(r)
               /\ x.rq \in Seq(Byte) /\ Orderly(got, r, x.rq, sent)
  <2> DEFINE r == SubSeq(rq, 1, n)
  <2>1. n \in 0..Len(rq) /\ n > 0
    BY <1>1, <1>3
  <2>2. /\ r \in Seq(Byte) /\ Part(r, rq, 0) /\ Len(r) = n
        /\ Part(x.rq, rq, n)
    <3>1. Part(SubSeq(rq, n + 1, Len(rq)), rq, n)
      BY <1>1, <2>1, SomeParts
    <3>2. r \in Seq(Byte) /\ Part(r, rq, 0) /\ Len(r) = n
      BY <1>1, <2>1, SomeParts
    <3> QED BY <1>3, <3>1, <3>2
  <2>3. /\ SubSeq(rq, 2, n) \in Seq(Byte) /\ Part(SubSeq(rq, 2, n), rq, 1)
        /\ Len(SubSeq(rq, 2, n)) = n - 1
    BY <1>1, <2>1, SomeParts
  <2>4. r # << >> /\ Head(r) = Head(rq)
    <3>1. r[1] = rq[1] /\ Len(r) > 0
      BY <2>1, <2>2 DEF Part
    <3> HIDE DEF r
    <3> QED BY <1>1, <1>3, <2>2, <3>1
  <2>5. Tail(r) = SubSeq(rq, 2, n)
    <3> DEFINE v == Tail(r)
               w == SubSeq(rq, 2, n)
    <3>1. v \in Seq(Byte) /\ Len(v) = n - 1 /\ \A i \in 1..(n - 1) : v[i] = r[i + 1]
      BY <2>2, <2>4
    <3>2. \A i \in 1..(n - 1) : r[i + 1] = rq[i + 1]
      BY <2>2 DEF Part
    <3>3. w \in Seq(Byte) /\ Len(w) = n - 1 /\ \A i \in 1..(n - 1) : w[i] = rq[i + 1]
      BY <2>3 DEF Part
    <3> HIDE DEF v, w
    <3>4. \A i \in 1..Len(v) : v[i] = w[i]
      BY <3>1, <3>2, <3>3
    <3>5. v = w
      BY <3>1, <3>3, <3>4, SeqEqual
    <3> QED BY <3>5 DEF v, w
  <2> HIDE DEF r
  <2>6. Orderly(got, file.rd \o r, x.rq, sent)
    <3>1. 0 + Len(r) <= n /\ Orderly(got, file.rd, rq, sent)
      BY <2>1, <2>2 DEF InputOrderly
    <3> QED BY <1>1, <2>2, <3>1, OrderlyMove
  <2>7. file.rd \o r = r
    BY <1>3, <2>2, WholeAndNothing
  <2> QED BY <1>1, <1>3, <2>2, <2>4, <2>5, <2>6, <2>7
<1> QED BY <1>2, <1>3, FetchTakesFirst

\* getc takes the first byte, which the script gets, drops, or pushes back.
LEMMA InputTaken ==
    ASSUME TypeOK, InputOrderly, UNCHANGED sent,
           NEW x \in Fetch, NEW back \in {<< >>, <<x.byte>>}, GetByte(x, back),
           \/ got' = got
           \/ back = << >> /\ got' = Append(got, x.byte)
    PROVE  InputOrderly'
<1>1. PICK r \in Seq(Byte) :
        /\ r # << >> /\ x.byte = Head(r) /\ x.rd = Tail(r)
        /\ x.rq \in Seq(Byte) /\ Orderly(got, r, x.rq, sent)
  BY NextByte
<1>2. file'.rd = back \o x.rd /\ rq' = x.rq
  <2>1. ToGet(file) \in FileState
    BY FileOperations DEF TypeOK
  <2> QED BY <2>1 DEF GetByte, FileState
<1>3. got \in Seq(Byte) /\ Len(r) \in 0..Len(r) /\ Len(r) > 0
  BY <1>1 DEF TypeOK
<1>4. /\ <<Head(r)>> \in Seq(Byte) /\ Part(<<Head(r)>>, r, 0) /\ Len(<<Head(r)>>) = 1
      /\ Tail(r) \in Seq(Byte) /\ Part(Tail(r), r, 1)
      /\ <<Head(r)>> \o Tail(r) = r
  BY <1>1, <1>3, SomeParts
<1> DEFINE h == <<Head(r)>>
           t == Tail(r)
<1>5. h \in Seq(Byte) /\ Part(h, r, 0) /\ Len(h) = 1 /\ t \in Seq(Byte) /\ Part(t, r, 1)
  BY <1>4
<1>6. h = <<x.byte>> /\ h \o t = r /\ x.rd = t /\ Append(got, x.byte) = got \o h
  <2>1. x.byte \in Byte
    BY FetchTakesFirst
  <2>2. Append(got, x.byte) = got \o <<x.byte>>
    BY <1>3, <2>1
  <2> QED BY <1>1, <1>4, <2>2
<1> HIDE DEF h, t
<1>7. CASE back = << >> /\ got' = got
  <2>1. file'.rd = t
    BY <1>2, <1>5, <1>6, <1>7
  <2>2. Orderly(got, x.rq, r, sent)
    BY <1>1, OrderlyEitherWay
  <2>3. Orderly(got, x.rq, t, sent)
    BY <1>1, <1>3, <1>5, <2>2, OrderlyKeep
  <2> QED BY <1>2, <1>7, <2>1, <2>3, OrderlyEitherWay DEF InputOrderly
<1>8. CASE back = << >> /\ got' = Append(got, x.byte)
  <2>1. file'.rd = t
    BY <1>2, <1>5, <1>6, <1>8
  <2>2. Orderly(x.rq, got, r, sent)
    BY <1>1, OrderlyEitherWay
  <2>3. Orderly(x.rq, got \o h, t, sent)
    <3>1. 0 + Len(h) <= 1
      BY <1>5
    <3> QED BY <1>1, <1>3, <1>5, <2>2, <3>1, OrderlyMove
  <2>4. Orderly(got \o h, t, x.rq, sent)
    BY <2>3, OrderlyEitherWay
  <2> QED BY <1>2, <1>6, <1>8, <2>1, <2>4 DEF InputOrderly
<1>9. CASE back = <<x.byte>> /\ got' = got
  BY <1>1, <1>2, <1>6, <1>9 DEF InputOrderly
<1> QED BY <1>7, <1>8, <1>9

LEMMA InputKept ==
    ASSUME TypeOK, InputOrderly, UNCHANGED <<got, rq, sent>>, file'.rd \in {file.rd, << >>}
    PROVE  InputOrderly'
<1>1. got \in Seq(Byte) /\ file.rd \in Seq(Byte) /\ rq \in Seq(Byte)
  BY DEF TypeOK, FileState
<1>2. CASE file'.rd = << >>
  <2>1. << >> \in Seq(Byte) /\ Part(<< >>, file.rd, 0)
    BY <1>1, WholeAndNothing
  <2>2. Orderly(got, rq, file.rd, sent)
    BY OrderlyEitherWay DEF InputOrderly
  <2>3. Orderly(got, rq, << >>, sent)
    BY <1>1, <2>1, <2>2, OrderlyKeep
  <2> QED BY <1>2, <2>3, OrderlyEitherWay DEF InputOrderly
<1> QED BY <1>2 DEF InputOrderly

LEMMA InputStep ==
    ASSUME TypeOK, InputOrderly, [Next]_vars
    PROVE  InputOrderly'
<1>0. /\ got \in Seq(Byte) /\ file.rd \in Seq(Byte) /\ rq \in Seq(Byte) /\ file \in FileState
      /\ sent \in Int
  BY DEF TypeOK, FileState
<1>1. /\ ToPut(file).rd = file.rd /\ ToGet(file).rd = file.rd /\ Drained(file).rd = file.rd
      /\ ToPut(file) \in FileState /\ ToGet(file) \in FileState /\ Drained(file) \in FileState
  BY <1>0, FileOperations
<1>2. ASSUME GetEof, UNCHANGED <<got, sent>>
      PROVE  InputOrderly'
  <2>1. file'.rd = file.rd
    BY <1>1, <1>2 DEF GetEof, FileState
  <2> QED BY <1>2, <2>1, InputKept DEF GetEof
<1>3. CASE ReadSocket
  BY <1>2, <1>3, InputTaken DEF ReadSocket
<1>4. CASE UnreadSocket
  BY <1>4, InputTaken DEF UnreadSocket
<1>5. CASE EmptyConnectionByte
  BY <1>2, <1>5, InputTaken DEF EmptyConnectionByte
<1>6. ASSUME NEW b \in BOOLEAN, WriteSocket(b)
      PROVE  InputOrderly'
  <2> DEFINE f == ToPut(file)
             p == printed + 1
             all == [f EXCEPT !.wr = Append(@, p)]
             one == [f EXCEPT !.wr = <<p>>]
  <2>1. p \in Text /\ <<p>> \in Seq(Text) /\ Append(f.wr, p) \in Seq(Text)
    BY <1>1, <1>6 DEF WriteSocket, FileState
  <2>2. all \in FileState /\ all.rd = file.rd /\ one.rd = file.rd /\ f.rd = file.rd
    BY <1>1, <2>1 DEF FileState
  <2>3. Drained(all).rd = file.rd
    BY <2>2, FileOperations
  <2>4. file' \in {f, all, one, Drained(all)}
    <3> HIDE DEF f, p, all, one
    <3> QED BY <1>6 DEF WriteSocket, f, p, all, one
  <2>5. file'.rd = file.rd
    <3> HIDE DEF f, all, one
    <3> QED BY <2>2, <2>3, <2>4
  <2> QED BY <1>6, <2>5, InputKept DEF WriteSocket
<1>7. CASE RecvfromFunction
  <2>1. PICK n \in 1..Len(rq) :
          got' = got \o SubSeq(rq, 1, n) /\ rq' = SubSeq(rq, n + 1, Len(rq))
    BY <1>7 DEF RecvfromFunction
  <2>2. n \in 0..Len(rq)
    BY <2>1
  <2> DEFINE a == SubSeq(rq, 1, n)
             b == SubSeq(rq, n + 1, Len(rq))
  <2>3. /\ a \in Seq(Byte) /\ Part(a, rq, 0) /\ Len(a) = n
        /\ b \in Seq(Byte) /\ Part(b, rq, n)
    BY <1>0, <2>2, SomeParts
  <2>4. got' = got \o a /\ rq' = b
    BY <2>1
  <2> HIDE DEF a, b
  <2>5. Orderly(file.rd, got, rq, sent)
    BY OrderlyEitherWay DEF InputOrderly
  <2>6. Orderly(file.rd, got \o a, b, sent)
    BY <1>0, <2>1, <2>3, <2>5, OrderlyMove
  <2>7. Orderly(got \o a, file.rd, b, sent)
    BY <2>6, OrderlyEitherWay
  <2> QED BY <1>7, <2>4, <2>7 DEF RecvfromFunction, InputOrderly
<1>8. CASE PeerSends
  <2>1. sent + 1 \in Byte /\ Byte \in SUBSET Int
    BY <1>8, BoundsAssumption DEF PeerSends, TypeOK, Byte
  <2>2. Orderly(got, file.rd, Append(rq, sent + 1), sent + 1)
    <3>1. Orderly(got, file.rd, rq, sent)
      BY DEF InputOrderly
    <3>2. /\ Orderly(got, file.rd, rq \o <<sent + 1>>, sent + 1)
          /\ Append(rq, sent + 1) = rq \o <<sent + 1>>
      BY <1>0, <2>1, <3>1, OrderlyGrow
    <3> QED BY <3>2
  <2> QED BY <1>8, <2>2 DEF PeerSends, InputOrderly
<1>9. CASE FlushConnection \/ CloseConnection
  BY <1>1, <1>9, InputKept DEF FlushConnection, CloseConnection
<1>10. CASE SetNotBuffered
  <2>1. << >> \in Seq(Byte)
    OBVIOUS
  <2>2. file'.rd \in {file.rd, << >>}
    BY <1>1, <1>10, <2>1 DEF SetNotBuffered, FileState
  <2> QED BY <1>10, <2>2, InputKept DEF SetNotBuffered
<1>11. ASSUME NEW m \in {"fully", "line"}, SetBuffered(m)
       PROVE  InputOrderly'
  <2>1. file'.rd = file.rd
    BY <1>0, <1>11 DEF SetBuffered, FileState
  <2> QED BY <1>11, <2>1, InputKept DEF SetBuffered
<1>12. CASE UNCHANGED <<file, rq, sent, got>>
  BY <1>12 DEF InputOrderly
<1>13. ASSUME EmptyConnection \/ SendtoFunction \/ ShutdownConnection \/ BrokenPipe
              \/ PeerReceives \/ UNCHANGED vars \/ Over
              \/ PeerSendsMore \/ EmptyConnectionMore
       PROVE  UNCHANGED <<file, rq, sent, got>>
  BY <1>13 DEF EmptyConnection, SendtoFunction, ShutdownConnection, BrokenPipe,
               PeerReceives, Over, vars,
               PeerSendsMore, EmptyConnectionMore
<1>14. ASSUME \/ \E b \in BOOLEAN : FcntlStatusFlags(b)
              \/ \E us \in {"zero", "short", "long"} : SetTimeout(us)
              \/ \E how \in {"finished", "gone", "reset"} : PeerLeaves(how)
       PROVE  UNCHANGED <<file, rq, sent, got>>
  BY <1>14 DEF FcntlStatusFlags, SetTimeout, PeerLeaves
<1> QED
  BY <1>3, <1>4, <1>5, <1>6, <1>7, <1>8, <1>9, <1>10, <1>11, <1>12, <1>13, <1>14
     DEF Next, Transfer, Control, Peer

-----------------------------------------------------------------------------
(* Text on its way out.                                                    *)

OutputOrderly == Orderly(arrived, sq, file.wr, printed)

\* A write of one part of w takes what it takes to the kernel; another part stays.
LEMMA EmitMoves ==
    ASSUME TypeOK, NEW w \in Seq(Text), NEW n, Orderly(arrived, sq, w, n),
           NEW t \in Seq(Text), NEW k, Part(t, w, k), Emit(t),
           NEW b \in Seq(Text), NEW l, Part(b, w, l),
           k + Len(t) <= l \/ l + Len(b) <= k
    PROVE  Orderly(arrived, sq', b, n)
<1>1. PICK a \in Seq(Text) :
        /\ sq' = sq \o a /\ Len(a) <= Len(t)
        /\ \A i \in 1..Len(a) : a[i] = t[i]
  BY EmitPrefix
<1>2. /\ sq \in Seq(Text) /\ arrived \in Seq(Text) /\ Len(a) \in Nat /\ Len(t) \in Nat
      /\ Len(b) \in Nat
  BY DEF TypeOK
<1>3. Part(a, w, k)
  <2>1. /\ k \in Nat /\ k + Len(t) <= Len(w)
        /\ \A i \in 1..Len(t) : i + k \in 1..Len(w) /\ t[i] = w[i + k]
    BY DEF Part
  <2>2. Len(w) \in Nat
    OBVIOUS
  <2>3. k + Len(a) <= Len(w)
    BY <1>1, <1>2, <2>1, <2>2
  <2>4. ASSUME NEW i \in 1..Len(a)
        PROVE  i + k \in 1..Len(w) /\ a[i] = w[i + k]
    <3>1. i \in 1..Len(t)
      BY <1>1, <1>2
    <3> QED BY <1>1, <2>1, <3>1
  <2> QED BY <2>1, <2>3, <2>4 DEF Part
<1>4. k + Len(a) <= l \/ l + Len(b) <= k
  <2>1. Part(t, w, k) /\ Part(b, w, l)
    OBVIOUS
  <2>2. k \in Nat /\ l \in Nat
    BY <2>1 DEF Part
  <2> QED BY <1>1, <1>2, <2>2
<1>5. Orderly(arrived, sq \o a, b, n)
  BY <1>2, <1>3, <1>4, OrderlyMove
<1> QED BY <1>1, <1>5

\* A flush, after which the FILE keeps nothing it wrote.
LEMMA FlushMoves ==
    ASSUME TypeOK, OutputOrderly, Emit(Outgoing(file)),
           NEW b \in Seq(Text), b = << >> \/ (file.stale /\ b = file.wr)
    PROVE  Orderly(arrived, sq', b, printed)
<1>1. file \in FileState /\ file.wr \in Seq(Text) /\ sq \in Seq(Text) /\ arrived \in Seq(Text)
  BY DEF TypeOK, FileState
<1>2. /\ Part(file.wr, file.wr, 0) /\ Part(<< >>, file.wr, 0)
      /\ Len(file.wr) \in Nat /\ Len(file.wr) \in 0..Len(file.wr)
      /\ Part(<< >>, file.wr, Len(file.wr)) /\ << >> \in Seq(Text) /\ Len(<< >>) = 0
  <2>1. Len(file.wr) \in 0..Len(file.wr) /\ 0 \in 0..Len(file.wr)
    BY <1>1
  <2> QED BY <1>1, <2>1, WholeAndNothing
<1>3. CASE file.stale
  <2>1. sq' = sq
    BY <1>3 DEF Emit, Outgoing
  <2>2. Part(b, file.wr, 0)
    BY <1>2
  <2> QED BY <1>1, <2>1, <2>2, OrderlyKeep DEF OutputOrderly
<1>4. CASE ~file.stale
  <2>1. b = << >> /\ Outgoing(file) = file.wr
    BY <1>4 DEF Outgoing
  <2>2. 0 + Len(file.wr) <= Len(file.wr)
    BY <1>2
  <2>3. Orderly(arrived, sq', << >>, printed)
    BY <1>1, <1>2, <2>1, <2>2, EmitMoves DEF OutputOrderly
  <2> QED BY <2>1, <2>3
<1> QED BY <1>3, <1>4

LEMMA PrintedGrows ==
    ASSUME TypeOK, OutputOrderly, printed + 1 \in Text
    PROVE  /\ <<printed + 1>> \in Seq(Text) /\ Len(<<printed + 1>>) = 1
           /\ file.wr \o <<printed + 1>> \in Seq(Text)
           /\ Append(file.wr, printed + 1) = file.wr \o <<printed + 1>>
           /\ Orderly(arrived, sq, file.wr \o <<printed + 1>>, printed + 1)
           /\ Part(file.wr, file.wr \o <<printed + 1>>, 0)
           /\ Part(<<printed + 1>>, file.wr \o <<printed + 1>>, Len(file.wr))
           /\ Part(<< >>, file.wr \o <<printed + 1>>, 0)
           /\ Part(<< >>, file.wr \o <<printed + 1>>, Len(file.wr) + 1)
           /\ Part(file.wr \o <<printed + 1>>, file.wr \o <<printed + 1>>, 0)
           /\ Len(file.wr \o <<printed + 1>>) = Len(file.wr) + 1
           /\ Len(file.wr) \in Nat
<1>1. /\ file.wr \in Seq(Text) /\ sq \in Seq(Text) /\ arrived \in Seq(Text)
      /\ Text \in SUBSET Int /\ printed \in Int
  BY DEF TypeOK, FileState, Text
<1>2. /\ <<printed + 1>> \in Seq(Text)
      /\ Append(file.wr, printed + 1) = file.wr \o <<printed + 1>>
      /\ Orderly(arrived, sq, file.wr \o <<printed + 1>>, printed + 1)
      /\ Part(file.wr, file.wr \o <<printed + 1>>, 0)
      /\ Part(<<printed + 1>>, file.wr \o <<printed + 1>>, Len(file.wr))
  <2>1. Orderly(arrived, sq, file.wr, printed)
    BY DEF OutputOrderly
  <2>2. /\ <<printed + 1>> \in Seq(Text)
        /\ Append(file.wr, printed + 1) = file.wr \o <<printed + 1>>
    <3>1. <<printed + 1>> \in Seq(Text)
      OBVIOUS
    <3>2. Append(file.wr, printed + 1) = file.wr \o <<printed + 1>>
      <4> DEFINE v == file.wr
      <4>1. v \in Seq(Text)
        BY <1>1
      <4> HIDE DEF v
      <4>2. Append(v, printed + 1) = v \o <<printed + 1>>
        BY <4>1
      <4> QED BY <4>2 DEF v
    <3> QED BY <3>1, <3>2
  <2>3. Orderly(arrived, sq, file.wr \o <<printed + 1>>, printed + 1)
    BY <1>1, <2>1, OrderlyGrow
  <2>4. /\ Part(file.wr, file.wr \o <<printed + 1>>, 0)
        /\ Part(<<printed + 1>>, file.wr \o <<printed + 1>>, Len(file.wr))
    BY <1>1, <2>1, OrderlyGrow
  <2> QED BY <2>2, <2>3, <2>4
<1> DEFINE e == <<printed + 1>>
           w == file.wr \o <<printed + 1>>
<1>3. e \in Seq(Text) /\ Len(e) = 1 /\ w = file.wr \o e
  BY <1>1
<1> HIDE DEF e
<1>4. w \in Seq(Text) /\ Len(w) = Len(file.wr) + 1 /\ Len(file.wr) \in Nat
  <2>1. Len(file.wr \o e) = Len(file.wr) + 1 /\ file.wr \o e \in Seq(Text)
    BY <1>1, <1>3
  <2> QED BY <1>1, <1>3, <2>1
<1> HIDE DEF w
<1>5. Part(<< >>, w, 0) /\ Part(<< >>, w, Len(file.wr) + 1) /\ Part(w, w, 0)
  <2>1. 0 \in 0..Len(w) /\ Len(file.wr) + 1 \in 0..Len(w)
    BY <1>4
  <2> QED BY <1>4, <2>1, WholeAndNothing
<1> QED BY <1>2, <1>3, <1>4, <1>5 DEF e, w

LEMMA OutputWritten ==
    ASSUME TypeOK, OutputOrderly, NEW endsLine \in BOOLEAN, WriteSocket(endsLine)
    PROVE  OutputOrderly'
<1> DEFINE f == ToPut(file)
           p == printed + 1
           all == [f EXCEPT !.wr = Append(@, p)]
           one == [f EXCEPT !.wr = <<p>>]
           w == file.wr \o <<p>>
<1>1. /\ file.wr \in Seq(Text) /\ sq \in Seq(Text) /\ arrived \in Seq(Text)
      /\ f \in FileState /\ f.wr = file.wr /\ f.rd = file.rd
  BY FileOperations DEF TypeOK, FileState
<1>2. p \in Text /\ printed' = p /\ arrived' = arrived
  BY DEF WriteSocket
<1>3. /\ <<p>> \in Seq(Text) /\ Len(<<p>>) = 1 /\ w \in Seq(Text) /\ << >> \in Seq(Text)
      /\ Append(f.wr, p) = w /\ Orderly(arrived, sq, w, p)
      /\ Part(file.wr, w, 0) /\ Part(<<p>>, w, Len(file.wr))
      /\ Part(<< >>, w, 0) /\ Part(<< >>, w, Len(file.wr) + 1) /\ Part(w, w, 0)
      /\ Len(w) = Len(file.wr) + 1 /\ Len(file.wr) \in Nat /\ Len(<< >>) = 0
  <2>1. << >> \in Seq(Text) /\ Len(<< >>) = 0
    OBVIOUS
  <2> QED BY <1>1, <1>2, <2>1, PrintedGrows
<1>4. /\ all \in FileState /\ all.wr = w /\ all.stale = f.stale
      /\ one \in FileState /\ one.wr = <<p>> /\ one.stale = f.stale
  BY <1>1, <1>3 DEF FileState
<1>5. /\ Drained(all).wr = IF f.stale THEN w ELSE << >>
      /\ Outgoing(all) = IF f.stale THEN << >> ELSE w
      /\ Outgoing(f) = IF f.stale THEN << >> ELSE file.wr
  BY ZenonT(60), <1>1, <1>4, FileOperations DEF Outgoing
<1>6. OutputOrderly' <=> Orderly(arrived, sq', file'.wr, p)
  BY <1>2 DEF OutputOrderly
<1>7. \/ file' = f /\ UNCHANGED <<sq, peer>>
      \/ file' = f /\ Emit(<<p>>)
      \/ Emit(Outgoing(all)) /\ file' = Drained(all)
      \/ file' = all /\ UNCHANGED <<sq, peer>>
      \/ Emit(Outgoing(f)) /\ f.stale /\ file' = f
      \/ Emit(Outgoing(f)) /\ ~f.stale /\ file' = one
  BY Zenon DEF WriteSocket
<1> HIDE DEF f, p, all, one, w
<1>8. ASSUME sq' = sq, NEW b \in Seq(Text), NEW l, Part(b, w, l)
      PROVE  Orderly(arrived, sq', b, p)
  BY <1>1, <1>3, <1>8, OrderlyKeep
<1>9. CASE file' = f /\ UNCHANGED <<sq, peer>>
  BY <1>1, <1>3, <1>6, <1>8, <1>9
<1>10. CASE file' = f /\ Emit(<<p>>)
  <2>1. 0 + Len(file.wr) <= Len(file.wr)
    BY <1>3
  <2> DEFINE e == <<p>>
  <2>2. e \in Seq(Text) /\ Part(e, w, Len(file.wr)) /\ Emit(e)
    BY <1>3, <1>10
  <2> HIDE DEF e
  <2>3. Orderly(arrived, sq', file.wr, p)
    BY <1>1, <1>3, <2>1, <2>2, EmitMoves
  <2> QED BY <1>1, <1>6, <1>10, <2>3
<1>11. CASE Emit(Outgoing(all)) /\ file' = Drained(all)
  <2>1. CASE f.stale
    <3>1. sq' = sq
      BY <1>5, <1>11, <2>1 DEF Emit
    <3> QED BY <1>3, <1>5, <1>6, <1>8, <1>11, <2>1, <3>1
  <2>2. CASE ~f.stale
    <3>1. Emit(w) /\ 0 + Len(w) <= Len(file.wr) + 1
      BY <1>3, <1>5, <1>11, <2>2
    <3>2. Orderly(arrived, sq', << >>, p)
      BY <1>3, <3>1, EmitMoves
    <3> QED BY <1>5, <1>6, <1>11, <2>2, <3>2
  <2> QED BY <2>1, <2>2
<1>12. CASE file' = all /\ UNCHANGED <<sq, peer>>
  BY <1>3, <1>4, <1>6, <1>8, <1>12
<1>13. CASE Emit(Outgoing(f)) /\ f.stale /\ file' = f
  <2>1. sq' = sq
    BY <1>5, <1>13 DEF Emit
  <2> QED BY <1>1, <1>3, <1>6, <1>8, <1>13, <2>1
<1>14. CASE Emit(Outgoing(f)) /\ ~f.stale /\ file' = one
  <2>1. Emit(file.wr) /\ 0 + Len(file.wr) <= Len(file.wr)
    BY <1>3, <1>5, <1>14
  <2> DEFINE e == <<p>>
  <2>2. e \in Seq(Text) /\ Part(e, w, Len(file.wr)) /\ file'.wr = e
    BY <1>3, <1>4, <1>14
  <2> HIDE DEF e
  <2>3. Orderly(arrived, sq', e, p)
    BY <1>1, <1>3, <2>1, <2>2, EmitMoves
  <2> QED BY <1>6, <2>2, <2>3
<1> QED BY <1>7, <1>9, <1>10, <1>11, <1>12, <1>13, <1>14

LEMMA OutputKept ==
    ASSUME TypeOK, OutputOrderly, UNCHANGED <<arrived, printed>>,
           sq' \in {sq, << >>}, file'.wr \in {file.wr, << >>}
    PROVE  OutputOrderly'
<1>1. /\ file.wr \in Seq(Text) /\ sq \in Seq(Text) /\ arrived \in Seq(Text)
      /\ << >> \in Seq(Text)
  BY DEF TypeOK, FileState
<1>2. ASSUME NEW s \in {sq, << >>}, NEW b \in {file.wr, << >>}
      PROVE  Orderly(arrived, s, b, printed)
  <2>1. /\ Part(b, file.wr, 0) /\ b \in Seq(Text)
        /\ Part(s, sq, 0) /\ s \in Seq(Text)
    <3>1. 0 \in 0..Len(file.wr) /\ 0 \in 0..Len(sq)
      BY <1>1
    <3>2. /\ Part(file.wr, file.wr, 0) /\ Part(<< >>, file.wr, 0)
          /\ Part(sq, sq, 0) /\ Part(<< >>, sq, 0)
      BY <1>1, <3>1, WholeAndNothing
    <3> QED BY <1>1, <3>2
  <2>2. Orderly(arrived, sq, b, printed)
    BY <1>1, <2>1, OrderlyKeep DEF OutputOrderly
  <2>3. Orderly(arrived, b, sq, printed)
    BY <2>2, OrderlyEitherWay
  <2>4. Orderly(arrived, b, s, printed)
    BY <1>1, <2>1, <2>3, OrderlyKeep
  <2> QED BY <2>4, OrderlyEitherWay
<1> QED BY <1>2 DEF OutputOrderly

LEMMA OutputFlushed ==
    ASSUME TypeOK, OutputOrderly, Emit(Outgoing(file)), UNCHANGED <<arrived, printed>>,
           file'.wr = << >> \/ (file.stale /\ file'.wr = file.wr)
    PROVE  OutputOrderly'
<1>1. file.wr \in Seq(Text) /\ << >> \in Seq(Text)
  BY DEF TypeOK, FileState
<1> DEFINE b == file'.wr
<1>2. b \in Seq(Text) /\ (b = << >> \/ (file.stale /\ b = file.wr))
  BY <1>1
<1> HIDE DEF b
<1>3. Orderly(arrived, sq', b, printed)
  BY <1>2, FlushMoves
<1> QED BY <1>3 DEF OutputOrderly, b

LEMMA OutputStep ==
    ASSUME TypeOK, OutputOrderly, [Next]_vars
    PROVE  OutputOrderly'
<1>0. /\ file.wr \in Seq(Text) /\ sq \in Seq(Text) /\ arrived \in Seq(Text)
      /\ file \in FileState /\ printed \in Int
  BY DEF TypeOK, FileState
<1>1. /\ ToGet(file).wr = << >> /\ Drained(file).wr = IF file.stale THEN file.wr ELSE << >>
      /\ ToGet(file) \in FileState /\ Drained(file) \in FileState
  BY <1>0, FileOperations
<1>2. ASSUME NEW x, NEW back, GetByte(x, back), UNCHANGED <<arrived, printed>>
      PROVE  OutputOrderly'
  <2>1. file'.wr = << >>
    BY <1>1, <1>2 DEF GetByte, FileState
  <2> QED BY <1>2, <2>1, OutputFlushed DEF GetByte
<1>3. ASSUME GetEof, UNCHANGED <<arrived, printed>>
      PROVE  OutputOrderly'
  <2>1. CASE UNCHANGED <<file, sq, peer>>
    BY <1>3, <2>1 DEF OutputOrderly
  <2>2. CASE Emit(Outgoing(file)) /\ file' = Drained(file)
    BY <1>1, <1>3, <2>2, OutputFlushed
  <2>3. CASE Emit(Outgoing(file)) /\ file' = [ToGet(file) EXCEPT !.eof = @ \/ InputEnded]
    <3>1. file'.wr = << >>
      BY <1>1, <2>3 DEF FileState
    <3> QED BY <1>3, <2>3, <3>1, OutputFlushed
  <2> QED BY <1>3, <2>1, <2>2, <2>3 DEF GetEof
<1>4. CASE ReadSocket
  BY <1>2, <1>3, <1>4 DEF ReadSocket
<1>5. CASE UnreadSocket
  BY <1>2, <1>5 DEF UnreadSocket
<1>6. CASE EmptyConnectionByte
  BY <1>2, <1>3, <1>6 DEF EmptyConnectionByte
<1>7. CASE FlushConnection
  BY <1>1, <1>7, OutputFlushed DEF FlushConnection
<1>8. CASE SetNotBuffered
  <2>1. CASE Wedged \/ CutShort
    <3>1. file'.wr = Drained(file).wr
      BY <1>1, <1>8, <2>1 DEF SetNotBuffered, FileState
    <3> QED BY <1>1, <1>8, <3>1, OutputFlushed DEF SetNotBuffered
  <2>2. CASE ~(Wedged \/ CutShort)
    <3>1. file'.wr = << >>
      BY <1>1, <1>8, <2>2 DEF SetNotBuffered, FileState
    <3> QED BY <1>8, <3>1, OutputFlushed DEF SetNotBuffered
  <2> QED BY <2>1, <2>2
<1>9. CASE CloseConnection
  <2>1. CASE Emit(Outgoing(file))
    BY <1>1, <1>9, <2>1, OutputFlushed DEF CloseConnection
  <2>2. CASE sq' = << >>
    BY <1>1, <1>9, <2>2, OutputKept DEF CloseConnection
  <2> QED BY <1>9, <2>1, <2>2 DEF CloseConnection
<1>10. CASE SendtoFunction
  <2>1. printed + 1 \in Text
    BY <1>10 DEF SendtoFunction
  <2> DEFINE e == <<printed + 1>>
             w == file.wr \o e
  <2>2. /\ e \in Seq(Text) /\ w \in Seq(Text) /\ Len(file.wr) \in Nat
        /\ Orderly(arrived, sq, w, printed + 1)
        /\ Part(file.wr, w, 0) /\ Part(e, w, Len(file.wr))
    BY <2>1, PrintedGrows
  <2>3. Emit(e) /\ 0 + Len(file.wr) <= Len(file.wr)
    BY <1>10, <2>2 DEF SendtoFunction
  <2> HIDE DEF e, w
  <2>4. Orderly(arrived, sq', file.wr, printed + 1)
    BY <1>0, <2>2, <2>3, EmitMoves
  <2> QED BY <1>10, <2>4 DEF SendtoFunction, OutputOrderly
<1>11. CASE PeerReceives
  <2>1. Len(sq) \in 0..Len(sq) /\ Len(sq) > 0
    BY <1>0, <1>11 DEF PeerReceives
  <2> DEFINE h == <<Head(sq)>>
             t == Tail(sq)
  <2>2. h \in Seq(Text) /\ Part(h, sq, 0) /\ Len(h) = 1 /\ t \in Seq(Text) /\ Part(t, sq, 1)
    BY <1>0, <2>1, SomeParts
  <2>3. arrived' = arrived \o h /\ sq' = t
    <3>1. Head(sq) \in Text
      BY <1>0, <2>1
    <3>2. Append(arrived, Head(sq)) = arrived \o <<Head(sq)>>
      BY <1>0, <3>1
    <3> QED BY <1>11, <3>2 DEF PeerReceives
  <2> HIDE DEF h, t
  <2>4. Orderly(file.wr, arrived, sq, printed)
    BY OrderlyEitherWay DEF OutputOrderly
  <2>5. 0 + Len(h) <= 1
    BY <2>2
  <2>6. Orderly(file.wr, arrived \o h, t, printed)
    BY <1>0, <2>2, <2>4, <2>5, OrderlyMove
  <2>7. Orderly(arrived \o h, t, file.wr, printed)
    BY <2>6, OrderlyEitherWay
  <2> QED BY <1>11, <2>3, <2>7 DEF PeerReceives, OutputOrderly
<1>12. ASSUME NEW how \in {"finished", "gone", "reset"}, PeerLeaves(how)
       PROVE  OutputOrderly'
  BY <1>12, OutputKept DEF PeerLeaves
<1>13. ASSUME NEW m \in {"fully", "line"}, SetBuffered(m)
       PROVE  OutputOrderly'
  <2>1. file'.wr = file.wr
    BY <1>0, <1>13 DEF SetBuffered, FileState
  <2> QED BY <1>13, <2>1, OutputKept DEF SetBuffered
<1>14. CASE UNCHANGED <<file, sq, arrived, printed>>
  BY <1>14 DEF OutputOrderly
<1>15. ASSUME EmptyConnection \/ RecvfromFunction \/ ShutdownConnection \/ BrokenPipe
              \/ PeerSends \/ UNCHANGED vars \/ Over
              \/ PeerSendsMore \/ EmptyConnectionMore
       PROVE  UNCHANGED <<file, sq, arrived, printed>>
  BY <1>15 DEF EmptyConnection, RecvfromFunction, ShutdownConnection, BrokenPipe,
               PeerSends, Over, vars,
               PeerSendsMore, EmptyConnectionMore
<1>16. ASSUME \/ \E b \in BOOLEAN : FcntlStatusFlags(b)
              \/ \E us \in {"zero", "short", "long"} : SetTimeout(us)
       PROVE  UNCHANGED <<file, sq, arrived, printed>>
  BY <1>16 DEF FcntlStatusFlags, SetTimeout
<1> QED
  BY <1>4, <1>5, <1>6, <1>7, <1>8, <1>9, <1>10, <1>11, <1>12, <1>13, <1>14, <1>15, <1>16,
     OutputWritten DEF Next, Transfer, Control, Peer

-----------------------------------------------------------------------------
(* The state of the FILE, and the habit of keeping it unbuffered.          *)

LEMMA StaleStep ==
    ASSUME TypeOK, StaleWhilePutting, [Next]_vars
    PROVE  StaleWhilePutting'
<1>0. file \in FileState /\ (file.stale => file.putting)
  BY DEF TypeOK, StaleWhilePutting
<1>1. /\ ToPut(file) \in FileState /\ ToPut(file).putting
      /\ ToGet(file) \in FileState /\ ~ToGet(file).stale
      /\ Drained(file) \in FileState
      /\ Drained(file).stale = file.stale /\ Drained(file).putting = file.putting
  BY <1>0, FileOperations
<1>2. ASSUME NEW x, NEW back, GetByte(x, back)
      PROVE  StaleWhilePutting'
  <2>1. ~file'.stale
    BY <1>1, <1>2 DEF GetByte, FileState
  <2> QED BY <2>1 DEF StaleWhilePutting
<1>3. ASSUME GetEof
      PROVE  StaleWhilePutting'
  <2>1. CASE file' = [ToGet(file) EXCEPT !.eof = @ \/ InputEnded]
    <3>1. ~file'.stale
      BY <1>1, <2>1 DEF FileState
    <3> QED BY <3>1 DEF StaleWhilePutting
  <2>2. CASE file' = file \/ file' = Drained(file)
    BY <1>0, <1>1, <2>2 DEF StaleWhilePutting
  <2> QED BY <1>3, <2>1, <2>2 DEF GetEof
<1>4. CASE ReadSocket \/ UnreadSocket \/ EmptyConnectionByte
  BY <1>2, <1>3, <1>4 DEF ReadSocket, UnreadSocket, EmptyConnectionByte
<1>5. ASSUME NEW b \in BOOLEAN, WriteSocket(b)
      PROVE  StaleWhilePutting'
  <2> DEFINE f == ToPut(file)
             p == printed + 1
             all == [f EXCEPT !.wr = Append(@, p)]
             one == [f EXCEPT !.wr = <<p>>]
  <2>1. p \in Text /\ f.wr \in Seq(Text)
    BY <1>1, <1>5 DEF WriteSocket, FileState
  <2>2. Append(f.wr, p) \in Seq(Text)
    BY <2>1
  <2>3. all \in FileState /\ all.putting /\ one.putting
    BY <1>1, <2>2 DEF FileState
  <2>4. Drained(all).putting
    BY <2>3, FileOperations
  <2>5. file' \in {f, all, one, Drained(all)}
    <3> HIDE DEF f, p, all, one
    <3> QED BY <1>5 DEF WriteSocket, f, p, all, one
  <2>6. file'.putting
    <3> HIDE DEF f, all, one
    <3>1. f.putting
      BY <1>1 DEF f
    <3> QED BY <2>3, <2>4, <2>5, <3>1
  <2> QED BY <2>6 DEF StaleWhilePutting
<1>6. CASE FlushConnection \/ CloseConnection
  BY <1>0, <1>1, <1>6 DEF FlushConnection, CloseConnection, StaleWhilePutting
<1>7. CASE SetNotBuffered
  <2>1. CASE Wedged \/ CutShort
    <3>1. file'.stale = file.stale /\ file'.putting = file.putting
      BY <1>1, <1>7, <2>1 DEF SetNotBuffered, FileState
    <3> QED BY <1>0, <3>1 DEF StaleWhilePutting
  <2>2. CASE ~(Wedged \/ CutShort)
    <3>1. ~file'.stale
      BY <1>1, <1>7, <2>2 DEF SetNotBuffered, FileState
    <3> QED BY <3>1 DEF StaleWhilePutting
  <2> QED BY <2>1, <2>2
<1>8. ASSUME NEW m \in {"fully", "line"}, SetBuffered(m)
      PROVE  StaleWhilePutting'
  <2>1. file'.stale = file.stale /\ file'.putting = file.putting
    BY <1>0, <1>8 DEF SetBuffered, FileState
  <2> QED BY <1>0, <2>1 DEF StaleWhilePutting
<1>9. CASE UNCHANGED file
  BY <1>0, <1>9 DEF StaleWhilePutting
<1>10. ASSUME EmptyConnection \/ SendtoFunction \/ RecvfromFunction \/ ShutdownConnection
              \/ BrokenPipe \/ PeerSends \/ PeerReceives \/ UNCHANGED vars \/ Over
              \/ PeerSendsMore \/ EmptyConnectionMore
       PROVE  UNCHANGED file
  BY <1>10 DEF EmptyConnection, SendtoFunction, RecvfromFunction, ShutdownConnection,
               BrokenPipe, PeerSends, PeerReceives, Over, vars,
               PeerSendsMore, EmptyConnectionMore
<1>11. ASSUME \/ \E b \in BOOLEAN : FcntlStatusFlags(b)
              \/ \E us \in {"zero", "short", "long"} : SetTimeout(us)
              \/ \E how \in {"finished", "gone", "reset"} : PeerLeaves(how)
       PROVE  UNCHANGED file
  BY <1>11 DEF FcntlStatusFlags, SetTimeout, PeerLeaves
<1> QED
  BY <1>4, <1>5, <1>6, <1>7, <1>8, <1>9, <1>10, <1>11 DEF Next, Transfer, Control, Peer

LEMMA PromisedStep ==
    ASSUME TypeOK, promised <= printed, [Next]_vars
    PROVE  promised' <= printed'
<1>0. promised \in Int /\ printed \in Int
  BY DEF TypeOK
<1>1. CASE UNCHANGED <<promised, printed>>
  BY <1>1
<1>2. CASE UNCHANGED promised /\ printed' = printed + 1
  BY <1>0, <1>2
<1>3. CASE promised' = printed /\ printed' = printed
  BY <1>0, <1>3
<1>4. ASSUME Transfer
      PROVE  UNCHANGED promised /\ printed' \in {printed, printed + 1}
  BY <1>4 DEF Transfer, ReadSocket, UnreadSocket, WriteSocket, RecvfromFunction,
              SendtoFunction
<1>5. ASSUME Control
      PROVE  printed' = printed /\ promised' \in {promised, printed}
  BY <1>5 DEF Control, FlushConnection, EmptyConnection, SetNotBuffered, SetBuffered,
              FcntlStatusFlags, SetTimeout, ShutdownConnection, CloseConnection
<1>6. ASSUME EmptyConnectionByte \/ EmptyConnectionMore \/ BrokenPipe \/ Peer \/ Over \/ UNCHANGED vars
      PROVE  UNCHANGED <<promised, printed>>
  BY <1>6 DEF EmptyConnectionByte, BrokenPipe, Peer, PeerSends, PeerReceives, PeerLeaves,
              Over, vars,
               PeerSendsMore, EmptyConnectionMore
<1> QED BY <1>1, <1>2, <1>3, <1>4, <1>5, <1>6 DEF Next

\* An unbuffered FILE that holds nothing: nothing to flush, nothing wedged.
LEMMA NothingHeld ==
    ASSUME TypeOK, HoldsNothing, Unbuffered
    PROVE  /\ Outgoing(file) = << >> /\ ~Wedged /\ ~CutShort
           /\ Emit(Outgoing(file)) => UNCHANGED <<sq, peer>>
           /\ Drained(file) = file
           /\ ToPut(file).rd = << >> /\ ToPut(file).wr = << >> /\ ~ToPut(file).stale
           /\ ToPut(file).tiny = file.tiny /\ ToPut(file).mode = file.mode
           /\ ToGet(file).rd = << >> /\ ToGet(file).wr = << >> /\ ~ToGet(file).stale
           /\ ToGet(file).tiny = file.tiny /\ ToGet(file).mode = file.mode
<1>1. /\ file \in FileState /\ file.rd = << >> /\ file.wr = << >> /\ ~file.stale
      /\ ~options.nonblock
  BY DEF TypeOK, HoldsNothing
<1>2. Outgoing(file) = << >> /\ ~Wedged
  BY <1>1 DEF Outgoing, Wedged
<1>3. ~CutShort
  BY <1>1, <1>2 DEF CutShort, Taken
<1>4. Emit(Outgoing(file)) => UNCHANGED <<sq, peer>>
  BY <1>2 DEF Emit
<1>5. Drained(file) = file
  BY <1>1 DEF Drained, FileState
<1>6. /\ ToPut(file).rd = << >> /\ ToPut(file).wr = << >> /\ ~ToPut(file).stale
      /\ ToPut(file).tiny = file.tiny /\ ToPut(file).mode = file.mode
  BY <1>1 DEF ToPut, FileState
<1>7. /\ ToGet(file).rd = << >> /\ ToGet(file).wr = << >> /\ ~ToGet(file).stale
      /\ ToGet(file).tiny = file.tiny /\ ToGet(file).mode = file.mode
  BY <1>1, FileOperations
<1> QED BY <1>2, <1>3, <1>4, <1>5, <1>6, <1>7

\* ... and printing to it writes one piece through.
LEMMA WritesThrough ==
    ASSUME TypeOK, HoldsNothing, Unbuffered, NEW b \in BOOLEAN, WriteSocket(b)
    PROVE  /\ file' = ToPut(file) /\ file.tiny
           /\ ~Broken
           /\ sq' = IF peer = "gone" THEN sq ELSE sq \o <<printed + 1>>
           /\ peer' = IF peer = "gone" THEN "reset" ELSE peer
<1>1. file.tiny /\ ToPut(file).tiny = file.tiny /\ ~ToPut(file).stale
  BY NothingHeld DEF WriteSocket, Ready
<1>2. file' = ToPut(file) /\ Emit(<<printed + 1>>)
  BY <1>1, Zenon DEF WriteSocket
<1>3. <<printed + 1>> # << >>
  <2>1. Len(<<printed + 1>>) = 1 /\ Len(<< >>) = 0
    OBVIOUS
  <2> QED BY <2>1
<1>4. Taken(<<printed + 1>>) = <<printed + 1>>
  BY DEF HoldsNothing, Taken
<1> QED BY <1>1, <1>2, <1>3, <1>4 DEF Emit

LEMMA TakesOne ==
    ASSUME TypeOK, HoldsNothing, Unbuffered, file.tiny, NEW x \in Fetch, GetByte(x, << >>)
    PROVE  /\ file' = ToGet(file) /\ UNCHANGED <<sq, peer>>
           /\ rq # << >> /\ x.byte = Head(rq) /\ rq' = Tail(rq)
<1>1. file \in FileState /\ rq \in Seq(Byte) /\ file.rd = << >>
  BY DEF TypeOK, HoldsNothing
<1>2. PICK n \in 1..Len(rq) :
        /\ rq # << >> /\ x.byte = Head(rq)
        /\ x.rd = SubSeq(rq, 2, n) /\ x.rq = SubSeq(rq, n + 1, Len(rq)) /\ n = 1
  BY <1>1, FetchTakesFirst
<1>3. x.rd = << >> /\ x.rq = Tail(rq)
  BY <1>1, <1>2
<1>4. ToGet(file) \in FileState /\ ToGet(file).rd = << >>
  BY <1>1, FileOperations
<1>5. file' = ToGet(file)
  <2>1. << >> \o x.rd = << >>
    BY <1>3
  <2> QED BY <1>4, <2>1 DEF GetByte, FileState
<1>6. UNCHANGED <<sq, peer>>
  BY NothingHeld DEF GetByte
<1> QED BY <1>2, <1>3, <1>5, <1>6 DEF GetByte

LEMMA EofWhenUnbuffered ==
    ASSUME TypeOK, HoldsNothing, Unbuffered, GetEof
    PROVE  /\ UNCHANGED <<rq, sq, peer>>
           /\ file'.rd = << >> /\ file'.wr = << >> /\ ~file'.stale
           /\ file'.tiny = file.tiny /\ file'.mode = file.mode
<1>1. ToGet(file) \in FileState
  BY FileOperations DEF TypeOK
<1>2. file' = [ToGet(file) EXCEPT !.eof = @ \/ InputEnded] /\ UNCHANGED <<rq, sq, peer>>
  BY NothingHeld DEF GetEof
<1>3. /\ file'.rd = ToGet(file).rd /\ file'.wr = ToGet(file).wr
      /\ file'.stale = ToGet(file).stale
      /\ file'.tiny = ToGet(file).tiny /\ file'.mode = ToGet(file).mode
  BY <1>1, <1>2 DEF FileState
<1> QED BY <1>2, <1>3, NothingHeld

LEMMA HoldsStep ==
    ASSUME TypeOK, HoldsNothing, [Next]_vars
    PROVE  HoldsNothing'
<1> SUFFICES ASSUME Unbuffered'
             PROVE  /\ file'.rd = << >> /\ file'.wr = << >> /\ ~file'.stale
                    /\ ~options'.nonblock
                    /\ file'.tiny => file'.mode = "not"
                    /\ ~file'.tiny => printed' = 0 /\ doing' \notin {"emptying", "flooded"}
  BY DEF HoldsNothing
<1>0. Unbuffered
  BY DEF Next, vars, Unbuffered
<1>1. /\ file \in FileState
      /\ file.rd = << >> /\ file.wr = << >> /\ ~file.stale /\ ~options.nonblock
      /\ file.tiny => file.mode = "not"
      /\ ~file.tiny => printed = 0 /\ doing \notin {"emptying", "flooded"}
  BY <1>0 DEF TypeOK, HoldsNothing
<1>2. /\ ToGet(file).rd = << >> /\ ToGet(file).wr = << >> /\ ~ToGet(file).stale
      /\ ToGet(file).tiny = file.tiny /\ ToGet(file).mode = file.mode
      /\ ToGet(file) \in FileState /\ Drained(file) = file /\ ~Wedged /\ ~CutShort
  BY <1>0, <1>1, NothingHeld, FileOperations
<1>3. CASE ReadSocket
  <2>1. file.tiny
    BY <1>0, <1>3 DEF ReadSocket, Ready
  <2>2. /\ file'.rd = << >> /\ file'.wr = << >> /\ ~file'.stale
        /\ file'.tiny = file.tiny /\ file'.mode = file.mode
    BY <1>0, <1>2, <1>3, <2>1, TakesOne, EofWhenUnbuffered DEF ReadSocket
  <2> QED BY <1>1, <1>3, <2>1, <2>2 DEF ReadSocket
<1>4. CASE EmptyConnectionByte
  <2>1. file.tiny
    BY <1>1, <1>4 DEF EmptyConnectionByte
  <2>2. /\ file'.rd = << >> /\ file'.wr = << >> /\ ~file'.stale
        /\ file'.tiny = file.tiny /\ file'.mode = file.mode
    BY <1>0, <1>2, <1>4, <2>1, TakesOne, EofWhenUnbuffered DEF EmptyConnectionByte
  <2> QED BY <1>1, <1>4, <2>1, <2>2 DEF EmptyConnectionByte
<1>5. ASSUME NEW b \in BOOLEAN, WriteSocket(b)
      PROVE  /\ file'.rd = << >> /\ file'.wr = << >> /\ ~file'.stale
             /\ file'.tiny /\ file'.mode = "not" /\ options' = options
  <2>1. file' = ToPut(file) /\ file.tiny
    BY <1>0, <1>5, WritesThrough
  <2>2. options' = options
    BY <1>5 DEF WriteSocket
  <2> QED BY <1>0, <1>1, <2>1, <2>2, NothingHeld
<1>6. CASE SetNotBuffered
  <2>1. file' = [ToGet(file) EXCEPT !.mode = "not", !.tiny = TRUE, !.rd = << >>]
    BY <1>2, <1>6 DEF SetNotBuffered
  <2>2. /\ file'.rd = << >> /\ file'.wr = << >> /\ ~file'.stale
        /\ file'.tiny /\ file'.mode = "not"
    BY <1>2, <2>1 DEF FileState
  <2> QED BY <1>1, <1>6, <2>2 DEF SetNotBuffered
<1>7. CASE EmptyConnection
  BY <1>0, <1>1, <1>7 DEF EmptyConnection, Ready
<1>8. CASE FlushConnection \/ CloseConnection
  BY <1>1, <1>2, <1>8 DEF FlushConnection, CloseConnection
<1>9. ASSUME NEW us \in {"zero", "short", "long"}, SetTimeout(us)
      PROVE  options'.nonblock = options.nonblock /\ UNCHANGED <<file, printed, doing>>
  BY <1>9 DEF SetTimeout, TypeOK, Options
<1>10. ASSUME \/ UnreadSocket \/ RecvfromFunction \/ SendtoFunction
              \/ \E b \in BOOLEAN : FcntlStatusFlags(b)
              \/ \E m \in {"fully", "line"} : SetBuffered(m)
       PROVE  FALSE
  BY <1>0, <1>10 DEF UnreadSocket, RecvfromFunction, SendtoFunction, FcntlStatusFlags,
                     SetBuffered, Ready
<1>11. ASSUME \/ ShutdownConnection \/ BrokenPipe
              \/ PeerSends \/ PeerReceives \/ UNCHANGED vars \/ Over
              \/ PeerSendsMore \/ EmptyConnectionMore
              \/ \E how \in {"finished", "gone", "reset"} : PeerLeaves(how)
       PROVE  /\ UNCHANGED <<file, options, printed>>
              /\ doing' \notin {"emptying", "flooded"} \/ doing \in {"emptying", "flooded"}
  BY <1>11 DEF ShutdownConnection, BrokenPipe, PeerSends, PeerReceives, Over, vars,
               PeerSendsMore, EmptyConnectionMore,
               PeerLeaves
<1> QED
  BY <1>1, <1>3, <1>4, <1>5, <1>6, <1>7, <1>8, <1>9, <1>10, <1>11
     DEF Next, Transfer, Control, Peer

Said(s, n) == Len(s) = n /\ \A i \in 1..n : s[i] = i

LEMMA SaidMore ==
    ASSUME NEW s \in Seq(Text), NEW t \in Seq(Text), NEW n \in Nat, Said(s \o t, n), n + 1 \in Text
    PROVE  Said(s \o (t \o <<n + 1>>), n + 1)
<1> DEFINE e == <<n + 1>>
<1>1. e \in Seq(Text) /\ Len(e) = 1 /\ e[1] = n + 1
  OBVIOUS
<1> HIDE DEF e
<1>2. s \o (t \o e) = (s \o t) \o e
  BY SMTT(60), <1>1
<1> DEFINE w == s \o t
<1>3. w \in Seq(Text) /\ Said(w, n)
  OBVIOUS
<1> HIDE DEF w
<1>4. Len(w) + Len(e) = n + 1
  BY <1>1, <1>3 DEF Said
<1>5. /\ Len(w \o e) = n + 1
      /\ \A i \in 1..(n + 1) : (w \o e)[i] = IF i <= n THEN w[i] ELSE e[i - n]
  <2>1. /\ Len(w \o e) = Len(w) + Len(e)
        /\ \A i \in 1..(Len(w) + Len(e)) :
             (w \o e)[i] = IF i <= Len(w) THEN w[i] ELSE e[i - Len(w)]
    BY <1>1, <1>3, ConcatProperties
  <2>2. Len(w) = n
    BY <1>3 DEF Said
  <2> QED BY <1>4, <2>1, <2>2
<1>6. ASSUME NEW i \in 1..(n + 1)
      PROVE  (w \o e)[i] = i
  <2>1. CASE i <= n
    BY <1>3, <1>5, <2>1 DEF Said
  <2>2. CASE i = n + 1
    <3>1. (w \o e)[i] = e[i - n] /\ i - n = 1
      BY <1>5, <2>2
    <3> QED BY <1>1, <2>2, <3>1
  <2>3. i <= n \/ i = n + 1
    OBVIOUS
  <2> QED BY <2>1, <2>2, <2>3
<1>7. Said(w \o e, n + 1)
  BY <1>5, <1>6 DEF Said
<1> QED BY <1>2, <1>7 DEF e, w

LEMMA HeadMoves ==
    ASSUME NEW S, NEW a \in Seq(S), NEW s \in Seq(S), s # << >>
    PROVE  Append(a, Head(s)) \o Tail(s) = a \o s
<1> DEFINE h == <<Head(s)>>
           t == Tail(s)
<1>1. Len(s) \in 0..Len(s) /\ Len(s) > 0
  OBVIOUS
<1>2. h \in Seq(S) /\ t \in Seq(S) /\ h \o t = s
  BY <1>1, SomeParts
<1>3. Append(a, Head(s)) = a \o h
  BY <1>1
<1> HIDE DEF h, t
<1>4. (a \o h) \o t = a \o (h \o t)
  <2>1. a \in Seq(S) /\ h \in Seq(S) /\ t \in Seq(S)
    BY <1>2
  <2> QED BY <2>1
<1>5. Append(a, Head(s)) \o t = a \o s
  BY <1>2, <1>3, <1>4
<1> QED BY <1>5 DEF t

LEMMA SaidStep ==
    ASSUME TypeOK, HoldsNothing, SaidInOrder, [Next]_vars
    PROVE  SaidInOrder'
<1> SUFFICES ASSUME Unbuffered', peer' \in {"open", "finished"}, doing' # "closed"
             PROVE  Said(arrived' \o sq', printed')
  BY DEF SaidInOrder, Said
<1>0. Unbuffered
  BY DEF Next, vars, Unbuffered
<1>1. /\ arrived \in Seq(Text) /\ sq \in Seq(Text) /\ printed \in Nat
      /\ file \in FileState
  BY DEF TypeOK
<1>2. ASSUME peer' = peer, doing # "closed"
      PROVE  Said(arrived \o sq, printed)
  BY <1>0, <1>2 DEF SaidInOrder, Said
<1>3. ASSUME UNCHANGED <<arrived, sq, printed, peer>>, doing # "closed"
      PROVE  Said(arrived' \o sq', printed')
  BY <1>2, <1>3
<1>4. CASE ReadSocket
  <2>1. file.tiny
    BY <1>0, <1>4 DEF ReadSocket, Ready
  <2>2. UNCHANGED <<sq, peer>>
    BY <1>0, <1>4, <2>1, TakesOne, EofWhenUnbuffered DEF ReadSocket
  <2> QED BY <1>3, <1>4, <2>2 DEF ReadSocket, Ready
<1>5. CASE EmptyConnectionByte
  <2>1. file.tiny
    BY <1>0, <1>5 DEF EmptyConnectionByte, HoldsNothing
  <2>2. UNCHANGED <<sq, peer>>
    BY <1>0, <1>5, <2>1, TakesOne, EofWhenUnbuffered DEF EmptyConnectionByte
  <2> QED BY <1>3, <1>5, <2>2 DEF EmptyConnectionByte
<1>6. ASSUME NEW b \in BOOLEAN, WriteSocket(b)
      PROVE  Said(arrived' \o sq', printed')
  <2>1. /\ sq' = IF peer = "gone" THEN sq ELSE sq \o <<printed + 1>>
        /\ peer' = IF peer = "gone" THEN "reset" ELSE peer
    BY <1>0, <1>6, WritesThrough
  <2>2. peer' = peer /\ sq' = sq \o <<printed + 1>>
    BY <2>1
  <2>3. /\ doing # "closed" /\ printed + 1 \in Text /\ printed' = printed + 1
        /\ arrived' = arrived
    BY <1>6 DEF WriteSocket, Ready
  <2>4. Said(arrived \o (sq \o <<printed + 1>>), printed + 1)
    BY <1>1, <1>2, <2>2, <2>3, SaidMore
  <2> QED BY <2>2, <2>3, <2>4
<1>7. CASE FlushConnection \/ SetNotBuffered
  BY <1>0, <1>3, <1>7, NothingHeld DEF FlushConnection, SetNotBuffered, Ready
<1>8. CASE PeerReceives
  <2>1. sq # << >> /\ sq \in Seq(Text) /\ Len(sq) \in 0..Len(sq) /\ Len(sq) > 0
    BY <1>1, <1>8 DEF PeerReceives
  <2>2. Append(arrived, Head(sq)) \o Tail(sq) = arrived \o sq
    BY <1>1, <2>1, HeadMoves
  <2> QED BY <1>2, <1>8, <2>2 DEF PeerReceives
<1>9. ASSUME NEW how \in {"finished", "gone", "reset"}, PeerLeaves(how)
      PROVE  Said(arrived' \o sq', printed')
  <2>1. how = "finished" /\ UNCHANGED <<arrived, sq, printed, doing>> /\ peer = "open"
    BY <1>9 DEF PeerLeaves
  <2> QED BY <1>0, <2>1 DEF SaidInOrder, Said
<1>10. CASE CloseConnection
  BY <1>10 DEF CloseConnection
<1>11. ASSUME \/ UnreadSocket \/ RecvfromFunction \/ SendtoFunction
              \/ \E b \in BOOLEAN : FcntlStatusFlags(b)
       PROVE  FALSE
  BY <1>0, <1>11 DEF UnreadSocket, RecvfromFunction, SendtoFunction, FcntlStatusFlags
<1>12. ASSUME \/ EmptyConnection \/ ShutdownConnection \/ BrokenPipe
              \/ PeerSends \/ UNCHANGED vars \/ Over
              \/ PeerSendsMore \/ EmptyConnectionMore
              \/ \E m \in {"fully", "line"} : SetBuffered(m)
              \/ \E us \in {"zero", "short", "long"} : SetTimeout(us)
       PROVE  /\ UNCHANGED <<arrived, sq, printed, peer>>
              /\ doing # "closed"
  BY <1>12 DEF EmptyConnection, ShutdownConnection, BrokenPipe, PeerSends, Over, vars,
               PeerSendsMore, EmptyConnectionMore,
               SetBuffered, SetTimeout, Ready
<1> QED
  BY <1>3, <1>4, <1>5, <1>6, <1>7, <1>8, <1>9, <1>10, <1>11, <1>12
     DEF Next, Transfer, Control, Peer

-----------------------------------------------------------------------------
(* The theorems.                                                           *)

LEMMA OrderlyIsIInv ==
    ASSUME TypeOK
    PROVE  NothingTwice /\ KnownBytes /\ KnownTexts <=> InputOrderly /\ OutputOrderly
<1>1. /\ got \in Seq(Byte) /\ file.rd \in Seq(Byte) /\ rq \in Seq(Byte)
      /\ arrived \in Seq(Text) /\ sq \in Seq(Text) /\ file.wr \in Seq(Text)
  BY DEF TypeOK, FileState
<1>2. Orderly(got, file.rd, rq, sent) <=>
        /\ IsInjective(got \o file.rd \o rq)
        /\ \A s \in {got, file.rd, rq} : \A i \in DOMAIN s : s[i] <= sent
  <2> DEFINE r == file.rd
  <2>1. got \in Seq(Byte) /\ r \in Seq(Byte) /\ rq \in Seq(Byte)
    BY <1>1
  <2> HIDE DEF r
  <2>2. Orderly(got, r, rq, sent) <=>
          /\ IsInjective(got \o r \o rq)
          /\ \A s \in {got, r, rq} : \A i \in DOMAIN s : s[i] <= sent
    BY <2>1, OrderlyMeans
  <2> QED BY <2>2 DEF r
<1>3. Orderly(arrived, sq, file.wr, printed) <=>
        /\ IsInjective(arrived \o sq \o file.wr)
        /\ \A s \in {arrived, sq, file.wr} : \A i \in DOMAIN s : s[i] <= printed
  <2> DEFINE w == file.wr
  <2>1. arrived \in Seq(Text) /\ sq \in Seq(Text) /\ w \in Seq(Text)
    BY <1>1
  <2> HIDE DEF w
  <2>2. Orderly(arrived, sq, w, printed) <=>
          /\ IsInjective(arrived \o sq \o w)
          /\ \A s \in {arrived, sq, w} : \A i \in DOMAIN s : s[i] <= printed
    BY <2>1, OrderlyMeans
  <2> QED BY <2>2 DEF w
<1> QED BY <1>2, <1>3 DEF NothingTwice, KnownBytes, KnownTexts, InputOrderly, OutputOrderly

LEMMA InitIInv == Init => IInv
<1> SUFFICES ASSUME Init PROVE IInv
  OBVIOUS
<1>1. << >> \in Seq(Byte) /\ << >> \in Seq(Text)
  OBVIOUS
<1>2. TypeOK
  <2>1. file \in FileState
    BY <1>1 DEF Init, FileState
  <2>2. options \in Options
    BY DEF Init, Options
  <2>3. rq \in Seq(Byte) /\ got \in Seq(Byte) /\ sq \in Seq(Text) /\ arrived \in Seq(Text)
    BY <1>1 DEF Init
  <2>4. /\ sent \in 0..InMax /\ printed \in 0..OutMax /\ promised \in 0..OutMax
    BY BoundsAssumption DEF Init
  <2>5. /\ peer \in {"open", "finished", "gone", "reset"} /\ shut \in BOOLEAN
        /\ doing \in {"script", "emptying", "flooded", "closed", "killed"} /\ habit \in Habit
    BY DEF Init
  <2> QED BY <2>1, <2>2, <2>3, <2>4, <2>5 DEF TypeOK
<1>3. Orderly(<< >>, << >>, << >>, 0)
  <2>1. \A s \in {<< >>} : Distinct(s) /\ Apart(s, s) /\ Below(s, 0)
    BY <1>1, NothingShared
  <2> QED BY <2>1 DEF Orderly, Separate
<1>4. InputOrderly /\ OutputOrderly
  BY <1>3 DEF Init, InputOrderly, OutputOrderly
<1>5. StaleWhilePutting /\ HoldsNothing /\ promised <= printed
  BY DEF Init, StaleWhilePutting, HoldsNothing
<1>6. SaidInOrder
  <2>1. Len(<< >> \o << >>) = 0
    OBVIOUS
  <2> QED BY <2>1 DEF Init, SaidInOrder
<1> QED BY <1>2, <1>4, <1>5, <1>6, OrderlyIsIInv DEF IInv

LEMMA NextIInv == IInv /\ [Next]_vars => IInv'
<1> SUFFICES ASSUME IInv, [Next]_vars PROVE IInv'
  OBVIOUS
<1>1. TypeOK /\ InputOrderly /\ OutputOrderly
  BY OrderlyIsIInv DEF IInv
<1>2. TypeOK'
  BY <1>1, TypeStep
<1>3. InputOrderly' /\ OutputOrderly'
  BY <1>1, InputStep, OutputStep
<1>4. (NothingTwice /\ KnownBytes /\ KnownTexts)'
  <2>1. /\ got' \in Seq(Byte) /\ file'.rd \in Seq(Byte) /\ rq' \in Seq(Byte)
        /\ arrived' \in Seq(Text) /\ sq' \in Seq(Text) /\ file'.wr \in Seq(Text)
    BY <1>2 DEF TypeOK, FileState
  <2>2. /\ IsInjective(got' \o file'.rd \o rq')
        /\ \A s \in {got', file'.rd, rq'} : \A i \in DOMAIN s : s[i] <= sent'
    BY <1>3, <2>1, OrderlyMeans DEF InputOrderly
  <2>3. /\ IsInjective(arrived' \o sq' \o file'.wr)
        /\ \A s \in {arrived', sq', file'.wr} : \A i \in DOMAIN s : s[i] <= printed'
    BY <1>3, <2>1, OrderlyMeans DEF OutputOrderly
  <2> QED BY <2>2, <2>3 DEF NothingTwice, KnownBytes, KnownTexts
<1>5. StaleWhilePutting' /\ HoldsNothing' /\ SaidInOrder' /\ promised' <= printed'
  BY <1>1, StaleStep, HoldsStep, SaidStep, PromisedStep DEF IInv
<1> QED BY <1>2, <1>4, <1>5 DEF IInv

\* Whatever the order of reads, writes, pushed back characters, buffering calls
\* and calls round the stream, no byte is read twice and no text arrives twice;
\* and a script that keeps the stream unbuffered loses nothing in it.
THEOREM Invariance == Spec => []IInv
BY InitIInv, NextIInv, PTL DEF Spec

\* No call leaves the FILE, the kernel's queues or the script's counters out of
\* their ranges.
THEOREM TypeCorrect == Spec => []TypeOK
<1>1. IInv => TypeOK
  BY DEF IInv
<1> QED BY <1>1, Invariance, PTL

\* Where a script calls set-not-buffered first: what flush-connection vouched
\* for has left the process, and poll answers FALSE only if a read would find
\* nothing.
THEOREM UnbufferedIsHonest == Spec => []UnbufferedTellsTheTruth
<1>1. ASSUME IInv PROVE UnbufferedTellsTheTruth
  <2>1. PollSeesInput
    BY <1>1 DEF IInv, HoldsNothing, PollSeesInput
  <2>2. ASSUME Unbuffered, ~InputEnded, doing # "closed", NEW p \in 1..promised
        PROVE  \E i \in DOMAIN (arrived \o sq) : (arrived \o sq)[i] = p
    <3>1. Said(arrived \o sq, printed)
      BY <1>1, <2>2 DEF IInv, SaidInOrder, InputEnded, Said
    <3>2. p \in 1..printed
      BY <1>1, <2>2 DEF IInv, TypeOK
    <3>3. arrived \o sq \in Seq(Text)
      BY <1>1 DEF IInv, TypeOK
    <3> DEFINE w == arrived \o sq
    <3>4. w \in Seq(Text) /\ Said(w, printed)
      BY <3>1, <3>3
    <3> HIDE DEF w
    <3>5. p \in DOMAIN w /\ w[p] = p
      BY <3>2, <3>4 DEF Said
    <3> QED BY <3>5 DEF w
  <2> QED BY <2>1, <2>2 DEF UnbufferedTellsTheTruth, UnbufferedFlushKeepsPromise,
                            FlushKeepsPromise
<1> QED BY <1>1, Invariance, PTL

\* Text printed over unread input is lost for good: no flush, read, buffering
\* call or close gets it out, and none takes it back.
THEOREM StaleTextStays == Spec => WedgedForGood
<1>1. ASSUME TypeOK, StaleWhilePutting, [Next]_vars, Wedged
      PROVE  Wedged'
  <2>0. /\ file \in FileState /\ file.stale /\ file.putting /\ file.wr # << >>
        /\ file.wr \in Seq(Text)
    BY <1>1 DEF TypeOK, FileState, StaleWhilePutting, Wedged
  <2>1. /\ Outgoing(file) = << >> /\ Drained(file) = file /\ ToPut(file) = file
    BY <2>0 DEF Outgoing, Drained, ToPut
  <2>2. ~CutShort
    BY <1>1, <2>1, BoundsAssumption DEF CutShort, Taken, Room, TypeOK
  <2>3. CASE UNCHANGED file
    BY <1>1, <2>3 DEF Wedged
  <2>4. ASSUME GetEof
        PROVE  UNCHANGED file
    BY <1>1, <2>2, <2>4 DEF GetEof
  <2>5. ASSUME NEW x, NEW back, GetByte(x, back)
        PROVE  FALSE
    BY <1>1, <2>5 DEF GetByte
  <2>6. ASSUME NEW b \in BOOLEAN, WriteSocket(b)
        PROVE  Wedged'
    <3> DEFINE p == printed + 1
               all == [file EXCEPT !.wr = Append(@, p)]
    <3>1. p \in Text
      BY <2>6 DEF WriteSocket
    <3>2. Append(file.wr, p) \in Seq(Text) /\ Append(file.wr, p) # << >>
      BY <2>0, <3>1
    <3>3. all \in FileState /\ all.stale /\ all.wr # << >>
      BY <2>0, <3>2 DEF FileState
    <3>4. Drained(all) = all
      BY <3>3 DEF Drained
    <3>5. file' \in {file, all, Drained(all)}
      <4> HIDE DEF p, all
      <4> QED BY <2>0, <2>1, <2>6 DEF WriteSocket, p, all
    <3> QED
      <4> HIDE DEF all
      <4> QED BY <2>0, <3>3, <3>4, <3>5 DEF Wedged
  <2>7. CASE FlushConnection \/ CloseConnection
    BY <2>1, <2>3, <2>7 DEF FlushConnection, CloseConnection
  <2>8. CASE SetNotBuffered
    <3>1. file' = [file EXCEPT !.mode = "not"]
      BY <1>1, <2>1, <2>8 DEF SetNotBuffered
    <3> QED BY <2>0, <3>1 DEF FileState, Wedged
  <2>9. ASSUME NEW m \in {"fully", "line"}, SetBuffered(m)
        PROVE  Wedged'
    BY <2>0, <2>9 DEF SetBuffered, FileState, Wedged
  <2>10. CASE ReadSocket \/ UnreadSocket \/ EmptyConnectionByte
    BY <2>3, <2>4, <2>5, <2>10 DEF ReadSocket, UnreadSocket, EmptyConnectionByte
  <2>11. ASSUME EmptyConnection \/ SendtoFunction \/ RecvfromFunction \/ ShutdownConnection
                \/ BrokenPipe \/ PeerSends \/ PeerReceives \/ UNCHANGED vars \/ Over
                \/ PeerSendsMore \/ EmptyConnectionMore
         PROVE  UNCHANGED file
    BY <2>11 DEF EmptyConnection, SendtoFunction, RecvfromFunction, ShutdownConnection,
                 BrokenPipe, PeerSends, PeerReceives, Over, vars,
               PeerSendsMore, EmptyConnectionMore
  <2>12. ASSUME \/ \E b \in BOOLEAN : FcntlStatusFlags(b)
                \/ \E us \in {"zero", "short", "long"} : SetTimeout(us)
                \/ \E how \in {"finished", "gone", "reset"} : PeerLeaves(how)
         PROVE  UNCHANGED file
    BY <2>12 DEF FcntlStatusFlags, SetTimeout, PeerLeaves
  <2> QED
    BY <1>1, <2>3, <2>6, <2>7, <2>8, <2>9, <2>10, <2>11, <2>12
       DEF Next, Transfer, Control, Peer
<1>2. IInv => TypeOK /\ StaleWhilePutting
  BY DEF IInv
<1>3. IInv /\ [Next]_vars => [Wedged => Wedged']_vars
  BY <1>1, <1>2
<1> QED BY <1>3, Invariance, PTL DEF Spec, WedgedForGood

-----------------------------------------------------------------------------
(* The refinement.                                                         *)

ThereNow == peer \in {"open", "finished"} /\ doing # "closed"

\* What a step of an unbuffered stream is in the conversation.
Converses ==
    \/ UNCHANGED <<rq, got, sq, arrived, printed>> /\ ThereNow' = ThereNow
    \/ /\ \E b \in Byte : rq' = Append(rq, b)
       /\ UNCHANGED <<got, sq, arrived, printed>> /\ ThereNow' = ThereNow
    \/ /\ rq # << >> /\ rq' = Tail(rq) /\ got' \in {got, Append(got, Head(rq))}
       /\ UNCHANGED <<sq, arrived, printed>> /\ ThereNow' = ThereNow
    \/ /\ printed' = printed + 1 /\ ThereNow' = ThereNow
       /\ IF ThereNow THEN sq' = Append(sq, printed + 1) ELSE UNCHANGED sq
       /\ UNCHANGED <<rq, got, arrived>>
    \/ /\ sq # << >> /\ arrived' = Append(arrived, Head(sq)) /\ sq' = Tail(sq)
       /\ UNCHANGED <<rq, got, printed>> /\ ThereNow' = ThereNow
    \/ /\ ThereNow' = FALSE /\ sq' \in {sq, << >>}
       /\ UNCHANGED <<rq, got, arrived, printed>>

LEMMA StepConverses ==
    ASSUME TypeOK, HoldsNothing, Unbuffered, [Next]_vars
    PROVE  Converses
<1>1. /\ rq \in Seq(Byte) /\ got \in Seq(Byte) /\ sq \in Seq(Text) /\ arrived \in Seq(Text)
      /\ file \in FileState /\ ThereNow \in BOOLEAN
  BY DEF TypeOK, ThereNow
<1>2. ASSUME NEW x \in Fetch, GetByte(x, << >>), file.tiny,
             got' \in {got, Append(got, x.byte)}, UNCHANGED <<arrived, printed, doing>>
      PROVE  Converses
  <2>1. /\ UNCHANGED <<sq, peer>> /\ rq # << >> /\ x.byte = Head(rq) /\ rq' = Tail(rq)
    BY <1>2, TakesOne
  <2>2. ThereNow' = ThereNow
    BY <1>2, <2>1 DEF ThereNow
  <2>3. got' \in {got, Append(got, Head(rq))}
    BY <1>2, <2>1
  <2> QED BY <1>2, <2>1, <2>2, <2>3 DEF Converses
<1>3. ASSUME GetEof, UNCHANGED <<got, arrived, printed>>,
             doing' = doing \/ (doing = "emptying" /\ doing' = "script")
      PROVE  Converses
  <2>1. UNCHANGED <<rq, sq, peer>>
    BY <1>3, EofWhenUnbuffered
  <2>2. ThereNow' = ThereNow
    BY <1>3, <2>1 DEF ThereNow
  <2> QED BY <1>3, <2>1, <2>2 DEF Converses
<1>4. CASE ReadSocket
  <2>1. file.tiny
    BY <1>4 DEF ReadSocket, Ready
  <2> QED BY <1>2, <1>3, <1>4, <2>1 DEF ReadSocket
<1>5. CASE EmptyConnectionByte
  <2>1. file.tiny
    BY <1>5 DEF EmptyConnectionByte, HoldsNothing
  <2> QED BY <1>2, <1>3, <1>5, <2>1 DEF EmptyConnectionByte
<1>6. ASSUME NEW b \in BOOLEAN, WriteSocket(b)
      PROVE  Converses
  <2>1. /\ ~Broken
        /\ sq' = IF peer = "gone" THEN sq ELSE sq \o <<printed + 1>>
        /\ peer' = IF peer = "gone" THEN "reset" ELSE peer
    BY <1>6, WritesThrough
  <2>2. /\ doing = "script" /\ printed + 1 \in Text
        /\ printed' = printed + 1 /\ UNCHANGED <<rq, got, arrived, doing>>
    BY <1>6 DEF WriteSocket, Ready
  <2>3. peer \in {"open", "finished", "gone"}
    BY <2>1 DEF Broken, TypeOK
  <2>4. CASE peer = "gone"
    <3>1. ThereNow' = ThereNow /\ ~ThereNow /\ sq' = sq
      BY <2>1, <2>2, <2>4 DEF ThereNow
    <3> QED BY <2>2, <3>1 DEF Converses
  <2>5. CASE peer # "gone"
    <3>1. ThereNow' = ThereNow /\ ThereNow
      BY <2>1, <2>2, <2>3, <2>5 DEF ThereNow
    <3>2. sq \o <<printed + 1>> = Append(sq, printed + 1)
      BY <1>1, <2>2
    <3>3. sq' = Append(sq, printed + 1)
      BY <2>1, <2>5, <3>2
    <3> QED BY <2>2, <3>1, <3>3 DEF Converses
  <2> QED BY <2>4, <2>5
<1>7. CASE FlushConnection \/ SetNotBuffered
  <2>1. UNCHANGED <<rq, got, sq, arrived, printed, peer, doing>>
    BY <1>7, NothingHeld DEF FlushConnection, SetNotBuffered
  <2> QED BY <2>1 DEF Converses, ThereNow
<1>8. CASE EmptyConnection
  <2>1. UNCHANGED <<rq, got, sq, arrived, printed>> /\ ThereNow' = ThereNow
    BY <1>8 DEF EmptyConnection, Ready, ThereNow
  <2> QED BY <2>1 DEF Converses
<1>9. CASE CloseConnection
  <2>1. sq' \in {sq, << >>} /\ UNCHANGED <<rq, got, arrived, printed>> /\ ThereNow' = FALSE
    BY <1>9, NothingHeld DEF CloseConnection, ThereNow
  <2> QED BY <2>1 DEF Converses
<1>10. CASE PeerSends
  <2>1. sent + 1 \in Byte
    BY <1>10, BoundsAssumption DEF PeerSends, TypeOK, Byte
  <2>2. ThereNow' = ThereNow
    BY <1>10 DEF PeerSends, ThereNow
  <2>3. /\ rq' = Append(rq, sent + 1) /\ UNCHANGED <<got, sq, arrived, printed>>
    BY <1>10 DEF PeerSends
  <2> QED BY <2>1, <2>2, <2>3 DEF Converses
<1>11. CASE PeerReceives
  <2>1. ThereNow' = ThereNow
    BY <1>11 DEF PeerReceives, ThereNow
  <2> QED BY <1>11, <2>1 DEF PeerReceives, Converses
<1>12. ASSUME NEW how \in {"finished", "gone", "reset"}, PeerLeaves(how)
       PROVE  Converses
  <2>1. CASE how = "finished"
    <3>1. UNCHANGED <<rq, got, sq, arrived, printed>> /\ ThereNow' = ThereNow
      BY <1>12, <2>1 DEF PeerLeaves, ThereNow
    <3> QED BY <3>1 DEF Converses
  <2>2. CASE how # "finished"
    <3>1. sq' = << >> /\ UNCHANGED <<rq, got, arrived, printed>> /\ ThereNow' = FALSE
      BY <1>12, <2>2 DEF PeerLeaves, ThereNow
    <3> QED BY <3>1 DEF Converses
  <2> QED BY <2>1, <2>2
<1>13. ASSUME \/ UnreadSocket \/ RecvfromFunction \/ SendtoFunction
              \/ \E b \in BOOLEAN : FcntlStatusFlags(b)
       PROVE  FALSE
  BY <1>13 DEF UnreadSocket, RecvfromFunction, SendtoFunction, FcntlStatusFlags
<1>14. ASSUME \/ ShutdownConnection \/ UNCHANGED vars \/ Over
              \/ \E m \in {"fully", "line"} : SetBuffered(m)
              \/ \E us \in {"zero", "short", "long"} : SetTimeout(us)
       PROVE  UNCHANGED <<rq, got, sq, arrived, printed, peer, doing>>
  BY <1>14 DEF ShutdownConnection, Over, vars, SetBuffered, SetTimeout
<1>15. CASE UNCHANGED <<rq, got, sq, arrived, printed, peer, doing>>
  BY <1>15 DEF Converses, ThereNow
<1>16. CASE BrokenPipe \/ PeerSendsMore \/ EmptyConnectionMore
  <2>1. UNCHANGED <<rq, got, sq, arrived, printed>> /\ ThereNow' = ThereNow
    BY <1>16 DEF BrokenPipe, PeerSendsMore, EmptyConnectionMore, ThereNow
  <2> QED BY <2>1 DEF Converses
<1> QED
  BY <1>4, <1>5, <1>6, <1>7, <1>8, <1>9, <1>10, <1>11, <1>12, <1>13, <1>14, <1>15, <1>16
     DEF Next, Transfer, Control, Peer

\* An unbuffered stream is two first-in first-out channels: the script reads the
\* peer's bytes in the order sent, and the peer receives the script's text in the
\* order printed, none missing between.
THEOREM StreamConverses == Spec => ImplementsConversation
<1>1. Init => Conversation!ConvInit
  <2> SUFFICES ASSUME Init PROVE Conversation!ConvInit
    OBVIOUS
  <2>1. << >> \o << >> = << >>
    OBVIOUS
  <2> QED BY <2>1 DEF Init, Conversation!ConvInit
<1>2. ASSUME IInv, IInv', [Next]_vars
      PROVE  [Conversation!ConvNext]_(Conversation!convVars)
  <2>0. habit' = habit
    BY <1>2 DEF Next, vars
  <2>1. CASE ~Unbuffered
    <3>1. ~Unbuffered'
      BY <2>0, <2>1 DEF Unbuffered
    <3> QED BY <2>1, <3>1 DEF Conversation!convVars
  <2>2. CASE Unbuffered
    <3>1. Unbuffered'
      BY <2>0, <2>2 DEF Unbuffered
    <3>2. file.rd \o rq = rq /\ file'.rd \o rq' = rq'
      <4>1. file.rd = << >> /\ file'.rd = << >>
        BY <1>2, <2>2, <3>1 DEF IInv, HoldsNothing
      <4>2. rq \in Seq(Byte) /\ rq' \in Seq(Byte)
        BY <1>2 DEF IInv, TypeOK
      <4> QED BY <4>1, <4>2
    <3>3. Converses
      BY <1>2, <2>2, StepConverses DEF IInv
    <3> QED
      BY <2>2, <3>1, <3>2, <3>3
         DEF Converses, ThereNow, Conversation!convVars, Conversation!ConvNext,
             Conversation!PeerSays, Conversation!Hear, Conversation!Skip, Conversation!Say,
             Conversation!PeerHears, Conversation!SayToNobody, Conversation!Part
  <2> QED BY <2>1, <2>2
<1> QED BY <1>1, <1>2, Invariance, PTL DEF Spec, ImplementsConversation, Conversation!ConvSpec

=============================================================================
