--------------------------- MODULE DispatchProofs ---------------------------
(***************************************************************************)
(* Proofs about Generics, for any classes, generic functions and methods,  *)
(* and calls nested to any depth, and about Messages, for any classes, any *)
(* names and hash buckets, any instances with any precedence lists, and    *)
(* messages, calls of shadowed handlers, definitions, deletions, errors    *)
(* and halts nested in each other to any depth.                            *)
(***************************************************************************)
EXTENDS Generics, Messages, SequenceFacts, FiniteSetTheorems, TLAPS

-----------------------------------------------------------------------------
(* GENERIC FUNCTIONS.                                                      *)

-----------------------------------------------------------------------------
(* The inductive invariant.                                                *)

Signatures == UNION {Signature[g] : g \in Generic}

Meth == [params : {sig.params : sig \in Signatures}, wild : {sig.wild : sig \in Signatures},
         index : Nat \ {0}, busy : Nat]

MethodPlace == [generic : Generic \cup {"none"}, at : Nat]
Current == [generic : Generic \cup {"none"}, method : MethodPlace]

Frames == [kind : {"dispatch", "next", "probe"}, generic : Generic,
           phase : {"arguments", "scan", "query", "run", "lost"}, array : Generic, from : Nat,
           specific : Nat, args : Arguments, at : Nat, param : Nat, saved : Current]

Count(frs, k, g, p) ==
    Cardinality({i \in 1..k : Occupies(frs[i], g, p)}) + Cardinality({i \in 1..k : Picks(frs[i], g, p)})

Counted(meths, frs) ==
    \A g \in Generic : \A p \in DOMAIN meths[g] : meths[g][p].busy = Count(frs, Len(frs), g, p)

\* What is current within the first k frames.
Within(frs, k, c) ==
    /\ c \in Current
    /\ c.generic = IF k = 0 THEN "none" ELSE frs[k].generic
    /\ \/ c.method = NoMethod /\ \A i \in 1..k : frs[i].phase # "run"
       \/ \E i \in 1..k : /\ frs[i].phase = "run" /\ \A j \in i + 1..k : frs[j].phase # "run"
                          /\ c.method = [generic |-> frs[i].array, at |-> frs[i].at]

\* A frame by itself.
FrameOK(meths, F) ==
    /\ F.at <= Len(meths[F.array]) /\ F.specific <= Len(meths[F.array])
    /\ F.at # 0 <=> F.phase \in {"query", "run"}
    /\ F.kind # "dispatch" => F.phase # "arguments"
    /\ F.specific # 0 => F.kind = "dispatch" /\ F.from = 0 /\ F.array = F.generic
    /\ F.specific = 0 /\ F.at # 0 => F.at > F.from
    /\ F.specific # 0 /\ F.at # 0 => F.at = F.specific

\* A call of h is among the first k frames.
Called(frs, k, h) == \E j \in 1..k : frs[j].kind = "dispatch" /\ frs[j].generic = h

\* A frame and those around it.
Nested(frs) ==
    \A i \in DOMAIN frs :
        /\ Within(frs, i - 1, frs[i].saved)
        /\ Called(frs, i, frs[i].generic) /\ Called(frs, i, frs[i].array)

\* The search for the next method begins behind the method that runs, when that is
\* one of the generic function called.
SearchesBehind(frs) ==
    \A i, j \in DOMAIN frs :
        /\ i < j /\ frs[i].phase = "run" /\ \A k \in i + 1..j - 1 : frs[k].phase # "run"
        /\ frs[j].from # 0 \/ frs[j].kind # "dispatch"
        /\ frs[j].generic = frs[i].array
        => frs[j].array = frs[i].array /\ frs[j].from = frs[i].at

MethodsOK(meths, next) ==
    /\ meths \in [Generic -> Seq(Meth)] /\ next \in [Generic -> Nat]
    /\ \A g \in Generic :
          /\ next[g] <= MaxMethods[g] + 1 /\ Len(meths[g]) <= MaxMethods[g]
          /\ \A p \in DOMAIN meths[g] : meths[g][p].index < next[g]
                                        /\ meths[g][p].index <= MaxMethods[g]
          /\ \A p, q \in DOMAIN meths[g] : p # q => meths[g][p].index # meths[g][q].index

FramesOK(meths, frs) ==
    /\ frs \in Seq(Frames)
    /\ \A i \in DOMAIN frs : FrameOK(meths, frs[i])
    /\ Nested(frs) /\ SearchesBehind(frs)
    /\ Len(frs) <= MaxDepth

Fits(meths, next, frs, cur, err) ==
    /\ MethodsOK(meths, next)
    /\ FramesOK(meths, frs)
    /\ Counted(meths, frs)
    /\ Within(frs, Len(frs), cur)
    /\ err \in {"none", "halted", "error"}

GenericsIInv == Fits(methods, new_index, frames, current, error)

-----------------------------------------------------------------------------
(* How many frames hold a method.                                          *)

OneIf(b) == IF b THEN 1 ELSE 0

LEMMA CountIs ==
    ASSUME NEW frs, NEW k \in Nat, NEW g, NEW p
    PROVE  /\ Count(frs, k, g, p) \in Nat /\ Count(frs, k, g, p) <= 2 * k
           /\ Count(frs, k, g, p) = 0 <=> \A i \in 1..k : ~Occupies(frs[i], g, p) /\ ~Picks(frs[i], g, p)
<1> DEFINE H == {i \in 1..k : Occupies(frs[i], g, p)}
           P == {i \in 1..k : Picks(frs[i], g, p)}
<1>1. IsFiniteSet(1..k) /\ Cardinality(1..k) = k
  <2>1. Cardinality(1..k) = IF 1 > k THEN 0 ELSE k - 1 + 1
    BY FS_Interval
  <2> QED BY <2>1, FS_Interval
<1>2. H \in SUBSET (1..k) /\ P \in SUBSET (1..k)
  OBVIOUS
<1>3. Count(frs, k, g, p) = Cardinality(H) + Cardinality(P)
  BY DEF Count
<1>4. (\A i \in 1..k : ~Occupies(frs[i], g, p) /\ ~Picks(frs[i], g, p)) <=> H = {} /\ P = {}
  OBVIOUS
<1> HIDE DEF H, P
<1>5. IsFiniteSet(H) /\ IsFiniteSet(P) /\ Cardinality(H) <= k /\ Cardinality(P) <= k
  <2>1. IsFiniteSet(H) /\ Cardinality(H) <= Cardinality(1..k)
    BY <1>1, <1>2, FS_Subset
  <2>2. IsFiniteSet(P) /\ Cardinality(P) <= Cardinality(1..k)
    BY <1>1, <1>2, FS_Subset
  <2> QED BY <1>1, <2>1, <2>2
<1>6. Cardinality(H) \in Nat /\ Cardinality(P) \in Nat
  BY <1>5, FS_CardinalityType
<1>7. (Cardinality(H) = 0 <=> H = {}) /\ (Cardinality(P) = 0 <=> P = {})
  BY <1>5, FS_EmptySet
<1>8. Cardinality(H) + Cardinality(P) = 0 <=> Cardinality(H) = 0 /\ Cardinality(P) = 0
  BY <1>6
<1>9. Cardinality(H) + Cardinality(P) <= 2 * k
  BY <1>5, <1>6
<1> QED BY <1>3, <1>4, <1>6, <1>7, <1>8, <1>9

LEMMA CountSame ==
    ASSUME NEW old, NEW new, NEW k \in Nat, \A i \in 1..k : new[i] = old[i], NEW g, NEW p
    PROVE  Count(new, k, g, p) = Count(old, k, g, p)
<1>1. /\ {i \in 1..k : Occupies(new[i], g, p)} = {i \in 1..k : Occupies(old[i], g, p)}
      /\ {i \in 1..k : Picks(new[i], g, p)} = {i \in 1..k : Picks(old[i], g, p)}
  OBVIOUS
<1> QED BY <1>1 DEF Count

LEMMA CountTop ==
    ASSUME NEW frs, NEW k \in Nat \ {0}, NEW g, NEW p
    PROVE  Count(frs, k, g, p) =
             Count(frs, k - 1, g, p) + OneIf(Occupies(frs[k], g, p)) + OneIf(Picks(frs[k], g, p))
<1> DEFINE H(j) == {i \in 1..j : Occupies(frs[i], g, p)}
           P(j) == {i \in 1..j : Picks(frs[i], g, p)}
<1>1. k - 1 \in Nat /\ 1..k = 1..(k - 1) \cup {k} /\ k \notin 1..(k - 1)
  OBVIOUS
<1>2. IsFiniteSet(1..(k - 1)) /\ H(k - 1) \subseteq 1..(k - 1) /\ P(k - 1) \subseteq 1..(k - 1)
  BY <1>1, FS_Interval
<1>3. /\ IsFiniteSet(H(k - 1)) /\ Cardinality(H(k - 1)) \in Nat
      /\ IsFiniteSet(P(k - 1)) /\ Cardinality(P(k - 1)) \in Nat
  BY <1>2, FS_Subset, FS_CardinalityType
<1>4. H(k) = IF Occupies(frs[k], g, p) THEN H(k - 1) \cup {k} ELSE H(k - 1)
  BY <1>1
<1>5. P(k) = IF Picks(frs[k], g, p) THEN P(k - 1) \cup {k} ELSE P(k - 1)
  BY <1>1
<1>6. k \notin H(k - 1) /\ k \notin P(k - 1)
  BY <1>1
<1>7. /\ Count(frs, k, g, p) = Cardinality(H(k)) + Cardinality(P(k))
      /\ Count(frs, k - 1, g, p) = Cardinality(H(k - 1)) + Cardinality(P(k - 1))
  BY DEF Count
<1> HIDE DEF H, P
<1>8. /\ Cardinality(H(k - 1) \cup {k}) = Cardinality(H(k - 1)) + 1
      /\ Cardinality(P(k - 1) \cup {k}) = Cardinality(P(k - 1)) + 1
  BY <1>3, <1>6, FS_AddElement
<1>9. Cardinality(H(k)) = Cardinality(H(k - 1)) + OneIf(Occupies(frs[k], g, p))
  BY <1>3, <1>4, <1>8 DEF OneIf
<1>10. Cardinality(P(k)) = Cardinality(P(k - 1)) + OneIf(Picks(frs[k], g, p))
  BY <1>3, <1>5, <1>8 DEF OneIf
<1>11. OneIf(Occupies(frs[k], g, p)) \in Nat /\ OneIf(Picks(frs[k], g, p)) \in Nat
  BY DEF OneIf
<1> QED BY <1>3, <1>7, <1>9, <1>10, <1>11

-----------------------------------------------------------------------------
(* What is current.                                                        *)

LEMMA WithinSame ==
    ASSUME NEW old, NEW new, NEW k \in Nat, NEW c, Within(old, k, c),
           \A i \in 1..k : /\ new[i].generic = old[i].generic /\ new[i].phase = old[i].phase
                           /\ new[i].at = old[i].at /\ new[i].array = old[i].array
    PROVE  Within(new, k, c)
<1>1. c \in Current
  BY DEF Within
<1>2. c.generic = IF k = 0 THEN "none" ELSE new[k].generic
  <2>1. k # 0 => k \in 1..k
    OBVIOUS
  <2> QED BY <2>1 DEF Within
<1>3. CASE c.method = NoMethod /\ \A i \in 1..k : old[i].phase # "run"
  BY <1>1, <1>2, <1>3 DEF Within
<1>4. ASSUME NEW i \in 1..k, old[i].phase = "run", \A j \in i + 1..k : old[j].phase # "run",
             c.method = [generic |-> old[i].array, at |-> old[i].at]
      PROVE  Within(new, k, c)
  <2>1. \A j \in i + 1..k : j \in 1..k
    OBVIOUS
  <2>2. /\ new[i].phase = "run" /\ \A j \in i + 1..k : new[j].phase # "run"
        /\ c.method = [generic |-> new[i].array, at |-> new[i].at]
    BY <1>4, <2>1
  <2> QED BY <1>1, <1>2, <2>2 DEF Within
<1> QED BY <1>3, <1>4 DEF Within

\* A frame that runs no method is put above.
LEMMA WithinPush ==
    ASSUME NEW old, NEW new, NEW k \in Nat, NEW c, Within(old, k, c),
           \A i \in 1..k : new[i] = old[i], new[k + 1].phase # "run",
           new[k + 1].generic \in Generic
    PROVE  Within(new, k + 1, [c EXCEPT !.generic = new[k + 1].generic])
<1> DEFINE d == [c EXCEPT !.generic = new[k + 1].generic]
<1>1. c \in Current
  BY DEF Within
<1>2. d \in Current /\ d.generic = new[k + 1].generic /\ d.method = c.method
  BY <1>1 DEF Current
<1> HIDE DEF d
<1>3. k + 1 # 0 /\ \A i \in 1..k + 1 : i \in 1..k \/ i = k + 1
  OBVIOUS
<1>4. Within(new, k, c)
  BY WithinSame
<1>5. CASE c.method = NoMethod /\ \A i \in 1..k : new[i].phase # "run"
  <2>1. \A i \in 1..k + 1 : new[i].phase # "run"
    BY <1>3, <1>5
  <2>2. Within(new, k + 1, d)
    BY <1>2, <1>3, <1>5, <2>1 DEF Within
  <2> QED BY <2>2 DEF d
<1>6. ASSUME NEW i \in 1..k, new[i].phase = "run", \A j \in i + 1..k : new[j].phase # "run",
             c.method = [generic |-> new[i].array, at |-> new[i].at]
      PROVE  Within(new, k + 1, d)
  <2>1. i \in 1..k + 1 /\ \A j \in i + 1..k + 1 : j \in i + 1..k \/ j = k + 1
    OBVIOUS
  <2>2. \A j \in i + 1..k + 1 : new[j].phase # "run"
    BY <1>6, <2>1
  <2> QED BY <1>2, <1>3, <1>6, <2>1, <2>2 DEF Within
<1> QED BY <1>4, <1>5, <1>6 DEF Within, d

\* The frame on top changes, and it did not run; now it may.
LEMMA WithinTop ==
    ASSUME NEW old, NEW new, NEW n \in Nat \ {0}, NEW c, Within(old, n, c),
           \A i \in 1..n - 1 : new[i] = old[i],
           new[n].generic = old[n].generic, old[n].phase # "run", new[n].phase # "run"
    PROVE  Within(new, n, c)
<1>1. \A i \in 1..n : i \in 1..n - 1 \/ i = n
  OBVIOUS
<1>2. c \in Current /\ c.generic = new[n].generic
  BY DEF Within
<1>3. CASE c.method = NoMethod /\ \A i \in 1..n : old[i].phase # "run"
  <2>1. \A i \in 1..n : new[i].phase # "run"
    BY <1>1, <1>3
  <2> QED BY <1>2, <1>3, <2>1 DEF Within
<1>4. ASSUME NEW i \in 1..n, old[i].phase = "run", \A j \in i + 1..n : old[j].phase # "run",
             c.method = [generic |-> old[i].array, at |-> old[i].at]
      PROVE  Within(new, n, c)
  <2>1. i \in 1..n - 1 /\ \A j \in i + 1..n : j \in 1..n
    BY <1>1, <1>4
  <2>2. \A j \in i + 1..n : new[j].phase # "run"
    BY <1>1, <1>4, <2>1
  <2>3. new[i] = old[i]
    BY <2>1
  <2> QED BY <1>2, <1>4, <2>2, <2>3 DEF Within
<1> QED BY <1>3, <1>4 DEF Within

LEMMA WithinRun ==
    ASSUME NEW new, NEW n \in Nat \ {0}, NEW c \in Current, c.generic = new[n].generic,
           new[n].phase = "run", new[n].array \in Generic, new[n].at \in Nat
    PROVE  Within(new, n, [c EXCEPT !.method = [generic |-> new[n].array, at |-> new[n].at]])
<1> DEFINE meth == [generic |-> new[n].array, at |-> new[n].at]
           d == [c EXCEPT !.method = meth]
<1>1. meth \in MethodPlace
  BY DEF MethodPlace
<1> HIDE DEF meth
<1>2. d \in Current /\ d.generic = c.generic /\ d.method = meth
  BY <1>1 DEF Current
<1>3. n \in 1..n /\ n # 0 /\ \A j \in n + 1..n : new[j].phase # "run"
  OBVIOUS
<1> HIDE DEF d
<1>4. Within(new, n, d)
  BY <1>2, <1>3 DEF Within, meth
<1> QED BY <1>4 DEF d, meth

-----------------------------------------------------------------------------
(* A frame is put on top, the one on top changes, or is taken off.         *)

LEMMA AppendIs ==
    ASSUME NEW frs \in Seq(Frames), NEW F \in Frames
    PROVE  LET new == Append(frs, F)
           IN /\ new \in Seq(Frames) /\ Len(new) = Len(frs) + 1 /\ Len(frs) \in Nat
              /\ DOMAIN new = 1..Len(frs) + 1 /\ DOMAIN frs = 1..Len(frs)
              /\ new[Len(frs) + 1] = F
              /\ \A i \in 1..Len(frs) : new[i] = frs[i]
OBVIOUS

LEMMA TopIs ==
    ASSUME NEW frs \in Seq(Frames), frs # << >>
    PROVE  /\ Len(frs) \in Nat \ {0} /\ DOMAIN frs = 1..Len(frs) /\ Len(frs) \in DOMAIN frs
           /\ frs[Len(frs)] \in Frames
           /\ Front(frs) \in Seq(Frames) /\ Len(Front(frs)) = Len(frs) - 1
           /\ DOMAIN Front(frs) = 1..Len(frs) - 1
           /\ \A i \in 1..Len(frs) - 1 : Front(frs)[i] = frs[i]
<1> DEFINE n == Len(frs)
           f == SubSeq(frs, 1, n - 1)
<1>1. n \in Nat \ {0} /\ DOMAIN frs = 1..n /\ n \in DOMAIN frs /\ n - 1 \in Nat
  OBVIOUS
<1>2. frs[n] \in Frames
  BY <1>1
<1>3. \A i \in 1..n - 1 : i \in 1..n /\ frs[i] \in Frames
  BY <1>1
<1>4. f = [i \in 1..n - 1 |-> frs[i]]
  BY <1>1
<1>5. f \in Seq(Frames) /\ Len(f) = n - 1 /\ DOMAIN f = 1..n - 1
  BY <1>1, <1>3, <1>4
<1>6. \A i \in 1..n - 1 : f[i] = frs[i]
  BY <1>4
<1>7. Front(frs) = f
  BY DEF Front
<1> HIDE DEF f
<1> QED BY <1>1, <1>2, <1>5, <1>6, <1>7

LEMMA LastOrBefore == \A m \in Nat : \A i \in 1..m : i # m => i \in 1..m - 1
OBVIOUS

LEMMA ExceptIs ==
    ASSUME NEW frs \in Seq(Frames), frs # << >>, NEW G \in Frames
    PROVE  LET new == [frs EXCEPT ![Len(frs)] = G]
           IN /\ new \in Seq(Frames) /\ Len(new) = Len(frs) /\ DOMAIN new = 1..Len(frs)
              /\ new[Len(frs)] = G
              /\ \A i \in 1..Len(frs) - 1 : new[i] = frs[i]
<1> DEFINE n == Len(frs)
           new == [frs EXCEPT ![n] = G]
<1>1. n \in Nat \ {0} /\ DOMAIN frs = 1..n /\ n \in DOMAIN frs
  BY TopIs
<1>2. frs \in [1..n -> Frames]
  BY <1>1
<1> HIDE DEF n
<1>3. DOMAIN new = 1..n /\ new[n] = G /\ \A i \in 1..n : i # n => new[i] = frs[i]
  BY <1>1, <1>2
<1>4. new \in [1..n -> Frames]
  BY <1>1, <1>2
<1> HIDE DEF new
<1>5. new \in Seq(Frames) /\ Len(new) = n
  BY <1>1, <1>3, <1>4
<1>6. \A i \in 1..n - 1 : i \in 1..n /\ i # n
  BY <1>1
<1>7. \A i \in 1..n - 1 : new[i] = frs[i]
  BY <1>3, <1>6
<1> QED BY <1>3, <1>5, <1>7 DEF new, n

LEMMA CalledSame ==
    ASSUME NEW old, NEW new, NEW k \in Nat, NEW h, Called(old, k, h),
           \A i \in 1..k : new[i].kind = old[i].kind /\ new[i].generic = old[i].generic
    PROVE  Called(new, k, h)
BY DEF Called

LEMMA CalledMore ==
    ASSUME NEW frs, NEW k \in Nat, NEW m \in Nat, k <= m, NEW h, Called(frs, k, h)
    PROVE  Called(frs, m, h)
BY DEF Called

LEMMA PushFrames ==
    ASSUME NEW meths, NEW frs, FramesOK(meths, frs), Len(frs) < MaxDepth,
           NEW F \in Frames, FrameOK(meths, F), Within(frs, Len(frs), F.saved),
           \A h \in {F.generic, F.array} :
              (F.kind = "dispatch" /\ h = F.generic) \/ Called(frs, Len(frs), h),
           \A i \in DOMAIN frs :
              /\ frs[i].phase = "run" /\ \A k \in i + 1..Len(frs) : frs[k].phase # "run"
              /\ F.from # 0 \/ F.kind # "dispatch"
              /\ F.generic = frs[i].array
              => F.array = frs[i].array /\ F.from = frs[i].at
    PROVE  FramesOK(meths, Append(frs, F))
<1> DEFINE new == Append(frs, F)
           n == Len(frs)
<1>1. /\ frs \in Seq(Frames) /\ \A i \in DOMAIN frs : FrameOK(meths, frs[i])
      /\ Nested(frs) /\ SearchesBehind(frs) /\ MaxDepth \in Nat
  BY GenericsAssumption DEF FramesOK
<1>2. /\ new \in Seq(Frames) /\ Len(new) = n + 1 /\ n \in Nat
      /\ DOMAIN new = 1..n + 1 /\ DOMAIN frs = 1..n
      /\ new[n + 1] = F /\ \A i \in 1..n : new[i] = frs[i]
  BY <1>1, AppendIs
<1> HIDE DEF new
<1>3. \A i \in DOMAIN new : FrameOK(meths, new[i])
  <2>1. \A i \in DOMAIN new : i \in DOMAIN frs \/ i = n + 1
    BY <1>2
  <2> QED BY <1>1, <1>2, <2>1
<1>4. Nested(new)
  <2> SUFFICES ASSUME NEW i \in DOMAIN new
               PROVE  /\ Within(new, i - 1, new[i].saved)
                      /\ \A h \in {new[i].generic, new[i].array} : Called(new, i, h)
    BY DEF Nested
  <2>1. i \in Nat /\ i - 1 \in Nat /\ i >= 1 /\ i <= n + 1
    BY <1>2
  <2>2. Within(frs, i - 1, new[i].saved)
    <3>1. CASE i = n + 1
      BY <1>2, <3>1
    <3>2. CASE i # n + 1
      BY <1>1, <1>2, <3>2 DEF Nested
    <3> QED BY <3>1, <3>2
  <2>3. \A k \in 1..i - 1 : new[k] = frs[k]
    BY <1>2, <2>1
  <2>4. Within(new, i - 1, new[i].saved)
    BY <2>1, <2>2, <2>3, WithinSame
  <2>5. ASSUME NEW h \in {new[i].generic, new[i].array}
        PROVE  Called(new, i, h)
    <3>1. CASE i = n + 1 /\ F.kind = "dispatch" /\ h = F.generic
      <4>1. i \in 1..i
        BY <2>1
      <4> QED BY <1>2, <3>1, <4>1 DEF Called
    <3>2. CASE i = n + 1 /\ ~(F.kind = "dispatch" /\ h = F.generic)
      <4>1. Called(frs, n, h)
        BY <1>2, <3>2
      <4>2. Called(new, n, h)
        BY <1>2, <4>1, CalledSame
      <4> QED BY <1>2, <2>1, <3>2, <4>2, CalledMore
    <3>3. CASE i # n + 1
      <4>1. i \in DOMAIN frs /\ i \in Nat /\ new[i] = frs[i]
        BY <1>2, <2>1, <3>3
      <4>2. Called(frs, i, h)
        BY <1>1, <4>1 DEF Nested
      <4>3. \A k \in 1..i : new[k] = frs[k]
        BY <1>2, <2>1, <3>3
      <4> QED BY <4>1, <4>2, <4>3, CalledSame
    <3> QED BY <3>1, <3>2, <3>3
  <2> QED BY <2>4, <2>5
<1>5. SearchesBehind(new)
  <2> SUFFICES ASSUME NEW i \in DOMAIN new, NEW j \in DOMAIN new, i < j, new[i].phase = "run",
                      \A k \in i + 1..j - 1 : new[k].phase # "run",
                      new[j].from # 0 \/ new[j].kind # "dispatch",
                      new[j].generic = new[i].array
               PROVE  new[j].array = new[i].array /\ new[j].from = new[i].at
    BY DEF SearchesBehind
  <2>1. i \in DOMAIN frs /\ new[i] = frs[i] /\ i \in Nat /\ j \in Nat
    BY <1>2
  <2>2. \A k \in i + 1..j - 1 : k \in 1..n /\ new[k] = frs[k]
    BY <1>2, <2>1
  <2>3. CASE j = n + 1
    <3>1. i + 1..j - 1 = i + 1..n
      BY <1>2, <2>3
    <3>2. \A k \in i + 1..n : frs[k].phase # "run"
      BY <2>2, <3>1
    <3> QED BY <1>2, <2>1, <2>3, <3>2
  <2>4. CASE j # n + 1
    <3>1. j \in DOMAIN frs /\ new[j] = frs[j]
      BY <1>2, <2>4
    <3>2. \A k \in i + 1..j - 1 : frs[k].phase # "run"
      BY <2>2
    <3> QED BY <1>1, <2>1, <3>1, <3>2 DEF SearchesBehind
  <2> QED BY <2>3, <2>4
<1>6. Len(new) <= MaxDepth
  BY <1>1, <1>2
<1>7. FramesOK(meths, new)
  BY <1>2, <1>3, <1>4, <1>5, <1>6 DEF FramesOK
<1> QED BY <1>7 DEF new

\* The frame on top goes on, in the array where it was or in that of its own function.
LEMMA TopFrames ==
    ASSUME NEW meths, NEW frs, FramesOK(meths, frs), frs # << >>,
           frs[Len(frs)].phase # "run",
           NEW G \in Frames, FrameOK(meths, G), G.kind = frs[Len(frs)].kind,
           G.generic = frs[Len(frs)].generic, G.saved = frs[Len(frs)].saved,
           \/ G.array = frs[Len(frs)].array /\ G.from = frs[Len(frs)].from
           \/ frs[Len(frs)].array # G.generic /\ G.array = G.generic /\ G.from = 0
    PROVE  FramesOK(meths, [frs EXCEPT ![Len(frs)] = G])
<1> DEFINE new == [frs EXCEPT ![Len(frs)] = G]
           n == Len(frs)
<1>1. /\ frs \in Seq(Frames) /\ \A i \in DOMAIN frs : FrameOK(meths, frs[i])
      /\ Nested(frs) /\ SearchesBehind(frs) /\ Len(frs) <= MaxDepth
  BY DEF FramesOK
<1>2. n \in Nat \ {0} /\ DOMAIN frs = 1..n
  BY <1>1, TopIs
<1>3. /\ new \in Seq(Frames) /\ Len(new) = n /\ DOMAIN new = 1..n
      /\ new[n] = G /\ \A i \in 1..n - 1 : new[i] = frs[i]
  BY <1>1, ExceptIs
<1> HIDE DEF new
<1>4. \A i \in 1..n : i # n => i \in 1..n - 1
  BY <1>2, LastOrBefore
<1>5. \A i \in DOMAIN new : FrameOK(meths, new[i])
  BY <1>1, <1>2, <1>3, <1>4
<1>6. \A i \in 1..n : /\ new[i].kind = frs[i].kind /\ new[i].generic = frs[i].generic
                      /\ new[i].saved = frs[i].saved
  BY <1>3, <1>4
<1>7. Nested(new)
  <2> SUFFICES ASSUME NEW i \in DOMAIN new
               PROVE  /\ Within(new, i - 1, new[i].saved)
                      /\ \A h \in {new[i].generic, new[i].array} : Called(new, i, h)
    BY DEF Nested
  <2>1. i \in Nat /\ i - 1 \in Nat /\ i \in 1..n /\ i \in DOMAIN frs
    BY <1>2, <1>3
  <2>2. \A k \in 1..i - 1 : k \in 1..n - 1 /\ new[k] = frs[k]
    BY <1>2, <1>3, <2>1
  <2>3. Within(frs, i - 1, new[i].saved)
    BY <1>1, <1>2, <1>6, <2>1 DEF Nested
  <2>4. Within(new, i - 1, new[i].saved)
    BY <2>1, <2>2, <2>3, WithinSame
  <2>5. ASSUME NEW h \in {new[i].generic, new[i].array}
        PROVE  Called(new, i, h)
    <3>1. h \in {frs[i].generic, frs[i].array}
      <4>1. CASE i = n
        BY <1>3, <4>1
      <4>2. CASE i # n
        <5>1. new[i] = frs[i]
          BY <1>3, <1>4, <2>1, <4>2
        <5> QED BY <5>1
      <4> QED BY <4>1, <4>2
    <3>2. Called(frs, i, h)
      BY <1>1, <2>1, <3>1 DEF Nested
    <3>3. \A k \in 1..i : new[k].kind = frs[k].kind /\ new[k].generic = frs[k].generic
      BY <1>6, <2>1
    <3> QED BY <2>1, <3>2, <3>3, CalledSame
  <2> QED BY <2>4, <2>5
<1>8. SearchesBehind(new)
  <2> SUFFICES ASSUME NEW i \in DOMAIN new, NEW j \in DOMAIN new, i < j, new[i].phase = "run",
                      \A k \in i + 1..j - 1 : new[k].phase # "run",
                      new[j].from # 0 \/ new[j].kind # "dispatch",
                      new[j].generic = new[i].array
               PROVE  new[j].array = new[i].array /\ new[j].from = new[i].at
    BY DEF SearchesBehind
  <2>1. i \in 1..n - 1 /\ new[i] = frs[i] /\ i \in DOMAIN frs /\ j \in DOMAIN frs
    BY <1>2, <1>3
  <2>2. \A k \in i + 1..j - 1 : k \in 1..n - 1 /\ new[k] = frs[k]
    BY <1>2, <1>3, <2>1
  <2>3. \A k \in i + 1..j - 1 : frs[k].phase # "run"
    BY <2>2
  <2>4. frs[j].from # 0 \/ frs[j].kind # "dispatch"
        => frs[j].array = frs[i].array /\ frs[j].from = frs[i].at
    BY <1>1, <1>2, <1>6, <2>1, <2>3 DEF SearchesBehind
  <2>5. CASE j # n
    <3>1. new[j] = frs[j]
      BY <1>2, <1>3, <1>4, <2>1, <2>5
    <3> QED BY <2>1, <2>4, <3>1
  <2>6. CASE j = n
    <3>1. CASE G.array = frs[n].array /\ G.from = frs[n].from
      BY <1>3, <2>1, <2>4, <2>6, <3>1
    <3>2. CASE frs[n].array # G.generic /\ G.array = G.generic /\ G.from = 0
      <4>1. frs[n].kind # "dispatch" /\ frs[n].array = frs[i].array /\ G.generic = frs[i].array
        BY <1>3, <2>1, <2>4, <2>6, <3>2
      <4> QED BY <3>2, <4>1
    <3> QED BY <3>1, <3>2
  <2> QED BY <2>5, <2>6
<1>9. FramesOK(meths, new)
  BY <1>1, <1>3, <1>5, <1>7, <1>8 DEF FramesOK
<1> QED BY <1>9 DEF new

LEMMA PopFrames ==
    ASSUME NEW meths, NEW frs, FramesOK(meths, frs), frs # << >>
    PROVE  FramesOK(meths, Front(frs))
<1> DEFINE new == Front(frs)
           n == Len(frs)
<1>1. /\ frs \in Seq(Frames) /\ \A i \in DOMAIN frs : FrameOK(meths, frs[i])
      /\ Nested(frs) /\ SearchesBehind(frs) /\ Len(frs) <= MaxDepth /\ MaxDepth \in Nat
  BY GenericsAssumption DEF FramesOK
<1>2. /\ n \in Nat \ {0} /\ DOMAIN frs = 1..n
      /\ new \in Seq(Frames) /\ Len(new) = n - 1 /\ DOMAIN new = 1..n - 1
      /\ \A i \in 1..n - 1 : new[i] = frs[i]
  BY <1>1, TopIs
<1> HIDE DEF new
<1>3. \A i \in DOMAIN new : i \in DOMAIN frs /\ new[i] = frs[i]
  BY <1>2
<1>4. Nested(new)
  <2> SUFFICES ASSUME NEW i \in DOMAIN new
               PROVE  /\ Within(new, i - 1, new[i].saved)
                      /\ \A h \in {new[i].generic, new[i].array} : Called(new, i, h)
    BY DEF Nested
  <2>1. i \in Nat /\ i - 1 \in Nat
    BY <1>2
  <2>2. \A k \in 1..i : k \in DOMAIN new
    BY <1>2
  <2>3. \A k \in 1..i - 1 : k \in 1..i
    BY <2>1
  <2>4. Within(frs, i - 1, new[i].saved)
    BY <1>1, <1>3 DEF Nested
  <2>5. Within(new, i - 1, new[i].saved)
    BY <1>3, <2>1, <2>2, <2>3, <2>4, WithinSame
  <2>6. ASSUME NEW h \in {new[i].generic, new[i].array}
        PROVE  Called(new, i, h)
    <3>1. Called(frs, i, h)
      BY <1>1, <1>3 DEF Nested
    <3>2. \A k \in 1..i : new[k] = frs[k]
      BY <1>3, <2>2
    <3> QED BY <2>1, <3>1, <3>2, CalledSame
  <2> QED BY <2>5, <2>6
<1>5. SearchesBehind(new)
  <2> SUFFICES ASSUME NEW i \in DOMAIN new, NEW j \in DOMAIN new, i < j, new[i].phase = "run",
                      \A k \in i + 1..j - 1 : new[k].phase # "run",
                      new[j].from # 0 \/ new[j].kind # "dispatch",
                      new[j].generic = new[i].array
               PROVE  new[j].array = new[i].array /\ new[j].from = new[i].at
    BY DEF SearchesBehind
  <2>1. \A k \in i + 1..j - 1 : k \in DOMAIN new
    BY <1>2
  <2>2. \A k \in i + 1..j - 1 : frs[k].phase # "run"
    BY <1>3, <2>1
  <2> QED BY <1>1, <1>3, <2>2 DEF SearchesBehind
<1>6. Len(new) <= MaxDepth
  BY <1>1, <1>2
<1>7. FramesOK(meths, new)
  BY <1>1, <1>2, <1>3, <1>4, <1>5, <1>6 DEF FramesOK
<1> QED BY <1>7 DEF new
-----------------------------------------------------------------------------
(* Methods that change in their busy counts only.                          *)

Alike(old, new) ==
    /\ new \in [Generic -> Seq(Meth)]
    /\ \A g \in Generic :
          /\ Len(new[g]) = Len(old[g]) /\ DOMAIN new[g] = DOMAIN old[g]
          /\ \A p \in DOMAIN old[g] :
                /\ new[g][p].params = old[g][p].params /\ new[g][p].wild = old[g][p].wild
                /\ new[g][p].index = old[g][p].index

Bump(meths, g, p, by) == [meths EXCEPT ![g][p].busy = @ + by]

LEMMA AlikeSelf ==
    ASSUME NEW meths \in [Generic -> Seq(Meth)]
    PROVE  Alike(meths, meths)
BY DEF Alike

LEMMA AlikeThen ==
    ASSUME NEW a, NEW b, NEW c, Alike(a, b), Alike(b, c)
    PROVE  Alike(a, c)
BY DEF Alike

LEMMA BumpIs ==
    ASSUME NEW meths \in [Generic -> Seq(Meth)], NEW g \in Generic, NEW p \in DOMAIN meths[g],
           NEW by \in Int, meths[g][p].busy + by >= 0
    PROVE  /\ Alike(meths, Bump(meths, g, p, by))
           /\ \A h \in Generic : \A q \in DOMAIN meths[h] :
                Bump(meths, g, p, by)[h][q].busy =
                    meths[h][q].busy + (IF h = g /\ q = p THEN by ELSE 0)
<1> DEFINE s == meths[g]
           n == Len(s)
           m == [s[p] EXCEPT !.busy = @ + by]
           t == [s EXCEPT ![p] = m]
           new == [meths EXCEPT ![g] = t]
<1>1. Bump(meths, g, p, by) = new
  BY DEF Bump
<1>2. s \in Seq(Meth) /\ n \in Nat /\ DOMAIN s = 1..n /\ s \in [1..n -> Meth] /\ p \in 1..n
  OBVIOUS
<1>3. s[p] \in Meth /\ s[p].busy \in Nat /\ s[p].busy + by \in Nat
  BY <1>2 DEF Meth
<1>4. /\ m \in Meth /\ m.params = s[p].params /\ m.wild = s[p].wild /\ m.index = s[p].index
      /\ m.busy = s[p].busy + by
  BY <1>3 DEF Meth
<1> HIDE DEF n, m
<1>5. t \in [1..n -> Meth] /\ DOMAIN t = 1..n /\ t[p] = m /\ \A q \in 1..n : q # p => t[q] = s[q]
  BY <1>2, <1>4
<1>6. t \in Seq(Meth) /\ Len(t) = n
  BY <1>2, <1>5
<1> HIDE DEF t
<1>7. new \in [Generic -> Seq(Meth)] /\ new[g] = t /\ \A h \in Generic : h # g => new[h] = meths[h]
  BY <1>6
<1> HIDE DEF new
<1>8. ASSUME NEW h \in Generic
      PROVE  /\ Len(new[h]) = Len(meths[h]) /\ DOMAIN new[h] = DOMAIN meths[h]
             /\ \A q \in DOMAIN meths[h] :
                   /\ new[h][q].params = meths[h][q].params /\ new[h][q].wild = meths[h][q].wild
                   /\ new[h][q].index = meths[h][q].index
                   /\ new[h][q].busy = meths[h][q].busy + (IF h = g /\ q = p THEN by ELSE 0)
  <2>1. CASE h # g
    <3>1. new[h] = meths[h] /\ \A q \in DOMAIN meths[h] : meths[h][q] \in Meth
      BY <1>7, <2>1
    <3>2. \A q \in DOMAIN meths[h] : meths[h][q].busy \in Nat
      BY <3>1 DEF Meth
    <3>3. \A q \in DOMAIN meths[h] : meths[h][q].busy = meths[h][q].busy + 0
      BY <3>2
    <3> QED BY <2>1, <3>1, <3>3
  <2>2. CASE h = g
    <3>1. new[h] = t /\ meths[h] = s
      BY <1>7, <2>2
    <3>2. Len(t) = Len(s) /\ DOMAIN t = DOMAIN s
      BY <1>2, <1>5, <1>6 DEF n
    <3>3. ASSUME NEW q \in 1..n
          PROVE  /\ t[q].params = s[q].params /\ t[q].wild = s[q].wild /\ t[q].index = s[q].index
                 /\ t[q].busy = s[q].busy + (IF q = p THEN by ELSE 0)
      <4>1. CASE q = p
        BY <1>4, <1>5, <4>1
      <4>2. CASE q # p
        <5>1. t[q] = s[q] /\ s[q] \in Meth
          BY <1>2, <1>5, <4>2
        <5>2. s[q].busy \in Nat
          BY <5>1 DEF Meth
        <5> QED BY <4>2, <5>1, <5>2
      <4> QED BY <4>1, <4>2
    <3> HIDE DEF s
    <3> QED BY <1>2, <2>2, <3>1, <3>2, <3>3
  <2> QED BY <2>1, <2>2
<1>9. Alike(meths, new)
  BY <1>7, <1>8 DEF Alike
<1> QED BY <1>1, <1>8, <1>9

LEMMA AlikeKeeps ==
    ASSUME NEW old, NEW new, Alike(old, new)
    PROVE  /\ \A next : MethodsOK(old, next) => MethodsOK(new, next)
           /\ \A F \in Frames : FrameOK(old, F) => FrameOK(new, F)
           /\ \A frs : FramesOK(old, frs) => FramesOK(new, frs)
<1>1. \A next : MethodsOK(old, next) => MethodsOK(new, next)
  <2> SUFFICES ASSUME NEW next, MethodsOK(old, next) PROVE MethodsOK(new, next)
    OBVIOUS
  <2> DEFINE G(meths, g) ==
         /\ next[g] <= MaxMethods[g] + 1 /\ Len(meths[g]) <= MaxMethods[g]
         /\ \A p \in DOMAIN meths[g] : meths[g][p].index < next[g]
                                       /\ meths[g][p].index <= MaxMethods[g]
         /\ \A p, q \in DOMAIN meths[g] : p # q => meths[g][p].index # meths[g][q].index
  <2>1. new \in [Generic -> Seq(Meth)] /\ next \in [Generic -> Nat]
    BY DEF Alike, MethodsOK
  <2>2. ASSUME NEW g \in Generic PROVE G(new, g)
    <3>1. G(old, g)
      BY DEF MethodsOK
    <3>2. /\ Len(new[g]) = Len(old[g]) /\ DOMAIN new[g] = DOMAIN old[g]
          /\ \A p \in DOMAIN old[g] : new[g][p].index = old[g][p].index
      BY DEF Alike
    <3> QED BY <3>1, <3>2
  <2> QED BY <2>1, <2>2 DEF MethodsOK
<1>2. \A F \in Frames : FrameOK(old, F) => FrameOK(new, F)
  BY DEF Alike, FrameOK, Frames
<1>3. ASSUME NEW frs, FramesOK(old, frs)
      PROVE  FramesOK(new, frs)
  <2>1. \A i \in DOMAIN frs : frs[i] \in Frames
    BY <1>3 DEF FramesOK
  <2> QED BY <1>2, <1>3, <2>1 DEF FramesOK
<1> QED BY <1>1, <1>2, <1>3

-----------------------------------------------------------------------------
(* The search for a method.                                                *)

LEMMA TestedIs ==
    ASSUME NEW g, NEW p, NEW args \in Arguments, NEW from \in Nat
    PROVE  /\ Tested(g, p, args, from).what \in {"fails", "fits", "query"}
           /\ Tested(g, p, args, from).param \in Nat
<1> DEFINE m == methods[g][p]
           param(i) == m.params[Min2(i, Len(m.params))]
           arity == Len(args) >= MinOf(m) /\ (Len(args) > MinOf(m) => m.wild)
           fails(i) == param(i).types # << >> /\ ~IsClassApplicable(param(i).types, args[i])
           stops == {i \in from .. Len(args) : fails(i) \/ param(i).query # 0}
           first == CHOOSE i \in stops : \A j \in stops : i <= j
<1>1. Tested(g, p, args, from) =
        IF ~arity \/ (stops # {} /\ fails(first)) THEN [what |-> "fails", param |-> 0]
        ELSE IF stops = {} THEN [what |-> "fits", param |-> 0]
        ELSE [what |-> "query", param |-> first]
  BY DEF Tested
<1>2. Len(args) \in Nat
  BY GenericsAssumption
<1>3. stops \subseteq Nat
  BY <1>2
<1> HIDE DEF arity, fails
<1>4. stops # {} => first \in Nat
  <2> HIDE DEF stops
  <2>1. stops # {} => \E i \in stops : \A j \in stops : i <= j
    BY <1>3, LeastNumber
  <2> QED BY <1>3, <2>1
<1> HIDE DEF stops, first
<1> QED BY <1>1, <1>4

LEMMA SearchFinds ==
    ASSUME NEW F \in Frames, FrameOK(methods, F), methods \in [Generic -> Seq(Meth)],
           NEW p \in Nat \ {0}, NEW from \in Nat
    PROVE  LET found == Search(F, p, from)
           IN /\ found.what \in {"none", "fits", "query"} /\ found.param \in Nat /\ found.at \in Nat
              /\ found.at = 0 <=> found.what = "none"
              /\ found.at # 0 => found.at >= p /\ found.at <= Len(methods[F.array])
              /\ found.at # 0 /\ F.specific # 0 => found.at <= F.specific
<1> DEFINE test(q) == Tested(F.array, q, F.args, IF q = p THEN from ELSE 1)
           last == IF F.specific # 0 THEN F.specific ELSE Len(methods[F.array])
           left == {q \in p .. last : test(q).what # "fails"}
           least == CHOOSE r \in left : \A s \in left : r <= s
           found == Search(F, p, from)
<1>1. found = IF left = {} THEN Nothing
              ELSE [at |-> least, what |-> test(least).what, param |-> test(least).param]
  BY DEF Search
<1>2. /\ F.array \in Generic /\ F.args \in Arguments /\ F.specific \in Nat
      /\ F.specific <= Len(methods[F.array])
  BY DEF Frames, FrameOK
<1>3. Len(methods[F.array]) \in Nat
  BY <1>2
<1>4. last \in Nat /\ last <= Len(methods[F.array])
  BY <1>2, <1>3
<1>5. \A q : test(q).what \in {"fails", "fits", "query"} /\ test(q).param \in Nat
  BY <1>2, TestedIs
<1>11. F.specific # 0 => last = F.specific
  OBVIOUS
<1> HIDE DEF test, last
<1>6. left \subseteq Nat /\ \A q \in left : q >= p /\ q <= last /\ test(q).what # "fails"
  BY <1>4
<1> HIDE DEF left
<1>7. left # {} => \E r \in left : \A s \in left : r <= s
  BY <1>6, LeastNumber
<1>8. left # {} => least \in left
  BY <1>7
<1> HIDE DEF least, found
<1>9. CASE left = {}
  BY <1>1, <1>9 DEF found, Nothing
<1>10. CASE left # {}
  <2>1. found.at = least /\ found.what = test(least).what /\ found.param = test(least).param
    BY <1>1, <1>10
  <2>2. /\ least \in Nat /\ least >= p /\ least <= Len(methods[F.array]) /\ least # 0
        /\ F.specific # 0 => least <= F.specific
    <3>1. least \in Nat /\ least >= p /\ least <= last
      BY <1>6, <1>8, <1>10
    <3> DEFINE n == Len(methods[F.array])
    <3>2. n \in Nat /\ last \in Nat /\ last <= n
      BY <1>3, <1>4
    <3> HIDE DEF n
    <3>3. least <= n /\ least # 0
      BY <3>1, <3>2
    <3>4. F.specific # 0 => least <= F.specific
      BY <1>11, <3>1
    <3> QED BY <3>1, <3>3, <3>4 DEF n
  <2>3. test(least).what \in {"fits", "query"} /\ test(least).param \in Nat
    BY <1>5, <1>6, <1>8, <1>10
  <2>4. found.at # 0 /\ found.what # "none"
    BY <2>1, <2>2, <2>3
  <2> QED BY <2>1, <2>2, <2>3, <2>4 DEF found
<1> QED BY <1>9, <1>10

\* What a search can stop with: a method from p on, and not behind the one picked;
\* none; or, in the array of another function, the end of it.
Outcome(F, p, found) ==
    \/ /\ found.what \in {"none", "fits", "query"} /\ found.param \in Nat /\ found.at \in Nat
       /\ found.at = 0 <=> found.what = "none"
       /\ found.at # 0 => found.at >= p /\ found.at <= Len(methods[F.array])
       /\ found.at # 0 /\ F.specific # 0 => found.at <= F.specific
    \/ found.what \in {"scan", "lost"} /\ F.array # F.generic

LEMMA StopsAre ==
    ASSUME NEW F \in Frames, FrameOK(methods, F), methods \in [Generic -> Seq(Meth)],
           NEW p \in Nat \ {0}, NEW from \in Nat, NEW found \in Stops(F, p, from)
    PROVE  Outcome(F, p, found)
<1> DEFINE first == Search(F, p, from)
           behind == IF first.at # 0 THEN {first}
                     ELSE {[Nothing EXCEPT !.what = what] : what \in {"scan", "lost"}}
<1>1. Outcome(F, p, first)
  BY SearchFinds DEF Outcome
<1>2. \/ found = first
      \/ F.array # F.generic /\ (found = Nothing \/ found \in behind)
  BY DEF Stops
<1>3. Outcome(F, p, Nothing)
  BY DEF Outcome, Nothing
<1>4. ASSUME NEW what \in {"scan", "lost"}, found = [Nothing EXCEPT !.what = what], F.array # F.generic
      PROVE  Outcome(F, p, found)
  <2>1. found.what = what
    BY <1>4 DEF Nothing
  <2> QED BY <1>4, <2>1 DEF Outcome
<1> HIDE DEF first
<1> QED BY <1>1, <1>2, <1>3, <1>4
-----------------------------------------------------------------------------
(* What a step has to show: a call begins, goes on or ends, or the methods *)
(* of a generic function that no call is in are replaced.                  *)

LEMMA OneIfIs == \A b \in BOOLEAN : OneIf(b) \in Nat /\ (b => OneIf(b) = 1) /\ (~b => OneIf(b) = 0)
BY DEF OneIf

LEMMA PushFits ==
    ASSUME NEW meths, NEW next, NEW frs, NEW cur, NEW err, Fits(meths, next, frs, cur, err),
           Len(frs) < MaxDepth,
           NEW F \in Frames, FrameOK(meths, F), F.phase \in {"arguments", "scan"}, F.saved = cur,
           \A h \in {F.generic, F.array} :
              (F.kind = "dispatch" /\ h = F.generic) \/ Called(frs, Len(frs), h),
           \A i \in DOMAIN frs :
              /\ frs[i].phase = "run" /\ \A k \in i + 1..Len(frs) : frs[k].phase # "run"
              /\ F.from # 0 \/ F.kind # "dispatch"
              /\ F.generic = frs[i].array
              => F.array = frs[i].array /\ F.from = frs[i].at,
           NEW new, Alike(meths, new),
           \A g \in Generic : \A p \in DOMAIN meths[g] :
              new[g][p].busy = meths[g][p].busy + OneIf(Picks(F, g, p))
    PROVE  Fits(new, next, Append(frs, F), [cur EXCEPT !.generic = F.generic], err)
<1> DEFINE n == Len(frs)
           frs2 == Append(frs, F)
<1>1. /\ MethodsOK(meths, next) /\ FramesOK(meths, frs) /\ Counted(meths, frs)
      /\ Within(frs, n, cur) /\ err \in {"none", "halted", "error"}
  BY DEF Fits
<1>2. frs \in Seq(Frames)
  BY <1>1 DEF FramesOK
<1>3. /\ Len(frs2) = n + 1 /\ n \in Nat /\ frs2[n + 1] = F
      /\ \A i \in 1..n : frs2[i] = frs[i]
  BY <1>2, AppendIs
<1>4. FramesOK(meths, frs2)
  BY <1>1, PushFrames
<1> HIDE DEF frs2, n
<1>5. MethodsOK(new, next) /\ FramesOK(new, frs2)
  BY <1>1, <1>4, AlikeKeeps
<1>6. Within(frs2, n + 1, [cur EXCEPT !.generic = F.generic])
  <2>1. F.generic \in Generic /\ F.phase # "run"
    BY DEF Frames
  <2>2. Within(frs2, n + 1, [cur EXCEPT !.generic = frs2[n + 1].generic])
    BY <1>1, <1>3, <2>1, WithinPush
  <2> QED BY <1>3, <2>2
<1>7. ASSUME NEW g \in Generic, NEW p \in DOMAIN new[g]
      PROVE  new[g][p].busy = Count(frs2, n + 1, g, p)
  <2>1. p \in DOMAIN meths[g] /\ meths[g][p].busy = Count(frs, n, g, p)
    BY <1>1 DEF Alike, Counted, n
  <2>2. Count(frs2, n, g, p) = Count(frs, n, g, p)
    BY ONLY <1>3, CountSame
  <2> DEFINE k == n + 1
  <2>3. k \in Nat \ {0} /\ k - 1 = n
    BY <1>3
  <2> HIDE DEF k
  <2>4. Count(frs2, k, g, p) = Count(frs2, n, g, p) + OneIf(Occupies(frs2[k], g, p))
                               + OneIf(Picks(frs2[k], g, p))
    BY ONLY <2>3, CountTop
  <2>5. ~Occupies(F, g, p)
    BY DEF Occupies
  <2>6. OneIf(Occupies(F, g, p)) = 0 /\ OneIf(Picks(F, g, p)) \in Nat
    BY <2>5 DEF OneIf
  <2>7. Count(frs, n, g, p) \in Nat
    BY <1>3, CountIs
  <2>8. Count(frs2, n + 1, g, p) = Count(frs, n, g, p) + OneIf(Picks(F, g, p))
    BY <1>3, <2>2, <2>4, <2>6, <2>7 DEF k
  <2> QED BY <2>1, <2>8
<1>8. Counted(new, frs2)
  BY <1>3, <1>7 DEF Counted
<1>9. Fits(new, next, frs2, [cur EXCEPT !.generic = F.generic], err)
  BY <1>1, <1>3, <1>5, <1>6, <1>8 DEF Fits
<1> QED BY <1>9 DEF frs2

LEMMA TopFits ==
    ASSUME NEW meths, NEW next, NEW frs, NEW cur, NEW err, Fits(meths, next, frs, cur, err),
           frs # << >>, frs[Len(frs)].phase # "run",
           NEW G \in Frames, FrameOK(meths, G), G.kind = frs[Len(frs)].kind,
           G.generic = frs[Len(frs)].generic, G.saved = frs[Len(frs)].saved,
           \/ G.array = frs[Len(frs)].array /\ G.from = frs[Len(frs)].from
           \/ frs[Len(frs)].array # G.generic /\ G.array = G.generic /\ G.from = 0,
           NEW cur2, cur2 = IF G.phase = "run"
                            THEN [cur EXCEPT !.method = [generic |-> G.array, at |-> G.at]]
                            ELSE cur,
           NEW new, Alike(meths, new),
           \A g \in Generic : \A p \in DOMAIN meths[g] :
              new[g][p].busy = Count(frs, Len(frs) - 1, g, p) + OneIf(Occupies(G, g, p))
                                                              + OneIf(Picks(G, g, p))
    PROVE  Fits(new, next, [frs EXCEPT ![Len(frs)] = G], cur2, err)
<1> DEFINE n == Len(frs)
           frs2 == [frs EXCEPT ![n] = G]
<1>1. /\ MethodsOK(meths, next) /\ FramesOK(meths, frs) /\ Counted(meths, frs)
      /\ Within(frs, n, cur) /\ err \in {"none", "halted", "error"}
  BY DEF Fits
<1>2. frs \in Seq(Frames)
  BY <1>1 DEF FramesOK
<1>3. n \in Nat \ {0}
  BY <1>2, TopIs
<1>4. Len(frs2) = n /\ frs2[n] = G /\ \A i \in 1..n - 1 : frs2[i] = frs[i]
  BY <1>2, ExceptIs
<1>5. FramesOK(meths, frs2)
  BY <1>1, TopFrames
<1>6. frs[n].phase # "run" /\ G.generic = frs[n].generic
  OBVIOUS
<1> HIDE DEF frs2, n
<1>7. MethodsOK(new, next) /\ FramesOK(new, frs2)
  BY <1>1, <1>5, AlikeKeeps
<1>8. Within(frs2, n, cur2)
  <2>1. CASE G.phase # "run"
    BY <1>1, <1>3, <1>4, <1>6, <2>1, WithinTop
  <2>2. CASE G.phase = "run"
    <3>1. cur \in Current /\ cur.generic = frs2[n].generic
      BY <1>1, <1>3, <1>4, <1>6 DEF Within
    <3>2. G.array \in Generic /\ G.at \in Nat
      BY DEF Frames
    <3>3. frs2[n].phase = "run" /\ frs2[n].array \in Generic /\ frs2[n].at \in Nat
      BY <1>4, <2>2, <3>2
    <3>4. Within(frs2, n, [cur EXCEPT !.method = [generic |-> frs2[n].array, at |-> frs2[n].at]])
      BY <1>3, <3>1, <3>3, WithinRun
    <3> QED BY <1>4, <2>2, <3>4
  <2> QED BY <2>1, <2>2
<1>9. ASSUME NEW g \in Generic, NEW p \in DOMAIN new[g]
      PROVE  new[g][p].busy = Count(frs2, n, g, p)
  <2>1. p \in DOMAIN meths[g]
    BY DEF Alike
  <2> DEFINE k == n - 1
  <2>2. k \in Nat /\ \A i \in 1..k : frs2[i] = frs[i]
    BY <1>3, <1>4
  <2> HIDE DEF k
  <2>3. Count(frs2, k, g, p) = Count(frs, k, g, p)
    BY ONLY <2>2, CountSame
  <2>4. Count(frs2, n, g, p) = Count(frs2, n - 1, g, p) + OneIf(Occupies(frs2[n], g, p))
                               + OneIf(Picks(frs2[n], g, p))
    BY <1>3, CountTop
  <2> QED BY <1>4, <2>1, <2>3, <2>4 DEF n, k
<1>10. Counted(new, frs2)
  BY <1>4, <1>9 DEF Counted
<1>11. Fits(new, next, frs2, cur2, err)
  BY <1>1, <1>4, <1>7, <1>8, <1>10 DEF Fits
<1> QED BY <1>11 DEF frs2, n

LEMMA PopFits ==
    ASSUME NEW meths, NEW next, NEW frs, NEW cur, NEW err, Fits(meths, next, frs, cur, err),
           frs # << >>,
           NEW new, Alike(meths, new),
           \A g \in Generic : \A p \in DOMAIN meths[g] :
              new[g][p].busy = Count(frs, Len(frs) - 1, g, p),
           NEW err2 \in {"none", "halted", "error"}
    PROVE  Fits(new, next, Front(frs), frs[Len(frs)].saved, err2)
<1> DEFINE n == Len(frs)
           frs2 == Front(frs)
<1>1. MethodsOK(meths, next) /\ FramesOK(meths, frs)
  BY DEF Fits
<1>2. frs \in Seq(Frames) /\ Nested(frs)
  BY <1>1 DEF FramesOK
<1>3. /\ n \in Nat \ {0} /\ n \in DOMAIN frs /\ Len(frs2) = n - 1
      /\ \A i \in 1..n - 1 : frs2[i] = frs[i]
  BY <1>2, TopIs
<1>4. FramesOK(meths, frs2)
  BY <1>1, PopFrames
<1>5. Within(frs, n - 1, frs[n].saved)
  BY <1>2, <1>3 DEF Nested
<1> HIDE DEF frs2, n
<1>6. n - 1 \in Nat
  BY <1>3
<1>7. MethodsOK(new, next) /\ FramesOK(new, frs2)
  BY <1>1, <1>4, AlikeKeeps
<1>8. Within(frs2, n - 1, frs[n].saved)
  BY <1>3, <1>5, <1>6, WithinSame
<1>9. ASSUME NEW g \in Generic, NEW p \in DOMAIN new[g]
      PROVE  new[g][p].busy = Count(frs2, n - 1, g, p)
  <2>1. p \in DOMAIN meths[g]
    BY DEF Alike
  <2>2. Count(frs2, n - 1, g, p) = Count(frs, n - 1, g, p)
    BY <1>3, <1>6, CountSame
  <2> QED BY <2>1, <2>2 DEF n
<1>10. Counted(new, frs2)
  BY <1>3, <1>9 DEF Counted
<1>11. Fits(new, next, frs2, frs[n].saved, err2)
  BY <1>3, <1>7, <1>8, <1>10 DEF Fits
<1> QED BY <1>11 DEF frs2, n

\* No call is in a method of g, nor is to call one it has picked.
Quiet(frs, g) == \A i \in DOMAIN frs : frs[i].array = g => frs[i].at = 0 /\ frs[i].specific = 0

LEMMA ReplaceFits ==
    ASSUME NEW meths, NEW next, NEW frs, NEW cur, NEW err, Fits(meths, next, frs, cur, err),
           NEW g \in Generic, Quiet(frs, g), MaxMethods[g] \in Nat,
           NEW s \in Seq(Meth), Len(s) <= MaxMethods[g], NEW new \in Nat, new <= MaxMethods[g] + 1,
           \A p \in DOMAIN s : s[p].busy = 0 /\ s[p].index < new /\ s[p].index <= MaxMethods[g],
           \A p, q \in DOMAIN s : p # q => s[p].index # s[q].index,
           NEW err2 \in {"none", "halted", "error"}
    PROVE  Fits([meths EXCEPT ![g] = s], [next EXCEPT ![g] = new], frs, cur, err2)
<1> DEFINE meths2 == [meths EXCEPT ![g] = s]
           next2 == [next EXCEPT ![g] = new]
           n == Len(frs)
<1>1. /\ MethodsOK(meths, next) /\ FramesOK(meths, frs) /\ Counted(meths, frs)
      /\ Within(frs, n, cur)
  BY DEF Fits
<1>2. meths \in [Generic -> Seq(Meth)] /\ next \in [Generic -> Nat]
  BY <1>1 DEF MethodsOK
<1>3. /\ meths2 \in [Generic -> Seq(Meth)] /\ meths2[g] = s
      /\ \A h \in Generic : h # g => meths2[h] = meths[h]
  BY <1>2
<1>4. /\ next2 \in [Generic -> Nat] /\ next2[g] = new
      /\ \A h \in Generic : h # g => next2[h] = next[h]
  BY <1>2
<1>5. /\ frs \in Seq(Frames) /\ n \in Nat /\ DOMAIN frs = 1..n
      /\ \A i \in DOMAIN frs : frs[i] \in Frames
  BY <1>1 DEF FramesOK
<1>6. Len(s) \in Nat
  OBVIOUS
<1> HIDE DEF meths2, next2, n
<1>7. MethodsOK(meths2, next2)
  <2>1. ASSUME NEW h \in Generic
        PROVE  /\ next2[h] <= MaxMethods[h] + 1 /\ Len(meths2[h]) <= MaxMethods[h]
               /\ \A p \in DOMAIN meths2[h] : meths2[h][p].index < next2[h]
                                              /\ meths2[h][p].index <= MaxMethods[h]
               /\ \A p, q \in DOMAIN meths2[h] : p # q => meths2[h][p].index # meths2[h][q].index
    <3>1. CASE h = g
      BY <1>3, <1>4, <3>1
    <3>2. CASE h # g
      BY <1>1, <1>3, <1>4, <3>2 DEF MethodsOK
    <3> QED BY <3>1, <3>2
  <2> QED BY <1>3, <1>4, <2>1 DEF MethodsOK
<1>8. FramesOK(meths2, frs)
  <2>1. ASSUME NEW i \in DOMAIN frs
        PROVE  FrameOK(meths2, frs[i])
    <3>1. FrameOK(meths, frs[i]) /\ frs[i] \in Frames /\ frs[i].array \in Generic
      BY <1>1, <1>5 DEF FramesOK, Frames
    <3>2. CASE frs[i].array # g
      BY <1>3, <3>1, <3>2 DEF FrameOK
    <3>3. CASE frs[i].array = g
      <4>1. frs[i].at = 0 /\ frs[i].specific = 0
        BY <3>3 DEF Quiet
      <4>2. 0 <= Len(meths2[g])
        BY <1>3, <1>6
      <4> QED BY <3>1, <3>3, <4>1, <4>2 DEF FrameOK
    <3> QED BY <3>2, <3>3
  <2> QED BY <1>1, <2>1 DEF FramesOK
<1>9. ASSUME NEW h \in Generic, NEW p \in DOMAIN meths2[h]
      PROVE  meths2[h][p].busy = Count(frs, n, h, p)
  <2>1. CASE h # g
    BY <1>1, <1>3, <2>1 DEF Counted, n
  <2>2. CASE h = g
    <3>1. p \in Nat \ {0}
      BY <1>3, <1>6, <2>2
    <3>2. \A i \in 1..n : ~Occupies(frs[i], h, p) /\ ~Picks(frs[i], h, p)
      BY <1>5, <2>2, <3>1 DEF Quiet, Occupies, Picks
    <3>3. Count(frs, n, h, p) = 0
      BY <1>5, <3>2, CountIs
    <3> QED BY <1>3, <2>2, <3>3
  <2> QED BY <2>1, <2>2
<1>10. Counted(meths2, frs)
  BY <1>9 DEF Counted, n
<1>11. Fits(meths2, next2, frs, cur, err2)
  BY <1>1, <1>7, <1>8, <1>10 DEF Fits, n
<1> QED BY <1>11 DEF meths2, next2
-----------------------------------------------------------------------------
(* The steps, one after the other.                                         *)

\* The body of MethodsStay.
Stays ==
    \A g \in Generic :
        (\E i \in DOMAIN frames : \E p \in DOMAIN methods[g] :
            Occupies(frames[i], g, p) \/ Picks(frames[i], g, p))
           => /\ Len(methods'[g]) = Len(methods[g])
              /\ \A p \in DOMAIN methods[g] :
                    [methods'[g][p] EXCEPT !.busy = 0] = [methods[g][p] EXCEPT !.busy = 0]

LEMMA AlikeStays ==
    ASSUME methods \in [Generic -> Seq(Meth)], Alike(methods, methods')
    PROVE  Stays
<1>1. ASSUME NEW a \in Meth, NEW b \in Meth, a.params = b.params, a.wild = b.wild,
             a.index = b.index
      PROVE  [a EXCEPT !.busy = 0] = [b EXCEPT !.busy = 0]
  BY <1>1 DEF Meth
<1>2. ASSUME NEW g \in Generic
      PROVE  /\ Len(methods'[g]) = Len(methods[g])
             /\ \A p \in DOMAIN methods[g] :
                   [methods'[g][p] EXCEPT !.busy = 0] = [methods[g][p] EXCEPT !.busy = 0]
  <2>1. /\ methods'[g] \in Seq(Meth) /\ methods[g] \in Seq(Meth)
        /\ Len(methods'[g]) = Len(methods[g]) /\ DOMAIN methods'[g] = DOMAIN methods[g]
        /\ \A p \in DOMAIN methods[g] :
              /\ methods'[g][p].params = methods[g][p].params
              /\ methods'[g][p].wild = methods[g][p].wild
              /\ methods'[g][p].index = methods[g][p].index
    BY DEF Alike
  <2>2. \A p \in DOMAIN methods[g] : methods'[g][p] \in Meth /\ methods[g][p] \in Meth
    BY <2>1
  <2> QED BY <1>1, <2>1, <2>2
<1> QED BY <1>2 DEF Stays

\* What the steps that follow a call rely on of the innermost one.
LEMMA InnermostFrame ==
    ASSUME GenericsIInv, frames # << >>
    PROVE  /\ methods \in [Generic -> Seq(Meth)] /\ frames \in Seq(Frames)
           /\ Len(frames) \in Nat \ {0} /\ Len(frames) \in DOMAIN frames
           /\ Top = frames[Len(frames)] /\ Top \in Frames /\ FrameOK(methods, Top)
           /\ Top.array \in Generic /\ methods[Top.array] \in Seq(Meth)
           /\ Top.generic \in Generic
           /\ Top.saved \in Current
<1>1. MethodsOK(methods, new_index) /\ FramesOK(methods, frames)
  BY DEF GenericsIInv, Fits
<1>2. methods \in [Generic -> Seq(Meth)] /\ frames \in Seq(Frames)
  BY <1>1 DEF MethodsOK, FramesOK
<1>3. /\ Len(frames) \in Nat \ {0} /\ Len(frames) \in DOMAIN frames
      /\ frames[Len(frames)] \in Frames
  BY <1>2, TopIs
<1>4. Top = frames[Len(frames)]
  BY DEF Top, Last1
<1>5. FrameOK(methods, Top)
  BY <1>1, <1>3, <1>4 DEF FramesOK
<1>6. Top.generic \in Generic /\ Top.array \in Generic /\ Top.saved \in Current
  BY <1>3, <1>4 DEF Frames
<1> QED BY <1>2, <1>3, <1>4, <1>5, <1>6

\* The search stops: what is held besides the innermost call is counted in busy.
LEMMA StopFits ==
    ASSUME GenericsIInv, frames # << >>, Top.phase \in {"scan", "query"},
           NEW busy, Alike(methods, busy),
           \A g \in Generic : \A p \in DOMAIN methods[g] :
              busy[g][p].busy = Count(frames, Len(frames) - 1, g, p) + OneIf(Picks(Top, g, p)),
           NEW low \in Nat, NEW found, Outcome(Top, low, found),
           Top.specific = 0 => low > Top.from, Top.specific # 0 => low >= Top.specific,
           Stop(found, busy), new_index' = new_index
    PROVE  GenericsIInv' /\ Alike(methods, methods')
<1> DEFINE n == Len(frames)
           F == Top
           h == F.array
<1>1. /\ n \in Nat \ {0} /\ F = frames[n] /\ F \in Frames /\ FrameOK(methods, F)
      /\ h \in Generic /\ methods \in [Generic -> Seq(Meth)] /\ n \in DOMAIN frames
      /\ F.phase # "run"
  BY InnermostFrame
<1>2. /\ Fits(methods, new_index, frames, current, error)
      /\ busy \in [Generic -> Seq(Meth)] /\ \A g \in Generic : DOMAIN busy[g] = DOMAIN methods[g]
  BY DEF GenericsIInv, Alike
<1>3. Len(methods[h]) \in Nat /\ DOMAIN methods[h] = 1..Len(methods[h])
  BY <1>1
<1>4. \A g \in Generic : \A p \in DOMAIN methods[g] :
         Count(frames, n - 1, g, p) \in Nat /\ OneIf(Picks(F, g, p)) \in Nat
  <2>1. n - 1 \in Nat
    BY <1>1
  <2>2. \A g, p : Count(frames, n - 1, g, p) \in Nat
    BY ONLY <2>1, CountIs
  <2> QED BY <2>2 DEF OneIf
<1>5. /\ F.at \in Nat /\ F.specific \in Nat /\ F.from \in Nat /\ F.args \in Arguments
      /\ F.saved \in Current /\ F.kind \in {"dispatch", "next", "probe"} /\ F.param \in Nat
  BY <1>1 DEF Frames
<1>6. ASSUME NEW G \in Frames, FrameOK(methods, G), G.kind = F.kind, G.generic = F.generic,
             G.saved = F.saved, G.specific = F.specific,
             \/ G.array = F.array /\ G.from = F.from
             \/ F.array # G.generic /\ G.array = G.generic /\ G.from = 0,
             frames' = [frames EXCEPT ![n] = G], error' = error,
             current' = IF G.phase = "run"
                        THEN [current EXCEPT !.method = [generic |-> G.array, at |-> G.at]]
                        ELSE current,
             Alike(methods, methods'),
             \A g \in Generic : \A q \in DOMAIN methods[g] :
                methods'[g][q].busy = Count(frames, n - 1, g, q) + OneIf(Occupies(G, g, q))
                                                                 + OneIf(Picks(G, g, q))
      PROVE  GenericsIInv' /\ Alike(methods, methods')
  <2>1. frames[n].phase # "run" /\ G.kind = frames[n].kind /\ G.generic = frames[n].generic
        /\ G.saved = frames[n].saved
        /\ \/ G.array = frames[n].array /\ G.from = frames[n].from
           \/ frames[n].array # G.generic /\ G.array = G.generic /\ G.from = 0
    BY <1>1, <1>6
  <2>2. Fits(methods', new_index, [frames EXCEPT ![n] = G], current', error)
    BY <1>2, <1>6, <2>1, TopFits
  <2> QED BY <1>6, <2>2 DEF GenericsIInv
<1>7. ASSUME Alike(methods, methods'), Return, error' \in {"none", "halted", "error"},
             \A g \in Generic : \A p \in DOMAIN methods[g] :
                methods'[g][p].busy = Count(frames, n - 1, g, p)
      PROVE  GenericsIInv' /\ Alike(methods, methods')
  <2>1. frames' = Front(frames) /\ current' = frames[n].saved
    BY <1>1, <1>7 DEF Return
  <2>2. Fits(methods', new_index, Front(frames), frames[n].saved, error')
    BY <1>2, <1>7, PopFits
  <2> QED BY <1>7, <2>1, <2>2 DEF GenericsIInv
<1>8. \/ /\ found.what \in {"none", "fits", "query"} /\ found.param \in Nat /\ found.at \in Nat
         /\ found.at = 0 <=> found.what = "none"
         /\ found.at # 0 => /\ found.at \in DOMAIN methods[h] /\ found.at <= Len(methods[h])
                            /\ F.specific = 0 => found.at > F.from
                            /\ F.specific # 0 => found.at = F.specific
      \/ found.what \in {"scan", "lost"} /\ F.array # F.generic
  <2>1. CASE found.what \in {"scan", "lost"}
    BY <2>1 DEF Outcome
  <2>2. CASE found.what \notin {"scan", "lost"}
    <3>1. /\ found.what \in {"none", "fits", "query"} /\ found.param \in Nat /\ found.at \in Nat
          /\ found.at = 0 <=> found.what = "none"
          /\ found.at # 0 => found.at >= low /\ found.at <= Len(methods[h])
          /\ found.at # 0 /\ F.specific # 0 => found.at <= F.specific
      BY <2>2 DEF Outcome
    <3>2. (F.specific = 0 => low > F.from) /\ (F.specific # 0 => low >= F.specific)
      OBVIOUS
    <3>3. h \in Generic
      BY <1>1
    <3> HIDE DEF h, F
    <3> QED BY <1>3, <1>5, <3>1, <3>2
  <2> QED BY <2>1, <2>2
<1>9. ASSUME found.at # 0, found.what \in {"fits", "query"}
      PROVE  /\ Alike(methods, Bump(busy, h, found.at, 1))
             /\ \A g \in Generic : \A q \in DOMAIN methods[g] :
                   Bump(busy, h, found.at, 1)[g][q].busy
                      = busy[g][q].busy + (IF g = h /\ q = found.at THEN 1 ELSE 0)
  <2> DEFINE at == found.at
  <2>1. at \in DOMAIN busy[h] /\ h \in Generic
    BY <1>1, <1>2, <1>8, <1>9
  <2>2. \A g \in Generic : \A q \in DOMAIN busy[g] : busy[g][q].busy \in Nat
    BY <1>2, <1>4
  <2>3. 1 \in Int /\ busy[h][at].busy + 1 >= 0
    BY <2>1, <2>2
  <2> HIDE DEF at, h, F
  <2>4. /\ Alike(busy, Bump(busy, h, at, 1))
        /\ \A g \in Generic : \A q \in DOMAIN busy[g] :
              Bump(busy, h, at, 1)[g][q].busy = busy[g][q].busy + (IF g = h /\ q = at THEN 1 ELSE 0)
    BY ONLY <1>2, <2>1, <2>3, BumpIs
  <2>5. Alike(methods, Bump(busy, h, at, 1))
    BY <2>4, AlikeThen
  <2> QED BY <1>2, <2>4, <2>5 DEF at
<1>10. CASE /\ found.what = "query"
            /\ methods' = IF F.specific # 0 THEN busy ELSE Bump(busy, h, found.at, 1)
            /\ frames' = [frames EXCEPT ![n].phase = "query", ![n].at = found.at,
                                        ![n].param = found.param]
            /\ UNCHANGED <<current, error>>
  <2> DEFINE G == [F EXCEPT !.phase = "query", !.at = found.at, !.param = found.param]
  <2>1. found.at # 0 /\ found.at \in Nat /\ found.param \in Nat /\ found.at <= Len(methods[h])
        /\ (F.specific = 0 => found.at > F.from) /\ (F.specific # 0 => found.at = F.specific)
    BY <1>8, <1>10
  <2>2. /\ G \in Frames /\ G.phase = "query" /\ G.at = found.at /\ G.kind = F.kind
        /\ G.generic = F.generic /\ G.from = F.from /\ G.saved = F.saved
        /\ G.specific = F.specific /\ G.array = F.array
    BY <1>1, <2>1 DEF Frames
  <2>3. frames' = [frames EXCEPT ![n] = G] /\ error' = error /\ current' = current
    BY <1>1, <1>10
  <2> HIDE DEF G
  <2>4. FrameOK(methods, G) /\ G.phase # "run"
    BY <1>1, <2>1, <2>2 DEF FrameOK
  <2>5. Alike(methods, methods')
    BY <1>9, <1>10, <2>1
  <2>6. ASSUME NEW g \in Generic, NEW q \in DOMAIN methods[g]
        PROVE  methods'[g][q].busy = Count(frames, n - 1, g, q) + OneIf(Occupies(G, g, q))
                                                                + OneIf(Picks(G, g, q))
    <3>1. OneIf(Occupies(G, g, q)) = IF g = h /\ q = found.at /\ F.specific = 0 THEN 1 ELSE 0
      BY <2>2 DEF OneIf, Occupies
    <3>2. OneIf(Picks(G, g, q)) = OneIf(Picks(F, g, q))
      BY <2>2 DEF OneIf, Picks
    <3>3. methods'[g][q].busy = IF F.specific # 0 THEN busy[g][q].busy
                                ELSE busy[g][q].busy + (IF g = h /\ q = found.at THEN 1 ELSE 0)
      BY <1>9, <1>10, <2>1
    <3>4. busy[g][q].busy = Count(frames, n - 1, g, q) + OneIf(Picks(F, g, q))
      OBVIOUS
    <3> HIDE DEF h, F, n
    <3> QED BY <1>4, <3>1, <3>2, <3>3, <3>4
  <2> QED BY <1>6, <2>2, <2>3, <2>4, <2>5, <2>6
<1>11. CASE /\ found.what = "fits" /\ F.kind # "probe"
            /\ methods' = Bump(busy, h, found.at, 1)
            /\ frames' = [frames EXCEPT ![n].phase = "run", ![n].at = found.at]
            /\ current' = [current EXCEPT !.method = [generic |-> h, at |-> found.at]]
            /\ UNCHANGED error
  <2> DEFINE G == [F EXCEPT !.phase = "run", !.at = found.at]
  <2>1. found.at # 0 /\ found.at \in Nat /\ found.at <= Len(methods[h])
        /\ (F.specific = 0 => found.at > F.from) /\ (F.specific # 0 => found.at = F.specific)
    BY <1>8, <1>11
  <2>2. /\ G \in Frames /\ G.phase = "run" /\ G.at = found.at /\ G.kind = F.kind
        /\ G.generic = F.generic /\ G.from = F.from /\ G.saved = F.saved
        /\ G.specific = F.specific /\ G.array = F.array
    BY <1>1, <2>1 DEF Frames
  <2>3. frames' = [frames EXCEPT ![n] = G] /\ error' = error
    BY <1>1, <1>11
  <2> HIDE DEF G
  <2>4. FrameOK(methods, G)
    BY <1>1, <2>1, <2>2 DEF FrameOK
  <2>5. Alike(methods, methods')
    BY <1>9, <1>11, <2>1
  <2>6. ASSUME NEW g \in Generic, NEW q \in DOMAIN methods[g]
        PROVE  methods'[g][q].busy = Count(frames, n - 1, g, q) + OneIf(Occupies(G, g, q))
                                                                + OneIf(Picks(G, g, q))
    <3>1. OneIf(Occupies(G, g, q)) = IF g = h /\ q = found.at THEN 1 ELSE 0
      BY <2>2 DEF OneIf, Occupies
    <3>2. OneIf(Picks(G, g, q)) = OneIf(Picks(F, g, q))
      BY <2>2 DEF OneIf, Picks
    <3>3. methods'[g][q].busy = busy[g][q].busy + (IF g = h /\ q = found.at THEN 1 ELSE 0)
      BY <1>9, <1>11, <2>1
    <3>4. busy[g][q].busy = Count(frames, n - 1, g, q) + OneIf(Picks(F, g, q))
      OBVIOUS
    <3> HIDE DEF h, F, n
    <3> QED BY <1>4, <3>1, <3>2, <3>3, <3>4
  <2>7. current' = [current EXCEPT !.method = [generic |-> G.array, at |-> G.at]]
    BY <1>11, <2>2
  <2> QED BY <1>6, <2>2, <2>3, <2>4, <2>5, <2>6, <2>7
<1>12. CASE /\ found.what \in {"scan", "lost"}
            /\ methods' = busy
            /\ frames' = [frames EXCEPT ![n].phase = found.what, ![n].array = F.generic,
                                        ![n].from = 0, ![n].at = 0]
            /\ UNCHANGED <<current, error>>
  <2> DEFINE G == [F EXCEPT !.phase = found.what, !.array = F.generic, !.from = 0, !.at = 0]
  <2>1. F.array # F.generic /\ F.specific = 0 /\ F.generic \in Generic
    BY <1>1, <1>5, <1>8, <1>12 DEF FrameOK, Frames
  <2>2. /\ G \in Frames /\ G.phase \in {"scan", "lost"} /\ G.at = 0 /\ G.kind = F.kind
        /\ G.generic = F.generic /\ G.from = 0 /\ G.saved = F.saved
        /\ G.specific = 0 /\ G.array = G.generic
    BY <1>1, <1>12, <2>1 DEF Frames
  <2>3. frames' = [frames EXCEPT ![n] = G] /\ error' = error /\ current' = current
    BY <1>1, <1>12
  <2> HIDE DEF G
  <2>4. FrameOK(methods, G) /\ G.phase # "run"
    <3>1. 0 <= Len(methods[G.array])
      BY <1>1, <2>1, <2>2
    <3> QED BY <1>1, <2>2, <3>1 DEF FrameOK
  <2>5. ASSUME NEW g \in Generic, NEW q \in DOMAIN methods[g]
        PROVE  methods'[g][q].busy = Count(frames, n - 1, g, q) + OneIf(Occupies(G, g, q))
                                                                + OneIf(Picks(G, g, q))
    <3>1. q # 0
      BY <1>1
    <3>2. OneIf(Occupies(G, g, q)) = 0 /\ OneIf(Picks(G, g, q)) = 0 /\ OneIf(Picks(F, g, q)) = 0
      BY <2>1, <2>2, <3>1 DEF OneIf, Occupies, Picks
    <3>3. busy[g][q].busy = Count(frames, n - 1, g, q) + OneIf(Picks(F, g, q))
      OBVIOUS
    <3>4. methods' = busy
      BY <1>12
    <3> HIDE DEF h, F, n
    <3> QED BY <1>4, <3>2, <3>3, <3>4
  <2>6. Alike(methods, methods')
    BY <1>12
  <2>7. F.array # G.generic
    BY <2>1, <2>2
  <2> QED BY <1>6, <2>1, <2>2, <2>3, <2>4, <2>5, <2>6, <2>7
<1>13. CASE /\ found.what \in {"fits", "none"} /\ F.kind = "probe"
            /\ methods' = busy
            /\ Return
            /\ UNCHANGED error
  <2>1. F.specific = 0
    BY <1>1, <1>5, <1>13 DEF FrameOK
  <2>2. error' \in {"none", "halted", "error"}
    BY <1>2, <1>13 DEF Fits
  <2>3. ASSUME NEW g \in Generic, NEW p \in DOMAIN methods[g]
        PROVE  methods'[g][p].busy = Count(frames, n - 1, g, p)
    <3>1. p # 0
      BY <1>1
    <3>2. ~Picks(F, g, p)
      BY <2>1, <3>1 DEF Picks
    <3>3. busy[g][p].busy = Count(frames, n - 1, g, p) + OneIf(Picks(F, g, p))
      OBVIOUS
    <3>4. OneIf(Picks(F, g, p)) = 0
      BY <3>2 DEF OneIf
    <3> HIDE DEF h, F, n
    <3> QED BY <1>4, <1>13, <3>3, <3>4
  <2> QED BY <1>7, <1>13, <2>2, <2>3
<1>14. CASE /\ found.what = "none" /\ F.kind # "probe"
            /\ methods' = IF F.specific # 0 THEN Bump(busy, F.generic, F.specific, -1) ELSE busy
            /\ Return
            /\ error' = "error"
  <2>1. CASE F.specific = 0
    <3>1. ASSUME NEW g \in Generic, NEW p \in DOMAIN methods[g]
          PROVE  methods'[g][p].busy = Count(frames, n - 1, g, p)
      <4>1. p # 0
        BY <1>1
      <4>2. ~Picks(F, g, p)
        BY <2>1, <4>1 DEF Picks
      <4>3. busy[g][p].busy = Count(frames, n - 1, g, p) + OneIf(Picks(F, g, p))
        OBVIOUS
      <4>4. OneIf(Picks(F, g, p)) = 0
        BY <4>2 DEF OneIf
      <4>5. methods' = busy
        BY <1>14, <2>1
      <4> HIDE DEF h, F, n
      <4> QED BY <1>4, <4>3, <4>4, <4>5
    <3> QED BY <1>7, <1>14, <2>1, <3>1
  <2>2. CASE F.specific # 0
    <3>1. F.specific \in DOMAIN methods[h] /\ F.specific \in DOMAIN busy[h]
      BY <1>1, <1>2, <1>3, <1>5, <2>2 DEF FrameOK
    <3>2. Picks(F, h, F.specific) /\ OneIf(Picks(F, h, F.specific)) = 1
      BY DEF Picks, OneIf
    <3>3. busy[h][F.specific].busy + -1 >= 0
      <4>1. busy[h][F.specific].busy = Count(frames, n - 1, h, F.specific) + 1
        BY <1>1, <3>1, <3>2
      <4>2. Count(frames, n - 1, h, F.specific) \in Nat
        BY <1>1, <1>4, <3>1
      <4> HIDE DEF h, F, n
      <4> QED BY <4>1, <4>2
    <3>4. methods' = Bump(busy, h, F.specific, -1)
      BY <1>1, <1>14, <2>2 DEF FrameOK
    <3>5. /\ Alike(busy, methods')
          /\ \A g \in Generic : \A p \in DOMAIN busy[g] :
                methods'[g][p].busy = busy[g][p].busy + (IF g = h /\ p = F.specific THEN -1 ELSE 0)
      BY <1>1, <1>2, <3>1, <3>3, <3>4, BumpIs
    <3>6. Alike(methods, methods')
      BY <3>5, AlikeThen
    <3>7. ASSUME NEW g \in Generic, NEW p \in DOMAIN methods[g]
          PROVE  methods'[g][p].busy = Count(frames, n - 1, g, p)
      <4>1. busy[g][p].busy = Count(frames, n - 1, g, p) + OneIf(Picks(F, g, p))
        OBVIOUS
      <4>2. OneIf(Picks(F, g, p)) = IF g = h /\ p = F.specific THEN 1 ELSE 0
        BY DEF OneIf, Picks
      <4>3. methods'[g][p].busy = busy[g][p].busy + (IF g = h /\ p = F.specific THEN -1 ELSE 0)
        BY <1>2, <3>5
      <4> HIDE DEF h, F, n
      <4> QED BY <1>4, <4>1, <4>2, <4>3
    <3> QED BY <1>7, <1>14, <3>6, <3>7
  <2> QED BY <2>1, <2>2
<1> QED BY <1>10, <1>11, <1>12, <1>13, <1>14 DEF Stop, Bump
\* What is held, without the innermost call and by it.
LEMMA TopCounts ==
    ASSUME GenericsIInv, frames # << >>, NEW g \in Generic, NEW p \in DOMAIN methods[g]
    PROVE  /\ methods[g][p].busy = Count(frames, Len(frames) - 1, g, p) + OneIf(Occupies(Top, g, p))
                                                                       + OneIf(Picks(Top, g, p))
           /\ Count(frames, Len(frames) - 1, g, p) \in Nat
           /\ OneIf(Occupies(Top, g, p)) \in Nat /\ OneIf(Picks(Top, g, p)) \in Nat
<1> DEFINE n == Len(frames)
<1>1. n \in Nat \ {0} /\ n - 1 \in Nat /\ Top = frames[n]
  BY InnermostFrame
<1>2. methods[g][p].busy = Count(frames, n, g, p)
  BY DEF GenericsIInv, Fits, Counted
<1> HIDE DEF n
<1>3. Count(frames, n, g, p) = Count(frames, n - 1, g, p) + OneIf(Occupies(frames[n], g, p))
                               + OneIf(Picks(frames[n], g, p))
  BY ONLY <1>1, CountTop
<1> DEFINE k == n - 1
<1>4. k \in Nat
  BY <1>1
<1> HIDE DEF k
<1>5. Count(frames, k, g, p) \in Nat
  BY ONLY <1>4, CountIs
<1>6. OneIf(Occupies(Top, g, p)) \in Nat /\ OneIf(Picks(Top, g, p)) \in Nat
  BY DEF OneIf
<1> QED BY <1>1, <1>2, <1>3, <1>5, <1>6 DEF n, k

LEMMA StepFindApplicableMethod ==
    ASSUME GenericsIInv, FindApplicableMethod
    PROVE  GenericsIInv' /\ Alike(methods, methods')
<1> DEFINE F == Top
           p == IF F.specific # 0 THEN F.specific ELSE F.from + 1
<1>1. frames # << >> /\ F.phase = "scan" /\ new_index' = new_index
  BY DEF FindApplicableMethod, Phase
<1>2. PICK found \in Stops(F, p, 1) : Stop(found, methods)
  BY DEF FindApplicableMethod
<1>3. /\ F \in Frames /\ FrameOK(methods, F) /\ methods \in [Generic -> Seq(Meth)]
  BY <1>1, InnermostFrame
<1>4. F.specific \in Nat /\ F.from \in Nat
  BY <1>3 DEF Frames
<1>5. p \in Nat \ {0} /\ (F.specific # 0 => p = F.specific) /\ (F.specific = 0 => p > F.from)
  BY <1>4
<1> HIDE DEF p
<1>6. Outcome(F, p, found)
  BY <1>3, <1>5, StopsAre
<1>7. Alike(methods, methods)
  BY <1>3, AlikeSelf
<1>8. ASSUME NEW g \in Generic, NEW q \in DOMAIN methods[g]
      PROVE  methods[g][q].busy = Count(frames, Len(frames) - 1, g, q) + OneIf(Picks(F, g, q))
  <2>1. OneIf(Occupies(F, g, q)) = 0
    BY <1>1 DEF OneIf, Occupies
  <2> HIDE DEF F
  <2>2. /\ methods[g][q].busy = Count(frames, Len(frames) - 1, g, q) + OneIf(Occupies(F, g, q))
                                                                     + OneIf(Picks(F, g, q))
        /\ Count(frames, Len(frames) - 1, g, q) \in Nat /\ OneIf(Picks(F, g, q)) \in Nat
    BY <1>1, TopCounts DEF F
  <2> QED BY <2>1, <2>2
<1>9. (F.specific = 0 => p > F.from) /\ (F.specific # 0 => p >= F.specific)
  BY <1>4, <1>5
<1>10. F.phase \in {"scan", "query"}
  BY <1>1
<1> HIDE DEF F
<1> QED BY <1>1, <1>2, <1>5, <1>6, <1>7, <1>8, <1>9, <1>10, StopFits DEF F

LEMMA StepQueryDone ==
    ASSUME GenericsIInv, NEW answer \in BOOLEAN, QueryDone(answer)
    PROVE  GenericsIInv' /\ Alike(methods, methods')
<1> DEFINE F == Top
           h == F.array
           at == F.at
           p == IF answer THEN at ELSE at + 1
           from == IF answer THEN F.param + 1 ELSE 1
           by == IF F.specific # 0 THEN 0 ELSE -1
           busy == Bump(methods, h, at, by)
<1>1. frames # << >> /\ F.phase = "query" /\ new_index' = new_index
  BY DEF QueryDone, Phase
<1>2. PICK found \in Stops(F, p, from) : Stop(found, busy)
  <2>1. Stops(F, p, from) = IF answer THEN Stops(F, at, F.param + 1) ELSE Stops(F, at + 1, 1)
    OBVIOUS
  <2>2. busy = Busy(h, at, by)
    BY DEF Bump, Busy
  <2> QED BY <2>1, <2>2 DEF QueryDone
<1>3. /\ F \in Frames /\ FrameOK(methods, F) /\ methods \in [Generic -> Seq(Meth)]
      /\ h \in Generic
  BY <1>1, InnermostFrame
<1>4. F.specific \in Nat /\ F.from \in Nat /\ at \in Nat /\ F.param \in Nat /\ by \in Int
  BY <1>3 DEF Frames
<1>5. at # 0 /\ at <= Len(methods[h]) /\ at \in DOMAIN methods[h]
  BY <1>1, <1>3, <1>4 DEF FrameOK
<1>6. (F.specific = 0 => at > F.from) /\ (F.specific # 0 => at = F.specific)
  BY <1>3, <1>5 DEF FrameOK
<1>7. p \in Nat \ {0} /\ p >= at /\ from \in Nat
  BY <1>4, <1>5
<1> HIDE DEF p, from
<1>8. Outcome(F, p, found)
  BY <1>3, <1>7, StopsAre
<1>9. (F.specific = 0 => p > F.from) /\ (F.specific # 0 => p >= F.specific)
  BY <1>4, <1>6, <1>7
<1>10. by = IF F.specific = 0 THEN -1 ELSE 0
  OBVIOUS
<1> HIDE DEF h, at, by
<1>11. ASSUME NEW g \in Generic, NEW q \in DOMAIN methods[g]
       PROVE  /\ methods[g][q].busy = Count(frames, Len(frames) - 1, g, q)
                                      + (IF g = h /\ q = at THEN -by ELSE 0) + OneIf(Picks(F, g, q))
              /\ Count(frames, Len(frames) - 1, g, q) \in Nat /\ OneIf(Picks(F, g, q)) \in Nat
  <2>1. OneIf(Occupies(F, g, q)) = IF g = h /\ q = at THEN -by ELSE 0
    BY <1>1, <1>10 DEF OneIf, Occupies, h, at
  <2> QED BY <1>1, <2>1, TopCounts
<1>12. methods[h][at].busy + by >= 0
  <2>1. /\ methods[h][at].busy = Count(frames, Len(frames) - 1, h, at) + (-by) + OneIf(Picks(F, h, at))
        /\ Count(frames, Len(frames) - 1, h, at) \in Nat /\ OneIf(Picks(F, h, at)) \in Nat
    BY <1>3, <1>5, <1>11
  <2> HIDE DEF F
  <2> QED BY <1>4, <2>1
<1>13. /\ Alike(methods, busy)
       /\ \A g \in Generic : \A q \in DOMAIN methods[g] :
             busy[g][q].busy = methods[g][q].busy + (IF g = h /\ q = at THEN by ELSE 0)
  BY ONLY <1>3, <1>4, <1>5, <1>12, BumpIs
<1> HIDE DEF busy
<1>14. ASSUME NEW g \in Generic, NEW q \in DOMAIN methods[g]
       PROVE  busy[g][q].busy = Count(frames, Len(frames) - 1, g, q) + OneIf(Picks(F, g, q))
  <2> HIDE DEF F
  <2> QED BY <1>4, <1>11, <1>13
<1>15. F.phase \in {"scan", "query"}
  BY <1>1
<1> HIDE DEF F
<1> QED BY <1>1, <1>2, <1>7, <1>8, <1>9, <1>13, <1>14, <1>15, StopFits DEF F

LEMMA StepMethodDone ==
    ASSUME GenericsIInv, MethodDone
    PROVE  GenericsIInv' /\ Alike(methods, methods')
<1> DEFINE F == Top
           h == F.array
           at == F.at
           by == IF F.specific # 0 THEN -2 ELSE -1
<1>1. frames # << >> /\ F.phase = "run" /\ new_index' = new_index /\ error' = error
      /\ methods' = Bump(methods, h, at, by)
  BY DEF MethodDone, Phase, Busy, Bump
<1>2. /\ F \in Frames /\ FrameOK(methods, F) /\ methods \in [Generic -> Seq(Meth)]
      /\ h \in Generic /\ F = frames[Len(frames)]
  BY <1>1, InnermostFrame
<1>3. frames' = Front(frames) /\ current' = frames[Len(frames)].saved
  BY <1>2 DEF MethodDone, Return
<1>4. F.specific \in Nat /\ at \in Nat /\ by \in Int
  BY <1>2 DEF Frames
<1>5. at # 0 /\ at <= Len(methods[h]) /\ at \in DOMAIN methods[h]
  BY <1>1, <1>2, <1>4 DEF FrameOK
<1>6. F.specific # 0 => at = F.specific
  BY <1>2, <1>5 DEF FrameOK
<1>7. by = -1 - (IF F.specific # 0 THEN 1 ELSE 0)
  OBVIOUS
<1> HIDE DEF h, at, by
<1>8. ASSUME NEW g \in Generic, NEW q \in DOMAIN methods[g]
      PROVE  /\ methods[g][q].busy = Count(frames, Len(frames) - 1, g, q)
                                      + (IF g = h /\ q = at THEN -by ELSE 0)
             /\ Count(frames, Len(frames) - 1, g, q) \in Nat
  <2>1. OneIf(Occupies(F, g, q)) = IF g = h /\ q = at THEN 1 ELSE 0
    BY <1>1 DEF OneIf, Occupies, h, at
  <2>2. q # 0
    BY <1>2
  <2>3. OneIf(Picks(F, g, q)) = IF g = h /\ q = at /\ F.specific # 0 THEN 1 ELSE 0
    BY <1>6, <2>2 DEF OneIf, Picks, h
  <2>4. /\ methods[g][q].busy = Count(frames, Len(frames) - 1, g, q) + OneIf(Occupies(F, g, q))
                                + OneIf(Picks(F, g, q))
        /\ Count(frames, Len(frames) - 1, g, q) \in Nat
    BY <1>1, TopCounts
  <2> HIDE DEF F
  <2> QED BY <1>7, <2>1, <2>3, <2>4
<1>9. methods[h][at].busy + by >= 0
  <2>1. /\ methods[h][at].busy = Count(frames, Len(frames) - 1, h, at) + (-by)
        /\ Count(frames, Len(frames) - 1, h, at) \in Nat
    BY <1>2, <1>5, <1>8
  <2> HIDE DEF F
  <2> QED BY <1>4, <2>1
<1>10. /\ Alike(methods, Bump(methods, h, at, by))
       /\ \A g \in Generic : \A q \in DOMAIN methods[g] :
             Bump(methods, h, at, by)[g][q].busy
                = methods[g][q].busy + (IF g = h /\ q = at THEN by ELSE 0)
  BY ONLY <1>2, <1>4, <1>5, <1>9, BumpIs
<1>11. ASSUME NEW g \in Generic, NEW q \in DOMAIN methods[g]
       PROVE  methods'[g][q].busy = Count(frames, Len(frames) - 1, g, q)
  <2> HIDE DEF F
  <2> QED BY <1>1, <1>4, <1>8, <1>10
<1>12. Fits(methods, new_index, frames, current, error)
       /\ error \in {"none", "halted", "error"} /\ Alike(methods, methods')
  BY <1>1, <1>10 DEF GenericsIInv, Fits
<1>13. Fits(methods', new_index, Front(frames), frames[Len(frames)].saved, error)
  BY <1>1, <1>11, <1>12, PopFits
<1> QED BY <1>1, <1>3, <1>12, <1>13 DEF GenericsIInv

LEMMA StepArgumentsFail ==
    ASSUME GenericsIInv, ArgumentsFail
    PROVE  GenericsIInv' /\ Alike(methods, methods')
<1> DEFINE F == Top
           h == F.array
           at == F.specific
<1>1. frames # << >> /\ F.phase = "arguments" /\ new_index' = new_index /\ error' = error
      /\ methods' = IF at # 0 THEN Bump(methods, h, at, -1) ELSE methods
  <2>1. frames # << >> => FrameOK(methods, F)
    BY InnermostFrame
  <2> QED BY <2>1 DEF ArgumentsFail, Phase, Busy, Bump, FrameOK
<1>2. /\ F \in Frames /\ FrameOK(methods, F) /\ methods \in [Generic -> Seq(Meth)]
      /\ h \in Generic /\ F = frames[Len(frames)]
  BY <1>1, InnermostFrame
<1>3. frames' = Front(frames) /\ current' = frames[Len(frames)].saved
  BY <1>2 DEF ArgumentsFail, Return
<1>4. at \in Nat
  BY <1>2 DEF Frames
<1>5. at # 0 => at <= Len(methods[h]) /\ at \in DOMAIN methods[h]
  BY <1>2, <1>4 DEF FrameOK
<1> HIDE DEF h, at
<1>6. ASSUME NEW g \in Generic, NEW q \in DOMAIN methods[g]
      PROVE  /\ methods[g][q].busy = Count(frames, Len(frames) - 1, g, q)
                                      + (IF g = h /\ q = at THEN 1 ELSE 0)
             /\ Count(frames, Len(frames) - 1, g, q) \in Nat
  <2>1. OneIf(Occupies(F, g, q)) = 0
    BY <1>1 DEF OneIf, Occupies
  <2>2. OneIf(Picks(F, g, q)) = IF g = h /\ q = at THEN 1 ELSE 0
    BY DEF OneIf, Picks, h, at
  <2>3. /\ methods[g][q].busy = Count(frames, Len(frames) - 1, g, q) + OneIf(Occupies(F, g, q))
                                + OneIf(Picks(F, g, q))
        /\ Count(frames, Len(frames) - 1, g, q) \in Nat
    BY <1>1, TopCounts
  <2> HIDE DEF F
  <2> QED BY <2>1, <2>2, <2>3
<1>7. CASE at = 0
  <2>1. \A g \in Generic : \A q \in DOMAIN methods[g] : q # at
    BY <1>2, <1>7
  <2>2. ASSUME NEW g \in Generic, NEW q \in DOMAIN methods[g]
        PROVE  methods'[g][q].busy = Count(frames, Len(frames) - 1, g, q)
    <3> HIDE DEF F
    <3> QED BY <1>1, <1>6, <1>7, <2>1
  <2>3. Fits(methods, new_index, frames, current, error)
        /\ error \in {"none", "halted", "error"} /\ Alike(methods, methods')
    BY <1>1, <1>2, <1>7, AlikeSelf DEF GenericsIInv, Fits
  <2>4. Fits(methods', new_index, Front(frames), frames[Len(frames)].saved, error)
    BY <1>1, <2>2, <2>3, PopFits
  <2> QED BY <1>1, <1>3, <2>3, <2>4 DEF GenericsIInv
<1>8. CASE at # 0
  <2>1. methods[h][at].busy + -1 >= 0 /\ at \in DOMAIN methods[h]
    <3>1. at \in DOMAIN methods[h]
      BY <1>5, <1>8
    <3>2. /\ methods[h][at].busy = Count(frames, Len(frames) - 1, h, at) + 1
          /\ Count(frames, Len(frames) - 1, h, at) \in Nat
      BY <1>2, <1>6, <3>1
    <3> HIDE DEF F
    <3> QED BY <3>1, <3>2
  <2>2. -1 \in Int
    OBVIOUS
  <2>3. /\ Alike(methods, Bump(methods, h, at, -1))
        /\ \A g \in Generic : \A q \in DOMAIN methods[g] :
              Bump(methods, h, at, -1)[g][q].busy
                 = methods[g][q].busy + (IF g = h /\ q = at THEN -1 ELSE 0)
    BY ONLY <1>2, <2>1, <2>2, BumpIs
  <2>4. ASSUME NEW g \in Generic, NEW q \in DOMAIN methods[g]
        PROVE  methods'[g][q].busy = Count(frames, Len(frames) - 1, g, q)
    <3> HIDE DEF F
    <3> QED BY <1>1, <1>6, <1>8, <2>3
  <2>5. Fits(methods, new_index, frames, current, error)
        /\ error \in {"none", "halted", "error"} /\ Alike(methods, methods')
    BY <1>1, <1>8, <2>3 DEF GenericsIInv, Fits
  <2>6. Fits(methods', new_index, Front(frames), frames[Len(frames)].saved, error)
    BY <1>1, <2>4, <2>5, PopFits
  <2> QED BY <1>1, <1>3, <2>5, <2>6 DEF GenericsIInv
<1> QED BY <1>7, <1>8
\* A call begins: what is current, and the frame put on top.
NewFrame(kind, g, phase, array, from, specific, args) ==
    [kind |-> kind, generic |-> g, phase |-> phase, array |-> array, from |-> from,
     specific |-> specific, args |-> args, at |-> 0, param |-> 0, saved |-> current]

LEMMA Begins ==
    ASSUME GenericsIInv, NEW kind \in {"dispatch", "next", "probe"}, NEW g \in Generic,
           NEW phase \in {"arguments", "scan"}, NEW array, NEW from \in Nat, NEW specific \in Nat,
           NEW args \in Arguments,
           specific <= Len(methods[g]), kind # "dispatch" => phase # "arguments",
           specific # 0 => kind = "dispatch" /\ from = 0 /\ array = g,
           \/ kind = "dispatch" /\ array = g /\ from = 0
           \/ /\ current.method # NoMethod /\ g = current.generic
              /\ array = current.method.generic /\ from = current.method.at,
           Len(frames) < MaxDepth,
           frames' = Append(frames, NewFrame(kind, g, phase, array, from, specific, args)),
           current' = [current EXCEPT !.generic = g],
           new_index' = new_index, error' = error,
           Alike(methods, methods'),
           \A h \in Generic : \A p \in DOMAIN methods[h] :
              methods'[h][p].busy = methods[h][p].busy + (IF h = g /\ p = specific THEN 1 ELSE 0)
    PROVE  GenericsIInv'
<1> DEFINE F == NewFrame(kind, g, phase, array, from, specific, args)
           n == Len(frames)
<1>1. /\ Fits(methods, new_index, frames, current, error)
      /\ Within(frames, n, current) /\ frames \in Seq(Frames) /\ Nested(frames)
      /\ methods \in [Generic -> Seq(Meth)]
  BY DEF GenericsIInv, Fits, FramesOK, MethodsOK
<1>2. n \in Nat /\ DOMAIN frames = 1..n /\ \A h \in Generic : Len(methods[h]) \in Nat
  BY <1>1
<1>3. /\ F.kind = kind /\ F.generic = g /\ F.phase = phase /\ F.from = from /\ F.array = array
      /\ F.specific = specific /\ F.args = args /\ F.at = 0 /\ F.param = 0 /\ F.saved = current
  BY DEF NewFrame
<1>4. current \in Current
  BY <1>1 DEF Within
<1>5. ASSUME current.method # NoMethod, g = current.generic,
             array = current.method.generic, from = current.method.at
      PROVE  /\ \E j \in 1..n : /\ frames[j].phase = "run"
                                /\ \A k \in j + 1..n : frames[k].phase # "run"
                                /\ array = frames[j].array /\ from = frames[j].at
             /\ array \in Generic /\ Called(frames, n, g) /\ Called(frames, n, array)
  <2>1. PICK j \in 1..n : /\ frames[j].phase = "run" /\ \A k \in j + 1..n : frames[k].phase # "run"
                          /\ current.method = [generic |-> frames[j].array, at |-> frames[j].at]
    BY <1>1, <1>5 DEF Within
  <2>2. array = frames[j].array /\ from = frames[j].at
    BY <1>5, <2>1
  <2>3. n # 0 /\ n \in DOMAIN frames /\ j \in DOMAIN frames /\ j \in Nat /\ j <= n
    BY <1>2, <2>1
  <2>4. frames[n].generic = g /\ frames[j] \in Frames
    BY <1>1, <1>5, <2>3 DEF Within
  <2>5. Called(frames, n, g) /\ Called(frames, j, array)
    BY <1>1, <2>2, <2>3, <2>4 DEF Nested
  <2>6. Called(frames, n, array)
    BY <1>2, <2>3, <2>5, CalledMore
  <2> QED BY <2>1, <2>2, <2>4, <2>5, <2>6 DEF Frames
<1>6. array \in Generic
  BY <1>5
<1>7. F \in Frames
  BY <1>4, <1>6 DEF NewFrame, Frames
<1>8. frames' = Append(frames, F)
  OBVIOUS
<1> HIDE DEF F
<1>9. FrameOK(methods, F)
  BY <1>2, <1>3, <1>6 DEF FrameOK
<1>10. \A h \in {F.generic, F.array} :
          (F.kind = "dispatch" /\ h = F.generic) \/ Called(frames, Len(frames), h)
  BY <1>3, <1>5 DEF n
<1>11. ASSUME NEW i \in DOMAIN frames, frames[i].phase = "run",
              \A k \in i + 1..n : frames[k].phase # "run",
              F.from # 0 \/ F.kind # "dispatch"
       PROVE  F.array = frames[i].array /\ F.from = frames[i].at
  <2>1. /\ current.method # NoMethod /\ g = current.generic
        /\ array = current.method.generic /\ from = current.method.at
    BY <1>3, <1>11
  <2>2. PICK j \in 1..n : /\ frames[j].phase = "run" /\ \A k \in j + 1..n : frames[k].phase # "run"
                          /\ array = frames[j].array /\ from = frames[j].at
    BY <1>5, <2>1
  <2>3. i \in 1..n /\ ~(i < j) /\ ~(j < i)
    BY <1>2, <1>11, <2>2
  <2>4. i = j
    BY <1>2, <2>3
  <2> QED BY <1>3, <2>2, <2>4
<1>12. ASSUME NEW h \in Generic, NEW p \in DOMAIN methods[h]
       PROVE  methods'[h][p].busy = methods[h][p].busy + OneIf(Picks(F, h, p))
  <2>1. p # 0
    BY <1>1
  <2>2. OneIf(Picks(F, h, p)) = IF h = g /\ p = specific THEN 1 ELSE 0
    BY <1>3, <2>1 DEF OneIf, Picks
  <2> QED BY <2>2
<1>13. F.phase \in {"arguments", "scan"} /\ F.saved = current /\ Len(frames) < MaxDepth
  BY <1>3
<1> HIDE DEF n
<1>14. Fits(methods', new_index, Append(frames, F), [current EXCEPT !.generic = F.generic], error)
  BY ONLY <1>1, <1>7, <1>9, <1>10, <1>11, <1>12, <1>13, Alike(methods, methods'), PushFits DEF n
<1> QED BY <1>3, <1>8, <1>14 DEF GenericsIInv

LEMMA BusyAsItIs ==
    ASSUME GenericsIInv
    PROVE  /\ methods \in [Generic -> Seq(Meth)] /\ Alike(methods, methods)
           /\ \A h \in Generic : \A p \in DOMAIN methods[h] : p # 0 /\ methods[h][p].busy \in Nat
<1>1. methods \in [Generic -> Seq(Meth)]
  BY DEF GenericsIInv, Fits, MethodsOK
<1>2. \A h \in Generic : \A p \in DOMAIN methods[h] : p # 0 /\ methods[h][p] \in Meth
  BY <1>1
<1> QED BY <1>1, <1>2, AlikeSelf DEF Meth

LEMMA StepCall ==
    ASSUME GenericsIInv, NEW g \in Generic, NEW args \in Arguments, Call(g, args)
    PROVE  GenericsIInv' /\ Alike(methods, methods')
<1>1. /\ Len(frames) < MaxDepth /\ new_index' = new_index /\ error' = error /\ methods' = methods
      /\ frames' = Append(frames, NewFrame("dispatch", g, "arguments", g, 0, 0, args))
      /\ current' = [current EXCEPT !.generic = g]
  BY DEF Call, Dispatch, Room, Frame, NewFrame
<1>2. /\ Alike(methods, methods')
      /\ \A h \in Generic : \A p \in DOMAIN methods[h] :
            methods'[h][p].busy = methods[h][p].busy + (IF h = g /\ p = 0 THEN 1 ELSE 0)
  BY <1>1, BusyAsItIs
<1>3. 0 <= Len(methods[g])
  BY BusyAsItIs
<1> QED BY <1>1, <1>2, <1>3, Begins

\* The place of a method with an index, if there is one.
LEMMA FindMethodByIndexIs ==
    ASSUME methods \in [Generic -> Seq(Meth)], NEW g \in Generic, NEW index
    PROVE  LET at == FindMethodByIndex(g, index)
           IN \/ at = 0 /\ \A p \in DOMAIN methods[g] : methods[g][p].index # index
              \/ at \in DOMAIN methods[g] /\ methods[g][at].index = index
<1> DEFINE I == {i \in 1..Len(methods[g]) : methods[g][i].index = index}
<1>1. methods[g] \in Seq(Meth) /\ Len(methods[g]) \in Nat /\ DOMAIN methods[g] = 1..Len(methods[g])
  OBVIOUS
<1>2. FindMethodByIndex(g, index) = IF I # {} THEN Min(I) ELSE 0
  BY DEF FindMethodByIndex, SelectInSeq
<1>3. I \subseteq Nat /\ I \subseteq DOMAIN methods[g] /\ (\A i \in I : methods[g][i].index = index)
      /\ (I = {} => \A p \in DOMAIN methods[g] : methods[g][p].index # index)
  BY <1>1
<1> HIDE DEF I
<1>4. I # {} => Min(I) \in I
  BY <1>3, MinIs
<1> QED BY <1>2, <1>3, <1>4

LEMMA StepCallSpecificMethod ==
    ASSUME GenericsIInv, NEW g \in Generic, NEW index, NEW args \in Arguments,
           CallSpecificMethod(g, index, args)
    PROVE  GenericsIInv' /\ Alike(methods, methods')
<1> DEFINE at == FindMethodByIndex(g, index)
<1>1. /\ Len(frames) < MaxDepth /\ new_index' = new_index /\ error' = error /\ at # 0
      /\ methods' = Bump(methods, g, at, 1)
      /\ frames' = Append(frames, NewFrame("dispatch", g, "arguments", g, 0, at, args))
      /\ current' = [current EXCEPT !.generic = g]
  BY DEF CallSpecificMethod, Dispatch, Room, Busy, Bump, Frame, NewFrame
<1>2. at \in DOMAIN methods[g] /\ methods \in [Generic -> Seq(Meth)]
  BY <1>1, BusyAsItIs, FindMethodByIndexIs
<1> HIDE DEF at
<1>3. at \in Nat /\ at <= Len(methods[g])
  BY <1>2
<1>4. 1 \in Int /\ methods[g][at].busy + 1 >= 0
  <2>1. methods[g][at].busy \in Nat
    BY <1>2, BusyAsItIs
  <2> QED BY <2>1
<1>5. /\ Alike(methods, Bump(methods, g, at, 1))
      /\ \A h \in Generic : \A p \in DOMAIN methods[h] :
            Bump(methods, g, at, 1)[h][p].busy
               = methods[h][p].busy + (IF h = g /\ p = at THEN 1 ELSE 0)
  BY ONLY g \in Generic, <1>2, <1>4, BumpIs
<1>6. Alike(methods, methods')
  BY <1>1, <1>5
<1>7. \A h \in Generic : \A p \in DOMAIN methods[h] :
         methods'[h][p].busy = methods[h][p].busy + (IF h = g /\ p = at THEN 1 ELSE 0)
  BY <1>1, <1>5
<1> QED BY <1>1, <1>3, <1>6, <1>7, Begins

\* In a method: there is a call, of a generic function, and one that runs.
LEMMA InMethod ==
    ASSUME GenericsIInv, current.method # NoMethod
    PROVE  /\ frames # << >> /\ current.generic \in Generic /\ current \in Current
           /\ current.method.at \in Nat
           /\ \E i \in DOMAIN frames : frames[i].phase = "run"
<1>1. Within(frames, Len(frames), current) /\ frames \in Seq(Frames)
  BY DEF GenericsIInv, Fits, FramesOK
<1>2. PICK i \in 1..Len(frames) : frames[i].phase = "run"
  BY <1>1 DEF Within
<1>3. Len(frames) \in Nat /\ DOMAIN frames = 1..Len(frames)
  BY <1>1
<1>4. Len(frames) # 0 /\ frames # << >>
  BY <1>2, <1>3
<1>5. frames[Len(frames)] \in Frames
  BY <1>1, <1>4, TopIs
<1>6. current \in Current /\ current.generic = frames[Len(frames)].generic
  BY <1>1, <1>4 DEF Within
<1> QED BY <1>2, <1>3, <1>4, <1>5, <1>6 DEF Frames, Current, MethodPlace

LEMMA StepOverrideNextMethod ==
    ASSUME GenericsIInv, NEW args \in Arguments, OverrideNextMethod(args)
    PROVE  GenericsIInv' /\ Alike(methods, methods')
<1> DEFINE g == current.generic
           array == current.method.generic
           from == current.method.at
<1>1. /\ Len(frames) < MaxDepth /\ new_index' = new_index /\ error' = error /\ methods' = methods
      /\ current.method # NoMethod
      /\ frames' = Append(frames, NewFrame("dispatch", g, "arguments", array, from, 0, args))
      /\ current' = [current EXCEPT !.generic = g]
  BY DEF OverrideNextMethod, Dispatch, Room, Frame, NewFrame
<1>2. g \in Generic /\ from \in Nat
  BY <1>1, InMethod
<1>3. /\ Alike(methods, methods')
      /\ \A h \in Generic : \A p \in DOMAIN methods[h] :
            methods'[h][p].busy = methods[h][p].busy + (IF h = g /\ p = 0 THEN 1 ELSE 0)
  BY <1>1, BusyAsItIs
<1>4. 0 <= Len(methods[g])
  BY <1>2, BusyAsItIs
<1>5. /\ "dispatch" \in {"dispatch", "next", "probe"} /\ "arguments" \in {"arguments", "scan"}
      /\ 0 \in Nat /\ g = current.generic /\ array = current.method.generic
      /\ from = current.method.at
  OBVIOUS
<1> HIDE DEF g, array, from
<1>6. GenericsIInv'
  BY ONLY GenericsIInv, args \in Arguments, <1>1, <1>2, <1>3, <1>4, <1>5, Begins
<1> QED BY <1>3, <1>6

LEMMA StepNext ==
    ASSUME GenericsIInv, NEW kind \in {"next", "probe"}, Next1(kind)
    PROVE  GenericsIInv' /\ Alike(methods, methods')
<1> DEFINE g == current.generic
           array == current.method.generic
           from == current.method.at
           args == frames[Pushed].args
<1>1. /\ Len(frames) < MaxDepth /\ new_index' = new_index /\ error' = error /\ methods' = methods
      /\ current.method # NoMethod /\ current' = current
      /\ frames' = Append(frames, NewFrame(kind, g, "scan", array, from, 0, args))
  BY DEF Next1, Room, Frame, NewFrame
<1>2. /\ frames # << >> /\ g \in Generic /\ current \in Current /\ current.method.at \in Nat
      /\ \E i \in DOMAIN frames : frames[i].phase = "run"
  BY <1>1, InMethod
<1>3. args \in Arguments
  <2> DEFINE I == {i \in 1..Len(frames) : frames[i].phase # "arguments"}
  <2>1. Pushed = IF I # {} THEN Max(I) ELSE 0
    BY DEF Pushed, SelectLastInSeq
  <2>2. frames \in Seq(Frames)
    BY DEF GenericsIInv, Fits, FramesOK
  <2>3. Len(frames) \in Nat /\ DOMAIN frames = 1..Len(frames)
    BY <2>2
  <2>4. I # {} /\ I \subseteq 0..Len(frames) /\ I \subseteq DOMAIN frames
    BY <1>2, <2>3
  <2> HIDE DEF I
  <2>5. Max(I) \in I
    BY <2>3, <2>4, MaxIs
  <2>6. frames[Pushed] \in Frames
    BY <2>1, <2>2, <2>4, <2>5
  <2> QED BY <2>6 DEF Frames
<1>4. /\ Alike(methods, methods')
      /\ \A h \in Generic : \A p \in DOMAIN methods[h] :
            methods'[h][p].busy = methods[h][p].busy + (IF h = g /\ p = 0 THEN 1 ELSE 0)
  BY <1>1, BusyAsItIs
<1>5. 0 <= Len(methods[g])
  BY <1>2, BusyAsItIs
<1>6. current' = [current EXCEPT !.generic = g]
  BY <1>1, <1>2 DEF Current
<1>7. /\ Len(frames) < MaxDepth /\ new_index' = new_index /\ error' = error
      /\ frames' = Append(frames, NewFrame(kind, g, "scan", array, from, 0, args))
      /\ current.method # NoMethod
      /\ kind \in {"dispatch", "next", "probe"} /\ kind # "dispatch" /\ g \in Generic /\ from \in Nat
      /\ "scan" \in {"arguments", "scan"} /\ 0 \in Nat /\ "scan" # "arguments"
      /\ g = current.generic /\ array = current.method.generic /\ from = current.method.at
  BY <1>1, <1>2
<1> HIDE DEF args, g, array, from
<1>8. GenericsIInv'
  BY ONLY GenericsIInv, <1>3, <1>4, <1>5, <1>6, <1>7, Begins
<1> QED BY <1>4, <1>8

LEMMA StepArgumentsDone ==
    ASSUME GenericsIInv, ArgumentsDone
    PROVE  GenericsIInv' /\ Alike(methods, methods')
<1> DEFINE F == Top
           n == Len(frames)
           G == [F EXCEPT !.phase = "scan"]
<1>1. /\ frames # << >> /\ F.phase = "arguments" /\ new_index' = new_index /\ error' = error
      /\ methods' = methods /\ current' = current /\ frames' = [frames EXCEPT ![n].phase = "scan"]
  BY DEF ArgumentsDone, Phase
<1>2. /\ n \in DOMAIN frames /\ F = frames[n] /\ F \in Frames /\ FrameOK(methods, F)
  BY <1>1, InnermostFrame
<1>3. /\ G \in Frames /\ G.phase = "scan" /\ G.at = F.at /\ G.kind = F.kind
      /\ G.generic = F.generic /\ G.from = F.from /\ G.saved = F.saved
      /\ G.specific = F.specific /\ G.array = F.array
  BY <1>2 DEF Frames
<1>4. frames' = [frames EXCEPT ![n] = G]
  BY <1>1, <1>2
<1> HIDE DEF G
<1>5. FrameOK(methods, G)
  BY <1>1, <1>2, <1>3 DEF FrameOK
<1>6. ASSUME NEW g \in Generic, NEW p \in DOMAIN methods[g]
      PROVE  methods'[g][p].busy = Count(frames, n - 1, g, p) + OneIf(Occupies(G, g, p))
                                                              + OneIf(Picks(G, g, p))
  <2>1. Occupies(G, g, p) <=> Occupies(F, g, p)
    BY <1>1, <1>3 DEF Occupies
  <2>2. Picks(G, g, p) <=> Picks(F, g, p)
    BY <1>3 DEF Picks
  <2>3. methods[g][p].busy = Count(frames, n - 1, g, p) + OneIf(Occupies(F, g, p))
                                                        + OneIf(Picks(F, g, p))
    BY <1>1, TopCounts
  <2>4. OneIf(Occupies(G, g, p)) = OneIf(Occupies(F, g, p)) /\ OneIf(Picks(G, g, p)) = OneIf(Picks(F, g, p))
    BY <2>1, <2>2 DEF OneIf
  <2> QED BY <1>1, <2>3, <2>4
<1>7. Alike(methods, methods') /\ Fits(methods, new_index, frames, current, error)
  BY <1>1, BusyAsItIs DEF GenericsIInv
<1>8. frames[n].phase # "run" /\ G.kind = frames[n].kind /\ G.generic = frames[n].generic
      /\ G.from = frames[n].from /\ G.saved = frames[n].saved /\ G.phase # "run"
      /\ G.array = frames[n].array
  BY <1>1, <1>2, <1>3
<1>9. current = IF G.phase = "run"
                THEN [current EXCEPT !.method = [generic |-> G.array, at |-> G.at]]
                ELSE current
  BY <1>8
<1>10. frames # << >> /\ G \in Frames
  BY <1>1, <1>3
<1>11. Fits(methods', new_index, [frames EXCEPT ![n] = G], current, error)
  BY ONLY <1>5, <1>6, <1>7, <1>8, <1>9, <1>10, TopFits
<1> QED BY <1>1, <1>4, <1>7, <1>11 DEF GenericsIInv

\* Steps that change the error only.
LEMMA StepError ==
    ASSUME GenericsIInv,
           \/ NoNextMethod \/ CalledWhileHalted \/ Interrupted \/ ErrorEnds
           \/ \E g \in Generic : \E sig \in Signature[g] : RedefineMethod(g, sig)
    PROVE  GenericsIInv' /\ Alike(methods, methods')
<1>1. /\ UNCHANGED <<methods, new_index, frames, current>>
      /\ error' \in {"none", "halted", "error"}
  BY DEF NoNextMethod, CalledWhileHalted, Interrupted, ErrorEnds, RedefineMethod, Forgotten,
         GenericsIInv, Fits
<1>2. Fits(methods, new_index, frames, current, error')
  BY <1>1 DEF GenericsIInv, Fits
<1> QED BY <1>1, <1>2, BusyAsItIs DEF GenericsIInv
-----------------------------------------------------------------------------
(* Definitions and deletions of methods.                                   *)

LEMMA NotExecutingIsQuiet ==
    ASSUME GenericsIInv, NEW g \in Generic, ~MethodsExecuting(g)
    PROVE  Quiet(frames, g) /\ \A p \in DOMAIN methods[g] : methods[g][p].busy = 0
<1>1. \A p \in DOMAIN methods[g] : methods[g][p].busy = 0
  BY BusyAsItIs DEF MethodsExecuting
<1>2. /\ frames \in Seq(Frames) /\ \A i \in DOMAIN frames : FrameOK(methods, frames[i])
      /\ \A p \in DOMAIN methods[g] : methods[g][p].busy = Count(frames, Len(frames), g, p)
  BY DEF GenericsIInv, Fits, FramesOK, Counted
<1>3. methods[g] \in Seq(Meth)
  BY BusyAsItIs
<1>4. ASSUME NEW i \in DOMAIN frames, frames[i].array = g
      PROVE  frames[i].at = 0 /\ frames[i].specific = 0
  <2>1. frames[i] \in Frames /\ FrameOK(methods, frames[i]) /\ i \in 1..Len(frames)
        /\ Len(frames) \in Nat
    BY <1>2
  <2>2. ASSUME NEW p \in 1..Len(methods[g]), Occupies(frames[i], g, p) \/ Picks(frames[i], g, p)
        PROVE  FALSE
    <3>1. p \in DOMAIN methods[g]
      BY <1>3
    <3>2. Count(frames, Len(frames), g, p) = 0
      BY <1>1, <1>2, <3>1
    <3>3. \A j \in 1..Len(frames) : ~Occupies(frames[j], g, p) /\ ~Picks(frames[j], g, p)
      BY ONLY <2>1, <3>2, CountIs
    <3> QED BY <2>1, <2>2, <3>3
  <2>3. /\ frames[i].at \in Nat /\ frames[i].specific \in Nat
        /\ frames[i].at <= Len(methods[g]) /\ frames[i].specific <= Len(methods[g])
    BY <1>4, <2>1 DEF Frames, FrameOK
  <2>4. frames[i].specific = 0
    <3> SUFFICES ASSUME frames[i].specific # 0 PROVE FALSE
      OBVIOUS
    <3>1. frames[i].specific \in 1..Len(methods[g])
      BY <1>3, <2>3
    <3>2. Picks(frames[i], g, frames[i].specific)
      BY <1>4 DEF Picks
    <3> QED BY <2>2, <3>1, <3>2
  <2>5. frames[i].at = 0
    <3> SUFFICES ASSUME frames[i].at # 0 PROVE FALSE
      OBVIOUS
    <3>1. frames[i].at \in 1..Len(methods[g])
      BY <1>3, <2>3
    <3>2. Occupies(frames[i], g, frames[i].at)
      BY <1>4, <2>1, <2>4 DEF Occupies, FrameOK
    <3> QED BY <2>2, <3>1, <3>2
  <2> QED BY <2>4, <2>5
<1> QED BY <1>1, <1>4 DEF Quiet

\* What the methods of one function become, when no call is in them.
LEMMA Replaced ==
    ASSUME GenericsIInv, NEW g \in Generic, Quiet(frames, g),
           NEW s \in Seq(Meth), Len(s) <= MaxMethods[g], NEW new \in Nat, new <= MaxMethods[g] + 1,
           \A p \in DOMAIN s : s[p].busy = 0 /\ s[p].index < new /\ s[p].index <= MaxMethods[g],
           \A p, q \in DOMAIN s : p # q => s[p].index # s[q].index,
           methods' = [methods EXCEPT ![g] = s], new_index' = [new_index EXCEPT ![g] = new],
           frames' = frames, current' = current, error' \in {"none", "halted", "error"}
    PROVE  GenericsIInv' /\ Stays
<1>1. Fits(methods, new_index, frames, current, error) /\ MaxMethods[g] \in Nat
  BY GenericsAssumption DEF GenericsIInv
<1>2. Fits([methods EXCEPT ![g] = s], [new_index EXCEPT ![g] = new], frames, current, error')
  <2> DEFINE err == error'
  <2>1. err \in {"none", "halted", "error"}
    OBVIOUS
  <2> HIDE DEF err
  <2>2. Fits([methods EXCEPT ![g] = s], [new_index EXCEPT ![g] = new], frames, current, err)
    <3>1. /\ \A p \in DOMAIN s : s[p].busy = 0 /\ s[p].index < new /\ s[p].index <= MaxMethods[g]
          /\ \A p, q \in DOMAIN s : p # q => s[p].index # s[q].index
          /\ Quiet(frames, g) /\ g \in Generic /\ s \in Seq(Meth) /\ Len(s) <= MaxMethods[g]
          /\ new \in Nat /\ new <= MaxMethods[g] + 1
      OBVIOUS
    <3> QED BY ONLY <1>1, <2>1, <3>1, ReplaceFits
  <2> QED BY <2>2 DEF err
<1>3. GenericsIInv'
  BY <1>2 DEF GenericsIInv
<1>4. ASSUME NEW h \in Generic, NEW i \in DOMAIN frames, NEW p \in DOMAIN methods[h],
             Occupies(frames[i], h, p) \/ Picks(frames[i], h, p)
      PROVE  methods'[h] = methods[h]
  <2>1. p # 0
    BY BusyAsItIs
  <2>2. h # g
    BY <1>4, <2>1 DEF Quiet, Occupies, Picks
  <2> QED BY <2>2, BusyAsItIs
<1>5. Stays
  BY <1>4 DEF Stays
<1> QED BY <1>3, <1>5

\* One method less: no index is given twice.
LEMMA Removed ==
    ASSUME GenericsIInv, NEW g \in Generic, NEW old \in DOMAIN methods[g]
    PROVE  LET s == RemoveAt(methods[g], old)
           IN /\ s \in Seq(Meth) /\ Len(s) = Len(methods[g]) - 1
              /\ \A p \in DOMAIN s : \E q \in DOMAIN methods[g] : q # old /\ s[p] = methods[g][q]
              /\ \A p, q \in DOMAIN s : p # q => s[p].index # s[q].index
<1> DEFINE m == methods[g]
           n == Len(m)
           s == RemoveAt(m, old)
           back(p) == IF p < old THEN p ELSE p + 1
<1>1. m \in Seq(Meth) /\ n \in Nat /\ DOMAIN m = 1..n
  BY BusyAsItIs
<1>2. \A p, q \in DOMAIN m : p # q => m[p].index # m[q].index
  BY DEF GenericsIInv, Fits, MethodsOK
<1> HIDE DEF m
<1>3. old \in 1..Len(m)
  BY <1>1 DEF m
<1>4. s \in Seq(Meth) /\ Len(s) = n - 1 /\ \A p \in 1..(n - 1) : s[p] = IF p < old THEN m[p] ELSE m[p + 1]
  BY <1>1, <1>3, RemoveAtProperties
<1> HIDE DEF n, s
<1>5. DOMAIN s = 1..(n - 1)
  BY <1>4
<1>6. \A p \in DOMAIN s : /\ back(p) \in DOMAIN m /\ back(p) # old /\ s[p] = m[back(p)]
  BY <1>1, <1>3, <1>4, <1>5 DEF n
<1>7. \A p, q \in DOMAIN s : p # q => back(p) # back(q)
  BY <1>3, <1>5 DEF n
<1> HIDE DEF back
<1>8. \A p \in DOMAIN s : \E q \in DOMAIN m : q # old /\ s[p] = m[q]
  BY <1>6
<1>9. \A p, q \in DOMAIN s : p # q => s[p].index # s[q].index
  BY <1>2, <1>6, <1>7
<1> QED BY <1>4, <1>8, <1>9 DEF m, n, s

LEMMA OfMethods ==
    ASSUME GenericsIInv, NEW g \in Generic
    PROVE  /\ methods[g] \in Seq(Meth) /\ Len(methods[g]) \in Nat
           /\ DOMAIN methods[g] = 1..Len(methods[g])
           /\ new_index[g] \in Nat /\ new_index[g] <= MaxMethods[g] + 1
           /\ Len(methods[g]) <= MaxMethods[g] /\ MaxMethods[g] \in Nat
           /\ \A p \in DOMAIN methods[g] :
                 /\ methods[g][p] \in Meth /\ methods[g][p].index \in Nat \ {0}
                 /\ methods[g][p].index < new_index[g]
                 /\ methods[g][p].index <= MaxMethods[g]
           /\ \A p, q \in DOMAIN methods[g] : p # q => methods[g][p].index # methods[g][q].index
           /\ new_index = [new_index EXCEPT ![g] = new_index[g]]
<1>1. MethodsOK(methods, new_index)
  BY DEF GenericsIInv, Fits
<1>2. methods[g] \in Seq(Meth) /\ new_index \in [Generic -> Nat] /\ MaxMethods[g] \in Nat
  BY <1>1, GenericsAssumption DEF MethodsOK
<1>3. \A p \in DOMAIN methods[g] : methods[g][p] \in Meth
  BY <1>2
<1>4. \A p \in DOMAIN methods[g] : methods[g][p].index \in Nat \ {0}
  BY <1>3 DEF Meth
<1>5. /\ new_index[g] <= MaxMethods[g] + 1 /\ Len(methods[g]) <= MaxMethods[g]
      /\ \A p \in DOMAIN methods[g] : methods[g][p].index < new_index[g]
                                      /\ methods[g][p].index <= MaxMethods[g]
      /\ \A p, q \in DOMAIN methods[g] : p # q => methods[g][p].index # methods[g][q].index
  BY <1>1 DEF MethodsOK
<1> QED BY <1>2, <1>3, <1>4, <1>5

LEMMA EmptyFits ==
    /\ << >> \in Seq(Meth) /\ Len(<< >>) = 0
    /\ \A p \in DOMAIN << >> : FALSE
OBVIOUS

LEMMA StepUndefmethod ==
    ASSUME GenericsIInv, NEW g \in Generic, NEW index \in Nat, Undefmethod(g, index)
    PROVE  GenericsIInv' /\ Stays
<1> DEFINE at == FindMethodByIndex(g, index)
           s == IF index = 0 THEN << >> ELSE RemoveAt(methods[g], at)
<1>1. /\ ~MethodsExecuting(g) /\ (index = 0 \/ at # 0)
      /\ methods' = [methods EXCEPT ![g] = s]
      /\ new_index' = new_index /\ frames' = frames /\ current' = current /\ error' = error
  BY DEF Undefmethod
<1>2. Quiet(frames, g) /\ \A p \in DOMAIN methods[g] : methods[g][p].busy = 0
  BY <1>1, NotExecutingIsQuiet
<1>3. at = 0 \/ at \in DOMAIN methods[g]
  BY BusyAsItIs, FindMethodByIndexIs
<1> HIDE DEF at
<1>4. /\ s \in Seq(Meth) /\ Len(s) <= MaxMethods[g]
      /\ \A p \in DOMAIN s : s[p].busy = 0 /\ s[p].index < new_index[g] /\ s[p].index <= MaxMethods[g]
      /\ \A p, q \in DOMAIN s : p # q => s[p].index # s[q].index
  <2>1. CASE index = 0
    <3>1. s = << >>
      BY <2>1
    <3> HIDE DEF s
    <3>2. 0 <= MaxMethods[g]
      BY OfMethods
    <3> QED BY <3>1, <3>2, EmptyFits
  <2>2. CASE index # 0
    <3>1. at \in DOMAIN methods[g] /\ s = RemoveAt(methods[g], at)
      BY <1>1, <1>3, <2>2
    <3> HIDE DEF s
    <3>2. LET r == RemoveAt(methods[g], at)
          IN /\ r \in Seq(Meth) /\ Len(r) = Len(methods[g]) - 1
             /\ \A p \in DOMAIN r : \E q \in DOMAIN methods[g] : q # at /\ r[p] = methods[g][q]
             /\ \A p, q \in DOMAIN r : p # q => r[p].index # r[q].index
      BY ONLY GenericsIInv, g \in Generic, <3>1, Removed
    <3>5. /\ s \in Seq(Meth) /\ Len(s) = Len(methods[g]) - 1
          /\ \A p \in DOMAIN s : \E q \in DOMAIN methods[g] : q # at /\ s[p] = methods[g][q]
          /\ \A p, q \in DOMAIN s : p # q => s[p].index # s[q].index
      BY <3>1, <3>2
    <3>3. Len(s) <= MaxMethods[g]
      BY <3>5, OfMethods
    <3>4. \A p \in DOMAIN s : s[p].busy = 0 /\ s[p].index < new_index[g] /\ s[p].index <= MaxMethods[g]
      BY <1>2, <3>5, OfMethods
    <3> QED BY <3>5, <3>3, <3>4
  <2> QED BY <2>1, <2>2
<1> HIDE DEF s
<1>5. /\ new_index[g] \in Nat /\ new_index[g] <= MaxMethods[g] + 1
      /\ new_index' = [new_index EXCEPT ![g] = new_index[g]]
      /\ error' \in {"none", "halted", "error"}
  BY <1>1, OfMethods DEF GenericsIInv, Fits
<1> QED BY <1>1, <1>2, <1>4, <1>5, Replaced

LEMMA StepUndefgeneric ==
    ASSUME GenericsIInv, NEW g \in Generic, Undefgeneric(g)
    PROVE  GenericsIInv' /\ Stays
<1>1. /\ \A i \in DOMAIN frames : ~(frames[i].kind = "dispatch" /\ frames[i].generic = g)
      /\ methods' = [methods EXCEPT ![g] = << >>] /\ new_index' = [new_index EXCEPT ![g] = 0]
      /\ frames' = frames /\ current' = current /\ error' = error
  BY DEF Undefgeneric
<1>2. Nested(frames) /\ frames \in Seq(Frames) /\ error \in {"none", "halted", "error"}
  BY DEF GenericsIInv, Fits, FramesOK
<1>3. Quiet(frames, g)
  <2>1. ASSUME NEW i \in DOMAIN frames, frames[i].array = g
        PROVE  FALSE
    <3>1. Called(frames, i, g)
      BY <1>2, <2>1 DEF Nested
    <3>2. PICK j \in 1..i : frames[j].kind = "dispatch" /\ frames[j].generic = g
      BY <3>1 DEF Called
    <3>3. j \in DOMAIN frames
      BY <1>2
    <3> QED BY <1>1, <3>2, <3>3
  <2> QED BY <2>1 DEF Quiet
<1>4. 0 \in Nat /\ 0 <= MaxMethods[g] + 1 /\ 0 <= MaxMethods[g]
  BY OfMethods
<1> DEFINE s == << >>
<1>5. s \in Seq(Meth) /\ Len(s) = 0 /\ \A p \in DOMAIN s : FALSE
  BY EmptyFits
<1>6. methods' = [methods EXCEPT ![g] = s]
  BY <1>1
<1> HIDE DEF s
<1>7. /\ Len(s) <= MaxMethods[g]
      /\ \A p \in DOMAIN s : s[p].busy = 0 /\ s[p].index < 0 /\ s[p].index <= MaxMethods[g]
      /\ \A p, q \in DOMAIN s : p # q => s[p].index # s[q].index
  BY <1>4, <1>5
<1>8. error' \in {"none", "halted", "error"}
  BY <1>1, <1>2
<1> QED BY <1>1, <1>3, <1>4, <1>5, <1>6, <1>7, <1>8, Replaced

LEMMA FindMethodByRestrictionsIs ==
    ASSUME GenericsIInv, NEW g \in Generic, NEW sig
    PROVE  FindMethodByRestrictions(g, sig).at \in 1..Len(methods[g]) + 1
<1> DEFINE I == {i \in 1..Len(methods[g]) : RestrictionsCompare(sig, methods[g][i]) # "lower"}
           place == IF I # {} THEN Min(I) ELSE 0
<1>1. FindMethodByRestrictions(g, sig).at = IF place = 0 THEN Len(methods[g]) + 1 ELSE place
  BY DEF FindMethodByRestrictions, SelectInSeq
<1>2. Len(methods[g]) \in Nat
  BY OfMethods
<1>3. I \subseteq Nat /\ I \subseteq 1..Len(methods[g])
  BY <1>2
<1> HIDE DEF I
<1>4. I # {} => Min(I) \in I
  BY <1>3, MinIs
<1>5. place = 0 \/ place \in 1..Len(methods[g])
  BY <1>3, <1>4
<1> HIDE DEF place
<1> QED BY <1>1, <1>2, <1>5

LEMMA StepDefmethod ==
    ASSUME GenericsIInv, NEW g \in Generic, NEW sig \in Signature[g], NEW index \in GivenIndex,
           Defmethod(g, sig, index)
    PROVE  GenericsIInv' /\ Stays
<1> DEFINE m == methods[g]
           max == MaxMethods[g]
           next == new_index[g]
           place == FindMethodByRestrictions(g, sig).at
           old == FindMethodByIndex(g, index)
           kept == IF old # 0 THEN RemoveAt(m, old) ELSE m
           at == IF old # 0 /\ old < place THEN place - 1 ELSE place
           given == IF index # 0 THEN index ELSE IF next = 0 THEN 1 ELSE next
           meth == [params |-> sig.params, wild |-> sig.wild, index |-> given, busy |-> 0]
           s == InsertAt(kept, at, meth)
           new == IndexAfter(next, given)
<1>1. /\ ~MethodsExecuting(g) /\ Len(kept) < max /\ given <= max
      /\ methods' = [methods EXCEPT ![g] = s]
      /\ new_index' = [new_index EXCEPT ![g] = new]
      /\ frames' = frames /\ current' = current /\ error' = Forgotten
  BY DEF Defmethod
<1>2. Quiet(frames, g) /\ \A p \in DOMAIN m : m[p].busy = 0
  BY <1>1, NotExecutingIsQuiet
<1>3. /\ m \in Seq(Meth) /\ Len(m) \in Nat /\ DOMAIN m = 1..Len(m)
      /\ next \in Nat /\ next <= max + 1 /\ Len(m) <= max /\ max \in Nat
      /\ \A p \in DOMAIN m : /\ m[p].index \in Nat \ {0} /\ m[p].index < next
                             /\ m[p].index <= max
      /\ \A p, q \in DOMAIN m : p # q => m[p].index # m[q].index
  BY OfMethods
<1>4. place \in 1..Len(m) + 1
  BY FindMethodByRestrictionsIs
<1>5. \/ old = 0 /\ \A p \in DOMAIN m : m[p].index # index
      \/ old \in DOMAIN m /\ m[old].index = index
  BY BusyAsItIs, FindMethodByIndexIs
<1>6. index \in Nat
  BY GenericsAssumption
<1>7. old # 0 => /\ kept \in Seq(Meth) /\ Len(kept) = Len(m) - 1
                 /\ \A p \in DOMAIN kept : \E q \in DOMAIN m : q # old /\ kept[p] = m[q]
                 /\ \A p, q \in DOMAIN kept : p # q => kept[p].index # kept[q].index
  <2> SUFFICES ASSUME old # 0 PROVE /\ RemoveAt(m, old) \in Seq(Meth)
                                    /\ Len(RemoveAt(m, old)) = Len(m) - 1
                                    /\ \A p \in DOMAIN RemoveAt(m, old) :
                                         \E q \in DOMAIN m : q # old /\ RemoveAt(m, old)[p] = m[q]
                                    /\ \A p, q \in DOMAIN RemoveAt(m, old) :
                                         p # q => RemoveAt(m, old)[p].index # RemoveAt(m, old)[q].index
    OBVIOUS
  <2>1. old \in DOMAIN m
    BY <1>5
  <2> HIDE DEF old
  <2> QED BY <2>1, Removed
<1>8. old = 0 => kept = m
  OBVIOUS
<1>9. meth \in Meth /\ meth.index = given /\ meth.busy = 0
  <2>1. sig \in Signatures
    BY DEF Signatures
  <2>2. given \in Nat \ {0}
    BY <1>3, <1>6
  <2> HIDE DEF given
  <2> QED BY <2>1, <2>2 DEF Meth
<1>10. given \in Nat \ {0} /\ (index # 0 => given = index)
       /\ (index = 0 => given = next \/ (next = 0 /\ given = 1))
  BY <1>3, <1>6
<1> HIDE DEF kept, given, meth, old, m, place, max, next
<1>11. kept \in Seq(Meth) /\ Len(kept) \in Nat /\ DOMAIN kept = 1..Len(kept)
  <2>1. CASE old = 0
    BY <1>3, <1>8, <2>1
  <2>2. CASE old # 0
    <3>1. kept \in Seq(Meth)
      BY <1>7, <2>2
    <3> QED BY ONLY <3>1
  <2> QED BY <2>1, <2>2
<1>12. ASSUME NEW p \in DOMAIN kept
       PROVE  /\ kept[p].busy = 0 /\ kept[p].index \in Nat /\ kept[p].index < next
              /\ kept[p].index <= max /\ kept[p].index # given
  <2>1. PICK q \in DOMAIN m : kept[p] = m[q] /\ (old # 0 => q # old)
    BY <1>7, <1>8
  <2>2. m[q].busy = 0 /\ m[q].index \in Nat \ {0} /\ m[q].index < next /\ m[q].index <= max
    BY <1>2, <1>3
  <2>3. m[q].index # index
    BY <1>3, <1>5, <2>1
  <2>4. m[q].index # given
    BY <1>3, <1>10, <2>2, <2>3
  <2> QED BY <2>1, <2>2, <2>4
<1>13. \A p, q \in DOMAIN kept : p # q => kept[p].index # kept[q].index
  <2>1. CASE old = 0
    BY <1>3, <1>8, <2>1
  <2>2. CASE old # 0
    BY <1>7, <2>2
  <2> QED BY <2>1, <2>2
<1>14. at \in 1..Len(kept) + 1
  <2>1. CASE old = 0
    BY <1>4, <1>8, <2>1
  <2>2. CASE old # 0
    <3>1. old \in 1..Len(m) /\ Len(kept) = Len(m) - 1
      BY <1>3, <1>5, <1>7, <2>2
    <3>2. CASE old < place
      BY <1>3, <1>4, <2>2, <3>1, <3>2
    <3>3. CASE ~(old < place)
      BY <1>3, <1>4, <2>2, <3>1, <3>3
    <3> QED BY <3>2, <3>3
  <2> QED BY <2>1, <2>2
<1> HIDE DEF at
<1>15. /\ s \in Seq(Meth) /\ Len(s) = Len(kept) + 1
       /\ \A p \in 1..Len(kept) + 1 :
             s[p] = IF p < at THEN kept[p] ELSE IF p = at THEN meth ELSE kept[p - 1]
  BY <1>9, <1>11, <1>14, InsertAtProperties
<1> HIDE DEF s
<1>16. DOMAIN s = 1..Len(kept) + 1
  BY <1>11, <1>15
<1> DEFINE k == Len(kept)
           from(p) == IF p < at THEN p ELSE p - 1
<1>17. \A p \in DOMAIN s : p # at => from(p) \in DOMAIN kept /\ s[p] = kept[from(p)]
  <2>1. k \in Nat /\ DOMAIN kept = 1..k /\ DOMAIN s = 1..k + 1 /\ at \in 1..k + 1
    BY <1>11, <1>14, <1>16
  <2>2. \A p \in 1..k + 1 : s[p] = IF p < at THEN kept[p] ELSE IF p = at THEN meth ELSE kept[p - 1]
    BY <1>15
  <2> HIDE DEF k
  <2> SUFFICES ASSUME NEW p \in 1..k + 1, p # at
               PROVE  from(p) \in 1..k /\ s[p] = kept[from(p)]
    BY <2>1
  <2>3. CASE p < at
    BY <2>1, <2>2, <2>3
  <2>4. CASE p > at
    BY <2>1, <2>2, <2>4
  <2> QED BY <2>1, <2>3, <2>4
<1>18. \A p, q \in DOMAIN s : p # at /\ q # at /\ p # q => from(p) # from(q)
  BY <1>11, <1>14, <1>16
<1>19. s[at] = meth
  BY <1>14, <1>15
<1> HIDE DEF from, k
<1>20. \A p, q \in DOMAIN s : p # q => s[p].index # s[q].index
  BY <1>9, <1>12, <1>13, <1>17, <1>18, <1>19
<1>21. /\ new \in Nat /\ new <= max + 1 /\ given < new /\ next <= new
  BY <1>1, <1>3, <1>10 DEF IndexAfter
<1> HIDE DEF new
<1>22. \A p \in DOMAIN s : s[p].busy = 0 /\ s[p].index < new /\ s[p].index <= max
  <2> SUFFICES ASSUME NEW p \in DOMAIN s
               PROVE  s[p].busy = 0 /\ s[p].index < new /\ s[p].index <= max
    OBVIOUS
  <2>1. CASE p = at
    BY <1>1, <1>9, <1>19, <1>21, <2>1
  <2>2. CASE p # at
    <3>1. PICK q \in DOMAIN kept : s[p] = kept[q]
      BY <1>17, <2>2
    <3>2. kept[q].busy = 0 /\ kept[q].index \in Nat /\ kept[q].index < next /\ kept[q].index <= max
      BY <1>12
    <3> QED BY <1>3, <1>21, <3>1, <3>2
  <2> QED BY <2>1, <2>2
<1>23. Len(s) <= max
  BY <1>1, <1>3, <1>11, <1>15
<1>24. error' \in {"none", "halted", "error"}
  BY <1>1 DEF Forgotten, GenericsIInv, Fits
<1> QED BY <1>1, <1>2, <1>15, <1>20, <1>21, <1>22, <1>23, <1>24, Replaced DEF max
-----------------------------------------------------------------------------
(* The invariant is inductive.                                             *)

LEMMA InitFits ==
    ASSUME GenericsInit
    PROVE  GenericsIInv
<1>1. /\ methods = [g \in Generic |-> << >>] /\ new_index = [g \in Generic |-> 0]
      /\ frames = << >> /\ current = Idle /\ error = "none"
  BY DEF GenericsInit
<1> DEFINE e == << >>
<1>2. /\ e \in Seq(Meth) /\ e \in Seq(Frames) /\ Len(e) = 0 /\ \A p \in DOMAIN e : FALSE
  OBVIOUS
<1>3. methods = [g \in Generic |-> e] /\ frames = e
  BY <1>1
<1> HIDE DEF e
<1>4. MethodsOK(methods, new_index)
  <2>1. methods \in [Generic -> Seq(Meth)] /\ new_index \in [Generic -> Nat]
    BY <1>1, <1>2, <1>3
  <2>2. ASSUME NEW g \in Generic
        PROVE  /\ new_index[g] <= MaxMethods[g] + 1 /\ Len(methods[g]) <= MaxMethods[g]
               /\ \A p \in DOMAIN methods[g] : FALSE
    BY <1>1, <1>2, <1>3, GenericsAssumption
  <2>3. \A g \in Generic : /\ \A p \in DOMAIN methods[g] : methods[g][p].index < new_index[g]
                                                      /\ methods[g][p].index <= MaxMethods[g]
                           /\ \A p, q \in DOMAIN methods[g] :
                                 p # q => methods[g][p].index # methods[g][q].index
    BY <2>2
  <2> QED BY <2>1, <2>2, <2>3 DEF MethodsOK
<1>5. FramesOK(methods, frames)
  BY <1>2, <1>3, GenericsAssumption DEF FramesOK, Nested, SearchesBehind
<1>6. Counted(methods, frames)
  BY <1>2, <1>3 DEF Counted
<1>7. Within(frames, Len(frames), current)
  <2>1. Idle \in Current /\ Idle.generic = "none" /\ Idle.method = NoMethod
    BY DEF Idle, Current, NoMethod, MethodPlace
  <2>2. \A i \in 1..0 : FALSE
    OBVIOUS
  <2> QED BY <1>1, <1>2, <1>3, <2>1, <2>2 DEF Within
<1> QED BY <1>1, <1>4, <1>5, <1>6, <1>7 DEF GenericsIInv, Fits

LEMMA StepStutters ==
    ASSUME GenericsIInv, UNCHANGED genericVars
    PROVE  GenericsIInv' /\ Alike(methods, methods')
<1>1. /\ methods' = methods /\ new_index' = new_index /\ frames' = frames /\ current' = current
      /\ error' = error
  BY DEF genericVars
<1>2. Fits(methods', new_index', frames', current', error')
  BY <1>1 DEF GenericsIInv
<1> QED BY <1>1, <1>2, BusyAsItIs DEF GenericsIInv

LEMMA StepKeeps ==
    ASSUME GenericsIInv, [GenericsNext]_genericVars
    PROVE  GenericsIInv' /\ Stays
<1>1. GenericsIInv' /\ Alike(methods, methods') => GenericsIInv' /\ Stays
  BY BusyAsItIs, AlikeStays
<1>2. CASE UNCHANGED genericVars
  BY <1>1, <1>2, StepStutters
<1>3. ASSUME NEW g \in Generic, NEW sig \in Signature[g], RedefineMethod(g, sig)
      PROVE  GenericsIInv' /\ Stays
  BY <1>1, <1>3, StepError
<1>4. ASSUME NEW g \in Generic, NEW sig \in Signature[g], NEW index \in GivenIndex,
             Defmethod(g, sig, index)
      PROVE  GenericsIInv' /\ Stays
  BY <1>4, StepDefmethod
<1>5. ASSUME NEW g \in Generic, NEW index \in 0..MaxMethods[g], Undefmethod(g, index)
      PROVE  GenericsIInv' /\ Stays
  <2>1. index \in Nat
    BY GenericsAssumption
  <2> QED BY <1>5, <2>1, StepUndefmethod
<1>6. ASSUME NEW g \in Generic, Undefgeneric(g)
      PROVE  GenericsIInv' /\ Stays
  BY <1>6, StepUndefgeneric
<1>7. ASSUME NEW g \in Generic, NEW args \in Arguments, Call(g, args)
      PROVE  GenericsIInv' /\ Stays
  BY <1>1, <1>7, StepCall
<1>8. ASSUME NEW g \in Generic, NEW args \in Arguments, NEW index \in 1..MaxMethods[g],
             CallSpecificMethod(g, index, args)
      PROVE  GenericsIInv' /\ Stays
  BY <1>1, <1>8, StepCallSpecificMethod
<1>9. ASSUME NEW args \in Arguments, OverrideNextMethod(args)
      PROVE  GenericsIInv' /\ Stays
  BY <1>1, <1>9, StepOverrideNextMethod
<1>10. CASE CallNextMethod \/ NextMethodP
  <2>1. Next1("next") \/ Next1("probe")
    BY <1>10 DEF CallNextMethod, NextMethodP
  <2>2. GenericsIInv' /\ Alike(methods, methods')
    BY <2>1, StepNext
  <2> QED BY <1>1, <2>2
<1>11. CASE NoNextMethod \/ CalledWhileHalted \/ Interrupted \/ ErrorEnds
  BY <1>1, <1>11, StepError
<1>12. CASE ArgumentsDone
  BY <1>1, <1>12, StepArgumentsDone
<1>13. CASE FindApplicableMethod
  BY <1>1, <1>13, StepFindApplicableMethod
<1>14. CASE MethodDone
  BY <1>1, <1>14, StepMethodDone
<1>15. CASE ArgumentsFail
  BY <1>1, <1>15, StepArgumentsFail
<1>16. ASSUME NEW answer \in BOOLEAN, QueryDone(answer)
       PROVE  GenericsIInv' /\ Stays
  BY <1>1, <1>16, StepQueryDone
<1> QED BY <1>2, <1>3, <1>4, <1>5, <1>6, <1>7, <1>8, <1>9, <1>10, <1>11, <1>12, <1>13, <1>14,
           <1>15, <1>16 DEF GenericsNext, DefinitionsNext

LEMMA Inductive == GenericsSpec => []GenericsIInv
<1>1. GenericsInit => GenericsIInv
  BY InitFits
<1>2. GenericsIInv /\ [GenericsNext]_genericVars => GenericsIInv'
  BY StepKeeps
<1> QED BY <1>1, <1>2, PTL DEF GenericsSpec

-----------------------------------------------------------------------------
(* What follows from it.                                                   *)

LEMMA CountMost ==
    ASSUME GenericsIInv, NEW g, NEW p
    PROVE  /\ Count(frames, Len(frames), g, p) \in 0..2 * MaxDepth
           /\ Count(frames, Len(frames), g, p) =
                Cardinality({i \in DOMAIN frames : Occupies(frames[i], g, p)})
              + Cardinality({i \in DOMAIN frames : Picks(frames[i], g, p)})
<1> DEFINE n == Len(frames)
<1>1. frames \in Seq(Frames) /\ n <= MaxDepth /\ MaxDepth \in Nat
  BY GenericsAssumption DEF GenericsIInv, Fits, FramesOK
<1>2. n \in Nat /\ DOMAIN frames = 1..n
  BY <1>1
<1> HIDE DEF n
<1>3. Count(frames, n, g, p) \in Nat /\ Count(frames, n, g, p) <= 2 * n
  BY ONLY <1>2, CountIs
<1> DEFINE c == Count(frames, n, g, p)
<1>4. c \in 0..2 * MaxDepth
  <2>1. c \in Nat /\ c <= 2 * n
    BY <1>3
  <2> HIDE DEF c
  <2> QED BY <1>1, <1>2, <2>1 DEF n
<1> QED BY <1>2, <1>4 DEF Count, n

LEMMA InvTypes ==
    ASSUME GenericsIInv
    PROVE  GenericsTypeOK /\ BusyCountsFrames /\ IndicesDistinct
<1>1. Counted(methods, frames) /\ error \in {"none", "halted", "error"}
  BY DEF GenericsIInv, Fits
<1>2. ASSUME NEW g \in Generic, NEW p \in DOMAIN methods[g]
      PROVE  /\ methods[g][p].busy = Count(frames, Len(frames), g, p)
             /\ methods[g][p].busy \in 0..2 * MaxDepth
  BY <1>1, CountMost DEF Counted
<1>3. BusyCountsFrames
  BY <1>2, CountMost DEF BusyCountsFrames
<1>4. IndicesDistinct
  BY OfMethods DEF IndicesDistinct
<1>5. ASSUME NEW g \in Generic
      PROVE  /\ new_index[g] \in 0..MaxMethods[g] + 1 /\ Len(methods[g]) <= MaxMethods[g]
             /\ \A p \in DOMAIN methods[g] :
                   methods[g][p].busy \in 0..2 * MaxDepth /\ methods[g][p].index \in 1..MaxMethods[g]
  <2>1. new_index[g] \in 0..MaxMethods[g] + 1 /\ Len(methods[g]) <= MaxMethods[g]
    BY OfMethods
  <2>2. \A p \in DOMAIN methods[g] : methods[g][p].index \in 1..MaxMethods[g]
    BY OfMethods
  <2> QED BY <1>2, <2>1, <2>2
<1>6. ASSUME NEW i \in DOMAIN frames
      PROVE  /\ frames[i].kind \in {"dispatch", "next", "probe"}
             /\ frames[i].phase \in {"arguments", "scan", "query", "run", "lost"}
             /\ {frames[i].at, frames[i].specific} \subseteq 0..Len(methods[frames[i].array])
             /\ frames[i].phase \in {"query", "run"} => frames[i].at # 0
  <2>1. frames[i] \in Frames /\ FrameOK(methods, frames[i])
    BY DEF GenericsIInv, Fits, FramesOK
  <2>2. /\ frames[i].at \in Nat /\ frames[i].specific \in Nat /\ frames[i].array \in Generic
        /\ frames[i].kind \in {"dispatch", "next", "probe"}
        /\ frames[i].phase \in {"arguments", "scan", "query", "run", "lost"}
    BY <2>1 DEF Frames
  <2> DEFINE n == Len(methods[frames[i].array])
  <2>3. n \in Nat
    BY <2>2, OfMethods
  <2>4. frames[i].at <= n /\ frames[i].specific <= n
        /\ (frames[i].phase \in {"query", "run"} => frames[i].at # 0)
    BY <2>1 DEF FrameOK
  <2> HIDE DEF n
  <2>5. frames[i].at \in 0..n /\ frames[i].specific \in 0..n
    BY <2>2, <2>3, <2>4
  <2> QED BY <2>2, <2>4, <2>5 DEF n
<1>7. GenericsTypeOK
  BY <1>1, <1>5, <1>6 DEF GenericsTypeOK
<1> QED BY <1>3, <1>4, <1>7

LEMMA InvCurrent ==
    ASSUME GenericsIInv
    PROVE  CurrentIsRunning
<1> DEFINE n == Len(frames)
           I == {i \in 1..n : frames[i].phase = "run"}
           last == IF I # {} THEN Max(I) ELSE 0
<1>1. Within(frames, n, current) /\ frames \in Seq(Frames)
  BY DEF GenericsIInv, Fits, FramesOK
<1>2. n \in Nat /\ (frames # << >> => n # 0)
  BY <1>1
<1>3. SelectLastInSeq(frames, LAMBDA f : f.phase = "run") = last
  BY DEF SelectLastInSeq
<1>4. I \subseteq 0..n
  BY <1>2
<1>5. I # {} => Max(I) \in I /\ \A i \in I : i <= Max(I)
  <2> HIDE DEF I
  <2> QED BY <1>2, <1>4, MaxIs
<1>6. current.method = IF last = 0 THEN NoMethod
                       ELSE [generic |-> frames[last].array, at |-> frames[last].at]
  <2>1. CASE current.method = NoMethod /\ \A i \in 1..n : frames[i].phase # "run"
    BY <2>1
  <2>2. ASSUME NEW i \in 1..n, frames[i].phase = "run", \A j \in i + 1..n : frames[j].phase # "run",
               current.method = [generic |-> frames[i].array, at |-> frames[i].at]
        PROVE  current.method = IF last = 0 THEN NoMethod
                                ELSE [generic |-> frames[last].array, at |-> frames[last].at]
    <3>1. i \in I /\ I # {} /\ last = Max(I)
      BY <2>2
    <3>2. last \in I /\ i <= last
      BY <1>5, <3>1
    <3>3. last \in 1..n /\ frames[last].phase = "run"
      BY <3>2
    <3> HIDE DEF last, I
    <3>4. last \notin i + 1..n
      BY <2>2, <3>3
    <3>5. last = i /\ last # 0
      BY <1>2, <3>2, <3>3, <3>4
    <3> QED BY <2>2, <3>5
  <2> QED BY <1>1, <2>1, <2>2 DEF Within
<1>7. frames # << >> => current.generic = Top.generic
  BY <1>1, <1>2 DEF Within, Top, Last1
<1> HIDE DEF last
<1> QED BY <1>3, <1>6, <1>7 DEF CurrentIsRunning

LEMMA InvShadows ==
    ASSUME GenericsIInv
    PROVE  ShadowsComeLater
<1> SUFFICES ASSUME NEW i \in DOMAIN frames, NEW j \in DOMAIN frames,
                    i < j, Runs(i), \A k \in i + 1..j - 1 : ~Runs(k),
                    frames[j].from # 0 \/ frames[j].kind # "dispatch",
                    frames[i].array = frames[j].generic, frames[j].at # 0
             PROVE  frames[j].array = frames[i].array /\ frames[j].at > frames[i].at
  BY DEF ShadowsComeLater
<1>1. SearchesBehind(frames) /\ FrameOK(methods, frames[j])
  BY DEF GenericsIInv, Fits, FramesOK
<1>2. frames[i].phase = "run" /\ \A k \in i + 1..j - 1 : frames[k].phase # "run"
  BY DEF Runs
<1>3. frames[j].array = frames[i].array /\ frames[j].from = frames[i].at
  BY <1>1, <1>2 DEF SearchesBehind
<1>4. frames[j].specific = 0
  BY <1>1 DEF FrameOK
<1>5. frames[j].at > frames[j].from
  BY <1>1, <1>4 DEF FrameOK
<1> QED BY <1>3, <1>5

\* Methods and the calls that use them fit together, however calls nest, methods
\* come and go, and errors end them: a method's busy count is the number of calls
\* that hold it, what is current is what the innermost call runs, the method that
\* call-next-method takes, where it is one of the function called, is a later one of
\* that function, and an index names one method (genrcexe.c:GenericDispatch,
\* CallNextMethod and FindApplicableMethod; genrcpsr.c:AddMethod;
\* genrcfun.c:MethodsExecuting).
THEOREM GenericsHold == GenericsSpec => []GenericsInv
<1>1. GenericsIInv => GenericsInv
  BY InvTypes, InvCurrent, InvShadows DEF GenericsInv
<1> QED BY <1>1, Inductive, PTL

\* While a call is in a method, or is to call one it has picked, no step moves,
\* replaces or deletes a method of its generic function: the places calls keep
\* stay good (genrcpsr.c:ValidGenericName, genrccom.c:UndefmethodCommand and
\* genrcfun.c:MethodsExecuting keep definitions and deletions out).
THEOREM PlacesStayGood == GenericsSpec => MethodsStay
<1>1. GenericsIInv /\ [GenericsNext]_genericVars => Stays
  BY StepKeeps
<1>2. GenericsIInv /\ [GenericsNext]_genericVars => [Stays]_genericVars
  BY <1>1
<1> QED BY <1>2, Inductive, PTL DEF GenericsSpec, MethodsStay, Stays

-----------------------------------------------------------------------------
(* MESSAGES.  In this order: the tables of handlers and the search in      *)
(* them, the list of handlers of a message, the stack of calls and the     *)
(* core that belongs to it, busy counts, and each kind of step.            *)

-----------------------------------------------------------------------------
(* The inductive invariant.                                                *)

Handler == [name : MessageName, type : HandlerType, busy : Nat]
Link == [cls : HandlerClass, at : Nat]
Pointer == [call : Nat, at : Nat]
Core == [current : Pointer, next : Pointer]
CallRecord == [kind : {"send", "next"}, mode : {"arguments", "ready", "one", "all"},
         receiver : Receiver \cup {"none"}, name : MessageName \cup {"none"},
         list : Seq(Link), core : Core, at : Pointer, done : SUBSET Nat]

\* One class: its handlers are of different names and types; the map is a permutation
\* of their places, in the order of the buckets, those of a name next to each other.
NameOf(hs, map, i) == hs[map[i]].name

TableOK(hs, map) ==
    /\ hs \in Seq(Handler) /\ map \in Seq(Nat) /\ Len(map) = Len(hs)
    /\ \A p, q \in DOMAIN hs : p # q => hs[p].name # hs[q].name \/ hs[p].type # hs[q].type
    /\ \A i \in DOMAIN map : map[i] \in DOMAIN hs
    /\ \A i, j \in DOMAIN map : i # j => map[i] # map[j]
    /\ \A p \in DOMAIN hs : \E i \in DOMAIN map : map[i] = p
    /\ \A i, j \in DOMAIN map :
          i < j => Bucket[NameOf(hs, map, i)] <= Bucket[NameOf(hs, map, j)]
    /\ \A i, k, j \in DOMAIN map :
          i < k /\ k < j /\ NameOf(hs, map, i) = NameOf(hs, map, j)
          => NameOf(hs, map, k) = NameOf(hs, map, i)

TablesOK(hs, map) ==
    /\ hs \in [HandlerClass -> Seq(Handler)] /\ map \in [HandlerClass -> Seq(Nat)]
    /\ \A c \in HandlerClass : TableOK(hs[c], map[c])

\* The order in which the handlers of a message are listed.
Kind(hs, l) == hs[l.cls][l.at].type
Rank(t) == CASE t = "around" -> 1 [] t = "before" -> 2 [] t = "primary" -> 3 [] OTHER -> 4
PlaceIn(classes, l) == SelectInSeq(classes, LAMBDA c : c = l.cls)
Ahead(hs, classes) ==
    {p \in Link \X Link :
        \/ Rank(Kind(hs, p[1])) < Rank(Kind(hs, p[2]))
        \/ /\ Kind(hs, p[1]) = Kind(hs, p[2])
           /\ IF Kind(hs, p[1]) = "after"
              THEN PlaceIn(classes, p[2]) < PlaceIn(classes, p[1])
              ELSE PlaceIn(classes, p[1]) < PlaceIn(classes, p[2])}
Pairwise(s, R) == \A j, k \in DOMAIN s : j < k => <<s[j], s[k]>> \in R

ListOK(hs, classes, s) ==
    /\ s \in Seq(Link)
    /\ \A k \in DOMAIN s : s[k].at \in DOMAIN hs[s[k].cls]
    /\ Pairwise(s, Ahead(hs, classes))
    /\ \E k \in DOMAIN s : Kind(hs, s[k]) = "primary"

WholeOf(hs, s) ==
    {k \in DOMAIN s : \/ Kind(hs, s[k]) \in {"before", "after"}
                      \/ /\ Kind(hs, s[k]) = "primary"
                         /\ k = 1 \/ Kind(hs, s[k - 1]) # "primary"}

\* The core that belongs to the calls 1..n: that of the innermost that runs a handler.
NoCore == [current |-> Nowhere, next |-> Nowhere]
ListAt(cs, pointer) == cs[pointer.call].list
CoreOf(cs, i) == [current |-> cs[i].at, next |-> Behind(ListAt(cs, cs[i].at), cs[i].at)]
LastRunning(cs, n, i) ==
    i \in 1 .. n /\ Running(cs[i]) /\ \A j \in i + 1 .. n : ~Running(cs[j])
CoreAt(cs, n, cr) ==
    \/ (\A j \in 1 .. n : ~Running(cs[j])) /\ cr = NoCore
    \/ \E i \in 1 .. n : LastRunning(cs, n, i) /\ cr = CoreOf(cs, i)

Available(hs, cs, cr) ==
    /\ cr.current # Nowhere /\ cr.next # Nowhere
    /\ LET s == ListAt(cs, cr.current)
           type == Kind(hs, s[cr.current.at])
       IN type = "around" \/ (type = "primary" /\ Kind(hs, s[cr.next.at]) = "primary")

\* One call, by itself and among those below it.
IsMessage(C) == C.kind = "send" /\ C.mode # "arguments"
MessageOK(hs, C) ==
    /\ C.kind = "send" => C.receiver \in Receiver /\ C.name \in MessageName
    /\ IF IsMessage(C) THEN ListOK(hs, Precedence[C.receiver], C.list) ELSE C.list = << >>
RunsOK(hs, cs, i) ==
    LET C == cs[i]
        s == ListAt(cs, C.at)
    IN /\ C.at.call \in 1 .. i /\ IsMessage(cs[C.at.call]) /\ C.at.at \in DOMAIN s
       /\ C.kind = "send" => C.at.call = i
       /\ C.kind = "next" => \E j \in 1 .. i - 1 : /\ LastRunning(cs, i - 1, j)
                                                   /\ C.at.call = cs[j].at.call
                                                   /\ C.at.at > cs[j].at.at
       /\ C.mode = "all" => C.done = {k \in WholeOf(hs, s) : k <= C.at.at}
CallOK(hs, cs, i) ==
    /\ MessageOK(hs, cs[i])
    /\ Running(cs[i]) => RunsOK(hs, cs, i)
    /\ ~Running(cs[i]) => /\ cs[i].done = {}
                          /\ cs[i].kind = "next" => Available(hs, cs, cs[i].core)
    /\ CoreAt(cs, i - 1, cs[i].core)
StackOK(hs, cs) == cs \in Seq(CallRecord) /\ \A i \in DOMAIN cs : CallOK(hs, cs, i)

\* How many messages have a handler in their list.
Lists(cs, c, i) == {j \in DOMAIN cs : IsMessage(cs[j]) /\ \E k \in DOMAIN cs[j].list :
                                          cs[j].list[k] = [cls |-> c, at |-> i]}
BusyOK(hs, cs) ==
    \A c \in HandlerClass : \A i \in DOMAIN hs[c] : hs[c][i].busy = Cardinality(Lists(cs, c, i))

MessagesIInv ==
    /\ TablesOK(handlers, handlerOrderMap)
    /\ StackOK(handlers, calls)
    /\ BusyOK(handlers, calls)
    /\ core \in Core /\ CoreAt(calls, Len(calls), core)
    /\ outcome = TRUE /\ dangling = FALSE

-----------------------------------------------------------------------------
(* Sets in an order.                                                       *)

TotalOrder(S, R) ==
    /\ \A x \in S : <<x, x>> \notin R
    /\ \A x, y, z \in S : <<x, y>> \in R /\ <<y, z>> \in R => <<x, z>> \in R
    /\ \A x, y \in S : x = y \/ <<x, y>> \in R \/ <<y, x>> \in R

LEMMA InOrderIs ==
    ASSUME NEW S, IsFiniteSet(S), NEW R, TotalOrder(S, R)
    PROVE  /\ InOrder(S, R) \in Seq(S) /\ Len(InOrder(S, R)) = Cardinality(S)
           /\ DOMAIN InOrder(S, R) = 1 .. Cardinality(S) /\ Cardinality(S) \in Nat
           /\ \A k \in DOMAIN InOrder(S, R) : InOrder(S, R)[k] \in S
           /\ \A x \in S : \E k \in DOMAIN InOrder(S, R) : InOrder(S, R)[k] = x
           /\ Pairwise(InOrder(S, R), R)
           /\ \A k \in DOMAIN InOrder(S, R) :
                 Cardinality({y \in S : <<y, InOrder(S, R)[k]>> \in R}) = k - 1
<1> DEFINE n == Cardinality(S)
           below(x) == {y \in S : <<y, x>> \in R}
           r(x) == Cardinality(below(x))
<1>1. n \in Nat
  BY FS_CardinalityType
<1>2. ASSUME NEW x \in S
      PROVE  IsFiniteSet(below(x)) /\ r(x) \in Nat /\ r(x) < n
  <2>1. IsFiniteSet(S \ {x}) /\ Cardinality(S \ {x}) = n - 1
    BY FS_RemoveElement
  <2>2. below(x) \in SUBSET (S \ {x})
    BY DEF TotalOrder
  <2>3. IsFiniteSet(below(x)) /\ r(x) <= n - 1
    <3>1. IsFiniteSet(below(x)) /\ Cardinality(below(x)) <= Cardinality(S \ {x})
      BY <2>1, <2>2, FS_Subset, ZenonT(60)
    <3> QED BY <2>1, <3>1, ZenonT(60)
  <2>4. r(x) \in Nat
    BY <2>3, FS_CardinalityType
  <2> QED BY <1>1, <2>3, <2>4
<1>3. ASSUME NEW x \in S, NEW y \in S, <<x, y>> \in R
      PROVE  r(x) < r(y)
  <2>1. IsFiniteSet(below(x) \cup {x}) /\ Cardinality(below(x) \cup {x}) = r(x) + 1
    <3>1. x \notin below(x)
      BY DEF TotalOrder
    <3>2. IsFiniteSet(below(x))
      BY <1>2
    <3> HIDE DEF below
    <3> QED BY <3>1, <3>2, FS_AddElement
  <2>2. (below(x) \cup {x}) \in SUBSET below(y)
    BY <1>3 DEF TotalOrder
  <2>3. Cardinality(below(x) \cup {x}) <= r(y)
    <3>1. IsFiniteSet(below(y))
      BY <1>2
    <3> HIDE DEF below
    <3> QED BY <2>2, <3>1, FS_Subset
  <2>4. r(x) \in Nat /\ r(y) \in Nat
    BY <1>2
  <2> HIDE DEF below
  <2> QED BY <2>1, <2>3, <2>4
<1>4. ASSUME NEW x \in S, NEW y \in S, r(x) = r(y)
      PROVE  x = y
  <2>1. r(x) \in Nat /\ r(y) \in Nat /\ ~(r(x) < r(y)) /\ ~(r(y) < r(x))
    BY <1>2, <1>4
  <2>2. <<x, y>> \notin R /\ <<y, x>> \notin R
    BY <1>3, <2>1
  <2> QED BY <2>2 DEF TotalOrder
<1> DEFINE f == [x \in S |-> r(x)]
<1>5. \A x \in S : r(x) \in 0 .. n - 1
  BY <1>1, <1>2
<1>6. f \in Injection(S, 0 .. n - 1)
  <2>1. f \in [S -> 0 .. n - 1]
    BY <1>5
  <2>2. \A x, y \in S : f[x] = f[y] => x = y
    BY <1>4
  <2> HIDE DEF f, n
  <2> QED BY <2>1, <2>2 DEF Injection, IsInjective
<1>7. f \in Surjection(S, 0 .. n - 1)
  <2>1. IsFiniteSet(0 .. n - 1) /\ Cardinality(0 .. n - 1) = n
    <3>1. 0 \in Int /\ n - 1 \in Int
      BY <1>1
    <3>2. Cardinality(0 .. n - 1) = IF 0 > n - 1 THEN 0 ELSE n - 1 - 0 + 1
      BY <3>1, FS_Interval
    <3> QED BY <1>1, <3>1, <3>2, FS_Interval
  <2> HIDE DEF f
  <2> QED BY <1>6, <2>1, FS_Injection
<1>8. ASSUME NEW k \in 1 .. n
      PROVE  \E x \in S : r(x) = k - 1
  <2>1. k - 1 \in 0 .. n - 1
    BY <1>1
  <2>2. PICK x \in S : f[x] = k - 1
    <3> HIDE DEF f
    <3> QED BY <1>7, <2>1 DEF Surjection
  <2> QED BY <2>2
<1> DEFINE o == InOrder(S, R)
<1>9. o = [k \in 1 .. n |-> CHOOSE x \in S : r(x) = k - 1]
  BY DEF InOrder
<1>10. ASSUME NEW k \in 1 .. n
       PROVE  o[k] \in S /\ r(o[k]) = k - 1
  <2>1. o[k] = CHOOSE x \in S : r(x) = k - 1
    BY <1>9
  <2> HIDE DEF r, o
  <2> QED BY <1>8, <2>1
<1>11. DOMAIN o = 1 .. n /\ Len(o) = n /\ o \in Seq(S)
  <2> HIDE DEF r, n
  <2>1. o \in [1 .. n -> S]
    <3>1. o = [k \in 1 .. n |-> o[k]]
      BY <1>9
    <3> HIDE DEF o
    <3> QED BY <1>10, <3>1
  <2> HIDE DEF o
  <2> QED BY <1>1, <2>1
<1>12. ASSUME NEW x \in S
       PROVE  \E k \in 1 .. n : o[k] = x
  <2> DEFINE k == r(x) + 1
  <2>1. k \in 1 .. n /\ k - 1 = r(x)
    <3>1. r(x) \in Nat /\ r(x) < n
      BY <1>2
    <3> HIDE DEF r, n
    <3> QED BY <1>1, <3>1
  <2>2. o[k] \in S /\ r(o[k]) = r(x)
    <3> HIDE DEF k, r, o
    <3> QED BY <1>10, <2>1
  <2>3. o[k] = x
    <3> HIDE DEF k, r, o
    <3> QED BY <1>4, <2>2
  <2> QED BY <2>1, <2>3
<1>13. ASSUME NEW j \in 1 .. n, NEW k \in 1 .. n, j < k
       PROVE  <<o[j], o[k]>> \in R
  <2> HIDE DEF o, r, n
  <2>1. o[j] \in S /\ o[k] \in S /\ r(o[j]) = j - 1 /\ r(o[k]) = k - 1
    BY <1>10
  <2>2. ~(r(o[k]) < r(o[j])) /\ r(o[k]) # r(o[j])
    BY <1>13, <2>1, <1>1
  <2>3. <<o[k], o[j]>> \notin R /\ o[j] # o[k]
    BY <1>3, <2>1, <2>2
  <2> QED BY <2>1, <2>3 DEF TotalOrder
<1>14. \A k \in 1 .. n : Cardinality({y \in S : <<y, o[k]>> \in R}) = k - 1
  BY <1>10
<1> HIDE DEF r, n, o
<1> QED BY <1>1, <1>10, <1>11, <1>12, <1>13, <1>14 DEF Pairwise, n, o

LEMMA UpwardIs ==
    ASSUME NEW S, S \subseteq Nat
    PROVE  TotalOrder(S, Upward(S))
BY DEF TotalOrder, Upward

-----------------------------------------------------------------------------
(* Looking for handlers.                                                   *)

LEMMA LowestIs ==
    ASSUME NEW T, T \subseteq Nat, T # {}
    PROVE  Lowest(T) \in T /\ \A u \in T : Lowest(T) <= u
<1>1. \E t \in T : \A u \in T : t <= u
  BY LeastNumber
<1> QED BY <1>1 DEF Lowest

\* The lowest place of the map with a name among b..e, or 0.
First(c, name, b, e) ==
    LET F == {j \in b .. e : NameAt(c, j) = name}
    IN IF F = {} THEN 0 ELSE Lowest(F)

\* The map is sorted: what a step of the search leaves out is not of the name.
LEMMA BucketsAscend ==
    ASSUME NEW c, TableOK(handlers[c], handlerOrderMap[c])
    PROVE  /\ DOMAIN handlerOrderMap[c] = 1 .. Len(handlers[c]) /\ Len(handlers[c]) \in Nat
           /\ \A i \in 1 .. Len(handlers[c]) : NameAt(c, i) \in MessageName /\ BucketAt(c, i) \in Nat
           /\ \A i, j \in 1 .. Len(handlers[c]) : i <= j => BucketAt(c, i) <= BucketAt(c, j)
<1> DEFINE hs == handlers[c]
           map == handlerOrderMap[c]
           n == Len(hs)
<1>1. n \in Nat /\ DOMAIN hs = 1 .. n /\ DOMAIN map = 1 .. n
  BY DEF TableOK
<1>2. ASSUME NEW i \in 1 .. n
      PROVE  NameAt(c, i) \in MessageName /\ BucketAt(c, i) \in Nat
  <2>1. map[i] \in DOMAIN hs
    BY <1>1 DEF TableOK
  <2>2. hs \in Seq(Handler)
    BY DEF TableOK
  <2>3. hs[map[i]] \in Handler
    BY <2>1, <2>2
  <2>4. NameAt(c, i) \in MessageName
    BY <2>3 DEF NameAt, Handler
  <2> QED BY <2>4, HandlersAssumption DEF BucketAt
<1>3. ASSUME NEW i \in 1 .. n, NEW j \in 1 .. n, i <= j
      PROVE  BucketAt(c, i) <= BucketAt(c, j)
  <2>1. CASE i = j
    BY <1>2, <2>1
  <2>2. CASE i < j
    BY <1>1, <2>2 DEF TableOK, BucketAt, NameAt, NameOf
  <2> QED BY <1>1, <1>3, <2>1, <2>2
<1> QED BY <1>1, <1>2, <1>3

LEMMA SearchIs ==
    ASSUME NEW c, TableOK(handlers[c], handlerOrderMap[c]), NEW name \in MessageName
    PROVE  FindHandlerNameGroup(c, name) = First(c, name, 1, Len(handlers[c]))
<1> DEFINE n == Len(handlers[c])
           D == (1 .. n + 1) \X (0 .. n)
           mid(r) == (r[1] + r[2]) \div 2
           Body(f, r) ==
               IF r[1] > r[2] THEN 0
               ELSE IF Bucket[name] = BucketAt(c, mid(r)) THEN GroupAround(c, name, mid(r), r[1], r[2])
               ELSE IF Bucket[name] < BucketAt(c, mid(r)) THEN f[<<r[1], mid(r) - 1>>]
               ELSE f[<<mid(r) + 1, r[2]>>]
           Is(r) == First(c, name, r[1], r[2])
           Size(r) == r[2] - r[1] + 1
           search == CHOOSE f : f = [r \in D |-> Body(f, r)]
<1>1. n \in Nat
  BY BucketsAscend
<1>2. FindHandlerNameGroup(c, name) = search[<<1, n>>]
  BY DEF FindHandlerNameGroup
<1>3. ASSUME NEW f, NEW r \in D, \A q \in D : Size(q) < Size(r) => f[q] = Is(q)
      PROVE  Body(f, r) = Is(r)
  <2> DEFINE b == r[1]
             e == r[2]
             i == mid(r)
             F(x, y) == {j \in x .. y : NameAt(c, j) = name}
  <2>1. b \in 1 .. n + 1 /\ e \in 0 .. n
    OBVIOUS
  <2>2. CASE b > e
    <3>1. F(b, e) = {}
      BY <1>1, <2>1, <2>2
    <3> QED BY <2>2, <3>1 DEF First
  <2>3. CASE b <= e
    <3>1. i \in b .. e /\ i \in 1 .. n /\ b \in 1 .. n /\ e \in 1 .. n /\ ~(b > e)
      BY <1>1, <2>1, <2>3
    <3>2. \A j \in b .. e : j \in 1 .. n
      BY <1>1, <3>1
    <3>3. \A j \in F(b, e) : j \in 1 .. n /\ BucketAt(c, j) = Bucket[name]
      BY <3>2 DEF BucketAt
    <3>4. BucketAt(c, i) \in Nat /\ Bucket[name] \in Nat
      BY <3>1, BucketsAscend, HandlersAssumption
    <3> HIDE DEF mid
    <3>5. CASE Bucket[name] = BucketAt(c, i)
      <4> DEFINE near(j) == \A k \in (j .. i) \cup (i .. j) : BucketAt(c, k) = Bucket[name]
      <4>1. ASSUME NEW j \in F(b, e) PROVE near(j)
        <5>1. j \in 1 .. n /\ j \in b .. e /\ BucketAt(c, j) = Bucket[name] /\ i \in 1 .. n /\ n \in Nat
          BY <3>1, <3>3, <1>1
        <5>2. SUFFICES ASSUME NEW k \in (j .. i) \cup (i .. j) PROVE BucketAt(c, k) = Bucket[name]
          OBVIOUS
        <5> HIDE DEF i, n, b, e
        <5>3. k \in 1 .. n
          BY <5>1, <5>2
        <5>4. k \in j .. i \/ k \in i .. j
          BY <5>2
        <5>5. /\ BucketAt(c, k) \in Nat /\ BucketAt(c, i) \in Nat /\ BucketAt(c, j) \in Nat
              /\ BucketAt(c, i) = BucketAt(c, j)
          BY <3>5, <5>1, <5>3, BucketsAscend DEF n
        <5>6. CASE k \in j .. i
          <6>1. j <= k /\ k <= i
            BY <5>1, <5>6
          <6>2. BucketAt(c, j) <= BucketAt(c, k) /\ BucketAt(c, k) <= BucketAt(c, i)
            BY <5>1, <5>3, <6>1, BucketsAscend DEF n
          <6> QED BY <5>1, <5>5, <6>2
        <5>7. CASE k \in i .. j
          <6>1. i <= k /\ k <= j
            BY <5>1, <5>7
          <6>2. BucketAt(c, i) <= BucketAt(c, k) /\ BucketAt(c, k) <= BucketAt(c, j)
            BY <5>1, <5>3, <6>1, BucketsAscend DEF n
          <6> QED BY <5>1, <5>5, <6>2
        <5> QED BY <5>4, <5>6, <5>7
      <4>2. {j \in b .. e : NameAt(c, j) = name /\ near(j)} = F(b, e)
        BY <4>1
      <4>3. GroupAround(c, name, i, b, e) = Is(r)
        BY <4>2 DEF GroupAround, First
      <4> QED BY <3>1, <3>5, <4>3
    <3>6. CASE Bucket[name] < BucketAt(c, i)
      <4> DEFINE q == <<b, i - 1>>
      <4>1. q \in D /\ Size(q) < Size(r) /\ q[1] = b /\ q[2] = i - 1
        <5> HIDE DEF i, n, b, e
        <5>1. b \in 1 .. n + 1 /\ i - 1 \in 0 .. n
          BY <1>1, <2>1, <3>1
        <5>2. q \in D
          BY <5>1
        <5>3. (i - 1) - b + 1 < e - b + 1
          BY <1>1, <3>1
        <5> QED BY <5>2, <5>3 DEF b, e
      <4>2. f[q] = Is(q)
        <5> HIDE DEF q, D
        <5> QED BY <1>3, <4>1
      <4>3. F(b, i - 1) = F(b, e)
        <5>1. ASSUME NEW j \in F(b, e) PROVE j <= i - 1
          <6>1. j \in 1 .. n /\ j \in b .. e /\ BucketAt(c, j) = Bucket[name]
            BY <3>3
          <6> HIDE DEF i, n
          <6>2. ~(i <= j)
            BY <3>1, <3>4, <3>6, <6>1, BucketsAscend DEF n
          <6> QED BY <3>1, <6>1, <6>2, <1>1
        <5> HIDE DEF i, b, e
        <5> QED BY <5>1, <3>1, <1>1
      <4>4. Is(q) = Is(r)
        BY <4>1, <4>3 DEF First
      <4>5. Body(f, r) = f[q]
        BY <3>1, <3>4, <3>6
      <4> HIDE DEF Is, q, Body
      <4> QED BY <4>2, <4>4, <4>5
    <3>7. CASE BucketAt(c, i) < Bucket[name]
      <4> DEFINE q == <<i + 1, e>>
      <4>1. q \in D /\ Size(q) < Size(r) /\ q[1] = i + 1 /\ q[2] = e
        <5> HIDE DEF i, n, b, e
        <5>1. i + 1 \in 1 .. n + 1 /\ e \in 0 .. n
          BY <1>1, <2>1, <3>1
        <5>2. q \in D
          BY <5>1
        <5>3. e - (i + 1) + 1 < e - b + 1
          BY <1>1, <3>1
        <5> QED BY <5>2, <5>3 DEF b, e
      <4>2. f[q] = Is(q)
        <5> HIDE DEF q, D
        <5> QED BY <1>3, <4>1
      <4>3. F(i + 1, e) = F(b, e)
        <5>1. ASSUME NEW j \in F(b, e) PROVE i + 1 <= j
          <6>1. j \in 1 .. n /\ j \in b .. e /\ BucketAt(c, j) = Bucket[name]
            BY <3>3
          <6> HIDE DEF i, n
          <6>2. ~(j <= i)
            BY <3>1, <3>4, <3>7, <6>1, BucketsAscend DEF n
          <6> QED BY <3>1, <6>1, <6>2, <1>1
        <5> HIDE DEF i, b, e
        <5> QED BY <5>1, <3>1, <1>1
      <4>4. Is(q) = Is(r)
        BY <4>1, <4>3 DEF First
      <4>5. Body(f, r) = f[q]
        <5>1. ~(Bucket[name] < BucketAt(c, i)) /\ Bucket[name] # BucketAt(c, i)
          BY <3>4, <3>7
        <5> QED BY <3>1, <5>1
      <4> HIDE DEF Is, q, Body
      <4> QED BY <4>2, <4>4, <4>5
    <3> QED BY <3>4, <3>5, <3>6, <3>7
  <2> QED BY <1>1, <2>1, <2>2, <2>3
<1> HIDE DEF Body, Is, Size
<1>4. search = [r \in D |-> Body(search, r)]
  <2> DEFINE g == [r \in D |-> Is(r)]
  <2>1. \A r \in D : g[r] = Is(r)
    OBVIOUS
  <2>2. \A r \in D : Body(g, r) = Is(r)
    <3> HIDE DEF g, D
    <3> QED BY <2>1, <1>3
  <2>3. g = [r \in D |-> Body(g, r)]
    BY <2>2
  <2>4. \E f : f = [r \in D |-> Body(f, r)]
    <3> HIDE DEF g
    <3> QED BY <2>3
  <2> HIDE DEF D
  <2> QED BY <2>4
<1> HIDE DEF search
<1>5. \A r \in D : search[r] = Body(search, r)
  BY <1>4
<1> DEFINE T == {k \in Nat : \A r \in D : Size(r) <= k => search[r] = Is(r)}
<1>6. \A k \in 0 .. n : k \in T
  <2>1. \A r \in D : Size(r) \in Int
    BY <1>1 DEF Size
  <2>2. 0 \in T
    <3>1. ASSUME NEW r \in D, Size(r) <= 0 PROVE search[r] = Is(r)
      <4>1. r[1] \in Int /\ r[2] \in Int /\ r[1] > r[2]
        BY <1>1, <3>1 DEF Size
      <4>2. Body(search, r) = 0
        BY <4>1 DEF Body
      <4>3. {j \in r[1] .. r[2] : NameAt(c, j) = name} = {}
        BY <4>1
      <4>4. Is(r) = 0
        BY <4>3 DEF Is, First
      <4> QED BY <1>5, <4>2, <4>4
    <3> QED BY <3>1
  <2>3. ASSUME NEW k \in 0 .. n - 1, k \in T PROVE k + 1 \in T
    <3> HIDE DEF D
    <3>1. k \in Nat
      BY <2>3
    <3>2. ASSUME NEW r \in D, Size(r) <= k + 1 PROVE search[r] = Is(r)
      <4>1. \A q \in D : Size(q) < Size(r) => search[q] = Is(q)
        BY <2>1, <2>3, <3>1, <3>2
      <4>2. Body(search, r) = Is(r)
        BY <1>3, <4>1
      <4> QED BY <1>5, <4>2
    <3> QED BY <3>1, <3>2
  <2> HIDE DEF T
  <2> QED BY <1>1, <2>2, <2>3, UpTo
<1>7. <<1, n>> \in D /\ Size(<<1, n>>) <= n
  BY <1>1 DEF Size
<1>8. search[<<1, n>>] = Is(<<1, n>>)
  <2>1. n \in T
    <3> HIDE DEF T
    <3> QED BY <1>1, <1>6
  <2> HIDE DEF D
  <2> QED BY <1>7, <2>1
<1> QED BY <1>2, <1>8 DEF Is

LEMMA PartOf ==
    ASSUME NEW s \in Seq(Nat), NEW b \in 1 .. Len(s), NEW e \in 1 .. Len(s), b <= e
    PROVE  /\ SubSeq(s, b, e) \in Seq(Nat) /\ DOMAIN SubSeq(s, b, e) = 1 .. e - b + 1
           /\ \A i \in 1 .. e - b + 1 : SubSeq(s, b, e)[i] = s[i + b - 1] /\ i + b - 1 \in b .. e
OBVIOUS

LEMMA NameGroupIs ==
    ASSUME NEW c, TableOK(handlers[c], handlerOrderMap[c]), NEW name \in MessageName
    PROVE  /\ NameGroup(c, name) \in Seq(DOMAIN handlers[c])
           /\ \A i \in DOMAIN NameGroup(c, name) : handlers[c][NameGroup(c, name)[i]].name = name
           /\ \A i, j \in DOMAIN NameGroup(c, name) :
                 i # j => NameGroup(c, name)[i] # NameGroup(c, name)[j]
           /\ \A p \in DOMAIN handlers[c] : handlers[c][p].name = name =>
                 \E i \in DOMAIN NameGroup(c, name) : NameGroup(c, name)[i] = p
<1> DEFINE hs == handlers[c]
           map == handlerOrderMap[c]
           n == Len(hs)
           g == NameGroup(c, name)
           F == {j \in 1 .. n : NameAt(c, j) = name}
           b == FindHandlerNameGroup(c, name)
           others == {j \in b .. n : NameAt(c, j) # name}
           e == IF others = {} THEN n ELSE Lowest(others) - 1
<1>1. n \in Nat /\ DOMAIN map = 1 .. n /\ DOMAIN hs = 1 .. n /\ map \in Seq(Nat) /\ Len(map) = n
  BY BucketsAscend DEF TableOK
<1>2. b = IF F = {} THEN 0 ELSE Lowest(F)
  BY SearchIs DEF First
<1>3. \A i \in 1 .. n : map[i] \in 1 .. n /\ NameAt(c, i) = hs[map[i]].name
  BY <1>1 DEF TableOK, NameAt
<1>4. CASE F = {}
  <2>1. g = << >>
    BY <1>2, <1>4 DEF NameGroup
  <2>2. \A p \in DOMAIN hs : hs[p].name # name
    <3>1. SUFFICES ASSUME NEW p \in DOMAIN hs, hs[p].name = name PROVE FALSE
      OBVIOUS
    <3>2. PICK i \in DOMAIN map : map[i] = p
      BY DEF TableOK
    <3>3. i \in F
      BY <1>1, <1>3, <3>1, <3>2
    <3> QED BY <1>4, <3>3
  <2>3. /\ g \in Seq(DOMAIN hs) /\ DOMAIN g = {}
        /\ \A p \in DOMAIN hs : hs[p].name # name
    <3> HIDE DEF g
    <3> QED BY <2>1, <2>2
  <2> QED BY <2>3
<1>5. CASE F # {}
  <2>1. b \in F /\ (\A j \in F : b <= j) /\ b \in 1 .. n
    <3>1. F \subseteq Nat
      OBVIOUS
    <3> HIDE DEF b
    <3>2. b \in F /\ \A j \in F : b <= j
      <4>1. b = Lowest(F)
        BY <1>2, <1>5
      <4> HIDE DEF F
      <4> QED BY <3>1, <1>5, <4>1, LowestIs
    <3> QED BY <3>2
  <2>2. e \in b .. n /\ (\A j \in b .. e : j \in F) /\ \A j \in F : j \in b .. e
    <3>1. others \subseteq b + 1 .. n
      <4> HIDE DEF b
      <4> QED BY <1>1, <2>1
    <3>2. CASE others = {}
      <4>1. e = n /\ \A j \in b .. n : NameAt(c, j) = name
        BY <3>2
      <4> HIDE DEF b, e
      <4> QED BY <1>1, <2>1, <4>1
    <3>3. CASE others # {}
      <4>1. Lowest(others) \in others /\ \A j \in others : Lowest(others) <= j
        <5>1. others \subseteq Nat
          <6> HIDE DEF others, b
          <6> QED BY <2>1, <3>1
        <5> HIDE DEF others
        <5> QED BY <3>3, <5>1, LowestIs
      <4> DEFINE l == Lowest(others)
      <4>2. e = l - 1
        BY <3>3
      <4>3. l \in b + 1 .. n /\ NameAt(c, l) # name /\ \A j \in b .. n : NameAt(c, j) # name => l <= j
        BY <3>1, <4>1
      <4> HIDE DEF b, e, l
      <4>4. e \in b .. n /\ \A j \in b .. e : NameAt(c, j) = name /\ j \in 1 .. n
        BY <1>1, <2>1, <4>2, <4>3
      <4>5. ASSUME NEW j \in F PROVE j \in b .. e
        <5>1. j \in 1 .. n /\ b <= j /\ NameAt(c, j) = name /\ NameAt(c, b) = name
          BY <2>1
        <5>2. ~(l < j)
          <6>1. SUFFICES ASSUME l < j PROVE FALSE
            OBVIOUS
          <6>2. b < l /\ l \in DOMAIN map /\ b \in DOMAIN map /\ j \in DOMAIN map
            BY <1>1, <2>1, <4>3, <5>1
          <6>3. NameOf(hs, map, b) = NameOf(hs, map, j)
            BY <1>1, <1>3, <5>1, <6>2 DEF NameOf
          <6>4. NameOf(hs, map, l) = NameOf(hs, map, b)
            BY <6>1, <6>2, <6>3 DEF TableOK
          <6> QED BY <1>1, <1>3, <4>3, <5>1, <6>2, <6>4 DEF NameOf
        <5>3. l # j
          BY <4>3, <5>1
        <5> QED BY <1>1, <2>1, <4>2, <4>3, <5>1, <5>2, <5>3
      <4> QED BY <4>4, <4>5
    <3> QED BY <3>2, <3>3
  <2>3. g = SubSeq(map, b, e)
    <3>1. b # 0
      BY <2>1
    <3> QED BY <3>1 DEF NameGroup
  <2> HIDE DEF b, e, g, others
  <2>4. /\ g \in Seq(Nat) /\ DOMAIN g = 1 .. e - b + 1
        /\ \A i \in 1 .. e - b + 1 : g[i] = map[i + b - 1] /\ i + b - 1 \in b .. e
    <3>1. b \in 1 .. n /\ e \in 1 .. n /\ b <= e
      BY <1>1, <2>1, <2>2
    <3> QED BY <1>1, <2>3, <3>1, PartOf
  <2>5. \A i \in DOMAIN g : i + b - 1 \in 1 .. n /\ g[i] \in DOMAIN hs /\ hs[g[i]].name = name
    BY <1>1, <1>3, <2>2, <2>4, SMTT(60)
  <2>6. \A i, j \in DOMAIN g : i # j => g[i] # g[j]
    <3>1. SUFFICES ASSUME NEW i \in DOMAIN g, NEW j \in DOMAIN g, i # j PROVE g[i] # g[j]
      OBVIOUS
    <3>2. i + b - 1 \in DOMAIN map /\ j + b - 1 \in DOMAIN map /\ i + b - 1 # j + b - 1
      BY <1>1, <2>1, <2>4, <2>5, <3>1
    <3> QED BY <2>4, <3>2 DEF TableOK
  <2>7. ASSUME NEW p \in DOMAIN hs, hs[p].name = name
        PROVE  \E i \in DOMAIN g : g[i] = p
    <3>1. PICK j \in DOMAIN map : map[j] = p
      BY DEF TableOK
    <3>2. j \in F
      BY <1>1, <1>3, <2>7, <3>1
    <3>3. j \in b .. e /\ j - b + 1 \in 1 .. e - b + 1
      BY <1>1, <2>1, <2>2, <3>2
    <3>4. (j - b + 1) + b - 1 = j
      BY <1>1, <2>1, <3>3
    <3> QED BY <2>4, <3>1, <3>3, <3>4
  <2>8. g \in Seq(DOMAIN hs)
    <3>1. g \in [1 .. Len(g) -> Nat] /\ DOMAIN g = 1 .. Len(g) /\ Len(g) \in Nat
      BY <2>4, LenProperties
    <3>2. \A i \in 1 .. Len(g) : g[i] \in DOMAIN hs
      BY <2>5, <3>1
    <3> QED BY <3>1, <3>2
  <2> QED BY <2>5, <2>6, <2>7, <2>8 DEF g
<1> QED BY <1>4, <1>5

LEMMA FindHandlerByAddressIs ==
    ASSUME NEW c, TableOK(handlers[c], handlerOrderMap[c]), NEW name \in MessageName, NEW type
    PROVE  LET p == FindHandlerByAddress(c, name, type)
           IN /\ p # 0 => p \in DOMAIN handlers[c]
              /\ p = 0 => \A q \in DOMAIN handlers[c] :
                             handlers[c][q].name # name \/ handlers[c][q].type # type
<1> DEFINE g == NameGroup(c, name)
           I == {k \in 1 .. Len(g) : handlers[c][g[k]].type = type}
           i == SelectInSeq(g, LAMBDA p : handlers[c][p].type = type)
<1>1. g \in Seq(DOMAIN handlers[c]) /\ DOMAIN g = 1 .. Len(g)
  BY NameGroupIs
<1>2. i = IF I # {} THEN Min(I) ELSE 0
  BY DEF SelectInSeq
<1>3. FindHandlerByAddress(c, name, type) = IF i = 0 THEN 0 ELSE g[i]
  BY DEF FindHandlerByAddress
<1>4. 0 \notin DOMAIN handlers[c]
  BY DEF TableOK
<1>5. CASE I = {}
  <2>1. FindHandlerByAddress(c, name, type) = 0
    BY <1>2, <1>3, <1>5
  <2>2. \A q \in DOMAIN handlers[c] : handlers[c][q].name # name \/ handlers[c][q].type # type
    <3>1. SUFFICES ASSUME NEW q \in DOMAIN handlers[c], handlers[c][q].name = name,
                          handlers[c][q].type = type
                   PROVE  FALSE
      OBVIOUS
    <3>2. PICK k \in DOMAIN g : g[k] = q
      BY <3>1, NameGroupIs
    <3>3. k \in I
      BY <1>1, <3>1, <3>2
    <3> QED BY <1>5, <3>3
  <2> QED BY <2>1, <2>2
<1>6. CASE I # {}
  <2>1. Min(I) \in I
    <3>1. I \subseteq Nat
      BY <1>1
    <3> HIDE DEF I
    <3> QED BY <1>6, <3>1, MinIs
  <2>2. i \in DOMAIN g /\ i # 0
    <3>1. i \in I
      BY <1>2, <1>6, <2>1
    <3> HIDE DEF i, g
    <3> QED BY <1>1, <3>1
  <2>3. FindHandlerByAddress(c, name, type) = g[i]
    BY <1>3, <2>2
  <2>4. g[i] \in DOMAIN handlers[c]
    <3> HIDE DEF g, i
    <3> QED BY <1>1, <2>2
  <2> QED BY <1>4, <2>3, <2>4
<1> QED BY <1>5, <1>6

\* Every handler of a class can be found.
LEMMA TablesMean ==
    ASSUME TablesOK(handlers, handlerOrderMap)
    PROVE  HandlersInv
<1>1. ASSUME NEW c \in HandlerClass
      PROVE  TableOK(handlers[c], handlerOrderMap[c])
  BY DEF TablesOK
<1>2. HandlersDistinct
  <2>1. SUFFICES ASSUME NEW c \in HandlerClass,
                        NEW i \in DOMAIN handlers[c], NEW j \in DOMAIN handlers[c], i # j
                 PROVE  <<handlers[c][i].name, handlers[c][i].type>>
                          # <<handlers[c][j].name, handlers[c][j].type>>
    BY DEF HandlersDistinct
  <2>2. handlers[c][i].name # handlers[c][j].name \/ handlers[c][i].type # handlers[c][j].type
    BY <1>1, <2>1 DEF TableOK
  <2> QED BY <2>2
<1>3. SearchFindsAll
  <2>1. SUFFICES ASSUME NEW c \in HandlerClass
                 PROVE  /\ Len(handlerOrderMap[c]) = Len(handlers[c])
                        /\ ToSet(handlerOrderMap[c]) = DOMAIN handlers[c]
                        /\ \A name \in MessageName : ToSet(NameGroup(c, name))
                              = {i \in DOMAIN handlers[c] : handlers[c][i].name = name}
    BY DEF SearchFindsAll
  <2>2. TableOK(handlers[c], handlerOrderMap[c])
    BY <1>1
  <2>3. Len(handlerOrderMap[c]) = Len(handlers[c])
    BY <2>2 DEF TableOK
  <2>4. ToSet(handlerOrderMap[c]) = DOMAIN handlers[c]
    BY <2>2 DEF TableOK, ToSet
  <2>5. ASSUME NEW name \in MessageName
        PROVE  ToSet(NameGroup(c, name)) = {i \in DOMAIN handlers[c] : handlers[c][i].name = name}
    <3> DEFINE g == NameGroup(c, name)
    <3>1. /\ g \in Seq(DOMAIN handlers[c]) /\ \A i \in DOMAIN g : handlers[c][g[i]].name = name
          /\ \A p \in DOMAIN handlers[c] : handlers[c][p].name = name => \E i \in DOMAIN g : g[i] = p
      BY <2>2, NameGroupIs
    <3> HIDE DEF g
    <3>2. \A i \in DOMAIN g : g[i] \in DOMAIN handlers[c]
      BY <3>1
    <3>3. ToSet(g) = {g[i] : i \in DOMAIN g}
      BY DEF ToSet
    <3>4. ToSet(g) = {i \in DOMAIN handlers[c] : handlers[c][i].name = name}
      BY <3>1, <3>2, <3>3
    <3> QED BY <3>4 DEF g
  <2> QED BY <2>3, <2>4, <2>5
<1> QED BY <1>2, <1>3 DEF HandlersInv

-----------------------------------------------------------------------------
(* Definitions.                                                            *)

LEMMA InsertKeeps ==
    ASSUME NEW hs, NEW map, TableOK(hs, map), NEW name \in MessageName, NEW type \in HandlerType,
           \A q \in DOMAIN hs : hs[q].name # name \/ hs[q].type # type,
           NEW ni \in 1 .. Len(hs) + 1,
           \A i \in 1 .. Len(hs) : i < ni => /\ Bucket[NameOf(hs, map, i)] <= Bucket[name]
                                             /\ NameOf(hs, map, i) # name,
           ni <= Len(hs) => \/ Bucket[NameOf(hs, map, ni)] > Bucket[name]
                            \/ NameOf(hs, map, ni) = name
    PROVE  TableOK(Append(hs, [name |-> name, type |-> type, busy |-> 0]),
                   InsertAt(map, ni, Len(hs) + 1))
<1> DEFINE n == Len(hs)
           h == [name |-> name, type |-> type, busy |-> 0]
           hs2 == Append(hs, h)
           map2 == InsertAt(map, ni, n + 1)
           old(j) == IF j < ni THEN j ELSE j - 1
           N(i) == NameOf(hs, map, i)
           N2(i) == NameOf(hs2, map2, i)
<1>1. /\ n \in Nat /\ DOMAIN hs = 1 .. n /\ DOMAIN map = 1 .. n /\ Len(map) = n
      /\ hs \in Seq(Handler) /\ map \in Seq(Nat) /\ ni \in Nat
  BY DEF TableOK
<1>2. h \in Handler
  BY DEF Handler
<1>3. /\ hs2 \in Seq(Handler) /\ Len(hs2) = n + 1 /\ DOMAIN hs2 = 1 .. n + 1
      /\ \A p \in 1 .. n : hs2[p] = hs[p]
      /\ hs2[n + 1] = h
  <2> HIDE DEF h
  <2> QED BY <1>1, <1>2
<1>4. /\ map2 \in Seq(Nat) /\ Len(map2) = n + 1 /\ DOMAIN map2 = 1 .. n + 1
      /\ \A j \in 1 .. n + 1 : map2[j] = IF j < ni THEN map[j] ELSE IF j = ni THEN n + 1 ELSE map[j - 1]
  <2>1. /\ map2 \in Seq(Nat) /\ Len(map2) = Len(map) + 1
        /\ \A j \in 1 .. Len(map) + 1 :
              map2[j] = IF j < ni THEN map[j] ELSE IF j = ni THEN n + 1 ELSE map[j - 1]
    <3>1. ni \in 1 .. Len(map) + 1 /\ n + 1 \in Nat /\ map \in Seq(Nat)
      BY <1>1
    <3>2. \A e \in Nat : LET t == InsertAt(map, ni, e) IN
              /\ t \in Seq(Nat) /\ Len(t) = Len(map) + 1
              /\ \A j \in 1 .. (Len(map) + 1) :
                    t[j] = IF j < ni THEN map[j] ELSE IF j = ni THEN e ELSE map[j - 1]
      BY <3>1, InsertAtProperties
    <3> DEFINE e == n + 1
    <3>3. e \in Nat /\ map2 = InsertAt(map, ni, e)
      BY <3>1
    <3> HIDE DEF e, map2
    <3>4. /\ map2 \in Seq(Nat) /\ Len(map2) = Len(map) + 1
          /\ \A j \in 1 .. (Len(map) + 1) :
                map2[j] = IF j < ni THEN map[j] ELSE IF j = ni THEN e ELSE map[j - 1]
      BY <3>2, <3>3
    <3> QED BY <3>4 DEF e
  <2> HIDE DEF map2
  <2>2. DOMAIN map2 = 1 .. Len(map2)
    BY <2>1
  <2>3. Len(map) + 1 = n + 1
    BY <1>1
  <2> QED BY <2>1, <2>2, <2>3
<1> HIDE DEF map2, hs2
<1>5. /\ \A i \in 1 .. n : map[i] \in 1 .. n
      /\ \A i, j \in 1 .. n : i # j => map[i] # map[j]
      /\ \A p \in 1 .. n : \E i \in 1 .. n : map[i] = p
  BY <1>1 DEF TableOK
<1>6. /\ map2[ni] = n + 1
      /\ \A j \in 1 .. n + 1 : j # ni => /\ old(j) \in 1 .. n /\ map2[j] = map[old(j)]
                                         /\ j < ni => old(j) < ni
                                         /\ j > ni => old(j) >= ni
      /\ \A i, j \in 1 .. n + 1 : i # ni /\ j # ni /\ i < j => old(i) < old(j)
  <2>1. ASSUME NEW j \in 1 .. n + 1, j # ni
        PROVE  /\ old(j) \in 1 .. n /\ map2[j] = map[old(j)]
               /\ j < ni => old(j) < ni
               /\ j > ni => old(j) >= ni
    BY <1>1, <1>4, <2>1
  <2>2. \A i, j \in 1 .. n + 1 : i # ni /\ j # ni /\ i < j => old(i) < old(j)
    BY <1>1
  <2> QED BY <1>1, <1>4, <2>1, <2>2
<1>7. N2(ni) = name
  BY <1>3, <1>6 DEF NameOf
<1>8. \A j \in 1 .. n + 1 : j # ni => N2(j) = N(old(j))
  <2>1. SUFFICES ASSUME NEW j \in 1 .. n + 1, j # ni PROVE N2(j) = N(old(j))
    OBVIOUS
  <2>2. map2[j] = map[old(j)] /\ old(j) \in 1 .. n
    BY <1>6, <2>1
  <2> HIDE DEF old
  <2>3. map[old(j)] \in 1 .. n
    BY <1>5, <2>2
  <2> QED BY <1>3, <2>2, <2>3 DEF NameOf
<1>9. \A i \in 1 .. n : N(i) \in MessageName /\ Bucket[N(i)] \in Nat
  <2>1. SUFFICES ASSUME NEW i \in 1 .. n PROVE N(i) \in MessageName /\ Bucket[N(i)] \in Nat
    OBVIOUS
  <2>2. hs[map[i]] \in Handler
    BY <1>1, <1>5
  <2>3. N(i) \in MessageName
    BY <2>2 DEF Handler, NameOf
  <2> HIDE DEF N
  <2> QED BY <2>3, HandlersAssumption
<1>10. Bucket[name] \in Nat
  BY HandlersAssumption
<1>11. /\ \A i, j \in 1 .. n : i < j => Bucket[N(i)] <= Bucket[N(j)]
       /\ \A i, k, j \in 1 .. n : i < k /\ k < j /\ N(i) = N(j) => N(k) = N(i)
       /\ \A i \in 1 .. n : i < ni => Bucket[N(i)] <= Bucket[name] /\ N(i) # name
       /\ ni <= n => Bucket[N(ni)] > Bucket[name] \/ N(ni) = name
  BY <1>1 DEF TableOK
<1> HIDE DEF old, N, N2
<1>12. \A i \in 1 .. n : i >= ni => Bucket[N(i)] >= Bucket[name]
  <2>1. SUFFICES ASSUME NEW i \in 1 .. n, i >= ni PROVE Bucket[N(i)] >= Bucket[name]
    OBVIOUS
  <2>2. ni \in 1 .. n /\ ni <= n
    BY <1>1, <2>1
  <2>3. Bucket[N(ni)] >= Bucket[name]
    BY <1>9, <1>10, <1>11, <2>2
  <2>4. CASE i = ni
    BY <2>3, <2>4
  <2>5. CASE ni < i
    BY <1>9, <1>10, <1>11, <2>2, <2>3, <2>5
  <2> QED BY <1>1, <2>1, <2>4, <2>5
<1>13. \A p, q \in DOMAIN hs2 : p # q => hs2[p].name # hs2[q].name \/ hs2[p].type # hs2[q].type
  <2>1. \A p, q \in 1 .. n : p # q => hs[p].name # hs[q].name \/ hs[p].type # hs[q].type
    BY <1>1 DEF TableOK
  <2>2. h.name = name /\ h.type = type
    OBVIOUS
  <2>3. \A p \in 1 .. n : hs[p].name # name \/ hs[p].type # type
    BY <1>1
  <2>4. \A p \in 1 .. n + 1 : p \in 1 .. n \/ p = n + 1
    BY <1>1
  <2> HIDE DEF h
  <2> QED BY <1>3, <2>1, <2>2, <2>3, <2>4
<1>14. \A i \in DOMAIN map2 : map2[i] \in DOMAIN hs2
  <2>1. SUFFICES ASSUME NEW i \in 1 .. n + 1 PROVE map2[i] \in 1 .. n + 1
    BY <1>3, <1>4
  <2>2. CASE i = ni
    BY <1>1, <1>6, <2>2
  <2>3. CASE i # ni
    BY <1>1, <1>5, <1>6, <2>3, SMTT(60)
  <2> QED BY <2>2, <2>3
<1>15. \A i, j \in DOMAIN map2 : i # j => map2[i] # map2[j]
  <2>1. \A j \in 1 .. n + 1 : j # ni => map2[j] \in 1 .. n /\ map2[j] # n + 1
    BY <1>1, <1>5, <1>6, SMTT(60)
  <2>2. SUFFICES ASSUME NEW i \in 1 .. n + 1, NEW j \in 1 .. n + 1, i < j PROVE map2[i] # map2[j]
    <3>1. \A i, j \in 1 .. n + 1 : i # j => i < j \/ j < i
      BY <1>1
    <3> QED BY <1>4, <2>2, <3>1
  <2>3. CASE i = ni \/ j = ni
    BY <1>1, <1>6, <2>1, <2>2, <2>3
  <2>4. CASE i # ni /\ j # ni
    <3>1. old(i) \in 1 .. n /\ old(j) \in 1 .. n /\ old(i) < old(j)
      BY <1>6, <2>2, <2>4
    <3>2. old(i) # old(j)
      BY <1>1, <3>1
    <3>3. map[old(i)] # map[old(j)]
      BY <1>5, <3>1, <3>2
    <3>4. map2[i] = map[old(i)] /\ map2[j] = map[old(j)]
      BY <1>6, <2>4
    <3> QED BY <3>3, <3>4
  <2> QED BY <2>3, <2>4
<1>16. \A p \in DOMAIN hs2 : \E i \in DOMAIN map2 : map2[i] = p
  <2>1. SUFFICES ASSUME NEW p \in 1 .. n + 1 PROVE \E i \in 1 .. n + 1 : map2[i] = p
    BY <1>3, <1>4
  <2>2. CASE p = n + 1
    BY <1>1, <1>6, <2>2
  <2>3. CASE p \in 1 .. n
    <3>1. PICK i \in 1 .. n : map[i] = p
      BY <1>5, <2>3
    <3>2. CASE i < ni
      <4>1. i \in 1 .. n + 1
        BY <1>1
      <4> QED BY <1>4, <3>1, <3>2, <4>1
    <3>3. CASE ~(i < ni)
      <4>1. i + 1 \in 1 .. n + 1 /\ ~(i + 1 < ni) /\ i + 1 # ni /\ (i + 1) - 1 = i
        BY <1>1, <3>3
      <4>2. map2[i + 1] = map[i]
        BY <1>4, <4>1
      <4> QED BY <3>1, <4>1, <4>2
    <3> QED BY <3>2, <3>3
  <2> QED BY <1>1, <2>2, <2>3
<1>17. \A i, j \in DOMAIN map2 : i < j => Bucket[N2(i)] <= Bucket[N2(j)]
  <2>1. SUFFICES ASSUME NEW i \in 1 .. n + 1, NEW j \in 1 .. n + 1, i < j
                 PROVE  Bucket[N2(i)] <= Bucket[N2(j)]
    BY <1>4
  <2>2. CASE i = ni
    <3>1. j # ni /\ j > ni
      BY <1>1, <2>1, <2>2
    <3>2. old(j) \in 1 .. n /\ old(j) >= ni /\ N2(j) = N(old(j))
      BY <1>6, <1>8, <3>1
    <3> QED BY <1>7, <1>12, <1>9, <1>10, <2>2, <3>2
  <2>3. CASE j = ni
    <3>1. i # ni /\ i < ni
      BY <1>1, <2>1, <2>3
    <3>2. old(i) \in 1 .. n /\ old(i) < ni /\ N2(i) = N(old(i))
      BY <1>6, <1>8, <3>1
    <3> QED BY <1>7, <1>11, <2>3, <3>2
  <2>4. CASE i # ni /\ j # ni
    <3>1. old(i) \in 1 .. n /\ old(j) \in 1 .. n /\ old(i) < old(j)
      BY <1>6, <2>1, <2>4
    <3> QED BY <1>8, <1>11, <2>4, <3>1
  <2> QED BY <2>2, <2>3, <2>4
<1>18. \A i, k, j \in DOMAIN map2 : i < k /\ k < j /\ N2(i) = N2(j) => N2(k) = N2(i)
  <2>1. SUFFICES ASSUME NEW i \in 1 .. n + 1, NEW k \in 1 .. n + 1, NEW j \in 1 .. n + 1,
                        i < k, k < j, N2(i) = N2(j)
                 PROVE  N2(k) = N2(i)
    BY <1>4
  <2>2. CASE k = ni
    <3>1. i # ni /\ i < ni /\ j # ni /\ j > ni
      BY <1>1, <2>1, <2>2
    <3>2. /\ old(i) \in 1 .. n /\ old(i) < ni /\ N2(i) = N(old(i))
          /\ old(j) \in 1 .. n /\ old(j) >= ni /\ N2(j) = N(old(j))
      BY <1>6, <1>8, <3>1
    <3>3. ni \in 1 .. n /\ ni <= n
      BY <1>1, <3>2
    <3>4. N(old(i)) # name /\ N(old(i)) = N(old(j)) /\ Bucket[N(old(i))] <= Bucket[name]
      BY <1>11, <2>1, <3>2
    <3>5. CASE N(ni) = name
      <4>1. old(j) # ni
        BY <3>4, <3>5
      <4>2. old(i) < ni /\ ni < old(j)
        BY <1>1, <3>2, <4>1
      <4>3. N(ni) = N(old(i))
        BY <1>11, <3>2, <3>3, <3>4, <4>2
      <4> QED BY <3>4, <3>5, <4>3
    <3>6. CASE Bucket[N(ni)] > Bucket[name]
      <4>1. Bucket[N(old(j))] >= Bucket[N(ni)]
        <5>1. CASE old(j) = ni
          BY <1>9, <3>2, <5>1
        <5>2. CASE ni < old(j)
          BY <1>11, <1>9, <3>2, <3>3, <5>2
        <5> QED BY <1>1, <3>2, <5>1, <5>2
      <4> QED BY <1>9, <1>10, <3>2, <3>3, <3>4, <3>6, <4>1
    <3> QED BY <1>11, <3>3, <3>5, <3>6
  <2>3. CASE i = ni
    <3>1. k # ni /\ k > ni /\ j # ni /\ j > ni
      BY <1>1, <2>1, <2>3
    <3>2. /\ old(k) \in 1 .. n /\ old(k) >= ni /\ N2(k) = N(old(k))
          /\ old(j) \in 1 .. n /\ old(j) >= ni /\ N2(j) = N(old(j)) /\ old(k) < old(j)
      BY <1>6, <1>8, <2>1, <3>1
    <3>3. ni \in 1 .. n /\ ni <= n /\ ni < old(j)
      BY <1>1, <3>2
    <3>4. N(old(j)) = name
      BY <1>7, <2>1, <2>3, <3>2
    <3>5. Bucket[N(ni)] <= Bucket[name]
      BY <1>11, <3>2, <3>3, <3>4
    <3>6. N(ni) = name
      BY <1>9, <1>10, <1>11, <3>3, <3>5
    <3>7. CASE old(k) = ni
      BY <1>7, <2>3, <3>2, <3>6, <3>7
    <3>8. CASE ni < old(k)
      BY <1>7, <1>11, <2>3, <3>2, <3>3, <3>4, <3>6, <3>8
    <3> QED BY <1>1, <3>2, <3>7, <3>8
  <2>4. CASE j = ni /\ i # ni
    <3>1. i < ni
      BY <1>1, <2>1, <2>4
    <3>2. old(i) \in 1 .. n /\ old(i) < ni /\ N2(i) = N(old(i))
      BY <1>6, <1>8, <2>4, <3>1
    <3> QED BY <1>7, <1>11, <2>1, <2>4, <3>2
  <2>5. CASE i # ni /\ k # ni /\ j # ni
    <3>1. /\ old(i) \in 1 .. n /\ old(k) \in 1 .. n /\ old(j) \in 1 .. n
          /\ old(i) < old(k) /\ old(k) < old(j)
          /\ N2(i) = N(old(i)) /\ N2(k) = N(old(k)) /\ N2(j) = N(old(j))
      BY <1>6, <1>8, <2>1, <2>5
    <3> QED BY <1>11, <2>1, <3>1
  <2> QED BY <2>2, <2>3, <2>4, <2>5
<1>19. TableOK(hs2, map2)
  BY <1>3, <1>4, <1>13, <1>14, <1>15, <1>16, <1>17, <1>18 DEF TableOK, N2
<1> QED BY <1>19 DEF hs2, map2

-----------------------------------------------------------------------------
(* Deletions.                                                              *)

\* How far a handler moves up: by the handlers in front of it that go.
LEMMA MovesUp ==
    ASSUME NEW n \in Nat, NEW marked, marked \subseteq 1 .. n
    PROVE  LET kept == (1 .. n) \ marked
               from == InOrder(kept, Upward(kept))
           IN /\ from \in Seq(kept) /\ DOMAIN from = 1 .. Len(from)
              /\ Len(from) = Cardinality(kept) /\ Len(from) \in Nat
              /\ \A k \in DOMAIN from : from[k] \in kept
              /\ \A x \in kept : \E k \in DOMAIN from : from[k] = x
              /\ \A j, k \in DOMAIN from : j < k => from[j] < from[k]
              /\ \A k \in DOMAIN from : from[k] - Cardinality({m \in marked : m < from[k]}) = k
<1> DEFINE kept == (1 .. n) \ marked
           from == InOrder(kept, Upward(kept))
           K == Cardinality(kept)
<1>1. IsFiniteSet(1 .. n) /\ IsFiniteSet(kept)
  <2>1. IsFiniteSet(1 .. n)
    BY FS_Interval
  <2> QED BY <2>1, FS_Difference
<1>2. kept \subseteq Nat
  OBVIOUS
<1>3. TotalOrder(kept, Upward(kept))
  BY <1>2, UpwardIs
<1>4. /\ from \in Seq(kept) /\ Len(from) = K /\ DOMAIN from = 1 .. K /\ K \in Nat
      /\ \A k \in DOMAIN from : from[k] \in kept
      /\ \A x \in kept : \E k \in DOMAIN from : from[k] = x
      /\ Pairwise(from, Upward(kept))
      /\ \A k \in DOMAIN from : Cardinality({y \in kept : <<y, from[k]>> \in Upward(kept)}) = k - 1
  <2> HIDE DEF kept
  <2> QED BY <1>1, <1>3, InOrderIs
<1> HIDE DEF from
<1>5. \A j, k \in DOMAIN from : j < k => from[j] < from[k]
  <2> HIDE DEF kept
  <2> QED BY <1>4 DEF Pairwise, Upward
<1>6. ASSUME NEW k \in DOMAIN from
      PROVE  from[k] - Cardinality({m \in marked : m < from[k]}) = k
  <2> DEFINE i == from[k]
             A == {y \in kept : y < i}
             B == {m \in marked : m < i}
  <2>1. i \in kept /\ k \in Nat /\ i \in 1 .. n
    BY <1>4
  <2>2. {y \in kept : <<y, i>> \in Upward(kept)} = A
    BY <2>1 DEF Upward
  <2>3. Cardinality(A) = k - 1
    BY <1>4, <2>2
  <2> HIDE DEF i
  <2>4. A \cup B = 1 .. i - 1 /\ A \cap B = {}
    <3>1. \A y \in 1 .. i - 1 : y \in 1 .. n /\ y < i
      BY <2>1
    <3>2. \A y \in 1 .. n : y < i => y \in 1 .. i - 1
      BY <2>1
    <3>3. \A y \in marked : y \in 1 .. n
      OBVIOUS
    <3>4. \A y \in 1 .. i - 1 : y \in A \/ y \in B
      BY <3>1
    <3>5. \A y \in A \cup B : y \in 1 .. i - 1
      BY <3>2, <3>3
    <3> QED BY <3>4, <3>5
  <2>5. IsFiniteSet(A) /\ IsFiniteSet(B)
    <3>1. A \in SUBSET (1 .. n) /\ B \in SUBSET (1 .. n)
      OBVIOUS
    <3> HIDE DEF A, B
    <3> QED BY <1>1, <3>1, FS_Subset
  <2>6. Cardinality(A \cup B) = Cardinality(A) + Cardinality(B) - Cardinality(A \cap B)
    <3> HIDE DEF A, B
    <3> QED BY <2>5, FS_Union
  <2>7. Cardinality(1 .. i - 1) = i - 1
    <3>1. i - 1 \in Int /\ i >= 1
      BY <2>1
    <3>2. Cardinality(1 .. i - 1) = IF 1 > i - 1 THEN 0 ELSE i - 1 - 1 + 1
      BY <3>1, FS_Interval
    <3> QED BY <2>1, <3>1, <3>2
  <2>8. Cardinality({}) = 0
    BY FS_EmptySet
  <2>9. Cardinality(B) \in Nat
    <3> HIDE DEF B
    <3> QED BY <2>5, FS_CardinalityType
  <2>10. i - 1 = (k - 1) + Cardinality(B)
    <3>1. i - 1 = Cardinality(A) + Cardinality(B) - 0
      <4> HIDE DEF A, B
      <4> QED BY <2>4, <2>6, <2>7, <2>8
    <3>2. k \in Nat /\ i \in Nat
      BY <2>1
    <3> HIDE DEF A, B
    <3> QED BY <2>3, <2>9, <3>1, <3>2
  <2>11. i - Cardinality(B) = k
    <3> HIDE DEF B
    <3> QED BY <2>1, <2>9, <2>10
  <2> QED BY <2>11 DEF i
<1> QED BY <1>4, <1>5, <1>6 DEF from

LEMMA UnmarkedKeeps ==
    ASSUME NEW c, TableOK(handlers[c], handlerOrderMap[c]),
           NEW marked, marked \subseteq DOMAIN handlers[c]
    PROVE  TableOK(Unmarked(c, marked), UnmarkedOrder(c, marked))
<1> DEFINE hs == handlers[c]
           map == handlerOrderMap[c]
           n == Len(hs)
           kept == (1 .. n) \ marked
           from == InOrder(kept, Upward(kept))
           K == Len(from)
           away == {j \in 1 .. n : map[j] \in marked}
           places == (1 .. n) \ away
           pl == InOrder(places, Upward(places))
           moved(i) == i - Cardinality({m \in marked : m < i})
           hs2 == Unmarked(c, marked)
           map2 == UnmarkedOrder(c, marked)
<1>1. /\ n \in Nat /\ DOMAIN hs = 1 .. n /\ DOMAIN map = 1 .. n /\ hs \in Seq(Handler)
      /\ \A i \in 1 .. n : map[i] \in 1 .. n
  BY SMTT(60) DEF TableOK
<1>2. /\ from \in Seq(kept) /\ DOMAIN from = 1 .. K /\ K = Cardinality(kept) /\ K \in Nat
      /\ \A k \in 1 .. K : from[k] \in kept
      /\ \A x \in kept : \E k \in 1 .. K : from[k] = x
      /\ \A j, k \in 1 .. K : j < k => from[j] < from[k]
      /\ \A k \in 1 .. K : moved(from[k]) = k
  <2>1. marked \subseteq 1 .. n
    BY <1>1
  <2>2. n \in Nat
    BY <1>1
  <2> HIDE DEF n
  <2>3. /\ from \in Seq(kept) /\ DOMAIN from = 1 .. Len(from)
        /\ Len(from) = Cardinality(kept) /\ Len(from) \in Nat
        /\ \A k \in DOMAIN from : from[k] \in kept
        /\ \A x \in kept : \E k \in DOMAIN from : from[k] = x
        /\ \A j, k \in DOMAIN from : j < k => from[j] < from[k]
        /\ \A k \in DOMAIN from : moved(from[k]) = k
    BY <2>1, <2>2, MovesUp
  <2> HIDE DEF from, kept, moved
  <2> QED BY <2>3
<1>3. /\ pl \in Seq(places) /\ DOMAIN pl = 1 .. Len(pl) /\ Len(pl) = Cardinality(places)
      /\ Len(pl) \in Nat
      /\ \A k \in 1 .. Len(pl) : pl[k] \in places
      /\ \A x \in places : \E k \in 1 .. Len(pl) : pl[k] = x
      /\ \A j, k \in 1 .. Len(pl) : j < k => pl[j] < pl[k]
  <2>1. away \subseteq 1 .. n
    OBVIOUS
  <2>2. n \in Nat
    BY <1>1
  <2> HIDE DEF n, away
  <2>3. /\ pl \in Seq(places) /\ DOMAIN pl = 1 .. Len(pl)
        /\ Len(pl) = Cardinality(places) /\ Len(pl) \in Nat
        /\ \A k \in DOMAIN pl : pl[k] \in places
        /\ \A x \in places : \E k \in DOMAIN pl : pl[k] = x
        /\ \A j, k \in DOMAIN pl : j < k => pl[j] < pl[k]
    BY <2>1, <2>2, MovesUp
  <2> HIDE DEF pl, places
  <2> QED BY <2>3
<1>4. Cardinality(places) = Cardinality(kept)
  <2>1. IsFiniteSet(places)
    <3>1. IsFiniteSet(1 .. n)
      BY <1>1, FS_Interval
    <3> HIDE DEF n, away
    <3> QED BY <3>1, FS_Difference
  <2> DEFINE f == [j \in places |-> map[j]]
  <2>2. f \in [places -> kept]
    BY <1>1
  <2>3. \A i, j \in places : f[i] = f[j] => i = j
    BY <1>1 DEF TableOK
  <2>4. \A x \in kept : \E j \in places : f[j] = x
    BY <1>1 DEF TableOK
  <2>5. f \in Bijection(places, kept)
    <3> HIDE DEF f, places, kept
    <3> QED BY <2>2, <2>3, <2>4 DEF Bijection, Injection, Surjection, IsInjective
  <2>6. ExistsBijection(places, kept)
    BY <2>5 DEF ExistsBijection
  <2> HIDE DEF places, kept
  <2> QED BY <2>1, <2>6, FS_Bijection
<1>5. Len(pl) = K
  BY <1>2, <1>3, <1>4
<1>6. hs2 = [i \in 1 .. K |-> hs[from[i]]]
  BY <1>1, <1>2 DEF Unmarked
<1>7. map2 = [j \in 1 .. K |-> moved(map[pl[j]])]
  <2>1. {j \in DOMAIN map : map[j] \notin marked} = places
    BY <1>1
  <2>2. UnmarkedPlaces(c, marked) = pl
    BY <2>1 DEF UnmarkedPlaces
  <2>3. DOMAIN pl = 1 .. K
    BY <1>3, <1>5
  <2> QED BY <2>2, <2>3 DEF UnmarkedOrder
<1>8. \A k \in 1 .. K : from[k] \in 1 .. n /\ from[k] \notin marked
  BY <1>2
<1>9. \A j \in 1 .. K : pl[j] \in 1 .. n /\ map[pl[j]] \in 1 .. n /\ map[pl[j]] \notin marked
  <2>1. \A j \in 1 .. K : pl[j] \in places
    <3> HIDE DEF pl, places, K
    <3> QED BY <1>3, <1>5
  <2> HIDE DEF pl
  <2> QED BY <1>1, <2>1
<1>10. K \in Nat
  BY <1>2
<1>11. \A j, k \in 1 .. K : j < k => pl[j] < pl[k] /\ from[j] < from[k]
  <2> HIDE DEF pl, places, K, from
  <2> QED BY <1>2, <1>3, <1>5
<1>12. \A x \in places : \E k \in 1 .. K : pl[k] = x
  <2> HIDE DEF pl, places, K
  <2> QED BY <1>3, <1>5
<1> HIDE DEF pl, from, moved, hs2, map2, K
<1>13. /\ hs2 \in Seq(Handler) /\ Len(hs2) = K /\ DOMAIN hs2 = 1 .. K
       /\ \A k \in 1 .. K : hs2[k] = hs[from[k]]
  <2>1. \A k \in 1 .. K : hs[from[k]] \in Handler
    BY <1>1, <1>8
  <2>2. hs2 \in [1 .. K -> Handler]
    BY <1>6, <2>1
  <2> QED BY <1>10, <1>6, <2>2
\* Where the handlers behind the map have gone.
<1>14. ASSUME NEW j \in 1 .. K
       PROVE  /\ map2[j] \in 1 .. K /\ from[map2[j]] = map[pl[j]]
              /\ NameOf(hs2, map2, j) = NameOf(hs, map, pl[j])
  <2>1. map[pl[j]] \in kept
    BY <1>9
  <2>2. PICK k \in 1 .. K : from[k] = map[pl[j]]
    <3> HIDE DEF kept
    <3> QED BY <1>2, <2>1
  <2>3. map2[j] = moved(from[k])
    BY <1>7, <2>2
  <2>4. map2[j] = k
    BY <1>2, <2>3
  <2> QED BY <1>13, <2>2, <2>4 DEF NameOf
<1>15. map2 \in Seq(Nat) /\ Len(map2) = K /\ DOMAIN map2 = 1 .. K
  <2>1. DOMAIN map2 = 1 .. K
    BY <1>7
  <2>2. \A j \in 1 .. K : map2[j] \in Nat
    BY <1>10, <1>14
  <2>3. map2 \in [1 .. K -> Nat]
    <3>1. map2 = [j \in 1 .. K |-> map2[j]]
      BY <1>7
    <3> QED BY <2>2, <3>1
  <2> QED BY <1>10, <2>1, <2>3
<1>16. \A i, j \in 1 .. K : i # j => pl[i] # pl[j] /\ from[i] # from[j]
  <2>1. SUFFICES ASSUME NEW i \in 1 .. K, NEW j \in 1 .. K, i < j
                 PROVE  pl[i] # pl[j] /\ from[i] # from[j]
    <3>1. \A i, j \in 1 .. K : i # j => i < j \/ j < i
      BY <1>10
    <3> QED BY <2>1, <3>1
  <2>2. pl[i] < pl[j] /\ from[i] < from[j]
    BY <1>11, <2>1
  <2> QED BY <1>8, <1>9, <2>2
<1>17. \A p, q \in DOMAIN hs2 : p # q => hs2[p].name # hs2[q].name \/ hs2[p].type # hs2[q].type
  <2>1. \A p, q \in 1 .. n : p # q => hs[p].name # hs[q].name \/ hs[p].type # hs[q].type
    BY <1>1 DEF TableOK
  <2>2. SUFFICES ASSUME NEW p \in 1 .. K, NEW q \in 1 .. K, p # q
                 PROVE  hs2[p].name # hs2[q].name \/ hs2[p].type # hs2[q].type
    BY <1>13
  <2>3. from[p] \in 1 .. n /\ from[q] \in 1 .. n /\ from[p] # from[q]
    BY <1>8, <1>16, <2>2
  <2>4. hs2[p] = hs[from[p]] /\ hs2[q] = hs[from[q]]
    BY <1>13
  <2> QED BY <2>1, <2>3, <2>4
<1>18. \A i \in DOMAIN map2 : map2[i] \in DOMAIN hs2
  BY <1>13, <1>14, <1>15
<1>19. \A i, j \in DOMAIN map2 : i # j => map2[i] # map2[j]
  <2>1. \A i, j \in 1 .. n : i # j => map[i] # map[j]
    BY <1>1 DEF TableOK
  <2>2. SUFFICES ASSUME NEW i \in 1 .. K, NEW j \in 1 .. K, i # j PROVE map2[i] # map2[j]
    BY <1>15
  <2>3. map[pl[i]] # map[pl[j]]
    BY <1>9, <1>16, <2>1, <2>2
  <2>4. from[map2[i]] = map[pl[i]] /\ from[map2[j]] = map[pl[j]]
    BY <1>14
  <2> QED BY <2>3, <2>4
<1>20. \A p \in DOMAIN hs2 : \E i \in DOMAIN map2 : map2[i] = p
  <2>1. SUFFICES ASSUME NEW p \in 1 .. K PROVE \E i \in 1 .. K : map2[i] = p
    BY <1>13, <1>15
  <2>2. from[p] \in 1 .. n /\ from[p] \notin marked
    BY <1>8
  <2>3. PICK x \in 1 .. n : map[x] = from[p]
    BY <1>1, <2>2 DEF TableOK
  <2>4. x \in places
    BY <2>2, <2>3
  <2>5. PICK i \in 1 .. K : pl[i] = x
    <3> HIDE DEF places
    <3> QED BY <1>12, <2>4
  <2>6. map2[i] \in 1 .. K /\ from[map2[i]] = from[p]
    BY <1>14, <2>3, <2>5
  <2>7. map2[i] = p
    BY <1>16, <2>6
  <2> QED BY <2>7
<1>21. \A i, j \in DOMAIN map2 : i < j => Bucket[NameOf(hs2, map2, i)] <= Bucket[NameOf(hs2, map2, j)]
  <2>1. \A i, j \in 1 .. n : i < j => Bucket[NameOf(hs, map, i)] <= Bucket[NameOf(hs, map, j)]
    BY <1>1 DEF TableOK
  <2>2. SUFFICES ASSUME NEW i \in 1 .. K, NEW j \in 1 .. K, i < j
                 PROVE  Bucket[NameOf(hs2, map2, i)] <= Bucket[NameOf(hs2, map2, j)]
    BY <1>15
  <2>3. pl[i] \in 1 .. n /\ pl[j] \in 1 .. n /\ pl[i] < pl[j]
    BY <1>9, <1>11, <2>2
  <2>4. NameOf(hs2, map2, i) = NameOf(hs, map, pl[i]) /\ NameOf(hs2, map2, j) = NameOf(hs, map, pl[j])
    BY <1>14
  <2>5. Bucket[NameOf(hs, map, pl[i])] <= Bucket[NameOf(hs, map, pl[j])]
    BY <2>1, <2>3
  <2> QED BY <2>4, <2>5
<1>22. \A i, k, j \in DOMAIN map2 :
          i < k /\ k < j /\ NameOf(hs2, map2, i) = NameOf(hs2, map2, j)
          => NameOf(hs2, map2, k) = NameOf(hs2, map2, i)
  <2>1. \A i, k, j \in 1 .. n :
           i < k /\ k < j /\ NameOf(hs, map, i) = NameOf(hs, map, j)
           => NameOf(hs, map, k) = NameOf(hs, map, i)
    BY <1>1 DEF TableOK
  <2>2. SUFFICES ASSUME NEW i \in 1 .. K, NEW k \in 1 .. K, NEW j \in 1 .. K,
                        i < k, k < j, NameOf(hs2, map2, i) = NameOf(hs2, map2, j)
                 PROVE  NameOf(hs2, map2, k) = NameOf(hs2, map2, i)
    BY <1>15
  <2>3. /\ pl[i] \in 1 .. n /\ pl[k] \in 1 .. n /\ pl[j] \in 1 .. n
        /\ pl[i] < pl[k] /\ pl[k] < pl[j]
    BY <1>9, <1>11, <2>2
  <2>4. \A x \in {i, k, j} : NameOf(hs2, map2, x) = NameOf(hs, map, pl[x])
    BY <1>14
  <2>5. NameOf(hs, map, pl[i]) = NameOf(hs, map, pl[j])
    BY <2>2, <2>4
  <2>6. NameOf(hs, map, pl[k]) = NameOf(hs, map, pl[i])
    BY <2>1, <2>3, <2>5
  <2> QED BY <2>4, <2>6
<1>23. TableOK(hs2, map2)
  BY <1>13, <1>15, <1>17, <1>18, <1>19, <1>20, <1>21, <1>22 DEF TableOK
<1> QED BY <1>23 DEF hs2, map2

\* A class of which no handler goes stays as it is.
LEMMA NoneMarked ==
    ASSUME NEW c, TableOK(handlers[c], handlerOrderMap[c])
    PROVE  Unmarked(c, {}) = handlers[c] /\ UnmarkedOrder(c, {}) = handlerOrderMap[c]
<1> DEFINE hs == handlers[c]
           map == handlerOrderMap[c]
           n == Len(hs)
           none == (1 .. n) \ {}
           from == InOrder(1 .. n, Upward(1 .. n))
<1>1. /\ n \in Nat /\ DOMAIN hs = 1 .. n /\ DOMAIN map = 1 .. n
      /\ hs \in Seq(Handler) /\ map \in Seq(Nat)
      /\ \A i \in 1 .. n : map[i] \in Nat
  BY SMTT(60) DEF TableOK
<1>2. none = 1 .. n /\ Cardinality({}) = 0 /\ \A i : {m \in {} : m < i} = {}
  BY FS_EmptySet
<1>3. Cardinality(1 .. n) = n
  <2>1. n \in Nat
    BY <1>1
  <2> HIDE DEF n
  <2>2. Cardinality(1 .. n) = IF 1 > n THEN 0 ELSE n - 1 + 1
    BY <2>1, FS_Interval
  <2> QED BY <2>1, <2>2
<1>4. /\ from \in Seq(1 .. n) /\ DOMAIN from = 1 .. n
      /\ \A k \in 1 .. n : from[k] - 0 = k
  <2>1. /\ from \in Seq(none) /\ DOMAIN from = 1 .. Len(from) /\ Len(from) = Cardinality(none)
        /\ \A k \in DOMAIN from : from[k] - Cardinality({m \in {} : m < from[k]}) = k
    <3>1. {} \subseteq 1 .. n
      OBVIOUS
    <3>2. from = InOrder(none, Upward(none))
      BY <1>2
    <3>3. n \in Nat
      BY <1>1
    <3> HIDE DEF n
    <3>4. LET f == InOrder(none, Upward(none))
          IN /\ f \in Seq(none) /\ DOMAIN f = 1 .. Len(f) /\ Len(f) = Cardinality(none)
             /\ \A k \in DOMAIN f : f[k] - Cardinality({m \in {} : m < f[k]}) = k
      BY <3>1, <3>3, MovesUp
    <3> HIDE DEF from, none
    <3> QED BY <3>2, <3>4
  <2> HIDE DEF from
  <2> QED BY <1>2, <1>3, <2>1
<1>5. \A k \in 1 .. n : from[k] = k
  <2> HIDE DEF from
  <2>1. \A k \in 1 .. n : from[k] \in 1 .. n
    BY <1>4
  <2> QED BY <1>1, <1>4, <2>1
<1>6. Unmarked(c, {}) = [i \in 1 .. n |-> hs[from[i]]]
  <2>1. DOMAIN hs \ {} = 1 .. n
    BY <1>1
  <2> HIDE DEF hs, n
  <2> QED BY <1>4, <2>1 DEF Unmarked, hs
<1>7. UnmarkedOrder(c, {}) = [j \in 1 .. n |-> map[from[j]] - 0]
  <2>1. {j \in DOMAIN map : map[j] \notin {}} = 1 .. n
    BY <1>1
  <2>2. UnmarkedPlaces(c, {}) = from
    BY <2>1 DEF UnmarkedPlaces
  <2> HIDE DEF from
  <2> QED BY <1>2, <1>4, <2>2 DEF UnmarkedOrder
<1> HIDE DEF from
<1>8. Unmarked(c, {}) = [i \in 1 .. n |-> hs[i]]
  BY <1>5, <1>6
<1>9. UnmarkedOrder(c, {}) = [j \in 1 .. n |-> map[j]]
  BY <1>1, <1>5, <1>7
<1>10. hs = [i \in 1 .. n |-> hs[i]] /\ map = [j \in 1 .. n |-> map[j]]
  <2>1. hs \in [1 .. n -> Handler] /\ map \in [1 .. n -> Nat]
    BY <1>1, LenProperties DEF TableOK
  <2> HIDE DEF hs, map, n
  <2> QED BY <2>1
<1> QED BY <1>8, <1>9, <1>10

-----------------------------------------------------------------------------
(* What definitions and deletions do to the tables.                        *)

\* The tables are in order, those of classes whose handlers are executing as before,
\* and in the others no handler is executing.
TablesGoOn ==
    /\ TablesOK(handlers', handlerOrderMap')
    /\ \A c \in HandlerClass : HandlersExecuting(c) => handlers'[c] = handlers[c]
    /\ \A c \in HandlerClass : ~HandlersExecuting(c) =>
          \A p \in DOMAIN handlers'[c] : handlers'[c][p].busy = 0

LEMMA BusyTyped ==
    ASSUME TablesOK(handlers, handlerOrderMap), NEW c \in HandlerClass, ~HandlersExecuting(c)
    PROVE  \A p \in DOMAIN handlers[c] : handlers[c][p].busy = 0
<1>1. SUFFICES ASSUME NEW p \in DOMAIN handlers[c] PROVE handlers[c][p].busy = 0
  OBVIOUS
<1>2. handlers[c] \in Seq(Handler)
  BY DEF TablesOK
<1>3. handlers[c][p] \in Handler
  BY <1>2
<1>4. handlers[c][p].busy \in Nat /\ ~(handlers[c][p].busy > 0)
  BY <1>3 DEF Handler, HandlersExecuting
<1> QED BY <1>4

LEMMA InsertStep ==
    ASSUME TablesOK(handlers, handlerOrderMap),
           NEW c \in HandlerClass, NEW name \in MessageName, NEW type \in HandlerType,
           DefmessageHandler(c, name, type)
    PROVE  TablesGoOn
<1> DEFINE hs == handlers[c]
           map == handlerOrderMap[c]
           n == Len(hs)
           later == {i \in 1 .. n : BucketAt(c, i) > Bucket[name] \/ NameAt(c, i) = name}
           ni == IF later = {} THEN n + 1 ELSE Lowest(later)
           h == [name |-> name, type |-> type, busy |-> 0]
           hs2 == Append(hs, h)
           map2 == InsertAt(map, ni, n + 1)
<1>1. TableOK(hs, map) /\ n \in Nat /\ DOMAIN hs = 1 .. n /\ hs \in Seq(Handler)
  BY DEF TablesOK, TableOK
<1>2. \A q \in DOMAIN hs : hs[q].name # name \/ hs[q].type # type
  BY <1>1, FindHandlerByAddressIs DEF DefmessageHandler
<1>3. /\ ni \in 1 .. n + 1
      /\ \A i \in 1 .. n : i < ni => i \notin later
      /\ ni <= n => ni \in later
  <2>1. CASE later = {}
    <3>1. ni = n + 1
      BY <2>1
    <3> HIDE DEF ni
    <3> QED BY <1>1, <2>1, <3>1
  <2>2. CASE later # {}
    <3>1. later \subseteq Nat
      OBVIOUS
    <3>2. later \subseteq 1 .. n
      OBVIOUS
    <3>3. ni = Lowest(later)
      BY <2>2
    <3> HIDE DEF later, ni
    <3>4. ni \in later /\ \A u \in later : ni <= u
      BY <2>2, <3>1, <3>3, LowestIs
    <3>5. ni \in 1 .. n
      BY <3>2, <3>4
    <3> QED BY <1>1, <3>2, <3>4, <3>5
  <2> QED BY <2>1, <2>2
<1>4. \A i \in 1 .. n : i < ni => /\ Bucket[NameOf(hs, map, i)] <= Bucket[name]
                                  /\ NameOf(hs, map, i) # name
  <2>1. SUFFICES ASSUME NEW i \in 1 .. n, i < ni
                 PROVE  Bucket[NameOf(hs, map, i)] <= Bucket[name] /\ NameOf(hs, map, i) # name
    OBVIOUS
  <2>2. i \notin later
    <3> HIDE DEF ni, later
    <3> QED BY <1>3, <2>1
  <2>3. ~(BucketAt(c, i) > Bucket[name]) /\ NameAt(c, i) # name
    BY <2>2
  <2>4. BucketAt(c, i) \in Nat /\ Bucket[name] \in Nat
    BY <1>1, BucketsAscend, HandlersAssumption
  <2> QED BY <2>3, <2>4 DEF BucketAt, NameAt, NameOf
<1>5. ni <= n => Bucket[NameOf(hs, map, ni)] > Bucket[name] \/ NameOf(hs, map, ni) = name
  <2>1. SUFFICES ASSUME ni <= n
                 PROVE  Bucket[NameOf(hs, map, ni)] > Bucket[name] \/ NameOf(hs, map, ni) = name
    OBVIOUS
  <2>2. ni \in later
    BY <1>3, <2>1
  <2> HIDE DEF ni
  <2> QED BY <2>2 DEF BucketAt, NameAt, NameOf
<1>6. TableOK(hs2, map2)
  <2> HIDE DEF ni, hs, map
  <2> QED BY <1>1, <1>2, <1>3, <1>4, <1>5, InsertKeeps
<1>7. /\ handlers' = [handlers EXCEPT ![c] = hs2]
      /\ handlerOrderMap' = [handlerOrderMap EXCEPT ![c] = map2]
  <2>1. InsertHandlerHeader(c, name, type)
    BY DEF DefmessageHandler
  <2> QED BY <2>1 DEF InsertHandlerHeader
<1>8. hs2 \in Seq(Handler) /\ map2 \in Seq(Nat)
  <2> HIDE DEF hs2, map2
  <2> QED BY <1>6 DEF TableOK
<1>9. /\ handlers \in [HandlerClass -> Seq(Handler)]
      /\ handlerOrderMap \in [HandlerClass -> Seq(Nat)]
      /\ \A d \in HandlerClass : TableOK(handlers[d], handlerOrderMap[d])
  BY DEF TablesOK
<1>10. ~HandlersExecuting(c)
  BY DEF DefmessageHandler
<1>11. \A p \in DOMAIN hs2 : hs2[p].busy = 0
  <2>1. \A p \in DOMAIN hs : hs[p].busy = 0
    BY <1>10, BusyTyped
  <2>2. h \in Handler /\ h.busy = 0
    BY DEF Handler
  <2> HIDE DEF h, hs
  <2>3. DOMAIN hs2 = 1 .. n + 1 /\ hs2[n + 1] = h /\ \A p \in 1 .. n : hs2[p] = hs[p]
    BY <1>1, <2>2
  <2>4. \A p \in 1 .. n + 1 : p \in 1 .. n \/ p = n + 1
    BY <1>1
  <2> HIDE DEF hs2, n
  <2> QED BY <1>1, <2>1, <2>2, <2>3, <2>4
<1> HIDE DEF hs2, map2
<1>12. TablesOK(handlers', handlerOrderMap')
  BY <1>6, <1>7, <1>8, <1>9 DEF TablesOK
<1>13. ASSUME NEW d \in HandlerClass, HandlersExecuting(d)
       PROVE  handlers'[d] = handlers[d]
  BY <1>7, <1>9, <1>10, <1>13
<1>14. ASSUME NEW d \in HandlerClass, ~HandlersExecuting(d)
       PROVE  \A p \in DOMAIN handlers'[d] : handlers'[d][p].busy = 0
  <2>1. CASE d = c
    BY <1>7, <1>9, <1>11, <2>1
  <2>2. CASE d # c
    <3>1. handlers'[d] = handlers[d]
      BY <1>7, <1>9, <2>2
    <3> QED BY <1>14, <3>1, BusyTyped
  <2> QED BY <2>1, <2>2
<1> QED BY <1>12, <1>13, <1>14 DEF TablesGoOn

LEMMA MarkedAre ==
    ASSUME NEW c, TableOK(handlers[c], handlerOrderMap[c]),
           NEW name \in MessageName \cup {"*"}, NEW type
    PROVE  Marked(c, name, type) \subseteq DOMAIN handlers[c]
<1> DEFINE types == IF type = "all" THEN HandlerType ELSE {type}
           found == {FindHandlerByAddress(c, name, t) : t \in types} \ {0}
<1>1. CASE name = "*"
  <2>1. Marked(c, name, type) = {i \in DOMAIN handlers[c] : handlers[c][i].type \in types}
    BY <1>1 DEF Marked
  <2> QED BY <2>1
<1>2. CASE name # "*"
  <2>1. Marked(c, name, type) = found
    BY <1>2 DEF Marked
  <2>2. name \in MessageName
    BY <1>2
  <2>3. \A t : FindHandlerByAddress(c, name, t) # 0
                => FindHandlerByAddress(c, name, t) \in DOMAIN handlers[c]
    BY <2>2, FindHandlerByAddressIs
  <2> QED BY <2>1, <2>3
<1> QED BY <1>1, <1>2

LEMMA DeleteStep ==
    ASSUME TablesOK(handlers, handlerOrderMap), NEW classes \in SUBSET HandlerClass,
           NEW name \in MessageName \cup {"*"}, NEW type,
           UndefmessageHandler(classes, name, type)
    PROVE  TablesGoOn
<1> DEFINE marked(c) == IF c \in classes /\ ~HandlersExecuting(c) THEN Marked(c, name, type) ELSE {}
<1>1. /\ handlers' = [c \in HandlerClass |-> Unmarked(c, marked(c))]
      /\ handlerOrderMap' = [c \in HandlerClass |-> UnmarkedOrder(c, marked(c))]
  BY DEF UndefmessageHandler
<1>2. ASSUME NEW c \in HandlerClass
      PROVE  TableOK(handlers[c], handlerOrderMap[c]) /\ marked(c) \subseteq DOMAIN handlers[c]
  <2>1. TableOK(handlers[c], handlerOrderMap[c])
    BY DEF TablesOK
  <2> QED BY <2>1, MarkedAre
<1>3. ASSUME NEW c \in HandlerClass
      PROVE  TableOK(handlers'[c], handlerOrderMap'[c])
  <2>1. TableOK(Unmarked(c, marked(c)), UnmarkedOrder(c, marked(c)))
    <3> HIDE DEF marked
    <3> QED BY <1>2, UnmarkedKeeps
  <2> HIDE DEF marked
  <2> QED BY <1>1, <2>1
<1>4. TablesOK(handlers', handlerOrderMap')
  <2>1. \A c \in HandlerClass : handlers'[c] \in Seq(Handler) /\ handlerOrderMap'[c] \in Seq(Nat)
    BY <1>3 DEF TableOK
  <2>2. /\ handlers' = [c \in HandlerClass |-> handlers'[c]]
        /\ handlerOrderMap' = [c \in HandlerClass |-> handlerOrderMap'[c]]
    <3> HIDE DEF marked
    <3> QED BY <1>1
  <2>3. /\ handlers' \in [HandlerClass -> Seq(Handler)]
        /\ handlerOrderMap' \in [HandlerClass -> Seq(Nat)]
    BY <2>1, <2>2
  <2> QED BY <1>3, <2>3 DEF TablesOK
<1>5. ASSUME NEW c \in HandlerClass, HandlersExecuting(c)
      PROVE  handlers'[c] = handlers[c]
  <2>1. marked(c) = {}
    BY <1>5
  <2>2. handlers'[c] = Unmarked(c, {})
    <3> HIDE DEF marked
    <3> QED BY <1>1, <2>1
  <2> QED BY <1>2, <2>2, NoneMarked
<1>6. ASSUME NEW c \in HandlerClass, ~HandlersExecuting(c)
      PROVE  \A p \in DOMAIN handlers'[c] : handlers'[c][p].busy = 0
  <2> DEFINE hs == handlers[c]
             kept == DOMAIN hs \ marked(c)
             from == InOrder(kept, Upward(kept))
  <2>1. handlers'[c] = [i \in DOMAIN from |-> hs[from[i]]]
    <3>1. handlers'[c] = Unmarked(c, marked(c))
      <4> HIDE DEF marked
      <4> QED BY <1>1
    <3> HIDE DEF marked
    <3> QED BY <3>1 DEF Unmarked
  <2>2. \A k \in DOMAIN from : from[k] \in kept
    <3>1. DOMAIN hs = 1 .. Len(hs) /\ Len(hs) \in Nat
      BY <1>2 DEF TableOK
    <3>2. marked(c) \subseteq 1 .. Len(hs)
      <4> HIDE DEF marked
      <4> QED BY <1>2, <3>1
    <3>3. kept = (1 .. Len(hs)) \ marked(c)
      <4> HIDE DEF marked
      <4> QED BY <3>1
    <3> HIDE DEF marked, hs
    <3> QED BY <3>1, <3>2, <3>3, MovesUp
  <2>3. \A p \in DOMAIN hs : hs[p].busy = 0
    BY <1>6, BusyTyped
  <2> HIDE DEF from, marked
  <2> QED BY <2>1, <2>2, <2>3
<1> QED BY <1>4, <1>5, <1>6 DEF TablesGoOn

LEMMA TablesStep ==
    ASSUME TablesOK(handlers, handlerOrderMap),
           HandlersNext(HandlerClass, MessageName, HandlerType)
    PROVE  TablesGoOn
<1>1. CASE \E c \in HandlerClass, name \in MessageName, type \in HandlerType :
              DefmessageHandler(c, name, type) \/ RedefineHandler(c, name, type)
  <2>1. PICK c \in HandlerClass, name \in MessageName, type \in HandlerType :
              DefmessageHandler(c, name, type) \/ RedefineHandler(c, name, type)
    BY <1>1
  <2>2. CASE DefmessageHandler(c, name, type)
    BY <2>2, InsertStep
  <2>3. CASE RedefineHandler(c, name, type)
    <3>1. handlers' = handlers /\ handlerOrderMap' = handlerOrderMap
      BY <2>3 DEF RedefineHandler, tableVars
    <3> QED BY <3>1, BusyTyped DEF TablesGoOn
  <2> QED BY <2>1, <2>2, <2>3
<1>2. CASE \E cs \in {{c} : c \in HandlerClass} \cup {HandlerClass}, name \in MessageName \cup {"*"},
              type \in HandlerType \cup {"all"} : UndefmessageHandler(cs, name, type)
  <2>1. PICK cs \in {{c} : c \in HandlerClass} \cup {HandlerClass}, name \in MessageName \cup {"*"},
              type \in HandlerType \cup {"all"} : UndefmessageHandler(cs, name, type)
    BY <1>2
  <2>2. cs \in SUBSET HandlerClass
    OBVIOUS
  <2> QED BY <2>1, <2>2, DeleteStep
<1> QED BY <1>1, <1>2 DEF HandlersNext

-----------------------------------------------------------------------------
(* The list of handlers of a message.                                      *)

LEMMA PlaceInIs ==
    ASSUME NEW classes \in Seq(HandlerClass), IsInjective(classes),
           NEW i \in DOMAIN classes, NEW l, l.cls = classes[i]
    PROVE  PlaceIn(classes, l) = i
<1> DEFINE I == {k \in 1 .. Len(classes) : classes[k] = l.cls}
<1>1. I = {i}
  BY DEF IsInjective
<1>2. PlaceIn(classes, l) = IF I # {} THEN Min(I) ELSE 0
  BY DEF PlaceIn, SelectInSeq
<1>3. {i} \subseteq Nat /\ {i} # {}
  OBVIOUS
<1>4. Min({i}) = i
  BY <1>3, MinIs
<1> HIDE DEF I
<1> QED BY <1>1, <1>2, <1>4

LEMMA FindApplicableOfNameIs ==
    ASSUME TablesOK(handlers, handlerOrderMap),
           NEW classes \in Seq(HandlerClass), IsInjective(classes),
           NEW mname \in MessageName, NEW type
    PROVE  LET s == FindApplicableOfName(classes, mname, type)
           IN /\ s \in Seq(Link)
              /\ \A k \in DOMAIN s : /\ s[k].at \in DOMAIN handlers[s[k].cls]
                                     /\ Kind(handlers, s[k]) = type
              /\ \A j, k \in DOMAIN s : j < k => PlaceIn(classes, s[j]) < PlaceIn(classes, s[k])
<1> DEFINE group == [i \in DOMAIN classes |-> NameGroup(classes[i], mname)]
           link(p) == [cls |-> classes[p[1]], at |-> group[p[1]][p[2]]]
           rows == {{i} \X DOMAIN group[i] : i \in DOMAIN classes}
           found == {p \in UNION rows : handlers[link(p).cls][link(p).at].type = type}
           order == {q \in found \X found : \/ q[1][1] < q[2][1]
                                            \/ q[1][1] = q[2][1] /\ q[1][2] < q[2][2]}
           all == InOrder(found, order)
           s == FindApplicableOfName(classes, mname, type)
<1>1. ASSUME NEW i \in DOMAIN classes
      PROVE  /\ classes[i] \in HandlerClass /\ i \in Nat
             /\ group[i] \in Seq(DOMAIN handlers[classes[i]])
             /\ DOMAIN group[i] = 1 .. Len(group[i]) /\ Len(group[i]) \in Nat
             /\ \A x, y \in DOMAIN group[i] : x # y => group[i][x] # group[i][y]
             /\ \A x \in DOMAIN group[i] : /\ group[i][x] \in DOMAIN handlers[classes[i]]
                                           /\ handlers[classes[i]][group[i][x]].name = mname
  <2>1. classes[i] \in HandlerClass /\ i \in Nat
    OBVIOUS
  <2>2. TableOK(handlers[classes[i]], handlerOrderMap[classes[i]])
    BY <2>1 DEF TablesOK
  <2> DEFINE g == NameGroup(classes[i], mname)
  <2>3. /\ g \in Seq(DOMAIN handlers[classes[i]])
        /\ \A x, y \in DOMAIN g : x # y => g[x] # g[y]
        /\ \A x \in DOMAIN g : handlers[classes[i]][g[x]].name = mname
    BY <2>2, NameGroupIs
  <2>4. group[i] = g
    OBVIOUS
  <2> HIDE DEF g, group
  <2>5. \A x \in DOMAIN g : g[x] \in DOMAIN handlers[classes[i]]
    BY <2>3
  <2>6. DOMAIN g = 1 .. Len(g) /\ Len(g) \in Nat
    BY <2>3
  <2> QED BY <2>1, <2>3, <2>4, <2>5, <2>6
<1> HIDE DEF group
<1>2. ASSUME NEW p \in UNION rows
      PROVE  /\ p[1] \in DOMAIN classes /\ p[2] \in DOMAIN group[p[1]] /\ p = <<p[1], p[2]>>
             /\ p[1] \in Nat /\ p[2] \in Nat
  <2>1. PICK i \in DOMAIN classes : p \in {i} \X DOMAIN group[i]
    OBVIOUS
  <2>2. p[1] = i /\ p[2] \in DOMAIN group[i] /\ p = <<p[1], p[2]>>
    BY <2>1
  <2> QED BY <1>1, <2>2
<1>3. IsFiniteSet(found)
  <2>1. ASSUME NEW T \in rows PROVE IsFiniteSet(T)
    <3>1. PICK i \in DOMAIN classes : T = {i} \X DOMAIN group[i]
      OBVIOUS
    <3>2. IsFiniteSet({i})
      BY FS_Singleton
    <3>3. IsFiniteSet(DOMAIN group[i])
      <4>1. DOMAIN group[i] = 1 .. Len(group[i]) /\ 1 \in Int /\ Len(group[i]) \in Int
        BY <1>1
      <4> QED BY <4>1, FS_Interval
    <3> QED BY <3>1, <3>2, <3>3, FS_Product
  <2>2. IsFiniteSet(rows)
    <3> DEFINE f == [i \in DOMAIN classes |-> {i} \X DOMAIN group[i]]
    <3>1. f \in [DOMAIN classes -> rows] /\ \A T \in rows : \E i \in DOMAIN classes : f[i] = T
      OBVIOUS
    <3>2. IsFiniteSet(DOMAIN classes)
      <4>1. DOMAIN classes = 1 .. Len(classes) /\ 1 \in Int /\ Len(classes) \in Int
        OBVIOUS
      <4> QED BY <4>1, FS_Interval
    <3>3. f \in Surjection(DOMAIN classes, rows)
      <4> HIDE DEF f, rows
      <4> QED BY <3>1 DEF Surjection
    <3> HIDE DEF f, rows
    <3> QED BY <3>2, <3>3, FS_Surjection
  <2>3. IsFiniteSet(UNION rows)
    <3> HIDE DEF rows
    <3> QED BY <2>1, <2>2, FS_UNION
  <2>4. found \in SUBSET (UNION rows)
    OBVIOUS
  <2> HIDE DEF found, rows
  <2> QED BY <2>3, <2>4, FS_Subset
<1>4. ASSUME NEW p \in found
      PROVE  /\ p[1] \in DOMAIN classes /\ p[2] \in DOMAIN group[p[1]] /\ p = <<p[1], p[2]>>
             /\ p[1] \in Nat /\ p[2] \in Nat
  <2>1. p \in UNION rows
    OBVIOUS
  <2> HIDE DEF rows, found
  <2> QED BY <1>2, <2>1
<1>5. ASSUME NEW p \in found
      PROVE  /\ link(p) \in Link /\ link(p).cls = classes[p[1]]
             /\ link(p).at \in DOMAIN handlers[link(p).cls]
             /\ Kind(handlers, link(p)) = type
             /\ handlers[classes[p[1]]][link(p).at].name = mname
  <2>1. handlers[link(p).cls][link(p).at].type = type
    OBVIOUS
  <2>2. p[1] \in DOMAIN classes /\ p[2] \in DOMAIN group[p[1]]
    BY <1>4
  <2> HIDE DEF found
  <2>3. /\ classes[p[1]] \in HandlerClass
        /\ group[p[1]][p[2]] \in DOMAIN handlers[classes[p[1]]]
        /\ handlers[classes[p[1]]][group[p[1]][p[2]]].name = mname
    BY <1>1, <2>2
  <2>4. group[p[1]][p[2]] \in Nat
    <3>1. handlers[classes[p[1]]] \in Seq(Handler)
      BY <2>3 DEF TablesOK
    <3> QED BY <2>3, <3>1
  <2>5. link(p).cls = classes[p[1]] /\ link(p).at = group[p[1]][p[2]]
    OBVIOUS
  <2>6. link(p) \in Link
    BY <2>3, <2>4 DEF Link
  <2> HIDE DEF link
  <2> QED BY <2>1, <2>3, <2>5, <2>6 DEF Kind
<1>6. ASSUME NEW p \in found, NEW q \in found
       PROVE  <<p, q>> \in order <=> (p[1] < q[1] \/ (p[1] = q[1] /\ p[2] < q[2]))
  <2> DEFINE t == <<p, q>>
  <2>1. t[1] = p /\ t[2] = q
    OBVIOUS
  <2> HIDE DEF found
  <2>2. t \in found \X found
    OBVIOUS
  <2> HIDE DEF t
  <2>3. t \in order <=> (t[1][1] < t[2][1] \/ (t[1][1] = t[2][1] /\ t[1][2] < t[2][2]))
    BY <2>2
  <2>4. t \in order <=> (p[1] < q[1] \/ (p[1] = q[1] /\ p[2] < q[2]))
    <3> HIDE DEF order
    <3> QED BY <2>1, <2>3
  <2> QED BY <2>4 DEF t
<1>7. TotalOrder(found, order)
  <2> HIDE DEF found, order
  <2>1. \A p, q \in found : <<p, q>> \in order <=> (p[1] < q[1] \/ (p[1] = q[1] /\ p[2] < q[2]))
    BY <1>6
  <2>2. \A p \in found : <<p, p>> \notin order
    BY <1>4, <2>1
  <2>3. ASSUME NEW p \in found, NEW q \in found, NEW t \in found,
               <<p, q>> \in order, <<q, t>> \in order
        PROVE  <<p, t>> \in order
    <3>1. /\ (p[1] < q[1] \/ (p[1] = q[1] /\ p[2] < q[2]))
          /\ (q[1] < t[1] \/ (q[1] = t[1] /\ q[2] < t[2]))
      BY <2>1, <2>3
    <3>2. /\ p[1] \in Nat /\ p[2] \in Nat /\ q[1] \in Nat /\ q[2] \in Nat
          /\ t[1] \in Nat /\ t[2] \in Nat
      BY <1>4
    <3>3. (p[1] < t[1] \/ (p[1] = t[1] /\ p[2] < t[2]))
      BY <3>1, <3>2
    <3> QED BY <2>1, <3>3
  <2>4. ASSUME NEW p \in found, NEW q \in found
        PROVE  p = q \/ <<p, q>> \in order \/ <<q, p>> \in order
    <3>1. /\ p[1] \in Nat /\ p[2] \in Nat /\ q[1] \in Nat /\ q[2] \in Nat
          /\ p = <<p[1], p[2]>> /\ q = <<q[1], q[2]>>
      BY <1>4
    <3>2. CASE p[1] = q[1] /\ p[2] = q[2]
      BY <3>1, <3>2
    <3>3. CASE ~(p[1] = q[1] /\ p[2] = q[2])
      <4>1. \/ (p[1] < q[1] \/ (p[1] = q[1] /\ p[2] < q[2]))
            \/ (q[1] < p[1] \/ (q[1] = p[1] /\ q[2] < p[2]))
        <5>1. p[1] < q[1] \/ p[1] = q[1] \/ q[1] < p[1]
          BY <3>1
        <5>2. p[2] < q[2] \/ p[2] = q[2] \/ q[2] < p[2]
          BY <3>1
        <5> QED BY <3>1, <3>3, <5>1, <5>2
      <4> QED BY <2>1, <4>1
    <3> QED BY <3>2, <3>3
  <2> QED BY <2>2, <2>3, <2>4 DEF TotalOrder
<1>8. /\ all \in Seq(found) /\ DOMAIN all = 1 .. Cardinality(found) /\ Cardinality(found) \in Nat
      /\ \A k \in DOMAIN all : all[k] \in found
      /\ Pairwise(all, order)
  <2> HIDE DEF found, order
  <2> QED BY <1>3, <1>7, InOrderIs
<1>9. s = [k \in DOMAIN all |-> link(all[k])]
  BY DEF FindApplicableOfName, LinksOfType, group
<1> DEFINE n == Cardinality(found)
<1> HIDE DEF s, all, link, found
<1>10. /\ DOMAIN s = 1 .. n /\ n \in Nat /\ \A k \in 1 .. n : s[k] = link(all[k]) /\ all[k] \in found
  BY <1>8, <1>9
<1>11. s \in Seq(Link)
  <2>1. \A k \in 1 .. n : s[k] \in Link
    BY <1>5, <1>10
  <2>2. s \in [1 .. n -> Link]
    <3>1. s = [k \in 1 .. n |-> s[k]]
      BY <1>8, <1>9
    <3> QED BY <2>1, <3>1
  <2> HIDE DEF n
  <2> QED BY <1>10, <2>2
<1>12. ASSUME NEW k \in DOMAIN s
       PROVE  s[k].at \in DOMAIN handlers[s[k].cls] /\ Kind(handlers, s[k]) = type
  BY <1>5, <1>10
<1>13. ASSUME NEW j \in DOMAIN s, NEW k \in DOMAIN s, j < k
       PROVE  PlaceIn(classes, s[j]) < PlaceIn(classes, s[k])
  <2> DEFINE p == all[j]
             q == all[k]
  <2>1. p \in found /\ q \in found /\ s[j] = link(p) /\ s[k] = link(q)
    BY <1>10
  <2>2. <<p, q>> \in order
    BY <1>8, <1>10, <1>13 DEF Pairwise
  <2> HIDE DEF order, p, q
  <2>3. (p[1] < q[1] \/ (p[1] = q[1] /\ p[2] < q[2]))
    BY <1>6, <2>1, <2>2
  <2>4. PlaceIn(classes, s[j]) = p[1] /\ PlaceIn(classes, s[k]) = q[1]
    <3>1. /\ p[1] \in DOMAIN classes /\ s[j].cls = classes[p[1]]
          /\ q[1] \in DOMAIN classes /\ s[k].cls = classes[q[1]]
      BY <1>4, <1>5, <2>1
    <3> QED BY <3>1, PlaceInIs
  <2>5. ~(p[1] = q[1] /\ p[2] < q[2])
    <3>1. SUFFICES ASSUME p[1] = q[1], p[2] < q[2] PROVE FALSE
      OBVIOUS
    <3> DEFINE i == p[1]
    <3>2. /\ i \in DOMAIN classes /\ p[2] \in DOMAIN group[i] /\ q[2] \in DOMAIN group[i]
          /\ p[2] \in Nat /\ q[2] \in Nat
      BY <1>4, <2>1, <3>1
    <3>3. group[i][p[2]] # group[i][q[2]]
      BY <1>1, <3>1, <3>2
    <3>4. /\ link(p) = [cls |-> classes[i], at |-> group[i][p[2]]]
          /\ link(q) = [cls |-> classes[i], at |-> group[i][q[2]]]
      BY <3>1 DEF link
    <3> DEFINE c == classes[i]
               x == group[i][p[2]]
               y == group[i][q[2]]
    <3>5. /\ x \in DOMAIN handlers[c] /\ y \in DOMAIN handlers[c] /\ x # y
          /\ handlers[c][x].name = mname /\ handlers[c][y].name = mname
      BY <1>1, <3>2, <3>3
    <3>6. handlers[c][x].type = type /\ handlers[c][y].type = type
      BY <1>5, <2>1, <3>4 DEF Kind
    <3>7. TableOK(handlers[c], handlerOrderMap[c])
      BY <1>1, <3>2 DEF TablesOK
    <3> HIDE DEF x, y, c
    <3> QED BY <3>5, <3>6, <3>7 DEF TableOK
  <2> QED BY <2>3, <2>4, <2>5
<1> QED BY <1>11, <1>12, <1>13 DEF s

\* A part of a list: handlers of some types, in order.
Part(classes, s, types) ==
    /\ s \in Seq(Link)
    /\ \A k \in DOMAIN s : s[k].at \in DOMAIN handlers[s[k].cls] /\ Kind(handlers, s[k]) \in types
    /\ Pairwise(s, Ahead(handlers, classes))

HasAllOf(s, a) == \A j \in DOMAIN a : \E k \in DOMAIN s : s[k] = a[j]
RankedBefore(A, B) == \A x \in A, y \in B : Rank(x) < Rank(y)

\* Parts put together, the types of the one going before those of the other.
LEMMA PartsJoin ==
    ASSUME NEW classes, NEW a, NEW b, NEW A, NEW B, Part(classes, a, A), Part(classes, b, B),
           RankedBefore(A, B)
    PROVE  /\ Part(classes, a \o b, A \cup B)
           /\ HasAllOf(a \o b, a) /\ HasAllOf(a \o b, b)
<1> DEFINE s == a \o b
           m == Len(a)
           n == Len(b)
<1>1. a \in Seq(Link) /\ b \in Seq(Link)
  BY DEF Part
<1>2. /\ s \in Seq(Link) /\ Len(s) = m + n
      /\ \A k \in 1 .. m + n : s[k] = IF k <= m THEN a[k] ELSE b[k - m]
  BY <1>1, ConcatProperties
<1>3. /\ DOMAIN a = 1 .. m /\ DOMAIN b = 1 .. n /\ m \in Nat /\ n \in Nat
  BY <1>1
<1> HIDE DEF s
<1>4. DOMAIN s = 1 .. m + n
  BY <1>2
<1> HIDE DEF m, n
<1>5. \A k \in 1 .. m + n : \/ k \in DOMAIN a /\ s[k] = a[k]
                            \/ k > m /\ k - m \in DOMAIN b /\ s[k] = b[k - m]
  BY <1>2, <1>3
<1>6. ASSUME NEW k \in DOMAIN s
      PROVE  s[k].at \in DOMAIN handlers[s[k].cls] /\ Kind(handlers, s[k]) \in A \cup B
  BY <1>4, <1>5 DEF Part
<1>7. ASSUME NEW j \in DOMAIN s, NEW k \in DOMAIN s, j < k
      PROVE  <<s[j], s[k]>> \in Ahead(handlers, classes)
  <2>1. CASE k \in DOMAIN a /\ s[k] = a[k]
    <3>1. j \in DOMAIN a /\ s[j] = a[j]
      BY <1>2, <1>3, <1>4, <1>7, <2>1
    <3> QED BY <1>7, <2>1, <3>1 DEF Part, Pairwise
  <2>2. CASE j > m /\ j - m \in DOMAIN b /\ s[j] = b[j - m]
    <3>1. k - m \in DOMAIN b /\ s[k] = b[k - m] /\ j - m < k - m
      BY <1>2, <1>3, <1>4, <1>7, <2>2
    <3> QED BY <2>2, <3>1 DEF Part, Pairwise
  <2>3. CASE j \in DOMAIN a /\ s[j] = a[j] /\ k - m \in DOMAIN b /\ s[k] = b[k - m]
    <3>1. Kind(handlers, s[j]) \in A /\ Kind(handlers, s[k]) \in B
      BY <2>3 DEF Part
    <3>2. Rank(Kind(handlers, s[j])) < Rank(Kind(handlers, s[k]))
      BY <3>1 DEF RankedBefore
    <3>3. s[j] \in Link /\ s[k] \in Link
      BY <1>2, <1>4
    <3> QED BY <3>2, <3>3 DEF Ahead
  <2> QED BY <1>4, <1>5, <2>1, <2>2, <2>3
<1>8. ASSUME NEW j \in DOMAIN a
      PROVE  \E k \in DOMAIN s : s[k] = a[j]
  <2>1. j \in DOMAIN s /\ s[j] = a[j]
    BY <1>2, <1>3, <1>4
  <2> QED BY <2>1
<1>9. ASSUME NEW j \in DOMAIN b
      PROVE  \E k \in DOMAIN s : s[k] = b[j]
  <2>1. j + m \in DOMAIN s /\ ~(j + m <= m) /\ (j + m) - m = j
    BY <1>3, <1>4
  <2>2. s[j + m] = b[j]
    BY <1>2, <1>4, <2>1
  <2> QED BY <2>1, <2>2
<1> QED BY <1>2, <1>6, <1>7, <1>8, <1>9 DEF Part, Pairwise, HasAllOf, s

LEMMA FindApplicableHandlersIs ==
    ASSUME TablesOK(handlers, handlerOrderMap),
           NEW classes \in Seq(HandlerClass), IsInjective(classes), NEW mname \in MessageName,
           FindApplicableHandlers(classes, mname) # << >>
    PROVE  ListOK(handlers, classes, FindApplicableHandlers(classes, mname))
<1> DEFINE of(type) == FindApplicableOfName(classes, mname, type)
           back == Reverse(of("after"))
           s == FindApplicableHandlers(classes, mname)
<1>1. ASSUME NEW type
      PROVE  /\ of(type) \in Seq(Link)
             /\ \A k \in DOMAIN of(type) : /\ of(type)[k].at \in DOMAIN handlers[of(type)[k].cls]
                                           /\ Kind(handlers, of(type)[k]) = type
             /\ \A j, k \in DOMAIN of(type) : j < k =>
                   PlaceIn(classes, of(type)[j]) < PlaceIn(classes, of(type)[k])
  BY FindApplicableOfNameIs
<1>2. of("primary") # << >> /\ s = of("around") \o of("before") \o of("primary") \o back
  BY DEF FindApplicableHandlers
<1> HIDE DEF of, s
<1>3. ASSUME NEW type, type # "after"
      PROVE  Part(classes, of(type), {type})
  <2>1. ASSUME NEW j \in DOMAIN of(type), NEW k \in DOMAIN of(type), j < k
        PROVE  <<of(type)[j], of(type)[k]>> \in Ahead(handlers, classes)
    <3>1. /\ Kind(handlers, of(type)[j]) = type /\ Kind(handlers, of(type)[k]) = type
          /\ of(type)[j] \in Link /\ of(type)[k] \in Link
          /\ PlaceIn(classes, of(type)[j]) < PlaceIn(classes, of(type)[k])
      BY <1>1, <2>1
    <3> QED BY <1>3, <3>1 DEF Ahead
  <2> QED BY <1>1, <2>1 DEF Part, Pairwise
<1>4. Part(classes, back, {"after"})
  <2> DEFINE a == of("after")
             n == Len(a)
  <2>1. n \in Nat /\ DOMAIN a = 1 .. n /\ a \in Seq(Link)
    BY <1>1
  <2>2. back = [k \in 1 .. n |-> a[(n - k) + 1]]
    BY DEF Reverse
  <2>3. \A k \in 1 .. n : (n - k) + 1 \in 1 .. n
    <3> HIDE DEF n
    <3> QED BY <2>1
  <2> HIDE DEF back, n
  <2>4. DOMAIN back = 1 .. n /\ \A k \in 1 .. n : back[k] = a[(n - k) + 1]
    BY <2>2
  <2>5. back \in Seq(Link)
    <3>1. \A k \in 1 .. n : a[(n - k) + 1] \in Link
      BY <2>1, <2>3
    <3>2. back \in [1 .. n -> Link]
      BY <2>2, <3>1
    <3> QED BY <2>1, <3>2
  <2>6. ASSUME NEW k \in DOMAIN back
        PROVE  back[k].at \in DOMAIN handlers[back[k].cls] /\ Kind(handlers, back[k]) = "after"
    BY <1>1, <2>1, <2>3, <2>4
  <2>7. ASSUME NEW j \in DOMAIN back, NEW k \in DOMAIN back, j < k
        PROVE  <<back[j], back[k]>> \in Ahead(handlers, classes)
    <3> DEFINE x == (n - j) + 1
               y == (n - k) + 1
    <3>1. x \in DOMAIN a /\ y \in DOMAIN a /\ back[j] = a[x] /\ back[k] = a[y]
      BY <2>1, <2>3, <2>4
    <3>2. y < x
      BY <2>1, <2>4, <2>7
    <3> HIDE DEF x, y
    <3>3. PlaceIn(classes, back[k]) < PlaceIn(classes, back[j])
      BY <1>1, <3>1, <3>2
    <3>4. back[j] \in Link /\ back[k] \in Link
      BY <2>1, <3>1
    <3> QED BY <2>6, <3>3, <3>4 DEF Ahead
  <2> QED BY <2>5, <2>6, <2>7 DEF Part, Pairwise
<1> HIDE DEF back
<1> DEFINE ab == of("around") \o of("before")
           abp == ab \o of("primary")
           AB == {"around"} \cup {"before"}
           P == {"primary"}
           ABP == AB \cup P
           After == {"after"}
<1>5. Part(classes, ab, AB)
  <2>1. Part(classes, of("around"), {"around"}) /\ Part(classes, of("before"), {"before"})
    BY <1>3
  <2>2. RankedBefore({"around"}, {"before"})
    BY DEF RankedBefore, Rank
  <2> QED BY <2>1, <2>2, PartsJoin
<1> HIDE DEF ab
<1>6. /\ Part(classes, abp, ABP)
      /\ HasAllOf(abp, of("primary"))
  <2>1. Part(classes, of("primary"), P)
    BY <1>3
  <2>2. RankedBefore(AB, P)
    BY DEF RankedBefore, Rank
  <2> HIDE DEF AB, P
  <2> QED BY <1>5, <2>1, <2>2, PartsJoin
<1> HIDE DEF abp
<1>7. s = abp \o back
  BY <1>2 DEF abp, ab
<1>8. Part(classes, s, ABP \cup After) /\ HasAllOf(s, abp)
  <2>1. RankedBefore(ABP, After)
    BY DEF RankedBefore, Rank
  <2>2. Part(classes, back, After)
    BY <1>4
  <2> HIDE DEF ABP, After
  <2> QED BY <1>6, <1>7, <2>1, <2>2, PartsJoin
<1>9. \E k \in DOMAIN s : Kind(handlers, s[k]) = "primary"
  <2> DEFINE p == of("primary")
  <2>1. 1 \in DOMAIN p
    <3>1. p \in Seq(Link) /\ p # << >>
      BY <1>1, <1>2
    <3> HIDE DEF p
    <3>2. DOMAIN p = 1 .. Len(p) /\ Len(p) \in Nat /\ Len(p) # 0
      BY <3>1, EmptySeq
    <3> QED BY <3>2
  <2>2. Kind(handlers, p[1]) = "primary"
    BY <1>1, <2>1
  <2>3. PICK j \in DOMAIN abp : abp[j] = p[1]
    BY <1>6, <2>1 DEF HasAllOf
  <2>4. PICK k \in DOMAIN s : s[k] = abp[j]
    BY <1>8 DEF HasAllOf
  <2> QED BY <2>2, <2>3, <2>4
<1> QED BY <1>8, <1>9 DEF Part, ListOK, s

-----------------------------------------------------------------------------
(* Calls and those below them.                                             *)

\* The core of calls 1..n is unique, and that of running handlers in their lists.
LEMMA CoreUnique ==
    ASSUME NEW cs, NEW n \in Nat, NEW a, NEW b, CoreAt(cs, n, a), CoreAt(cs, n, b)
    PROVE  a = b
<1>1. CASE \A j \in 1 .. n : ~Running(cs[j])
  BY <1>1 DEF CoreAt, LastRunning
<1>2. CASE ~\A j \in 1 .. n : ~Running(cs[j])
  <2>1. PICK i \in 1 .. n : LastRunning(cs, n, i) /\ a = CoreOf(cs, i)
    BY <1>2 DEF CoreAt
  <2>2. PICK j \in 1 .. n : LastRunning(cs, n, j) /\ b = CoreOf(cs, j)
    BY <1>2 DEF CoreAt
  <2>3. ~(i < j) /\ ~(j < i)
    <3>1. ASSUME NEW x \in 1 .. n, NEW y \in 1 .. n, LastRunning(cs, n, x), LastRunning(cs, n, y),
                 x < y
          PROVE  FALSE
      <4>1. y \in x + 1 .. n
        BY <3>1
      <4> QED BY <3>1, <4>1 DEF LastRunning
    <3> QED BY <2>1, <2>2, <3>1
  <2>4. i = j
    BY <2>3
  <2> QED BY <2>1, <2>2, <2>4
<1> QED BY <1>1, <1>2

LEMMA LastRunningSame ==
    ASSUME NEW cs, NEW cs2, NEW n \in Nat, \A j \in 1 .. n : cs2[j] = cs[j], NEW i
    PROVE  LastRunning(cs2, n, i) <=> LastRunning(cs, n, i)
<1>1. i \in 1 .. n => \A j \in i + 1 .. n : j \in 1 .. n
  OBVIOUS
<1> QED BY <1>1 DEF LastRunning

LEMMA CoreSame ==
    ASSUME NEW cs, NEW cs2, NEW n \in Nat, \A j \in 1 .. n : cs2[j] = cs[j],
           \A j \in 1 .. n : Running(cs[j]) => cs[j].at.call \in 1 .. j, NEW cr
    PROVE  CoreAt(cs2, n, cr) <=> CoreAt(cs, n, cr)
<1>1. ASSUME NEW i \in 1 .. n
      PROVE  LastRunning(cs2, n, i) <=> LastRunning(cs, n, i)
  BY LastRunningSame
<1>2. ASSUME NEW i \in 1 .. n, LastRunning(cs, n, i)
      PROVE  CoreOf(cs2, i) = CoreOf(cs, i)
  <2>1. cs2[i] = cs[i] /\ cs[i].at.call \in 1 .. i
    BY <1>2 DEF LastRunning
  <2>2. cs[i].at.call \in 1 .. n
    BY <2>1
  <2>3. ListAt(cs2, cs[i].at) = ListAt(cs, cs[i].at)
    BY <2>2 DEF ListAt
  <2> QED BY <2>1, <2>3 DEF CoreOf
<1> QED BY <1>1, <1>2 DEF CoreAt

CallsOK(hs, cs, n) == \A j \in 1 .. n : CallOK(hs, cs, j)

\* Where the core of calls points.
LEMMA CorePoints ==
    ASSUME NEW hs, NEW cs \in Seq(CallRecord), NEW n \in Nat, n <= Len(cs),
           CallsOK(hs, cs, n), NEW cr, CoreAt(cs, n, cr), cr # NoCore
    PROVE  \E i \in 1 .. n :
              /\ LastRunning(cs, n, i) /\ RunsOK(hs, cs, i)
              /\ cr.current = cs[i].at /\ cs[i].at.call \in 1 .. i /\ cs[i].at.at \in Nat
              /\ cr.next = Behind(ListAt(cs, cs[i].at), cs[i].at)
              /\ cs[i].at.at \in DOMAIN ListAt(cs, cs[i].at)
              /\ ListAt(cs, cs[i].at) \in Seq(Link)
              /\ cr.next # Nowhere => /\ cr.next.call = cs[i].at.call
                                      /\ cr.next.at = cs[i].at.at + 1
                                      /\ cr.next.at \in DOMAIN ListAt(cs, cs[i].at)
<1>1. PICK i \in 1 .. n : LastRunning(cs, n, i) /\ cr = CoreOf(cs, i)
  BY DEF CoreAt
<1> DEFINE p == cs[i].at
           s == ListAt(cs, p)
<1>2. RunsOK(hs, cs, i)
  BY <1>1 DEF LastRunning, CallOK, CallsOK
<1>3. p.call \in 1 .. i /\ p.at \in DOMAIN s
  BY <1>2 DEF RunsOK
<1>4. s \in Seq(Link) /\ p.at \in Nat
  <2>1. p.call \in DOMAIN cs /\ i \in DOMAIN cs
    BY <1>3
  <2>2. cs[p.call] \in CallRecord /\ cs[i] \in CallRecord
    BY <2>1
  <2> QED BY <2>2 DEF CallRecord, Pointer, ListAt
<1>5. cr.current = p /\ cr.next = Behind(s, p)
  BY <1>1 DEF CoreOf
<1>6. cr.next # Nowhere => cr.next.call = p.call /\ cr.next.at = p.at + 1 /\ cr.next.at \in DOMAIN s
  <2>1. SUFFICES ASSUME cr.next # Nowhere
                 PROVE  cr.next.call = p.call /\ cr.next.at = p.at + 1 /\ cr.next.at \in DOMAIN s
    OBVIOUS
  <2>2. p.at < Len(s) /\ cr.next = Place(p.call, p.at + 1)
    BY <1>5, <2>1 DEF Behind
  <2>3. p.at + 1 \in DOMAIN s
    BY <1>3, <1>4, <2>2
  <2> QED BY <2>2, <2>3 DEF Place
<1> QED BY <1>1, <1>2, <1>3, <1>4, <1>5, <1>6

LEMMA CallSame ==
    ASSUME NEW hs, NEW cs \in Seq(CallRecord), NEW cs2, NEW i \in DOMAIN cs,
           \A j \in 1 .. i : cs2[j] = cs[j], \A j \in 1 .. i : CallOK(hs, cs, j)
    PROVE  CallOK(hs, cs2, i)
<1> DEFINE C == cs[i]
<1>1. i \in 1 .. i /\ i - 1 \in Nat /\ i - 1 <= Len(cs) /\ \A j \in 1 .. i - 1 : j \in 1 .. i
  OBVIOUS
<1>2. cs2[i] = C /\ CallOK(hs, cs, i)
  BY <1>1
<1>3. Running(C) => RunsOK(hs, cs2, i)
  <2>1. SUFFICES ASSUME Running(C) PROVE RunsOK(hs, cs2, i)
    OBVIOUS
  <2>2. RunsOK(hs, cs, i)
    BY <1>2, <2>1 DEF CallOK
  <2>3. C.at.call \in 1 .. i
    BY <2>2 DEF RunsOK
  <2>4. cs2[C.at.call] = cs[C.at.call] /\ ListAt(cs2, C.at) = ListAt(cs, C.at)
    BY <2>3 DEF ListAt
  <2>5. \A j \in 1 .. i - 1 : LastRunning(cs2, i - 1, j) <=> LastRunning(cs, i - 1, j)
    BY <1>1, LastRunningSame
  <2>6. \A j \in 1 .. i - 1 : cs2[j] = cs[j]
    BY <1>1
  <2> QED BY <1>2, <2>2, <2>4, <2>5, <2>6 DEF RunsOK
<1>4. CoreAt(cs2, i - 1, C.core)
  <2>1. \A j \in 1 .. i - 1 : cs2[j] = cs[j]
    BY <1>1
  <2>2. \A j \in 1 .. i - 1 : Running(cs[j]) => cs[j].at.call \in 1 .. j
    BY <1>1 DEF CallOK, RunsOK
  <2>3. CoreAt(cs, i - 1, C.core)
    BY <1>2 DEF CallOK
  <2> QED BY <1>1, <2>1, <2>2, <2>3, CoreSame
<1>5. Available(hs, cs, C.core) => Available(hs, cs2, C.core)
  <2>1. SUFFICES ASSUME Available(hs, cs, C.core) PROVE Available(hs, cs2, C.core)
    OBVIOUS
  <2>2. C.core # NoCore
    BY <2>1 DEF Available, NoCore
  <2>3. CoreAt(cs, i - 1, C.core) /\ \A j \in 1 .. i - 1 : CallOK(hs, cs, j)
    BY <1>1, <1>2 DEF CallOK
  <2>4. PICK j \in 1 .. i - 1 : C.core.current = cs[j].at /\ cs[j].at.call \in 1 .. j
    <3> DEFINE n == i - 1
    <3>1. n \in Nat /\ n <= Len(cs) /\ CoreAt(cs, n, C.core) /\ CallsOK(hs, cs, n)
      BY <1>1, <2>3 DEF CallsOK
    <3>2. \E j \in 1 .. n : C.core.current = cs[j].at /\ cs[j].at.call \in 1 .. j
      <4> HIDE DEF n, C
      <4> QED BY <2>2, <3>1, CorePoints
    <3> QED BY <3>2
  <2>5. C.core.current.call \in 1 .. i
    BY <1>1, <2>4
  <2>6. ListAt(cs2, C.core.current) = ListAt(cs, C.core.current)
    BY <2>5 DEF ListAt
  <2> QED BY <2>1, <2>6 DEF Available
<1> QED BY <1>2, <1>3, <1>4, <1>5 DEF CallOK

\* A stack that grows, shrinks or goes on above its first n calls.
LEMMA StackFrom ==
    ASSUME NEW hs, NEW cs, StackOK(hs, cs), NEW cs2 \in Seq(CallRecord), NEW n \in Nat, n <= Len(cs),
           \A j \in 1 .. n : cs2[j] = cs[j], \A j \in n + 1 .. Len(cs2) : CallOK(hs, cs2, j)
    PROVE  StackOK(hs, cs2)
<1>1. cs \in Seq(CallRecord) /\ \A j \in DOMAIN cs : CallOK(hs, cs, j)
  BY DEF StackOK
<1>2. ASSUME NEW i \in DOMAIN cs2
      PROVE  CallOK(hs, cs2, i)
  <2>1. CASE i <= n
    <3>1. i \in DOMAIN cs /\ \A j \in 1 .. i : j \in 1 .. n /\ j \in DOMAIN cs
      BY <1>1, <2>1
    <3> QED BY <1>1, <3>1, CallSame
  <2>2. CASE i > n
    <3>1. i \in n + 1 .. Len(cs2)
      BY <2>2
    <3> QED BY <3>1
  <2> QED BY <2>1, <2>2
<1> QED BY <1>2 DEF StackOK

LEMMA PopKeeps ==
    ASSUME NEW hs, NEW cs, StackOK(hs, cs), Len(cs) > 0
    PROVE  /\ StackOK(hs, Front(cs)) /\ Len(Front(cs)) = Len(cs) - 1
           /\ \A j \in 1 .. Len(cs) - 1 : Front(cs)[j] = cs[j]
<1>1. cs \in Seq(CallRecord)
  BY DEF StackOK
<1>2. /\ Front(cs) \in Seq(CallRecord) /\ Len(Front(cs)) = Len(cs) - 1
      /\ \A j \in 1 .. Len(cs) - 1 : Front(cs)[j] = cs[j]
  <2>1. Front(cs) = SubSeq(cs, 1, Len(cs) - 1)
    BY DEF Front
  <2>2. Len(cs) \in Nat /\ 1 \in 1 .. Len(cs) + 1 /\ Len(cs) - 1 \in 0 .. Len(cs)
    BY <1>1
  <2> DEFINE n == Len(cs) - 1
  <2>3. /\ SubSeq(cs, 1, n) \in Seq(CallRecord) /\ Len(SubSeq(cs, 1, n)) = n
        /\ \A j \in 1 .. n : SubSeq(cs, 1, n)[j] = cs[j]
    <3>1. n \in 0 .. Len(cs)
      BY <2>2
    <3> HIDE DEF n
    <3> QED BY <1>1, <3>1
  <2> QED BY <2>1, <2>3
<1>3. Len(cs) - 1 \in Nat /\ Len(cs) - 1 <= Len(cs) /\ (Len(cs) - 1) + 1 .. Len(Front(cs)) = {}
  BY <1>1, <1>2
<1> DEFINE n == Len(cs) - 1
<1>4. n \in Nat /\ n <= Len(cs) /\ n + 1 .. Len(Front(cs)) = {}
  BY <1>3
<1>5. \A j \in 1 .. n : Front(cs)[j] = cs[j]
  BY <1>2
<1> HIDE DEF n
<1>6. StackOK(hs, Front(cs))
  BY <1>2, <1>4, <1>5, StackFrom
<1> QED BY <1>2, <1>6

-----------------------------------------------------------------------------
(* Tables that change beside the lists of the messages under way.          *)

\* The handlers in the lists are of the same types in hs2.
SameKinds(hs, hs2, cs) ==
    \A i \in DOMAIN cs : \A k \in DOMAIN cs[i].list :
        LET l == cs[i].list[k] IN l.at \in DOMAIN hs2[l.cls] /\ Kind(hs2, l) = Kind(hs, l)

LEMMA KindsSame ==
    ASSUME NEW hs, NEW hs2, NEW cs, StackOK(hs, cs), SameKinds(hs, hs2, cs)
    PROVE  StackOK(hs2, cs)
<1>1. cs \in Seq(CallRecord) /\ \A j \in DOMAIN cs : CallOK(hs, cs, j) /\ cs[j] \in CallRecord
  BY DEF StackOK
<1>2. ASSUME NEW i \in DOMAIN cs
      PROVE  /\ cs[i].list \in Seq(Link)
             /\ \A k \in DOMAIN cs[i].list : /\ Kind(hs2, cs[i].list[k]) = Kind(hs, cs[i].list[k])
                                             /\ cs[i].list[k].at \in DOMAIN hs2[cs[i].list[k].cls]
             /\ WholeOf(hs2, cs[i].list) = WholeOf(hs, cs[i].list)
  <2> DEFINE s == cs[i].list
  <2>1. s \in Seq(Link)
    BY <1>1 DEF CallRecord
  <2>2. \A k \in DOMAIN s : Kind(hs2, s[k]) = Kind(hs, s[k]) /\ s[k].at \in DOMAIN hs2[s[k].cls]
    BY DEF SameKinds
  <2> HIDE DEF s
  <2>3. \A k \in DOMAIN s : k # 1 => k - 1 \in DOMAIN s
    BY <2>1
  <2>4. WholeOf(hs2, s) = WholeOf(hs, s)
    BY <2>2, <2>3 DEF WholeOf
  <2> QED BY <2>1, <2>2, <2>4 DEF s
<1>3. ASSUME NEW i \in DOMAIN cs
      PROVE  MessageOK(hs2, cs[i])
  <2> DEFINE s == cs[i].list
             classes == Precedence[cs[i].receiver]
  <2>1. MessageOK(hs, cs[i])
    BY <1>1 DEF CallOK
  <2>2. ListOK(hs, classes, s) => ListOK(hs2, classes, s)
    <3>1. SUFFICES ASSUME ListOK(hs, classes, s) PROVE ListOK(hs2, classes, s)
      OBVIOUS
    <3>2. /\ \A k \in DOMAIN s : /\ Kind(hs2, s[k]) = Kind(hs, s[k])
                                 /\ s[k].at \in DOMAIN hs2[s[k].cls] /\ s[k] \in Link
          /\ s \in Seq(Link)
      BY <1>2
    <3> HIDE DEF s, classes
    <3>3. Pairwise(s, Ahead(hs2, classes))
      <4>1. SUFFICES ASSUME NEW j \in DOMAIN s, NEW k \in DOMAIN s, j < k
                     PROVE  <<s[j], s[k]>> \in Ahead(hs2, classes)
        BY DEF Pairwise
      <4>2. <<s[j], s[k]>> \in Ahead(hs, classes)
        BY <3>1, <4>1 DEF ListOK, Pairwise
      <4> QED BY <3>2, <4>2 DEF Ahead
    <3> QED BY <3>1, <3>2, <3>3 DEF ListOK
  <2> QED BY <2>1, <2>2 DEF MessageOK
<1>4. ASSUME NEW i \in DOMAIN cs, Running(cs[i])
      PROVE  RunsOK(hs2, cs, i)
  <2>1. RunsOK(hs, cs, i)
    BY <1>1, <1>4 DEF CallOK
  <2>2. cs[i].at.call \in DOMAIN cs
    BY <1>1, <2>1 DEF RunsOK
  <2>3. WholeOf(hs2, ListAt(cs, cs[i].at)) = WholeOf(hs, ListAt(cs, cs[i].at))
    BY <1>2, <2>2 DEF ListAt
  <2> QED BY <2>1, <2>3 DEF RunsOK
<1>5. ASSUME NEW i \in DOMAIN cs, Available(hs, cs, cs[i].core)
      PROVE  Available(hs2, cs, cs[i].core)
  <2> DEFINE cr == cs[i].core
  <2>1. cr # NoCore /\ CoreAt(cs, i - 1, cr)
    BY <1>1, <1>5 DEF Available, NoCore, CallOK
  <2>2. i - 1 \in Nat /\ i - 1 <= Len(cs) /\ \A j \in 1 .. i - 1 : CallOK(hs, cs, j)
    BY <1>1
  <2> HIDE DEF cr
  <2>3. PICK j \in 1 .. i - 1 :
          /\ cr.current = cs[j].at /\ cs[j].at.call \in 1 .. j
          /\ cs[j].at.at \in DOMAIN ListAt(cs, cs[j].at)
          /\ cr.next # Nowhere => cr.next.at \in DOMAIN ListAt(cs, cs[j].at)
    <3> DEFINE n == i - 1
    <3>1. n \in Nat /\ n <= Len(cs) /\ CoreAt(cs, n, cr) /\ CallsOK(hs, cs, n)
      BY <2>1, <2>2 DEF CallsOK
    <3>2. \E j \in 1 .. n :
            /\ cr.current = cs[j].at /\ cs[j].at.call \in 1 .. j
            /\ cs[j].at.at \in DOMAIN ListAt(cs, cs[j].at)
            /\ cr.next # Nowhere => cr.next.at \in DOMAIN ListAt(cs, cs[j].at)
      <4> HIDE DEF n
      <4> QED BY <1>1, <2>1, <3>1, CorePoints
    <3> QED BY <3>2
  <2>4. cs[j].at.call \in DOMAIN cs
    BY <1>1, <2>2, <2>3
  <2> DEFINE s == ListAt(cs, cs[j].at)
  <2>5. \A k \in DOMAIN s : Kind(hs2, s[k]) = Kind(hs, s[k])
    BY <1>2, <2>4 DEF ListAt
  <2>6. Available(hs, cs, cr)
    BY <1>5 DEF cr
  <2> HIDE DEF s
  <2>7. Available(hs2, cs, cr)
    BY <2>3, <2>5, <2>6 DEF Available, s
  <2> QED BY <2>7 DEF cr
<1>6. \A i \in DOMAIN cs : CallOK(hs2, cs, i)
  BY <1>1, <1>3, <1>4, <1>5 DEF CallOK
<1> QED BY <1>1, <1>6 DEF StackOK

-----------------------------------------------------------------------------
(* What the inductive invariant means.                                     *)

LEMMA LastIs ==
    ASSUME NEW cs \in Seq(CallRecord)
    PROVE  /\ (\A k \in 1 .. Len(cs) : ~Running(cs[k])) => SelectLastInSeq(cs, Running) = 0
           /\ \A i \in 1 .. Len(cs) : LastRunning(cs, Len(cs), i) => SelectLastInSeq(cs, Running) = i
<1> DEFINE n == Len(cs)
           I == {k \in 1 .. n : Running(cs[k])}
<1>1. n \in Nat
  OBVIOUS
<1>2. SelectLastInSeq(cs, Running) = IF I # {} THEN Max(I) ELSE 0
  BY DEF SelectLastInSeq
<1>3. ASSUME \A k \in 1 .. n : ~Running(cs[k])
      PROVE  SelectLastInSeq(cs, Running) = 0
  <2>1. I = {}
    BY <1>3
  <2> QED BY <1>2, <2>1
<1>4. ASSUME NEW i \in 1 .. n, LastRunning(cs, n, i)
      PROVE  SelectLastInSeq(cs, Running) = i
  <2>1. i \in I /\ \A k \in I : k <= i
    <3>1. i \in I
      BY <1>4 DEF LastRunning
    <3>2. ASSUME NEW k \in I PROVE k <= i
      <4>1. k \in 1 .. n /\ Running(cs[k])
        OBVIOUS
      <4>2. k \notin i + 1 .. n
        BY <1>4, <4>1 DEF LastRunning
      <4> HIDE DEF I
      <4> QED BY <1>1, <4>1, <4>2
    <3> QED BY <3>1, <3>2
  <2>2. I \subseteq 0 .. n /\ I \subseteq Nat
    OBVIOUS
  <2> HIDE DEF I, n
  <2>3. Max(I) \in I /\ \A k \in I : k <= Max(I)
    BY <1>1, <2>1, <2>2, MaxIs
  <2>4. Max(I) = i
    <3>1. Max(I) <= i /\ i <= Max(I) /\ Max(I) \in Nat /\ i \in Nat
      BY <2>1, <2>2, <2>3
    <3> QED BY <3>1
  <2> QED BY <1>2, <2>1, <2>4
<1> QED BY <1>3, <1>4

LEMMA KindsAre ==
    ASSUME NEW s
    PROVE  /\ \A k : TypeIn(s, k) = Kind(handlers, s[k])
           /\ Whole(s) = WholeOf(handlers, s)
BY DEF TypeIn, Kind, Whole, WholeOf

LEMMA KindTyped ==
    ASSUME TablesOK(handlers, handlerOrderMap), NEW l \in Link, l.at \in DOMAIN handlers[l.cls]
    PROVE  Kind(handlers, l) \in HandlerType
<1>1. handlers[l.cls] \in Seq(Handler)
  BY DEF Link, TablesOK
<1>2. handlers[l.cls][l.at] \in Handler
  BY <1>1
<1> QED BY <1>2 DEF Kind, Handler

LEMMA OrderMeans ==
    ASSUME TablesOK(handlers, handlerOrderMap), StackOK(handlers, calls)
    PROVE  MostSpecificFirst
<1> DEFINE rank == [around |-> 1, before |-> 2, primary |-> 3, after |-> 4]
<1>1. \A t \in HandlerType : rank[t] = Rank(t)
  BY DEF HandlerType, Rank
<1> HIDE DEF rank
<1>2. SUFFICES ASSUME NEW i \in Messages,
                      NEW j \in DOMAIN calls[i].list, NEW k \in DOMAIN calls[i].list, j < k
               PROVE  LET list == calls[i].list
                          classes == Precedence[calls[i].receiver]
                          place(x) == SelectInSeq(classes, LAMBDA c : c = list[x].cls)
                      IN \/ rank[TypeIn(list, j)] < rank[TypeIn(list, k)]
                         \/ /\ TypeIn(list, j) = TypeIn(list, k)
                            /\ IF TypeIn(list, j) = "after" THEN place(k) < place(j)
                                                            ELSE place(j) < place(k)
  BY DEF MostSpecificFirst, rank
<1> DEFINE s == calls[i].list
           classes == Precedence[calls[i].receiver]
<1>3. ListOK(handlers, classes, s)
  <2>1. i \in DOMAIN calls /\ IsMessage(calls[i])
    BY DEF Messages, IsMessage
  <2> QED BY <2>1 DEF StackOK, CallOK, MessageOK
<1> HIDE DEF classes
<1>4. /\ s[j] \in Link /\ s[j].at \in DOMAIN handlers[s[j].cls]
      /\ s[k] \in Link /\ s[k].at \in DOMAIN handlers[s[k].cls]
      /\ <<s[j], s[k]>> \in Ahead(handlers, classes)
  <2> HIDE DEF s
  <2> QED BY <1>2, <1>3 DEF ListOK, Pairwise, s
<1>5. Kind(handlers, s[j]) \in HandlerType /\ Kind(handlers, s[k]) \in HandlerType
  BY <1>4, KindTyped
<1>6. TypeIn(s, j) = Kind(handlers, s[j]) /\ TypeIn(s, k) = Kind(handlers, s[k])
  BY DEF TypeIn, Kind
<1>7. \/ Rank(Kind(handlers, s[j])) < Rank(Kind(handlers, s[k]))
      \/ /\ Kind(handlers, s[j]) = Kind(handlers, s[k])
         /\ IF Kind(handlers, s[j]) = "after"
            THEN PlaceIn(classes, s[k]) < PlaceIn(classes, s[j])
            ELSE PlaceIn(classes, s[j]) < PlaceIn(classes, s[k])
  BY <1>4 DEF Ahead
<1>8. /\ PlaceIn(classes, s[k]) = SelectInSeq(classes, LAMBDA c : c = s[k].cls)
      /\ PlaceIn(classes, s[j]) = SelectInSeq(classes, LAMBDA c : c = s[j].cls)
  BY DEF PlaceIn
<1>9. /\ rank[TypeIn(s, j)] = Rank(Kind(handlers, s[j]))
      /\ rank[TypeIn(s, k)] = Rank(Kind(handlers, s[k]))
  BY <1>1, <1>5, <1>6
<1> QED BY <1>6, <1>7, <1>8, <1>9 DEF classes

LEMMA InvariantMeans ==
    ASSUME MessagesIInv
    PROVE  MessagingInv
<1>1. /\ TablesOK(handlers, handlerOrderMap) /\ StackOK(handlers, calls) /\ BusyOK(handlers, calls)
      /\ CoreAt(calls, Len(calls), core) /\ outcome /\ ~dangling
  BY DEF MessagesIInv
<1>2. HandlersInv
  BY <1>1, TablesMean
<1>3. calls \in Seq(CallRecord) /\ DOMAIN calls = 1 .. Len(calls) /\ Len(calls) \in Nat
  BY <1>1 DEF StackOK
<1>4. BusyCountsMessages
  <2>1. SUFFICES ASSUME NEW c \in HandlerClass, NEW i \in DOMAIN handlers[c]
                 PROVE  handlers[c][i].busy =
                          Cardinality({j \in Messages : [cls |-> c, at |-> i] \in ToSet(calls[j].list)})
    BY DEF BusyCountsMessages
  <2>2. {j \in Messages : [cls |-> c, at |-> i] \in ToSet(calls[j].list)} = Lists(calls, c, i)
    BY DEF Messages, Lists, IsMessage, ToSet
  <2> QED BY <1>1, <2>2 DEF BusyOK
<1>5. CoreIsRunning
  <2> DEFINE i == SelectLastInSeq(calls, Running)
  <2>1. CASE (\A j \in 1 .. Len(calls) : ~Running(calls[j])) /\ core = NoCore
    <3>1. i = 0
      <4>1. \A j \in 1 .. Len(calls) : ~Running(calls[j])
        BY <2>1
      <4> HIDE DEF i
      <4> QED BY <1>3, <4>1, LastIs DEF i
    <3> QED BY <2>1, <3>1 DEF CoreIsRunning, NoCore
  <2>2. CASE \E k \in 1 .. Len(calls) : LastRunning(calls, Len(calls), k) /\ core = CoreOf(calls, k)
    <3>1. PICK k \in 1 .. Len(calls) : LastRunning(calls, Len(calls), k) /\ core = CoreOf(calls, k)
      BY <2>2
    <3>2. i = k /\ i # 0
      <4>1. LastRunning(calls, Len(calls), k)
        BY <3>1
      <4>2. i = k
        BY <1>3, <4>1, LastIs
      <4>3. k # 0
        BY <1>3
      <4> HIDE DEF i
      <4> QED BY <4>2, <4>3
    <3> HIDE DEF i
    <3>3. core = CoreOf(calls, i) /\ i # 0
      BY <3>1, <3>2
    <3> QED BY <3>3 DEF CoreIsRunning, CoreOf, ListAt, i
  <2> QED BY <1>1, <2>1, <2>2 DEF CoreAt
<1>6. NoHandlerIsSkipped
  <2>1. SUFFICES ASSUME NEW i \in DOMAIN calls, calls[i].mode = "all"
                 PROVE  LET list == calls[calls[i].at.call].list
                        IN calls[i].done = {k \in Whole(list) : k <= calls[i].at.at}
    BY <1>1 DEF NoHandlerIsSkipped
  <2>2. RunsOK(handlers, calls, i)
    BY <1>1, <2>1 DEF StackOK, CallOK, Running
  <2>3. calls[i].done = {k \in WholeOf(handlers, ListAt(calls, calls[i].at)) : k <= calls[i].at.at}
    BY <2>1, <2>2 DEF RunsOK
  <2> QED BY <2>3, KindsAre DEF ListAt
<1>7. ShadowsLieBehind
  <2>1. SUFFICES ASSUME NEW i \in DOMAIN calls, calls[i].kind = "next", Running(calls[i])
                 PROVE  LET j == SelectLastInSeq(SubSeq(calls, 1, i - 1), Running)
                        IN j # 0 /\ calls[i].at.call = calls[j].at.call
                                 /\ calls[i].at.at > calls[j].at.at
    BY DEF ShadowsLieBehind
  <2> DEFINE n == i - 1
             below == SubSeq(calls, 1, n)
  <2>2. RunsOK(handlers, calls, i)
    BY <1>1, <2>1 DEF StackOK, CallOK
  <2>3. PICK j \in 1 .. n : /\ LastRunning(calls, n, j)
                            /\ calls[i].at.call = calls[j].at.call /\ calls[i].at.at > calls[j].at.at
    BY <2>1, <2>2 DEF RunsOK
  <2>4. n \in 0 .. Len(calls) /\ n \in Nat
    BY <1>3
  <2>5. /\ below \in Seq(CallRecord) /\ Len(below) = n /\ \A k \in 1 .. n : below[k] = calls[k]
    <3> HIDE DEF n
    <3> QED BY <1>3, <2>4
  <2>6. LastRunning(below, n, j)
    <3> HIDE DEF n, below
    <3> QED BY <2>3, <2>4, <2>5, LastRunningSame
  <2>7. SelectLastInSeq(below, Running) = j
    <3> HIDE DEF n, below
    <3> QED BY <2>3, <2>5, <2>6, LastIs
  <2>8. j # 0
    BY <2>4
  <2> QED BY <2>3, <2>7, <2>8
<1>8. MostSpecificFirst
  BY <1>1, OrderMeans
<1> QED BY <1>1, <1>2, <1>4, <1>5, <1>6, <1>7, <1>8 DEF MessagingInv, MessagesInv, HandlersStay

LEMMA InitIs ==
    ASSUME MessagesInit
    PROVE  MessagesIInv
<1>1. /\ handlers = [c \in HandlerClass |-> << >>] /\ handlerOrderMap = [c \in HandlerClass |-> << >>]
      /\ calls = << >> /\ core = NoCore /\ outcome = TRUE /\ dangling = FALSE
  BY DEF MessagesInit, HandlersInit, NoCore
<1>2. TableOK(<< >>, << >>)
  BY DEF TableOK
<1>3. TablesOK(handlers, handlerOrderMap)
  BY <1>1, <1>2 DEF TablesOK
<1>4. StackOK(handlers, calls)
  BY <1>1 DEF StackOK
<1>5. BusyOK(handlers, calls)
  BY <1>1 DEF BusyOK
<1>6. core \in Core /\ CoreAt(calls, Len(calls), core)
  BY <1>1 DEF CoreAt, Core, Pointer, NoCore, Nowhere
<1> QED BY <1>1, <1>3, <1>4, <1>5, <1>6 DEF MessagesIInv

-----------------------------------------------------------------------------
(* Steps that leave the calls under way alone.                             *)

LEMMA QuietStep ==
    ASSUME MessagesIInv, UNCHANGED <<handlers, handlerOrderMap, core, calls, outcome, dangling>>
    PROVE  MessagesIInv'
BY DEF MessagesIInv

LEMMA ListsFinite ==
    ASSUME NEW cs \in Seq(CallRecord), NEW c, NEW i
    PROVE  IsFiniteSet(Lists(cs, c, i)) /\ Cardinality(Lists(cs, c, i)) \in Nat
<1>1. IsFiniteSet(1 .. Len(cs))
  BY FS_Interval
<1>2. Lists(cs, c, i) \in SUBSET (1 .. Len(cs))
  BY DEF Lists
<1> QED BY <1>1, <1>2, FS_Subset, FS_CardinalityType

\* A class that a message goes through has handlers that are executing.
LEMMA ListedExecutes ==
    ASSUME MessagesIInv, NEW j \in DOMAIN calls, NEW k \in DOMAIN calls[j].list
    PROVE  LET l == calls[j].list[k]
           IN /\ l \in Link /\ l.at \in DOMAIN handlers[l.cls] /\ HandlersExecuting(l.cls)
              /\ IsMessage(calls[j])
<1> DEFINE l == calls[j].list[k]
<1>1. /\ StackOK(handlers, calls) /\ BusyOK(handlers, calls) /\ calls \in Seq(CallRecord)
      /\ calls[j] \in CallRecord
  BY DEF MessagesIInv, StackOK
<1>2. MessageOK(handlers, calls[j])
  BY <1>1 DEF StackOK, CallOK
<1>3. IsMessage(calls[j])
  BY <1>2 DEF MessageOK
<1>4. l.at \in DOMAIN handlers[l.cls]
  BY <1>2, <1>3 DEF MessageOK, ListOK
<1>5. l \in Link
  BY <1>1 DEF CallRecord
<1>6. j \in Lists(calls, l.cls, l.at)
  <2>1. l = [cls |-> l.cls, at |-> l.at]
    BY <1>5 DEF Link
  <2> HIDE DEF l
  <2>2. calls[j].list[k] = [cls |-> l.cls, at |-> l.at]
    BY <2>1 DEF l
  <2> QED BY <1>3, <2>2 DEF Lists
<1> HIDE DEF l
<1> DEFINE L == Lists(calls, l.cls, l.at)
<1>7. IsFiniteSet(L) /\ Cardinality(L) \in Nat
  BY <1>1, ListsFinite
<1>8. Cardinality(L) # 0
  <2> HIDE DEF L
  <2> QED BY <1>6, <1>7, FS_EmptySet DEF L
<1>9. l.cls \in HandlerClass
  BY <1>5 DEF Link
<1>10. handlers[l.cls][l.at].busy > 0
  BY <1>1, <1>4, <1>7, <1>8, <1>9 DEF BusyOK
<1>11. HandlersExecuting(l.cls)
  BY <1>4, <1>10 DEF HandlersExecuting
<1> QED BY <1>3, <1>4, <1>5, <1>11 DEF l

LEMMA DefineStep ==
    ASSUME MessagesIInv, Define(HandlerClass, MessageName, HandlerType)
    PROVE  MessagesIInv'
<1>1. /\ TablesOK(handlers, handlerOrderMap) /\ StackOK(handlers, calls) /\ BusyOK(handlers, calls)
      /\ core \in Core /\ CoreAt(calls, Len(calls), core) /\ outcome = TRUE /\ dangling = FALSE
  BY DEF MessagesIInv
<1>2. /\ HandlersNext(HandlerClass, MessageName, HandlerType)
      /\ core' = core /\ calls' = calls /\ outcome' = outcome
      /\ dangling' = (dangling \/ \E i \in DOMAIN calls : \E k \in DOMAIN calls[i].list :
                        LET c == calls[i].list[k].cls IN Len(handlers[c]) # Len(handlers'[c]))
  BY DEF Define
<1>3. TablesGoOn
  BY <1>1, <1>2, TablesStep
<1>4. ASSUME NEW j \in DOMAIN calls, NEW k \in DOMAIN calls[j].list
      PROVE  handlers'[calls[j].list[k].cls] = handlers[calls[j].list[k].cls]
  <2>1. calls[j].list[k] \in Link /\ HandlersExecuting(calls[j].list[k].cls)
    BY ListedExecutes
  <2>2. calls[j].list[k].cls \in HandlerClass
    BY <2>1 DEF Link
  <2> QED BY <1>3, <2>1, <2>2 DEF TablesGoOn
<1>5. dangling' = FALSE
  BY <1>1, <1>2, <1>4
<1>6. StackOK(handlers', calls')
  <2>1. SameKinds(handlers, handlers', calls)
    <3>1. SUFFICES ASSUME NEW j \in DOMAIN calls, NEW k \in DOMAIN calls[j].list
                   PROVE  LET l == calls[j].list[k]
                          IN l.at \in DOMAIN handlers'[l.cls] /\ Kind(handlers', l) = Kind(handlers, l)
      BY DEF SameKinds
    <3> QED BY <1>4, ListedExecutes DEF Kind
  <2> QED BY <1>1, <1>2, <2>1, KindsSame
<1>7. BusyOK(handlers', calls')
  <2>1. SUFFICES ASSUME NEW c \in HandlerClass, NEW i \in DOMAIN handlers'[c]
                 PROVE  handlers'[c][i].busy = Cardinality(Lists(calls, c, i))
    BY <1>2 DEF BusyOK
  <2>2. CASE HandlersExecuting(c)
    <3>1. handlers'[c] = handlers[c]
      BY <1>3, <2>2 DEF TablesGoOn
    <3> QED BY <1>1, <3>1 DEF BusyOK
  <2>3. CASE ~HandlersExecuting(c)
    <3>1. handlers'[c][i].busy = 0
      BY <1>3, <2>3 DEF TablesGoOn
    <3>2. Lists(calls, c, i) = {}
      <4>1. SUFFICES ASSUME NEW j \in DOMAIN calls, NEW k \in DOMAIN calls[j].list,
                            calls[j].list[k] = [cls |-> c, at |-> i]
                     PROVE  FALSE
        BY DEF Lists
      <4>2. calls[j].list[k].cls = c
        BY <4>1
      <4> QED BY <2>3, <4>2, ListedExecutes
    <3> QED BY <3>1, <3>2, FS_EmptySet
  <2> QED BY <2>2, <2>3
<1>8. core' \in Core /\ CoreAt(calls', Len(calls'), core') /\ outcome' = TRUE
  BY <1>1, <1>2
<1> QED BY <1>3, <1>5, <1>6, <1>7, <1>8 DEF MessagesIInv, TablesGoOn

-----------------------------------------------------------------------------
(* Calls begin.                                                            *)

LEMMA CoreOver ==
    ASSUME NEW cs, NEW n \in Nat, ~Running(cs[n + 1]), NEW cr
    PROVE  CoreAt(cs, n + 1, cr) <=> CoreAt(cs, n, cr)
<1>1. 1 .. n + 1 = (1 .. n) \cup {n + 1}
  OBVIOUS
<1>2. ~LastRunning(cs, n + 1, n + 1)
  BY DEF LastRunning
<1>3. ASSUME NEW i \in 1 .. n
      PROVE  LastRunning(cs, n + 1, i) <=> LastRunning(cs, n, i)
  <2>1. i + 1 .. n + 1 = (i + 1 .. n) \cup {n + 1} /\ i \in 1 .. n + 1
    OBVIOUS
  <2> QED BY <2>1 DEF LastRunning
<1>4. (\A j \in 1 .. n + 1 : ~Running(cs[j])) <=> \A j \in 1 .. n : ~Running(cs[j])
  BY <1>1
<1>5. (\E i \in 1 .. n + 1 : LastRunning(cs, n + 1, i) /\ cr = CoreOf(cs, i))
        <=> \E i \in 1 .. n : LastRunning(cs, n, i) /\ cr = CoreOf(cs, i)
  BY <1>1, <1>2, <1>3
<1> QED BY <1>4, <1>5 DEF CoreAt

LEMMA CoreTop ==
    ASSUME NEW cs, NEW n \in Nat \ {0}, Running(cs[n])
    PROVE  /\ CoreAt(cs, n, CoreOf(cs, n))
           /\ \A cr : CoreAt(cs, n, cr) => cr = CoreOf(cs, n)
<1>1. LastRunning(cs, n, n)
  BY DEF LastRunning
<1>2. CoreAt(cs, n, CoreOf(cs, n))
  BY <1>1 DEF CoreAt
<1> QED BY <1>2, CoreUnique

\* The calls below the innermost, and what its core is.
LEMMA StackFacts ==
    ASSUME MessagesIInv
    PROVE  /\ calls \in Seq(CallRecord) /\ DOMAIN calls = 1 .. Depth /\ Depth \in Nat
           /\ Depth = Len(calls)
           /\ \A n \in 0 .. Depth : CallsOK(handlers, calls, n)
           /\ \A j \in 1 .. Depth : Running(calls[j]) => calls[j].at.call \in 1 .. j
<1>1. StackOK(handlers, calls)
  BY DEF MessagesIInv
<1>2. /\ calls \in Seq(CallRecord) /\ DOMAIN calls = 1 .. Depth /\ Depth \in Nat /\ Depth = Len(calls)
      /\ \A j \in 1 .. Depth : CallOK(handlers, calls, j)
  BY <1>1 DEF StackOK, Depth
<1>3. ASSUME NEW n \in 0 .. Depth
      PROVE  CallsOK(handlers, calls, n)
  <2>1. \A j \in 1 .. n : j \in 1 .. Depth
    BY <1>2
  <2> QED BY <1>2, <2>1 DEF CallsOK
<1>4. \A j \in 1 .. Depth : Running(calls[j]) => calls[j].at.call \in 1 .. j
  BY <1>2 DEF CallOK, RunsOK
<1> QED BY <1>2, <1>3, <1>4

LEMMA AvailableSame ==
    ASSUME NEW hs, NEW cs \in Seq(CallRecord), NEW n \in Nat, n <= Len(cs), CallsOK(hs, cs, n),
           NEW cr, CoreAt(cs, n, cr), Available(hs, cs, cr),
           NEW cs2, \A j \in 1 .. n : cs2[j] = cs[j]
    PROVE  Available(hs, cs2, cr)
<1>1. cr # NoCore
  BY DEF Available, NoCore
<1>2. PICK i \in 1 .. n : cr.current = cs[i].at /\ cs[i].at.call \in 1 .. i
  BY <1>1, CorePoints
<1>3. cr.current.call \in 1 .. n
  BY <1>2
<1>4. ListAt(cs2, cr.current) = ListAt(cs, cr.current)
  BY <1>3 DEF ListAt
<1> QED BY <1>4 DEF Available

\* What makes a call right, next to those below it.
LEMMA CallIs ==
    ASSUME NEW hs, NEW cs, NEW n \in Nat, NEW C, cs[n + 1] = C, MessageOK(hs, C),
           Running(C) => RunsOK(hs, cs, n + 1),
           ~Running(C) => C.done = {} /\ (C.kind = "next" => Available(hs, cs, C.core)),
           CoreAt(cs, n, C.core)
    PROVE  CallOK(hs, cs, n + 1)
<1>1. n + 1 - 1 = n
  OBVIOUS
<1>2. CoreAt(cs, n + 1 - 1, C.core)
  BY <1>1
<1> QED BY <1>2 DEF CallOK

\* A call begins with its arguments, or as one of call-next-handler.
LEMMA EncloseStep ==
    ASSUME MessagesIInv, NEW C \in CallRecord, calls' = Append(calls, C), C.mode \in {"arguments", "ready"},
           C.list = << >>, C.done = {}, C.core = core,
           C.kind = "send" => /\ C.receiver \in Receiver /\ C.name \in MessageName
                              /\ C.mode = "arguments",
           C.kind = "next" => Available(handlers, calls, core),
           UNCHANGED <<handlers, handlerOrderMap, core, outcome, dangling>>
    PROVE  MessagesIInv'
<1> DEFINE n == Len(calls)
<1>1. /\ TablesOK(handlers, handlerOrderMap) /\ StackOK(handlers, calls) /\ BusyOK(handlers, calls)
      /\ core \in Core /\ CoreAt(calls, n, core) /\ outcome = TRUE /\ dangling = FALSE
  BY DEF MessagesIInv
<1>2. calls \in Seq(CallRecord) /\ n \in Nat /\ n <= Len(calls) /\ n = Depth
  BY StackFacts
<1>3. /\ calls' \in Seq(CallRecord) /\ Len(calls') = n + 1 /\ calls'[n + 1] = C
      /\ \A j \in 1 .. n : calls'[j] = calls[j]
  BY <1>2
<1>4. ~Running(C) /\ ~IsMessage(C)
  BY DEF Running, IsMessage
<1>5. CallsOK(handlers, calls, n)
  BY <1>2, StackFacts
<1>6. \A j \in 1 .. n : Running(calls[j]) => calls[j].at.call \in 1 .. j
  BY <1>2, StackFacts
<1> HIDE DEF n
<1>7. CoreAt(calls', n, core)
  BY <1>1, <1>2, <1>3, <1>6, CoreSame
<1>8. CallOK(handlers, calls', n + 1)
  <2>1. C.kind = "next" => Available(handlers, calls', core)
    BY <1>1, <1>2, <1>3, <1>5, AvailableSame
  <2>2. MessageOK(handlers, C)
    BY <1>4 DEF MessageOK
  <2> QED BY <1>2, <1>3, <1>4, <1>7, <2>1, <2>2, CallIs
<1>9. StackOK(handlers, calls')
  <2>1. \A j \in n + 1 .. Len(calls') : j = n + 1
    BY <1>2, <1>3
  <2>2. \A j \in n + 1 .. Len(calls') : CallOK(handlers, calls', j)
    BY <1>8, <2>1
  <2> QED BY <1>1, <1>2, <1>3, <2>2, StackFrom
<1>10. BusyOK(handlers, calls')
  <2>1. ASSUME NEW c, NEW i
        PROVE  Lists(calls', c, i) = Lists(calls, c, i)
    <3>1. DOMAIN calls = 1 .. n /\ DOMAIN calls' = (1 .. n) \cup {n + 1}
      BY <1>2, <1>3 DEF n
    <3> QED BY <1>3, <1>4, <3>1 DEF Lists
  <2> QED BY <1>1, <2>1 DEF BusyOK
<1>11. CoreAt(calls', n + 1, core)
  <2>1. ~Running(calls'[n + 1])
    BY <1>3, <1>4
  <2> QED BY <1>2, <1>7, <2>1, CoreOver
<1> QED BY <1>1, <1>3, <1>9, <1>10, <1>11 DEF MessagesIInv

LEMMA SendStep ==
    ASSUME MessagesIInv, NEW r \in Receiver, NEW mname \in MessageName, Send(r, mname)
    PROVE  MessagesIInv'
<1> DEFINE C == [kind |-> "send", mode |-> "arguments", receiver |-> r, name |-> mname,
                 list |-> << >>, core |-> core, at |-> Nowhere, done |-> {}]
<1>1. calls' = Append(calls, C) /\ UNCHANGED <<handlers, handlerOrderMap, core, outcome, dangling>>
  BY DEF Send, Enclose
<1>2. C \in CallRecord
  <2>1. core \in Core
    BY DEF MessagesIInv
  <2> QED BY <2>1 DEF CallRecord, Nowhere, Pointer
<1>3. /\ C.mode = "arguments" /\ C.kind = "send" /\ C.list = << >> /\ C.done = {} /\ C.core = core
      /\ C.receiver = r /\ C.name = mname
  OBVIOUS
<1> HIDE DEF C
<1> QED BY <1>1, <1>2, <1>3, EncloseStep

LEMMA CallNextHandlerStep ==
    ASSUME MessagesIInv, NEW mode \in {"ready", "arguments"}, CallNextHandler(mode)
    PROVE  MessagesIInv'
<1> DEFINE C == [kind |-> "next", mode |-> mode, receiver |-> "none", name |-> "none",
                 list |-> << >>, core |-> core, at |-> Nowhere, done |-> {}]
<1>1. calls' = Append(calls, C) /\ UNCHANGED <<handlers, handlerOrderMap, core, outcome, dangling>>
  BY DEF CallNextHandler, Enclose
<1>2. C \in CallRecord
  <2>1. core \in Core
    BY DEF MessagesIInv
  <2> QED BY <2>1 DEF CallRecord, Nowhere, Pointer
<1>3. /\ C.mode = mode /\ C.kind = "next" /\ C.list = << >> /\ C.done = {} /\ C.core = core
  OBVIOUS
<1>4. Available(handlers, calls, core)
  <2>1. NextHandlerAvailable
    BY DEF CallNextHandler
  <2> QED BY <2>1 DEF NextHandlerAvailable, Available, TypeIn, Kind, ListAt
<1> HIDE DEF C
<1> QED BY <1>1, <1>2, <1>3, <1>4, EncloseStep

\* A call ends before it changed anything.
LEMMA GiveUpStep ==
    ASSUME MessagesIInv, Mode = "arguments", calls' = Front(calls),
           UNCHANGED <<handlers, handlerOrderMap, core, outcome, dangling>>
    PROVE  MessagesIInv'
<1>1. Depth # 0 /\ Innermost.mode = "arguments"
  BY DEF Mode
<1> DEFINE n == Depth - 1
<1>2. /\ TablesOK(handlers, handlerOrderMap) /\ StackOK(handlers, calls) /\ BusyOK(handlers, calls)
      /\ core \in Core /\ CoreAt(calls, Len(calls), core) /\ outcome = TRUE /\ dangling = FALSE
  BY DEF MessagesIInv
<1>3. calls \in Seq(CallRecord) /\ Depth \in Nat /\ Depth = Len(calls) /\ DOMAIN calls = 1 .. Depth
  BY StackFacts
<1>4. n \in Nat /\ n + 1 = Depth /\ n <= Len(calls) /\ Len(calls) > 0
  BY <1>1, <1>3
<1>5. StackOK(handlers, calls') /\ Len(calls') = n /\ \A j \in 1 .. n : calls'[j] = calls[j]
  BY <1>2, <1>3, <1>4, PopKeeps
<1>6. ~Running(calls[n + 1]) /\ ~IsMessage(calls[n + 1])
  BY <1>1, <1>4 DEF Running, IsMessage, Innermost
<1> HIDE DEF n
<1>7. CoreAt(calls', n, core)
  <2>1. CoreAt(calls, n, core)
    BY <1>2, <1>3, <1>4, <1>6, CoreOver
  <2>2. \A j \in 1 .. n : Running(calls[j]) => calls[j].at.call \in 1 .. j
    <3>1. \A j \in 1 .. n : j \in 1 .. Depth
      BY <1>4
    <3> QED BY <3>1, StackFacts
  <2> QED BY <1>4, <1>5, <2>1, <2>2, CoreSame
<1>8. BusyOK(handlers, calls')
  <2>1. ASSUME NEW c, NEW i
        PROVE  Lists(calls', c, i) = Lists(calls, c, i)
    <3>1. DOMAIN calls' = 1 .. n /\ DOMAIN calls = (1 .. n) \cup {n + 1}
      BY <1>3, <1>4, <1>5 DEF StackOK
    <3> QED BY <1>5, <1>6, <3>1 DEF Lists
  <2> QED BY <1>2, <2>1 DEF BusyOK
<1> QED BY <1>2, <1>5, <1>7, <1>8 DEF MessagesIInv

-----------------------------------------------------------------------------
(* Messages hold their handlers.                                           *)

LEMMA PlaceInNumber ==
    ASSUME NEW classes \in Seq(HandlerClass), NEW l
    PROVE  PlaceIn(classes, l) \in Nat
<1> DEFINE I == {k \in 1 .. Len(classes) : classes[k] = l.cls}
<1>1. PlaceIn(classes, l) = IF I # {} THEN Min(I) ELSE 0
  BY DEF PlaceIn, SelectInSeq
<1>2. I \subseteq Nat
  OBVIOUS
<1> HIDE DEF I
<1>3. I # {} => Min(I) \in Nat
  BY <1>2, MinIs
<1> QED BY <1>1, <1>3

\* A list has a handler once.
LEMMA ListedOnce ==
    ASSUME NEW hs, NEW classes \in Seq(HandlerClass), NEW s, ListOK(hs, classes, s),
           NEW j \in DOMAIN s, NEW k \in DOMAIN s, s[j] = s[k]
    PROVE  j = k
<1>1. ASSUME NEW x \in DOMAIN s, NEW y \in DOMAIN s, x < y, s[x] = s[y]
      PROVE  FALSE
  <2>1. <<s[x], s[y]>> \in Ahead(hs, classes)
    BY <1>1 DEF ListOK, Pairwise
  <2> DEFINE r == Rank(Kind(hs, s[x]))
             p == PlaceIn(classes, s[x])
  <2>2. r < r \/ p < p
    BY <1>1, <2>1 DEF Ahead
  <2>3. r \in Nat /\ p \in Nat
    BY PlaceInNumber DEF Rank
  <2> HIDE DEF r, p
  <2> QED BY <2>2, <2>3
<1>2. j \in Nat /\ k \in Nat
  BY DEF ListOK
<1> QED BY <1>1, <1>2

IsListed(s, c, i) == \E k \in DOMAIN s : s[k] = [cls |-> c, at |-> i]

LEMMA HoldIs ==
    ASSUME TablesOK(handlers, handlerOrderMap), NEW classes \in Seq(HandlerClass),
           NEW s, ListOK(handlers, classes, s), NEW by \in Int, NEW c \in HandlerClass
    PROVE  /\ DOMAIN Hold(s, by)[c] = DOMAIN handlers[c]
           /\ \A i \in DOMAIN handlers[c] :
                 Hold(s, by)[c][i] =
                    [handlers[c][i] EXCEPT !.busy = IF IsListed(s, c, i) THEN @ + by ELSE @]
<1>1. Hold(s, by)[c] = [i \in DOMAIN handlers[c] |->
        [handlers[c][i] EXCEPT !.busy =
            @ + by * Cardinality({k \in DOMAIN s : s[k] = [cls |-> c, at |-> i]})]]
  BY DEF Hold
<1>2. ASSUME NEW i \in DOMAIN handlers[c]
      PROVE  Hold(s, by)[c][i] =
                [handlers[c][i] EXCEPT !.busy = IF IsListed(s, c, i) THEN @ + by ELSE @]
  <2> DEFINE K == {k \in DOMAIN s : s[k] = [cls |-> c, at |-> i]}
             b == handlers[c][i].busy
  <2>1. b \in Nat
    <3>1. handlers[c] \in Seq(Handler)
      BY DEF TablesOK
    <3>2. handlers[c][i] \in Handler
      BY <3>1
    <3> QED BY <3>2 DEF Handler
  <2>2. Hold(s, by)[c][i] = [handlers[c][i] EXCEPT !.busy = @ + by * Cardinality(K)]
    BY <1>1
  <2>3. b + by * Cardinality(K) = IF IsListed(s, c, i) THEN b + by ELSE b
    <3>1. CASE IsListed(s, c, i)
      <4>1. PICK k \in DOMAIN s : s[k] = [cls |-> c, at |-> i]
        BY <3>1 DEF IsListed
      <4>2. K = {k}
        <5>1. \A x \in K : x = k
          BY <4>1, ListedOnce
        <5> QED BY <4>1, <5>1
      <4>3. Cardinality(K) = 1
        BY <4>2, FS_Singleton
      <4> HIDE DEF K, b
      <4> QED BY <2>1, <3>1, <4>3
    <3>2. CASE ~IsListed(s, c, i)
      <4>1. K = {}
        BY <3>2 DEF IsListed
      <4>2. Cardinality(K) = 0
        BY <4>1, FS_EmptySet
      <4> HIDE DEF K, b
      <4> QED BY <2>1, <3>2, <4>2
    <3> QED BY <3>1, <3>2
  <2> QED BY <2>2, <2>3
<1> QED BY <1>1, <1>2

LEMMA HeldTables ==
    ASSUME TablesOK(handlers, handlerOrderMap), NEW classes \in Seq(HandlerClass),
           NEW s, ListOK(handlers, classes, s), NEW by \in Int,
           \A c \in HandlerClass : \A i \in DOMAIN handlers[c] :
              IsListed(s, c, i) => handlers[c][i].busy + by \in Nat
    PROVE  /\ TablesOK(Hold(s, by), handlerOrderMap)
           /\ \A cs : StackOK(handlers, cs) => StackOK(Hold(s, by), cs)
           /\ ListOK(Hold(s, by), classes, s)
<1> DEFINE hs2 == Hold(s, by)
<1>1. ASSUME NEW c \in HandlerClass
      PROVE  /\ handlers[c] \in Seq(Handler) /\ hs2[c] \in Seq(Handler)
             /\ DOMAIN hs2[c] = DOMAIN handlers[c] /\ Len(hs2[c]) = Len(handlers[c])
             /\ \A i \in DOMAIN handlers[c] : /\ hs2[c][i].name = handlers[c][i].name
                                              /\ hs2[c][i].type = handlers[c][i].type
  <2>1. handlers[c] \in Seq(Handler)
    BY DEF TablesOK
  <2>2. /\ DOMAIN hs2[c] = DOMAIN handlers[c]
        /\ \A i \in DOMAIN handlers[c] :
              hs2[c][i] = [handlers[c][i] EXCEPT !.busy = IF IsListed(s, c, i) THEN @ + by ELSE @]
    BY HoldIs
  <2>3. ASSUME NEW i \in DOMAIN handlers[c]
        PROVE  /\ hs2[c][i] \in Handler /\ hs2[c][i].name = handlers[c][i].name
               /\ hs2[c][i].type = handlers[c][i].type
    <3>1. handlers[c][i] \in Handler
      BY <2>1
    <3>2. IsListed(s, c, i) => handlers[c][i].busy + by \in Nat
      OBVIOUS
    <3> HIDE DEF hs2
    <3> QED BY <2>2, <3>1, <3>2 DEF Handler
  <2>4. hs2[c] = [i \in 1 .. Len(handlers[c]) |-> hs2[c][i]]
    <3>1. hs2[c] = [i \in DOMAIN handlers[c] |-> hs2[c][i]]
      BY DEF Hold
    <3> QED BY <2>1, <3>1
  <2> HIDE DEF hs2
  <2>5. hs2[c] \in Seq(Handler) /\ Len(hs2[c]) = Len(handlers[c])
    BY <2>1, <2>3, <2>4
  <2> QED BY <2>1, <2>2, <2>3, <2>5
<1>2. ASSUME NEW c \in HandlerClass
      PROVE  TableOK(hs2[c], handlerOrderMap[c])
  <2>1. TableOK(handlers[c], handlerOrderMap[c])
    BY DEF TablesOK
  <2> DEFINE a == handlers[c]
             b == hs2[c]
             map == handlerOrderMap[c]
  <2>2. /\ b \in Seq(Handler) /\ DOMAIN b = DOMAIN a /\ Len(b) = Len(a)
        /\ \A i \in DOMAIN a : b[i].name = a[i].name /\ b[i].type = a[i].type
    BY <1>1
  <2> HIDE DEF a, b, map, hs2
  <2>3. TableOK(a, map) => TableOK(b, map)
    <3>1. SUFFICES ASSUME TableOK(a, map) PROVE TableOK(b, map)
      OBVIOUS
    <3>2. \A i \in DOMAIN map : map[i] \in DOMAIN a /\ NameOf(b, map, i) = NameOf(a, map, i)
      BY <2>2, <3>1 DEF TableOK, NameOf
    <3>3. /\ \A i, j \in DOMAIN map :
                i < j => Bucket[NameOf(b, map, i)] <= Bucket[NameOf(b, map, j)]
          /\ \A i, k, j \in DOMAIN map :
                i < k /\ k < j /\ NameOf(b, map, i) = NameOf(b, map, j)
                => NameOf(b, map, k) = NameOf(b, map, i)
      BY <3>1, <3>2 DEF TableOK
    <3>4. \A p, q \in DOMAIN b : p # q => b[p].name # b[q].name \/ b[p].type # b[q].type
      BY <2>2, <3>1 DEF TableOK
    <3> QED BY <2>2, <3>1, <3>3, <3>4 DEF TableOK
  <2> QED BY <2>1, <2>3 DEF a, b, map
<1>3. hs2 \in [HandlerClass -> Seq(Handler)] /\ handlerOrderMap \in [HandlerClass -> Seq(Nat)]
  <2>1. hs2 = [c \in HandlerClass |-> hs2[c]]
    BY DEF Hold
  <2> HIDE DEF hs2
  <2> QED BY <1>1, <2>1 DEF TablesOK
<1>4. TablesOK(hs2, handlerOrderMap)
  BY <1>2, <1>3 DEF TablesOK
<1>5. ASSUME NEW l \in Link, l.at \in DOMAIN handlers[l.cls]
      PROVE  l.at \in DOMAIN hs2[l.cls] /\ Kind(hs2, l) = Kind(handlers, l)
  <2>1. l.cls \in HandlerClass
    BY DEF Link
  <2> HIDE DEF hs2
  <2> QED BY <1>1, <1>5, <2>1 DEF Kind
<1>6. ASSUME NEW cs, StackOK(handlers, cs)
      PROVE  StackOK(hs2, cs)
  <2>1. SameKinds(handlers, hs2, cs)
    <3>1. SUFFICES ASSUME NEW i \in DOMAIN cs, NEW k \in DOMAIN cs[i].list
                   PROVE  LET l == cs[i].list[k]
                          IN l.at \in DOMAIN hs2[l.cls] /\ Kind(hs2, l) = Kind(handlers, l)
      BY DEF SameKinds
    <3>2. cs \in Seq(CallRecord) /\ MessageOK(handlers, cs[i])
      BY <1>6 DEF StackOK, CallOK
    <3>3. cs[i] \in CallRecord
      BY <3>2
    <3>4. cs[i].list \in Seq(Link)
      BY <3>3 DEF CallRecord
    <3>5. cs[i].list[k] \in Link
      BY <3>4
    <3>6. cs[i].list[k].at \in DOMAIN handlers[cs[i].list[k].cls]
      BY <3>2 DEF MessageOK, ListOK
    <3> HIDE DEF hs2
    <3> QED BY <1>5, <3>5, <3>6
  <2> HIDE DEF hs2
  <2> QED BY <1>6, <2>1, KindsSame
<1>7. ListOK(hs2, classes, s)
  <2>1. s \in Seq(Link) /\ \A k \in DOMAIN s : s[k] \in Link /\ s[k].at \in DOMAIN handlers[s[k].cls]
    BY DEF ListOK
  <2> HIDE DEF hs2
  <2>2. \A k \in DOMAIN s : s[k].at \in DOMAIN hs2[s[k].cls] /\ Kind(hs2, s[k]) = Kind(handlers, s[k])
    BY <1>5, <2>1
  <2>3. Pairwise(s, Ahead(hs2, classes))
    <3>1. SUFFICES ASSUME NEW j \in DOMAIN s, NEW k \in DOMAIN s, j < k
                   PROVE  <<s[j], s[k]>> \in Ahead(hs2, classes)
      BY DEF Pairwise
    <3>2. <<s[j], s[k]>> \in Ahead(handlers, classes)
      BY <3>1 DEF ListOK, Pairwise
    <3> QED BY <2>2, <3>2 DEF Ahead
  <2> QED BY <2>1, <2>2, <2>3 DEF ListOK
<1> QED BY <1>4, <1>6, <1>7

\* Stacks that differ in their innermost call only: without it or with another.
TopDiffers(cs, cs2, n) ==
    /\ DOMAIN cs2 = (1 .. n) \cup {n + 1}
    /\ DOMAIN cs = 1 .. n \/ DOMAIN cs = (1 .. n) \cup {n + 1}
    /\ \A j \in 1 .. n : cs2[j] = cs[j]
    /\ n + 1 \in DOMAIN cs => ~IsMessage(cs[n + 1])

LEMMA ListsDiffer ==
    ASSUME NEW cs, NEW cs2, NEW n, TopDiffers(cs, cs2, n), NEW c, NEW i
    PROVE  /\ n + 1 \notin Lists(cs, c, i)
           /\ n + 1 \in Lists(cs2, c, i) => Lists(cs2, c, i) = Lists(cs, c, i) \cup {n + 1}
           /\ n + 1 \notin Lists(cs2, c, i) => Lists(cs2, c, i) = Lists(cs, c, i)
<1> DEFINE A == 1 .. n
           m == n + 1
           S == Lists(cs2, c, i)
           T == Lists(cs, c, i)
<1>1. S \subseteq A \cup {m} /\ T \subseteq A \cup {m} /\ m \notin T
  BY DEF Lists, TopDiffers
<1>2. \A j \in A : j \in S <=> j \in T
  BY DEF Lists, TopDiffers
<1> HIDE DEF A, m, S, T
<1>3. ASSUME m \in S
      PROVE  S = T \cup {m}
  <2>1. S \subseteq T \cup {m} /\ T \cup {m} \subseteq S
    BY <1>1, <1>2, <1>3
  <2> QED BY <2>1, Zenon
<1>4. ASSUME m \notin S
      PROVE  S = T
  <2>1. S \subseteq T /\ T \subseteq S
    BY <1>1, <1>2, <1>4
  <2> QED BY <2>1, Zenon
<1> QED BY <1>1, <1>3, <1>4 DEF S, T, m

LEMMA HeldSame ==
    ASSUME NEW hs, NEW cs, BusyOK(hs, cs), NEW cs2, NEW n, TopDiffers(cs, cs2, n),
           ~IsMessage(cs2[n + 1])
    PROVE  BusyOK(hs, cs2)
<1>1. ASSUME NEW c, NEW i
      PROVE  Lists(cs2, c, i) = Lists(cs, c, i)
  <2>1. n + 1 \notin Lists(cs2, c, i)
    BY DEF Lists
  <2> QED BY <2>1, ListsDiffer
<1> QED BY <1>1 DEF BusyOK

\* The calls cs2 list this handler once more, or not.
LEMMA ListsCount ==
    ASSUME NEW cs \in Seq(CallRecord), NEW cs2, NEW n, TopDiffers(cs, cs2, n), IsMessage(cs2[n + 1]),
           NEW c, NEW i
    PROVE  /\ Cardinality(Lists(cs, c, i)) \in Nat
           /\ IsListed(cs2[n + 1].list, c, i) =>
                 Cardinality(Lists(cs2, c, i)) = Cardinality(Lists(cs, c, i)) + 1
           /\ ~IsListed(cs2[n + 1].list, c, i) => Lists(cs2, c, i) = Lists(cs, c, i)
<1> DEFINE T == Lists(cs, c, i)
           m == n + 1
<1>1. IsFiniteSet(T) /\ Cardinality(T) \in Nat
  BY ListsFinite
<1>2. m \in Lists(cs2, c, i) <=> IsListed(cs2[m].list, c, i)
  BY DEF Lists, IsListed, TopDiffers
<1>3. /\ m \notin T
      /\ m \in Lists(cs2, c, i) => Lists(cs2, c, i) = T \cup {m}
      /\ m \notin Lists(cs2, c, i) => Lists(cs2, c, i) = T
  BY ListsDiffer
<1> HIDE DEF T, m
<1>4. Cardinality(T \cup {m}) = Cardinality(T) + 1
  BY <1>1, <1>3, FS_AddElement
<1> QED BY <1>1, <1>2, <1>3, <1>4 DEF T, m

\* How busy a handler of a list is when the list is held, and let go of.
LEMMA HoldCounts ==
    ASSUME TablesOK(handlers, handlerOrderMap), NEW classes \in Seq(HandlerClass),
           NEW s, ListOK(handlers, classes, s), NEW by \in Int,
           NEW c \in HandlerClass, NEW i \in DOMAIN handlers[c]
    PROVE  Hold(s, by)[c][i].busy = IF IsListed(s, c, i) THEN handlers[c][i].busy + by
                                    ELSE handlers[c][i].busy
<1>1. Hold(s, by)[c][i] =
        [handlers[c][i] EXCEPT !.busy = IF IsListed(s, c, i) THEN @ + by ELSE @]
  BY HoldIs
<1>2. handlers[c] \in Seq(Handler)
  BY DEF TablesOK
<1>3. handlers[c][i] \in Handler
  BY <1>2
<1> QED BY <1>1, <1>3 DEF Handler

LEMMA HeldIs ==
    ASSUME TablesOK(handlers, handlerOrderMap), NEW classes \in Seq(HandlerClass),
           NEW s, ListOK(handlers, classes, s), NEW c \in HandlerClass, NEW i \in DOMAIN handlers[c]
    PROVE  /\ Hold(s, 1)[c][i].busy = IF IsListed(s, c, i) THEN handlers[c][i].busy + 1
                                      ELSE handlers[c][i].busy
           /\ Hold(s, -1)[c][i].busy = IF IsListed(s, c, i) THEN handlers[c][i].busy - 1
                                       ELSE handlers[c][i].busy
           /\ \A d \in HandlerClass : /\ DOMAIN Hold(s, 1)[d] = DOMAIN handlers[d]
                                      /\ DOMAIN Hold(s, -1)[d] = DOMAIN handlers[d]
<1>1. ASSUME NEW by \in Int
      PROVE  Hold(s, by)[c][i].busy = IF IsListed(s, c, i) THEN handlers[c][i].busy + by
                                      ELSE handlers[c][i].busy
  BY HoldCounts
<1>2. ASSUME NEW by, NEW d \in HandlerClass
      PROVE  DOMAIN Hold(s, by)[d] = DOMAIN handlers[d]
  BY DEF Hold
<1>3. handlers[c][i].busy \in Nat
  <2>1. handlers[c] \in Seq(Handler)
    BY DEF TablesOK
  <2>2. handlers[c][i] \in Handler
    BY <2>1
  <2> QED BY <2>2 DEF Handler
<1> DEFINE one == 1
           less == -1
<1>4. /\ Hold(s, one)[c][i].busy = IF IsListed(s, c, i) THEN handlers[c][i].busy + one
                                   ELSE handlers[c][i].busy
      /\ Hold(s, less)[c][i].busy = IF IsListed(s, c, i) THEN handlers[c][i].busy + less
                                    ELSE handlers[c][i].busy
  <2>1. one \in Int /\ less \in Int
    OBVIOUS
  <2> HIDE DEF one, less
  <2> QED BY <1>1, <2>1
<1> QED BY <1>2, <1>3, <1>4

\* A message takes hold of its handlers.
LEMMA HeldMore ==
    ASSUME TablesOK(handlers, handlerOrderMap), NEW cs \in Seq(CallRecord), BusyOK(handlers, cs),
           NEW cs2, NEW n, TopDiffers(cs, cs2, n), IsMessage(cs2[n + 1]),
           NEW s, cs2[n + 1].list = s,
           NEW classes \in Seq(HandlerClass), ListOK(handlers, classes, s)
    PROVE  BusyOK(Hold(s, 1), cs2)
<1>1. \A d \in HandlerClass : DOMAIN Hold(s, 1)[d] = DOMAIN handlers[d]
  BY DEF Hold
<1>2. ASSUME NEW c \in HandlerClass, NEW i \in DOMAIN handlers[c]
      PROVE  Hold(s, 1)[c][i].busy = Cardinality(Lists(cs2, c, i))
  <2>1. handlers[c][i].busy = Cardinality(Lists(cs, c, i))
    BY DEF BusyOK
  <2>2. Hold(s, 1)[c][i].busy = IF IsListed(s, c, i) THEN handlers[c][i].busy + 1
                                ELSE handlers[c][i].busy
    BY HeldIs
  <2>3. /\ Cardinality(Lists(cs, c, i)) \in Nat
        /\ IsListed(s, c, i) => Cardinality(Lists(cs2, c, i)) = Cardinality(Lists(cs, c, i)) + 1
        /\ ~IsListed(s, c, i) => Lists(cs2, c, i) = Lists(cs, c, i)
    BY ListsCount
  <2> QED BY <2>1, <2>2, <2>3
<1> QED BY <1>1, <1>2 DEF BusyOK

\* And lets go of them.
LEMMA HeldLess ==
    ASSUME TablesOK(handlers, handlerOrderMap), NEW cs \in Seq(CallRecord),
           NEW cs2, BusyOK(handlers, cs2),
           NEW n, TopDiffers(cs, cs2, n), IsMessage(cs2[n + 1]),
           NEW s, cs2[n + 1].list = s,
           NEW classes \in Seq(HandlerClass), ListOK(handlers, classes, s)
    PROVE  /\ BusyOK(Hold(s, -1), cs)
           /\ \A c \in HandlerClass : \A i \in DOMAIN handlers[c] :
                 IsListed(s, c, i) => handlers[c][i].busy - 1 \in Nat
<1>1. \A d \in HandlerClass : DOMAIN Hold(s, -1)[d] = DOMAIN handlers[d]
  BY DEF Hold
<1>2. ASSUME NEW c \in HandlerClass, NEW i \in DOMAIN handlers[c]
      PROVE  /\ Hold(s, -1)[c][i].busy = Cardinality(Lists(cs, c, i))
             /\ IsListed(s, c, i) => handlers[c][i].busy - 1 \in Nat
  <2>1. handlers[c][i].busy = Cardinality(Lists(cs2, c, i))
    BY DEF BusyOK
  <2>2. Hold(s, -1)[c][i].busy = IF IsListed(s, c, i) THEN handlers[c][i].busy - 1
                                 ELSE handlers[c][i].busy
    BY HeldIs
  <2>3. /\ Cardinality(Lists(cs, c, i)) \in Nat
        /\ IsListed(s, c, i) => Cardinality(Lists(cs2, c, i)) = Cardinality(Lists(cs, c, i)) + 1
        /\ ~IsListed(s, c, i) => Lists(cs2, c, i) = Lists(cs, c, i)
    BY ListsCount
  <2> QED BY <2>1, <2>2, <2>3
<1> QED BY <1>1, <1>2 DEF BusyOK

LEMMA TopFacts ==
    ASSUME MessagesIInv, NEW n, n + 1 = Depth, n \in Nat
    PROVE  /\ n <= Len(calls) /\ Len(calls) = n + 1 /\ calls[n + 1] = Innermost
           /\ Innermost \in CallRecord /\ MessageOK(handlers, Innermost)
           /\ Running(Innermost) => RunsOK(handlers, calls, n + 1)
           /\ ~Running(Innermost) => Innermost.done = {}
           /\ CoreAt(calls, n, Innermost.core)
           /\ CallsOK(handlers, calls, n)
           /\ \A j \in 1 .. n : Running(calls[j]) => calls[j].at.call \in 1 .. j
<1>1. /\ calls \in Seq(CallRecord) /\ Depth = Len(calls) /\ CallsOK(handlers, calls, Depth)
      /\ CallsOK(handlers, calls, n)
  BY StackFacts
<1>2. \A j \in 1 .. n : Running(calls[j]) => calls[j].at.call \in 1 .. j
  <2>1. \A j \in 1 .. n : j \in 1 .. Depth
    OBVIOUS
  <2> QED BY <2>1, StackFacts
<1>3. Innermost = calls[n + 1] /\ n + 1 \in 1 .. Depth /\ n + 1 - 1 = n
  BY DEF Innermost
<1>4. calls[n + 1] \in CallRecord
  BY <1>1
<1>5. CallOK(handlers, calls, n + 1)
  BY <1>1, <1>3 DEF CallsOK
<1>6. CoreAt(calls, n, Innermost.core)
  <2>1. CoreAt(calls, n + 1 - 1, Innermost.core)
    BY <1>3, <1>5 DEF CallOK
  <2> QED BY <1>3, <2>1
<1> QED BY <1>1, <1>2, <1>3, <1>4, <1>5, <1>6 DEF CallOK

LEMMA TopReplaced ==
    ASSUME NEW cs \in Seq(CallRecord), NEW n \in Nat, Len(cs) = n + 1, NEW D \in CallRecord
    PROVE  LET cs2 == [cs EXCEPT ![n + 1] = D]
           IN /\ cs2 \in Seq(CallRecord) /\ Len(cs2) = n + 1 /\ cs2[n + 1] = D
              /\ \A j \in 1 .. n : cs2[j] = cs[j]
              /\ DOMAIN cs2 = (1 .. n) \cup {n + 1} /\ DOMAIN cs = (1 .. n) \cup {n + 1}
OBVIOUS

LEMMA ReadyStep ==
    ASSUME MessagesIInv, Mode = "arguments", NEW list,
           calls' = [calls EXCEPT ![Depth] = [Innermost EXCEPT !.mode = "ready", !.list = list]],
           IF Innermost.kind = "send"
           THEN /\ ListOK(handlers, Precedence[Innermost.receiver], list)
                /\ handlers' = Hold(list, 1)
           ELSE list = << >> /\ handlers' = handlers,
           UNCHANGED <<handlerOrderMap, core, outcome, dangling>>
    PROVE  MessagesIInv'
<1> DEFINE n == Depth - 1
           C == Innermost
           D == [C EXCEPT !.mode = "ready", !.list = list]
<1>1. Depth # 0 /\ C.mode = "arguments"
  BY DEF Mode
<1>2. /\ TablesOK(handlers, handlerOrderMap) /\ StackOK(handlers, calls) /\ BusyOK(handlers, calls)
      /\ core \in Core /\ CoreAt(calls, Len(calls), core) /\ outcome = TRUE /\ dangling = FALSE
  BY DEF MessagesIInv
<1>3. calls \in Seq(CallRecord) /\ n \in Nat /\ n + 1 = Depth /\ Len(calls) = n + 1
  BY <1>1, StackFacts
<1> HIDE DEF n
<1>4. /\ n <= Len(calls) /\ calls[n + 1] = C /\ C \in CallRecord /\ MessageOK(handlers, C)
      /\ CoreAt(calls, n, C.core)
      /\ \A j \in 1 .. n : Running(calls[j]) => calls[j].at.call \in 1 .. j
  BY <1>3, TopFacts
<1>5. ~Running(C) /\ ~IsMessage(C)
  BY <1>1 DEF Running, IsMessage
<1>6. C.done = {}
  BY <1>3, <1>5, TopFacts
<1>7. list \in Seq(Link)
  <2>1. ListOK(handlers, Precedence[C.receiver], list) \/ list = << >>
    OBVIOUS
  <2>2. ListOK(handlers, Precedence[C.receiver], list) => list \in Seq(Link)
    BY DEF ListOK
  <2>3. << >> \in Seq(Link)
    OBVIOUS
  <2> QED BY <2>1, <2>2, <2>3
<1>8. /\ D \in CallRecord /\ D.mode = "ready" /\ D.list = list /\ D.kind = C.kind /\ D.receiver = C.receiver
      /\ D.name = C.name /\ D.core = C.core /\ D.done = C.done
  BY <1>4, <1>7 DEF CallRecord
<1> HIDE DEF D
<1>9. /\ calls' \in Seq(CallRecord) /\ Len(calls') = n + 1 /\ calls'[n + 1] = D
      /\ \A j \in 1 .. n : calls'[j] = calls[j]
      /\ DOMAIN calls' = (1 .. n) \cup {n + 1} /\ DOMAIN calls = (1 .. n) \cup {n + 1}
  <2>1. calls' = [calls EXCEPT ![n + 1] = D]
    BY <1>3 DEF D
  <2> QED BY <1>3, <1>8, <2>1, TopReplaced
<1>10. ~Running(D) /\ (IsMessage(D) <=> C.kind = "send")
  BY <1>8 DEF Running, IsMessage
<1>11. C.kind = "send" => C.receiver \in Receiver /\ Precedence[C.receiver] \in Seq(HandlerClass)
  BY <1>4, MessagesAssumption DEF MessageOK
<1>12. /\ TablesOK(handlers', handlerOrderMap) /\ StackOK(handlers', calls)
       /\ C.kind = "send" => ListOK(handlers', Precedence[C.receiver], list)
  <2>1. CASE C.kind = "send"
    <3>1. \A c \in HandlerClass : \A i \in DOMAIN handlers[c] : handlers[c][i].busy + 1 \in Nat
      <4>1. SUFFICES ASSUME NEW c \in HandlerClass, NEW i \in DOMAIN handlers[c]
                     PROVE  handlers[c][i].busy + 1 \in Nat
        OBVIOUS
      <4>2. handlers[c] \in Seq(Handler)
        BY <1>2 DEF TablesOK
      <4>3. handlers[c][i] \in Handler
        BY <4>2
      <4> QED BY <4>3 DEF Handler
    <3>2. Precedence[C.receiver] \in Seq(HandlerClass) /\ ListOK(handlers, Precedence[C.receiver], list)
      BY <1>11, <2>1
    <3> DEFINE classes == Precedence[C.receiver]
    <3>3. handlers' = Hold(list, 1)
      BY <2>1
    <3> HIDE DEF classes
    <3>4. /\ TablesOK(Hold(list, 1), handlerOrderMap)
          /\ \A cs : StackOK(handlers, cs) => StackOK(Hold(list, 1), cs)
          /\ ListOK(Hold(list, 1), classes, list)
      <4>1. classes \in Seq(HandlerClass) /\ ListOK(handlers, classes, list)
        BY <3>2 DEF classes
      <4> QED BY <1>2, <3>1, <4>1, HeldTables
    <3> QED BY <1>2, <3>3, <3>4 DEF classes
  <2>2. CASE C.kind # "send"
    BY <1>2, <2>2
  <2> QED BY <2>1, <2>2
<1>13. CoreAt(calls', n, C.core)
  BY <1>3, <1>4, <1>9, CoreSame
<1>14. C.kind = "next" => Available(handlers', calls', C.core)
  <2>1. SUFFICES ASSUME C.kind = "next" PROVE Available(handlers', calls', C.core)
    OBVIOUS
  <2>2. n + 1 \in DOMAIN calls /\ \A j \in 1 .. n : j \in DOMAIN calls
    BY <1>3, <1>9
  <2>3. Available(handlers', calls, C.core)
    BY <1>4, <1>5, <1>12, <2>1, <2>2 DEF StackOK, CallOK
  <2>4. CallsOK(handlers', calls, n)
    BY <1>12, <2>2 DEF StackOK, CallsOK
  <2> QED BY <1>3, <1>4, <1>9, <2>3, <2>4, AvailableSame
<1>15. CallOK(handlers', calls', n + 1)
  <2>1. MessageOK(handlers', D)
    <3>1. C.kind = "send" => C.receiver \in Receiver /\ C.name \in MessageName
      BY <1>4 DEF MessageOK
    <3> QED BY <1>8, <1>10, <1>12, <3>1 DEF MessageOK
  <2> QED BY <1>3, <1>6, <1>8, <1>9, <1>10, <1>13, <1>14, <2>1, CallIs
<1>16. StackOK(handlers', calls')
  <2>1. \A j \in n + 1 .. Len(calls') : j = n + 1
    BY <1>3, <1>9
  <2>2. \A j \in n + 1 .. Len(calls') : CallOK(handlers', calls', j)
    BY <1>15, <2>1
  <2> QED BY <1>3, <1>4, <1>9, <1>12, <2>2, StackFrom
<1>17. BusyOK(handlers', calls')
  <2>1. CASE C.kind = "send"
    <3> DEFINE classes == Precedence[C.receiver]
    <3>1. classes \in Seq(HandlerClass) /\ ListOK(handlers, classes, list) /\ handlers' = Hold(list, 1)
      BY <1>11, <2>1
    <3>2. ~IsMessage(calls[n + 1]) /\ IsMessage(calls'[n + 1]) /\ calls'[n + 1].list = list
      BY <1>4, <1>5, <1>8, <1>9, <1>10, <2>1
    <3> HIDE DEF classes
    <3>3. TopDiffers(calls, calls', n)
      BY <1>9, <3>2 DEF TopDiffers
    <3>4. BusyOK(Hold(list, 1), calls')
      BY <1>2, <1>3, <3>1, <3>2, <3>3, HeldMore
    <3> QED BY <3>1, <3>4
  <2>2. CASE C.kind # "send"
    <3>1. ~IsMessage(calls[n + 1]) /\ ~IsMessage(calls'[n + 1]) /\ handlers' = handlers
      BY <1>4, <1>5, <1>9, <1>10, <2>2
    <3>2. TopDiffers(calls, calls', n)
      BY <1>9, <3>1 DEF TopDiffers
    <3>3. BusyOK(handlers, calls')
      BY <1>2, <3>1, <3>2, HeldSame
    <3> QED BY <3>1, <3>3
  <2> QED BY <2>1, <2>2
<1>18. CoreAt(calls', n + 1, core)
  <2>1. CoreAt(calls, n, core)
    <3>1. ~Running(calls[n + 1]) /\ CoreAt(calls, n + 1, core)
      BY <1>2, <1>3, <1>4, <1>5
    <3> QED BY <1>3, <3>1, CoreOver
  <2>2. CoreAt(calls', n, core)
    BY <1>3, <1>4, <1>9, <2>1, CoreSame
  <2>3. ~Running(calls'[n + 1])
    BY <1>9, <1>10
  <2> QED BY <1>3, <2>2, <2>3, CoreOver
<1> QED BY <1>2, <1>9, <1>12, <1>16, <1>17, <1>18 DEF MessagesIInv

LEMMA ArgumentsArePushedStep ==
    ASSUME MessagesIInv, ArgumentsArePushed
    PROVE  MessagesIInv'
<1> DEFINE C == Innermost
           list == IF C.kind = "send" THEN FindApplicableHandlers(Precedence[C.receiver], C.name)
                   ELSE << >>
<1>1. Mode = "arguments" /\ UNCHANGED <<handlerOrderMap, core, outcome, dangling>>
  BY DEF ArgumentsArePushed
<1>2. CASE C.kind = "send" /\ list = << >>
  <2>1. calls' = Front(calls) /\ handlers' = handlers
    BY <1>2 DEF ArgumentsArePushed
  <2> HIDE DEF list, C
  <2> QED BY <1>1, <2>1, GiveUpStep
<1>3. CASE ~(C.kind = "send" /\ list = << >>)
  <2>1. /\ calls' = [calls EXCEPT ![Depth] = [C EXCEPT !.mode = "ready", !.list = list]]
        /\ handlers' = IF C.kind = "send" THEN Hold(list, 1) ELSE handlers
    BY <1>3 DEF ArgumentsArePushed
  <2>2. C.kind = "send" => ListOK(handlers, Precedence[C.receiver], list)
    <3>1. SUFFICES ASSUME C.kind = "send" PROVE ListOK(handlers, Precedence[C.receiver], list)
      OBVIOUS
    <3>2. Depth # 0
      BY <1>1 DEF Mode
    <3>3. MessageOK(handlers, C)
      <4> DEFINE n == Depth - 1
      <4>1. n \in Nat /\ n + 1 = Depth
        BY <3>2, StackFacts
      <4> HIDE DEF n
      <4> QED BY <4>1, TopFacts
    <3>4. C.receiver \in Receiver /\ C.name \in MessageName
      BY <3>1, <3>3 DEF MessageOK
    <3> DEFINE classes == Precedence[C.receiver]
               mname == C.name
    <3>5. classes \in Seq(HandlerClass) /\ IsInjective(classes) /\ mname \in MessageName
      BY <3>4, MessagesAssumption
    <3>6. list = FindApplicableHandlers(classes, mname) /\ list # << >>
      BY <1>3, <3>1
    <3>7. TablesOK(handlers, handlerOrderMap)
      BY DEF MessagesIInv
    <3> HIDE DEF classes, mname, list, C
    <3>8. ListOK(handlers, classes, list)
      BY <3>5, <3>6, <3>7, FindApplicableHandlersIs
    <3> QED BY <3>8 DEF classes
  <2>3. C.kind # "send" => list = << >>
    OBVIOUS
  <2> HIDE DEF list
  <2> QED BY <1>1, <2>1, <2>2, <2>3, ReadyStep
<1> QED BY <1>2, <1>3

-----------------------------------------------------------------------------
(* Handlers begin, and calls return.                                       *)

\* Where the innermost call may go on: a place in its own list, or one behind the
\* handler that it was called from.
Reaches(list, pointer, n) ==
    /\ pointer \in Pointer /\ list \in Seq(Link) /\ pointer.at \in DOMAIN list
    /\ Innermost.kind = "send" => pointer.call = n + 1 /\ list = Innermost.list
    /\ Innermost.kind = "next" => \E j \in 1 .. n : /\ LastRunning(calls, n, j)
                                                    /\ pointer.call = calls[j].at.call
                                                    /\ pointer.at > calls[j].at.at
                                                    /\ list = ListAt(calls, pointer)

\* What a call C in place of the innermost begins at a pointer into a list.
MayBegin(C, list, pointer, n) ==
    /\ C \in CallRecord /\ C.mode \in {"one", "all"}
    /\ C.kind = Innermost.kind /\ C.receiver = Innermost.receiver /\ C.name = Innermost.name
    /\ C.list = Innermost.list /\ C.core = Innermost.core
    /\ Innermost.mode # "arguments"
    /\ Reaches(list, pointer, n)
    /\ C.mode = "all" =>
          C.done \cup {pointer.at} = {k \in WholeOf(handlers, list) : k <= pointer.at}

LEMMA BeginStep ==
    ASSUME MessagesIInv, NEW n \in Nat, n + 1 = Depth, NEW C, NEW list, NEW pointer,
           MayBegin(C, list, pointer, n), Begin(C, list, pointer)
    PROVE  MessagesIInv'
<1> DEFINE D == [C EXCEPT !.at = pointer, !.done = @ \cup {pointer.at}]
<1>1. /\ TablesOK(handlers, handlerOrderMap) /\ StackOK(handlers, calls) /\ BusyOK(handlers, calls)
      /\ outcome = TRUE /\ dangling = FALSE
  BY DEF MessagesIInv
<1>2. /\ n <= Len(calls) /\ Len(calls) = n + 1 /\ calls[n + 1] = Innermost
      /\ Innermost \in CallRecord /\ MessageOK(handlers, Innermost)
      /\ CoreAt(calls, n, Innermost.core) /\ CallsOK(handlers, calls, n)
      /\ \A j \in 1 .. n : Running(calls[j]) => calls[j].at.call \in 1 .. j
  BY TopFacts
<1>3. calls \in Seq(CallRecord)
  BY StackFacts
<1>4. /\ C \in CallRecord /\ C.mode \in {"one", "all"}
      /\ C.kind = Innermost.kind /\ C.receiver = Innermost.receiver /\ C.name = Innermost.name
      /\ C.list = Innermost.list /\ C.core = Innermost.core /\ Innermost.mode # "arguments"
      /\ pointer \in Pointer /\ list \in Seq(Link) /\ pointer.at \in DOMAIN list
  BY DEF MayBegin, Reaches
<1>5. /\ D \in CallRecord /\ D.mode = C.mode /\ D.kind = C.kind /\ D.receiver = C.receiver
      /\ D.name = C.name /\ D.list = C.list /\ D.core = C.core /\ D.at = pointer
      /\ D.done = C.done \cup {pointer.at}
  <2>1. pointer.at \in Nat
    BY <1>4 DEF Pointer
  <2> QED BY <1>4, <2>1 DEF CallRecord
<1>6. /\ calls' = [calls EXCEPT ![n + 1] = D]
      /\ core' = [current |-> pointer, next |-> Behind(list, pointer)]
      /\ handlers' = handlers /\ handlerOrderMap' = handlerOrderMap
      /\ outcome' = outcome /\ dangling' = dangling
  BY DEF Begin
<1> HIDE DEF D
<1>7. /\ calls' \in Seq(CallRecord) /\ Len(calls') = n + 1 /\ calls'[n + 1] = D
      /\ \A j \in 1 .. n : calls'[j] = calls[j]
      /\ DOMAIN calls' = (1 .. n) \cup {n + 1} /\ DOMAIN calls = (1 .. n) \cup {n + 1}
  BY <1>2, <1>3, <1>5, <1>6, TopReplaced
<1>8. Running(D) /\ (IsMessage(D) <=> D.kind = "send") /\ (IsMessage(D) <=> IsMessage(Innermost))
  BY <1>4, <1>5 DEF Running, IsMessage
<1>9. CoreAt(calls', n, D.core)
  <2>1. CoreAt(calls, n, D.core)
    BY <1>2, <1>4, <1>5
  <2> QED BY <1>2, <1>7, <2>1, CoreSame
<1>10. /\ pointer.call \in 1 .. n + 1 /\ IsMessage(calls'[pointer.call])
       /\ ListAt(calls', pointer) = list
       /\ D.kind = "send" => pointer.call = n + 1
       /\ D.kind = "next" => \E j \in 1 .. n : /\ LastRunning(calls', n, j)
                                               /\ pointer.call = calls'[j].at.call
                                               /\ pointer.at > calls'[j].at.at
  <2>1. CASE D.kind = "send"
    <3>1. pointer.call = n + 1 /\ list = D.list
      BY <1>4, <1>5, <2>1 DEF Reaches, MayBegin
    <3>2. n + 1 \in 1 .. n + 1
      OBVIOUS
    <3> QED BY <1>7, <1>8, <2>1, <3>1, <3>2 DEF ListAt
  <2>2. CASE D.kind = "next"
    <3>1. PICK j \in 1 .. n : /\ LastRunning(calls, n, j)
                              /\ pointer.call = calls[j].at.call
                              /\ pointer.at > calls[j].at.at
                              /\ list = ListAt(calls, pointer)
      BY <1>4, <1>5, <2>2 DEF Reaches, MayBegin
    <3>2. RunsOK(handlers, calls, j)
      BY <1>2, <3>1 DEF LastRunning, CallOK, CallsOK
    <3>3. pointer.call \in 1 .. j /\ IsMessage(calls[pointer.call])
      BY <3>1, <3>2 DEF RunsOK
    <3>4. pointer.call \in 1 .. n /\ pointer.call \in 1 .. n + 1
      BY <3>3
    <3>5. calls'[pointer.call] = calls[pointer.call] /\ calls'[j] = calls[j]
      BY <1>7, <3>4
    <3>6. LastRunning(calls', n, j)
      BY <1>7, <3>1, LastRunningSame
    <3> QED BY <2>2, <3>1, <3>3, <3>4, <3>5, <3>6 DEF ListAt
  <2>3. D.kind \in {"send", "next"}
    BY <1>5 DEF CallRecord
  <2> QED BY <2>1, <2>2, <2>3
<1>11. D.mode = "all" => D.done = {k \in WholeOf(handlers, list) : k <= pointer.at}
  BY <1>5 DEF MayBegin
<1>12. CallOK(handlers, calls', n + 1)
  <2>1. MessageOK(handlers, D)
    BY <1>2, <1>4, <1>5, <1>8 DEF MessageOK
  <2>2. RunsOK(handlers, calls', n + 1)
    <3>1. n + 1 - 1 = n
      OBVIOUS
    <3>2. D.kind = "next" => \E j \in 1 .. n + 1 - 1 : /\ LastRunning(calls', n + 1 - 1, j)
                                                       /\ pointer.call = calls'[j].at.call
                                                       /\ pointer.at > calls'[j].at.at
      BY <1>10, <3>1
    <3> QED BY <1>4, <1>5, <1>7, <1>10, <1>11, <3>2 DEF RunsOK
  <2> QED BY <1>7, <1>8, <1>9, <2>1, <2>2, CallIs
<1>13. StackOK(handlers, calls')
  <2>1. \A j \in n + 1 .. Len(calls') : j = n + 1
    BY <1>7
  <2>2. \A j \in n + 1 .. Len(calls') : CallOK(handlers, calls', j)
    BY <1>12, <2>1
  <2> QED BY <1>1, <1>2, <1>7, <2>2, StackFrom
<1>14. BusyOK(handlers, calls')
  <2>1. ASSUME NEW c, NEW i
        PROVE  Lists(calls', c, i) = Lists(calls, c, i)
    BY <1>2, <1>4, <1>5, <1>7, <1>8 DEF Lists
  <2> QED BY <1>1, <2>1 DEF BusyOK
<1>15. core' \in Core
  <2>1. Behind(list, pointer) \in Pointer
    BY <1>4 DEF Behind, Place, Nowhere, Pointer
  <2> QED BY <1>4, <1>6, <2>1 DEF Core
<1>16. CoreAt(calls', n + 1, core')
  <2>1. core' = CoreOf(calls', n + 1)
    BY <1>5, <1>6, <1>7, <1>10 DEF CoreOf
  <2>2. n + 1 \in Nat \ {0} /\ Running(calls'[n + 1])
    BY <1>7, <1>8
  <2> QED BY <2>1, <2>2, CoreTop
<1> QED BY <1>1, <1>6, <1>7, <1>13, <1>14, <1>15, <1>16 DEF MessagesIInv

LEMMA HeldBelow ==
    ASSUME NEW hs, NEW cs, NEW cs2, BusyOK(hs, cs2), NEW n, TopDiffers(cs, cs2, n),
           ~IsMessage(cs2[n + 1])
    PROVE  BusyOK(hs, cs)
<1>1. ASSUME NEW c, NEW i
      PROVE  Lists(cs2, c, i) = Lists(cs, c, i)
  <2>1. n + 1 \notin Lists(cs2, c, i)
    BY DEF Lists
  <2> QED BY <2>1, ListsDiffer
<1> QED BY <1>1 DEF BusyOK

LEMMA LetGo ==
    ASSUME TablesOK(handlers, handlerOrderMap), NEW classes \in Seq(HandlerClass),
           NEW s, ListOK(handlers, classes, s),
           \A c \in HandlerClass : \A i \in DOMAIN handlers[c] :
              IsListed(s, c, i) => handlers[c][i].busy - 1 \in Nat
    PROVE  /\ TablesOK(Hold(s, -1), handlerOrderMap)
           /\ \A cs : StackOK(handlers, cs) => StackOK(Hold(s, -1), cs)
<1> DEFINE less == -1
<1>1. less \in Int
  OBVIOUS
<1>2. ASSUME NEW c \in HandlerClass, NEW i \in DOMAIN handlers[c], IsListed(s, c, i)
      PROVE  handlers[c][i].busy + less \in Nat
  <2>1. handlers[c] \in Seq(Handler)
    BY DEF TablesOK
  <2>2. handlers[c][i] \in Handler
    BY <2>1
  <2>3. handlers[c][i].busy \in Nat /\ handlers[c][i].busy - 1 \in Nat
    BY <1>2, <2>2 DEF Handler
  <2> QED BY <2>3
<1> HIDE DEF less
<1>3. TablesOK(Hold(s, less), handlerOrderMap)
  BY <1>1, <1>2, HeldTables
<1>4. \A cs : StackOK(handlers, cs) => StackOK(Hold(s, less), cs)
  BY <1>1, <1>2, HeldTables
<1> QED BY <1>3, <1>4 DEF less

\* A call C in place of the innermost may return, with the list it ran.
MayReturn(C, list) ==
    /\ C.kind = Innermost.kind /\ C.core = Innermost.core /\ Innermost.mode # "arguments"
    /\ C.kind = "send" => list = Innermost.list
    /\ C.mode # "all" \/ flags # "none" \/ C.done = WholeOf(handlers, list)

LEMMA ReturnStep ==
    ASSUME MessagesIInv, NEW n \in Nat, n + 1 = Depth, NEW C, NEW list,
           MayReturn(C, list), ReturnCall(C, list)
    PROVE  MessagesIInv'
<1>1. /\ TablesOK(handlers, handlerOrderMap) /\ StackOK(handlers, calls) /\ BusyOK(handlers, calls)
      /\ outcome = TRUE /\ dangling = FALSE
  BY DEF MessagesIInv
<1>2. /\ n <= Len(calls) /\ Len(calls) = n + 1 /\ calls[n + 1] = Innermost
      /\ Innermost \in CallRecord /\ MessageOK(handlers, Innermost)
      /\ CoreAt(calls, n, Innermost.core)
      /\ \A j \in 1 .. n : Running(calls[j]) => calls[j].at.call \in 1 .. j
  BY TopFacts
<1>3. calls \in Seq(CallRecord)
  BY StackFacts
<1>4. /\ C.kind = Innermost.kind /\ C.core = Innermost.core /\ Innermost.mode # "arguments"
      /\ C.kind = "send" => list = Innermost.list
      /\ C.mode # "all" \/ flags # "none" \/ C.done = WholeOf(handlers, list)
  BY DEF MayReturn
<1>5. /\ calls' = Front(calls) /\ core' = C.core
      /\ handlers' = IF C.kind = "send" THEN Hold(list, -1) ELSE handlers
      /\ outcome' = (C.mode # "all" \/ flags # "none" \/ C.done = Whole(list))
      /\ handlerOrderMap' = handlerOrderMap /\ dangling' = dangling
  BY DEF ReturnCall
<1>6. /\ StackOK(handlers, calls') /\ Len(calls') = n /\ \A j \in 1 .. n : calls'[j] = calls[j]
  <2>1. Len(calls) > 0 /\ Len(calls) - 1 = n
    BY <1>2
  <2> QED BY <1>1, <1>5, <2>1, PopKeeps
<1>7. calls' \in Seq(CallRecord) /\ DOMAIN calls' = 1 .. n /\ DOMAIN calls = (1 .. n) \cup {n + 1}
  BY <1>2, <1>3, <1>6 DEF StackOK
<1>8. TopDiffers(calls', calls, n)
  <2>1. n + 1 \notin DOMAIN calls'
    BY <1>7
  <2> QED BY <1>6, <1>7, <2>1 DEF TopDiffers
<1>9. core' \in Core /\ CoreAt(calls', n, core')
  <2>1. Innermost.core \in Core
    BY <1>2 DEF CallRecord
  <2>2. CoreAt(calls', n, Innermost.core)
    BY <1>2, <1>6, CoreSame
  <2> QED BY <1>4, <1>5, <2>1, <2>2
<1>10. outcome' = TRUE
  BY <1>4, <1>5, KindsAre
<1>11. TablesOK(handlers', handlerOrderMap) /\ StackOK(handlers', calls') /\ BusyOK(handlers', calls')
  <2>1. CASE C.kind = "send"
    <3> DEFINE classes == Precedence[Innermost.receiver]
    <3>1. IsMessage(Innermost)
      BY <1>4, <2>1 DEF IsMessage
    <3>2. ListOK(handlers, classes, list) /\ Innermost.receiver \in Receiver /\ Innermost.list = list
      BY <1>2, <1>4, <2>1, <3>1 DEF MessageOK
    <3>3. classes \in Seq(HandlerClass)
      BY <3>2, MessagesAssumption
    <3>4. handlers' = Hold(list, -1)
      BY <1>5, <2>1
    <3> HIDE DEF classes
    <3>5. /\ BusyOK(Hold(list, -1), calls')
          /\ \A c \in HandlerClass : \A i \in DOMAIN handlers[c] :
                IsListed(list, c, i) => handlers[c][i].busy - 1 \in Nat
      BY <1>1, <1>2, <1>7, <1>8, <3>1, <3>2, <3>3, HeldLess
    <3>6. /\ TablesOK(Hold(list, -1), handlerOrderMap)
          /\ \A cs : StackOK(handlers, cs) => StackOK(Hold(list, -1), cs)
      BY <1>1, <3>2, <3>3, <3>5, LetGo
    <3> QED BY <1>6, <3>4, <3>5, <3>6
  <2>2. CASE C.kind # "send"
    <3>1. ~IsMessage(calls[n + 1])
      BY <1>2, <1>4, <2>2 DEF IsMessage
    <3>2. BusyOK(handlers, calls')
      BY <1>1, <1>8, <3>1, HeldBelow
    <3> QED BY <1>1, <1>5, <1>6, <2>2, <3>2
  <2> QED BY <2>1, <2>2
<1> QED BY <1>1, <1>5, <1>6, <1>9, <1>10, <1>11 DEF MessagesIInv

-----------------------------------------------------------------------------
(* Through a list.                                                         *)

\* The handlers of a list that CallHandlers has run when it is at m.
Begun(s, m) == {k \in WholeOf(handlers, s) : k <= m}

LEMMA ListKinds ==
    ASSUME TablesOK(handlers, handlerOrderMap), NEW classes, NEW s, ListOK(handlers, classes, s)
    PROVE  /\ s \in Seq(Link)
           /\ \A k \in DOMAIN s : Kind(handlers, s[k]) \in HandlerType
           /\ \A j, k \in DOMAIN s : j < k => /\ Rank(Kind(handlers, s[j])) \in 1 .. 4
                                              /\ Rank(Kind(handlers, s[k])) \in 1 .. 4
                                              /\ Rank(Kind(handlers, s[j])) <= Rank(Kind(handlers, s[k]))
           /\ \E k \in DOMAIN s : Kind(handlers, s[k]) = "primary"
<1>1. /\ s \in Seq(Link) /\ \A k \in DOMAIN s : s[k] \in Link /\ s[k].at \in DOMAIN handlers[s[k].cls]
      /\ \E k \in DOMAIN s : Kind(handlers, s[k]) = "primary"
  BY DEF ListOK
<1>2. \A k \in DOMAIN s : Kind(handlers, s[k]) \in HandlerType
  BY <1>1, KindTyped
<1>3. \A t : Rank(t) \in 1 .. 4
  BY DEF Rank
<1>4. ASSUME NEW j \in DOMAIN s, NEW k \in DOMAIN s, j < k
      PROVE  Rank(Kind(handlers, s[j])) <= Rank(Kind(handlers, s[k]))
  <2>1. <<s[j], s[k]>> \in Ahead(handlers, classes)
    BY <1>4 DEF ListOK, Pairwise
  <2>2. \/ Rank(Kind(handlers, s[j])) < Rank(Kind(handlers, s[k]))
        \/ Kind(handlers, s[j]) = Kind(handlers, s[k])
    BY <2>1 DEF Ahead
  <2> QED BY <1>3, <2>2
<1> QED BY <1>1, <1>2, <1>3, <1>4

\* The order of the types, in their names.
LEMMA KindsFollow ==
    ASSUME TablesOK(handlers, handlerOrderMap), NEW classes, NEW s, ListOK(handlers, classes, s),
           NEW j \in DOMAIN s, NEW k \in DOMAIN s, j < k
    PROVE  /\ Kind(handlers, s[j]) = "before" => Kind(handlers, s[k]) # "around"
           /\ Kind(handlers, s[j]) = "primary" => Kind(handlers, s[k]) \in {"primary", "after"}
           /\ Kind(handlers, s[j]) = "after" => Kind(handlers, s[k]) = "after"
<1> DEFINE a == Kind(handlers, s[j])
           b == Kind(handlers, s[k])
<1>1. Rank(a) <= Rank(b) /\ a \in HandlerType /\ b \in HandlerType
  BY ListKinds
<1> HIDE DEF a, b
<1>2. /\ a = "before" => b # "around"
      /\ a = "primary" => b \in {"primary", "after"}
      /\ a = "after" => b = "after"
  BY <1>1 DEF Rank, HandlerType
<1> QED BY <1>2 DEF a, b

\* Where CallHandlers begins.
LEMMA FirstBegun ==
    ASSUME TablesOK(handlers, handlerOrderMap), NEW classes, NEW s, ListOK(handlers, classes, s),
           NEW p \in DOMAIN s, Kind(handlers, s[p]) # "around",
           \A k \in DOMAIN s : k < p => Kind(handlers, s[k]) = "around"
    PROVE  Kind(handlers, s[p]) \in {"before", "primary"} /\ {p} = Begun(s, p)
<1> DEFINE K(k) == Kind(handlers, s[k])
<1>1. s \in Seq(Link) /\ p \in Nat /\ K(p) \in HandlerType
  BY ListKinds
<1>2. PICK q \in DOMAIN s : K(q) = "primary"
  BY ListKinds
<1>3. K(p) \in {"before", "primary"}
  <2>1. ~(q < p)
    BY <1>2
  <2>2. K(p) # "after"
    <3>1. CASE q = p
      BY <1>2, <3>1
    <3>2. CASE p < q
      BY <1>2, <3>2, KindsFollow
    <3>3. q \in Nat
      BY <1>1
    <3> QED BY <1>1, <2>1, <3>1, <3>2, <3>3
  <2> QED BY <1>1, <2>2 DEF HandlerType
<1>4. p = 1 \/ K(p - 1) # "primary"
  <2>1. p # 1 => p - 1 \in DOMAIN s /\ p - 1 < p
    BY <1>1
  <2> QED BY <2>1
<1>5. p \in WholeOf(handlers, s)
  BY <1>3, <1>4 DEF WholeOf
<1>6. ASSUME NEW k \in WholeOf(handlers, s), k <= p
      PROVE  k = p
  <2>1. k \in DOMAIN s /\ K(k) # "around" /\ k \in Nat
    BY <1>1 DEF WholeOf
  <2> QED BY <1>1, <1>6, <2>1
<1>7. p <= p
  BY <1>1
<1> QED BY <1>3, <1>5, <1>6, <1>7 DEF Begun

\* How it goes on: behind a before handler, ...
LEMMA BeforeGoesOn ==
    ASSUME TablesOK(handlers, handlerOrderMap), NEW classes, NEW s, ListOK(handlers, classes, s),
           NEW p \in DOMAIN s, Kind(handlers, s[p]) = "before"
    PROVE  /\ p + 1 \in DOMAIN s /\ Kind(handlers, s[p + 1]) \in {"before", "primary"}
           /\ Begun(s, p) \cup {p + 1} = Begun(s, p + 1)
<1> DEFINE K(k) == Kind(handlers, s[k])
<1>1. s \in Seq(Link) /\ p \in Nat
  BY ListKinds
<1>2. PICK q \in DOMAIN s : K(q) = "primary"
  BY ListKinds
<1>3. q \in Nat /\ p < q
  <2>1. q \in Nat /\ q # p
    BY <1>1, <1>2
  <2>2. ~(q < p)
    BY <1>2, KindsFollow
  <2> QED BY <1>1, <2>1, <2>2
<1>4. p + 1 \in DOMAIN s /\ p < p + 1 /\ K(p + 1) \in HandlerType
  <2>1. p + 1 \in DOMAIN s
    BY <1>1, <1>3
  <2> QED BY <1>1, <2>1, ListKinds
<1>5. K(p + 1) # "around"
  BY <1>4, KindsFollow
<1>6. K(p + 1) # "after"
  <2>1. CASE q = p + 1
    BY <1>2, <2>1
  <2>2. CASE p + 1 < q
    BY <1>2, <1>4, <2>2, KindsFollow
  <2> QED BY <1>1, <1>3, <2>1, <2>2
<1>7. K(p + 1) \in {"before", "primary"}
  BY <1>4, <1>5, <1>6 DEF HandlerType
<1>8. p + 1 \in WholeOf(handlers, s)
  <2> DEFINE r == p + 1
  <2>1. r - 1 = p /\ r \in DOMAIN s /\ K(r) \in {"before", "primary"}
    BY <1>1, <1>4, <1>7
  <2> HIDE DEF r
  <2>2. K(r - 1) # "primary"
    BY <2>1
  <2>3. r \in WholeOf(handlers, s)
    BY <2>1, <2>2 DEF WholeOf
  <2> QED BY <2>3 DEF r
<1>9. \A k \in WholeOf(handlers, s) : k \in Nat
  BY <1>1 DEF WholeOf
<1> QED BY <1>1, <1>4, <1>7, <1>8, <1>9 DEF Begun

\* ... behind the primary handlers, ...
LEMMA PrimaryGoesOn ==
    ASSUME TablesOK(handlers, handlerOrderMap), NEW classes, NEW s, ListOK(handlers, classes, s),
           NEW p \in DOMAIN s, Kind(handlers, s[p]) = "primary"
    PROVE  LET others == {k \in DOMAIN s : k >= p + 1 /\ Kind(handlers, s[k]) # "primary"}
               m == Lowest(others)
           IN /\ others = {} => Begun(s, p) = WholeOf(handlers, s)
              /\ others # {} => /\ m \in DOMAIN s /\ m > p /\ Kind(handlers, s[m]) = "after"
                                /\ Begun(s, p) \cup {m} = Begun(s, m)
<1> DEFINE K(k) == Kind(handlers, s[k])
           others == {k \in DOMAIN s : k >= p + 1 /\ K(k) # "primary"}
           m == Lowest(others)
<1>1. s \in Seq(Link) /\ p \in Nat /\ \A k \in DOMAIN s : k \in Nat
  BY ListKinds
\* the shadowed ones are not run
<1>2. ASSUME NEW k \in WholeOf(handlers, s), k > p, K(k) = "primary"
      PROVE  \E x \in others : x < k
  <2>1. k \in DOMAIN s /\ k \in Nat /\ K(k - 1) # "primary" /\ k # 1
    BY <1>1, <1>2 DEF WholeOf
  <2>2. k - 1 \in DOMAIN s
    BY <1>1, <2>1
  <2>3. k - 1 # p /\ k - 1 >= p + 1
    BY <1>1, <1>2, <2>1
  <2> QED BY <2>1, <2>2, <2>3
<1>3. ASSUME others = {}
      PROVE  Begun(s, p) = WholeOf(handlers, s)
  <2>1. ASSUME NEW k \in WholeOf(handlers, s) PROVE k <= p
    <3>1. k \in DOMAIN s /\ k \in Nat
      BY <1>1 DEF WholeOf
    <3>2. SUFFICES ASSUME k > p PROVE FALSE
      BY <1>1, <3>1
    <3>3. K(k) = "primary"
      BY <1>1, <1>3, <3>1, <3>2
    <3> QED BY <1>2, <1>3, <3>2, <3>3
  <2> QED BY <2>1 DEF Begun
<1>4. ASSUME others # {}
      PROVE  /\ m \in DOMAIN s /\ m > p /\ K(m) = "after"
             /\ Begun(s, p) \cup {m} = Begun(s, m)
  <2>1. m \in others /\ \A x \in others : m <= x
    <3>1. others \subseteq Nat
      BY <1>1
    <3> HIDE DEF others
    <3> QED BY <1>4, <3>1, LowestIs
  <2>2. m \in DOMAIN s /\ m >= p + 1 /\ K(m) # "primary" /\ m \in Nat
    <3>1. m \in DOMAIN s /\ m >= p + 1 /\ K(m) # "primary"
      <4> HIDE DEF m
      <4> QED BY <2>1
    <3> QED BY <1>1, <3>1
  <2> HIDE DEF m
  <2>3. m > p
    BY <1>1, <2>2
  <2>4. K(m) = "after"
    BY <2>2, <2>3, KindsFollow
  <2>5. m \in WholeOf(handlers, s)
    BY <2>2, <2>4 DEF WholeOf
  <2>6. ASSUME NEW k \in WholeOf(handlers, s), k <= m, ~(k <= p)
        PROVE  k = m
    <3>1. k \in DOMAIN s /\ k \in Nat
      BY <1>1 DEF WholeOf
    <3>2. k > p
      BY <1>1, <2>6, <3>1
    <3>3. SUFFICES ASSUME k < m PROVE FALSE
      BY <2>2, <2>6, <3>1
    <3>4. K(k) = "primary"
      <4>1. k \notin others
        BY <2>1, <2>2, <3>1, <3>3
      <4>2. k >= p + 1
        BY <1>1, <3>1, <3>2
      <4> QED BY <3>1, <4>1, <4>2
    <3>5. PICK x \in others : x < k
      BY <1>2, <3>2, <3>4
    <3>6. m <= x /\ x \in Nat
      BY <1>1, <2>1, <3>5
    <3> QED BY <2>2, <3>1, <3>3, <3>5, <3>6
  <2>7. \A k \in WholeOf(handlers, s) : k <= p => k <= m
    <3>1. \A k \in WholeOf(handlers, s) : k \in Nat
      BY <1>1 DEF WholeOf
    <3> QED BY <1>1, <2>2, <2>3, <3>1
  <2>8. Begun(s, p) \cup {m} = Begun(s, m)
    BY <2>2, <2>5, <2>6, <2>7 DEF Begun
  <2> QED BY <2>2, <2>3, <2>4, <2>8
<1> QED BY <1>3, <1>4

\* ... and through the after handlers.
LEMMA AfterGoesOn ==
    ASSUME TablesOK(handlers, handlerOrderMap), NEW classes, NEW s, ListOK(handlers, classes, s),
           NEW p \in DOMAIN s, Kind(handlers, s[p]) = "after"
    PROVE  /\ p = Len(s) => Begun(s, p) = WholeOf(handlers, s)
           /\ p < Len(s) => /\ p + 1 \in DOMAIN s /\ Kind(handlers, s[p + 1]) = "after"
                            /\ Begun(s, p) \cup {p + 1} = Begun(s, p + 1)
<1>1. s \in Seq(Link) /\ p \in Nat
  BY ListKinds
<1>2. \A k \in WholeOf(handlers, s) : k \in Nat /\ k <= Len(s)
  BY <1>1 DEF WholeOf
<1>3. ASSUME p = Len(s) PROVE Begun(s, p) = WholeOf(handlers, s)
  BY <1>2, <1>3 DEF Begun
<1>4. ASSUME p < Len(s)
      PROVE  /\ p + 1 \in DOMAIN s /\ Kind(handlers, s[p + 1]) = "after"
             /\ Begun(s, p) \cup {p + 1} = Begun(s, p + 1)
  <2>1. p + 1 \in DOMAIN s /\ p < p + 1
    BY <1>1, <1>4
  <2>2. Kind(handlers, s[p + 1]) = "after"
    BY <2>1, KindsFollow
  <2>3. p + 1 \in WholeOf(handlers, s)
    BY <2>1, <2>2 DEF WholeOf
  <2> QED BY <1>1, <1>2, <2>1, <2>2, <2>3 DEF Begun
<1> QED BY <1>3, <1>4

LEMMA MessageList ==
    ASSUME MessagesIInv, NEW i \in DOMAIN calls, IsMessage(calls[i])
    PROVE  ListOK(handlers, Precedence[calls[i].receiver], calls[i].list)
BY DEF MessagesIInv, StackOK, CallOK, MessageOK

\* A call C in place of the innermost goes on with CallHandlers.
LEMMA GoOnStep ==
    ASSUME MessagesIInv, NEW n \in Nat, n + 1 = Depth, NEW C, NEW list, NEW next, NEW types,
           C \in CallRecord, C.mode = "all",
           C.kind = Innermost.kind, C.receiver = Innermost.receiver, C.name = Innermost.name,
           C.list = Innermost.list, C.core = Innermost.core,
           Innermost.mode # "arguments",
           C.kind = "send" => list = Innermost.list,
           next = Nowhere => C.done = WholeOf(handlers, list),
           next # Nowhere => /\ Reaches(list, next, n) /\ Kind(handlers, list[next.at]) \in types
                             /\ C.done \cup {next.at} = Begun(list, next.at),
           CallHandlers(C, list, next, types)
    PROVE  MessagesIInv'
<1>1. TypeIn(list, next.at) = Kind(handlers, list[next.at])
  BY KindsAre
<1>2. CASE flags = "none" /\ next # Nowhere
  <2>1. Begin(C, list, next)
    BY <1>1, <1>2 DEF CallHandlers
  <2>2. MayBegin(C, list, next, n)
    BY <1>2 DEF MayBegin, Begun
  <2> QED BY <2>1, <2>2, BeginStep
<1>3. CASE ~(flags = "none" /\ next # Nowhere)
  <2>1. ReturnCall(C, list)
    BY <1>3 DEF CallHandlers
  <2>2. MayReturn(C, list)
    BY <1>3 DEF MayReturn
  <2> QED BY <2>1, <2>2, ReturnStep
<1> QED BY <1>2, <1>3

\* A call begins at a place in a list, alone or with what CallHandlers runs from there.
LEMMA EnterAt ==
    ASSUME MessagesIInv, NEW n \in Nat, n + 1 = Depth, Innermost.mode = "ready",
           NEW list, NEW next, NEW classes, ListOK(handlers, classes, list),
           Reaches(list, next, n), next # Nowhere,
           \/ Begin([Innermost EXCEPT !.mode = "one"], list, next)
           \/ /\ CallHandlers([Innermost EXCEPT !.mode = "all"], list, next, {"before", "primary"})
              /\ Kind(handlers, list[next.at]) # "around"
              /\ \A k \in DOMAIN list : k < next.at => Kind(handlers, list[k]) = "around"
    PROVE  MessagesIInv'
<1>1. Innermost \in CallRecord /\ (~Running(Innermost) => Innermost.done = {})
  BY TopFacts
<1>2. Innermost.done = {}
  BY <1>1 DEF Running
<1>3. CASE Begin([Innermost EXCEPT !.mode = "one"], list, next)
  <2> DEFINE C == [Innermost EXCEPT !.mode = "one"]
  <2>1. /\ C \in CallRecord /\ C.mode = "one" /\ C.kind = Innermost.kind /\ C.receiver = Innermost.receiver
        /\ C.name = Innermost.name /\ C.list = Innermost.list /\ C.core = Innermost.core
    BY <1>1 DEF CallRecord
  <2>2. Begin(C, list, next)
    BY <1>3
  <2> HIDE DEF C
  <2>3. MayBegin(C, list, next, n)
    BY <2>1 DEF MayBegin
  <2> QED BY <2>2, <2>3, BeginStep
<1>4. CASE /\ CallHandlers([Innermost EXCEPT !.mode = "all"], list, next, {"before", "primary"})
           /\ Kind(handlers, list[next.at]) # "around"
           /\ \A k \in DOMAIN list : k < next.at => Kind(handlers, list[k]) = "around"
  <2> DEFINE C == [Innermost EXCEPT !.mode = "all"]
             p == next.at
             types == {"before", "primary"}
  <2>1. /\ C \in CallRecord /\ C.mode = "all" /\ C.kind = Innermost.kind /\ C.receiver = Innermost.receiver
        /\ C.name = Innermost.name /\ C.list = Innermost.list /\ C.core = Innermost.core
        /\ C.done = {}
    BY <1>1, <1>2 DEF CallRecord
  <2>2. CallHandlers(C, list, next, types)
    BY <1>4
  <2>3. p \in DOMAIN list
    BY DEF Reaches
  <2>4. TablesOK(handlers, handlerOrderMap)
    BY DEF MessagesIInv
  <2>5. Kind(handlers, list[p]) \in {"before", "primary"} /\ {p} = Begun(list, p)
    <3>1. /\ Kind(handlers, list[p]) # "around"
          /\ \A k \in DOMAIN list : k < p => Kind(handlers, list[k]) = "around"
      BY <1>4
    <3> HIDE DEF p
    <3> QED BY <2>3, <2>4, <3>1, FirstBegun
  <2>6. C.kind = "send" => list = Innermost.list
    BY <2>1 DEF Reaches
  <2>7. C.done \cup {next.at} = Begun(list, next.at) /\ Kind(handlers, list[next.at]) \in types
    BY <2>1, <2>5
  <2> HIDE DEF C, types
  <2> QED BY <2>1, <2>2, <2>6, <2>7, GoOnStep
<1> QED BY <1>3, <1>4

LEMMA EnterStep ==
    ASSUME MessagesIInv, Enter
    PROVE  MessagesIInv'
<1> DEFINE C == Innermost
           n == Depth - 1
           next == IF C.kind = "send" THEN Place(Depth, 1) ELSE core.next
           list == IF C.kind = "send" THEN C.list ELSE calls[next.call].list
<1>1. /\ Mode = "ready"
      /\ IF \/ TypeIn(list, next.at) = "around"
            \/ C.kind = "next" /\ TypeIn(list, core.current.at) = "primary"
         THEN Begin([C EXCEPT !.mode = "one"], list, next)
         ELSE CallHandlers([C EXCEPT !.mode = "all"], list, next, {"before", "primary"})
  BY DEF Enter
<1>2. Depth # 0 /\ C.mode = "ready"
  BY <1>1 DEF Mode
<1>3. calls \in Seq(CallRecord) /\ n \in Nat /\ n + 1 = Depth
  BY <1>2, StackFacts
<1> HIDE DEF n
<1>4. /\ n <= Len(calls) /\ Len(calls) = n + 1 /\ calls[n + 1] = C /\ C \in CallRecord
      /\ CoreAt(calls, n, C.core) /\ CallsOK(handlers, calls, n)
      /\ \A j \in 1 .. n : Running(calls[j]) => calls[j].at.call \in 1 .. j
  BY <1>3, TopFacts
<1>5. TablesOK(handlers, handlerOrderMap) /\ CoreAt(calls, n + 1, core)
  BY <1>4 DEF MessagesIInv
<1>6. CASE C.kind = "send"
  <2>1. next = Place(Depth, 1) /\ list = C.list
    BY <1>6
  <2> HIDE DEF next, list
  <2>2. ListOK(handlers, Precedence[C.receiver], list)
    <3>1. n + 1 \in DOMAIN calls
      BY <1>3, <1>4
    <3>2. IsMessage(calls[n + 1])
      BY <1>2, <1>4, <1>6 DEF IsMessage
    <3> QED BY <1>4, <2>1, <3>1, <3>2, MessageList
  <2>3. list \in Seq(Link) /\ 1 \in DOMAIN list
    <3>1. list \in Seq(Link) /\ \E k \in DOMAIN list : TRUE
      BY <2>2 DEF ListOK
    <3> QED BY <3>1
  <2>4. next.call = n + 1 /\ next.at = 1 /\ next \in Pointer /\ next # Nowhere
    BY <1>3, <2>1 DEF Place, Pointer, Nowhere
  <2>5. Reaches(list, next, n)
    BY <1>6, <2>1, <2>3, <2>4 DEF Reaches
  <2>6. \A k \in DOMAIN list : ~(k < next.at)
    BY <2>3, <2>4
  <2>7. \/ Begin([C EXCEPT !.mode = "one"], list, next)
        \/ /\ CallHandlers([C EXCEPT !.mode = "all"], list, next, {"before", "primary"})
           /\ Kind(handlers, list[next.at]) # "around"
    <3>1. CASE TypeIn(list, next.at) = "around"
      BY <1>1, <3>1
    <3>2. CASE TypeIn(list, next.at) # "around"
      <4>1. CallHandlers([C EXCEPT !.mode = "all"], list, next, {"before", "primary"})
        BY <1>1, <1>6, <3>2
      <4> QED BY <3>2, <4>1, KindsAre
    <3> QED BY <3>1, <3>2
  <2> QED BY <1>2, <1>3, <2>2, <2>4, <2>5, <2>6, <2>7, EnterAt
<1>7. CASE C.kind = "next"
  <2>1. next = core.next /\ list = ListAt(calls, next)
    BY <1>7 DEF ListAt
  <2> HIDE DEF next, list
  <2>2. CoreAt(calls, n, core) /\ core = C.core
    <3>1. ~Running(calls[n + 1])
      BY <1>2, <1>4 DEF Running
    <3>2. CoreAt(calls, n, core)
      BY <1>3, <1>5, <3>1, CoreOver
    <3> QED BY <1>3, <1>4, <3>2, CoreUnique
  <2>3. Available(handlers, calls, core)
    <3>1. n + 1 \in DOMAIN calls
      BY <1>3, <1>4
    <3>2. CallOK(handlers, calls, n + 1)
      BY <3>1 DEF MessagesIInv, StackOK
    <3> QED BY <1>2, <1>4, <1>7, <2>2, <3>2 DEF CallOK, Running
  <2>4. core # NoCore /\ core.next # Nowhere
    BY <2>3 DEF Available, NoCore
  <2>5. PICK i \in 1 .. n :
          /\ LastRunning(calls, n, i) /\ RunsOK(handlers, calls, i)
          /\ core.current = calls[i].at /\ calls[i].at.call \in 1 .. i /\ calls[i].at.at \in Nat
          /\ calls[i].at.at \in DOMAIN ListAt(calls, calls[i].at)
          /\ core.next.call = calls[i].at.call
          /\ core.next.at = calls[i].at.at + 1
          /\ core.next.at \in DOMAIN ListAt(calls, calls[i].at)
    BY <1>3, <1>4, <2>2, <2>4, CorePoints
  <2> DEFINE p == calls[i].at
  <2>6. /\ p.call \in DOMAIN calls /\ IsMessage(calls[p.call]) /\ list = calls[p.call].list
        /\ next.call = p.call /\ next.at = p.at + 1 /\ next.at \in DOMAIN list /\ p.at \in DOMAIN list
        /\ p.at \in Nat
    <3>1. p.call \in DOMAIN calls
      BY <1>3, <1>4, <2>5
    <3> QED BY <2>1, <2>5, <3>1 DEF RunsOK, ListAt
  <2> DEFINE classes == Precedence[calls[p.call].receiver]
  <2>7. ListOK(handlers, classes, list)
    BY <2>6, MessageList
  <2> HIDE DEF classes
  <2>8. Reaches(list, next, n)
    <3>1. core \in Core
      BY DEF MessagesIInv
    <3>2. next \in Pointer /\ list \in Seq(Link)
      BY <2>1, <2>7, <3>1 DEF Core, ListOK
    <3>3. next.at > p.at
      BY <2>6
    <3> QED BY <1>7, <2>1, <2>5, <2>6, <3>2, <3>3 DEF Reaches
  <2>9. \/ Kind(handlers, list[p.at]) = "around"
        \/ Kind(handlers, list[p.at]) = "primary"
    BY <2>3, <2>5, <2>6 DEF Available, ListAt
  <2>10. \/ Begin([C EXCEPT !.mode = "one"], list, next)
         \/ /\ CallHandlers([C EXCEPT !.mode = "all"], list, next, {"before", "primary"})
            /\ Kind(handlers, list[next.at]) # "around"
            /\ \A k \in DOMAIN list : k < next.at => Kind(handlers, list[k]) = "around"
    <3>1. /\ TypeIn(list, next.at) = Kind(handlers, list[next.at])
          /\ TypeIn(list, core.current.at) = Kind(handlers, list[p.at])
      BY <2>5, KindsAre
    <3>2. CASE Kind(handlers, list[next.at]) = "around" \/ Kind(handlers, list[p.at]) = "primary"
      BY <1>1, <1>7, <3>1, <3>2
    <3>3. CASE ~(Kind(handlers, list[next.at]) = "around" \/ Kind(handlers, list[p.at]) = "primary")
      <4>1. CallHandlers([C EXCEPT !.mode = "all"], list, next, {"before", "primary"})
        BY <1>1, <3>1, <3>3
      <4>2. ASSUME NEW k \in DOMAIN list, k < next.at
            PROVE  Kind(handlers, list[k]) = "around"
        <5>1. k \in Nat
          BY <2>7 DEF ListOK
        <5>2. CASE k = p.at
          BY <2>9, <3>3, <5>2
        <5>3. CASE k < p.at
          <6>1. /\ Rank(Kind(handlers, list[k])) <= Rank(Kind(handlers, list[p.at]))
                /\ Kind(handlers, list[k]) \in HandlerType
            BY <1>5, <2>6, <2>7, <5>3, ListKinds
          <6>2. Kind(handlers, list[p.at]) = "around"
            BY <2>9, <3>3
          <6> QED BY <6>1, <6>2 DEF Rank, HandlerType
        <5> QED BY <2>6, <4>2, <5>1, <5>2, <5>3
      <4> QED BY <3>3, <4>1, <4>2
    <3> QED BY <3>2, <3>3
  <2>11. next # Nowhere
    BY <2>1, <2>4
  <2> QED BY <1>2, <1>3, <2>7, <2>8, <2>10, <2>11, EnterAt
<1>8. C.kind \in {"send", "next"}
  BY <1>4 DEF CallRecord
<1> QED BY <1>6, <1>7, <1>8

LEMMA HandlerReturnsStep ==
    ASSUME MessagesIInv, HandlerReturns
    PROVE  MessagesIInv'
<1> DEFINE C == Innermost
           n == Depth - 1
           list == calls[C.at.call].list
           p == C.at.at
           ended == TypeIn(list, p)
           others == {k \in DOMAIN list : k >= core.next.at /\ TypeIn(list, k) # "primary"}
           behind == IF core.next = Nowhere \/ others = {} THEN Nowhere
                     ELSE Place(core.next.call, Lowest(others))
<1>1. \/ Mode = "one" /\ ReturnCall(C, list)
      \/ /\ Mode = "all" /\ ended = "before"
         /\ CallHandlers(C, list, core.next, {"before", "primary"})
      \/ Mode = "all" /\ ended = "primary" /\ CallHandlers(C, list, behind, {"after"})
      \/ Mode = "all" /\ ended = "after" /\ CallHandlers(C, list, core.next, {"after"})
  <2>1. CASE Mode = "one"
    BY <2>1 DEF HandlerReturns
  <2>2. CASE Mode = "all"
    BY <2>2 DEF HandlerReturns
  <2>3. CASE Mode # "one" /\ Mode # "all"
    BY <2>3 DEF HandlerReturns
  <2> QED BY <2>1, <2>2, <2>3
<1>2. Depth # 0 /\ C.mode = Mode /\ Running(C) /\ C.mode # "arguments"
  <2>1. Mode \in {"one", "all"}
    BY <1>1
  <2> QED BY <2>1 DEF Mode, Running
<1>3. calls \in Seq(CallRecord) /\ n \in Nat /\ n + 1 = Depth
  BY <1>2, StackFacts
<1> HIDE DEF n
<1>4. /\ Len(calls) = n + 1 /\ calls[n + 1] = C /\ C \in CallRecord /\ RunsOK(handlers, calls, n + 1)
  BY <1>2, <1>3, TopFacts
<1>5. TablesOK(handlers, handlerOrderMap) /\ CoreAt(calls, n + 1, core)
  BY <1>4 DEF MessagesIInv
<1>6. /\ C.at.call \in 1 .. n + 1 /\ IsMessage(calls[C.at.call]) /\ p \in DOMAIN list
      /\ C.kind = "send" => C.at.call = n + 1
      /\ C.mode = "all" => C.done = Begun(list, p)
  BY <1>4 DEF RunsOK, ListAt, Begun
<1>7. C.kind = "send" => list = C.list
  BY <1>4, <1>6
<1> DEFINE classes == Precedence[calls[C.at.call].receiver]
<1>8. ListOK(handlers, classes, list)
  <2>1. C.at.call \in DOMAIN calls
    BY <1>3, <1>4, <1>6
  <2> QED BY <1>6, <2>1, MessageList
<1> HIDE DEF classes
<1>9. list \in Seq(Link) /\ p \in Nat /\ \A k \in DOMAIN list : k \in Nat
  BY <1>6, <1>8 DEF ListOK
<1>10. /\ core.next = IF p < Len(list) THEN Place(C.at.call, p + 1) ELSE Nowhere
       /\ C.at.call \in Nat /\ C.at.call # 0
  <2>1. core = CoreOf(calls, n + 1)
    <3>1. n + 1 \in Nat \ {0} /\ Running(calls[n + 1])
      BY <1>2, <1>3, <1>4
    <3> QED BY <1>5, <3>1, CoreTop
  <2>2. C.at.call \in Nat /\ C.at.call # 0
    BY <1>3, <1>6
  <2> QED BY <1>4, <2>1, <2>2 DEF CoreOf, Behind, ListAt
<1>11. \A k : TypeIn(list, k) = Kind(handlers, list[k])
  BY KindsAre
\* whatever lies behind the handler that ended is within reach
<1>12. ASSUME NEW m \in DOMAIN list, m > p
       PROVE  Reaches(list, Place(C.at.call, m), n) /\ Place(C.at.call, m) # Nowhere
  <2> DEFINE pointer == Place(C.at.call, m)
  <2>1. pointer.call = C.at.call /\ pointer.at = m /\ pointer \in Pointer /\ pointer # Nowhere
    BY <1>9, <1>10 DEF Place, Pointer, Nowhere
  <2> HIDE DEF pointer
  <2>2. ListAt(calls, pointer) = list
    BY <2>1 DEF ListAt
  <2>3. C.kind = "next" => \E j \in 1 .. n : /\ LastRunning(calls, n, j)
                                             /\ pointer.call = calls[j].at.call
                                             /\ pointer.at > calls[j].at.at
    <3>1. SUFFICES ASSUME C.kind = "next"
                   PROVE  \E j \in 1 .. n : /\ LastRunning(calls, n, j)
                                            /\ pointer.call = calls[j].at.call
                                            /\ pointer.at > calls[j].at.at
      OBVIOUS
    <3> DEFINE i == n + 1
    <3>2. RunsOK(handlers, calls, i) /\ calls[i] = C /\ i - 1 = n
      BY <1>3, <1>4
    <3> HIDE DEF i, C
    <3>3. \E j \in 1 .. i - 1 : /\ LastRunning(calls, i - 1, j)
                               /\ C.at.call = calls[j].at.call
                               /\ C.at.at > calls[j].at.at
      BY <3>1, <3>2 DEF RunsOK
    <3>4. PICK j \in 1 .. n : /\ LastRunning(calls, n, j)
                              /\ C.at.call = calls[j].at.call
                              /\ C.at.at > calls[j].at.at
      BY <3>2, <3>3
    <3>5. calls[j].at.at \in Nat
      <4>1. j \in DOMAIN calls
        BY <1>3, <1>4
      <4>2. calls[j] \in CallRecord
        BY <1>3, <4>1
      <4> QED BY <4>2 DEF CallRecord, Pointer
    <3>6. pointer.at > calls[j].at.at
      <4>1. m \in Nat
        BY <1>9
      <4> QED BY <1>9, <1>12, <2>1, <3>4, <3>5, <4>1
    <3> QED BY <2>1, <3>4, <3>6
  <2>4. Reaches(list, pointer, n)
    BY <1>6, <1>7, <1>9, <2>1, <2>2, <2>3 DEF Reaches
  <2> QED BY <2>1, <2>4 DEF pointer
<1> HIDE DEF list, p, C
<1>13. CASE Mode = "one" /\ ReturnCall(C, list)
  <2>1. MayReturn(C, list)
    BY <1>2, <1>7, <1>13 DEF MayReturn, C
  <2> QED BY <1>3, <1>13, <2>1, ReturnStep
\* behind the handler that ended, or with nothing left
<1>14. ASSUME NEW next, NEW types, C.mode = "all", CallHandlers(C, list, next, types),
              \/ next = Nowhere /\ C.done = WholeOf(handlers, list)
              \/ \E m \in DOMAIN list : /\ m > p /\ next = Place(C.at.call, m)
                                        /\ Kind(handlers, list[m]) \in types
                                        /\ C.done \cup {m} = Begun(list, m)
       PROVE  MessagesIInv'
  <2>1. next = Nowhere => C.done = WholeOf(handlers, list)
    BY <1>12, <1>14
  <2>2. next # Nowhere => /\ Reaches(list, next, n) /\ Kind(handlers, list[next.at]) \in types
                          /\ C.done \cup {next.at} = Begun(list, next.at)
    <3>1. SUFFICES ASSUME next # Nowhere
                   PROVE  /\ Reaches(list, next, n) /\ Kind(handlers, list[next.at]) \in types
                          /\ C.done \cup {next.at} = Begun(list, next.at)
      OBVIOUS
    <3>2. PICK m \in DOMAIN list : /\ m > p /\ next = Place(C.at.call, m)
                                   /\ Kind(handlers, list[m]) \in types
                                   /\ C.done \cup {m} = Begun(list, m)
      BY <1>14, <3>1
    <3>3. next.at = m
      BY <3>2 DEF Place
    <3> QED BY <1>12, <3>2, <3>3
  <2>3. /\ C.kind = Innermost.kind /\ C.receiver = Innermost.receiver /\ C.name = Innermost.name
        /\ C.list = Innermost.list /\ C.core = Innermost.core /\ Innermost.mode # "arguments"
        /\ C.kind = "send" => list = Innermost.list
    BY <1>2, <1>7 DEF C
  <2> QED BY <1>3, <1>4, <1>14, <2>1, <2>2, <2>3, GoOnStep
<1>15. CASE /\ Mode = "all" /\ ended = "before"
            /\ CallHandlers(C, list, core.next, {"before", "primary"})
  <2> DEFINE types == {"before", "primary"}
  <2>1. C.mode = "all" /\ Kind(handlers, list[p]) = "before" /\ C.done = Begun(list, p)
    BY <1>2, <1>6, <1>11, <1>15
  <2>2. /\ p + 1 \in DOMAIN list /\ Kind(handlers, list[p + 1]) \in types
        /\ Begun(list, p) \cup {p + 1} = Begun(list, p + 1)
    BY <1>5, <1>6, <1>8, <2>1, BeforeGoesOn
  <2>3. core.next = Place(C.at.call, p + 1) /\ p + 1 > p
    BY <1>9, <1>10, <2>2
  <2>4. CallHandlers(C, list, core.next, types)
    BY <1>15
  <2> HIDE DEF types
  <2> QED BY <1>14, <2>1, <2>2, <2>3, <2>4
<1>16. CASE Mode = "all" /\ ended = "primary" /\ CallHandlers(C, list, behind, {"after"})
  <2> DEFINE types == {"after"}
             rest == {k \in DOMAIN list : k >= p + 1 /\ Kind(handlers, list[k]) # "primary"}
  <2>1. C.mode = "all" /\ Kind(handlers, list[p]) = "primary" /\ C.done = Begun(list, p)
    BY <1>2, <1>6, <1>11, <1>16
  <2>2. /\ rest = {} => Begun(list, p) = WholeOf(handlers, list)
        /\ rest # {} => /\ Lowest(rest) \in DOMAIN list /\ Lowest(rest) > p
                        /\ Kind(handlers, list[Lowest(rest)]) = "after"
                        /\ Begun(list, p) \cup {Lowest(rest)} = Begun(list, Lowest(rest))
    BY <1>5, <1>6, <1>8, <2>1, PrimaryGoesOn
  <2>3. behind = IF rest = {} THEN Nowhere ELSE Place(C.at.call, Lowest(rest))
    <3>1. CASE p < Len(list)
      <4>1. core.next = Place(C.at.call, p + 1) /\ core.next.call = C.at.call /\ core.next.at = p + 1
        BY <1>10, <3>1 DEF Place
      <4>2. core.next # Nowhere
        BY <1>10, <4>1 DEF Nowhere
      <4>3. others = rest
        BY <1>11, <4>1
      <4> QED BY <4>1, <4>2, <4>3
    <3>2. CASE ~(p < Len(list))
      <4>1. core.next = Nowhere
        BY <1>10, <3>2
      <4>2. rest = {}
        BY <1>9, <3>2
      <4> QED BY <4>1, <4>2
    <3> QED BY <3>1, <3>2
  <2>4. CallHandlers(C, list, behind, types)
    BY <1>16
  <2>5. "after" \in types
    OBVIOUS
  <2> HIDE DEF types, rest, behind
  <2>6. \/ behind = Nowhere /\ C.done = WholeOf(handlers, list)
        \/ \E m \in DOMAIN list : /\ m > p /\ behind = Place(C.at.call, m)
                                  /\ Kind(handlers, list[m]) \in types
                                  /\ C.done \cup {m} = Begun(list, m)
    BY <2>1, <2>2, <2>3, <2>5
  <2> QED BY <1>14, <2>1, <2>4, <2>6
<1>17. CASE Mode = "all" /\ ended = "after" /\ CallHandlers(C, list, core.next, {"after"})
  <2> DEFINE types == {"after"}
  <2>1. C.mode = "all" /\ Kind(handlers, list[p]) = "after" /\ C.done = Begun(list, p)
    BY <1>2, <1>6, <1>11, <1>17
  <2>2. /\ p = Len(list) => Begun(list, p) = WholeOf(handlers, list)
        /\ p < Len(list) => /\ p + 1 \in DOMAIN list /\ Kind(handlers, list[p + 1]) = "after"
                            /\ Begun(list, p) \cup {p + 1} = Begun(list, p + 1)
    BY <1>5, <1>6, <1>8, <2>1, AfterGoesOn
  <2>3. CallHandlers(C, list, core.next, types) /\ "after" \in types
    BY <1>17
  <2> HIDE DEF types
  <2>4. CASE p < Len(list)
    <3>1. core.next = Place(C.at.call, p + 1) /\ p + 1 > p
      BY <1>9, <1>10, <2>4
    <3> QED BY <1>14, <2>1, <2>2, <2>3, <2>4, <3>1
  <2>5. CASE ~(p < Len(list))
    <3>1. core.next = Nowhere /\ p = Len(list)
      BY <1>6, <1>9, <1>10, <2>5
    <3> QED BY <1>14, <2>1, <2>2, <2>3, <3>1
  <2> QED BY <2>4, <2>5
<1> QED BY <1>1, <1>13, <1>15, <1>16, <1>17 DEF C, list, p

LEMMA NextStep ==
    ASSUME MessagesIInv, [MessagesNext(HandlerClass, MessageName, HandlerType)]_messageVars
    PROVE  MessagesIInv'
<1>1. CASE Define(HandlerClass, MessageName, HandlerType)
  BY <1>1, DefineStep
<1>2. CASE \E r \in Receiver, name \in MessageName : Send(r, name)
  BY <1>2, SendStep
<1>3. CASE CallNextHandler("ready") \/ CallNextHandler("arguments")
  BY <1>3, CallNextHandlerStep
<1>4. CASE NoNextHandler \/ Fail("error") \/ Fail("halted") \/ CalledAfterError \/ Recover
  <2>1. UNCHANGED <<handlers, handlerOrderMap, core, calls, outcome, dangling>>
    BY <1>4 DEF NoNextHandler, Fail, CalledAfterError, Recover
  <2> QED BY <2>1, QuietStep
<1>5. CASE ArgumentsFailed
  BY <1>5, GiveUpStep DEF ArgumentsFailed
<1>6. CASE ArgumentsArePushed
  BY <1>6, ArgumentsArePushedStep
<1>7. CASE Enter
  BY <1>7, EnterStep
<1>8. CASE HandlerReturns
  BY <1>8, HandlerReturnsStep
<1>9. CASE UNCHANGED messageVars
  BY <1>9, QuietStep DEF messageVars
<1> QED BY <1>1, <1>2, <1>3, <1>4, <1>5, <1>6, <1>7, <1>8, <1>9 DEF MessagesNext

\* Every step of the messages keeps the inductive invariant: the tables of handlers
\* stay in order with a map that is a permutation of them, each message's list of
\* handlers stays in calling order with the calls of its core at its head, and a
\* handler is busy once for each list it is in (msgpass.c:PerformMessage,
\* FindApplicableHandlers and CallNextHandler; msgfun.c:InsertHandlerHeader and
\* DeallocateMarkedHandlers; msgpsr.c:ParseDefmessageHandler).
THEOREM MessagesKeepTheInvariant == MessagesSpec => []MessagesIInv
<1>1. MessagesInit => MessagesIInv
  BY InitIs
<1>2. MessagesIInv /\ [MessagesNext(HandlerClass, MessageName, HandlerType)]_messageVars => MessagesIInv'
  BY NextStep
<1> QED BY <1>1, <1>2, PTL DEF MessagesSpec

\* However messages, calls of shadowed handlers, definitions, deletions and errors
\* nest: a message runs its handlers in the order of its list and runs each that is
\* to run, the search of a class's table finds what is there, and no handler that a
\* running message will call is freed or moved (msgpass.c:CallHandlers and
\* CallNextHandler; msgfun.c:FindHandlerByIndex, HandlersExecuting and
\* DeleteHandler).
THEOREM MessagingHolds == MessagesSpec => []MessagingInv
<1>1. MessagesIInv => MessagingInv
  BY InvariantMeans
<1> QED BY <1>1, MessagesKeepTheInvariant, PTL
=============================================================================
