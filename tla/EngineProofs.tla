---------------------------- MODULE EngineProofs ----------------------------
(***************************************************************************)
(* Proofs about Agenda and Engine, for any number of modules, rules and    *)
(* matches, any saliences and every strategy: agendas stay in order        *)
(* whatever is placed, detached and ordered anew, and (run) fires the best *)
(* activation of the focus.  And, at the end, about MergeSort, for any     *)
(* comparison function and any number of arguments.                        *)
(***************************************************************************)
EXTENDS Engine, MergeSort, SequenceFacts, FiniteSetTheorems

-----------------------------------------------------------------------------
(* Strategies are strict total orders.                                     *)

\* The time tags of a match, sorted, are as many numbers.
LEMMA SortedIsSeq ==
    ASSUME NEW m \in Match
    PROVE  SortPartialMatch(m) \in Seq(Nat)
<1> DEFINE b == Basis[m]
           later(v) == {j \in DOMAIN b : b[j] > v}
           few(i) == {v \in ToSet(b) : Cardinality(later(v)) < i}
<1>1. b \in Seq(Nat) /\ b # << >> /\ DOMAIN b = 1..Len(b) /\ Len(b) \in Nat /\ 1 \in DOMAIN b
  BY BasisAssumption
<1> HIDE DEF b
<1>2. IsFiniteSet(DOMAIN b)
  BY <1>1, FS_Interval
<1>3. \A v : IsFiniteSet(later(v)) /\ Cardinality(later(v)) \in Nat
  BY <1>2, FS_Subset, FS_CardinalityType
<1>4. ToSet(b) \subseteq Nat /\ b[1] \in ToSet(b)
  BY <1>1 DEF ToSet
<1>5. PICK v \in ToSet(b) : later(v) = {}
  <2> DEFINE T == {Cardinality(later(v)) : v \in ToSet(b)}
  <2>1. T \subseteq Nat /\ T # {}
    BY <1>3, <1>4
  <2>2. PICK t \in T : \A u \in T : t <= u
    BY <2>1, LeastNumber
  <2>3. PICK v \in ToSet(b) : t = Cardinality(later(v))
    OBVIOUS
  <2>4. ASSUME NEW j \in later(v) PROVE FALSE
    <3> DEFINE w == b[j]
    <3>1. w \in ToSet(b) /\ w \in Nat /\ v \in Nat /\ w > v
      BY <1>1, <1>4 DEF ToSet
    <3>2. later(w) \subseteq later(v) \ {j}
      BY <1>1, <3>1
    <3>3. /\ IsFiniteSet(later(v) \ {j})
          /\ Cardinality(later(v) \ {j}) = Cardinality(later(v)) - 1
      BY ZenonT(60), <1>3, <2>4, FS_RemoveElement
    <3>4. Cardinality(later(w)) <= Cardinality(later(v) \ {j})
      BY <3>2, <3>3, FS_Subset
    <3>5. t <= Cardinality(later(w))
      BY <2>2, <3>1
    <3> HIDE DEF later, w
    <3> QED BY <1>3, <2>3, <3>3, <3>4, <3>5
  <2> QED BY <2>4
<1>6. Cardinality(later(v)) = 0
  BY <1>5, FS_EmptySet
<1>7. ASSUME NEW i \in DOMAIN b PROVE Min(few(i)) \in Nat
  <2>1. few(i) \subseteq Nat
    BY <1>4
  <2>2. v \in few(i)
    BY <1>1, <1>6
  <2> HIDE DEF few
  <2> QED BY <2>1, <2>2, MinIs
<1>8. SortPartialMatch(m) = [i \in 1..Len(b) |-> Min(few(i))]
  BY <1>1 DEF SortPartialMatch, b
<1> HIDE DEF few
<1> QED BY <1>1, <1>7, <1>8

LEMMA RecencyIsSeq == \A m \in Match : Recency[m] \in Seq(Nat)
BY SortedIsSeq DEF Recency

LEMMA PrefixIs ==
    ASSUME NEW s \in Seq(Nat), NEW t \in Seq(Nat)
    PROVE  IsPrefix(s, t) <=> Len(s) <= Len(t) /\ \A j \in 1..Len(s) : s[j] = t[j]
<1>1. Len(s) \in Nat /\ Len(t) \in Nat
  OBVIOUS
<1>2. ASSUME Len(s) <= Len(t)
      PROVE  SubSeq(s, 1, Len(s)) = SubSeq(t, 1, Len(s)) <=> \A j \in 1..Len(s) : s[j] = t[j]
  <2>1. SubSeq(s, 1, Len(s)) = s
    OBVIOUS
  <2>2. /\ SubSeq(t, 1, Len(s)) \in Seq(Nat) /\ Len(SubSeq(t, 1, Len(s))) = Len(s)
        /\ \A j \in 1..Len(s) : SubSeq(t, 1, Len(s))[j] = t[j]
    BY <1>1, <1>2
  <2>3. (\A j \in 1..Len(s) : s[j] = t[j]) => s = SubSeq(t, 1, Len(s))
    BY <2>2, SeqEqual
  <2> QED BY <2>1, <2>2, <2>3
<1> QED BY <1>2 DEF IsPrefix

\* Entry by entry, until two differ.
LEMMA PrecedesIs ==
    ASSUME NEW s \in Seq(Nat), NEW t \in Seq(Nat)
    PROVE  Precedes(s, t) <=>
             \E i \in 1..(Len(s) + 1) :
                /\ i <= Len(t)
                /\ i <= Len(s) => s[i] < t[i]
                /\ \A j \in 1..(i - 1) : s[j] = t[j]
<1>1. Len(s) \in Nat /\ Len(t) \in Nat /\ DOMAIN s = 1..Len(s) /\ DOMAIN t = 1..Len(t)
  OBVIOUS
<1>2. Precedes(s, t) <=>
        \/ \E i \in 1..Len(s) : i <= Len(t) /\ s[i] < t[i] /\ \A j \in 1..(i - 1) : s[j] = t[j]
        \/ Len(s) < Len(t) /\ \A j \in 1..Len(s) : s[j] = t[j]
  <2>1. Len(s) < Len(t) => (IsPrefix(s, t) <=> \A j \in 1..Len(s) : s[j] = t[j])
    BY <1>1, PrefixIs
  <2>2. DOMAIN s \cap DOMAIN t = {i \in 1..Len(s) : i <= Len(t)}
    BY <1>1
  <2> QED BY <2>1, <2>2 DEF Precedes
<1>3. ASSUME Len(s) < Len(t), \A j \in 1..Len(s) : s[j] = t[j]
      PROVE  \E i \in 1..(Len(s) + 1) : /\ i <= Len(t)
                                        /\ i <= Len(s) => s[i] < t[i]
                                        /\ \A j \in 1..(i - 1) : s[j] = t[j]
  <2> WITNESS Len(s) + 1 \in 1..(Len(s) + 1)
  <2> QED BY <1>1, <1>3
<1>4. ASSUME NEW i \in 1..(Len(s) + 1), i <= Len(t), i <= Len(s) => s[i] < t[i],
             \A j \in 1..(i - 1) : s[j] = t[j]
      PROVE  \/ \E k \in 1..Len(s) : k <= Len(t) /\ s[k] < t[k] /\ \A j \in 1..(k - 1) : s[j] = t[j]
             \/ Len(s) < Len(t) /\ \A j \in 1..Len(s) : s[j] = t[j]
  <2>1. CASE i <= Len(s)
    BY <1>1, <1>4, <2>1
  <2>2. CASE i > Len(s)
    <3>1. i = Len(s) + 1 /\ i - 1 = Len(s)
      BY <1>1, <2>2
    <3> QED BY <1>1, <1>4, <3>1
  <2> QED BY <1>1, <2>1, <2>2
<1> QED
  <2>1. ASSUME NEW i \in 1..Len(s), i <= Len(t), s[i] < t[i], \A j \in 1..(i - 1) : s[j] = t[j]
        PROVE  \E k \in 1..(Len(s) + 1) : /\ k <= Len(t)
                                          /\ k <= Len(s) => s[k] < t[k]
                                          /\ \A j \in 1..(k - 1) : s[j] = t[j]
    <3>1. i \in 1..(Len(s) + 1)
      BY <1>1
    <3> QED BY <2>1, <3>1
  <2> QED BY <1>2, <1>3, <1>4, <2>1

LEMMA PrecedesIsOrder ==
    ASSUME NEW s \in Seq(Nat), NEW t \in Seq(Nat)
    PROVE  /\ ~Precedes(s, s)
           /\ s # t => (Precedes(s, t) <=> ~Precedes(t, s))
           /\ \A u \in Seq(Nat) : Precedes(s, t) /\ Precedes(t, u) => Precedes(s, u)
<1>1. /\ Len(s) \in Nat /\ Len(t) \in Nat
      /\ \A i \in 1..Len(s) : s[i] \in Nat
      /\ \A i \in 1..Len(t) : t[i] \in Nat
  OBVIOUS
<1>2. ~Precedes(s, s)
  BY <1>1, PrecedesIs
<1>3. ASSUME Precedes(s, t), Precedes(t, s) PROVE FALSE
  <2>1. PICK i \in 1..(Len(s) + 1) : /\ i <= Len(t)
                                     /\ i <= Len(s) => s[i] < t[i]
                                     /\ \A j \in 1..(i - 1) : s[j] = t[j]
    BY <1>3, PrecedesIs
  <2>2. PICK k \in 1..(Len(t) + 1) : /\ k <= Len(s)
                                     /\ k <= Len(t) => t[k] < s[k]
                                     /\ \A j \in 1..(k - 1) : t[j] = s[j]
    BY <1>3, PrecedesIs
  <2>3. CASE i = k
    BY <1>1, <2>1, <2>2, <2>3
  <2>4. CASE i < k
    BY <1>1, <2>1, <2>2, <2>4
  <2>5. CASE k < i
    BY <1>1, <2>1, <2>2, <2>5
  <2> QED BY <2>3, <2>4, <2>5
<1>4. ASSUME s # t PROVE Precedes(s, t) \/ Precedes(t, s)
  <2> DEFINE Differ == {i \in 1..(Len(s) + 1) :
                          i <= Len(t) + 1 /\ (i <= Len(s) /\ i <= Len(t) => s[i] # t[i])}
  <2>1. Differ \subseteq Nat /\ Differ # {}
    <3>1. Len(s) <= Len(t) => Len(s) + 1 \in Differ
      BY <1>1
    <3>2. Len(t) < Len(s) => Len(t) + 1 \in Differ
      BY <1>1
    <3>3. Differ \subseteq Nat
      BY <1>1
    <3> HIDE DEF Differ
    <3> QED BY <1>1, <3>1, <3>2, <3>3
  <2>2. PICK i \in Differ : \A j \in Differ : i <= j
    BY <2>1, LeastNumber
  <2>3. ASSUME NEW j \in 1..(i - 1) PROVE j <= Len(s) /\ j <= Len(t) /\ s[j] = t[j]
    <3>1. i \in 1..(Len(s) + 1) /\ i <= Len(t) + 1 /\ j \in Nat /\ j >= 1 /\ j < i
      BY <1>1
    <3>2. j \in 1..(Len(s) + 1) /\ j <= Len(t) + 1 /\ j <= Len(s) /\ j <= Len(t)
      BY <1>1, <3>1
    <3>3. j \notin Differ
      BY <2>2, <3>1
    <3> QED BY <3>2, <3>3
  <2>4. CASE i <= Len(s) /\ i <= Len(t)
    <3>1. s[i] < t[i] \/ t[i] < s[i]
      BY <1>1, <2>2, <2>4
    <3> QED BY <1>1, <2>2, <2>3, <2>4, <3>1, PrecedesIs
  <2>5. CASE i > Len(s) /\ i <= Len(t)
    BY <1>1, <2>2, <2>3, <2>5, PrecedesIs
  <2>6. CASE i <= Len(s) /\ i > Len(t)
    BY <1>1, <2>2, <2>3, <2>6, PrecedesIs
  <2>7. CASE i > Len(s) /\ i > Len(t)
    <3>1. i = Len(s) + 1 /\ i = Len(t) + 1
      BY <1>1, <2>2, <2>7
    <3>2. \A j \in 1..Len(s) : s[j] = t[j]
      BY <1>1, <2>3, <3>1
    <3> QED BY <1>1, <1>4, <3>1, <3>2, SeqEqual
  <2> QED BY <1>1, <2>2, <2>4, <2>5, <2>6, <2>7
<1>5. ASSUME NEW u \in Seq(Nat), Precedes(s, t), Precedes(t, u) PROVE Precedes(s, u)
  <2>1. PICK i \in 1..(Len(s) + 1) : /\ i <= Len(t)
                                     /\ i <= Len(s) => s[i] < t[i]
                                     /\ \A j \in 1..(i - 1) : s[j] = t[j]
    BY <1>5, PrecedesIs
  <2>2. PICK k \in 1..(Len(t) + 1) : /\ k <= Len(u)
                                     /\ k <= Len(t) => t[k] < u[k]
                                     /\ \A j \in 1..(k - 1) : t[j] = u[j]
    BY <1>5, PrecedesIs
  <2>3. Len(u) \in Nat /\ \A j \in 1..Len(u) : u[j] \in Nat
    OBVIOUS
  <2>4. CASE i <= k
    <3>1. i <= Len(u)
      BY <1>1, <2>1, <2>2, <2>3, <2>4
    <3>2. i <= Len(s) => s[i] < u[i]
      BY SMTT(60), <1>1, <2>1, <2>2, <2>3, <2>4
    <3>3. \A j \in 1..(i - 1) : s[j] = u[j]
      BY <1>1, <2>1, <2>2, <2>3, <2>4
    <3> QED BY <3>1, <3>2, <3>3, PrecedesIs
  <2>5. CASE k < i
    <3>0. i \in Nat /\ i <= Len(s) + 1 /\ k \in Nat /\ k >= 1
      BY <1>1
    <3>1. k \in 1..(Len(s) + 1) /\ k <= Len(s)
      BY <1>1, <2>5, <3>0
    <3>2. s[k] < u[k]
      BY <1>1, <2>1, <2>2, <2>3, <2>5
    <3>3. \A j \in 1..(k - 1) : s[j] = u[j]
      BY <1>1, <2>1, <2>2, <2>3, <2>5
    <3> QED BY <2>2, <3>1, <3>2, <3>3, PrecedesIs
  <2> QED BY <2>4, <2>5
<1> QED BY <1>2, <1>3, <1>4, <1>5

\* What the strategies compare, of the activations of ms.
Proper(acts, ms) ==
    /\ \A m \in ms : /\ m \in Match
                     /\ acts[m].tag \in Nat
                     /\ acts[m].salience \in Int
                     /\ acts[m].random \in Nat
    /\ \A m, n \in ms : acts[m].tag = acts[n].tag => m = n

\* By recency, then by the number of tests, then by age.
ByRecency(acts, m, x) ==
    LessRecent(m, x) \/ (AsRecent(m, x) /\ acts[m].tag > acts[x].tag)

LEMMA RecencyOrder ==
    ASSUME NEW acts, NEW ms, Proper(acts, ms), NEW m \in ms, NEW x \in ms
    PROVE  /\ m # x => (ByRecency(acts, m, x) <=> ~ByRecency(acts, x, m))
           /\ \A y \in ms : ByRecency(acts, m, x) /\ ByRecency(acts, x, y)
                              => ByRecency(acts, m, y)
<1>1. \A y \in ms : Recency[y] \in Seq(Nat) /\ Tests(y) \in Nat /\ acts[y].tag \in Nat
  BY RecencyIsSeq, RuleAssumption, ComplexityAssumption DEF Proper, Tests
<1>2. \A s, t \in Seq(Nat) :
         ~Precedes(s, s) /\ (s # t => (Precedes(s, t) <=> ~Precedes(t, s)))
  BY PrecedesIsOrder
<1>3. \A s, t, u \in Seq(Nat) : Precedes(s, t) /\ Precedes(t, u) => Precedes(s, u)
  BY PrecedesIsOrder
<1>4. m # x => (ByRecency(acts, m, x) <=> ~ByRecency(acts, x, m))
  <2>1. m # x => acts[m].tag # acts[x].tag
    BY DEF Proper
  <2> QED BY <1>1, <1>2, <2>1 DEF ByRecency, LessRecent, AsRecent
<1>5. ASSUME NEW y \in ms, ByRecency(acts, m, x), ByRecency(acts, x, y)
      PROVE  ByRecency(acts, m, y)
  <2>1. CASE Precedes(Recency[m], Recency[x])
    BY <1>1, <1>3, <1>5, <2>1 DEF ByRecency, LessRecent, AsRecent
  <2>2. CASE Precedes(Recency[x], Recency[y])
    BY <1>1, <1>3, <1>5, <2>2 DEF ByRecency, LessRecent, AsRecent
  <2>3. CASE ~Precedes(Recency[m], Recency[x]) /\ ~Precedes(Recency[x], Recency[y])
    BY <1>1, <1>5, <2>3 DEF ByRecency, LessRecent, AsRecent
  <2> QED BY <2>1, <2>2, <2>3
<1> QED BY <1>4, <1>5

\* Of two activations one goes after the other, under every strategy, and of three
\* the first after the third.
LEMMA StrategyIsOrder ==
    ASSUME NEW s \in Strategies, NEW acts, NEW ms, Proper(acts, ms),
           NEW m \in ms, NEW x \in ms, m # x
    PROVE  /\ GoesAfter(s, acts, m, x) <=> ~GoesAfter(s, acts, x, m)
           /\ \A y \in ms : /\ x # y
                            /\ GoesAfter(s, acts, m, x) /\ GoesAfter(s, acts, x, y)
                            => m # y /\ GoesAfter(s, acts, m, y)
<1>1. \A y \in ms : /\ acts[y].tag \in Nat /\ acts[y].random \in Nat
                    /\ Tests(y) \in Nat /\ y \in Match
  BY RuleAssumption, ComplexityAssumption DEF Proper, Tests
<1>2. \A y, z \in ms : y # z => acts[y].tag # acts[z].tag
  BY DEF Proper
<1>3. CASE s = "depth"
  BY <1>1, <1>2, <1>3 DEF GoesAfter
<1>4. CASE s = "breadth"
  BY <1>1, <1>2, <1>4 DEF GoesAfter
<1>5. CASE s = "complexity"
  BY <1>1, <1>2, <1>5 DEF GoesAfter
<1>6. CASE s = "simplicity"
  BY <1>1, <1>2, <1>6 DEF GoesAfter
<1>7. CASE s = "random"
  BY <1>1, <1>2, <1>7 DEF GoesAfter
<1>8. \A y, z \in ms : y # z => (ByRecency(acts, y, z) <=> ~ByRecency(acts, z, y))
  BY RecencyOrder
<1>9. \A w, y, z \in ms : ByRecency(acts, w, y) /\ ByRecency(acts, y, z)
                            => ByRecency(acts, w, z)
  BY RecencyOrder
<1>10. CASE s = "lex"
  <2>1. \A y, z : GoesAfter(s, acts, y, z) <=> ByRecency(acts, y, z)
    BY <1>10 DEF GoesAfter, ByRecency
  <2>2. \A y \in ms : ~(x # y /\ ByRecency(acts, m, x) /\ ByRecency(acts, x, y) /\ m = y)
    BY <1>8
  <2> QED BY <1>8, <1>9, <2>1, <2>2
<1>11. CASE s = "mea"
  <2>1. \A y, z : GoesAfter(s, acts, y, z) <=>
                    \/ Basis[y][1] < Basis[z][1]
                    \/ Basis[y][1] = Basis[z][1] /\ ByRecency(acts, y, z)
    BY <1>11 DEF GoesAfter, ByRecency
  <2>2. \A y \in ms : Basis[y][1] \in Nat
    BY <1>1, BasisAssumption
  <2>3. \A y \in ms : ~(x # y /\ ByRecency(acts, m, x) /\ ByRecency(acts, x, y) /\ m = y)
    BY <1>8
  <2>4. GoesAfter(s, acts, m, x) <=> ~GoesAfter(s, acts, x, m)
    BY <1>8, <2>1, <2>2
  <2>5. ASSUME NEW y \in ms, x # y, GoesAfter(s, acts, m, x), GoesAfter(s, acts, x, y)
        PROVE  m # y /\ GoesAfter(s, acts, m, y)
    <3>1. GoesAfter(s, acts, m, y)
      BY <1>9, <2>1, <2>2, <2>5
    <3>2. m # y
      BY <2>1, <2>2, <2>3, <2>5
    <3> QED BY <3>1, <3>2
  <2> QED BY <2>4, <2>5
<1> QED BY <1>3, <1>4, <1>5, <1>6, <1>7, <1>10, <1>11 DEF Strategies

\* m goes before n on an agenda.
Before(s, acts, m, n) ==
    \/ acts[m].salience > acts[n].salience
    \/ acts[m].salience = acts[n].salience /\ GoesAfter(s, acts, n, m)

LEMMA BeforeIsOrder ==
    ASSUME NEW s \in Strategies, NEW acts, NEW ms, Proper(acts, ms),
           NEW m \in ms, NEW x \in ms, m # x
    PROVE  /\ Before(s, acts, m, x) <=> ~Before(s, acts, x, m)
           /\ \A y \in ms : /\ x # y
                            /\ Before(s, acts, m, x) /\ Before(s, acts, x, y)
                            => m # y /\ Before(s, acts, m, y)
<1>1. \A y \in ms : acts[y].salience \in Int
  BY DEF Proper
<1>2. \A y, z \in ms : y # z =>
        (GoesAfter(s, acts, y, z) <=> ~GoesAfter(s, acts, z, y))
  BY StrategyIsOrder
<1>3. \A w, y, z \in ms : w # y /\ y # z /\ GoesAfter(s, acts, w, y)
                          /\ GoesAfter(s, acts, y, z)
                            => w # z /\ GoesAfter(s, acts, w, z)
  BY StrategyIsOrder
<1>4. Before(s, acts, m, x) <=> ~Before(s, acts, x, m)
  BY <1>1, <1>2 DEF Before
<1>5. ASSUME NEW y \in ms, x # y, Before(s, acts, m, x), Before(s, acts, x, y)
      PROVE  m # y /\ Before(s, acts, m, y)
  <2>1. CASE acts[m].salience = acts[x].salience
             /\ acts[x].salience = acts[y].salience
    BY <1>1, <1>3, <1>5, <2>1 DEF Before
  <2>2. CASE acts[m].salience # acts[x].salience
             \/ acts[x].salience # acts[y].salience
    BY <1>1, <1>5, <2>2 DEF Before
  <2> QED BY <2>1, <2>2
<1> QED BY <1>4, <1>5

-----------------------------------------------------------------------------
(* Lists and groups.                                                       *)

\* Where an activation stands.
LEMMA AtIs ==
    ASSUME NEW list \in Seq(Match), IsInjective(list), NEW i \in DOMAIN list
    PROVE  At(list, list[i]) = i
<1> DEFINE T == {j \in 1..Len(list) : list[j] = list[i]}
<1>1. \A j \in DOMAIN list : list[j] = list[i] => j = i
  BY DEF IsInjective
<1>2. T = {i}
  BY <1>1
<1>3. T \subseteq Nat /\ T # {}
  OBVIOUS
<1>4. At(list, list[i]) = IF T # {} THEN Min(T) ELSE 0
  BY DEF At, SelectInSeq
<1> HIDE DEF T
<1>5. Min(T) \in T
  BY <1>3, MinIs
<1> QED BY <1>2, <1>3, <1>4, <1>5

\* Group records, of a new group, too.
Groups == [salience : Int, first : Match \cup {NoMatch}, last : Match \cup {NoMatch}]

\* The i-th activation is the first of group g and the j-th the last.
Ends(acts, list, g, i, j) ==
    /\ i \in DOMAIN list /\ j \in DOMAIN list /\ list[i] = g.first /\ list[j] = g.last
    /\ acts[list[i]].salience = g.salience /\ acts[list[j]].salience = g.salience
    /\ \A x \in DOMAIN list : acts[list[x]].salience = g.salience => i <= x /\ x <= j

Falling(groups) ==
    \A j, k \in DOMAIN groups : j < k => groups[j].salience > groups[k].salience

\* GroupsFit in these terms.
Fits(acts, list, groups) ==
    /\ Falling(groups)
    /\ \A x \in DOMAIN list :
          \E k \in DOMAIN groups : groups[k].salience = acts[list[x]].salience
    /\ \A k \in DOMAIN groups : \E i, j \in DOMAIN list : Ends(acts, list, groups[k], i, j)

LEMMA FitsIs ==
    ASSUME NEW acts, NEW A, A.list \in Seq(Match), A.groups \in Seq(Groups)
    PROVE  GroupsFit(acts, A) <=> Fits(acts, A.list, A.groups)
<1> DEFINE list == A.list
           groups == A.groups
           members(g) == {i \in DOMAIN list : acts[list[i]].salience = g.salience}
<1>1. /\ DOMAIN list = 1..Len(list) /\ Len(list) \in Nat
      /\ DOMAIN groups = 1..Len(groups) /\ Len(groups) \in Nat
  OBVIOUS
<1>2. \A g : members(g) \subseteq Nat /\ members(g) \subseteq 0..Len(list)
  BY <1>1
<1>3. ASSUME NEW g, members(g) # {}
      PROVE  g.first = list[Min(members(g))] /\ g.last = list[Max(members(g))]
               <=> \E i, j \in DOMAIN list : Ends(acts, list, g, i, j)
  <2> DEFINE lo == Min(members(g))
             hi == Max(members(g))
  <2>1. lo \in members(g) /\ \A x \in members(g) : lo <= x
    <3> HIDE DEF members
    <3> QED BY <1>2, <1>3, MinIs
  <2>2. hi \in members(g) /\ \A x \in members(g) : x <= hi
    <3> HIDE DEF members
    <3> QED BY <1>1, <1>2, <1>3, MaxIs
  <2>3. g.first = list[lo] /\ g.last = list[hi] => Ends(acts, list, g, lo, hi)
    <3> HIDE DEF lo, hi
    <3> QED BY <2>1, <2>2 DEF Ends
  <2>4. ASSUME NEW i \in DOMAIN list, NEW j \in DOMAIN list, Ends(acts, list, g, i, j)
        PROVE  i = lo /\ j = hi
    <3>1. i \in members(g) /\ j \in members(g)
      BY <2>4 DEF Ends
    <3>2. lo <= i /\ j <= hi
      BY <2>1, <2>2, <3>1
    <3>3. i <= lo /\ hi <= j
      BY <2>1, <2>2, <2>4 DEF Ends
    <3>4. i \in Nat /\ j \in Nat /\ lo \in Nat /\ hi \in Nat
      BY <1>1, <1>2, <2>1, <2>2
    <3> HIDE DEF lo, hi
    <3> QED BY <3>2, <3>3, <3>4
  <2>5. lo \in DOMAIN list /\ hi \in DOMAIN list
    BY <2>1, <2>2
  <2> HIDE DEF lo, hi, members
  <2>6. ASSUME NEW i \in DOMAIN list, NEW j \in DOMAIN list, Ends(acts, list, g, i, j)
        PROVE  g.first = list[lo] /\ g.last = list[hi]
    BY <2>4, <2>6 DEF Ends
  <2> QED BY <2>3, <2>5, <2>6 DEF lo, hi
<1>4. /\ \A g \in ToSet(groups) : \E k \in DOMAIN groups : g = groups[k]
      /\ \A k \in DOMAIN groups : groups[k] \in ToSet(groups)
      /\ \A m \in ToSet(list) : \E x \in DOMAIN list : m = list[x]
      /\ \A x \in DOMAIN list : list[x] \in ToSet(list)
  BY DEF ToSet
<1> DEFINE Same == {g.salience : g \in ToSet(groups)} = {acts[m].salience : m \in ToSet(list)}
<1>5. ASSUME Same
      PROVE  /\ \A x \in DOMAIN list :
                   \E k \in DOMAIN groups : groups[k].salience = acts[list[x]].salience
             /\ \A g \in ToSet(groups) : members(g) # {}
  <2>1. ASSUME NEW x \in DOMAIN list
        PROVE  \E k \in DOMAIN groups : groups[k].salience = acts[list[x]].salience
    <3>1. acts[list[x]].salience \in {g.salience : g \in ToSet(groups)}
      BY <1>4, <1>5
    <3>2. PICK g \in ToSet(groups) : g.salience = acts[list[x]].salience
      BY <3>1
    <3> QED BY <1>4, <3>2
  <2>2. ASSUME NEW g \in ToSet(groups) PROVE members(g) # {}
    <3>1. g.salience \in {acts[m].salience : m \in ToSet(list)}
      BY <1>5
    <3>2. PICK m \in ToSet(list) : g.salience = acts[m].salience
      BY <3>1
    <3> QED BY <1>4, <3>2
  <2> QED BY <2>1, <2>2
<1>6. ASSUME Fits(acts, list, groups) PROVE Same /\ \A g \in ToSet(groups) : members(g) # {}
  <2>1. ASSUME NEW g \in ToSet(groups)
        PROVE  \E i \in DOMAIN list : acts[list[i]].salience = g.salience
    <3>1. PICK k \in DOMAIN groups : g = groups[k]
      BY <1>4
    <3>2. PICK i \in DOMAIN list, j \in DOMAIN list : Ends(acts, list, g, i, j)
      BY <1>6, <3>1 DEF Fits
    <3> QED BY <3>2 DEF Ends
  <2>2. ASSUME NEW m \in ToSet(list)
        PROVE  \E g \in ToSet(groups) : g.salience = acts[m].salience
    <3>1. PICK x \in DOMAIN list : m = list[x]
      BY <1>4
    <3>2. PICK k \in DOMAIN groups : groups[k].salience = acts[list[x]].salience
      BY <1>6 DEF Fits
    <3> QED BY <1>4, <3>1, <3>2
  <2>3. {g.salience : g \in ToSet(groups)} \subseteq {acts[m].salience : m \in ToSet(list)}
    BY <1>4, <2>1
  <2>4. {acts[m].salience : m \in ToSet(list)} \subseteq {g.salience : g \in ToSet(groups)}
    BY <2>2
  <2> QED BY <2>1, <2>3, <2>4
<1>7. GroupsFit(acts, A) <=>
        /\ Falling(groups)
        /\ Same
        /\ \A g \in ToSet(groups) :
              g.first = list[Min(members(g))] /\ g.last = list[Max(members(g))]
  BY DEF GroupsFit, Falling
<1> HIDE DEF list, groups, members, Same
<1>8. GroupsFit(acts, A) => Fits(acts, list, groups)
  BY <1>3, <1>4, <1>5, <1>7 DEF Fits
<1>9. Fits(acts, list, groups) => GroupsFit(acts, A)
  <2> SUFFICES ASSUME Fits(acts, list, groups) PROVE GroupsFit(acts, A)
    OBVIOUS
  <2>1. \A g \in ToSet(groups) : \E i, j \in DOMAIN list : Ends(acts, list, g, i, j)
    BY <1>4 DEF Fits
  <2> QED BY <1>3, <1>6, <1>7, <2>1 DEF Fits
<1> QED BY <1>8, <1>9 DEF list, groups

\* An agenda as it must be, for the activations on it: the groups name nobody else.
Ranked(s, acts, A) ==
    /\ A = [list |-> A.list, groups |-> A.groups]
    /\ A.list \in Seq(Match) /\ A.groups \in Seq(Groups)
    /\ IsInjective(A.list)
    /\ Proper(acts, ToSet(A.list))
    /\ InOrder(s, acts, A)
    /\ Fits(acts, A.list, A.groups)

\* Ordered pair by pair, an agenda has the higher saliences first.
LEMMA SalienceFalls ==
    ASSUME NEW s, NEW acts, NEW A, Ranked(s, acts, A),
           NEW i \in DOMAIN A.list, NEW j \in DOMAIN A.list, i <= j
    PROVE  acts[A.list[i]].salience >= acts[A.list[j]].salience
<1>1. i \in Nat /\ j \in Nat
  BY DEF Ranked
<1>2. acts[A.list[i]].salience \in Int /\ acts[A.list[j]].salience \in Int
  BY DEF Ranked, Proper, ToSet
<1>3. CASE i = j
  BY <1>2, <1>3
<1>4. CASE i < j
  BY <1>2, <1>4 DEF Ranked, InOrder
<1> QED BY <1>1, <1>3, <1>4

LEMMA NotHigherIs ==
    ASSUME NEW groups \in Seq(Groups), NEW v \in Int, Falling(groups)
    PROVE  LET k == NotHigher(groups, v) IN
           /\ k \in 0..Len(groups)
           /\ k = 0 => \A q \in DOMAIN groups : groups[q].salience > v
           /\ k # 0 => /\ groups[k].salience <= v
                       /\ \A q \in DOMAIN groups : q < k => groups[q].salience > v
                       /\ \A q \in DOMAIN groups : q > k => groups[q].salience < v
<1> DEFINE T == {q \in 1..Len(groups) : groups[q].salience <= v}
           k == NotHigher(groups, v)
<1>1. /\ DOMAIN groups = 1..Len(groups) /\ Len(groups) \in Nat
      /\ \A q \in DOMAIN groups : groups[q].salience \in Int
  <2>1. DOMAIN groups = 1..Len(groups) /\ Len(groups) \in Nat
    OBVIOUS
  <2>2. \A g \in Groups : g.salience \in Int
    BY DEF Groups
  <2>3. \A q \in DOMAIN groups : groups[q] \in Groups
    BY <2>1, ElementOfSeq
  <2> QED BY <2>1, <2>2, <2>3
<1>2. k = IF T # {} THEN Min(T) ELSE 0
  BY DEF NotHigher, SelectInSeq
<1>3. T \subseteq Nat /\ \A q \in DOMAIN groups : q \in T <=> groups[q].salience <= v
  BY <1>1
<1>4. T \subseteq DOMAIN groups
  BY <1>1
<1>5. T # {} => Min(T) \in T /\ \A q \in T : Min(T) <= q
  <2> HIDE DEF T
  <2> QED BY <1>3, MinIs
<1> HIDE DEF T
<1>6. CASE T = {}
  <2>1. k = 0
    BY <1>2, <1>6
  <2>2. \A q \in DOMAIN groups : groups[q].salience > v
    BY <1>1, <1>3, <1>6
  <2> HIDE DEF k
  <2> QED BY <1>1, <2>1, <2>2 DEF k
<1>7. CASE T # {}
  <2>1. k \in T /\ \A q \in T : k <= q
    BY <1>2, <1>5, <1>7
  <2> HIDE DEF k
  <2>2. k \in DOMAIN groups /\ k \in Nat /\ k # 0 /\ k \in 0..Len(groups)
    BY <1>1, <1>4, <2>1
  <2>3. groups[k].salience <= v /\ groups[k].salience \in Int
    BY <1>1, <1>3, <2>1, <2>2
  <2>4. ASSUME NEW q \in DOMAIN groups, q < k PROVE groups[q].salience > v
    BY <1>1, <1>3, <2>1, <2>2, <2>4
  <2>5. ASSUME NEW q \in DOMAIN groups, q > k PROVE groups[q].salience < v
    <3>1. groups[k].salience > groups[q].salience
      BY <2>2, <2>5 DEF Falling
    <3>2. groups[q].salience \in Int
      BY <1>1
    <3> QED BY <2>3, <3>1, <3>2
  <2> QED BY <2>2, <2>3, <2>4, <2>5 DEF k
<1> QED BY <1>6, <1>7

\* FindSalienceGroup answers where the salience stands.
LEMMA FindIs ==
    ASSUME NEW v \in Int, NEW K \in Seq(Groups), Falling(K), NEW j \in DOMAIN K, K[j].salience = v
    PROVE  FindSalienceGroup(K, v) = j
<1> DEFINE n == NotHigher(K, v)
<1>1. /\ n \in 0..Len(K)
      /\ n = 0 => \A q \in DOMAIN K : K[q].salience > v
      /\ n # 0 => /\ K[n].salience <= v
                  /\ \A q \in DOMAIN K : q < n => K[q].salience > v
                  /\ \A q \in DOMAIN K : q > n => K[q].salience < v
  BY NotHigherIs
<1>2. j \in 1..Len(K) /\ Len(K) \in Nat
  OBVIOUS
<1>3. FindSalienceGroup(K, v) = IF n # 0 /\ K[n].salience = v THEN n ELSE 0
  BY DEF FindSalienceGroup
<1> HIDE DEF n
<1>4. n # 0
  BY <1>1
<1>5. ~(j < n) /\ ~(j > n)
  BY <1>1, <1>4
<1>6. n = j
  BY <1>1, <1>2, <1>5
<1> QED BY <1>3, <1>4, <1>6

\* The group of a salience, at its place k among groups: old, or put in there new.
Regrouped(groups, H, v, k) ==
    /\ H \in Seq(Groups) /\ Falling(H)
    /\ k \in DOMAIN H /\ H[k].salience = v
    /\ \A q \in 1..(k - 1) : q \in DOMAIN groups /\ H[q] = groups[q]
    /\ \/ H = groups
       \/ /\ H[k] = Group(v) /\ Len(H) = Len(groups) + 1
          /\ \A q \in DOMAIN groups : groups[q].salience # v
          /\ \A q \in DOMAIN groups : IF q < k THEN H[q] = groups[q] ELSE H[q + 1] = groups[q]
          /\ \A q \in DOMAIN H : q # k => \E r \in DOMAIN groups : H[q] = groups[r]

LEMMA RegroupLemma ==
    ASSUME NEW groups \in Seq(Groups), NEW v \in Int, Falling(groups)
    PROVE  LET H == ReuseOrCreateSalienceGroup(groups, v)
           IN Regrouped(groups, H, v, FindSalienceGroup(H, v))
<1> DEFINE k == NotHigher(groups, v)
           H == ReuseOrCreateSalienceGroup(groups, v)
           f == FindSalienceGroup(H, v)
<1>1. /\ DOMAIN groups = 1..Len(groups) /\ Len(groups) \in Nat
      /\ \A q \in DOMAIN groups : groups[q].salience \in Int /\ groups[q] \in Groups
  <2>1. DOMAIN groups = 1..Len(groups) /\ Len(groups) \in Nat
    OBVIOUS
  <2>2. \A g \in Groups : g.salience \in Int
    BY DEF Groups
  <2>3. \A q \in DOMAIN groups : groups[q] \in Groups
    BY <2>1, ElementOfSeq
  <2> QED BY <2>1, <2>2, <2>3
<1>2. /\ k \in 0..Len(groups)
      /\ k = 0 => \A q \in DOMAIN groups : groups[q].salience > v
      /\ k # 0 => /\ groups[k].salience <= v
                  /\ \A q \in DOMAIN groups : q < k => groups[q].salience > v
                  /\ \A q \in DOMAIN groups : q > k => groups[q].salience < v
  BY NotHigherIs
<1>3. \A K \in Seq(Groups) : \A j \in DOMAIN K :
         Falling(K) /\ K[j].salience = v => FindSalienceGroup(K, v) = j
  BY FindIs
<1>4. CASE k # 0 /\ groups[k].salience = v
  <2>1. H = groups
    BY <1>4 DEF ReuseOrCreateSalienceGroup
  <2>2. k \in DOMAIN groups
    BY <1>1, <1>2, <1>4
  <2>3. f = k
    BY <1>3, <1>4, <2>1, <2>2
  <2>4. \A q \in 1..(k - 1) : q \in DOMAIN groups
    BY <1>1, <1>2
  <2> HIDE DEF H, f, k
  <2> QED BY <1>4, <2>1, <2>2, <2>3, <2>4 DEF Regrouped, H, f
<1>5. CASE ~(k # 0 /\ groups[k].salience = v)
  <2> DEFINE i == IF k = 0 THEN Len(groups) + 1 ELSE k
  <2>1. i \in 1..(Len(groups) + 1) /\ i \in Nat
    BY <1>1, <1>2
  <2>2. Group(v) \in Groups /\ Group(v).salience = v
    BY DEF Group, Groups
  <2>3. /\ InsertAt(groups, i, Group(v)) \in Seq(Groups)
        /\ Len(InsertAt(groups, i, Group(v))) = Len(groups) + 1
        /\ \A j \in 1..(Len(groups) + 1) :
             InsertAt(groups, i, Group(v))[j] =
                IF j < i THEN groups[j] ELSE IF j = i THEN Group(v) ELSE groups[j - 1]
    <3> DEFINE e == Group(v)
    <3>1. e \in Groups /\ groups \in Seq(Groups)
      BY <2>2
    <3> HIDE DEF i, e
    <3>2. /\ InsertAt(groups, i, e) \in Seq(Groups)
          /\ Len(InsertAt(groups, i, e)) = Len(groups) + 1
          /\ \A j \in 1..(Len(groups) + 1) :
               InsertAt(groups, i, e)[j] =
                  IF j < i THEN groups[j] ELSE IF j = i THEN e ELSE groups[j - 1]
      <4> DEFINE n == Len(groups) + 1
                 new == InsertAt(groups, i, e)
      <4>1. new \in Seq(Groups)
        BY ONLY <2>1, <3>1, InsertAtProperties
      <4>2. Len(new) = Len(groups) + 1
        BY ONLY <2>1, <3>1, InsertAtProperties
      <4>3. ASSUME NEW j \in 1..n
            PROVE  new[j] = IF j < i THEN groups[j] ELSE IF j = i THEN e ELSE groups[j - 1]
        BY ONLY <2>1, <3>1, <4>3, InsertAtProperties
      <4> QED BY <4>1, <4>2, <4>3
    <3> QED BY <3>2 DEF e
  <2>4. k = 0 => Append(groups, Group(v)) = InsertAt(groups, i, Group(v))
    <3> SUFFICES ASSUME k = 0 PROVE Append(groups, Group(v)) = InsertAt(groups, i, Group(v))
      OBVIOUS
    <3>1. /\ Append(groups, Group(v)) \in Seq(Groups)
          /\ Len(Append(groups, Group(v))) = Len(groups) + 1
          /\ \A j \in 1..Len(groups) : Append(groups, Group(v))[j] = groups[j]
          /\ Append(groups, Group(v))[Len(groups) + 1] = Group(v)
      BY <2>2
    <3> DEFINE a == Append(groups, Group(v))
               b == InsertAt(groups, i, Group(v))
    <3>2. \A j \in 1..Len(a) : a[j] = b[j]
      BY <1>1, <2>3, <3>1
    <3>3. Len(a) = Len(b) /\ a \in Seq(Groups) /\ b \in Seq(Groups)
      BY <2>3, <3>1
    <3> HIDE DEF a, b
    <3>4. a = b
      BY <3>2, <3>3, SeqEqual
    <3> QED BY <3>4 DEF a, b
  <2>5. H = InsertAt(groups, i, Group(v))
    BY <1>5, <2>4 DEF ReuseOrCreateSalienceGroup
  <2> HIDE DEF H, f
  <2>6. /\ H \in Seq(Groups) /\ DOMAIN H = 1..(Len(groups) + 1) /\ Len(H) = Len(groups) + 1
        /\ \A j \in DOMAIN H : j < i => H[j] = groups[j] /\ j \in DOMAIN groups
        /\ H[i] = Group(v) /\ i \in DOMAIN H
        /\ \A j \in DOMAIN H : j > i => H[j] = groups[j - 1] /\ j - 1 \in DOMAIN groups
    BY <1>1, <2>1, <2>3, <2>5
  <2>7. \A q \in DOMAIN groups : IF q < i THEN groups[q].salience > v ELSE groups[q].salience < v
    BY <1>1, <1>2, <1>5
  <2> HIDE DEF i, k
  <2>8. Falling(H)
    <3> SUFFICES ASSUME NEW j \in DOMAIN H, NEW q \in DOMAIN H, j < q
                 PROVE  H[j].salience > H[q].salience
      BY DEF Falling
    <3>0. j \in Nat /\ q \in Nat
      BY <2>6
    <3>1. CASE q < i
      BY <2>1, <2>6, <3>0, <3>1 DEF Falling
    <3>2. CASE q = i
      BY <2>1, <2>2, <2>6, <2>7, <3>0, <3>2
    <3>3. CASE q > i /\ j = i
      <4>1. H[q] = groups[q - 1] /\ q - 1 \in DOMAIN groups /\ ~(q - 1 < i)
        BY <2>1, <2>6, <3>0, <3>3
      <4> QED BY <1>1, <2>2, <2>6, <2>7, <3>3, <4>1
    <3>4. CASE q > i /\ j < i
      <4>1. H[q] = groups[q - 1] /\ q - 1 \in DOMAIN groups /\ j < q - 1
        BY <2>1, <2>6, <3>0, <3>4
      <4> QED BY <2>6, <3>4, <4>1 DEF Falling
    <3>5. CASE q > i /\ j > i
      <4>1. H[q] = groups[q - 1] /\ q - 1 \in DOMAIN groups /\ j - 1 < q - 1
        BY <2>1, <2>6, <3>0, <3>5
      <4>2. H[j] = groups[j - 1] /\ j - 1 \in DOMAIN groups
        BY <2>6, <3>5
      <4> QED BY <4>1, <4>2 DEF Falling
    <3> QED BY <2>1, <3>0, <3>1, <3>2, <3>3, <3>4, <3>5
  <2>9. f = i
    BY <1>3, <2>2, <2>6, <2>8 DEF f, H
  <2>10. \A q \in DOMAIN groups : groups[q].salience # v
    BY <1>1, <2>7
  <2>11. ASSUME NEW q \in DOMAIN groups
         PROVE  IF q < i THEN H[q] = groups[q] ELSE H[q + 1] = groups[q]
    <3>1. q \in DOMAIN H /\ q + 1 \in DOMAIN H /\ q \in Nat
      BY <1>1, <2>6
    <3>2. CASE q < i
      BY <2>6, <3>1, <3>2
    <3>3. CASE ~(q < i)
      <4>1. q + 1 > i /\ (q + 1) - 1 = q
        BY <2>1, <3>1, <3>3
      <4>2. H[q + 1] = groups[(q + 1) - 1]
        BY <2>6, <3>1, <4>1
      <4> QED BY <3>3, <4>1, <4>2
    <3> QED BY <3>2, <3>3
  <2>12. \A q \in DOMAIN H : q # i => \E r \in DOMAIN groups : H[q] = groups[r]
    <3> SUFFICES ASSUME NEW q \in DOMAIN H, q # i PROVE \E r \in DOMAIN groups : H[q] = groups[r]
      OBVIOUS
    <3>1. q < i \/ q > i
      BY <2>1, <2>6
    <3> QED BY <2>6, <3>1
  <2>13. \A q \in 1..(i - 1) : q \in DOMAIN groups /\ H[q] = groups[q]
    BY <2>1, <2>6
  <2>14. Regrouped(groups, H, v, i)
    BY <2>2, <2>6, <2>8, <2>10, <2>11, <2>12, <2>13 DEF Regrouped
  <2> QED BY <2>9, <2>14 DEF H, f
<1> QED BY <1>4, <1>5

\* The end of the group ahead of the place k: the place on the list up to which
\* saliences are higher.
Boundary(A, H, k) == IF k = 1 THEN 0 ELSE At(A.list, H[k - 1].last)

LEMMA BoundaryLemma ==
    ASSUME NEW s, NEW acts, NEW A, Ranked(s, acts, A), NEW v \in Int, NEW H, NEW k,
           Regrouped(A.groups, H, v, k)
    PROVE  LET b == Boundary(A, H, k) IN
           /\ b \in 0..Len(A.list)
           /\ \A x \in DOMAIN A.list : x <= b <=> acts[A.list[x]].salience > v
           /\ k = 1 => b = 0
           /\ k # 1 => b # 0 /\ A.list[b] = H[k - 1].last
<1> DEFINE list == A.list
           sal(x) == acts[list[x]].salience
<1>1. /\ list \in Seq(Match) /\ DOMAIN list = 1..Len(list) /\ Len(list) \in Nat
      /\ IsInjective(list)
      /\ \A x \in DOMAIN list : sal(x) \in Int
  BY DEF Ranked, Proper, ToSet
<1>2. /\ DOMAIN A.groups = 1..Len(A.groups) /\ Len(A.groups) \in Nat
      /\ DOMAIN H = 1..Len(H) /\ Len(H) \in Nat /\ k \in DOMAIN H
  BY DEF Ranked, Regrouped
<1>3. \A x, y \in DOMAIN list : x <= y => sal(x) >= sal(y)
  BY SalienceFalls
\* Whoever has a higher salience than v has the salience of a group ahead of k.
<1>4. ASSUME NEW x \in DOMAIN list, sal(x) > v
      PROVE  \E q \in 1..(k - 1) : H[q].salience = sal(x)
  <2>1. PICK r \in DOMAIN A.groups : A.groups[r].salience = sal(x)
    BY DEF Ranked, Fits
  <2>2. PICK q \in DOMAIN H : H[q].salience = sal(x)
    <3>1. CASE H = A.groups
      BY <2>1, <3>1
    <3>2. CASE H # A.groups
      <4>1. (H[r] = A.groups[r] /\ r < k) \/ H[r + 1] = A.groups[r]
        BY <2>1, <3>2 DEF Regrouped
      <4>2. Len(H) = Len(A.groups) + 1
        BY <3>2 DEF Regrouped
      <4>3. r \in DOMAIN H /\ r + 1 \in DOMAIN H
        BY <1>2, <2>1, <4>2
      <4> QED BY <2>1, <4>1, <4>3
    <3> QED BY <3>1, <3>2
  <2>3. H[k].salience = v /\ Falling(H)
    BY DEF Regrouped
  <2>4. sal(x) \in Int
    BY <1>1
  <2> HIDE DEF sal
  <2>5. q # k
    BY <1>4, <2>2, <2>3, <2>4
  <2>6. ~(k < q)
    BY <1>2, <1>4, <2>2, <2>3, <2>4 DEF Falling
  <2>7. q \in 1..(k - 1)
    BY <1>2, <2>5, <2>6
  <2> QED BY <2>2, <2>7
<1>5. CASE k = 1
  <2>1. Boundary(A, H, k) = 0
    BY <1>5 DEF Boundary
  <2>2. ASSUME NEW x \in DOMAIN list PROVE ~(x <= 0) /\ ~(sal(x) > v)
    BY <1>1, <1>4, <1>5
  <2> QED BY <1>1, <1>5, <2>1, <2>2
<1>6. CASE k # 1
  <2>1. k - 1 \in 1..(k - 1) /\ k - 1 \in DOMAIN H /\ k - 1 < k
    BY <1>2, <1>6
  <2>2. k - 1 \in DOMAIN A.groups /\ H[k - 1] = A.groups[k - 1]
    BY <2>1 DEF Regrouped
  <2> DEFINE g == A.groups[k - 1]
  <2>3. PICK i \in DOMAIN list, j \in DOMAIN list : Ends(acts, list, g, i, j)
    BY <2>2 DEF Ranked, Fits
  <2>4. list[j] = g.last /\ sal(j) = g.salience
        /\ \A x \in DOMAIN list : sal(x) = g.salience => x <= j
    BY <2>3 DEF Ends
  <2>5. Boundary(A, H, k) = j
    BY <1>1, <1>6, <2>2, <2>4, AtIs DEF Boundary
  <2>6. sal(j) > v
    BY <1>2, <2>1, <2>2, <2>4 DEF Regrouped, Falling
  <2>7. ASSUME NEW x \in DOMAIN list, sal(x) > v PROVE x <= j
    <3>1. PICK q \in 1..(k - 1) : H[q].salience = sal(x)
      BY <1>4, <2>7
    <3>2. CASE q = k - 1
      BY <2>2, <2>4, <3>1, <3>2
    <3>3. CASE q # k - 1
      <4>1. q \in DOMAIN H /\ q < k - 1
        BY <1>2, <3>3
      <4>2. sal(x) > sal(j)
        BY <2>1, <2>2, <2>4, <3>1, <4>1 DEF Regrouped, Falling
      <4>3. sal(x) \in Int /\ sal(j) \in Int
        BY <1>1
      <4>4. ~(j <= x)
        BY <1>3, <4>2, <4>3
      <4> QED BY <1>1, <4>4
    <3> QED BY <3>2, <3>3
  <2>8. ASSUME NEW x \in DOMAIN list, x <= j PROVE sal(x) > v
    <3>1. sal(x) >= sal(j)
      BY <1>3, <2>8
    <3>2. sal(x) \in Int /\ sal(j) \in Int
      BY <1>1
    <3> QED BY <2>6, <3>1, <3>2
  <2>9. j \in 0..Len(list) /\ j # 0
    BY <1>1
  <2> HIDE DEF sal, g
  <2> QED BY <1>6, <2>2, <2>4, <2>5, <2>7, <2>8, <2>9 DEF sal, g
<1> QED BY <1>5, <1>6

\* What PlaceOf answers, with the ends f and l of the group if it is not new.
PlaceIsRight(s, acts, A, H, k, m, p, f, l) ==
    /\ p \in 0..Len(A.list) /\ Boundary(A, H, k) <= p
    /\ \A x \in DOMAIN A.list : IF x <= p THEN Before(s, acts, A.list[x], m)
                                          ELSE Before(s, acts, m, A.list[x])
    /\ IF H[k].first = NoMatch
       THEN /\ p = Boundary(A, H, k)
            /\ \A x \in DOMAIN A.list : acts[A.list[x]].salience # acts[m].salience
       ELSE /\ Ends(acts, A.list, H[k], f, l)
            /\ Boundary(A, H, k) = f - 1 /\ p <= l

LEMMA PlaceIs ==
    ASSUME NEW s \in Strategies, NEW acts, NEW A, Ranked(s, acts, A),
           NEW m, Proper(acts, ToSet(A.list) \cup {m}), m \notin ToSet(A.list),
           NEW H, NEW k, Regrouped(A.groups, H, acts[m].salience, k)
    PROVE  PlaceIsRight(s, acts, A, H, k, m, PlaceOf(s, acts, [A EXCEPT !.groups = H], k, m),
                        At(A.list, H[k].first), At(A.list, H[k].last))
<1> DEFINE list == A.list
           sal(x) == acts[list[x]].salience
           v == acts[m].salience
           b == Boundary(A, H, k)
           f == At(list, H[k].first)
           l == At(list, H[k].last)
           p == PlaceOf(s, acts, [A EXCEPT !.groups = H], k, m)
           goesAfter(i) == GoesAfter(s, acts, m, list[i])
           members == f..l
           ahead == {i \in members : goesAfter(i)}
           behind == {i \in members : ~goesAfter(i)}
           stop == IF behind = {} THEN l + 1 ELSE Min(behind)
           B == [A EXCEPT !.groups = H]
<1>1. /\ list \in Seq(Match) /\ DOMAIN list = 1..Len(list) /\ Len(list) \in Nat
      /\ IsInjective(list) /\ v \in Int
      /\ \A x \in DOMAIN list : /\ sal(x) \in Int /\ list[x] \in Match
                                /\ list[x] \in ToSet(list) /\ list[x] # m
  BY DEF Ranked, Proper, ToSet
<1>2. /\ b \in 0..Len(list)
      /\ \A x \in DOMAIN list : x <= b <=> sal(x) > v
  <2> HIDE DEF v
  <2> QED BY <1>1, BoundaryLemma DEF v
<1>3. B.list = list /\ B.groups = H
  BY DEF Ranked
<1>4. p = IF H[k].first = NoMatch THEN b
          ELSE IF s = "breadth" THEN IF ahead = {} THEN b ELSE Max(ahead)
          ELSE IF s \in {"lex", "mea"} /\ goesAfter(l) THEN l
          ELSE IF stop = f THEN b ELSE stop - 1
  <2>1. p = PlaceOf(s, acts, B, k, m)
    OBVIOUS
  <2> HIDE DEF B
  <2> QED BY <1>3, <2>1 DEF PlaceOf, Boundary
<1>5. \A x, y \in DOMAIN list : x < y /\ sal(x) = sal(y) => GoesAfter(s, acts, list[y], list[x])
  BY <1>1 DEF Ranked, InOrder
<1>6. ASSUME NEW x \in DOMAIN list, NEW y \in DOMAIN list, x < y, sal(x) = sal(y), goesAfter(y)
      PROVE  goesAfter(x)
  <2>1. list[x] # list[y]
    BY <1>1, <1>6 DEF IsInjective
  <2>2. GoesAfter(s, acts, list[y], list[x])
    BY <1>5, <1>6
  <2> QED BY SMTT(60), <1>1, <1>6, <2>1, <2>2, StrategyIsOrder
<1>7. ASSUME NEW x \in DOMAIN list
      PROVE  /\ sal(x) > v \/ (sal(x) = v /\ goesAfter(x)) => Before(s, acts, list[x], m)
             /\ sal(x) < v \/ (sal(x) = v /\ ~goesAfter(x)) => Before(s, acts, m, list[x])
  <2>1. ~goesAfter(x) => GoesAfter(s, acts, list[x], m)
    <3> DEFINE ms == ToSet(list) \cup {m}
               y == list[x]
    <3>1. m \in ms /\ y \in ms /\ y # m /\ Proper(acts, ms)
      BY <1>1
    <3> HIDE DEF ms, y
    <3>2. GoesAfter(s, acts, m, y) <=> ~GoesAfter(s, acts, y, m)
      BY <3>1, StrategyIsOrder
    <3> QED BY <3>2 DEF y
  <2>2. acts[list[x]].salience \in Int /\ acts[m].salience \in Int
    BY <1>1
  <2> QED BY <2>1, <2>2 DEF Before
<1>8. CASE H[k].first = NoMatch
  <2>1. p = b
    BY <1>4, <1>8
  <2>2. \A x \in DOMAIN list : sal(x) # v
    <3>1. ASSUME H = A.groups PROVE FALSE
      <4>1. PICK i \in DOMAIN list, j \in DOMAIN list : Ends(acts, list, H[k], i, j)
        BY <3>1 DEF Ranked, Fits, Regrouped
      <4>2. list[i] = NoMatch
        BY <1>8, <4>1 DEF Ends
      <4> QED BY <1>1, <4>2, NoMatchAssumption
    <3> QED BY <3>1 DEF Regrouped, Ranked, Fits
  <2> HIDE DEF p, b, sal, v
  <2>3. ASSUME NEW x \in DOMAIN list
        PROVE  IF x <= p THEN Before(s, acts, list[x], m) ELSE Before(s, acts, m, list[x])
    BY <1>1, <1>2, <1>7, <2>1, <2>2
  <2>4. p \in 0..Len(list) /\ b <= p
    BY <1>1, <1>2, <2>1
  <2> QED BY <1>8, <2>1, <2>2, <2>3, <2>4 DEF PlaceIsRight, p, b, sal, v
<1>9. CASE H[k].first # NoMatch
  <2>1. H = A.groups
    BY <1>9 DEF Regrouped, Group
  <2>2. PICK i \in DOMAIN list, j \in DOMAIN list : Ends(acts, list, H[k], i, j)
    BY <2>1 DEF Regrouped, Ranked, Fits
  <2>3. f = i /\ l = j
    BY <1>1, <2>2, AtIs DEF Ends
  <2>4. Ends(acts, list, H[k], f, l)
    BY <2>2, <2>3
  <2>5. /\ f \in DOMAIN list /\ l \in DOMAIN list /\ sal(f) = v /\ sal(l) = v
        /\ \A x \in DOMAIN list : sal(x) = v => f <= x /\ x <= l
    BY <2>4 DEF Ends, Regrouped
  <2> HIDE DEF f, l, sal, v, b, p
  <2>6. f <= l /\ f \in Nat /\ l \in Nat /\ f >= 1 /\ l <= Len(list)
    BY <1>1, <2>5
  <2>7. ASSUME NEW x \in members PROVE x \in DOMAIN list /\ sal(x) = v
    <3>1. x \in DOMAIN list /\ f <= x /\ x <= l
      BY <1>1, <2>6
    <3>2. sal(f) >= sal(x) /\ sal(x) >= sal(l)
      BY <2>5, <3>1, SalienceFalls DEF sal
    <3>3. sal(x) \in Int /\ v \in Int
      BY <1>1, <3>1
    <3> QED BY <2>5, <3>1, <3>2, <3>3
  <2>8. b = f - 1
    <3>1. ~(f <= b)
      BY <1>1, <1>2, <2>5
    <3>2. f - 1 <= b
      <4>1. CASE f = 1
        BY <1>2, <4>1
      <4>2. CASE f # 1
        <5>1. f - 1 \in DOMAIN list /\ f - 1 <= f /\ ~(f <= f - 1)
          BY <1>1, <2>5, <2>6, <4>2
        <5>2. sal(f - 1) >= sal(f)
          BY <2>5, <5>1, SalienceFalls DEF sal
        <5>3. sal(f - 1) # v
          BY <2>5, <5>1
        <5>4. sal(f - 1) \in Int /\ v \in Int
          BY <1>1, <5>1
        <5>5. sal(f - 1) > v
          BY <2>5, <5>2, <5>3, <5>4
        <5> QED BY <1>2, <5>1, <5>5
      <4> QED BY <4>1, <4>2
    <3> QED BY <1>1, <1>2, <2>6, <3>1, <3>2
  \* p parts the group.
  <2>9. /\ p \in b..l
        /\ \A x \in members : x <= p <=> goesAfter(x)
    <3>1. \A x, y \in members : x < y /\ goesAfter(y) => goesAfter(x)
      BY <1>6, <2>7
    <3>2. ahead \subseteq 0..l /\ ahead \subseteq members /\ behind \subseteq Nat /\ behind \subseteq members
      BY <2>6
    <3>3. \A x \in members : (x \in ahead <=> goesAfter(x)) /\ (x \in behind <=> ~goesAfter(x))
      OBVIOUS
    <3>4. \A x \in members : x \in Nat /\ f <= x /\ x <= l /\ ~(x <= b) /\ x \in b..l
      BY <2>6, <2>8
    <3>5. b \in Int /\ b <= l /\ l \in members /\ f \in members /\ b \in b..l /\ l \in b..l
      BY <2>6, <2>8
    <3> HIDE DEF goesAfter, ahead, behind, members
    <3>6. CASE s = "breadth"
      <4>1. CASE ahead = {}
        BY <1>4, <1>9, <3>3, <3>4, <3>5, <3>6, <4>1
      <4>2. CASE ahead # {}
        <5>1. p = Max(ahead)
          BY <1>4, <1>9, <3>6, <4>2
        <5>2. p \in ahead /\ \A x \in ahead : x <= p
          BY <2>6, <3>2, <4>2, <5>1, MaxIs
        <5>3. ASSUME NEW x \in members, x <= p PROVE goesAfter(x)
          <6>1. x = p \/ x < p
            BY <3>2, <3>4, <5>2, <5>3
          <6> QED BY <3>1, <3>2, <3>3, <5>2, <6>1
        <5>4. p \in b..l
          BY <3>2, <3>4, <5>2
        <5> QED BY <3>3, <5>2, <5>3, <5>4
      <4> QED BY <4>1, <4>2
    <3>7. CASE s # "breadth" /\ s \in {"lex", "mea"} /\ goesAfter(l)
      <4>1. p = l
        BY <1>4, <1>9, <3>7
      <4>2. ASSUME NEW x \in members PROVE x <= l /\ goesAfter(x)
        <5>1. x = l \/ x < l
          BY <2>6, <3>4
        <5> QED BY <3>1, <3>4, <3>5, <3>7, <5>1
      <4> QED BY <3>5, <4>1, <4>2
    <3>8. CASE s # "breadth" /\ ~(s \in {"lex", "mea"} /\ goesAfter(l))
      <4>1. p = IF stop = f THEN b ELSE stop - 1
        BY <1>4, <1>9, <3>8
      <4>2. CASE behind = {}
        <5>1. stop = l + 1
          BY <4>2
        <5>2. p = l
          BY <2>6, <4>1, <5>1
        <5>3. \A x \in members : x <= l /\ goesAfter(x)
          BY <3>3, <3>4, <4>2
        <5> QED BY <3>5, <5>2, <5>3
      <4>3. CASE behind # {}
        <5>1. stop = Min(behind)
          BY <4>3
        <5> HIDE DEF stop
        <5>2. stop \in behind /\ \A x \in behind : stop <= x
          BY <3>2, <4>3, <5>1, MinIs
        <5>3. p = stop - 1 /\ stop \in Nat /\ f <= stop /\ stop <= l
          BY <2>8, <3>2, <3>4, <4>1, <5>2
        <5>4. p \in b..l
          BY <2>6, <2>8, <5>3
        <5>5. ASSUME NEW x \in members PROVE x <= p <=> goesAfter(x)
          <6>1. goesAfter(x) => x < stop
            <7>1. x < stop \/ x = stop \/ stop < x
              BY <3>4, <5>3
            <7>2. ~goesAfter(stop) /\ stop \in members
              BY <3>2, <3>3, <5>2
            <7> QED BY <3>1, <7>1, <7>2
          <6>2. ~goesAfter(x) => stop <= x
            BY <3>3, <5>2
          <6>3. x \in Nat
            BY <3>4
          <6> QED BY <5>3, <6>1, <6>2, <6>3
        <5> QED BY <5>4, <5>5
      <4> QED BY <4>2, <4>3
    <3> QED BY <3>6, <3>7, <3>8
  <2>10. p \in 0..Len(list) /\ b <= p /\ p <= l /\ p \in Int
    BY <2>6, <2>8, <2>9
  <2>11. ASSUME NEW x \in DOMAIN list
         PROVE  IF x <= p THEN Before(s, acts, list[x], m) ELSE Before(s, acts, m, list[x])
    <3>1. x \in Nat /\ sal(x) \in Int /\ v \in Int
      BY <1>1
    <3> HIDE DEF goesAfter, members
    <3>2. CASE sal(x) = v
      <4>1. x \in members
        BY <2>5, <2>6, <3>1, <3>2 DEF members
      <4> QED BY <1>7, <2>9, <3>2, <4>1
    <3>3. CASE sal(x) > v
      <4>1. x <= p
        BY <1>2, <2>6, <2>8, <2>10, <3>1, <3>3
      <4> QED BY <1>7, <3>3, <4>1
    <3>4. CASE sal(x) < v
      <4>1. ~(x <= l)
        <5>1. CASE x <= b
          BY <1>2, <3>1, <3>4, <5>1
        <5>2. CASE ~(x <= b) /\ x <= l
          <6>1. x \in members
            BY <2>6, <2>8, <3>1, <5>2 DEF members
          <6> QED BY <2>7, <3>1, <3>4, <6>1
        <5> QED BY <5>1, <5>2
      <4>2. ~(x <= p)
        BY <2>6, <2>10, <3>1, <4>1
      <4> QED BY <1>7, <3>4, <4>2
    <3> QED BY <3>1, <3>2, <3>3, <3>4
  <2> QED BY <1>9, <2>4, <2>8, <2>10, <2>11 DEF PlaceIsRight, f, l, sal, v, b, p
<1> QED BY <1>8, <1>9

\* m put in behind the place p: what was at i is at Shift(p, i).
Shift(p, i) == IF i <= p THEN i ELSE i + 1

Inserted(list, new, p, m) ==
    /\ p \in 0..Len(list) /\ new \in Seq(Match) /\ Len(new) = Len(list) + 1
    /\ new[p + 1] = m
    /\ \A i \in DOMAIN list : Shift(p, i) \in DOMAIN new /\ new[Shift(p, i)] = list[i]
    /\ \A j \in DOMAIN new : j # p + 1 => \E i \in DOMAIN list : j = Shift(p, i)

LEMMA InsertedIs ==
    ASSUME NEW list \in Seq(Match), NEW p \in 0..Len(list), NEW m \in Match
    PROVE  Inserted(list, InsertAt(list, p + 1, m), p, m)
<1> DEFINE new == InsertAt(list, p + 1, m)
<1>1. p \in Nat /\ Len(list) \in Nat /\ p + 1 \in 1..(Len(list) + 1) /\ DOMAIN list = 1..Len(list)
  OBVIOUS
<1>2. /\ new \in Seq(Match) /\ Len(new) = Len(list) + 1
      /\ \A j \in 1..(Len(list) + 1) :
           new[j] = IF j < p + 1 THEN list[j] ELSE IF j = p + 1 THEN m ELSE list[j - 1]
  <2> DEFINE q == p + 1
  <2>1. q \in 1..(Len(list) + 1)
    BY <1>1
  <2> HIDE DEF q
  <2>2. /\ InsertAt(list, q, m) \in Seq(Match) /\ Len(InsertAt(list, q, m)) = Len(list) + 1
        /\ \A j \in 1..(Len(list) + 1) :
             InsertAt(list, q, m)[j] = IF j < q THEN list[j] ELSE IF j = q THEN m ELSE list[j - 1]
    BY <2>1, InsertAtProperties
  <2> QED BY <2>2 DEF q
<1> HIDE DEF new
<1>3. DOMAIN new = 1..(Len(list) + 1) /\ new[p + 1] = m
  BY <1>1, <1>2
<1>4. ASSUME NEW i \in DOMAIN list PROVE Shift(p, i) \in DOMAIN new /\ new[Shift(p, i)] = list[i]
  <2>1. CASE i <= p
    BY <1>1, <1>2, <1>3, <2>1 DEF Shift
  <2>2. CASE ~(i <= p)
    <3>1. i + 1 \in DOMAIN new /\ ~(i + 1 < p + 1) /\ i + 1 # p + 1 /\ (i + 1) - 1 = i
      BY <1>1, <1>3, <2>2
    <3>2. new[i + 1] = list[(i + 1) - 1]
      BY <1>2, <1>3, <3>1
    <3> QED BY <2>2, <3>1, <3>2 DEF Shift
  <2> QED BY <2>1, <2>2
<1>5. ASSUME NEW j \in DOMAIN new, j # p + 1 PROVE \E i \in DOMAIN list : j = Shift(p, i)
  <2>1. CASE j <= p
    <3>1. j \in DOMAIN list /\ j = Shift(p, j)
      BY <1>1, <1>3, <2>1 DEF Shift
    <3> QED BY <3>1
  <2>2. CASE ~(j <= p)
    <3>1. j - 1 \in DOMAIN list /\ ~(j - 1 <= p) /\ (j - 1) + 1 = j
      BY <1>1, <1>3, <1>5, <2>2
    <3>2. j = Shift(p, j - 1)
      BY <3>1 DEF Shift
    <3> QED BY <3>1, <3>2
  <2> QED BY <2>1, <2>2
<1> QED BY <1>1, <1>2, <1>3, <1>4, <1>5 DEF Inserted, new

LEMMA ShiftIs ==
    ASSUME NEW p \in Nat, NEW i \in Nat, NEW j \in Nat
    PROVE  /\ Shift(p, i) \in Nat /\ Shift(p, i) # p + 1
           /\ i < j <=> Shift(p, i) < Shift(p, j)
           /\ i <= j <=> Shift(p, i) <= Shift(p, j)
           /\ i <= p <=> Shift(p, i) < p + 1
BY DEF Shift

\* Put in where it belongs, it leaves the list in order.
LEMMA InsertKeepsOrder ==
    ASSUME NEW s \in Strategies, NEW acts, NEW A, Ranked(s, acts, A),
           NEW m \in Match, m \notin ToSet(A.list), NEW p, NEW new, Inserted(A.list, new, p, m),
           \A x \in DOMAIN A.list : IF x <= p THEN Before(s, acts, A.list[x], m)
                                              ELSE Before(s, acts, m, A.list[x])
    PROVE  /\ IsInjective(new) /\ ToSet(new) = ToSet(A.list) \cup {m}
           /\ \A i, j \in DOMAIN new : i < j => Before(s, acts, new[i], new[j])
<1> DEFINE list == A.list
<1>1. /\ DOMAIN list = 1..Len(list) /\ DOMAIN new = 1..(Len(list) + 1) /\ Len(list) \in Nat
      /\ p \in Nat /\ p + 1 \in DOMAIN new /\ new[p + 1] = m
      /\ IsInjective(list) /\ \A x \in DOMAIN list : list[x] # m
  BY DEF Ranked, Inserted, ToSet
<1>2. /\ \A i \in DOMAIN list : Shift(p, i) \in DOMAIN new /\ new[Shift(p, i)] = list[i]
      /\ \A j \in DOMAIN new : j # p + 1 => \E i \in DOMAIN list : j = Shift(p, i)
  BY DEF Inserted
<1>3. ToSet(new) = ToSet(list) \cup {m}
  <2>1. ToSet(new) \subseteq ToSet(list) \cup {m}
    <3> SUFFICES ASSUME NEW j \in DOMAIN new PROVE new[j] \in ToSet(list) \cup {m}
      BY DEF ToSet
    <3>1. CASE j = p + 1
      BY <1>1, <3>1
    <3>2. CASE j # p + 1
      BY <1>2, <3>2 DEF ToSet
    <3> QED BY <3>1, <3>2
  <2>2. ToSet(list) \subseteq ToSet(new)
    BY <1>2 DEF ToSet
  <2>3. m \in ToSet(new)
    BY <1>1 DEF ToSet
  <2> QED BY <2>1, <2>2, <2>3
<1>4. ASSUME NEW i \in DOMAIN new, NEW j \in DOMAIN new, i # j PROVE new[i] # new[j]
  <2>1. CASE i = p + 1
    <3>1. PICK y \in DOMAIN list : j = Shift(p, y)
      BY <1>2, <1>4, <2>1
    <3> QED BY <1>1, <1>2, <2>1, <3>1
  <2>2. CASE j = p + 1
    <3>1. PICK x \in DOMAIN list : i = Shift(p, x)
      BY <1>2, <1>4, <2>2
    <3> QED BY <1>1, <1>2, <2>2, <3>1
  <2>3. CASE i # p + 1 /\ j # p + 1
    <3>1. PICK x \in DOMAIN list : i = Shift(p, x)
      BY <1>2, <2>3
    <3>2. PICK y \in DOMAIN list : j = Shift(p, y)
      BY <1>2, <2>3
    <3>3. x # y
      BY <1>4, <3>1, <3>2
    <3>4. list[x] # list[y]
      BY <1>1, <3>3 DEF IsInjective
    <3> QED BY <1>2, <3>1, <3>2, <3>4
  <2> QED BY <2>1, <2>2, <2>3
<1>5. ASSUME NEW i \in DOMAIN new, NEW j \in DOMAIN new, i < j
      PROVE  Before(s, acts, new[i], new[j])
  <2>1. CASE i = p + 1
    <3>1. PICK y \in DOMAIN list : j = Shift(p, y)
      BY <1>1, <1>2, <1>5, <2>1
    <3>2. y \in Nat /\ p + 1 < Shift(p, y)
      BY <1>1, <1>5, <2>1, <3>1
    <3>3. ~(y <= p)
      BY <1>1, <3>2 DEF Shift
    <3> QED BY <1>1, <1>2, <2>1, <3>1, <3>3
  <2>2. CASE j = p + 1
    <3>1. PICK x \in DOMAIN list : i = Shift(p, x)
      BY <1>1, <1>2, <1>5, <2>2
    <3>2. x \in Nat /\ Shift(p, x) < p + 1
      BY <1>1, <1>5, <2>2, <3>1
    <3>3. x <= p
      BY <1>1, <3>2 DEF Shift
    <3> QED BY <1>1, <1>2, <2>2, <3>1, <3>3
  <2>3. CASE i # p + 1 /\ j # p + 1
    <3>1. PICK x \in DOMAIN list : i = Shift(p, x)
      BY <1>2, <2>3
    <3>2. PICK y \in DOMAIN list : j = Shift(p, y)
      BY <1>2, <2>3
    <3>3. x \in Nat /\ y \in Nat
      BY <1>1
    <3>4. x < y
      BY <1>1, <1>5, <3>1, <3>2, <3>3, ShiftIs
    <3>5. Before(s, acts, list[x], list[y])
      BY <3>4 DEF Ranked, InOrder, Before
    <3> QED BY <1>2, <3>1, <3>2, <3>5
  <2> QED BY <2>1, <2>2, <2>3
<1> QED BY <1>3, <1>4, <1>5 DEF IsInjective

\* The ends of the other groups move with it.
LEMMA InsertKeepsEnds ==
    ASSUME NEW acts, NEW list \in Seq(Match), NEW new, NEW p, NEW m, Inserted(list, new, p, m),
           NEW g, NEW i, NEW j, Ends(acts, list, g, i, j), g.salience # acts[m].salience
    PROVE  Ends(acts, new, g, Shift(p, i), Shift(p, j))
<1>1. /\ DOMAIN list = 1..Len(list) /\ Len(list) \in Nat /\ p \in Nat
      /\ i \in DOMAIN list /\ j \in DOMAIN list /\ new[p + 1] = m
  BY DEF Inserted, Ends
<1>2. /\ \A x \in DOMAIN list : Shift(p, x) \in DOMAIN new /\ new[Shift(p, x)] = list[x]
      /\ \A y \in DOMAIN new : y # p + 1 => \E x \in DOMAIN list : y = Shift(p, x)
  BY DEF Inserted
<1>3. ASSUME NEW y \in DOMAIN new, acts[new[y]].salience = g.salience
      PROVE  Shift(p, i) <= y /\ y <= Shift(p, j)
  <2>1. PICK x \in DOMAIN list : y = Shift(p, x)
    BY <1>1, <1>2, <1>3
  <2>2. i <= x /\ x <= j
    BY <1>2, <1>3, <2>1 DEF Ends
  <2> QED BY <1>1, <2>1, <2>2, ShiftIs
<1> QED BY <1>1, <1>2, <1>3 DEF Ends

\* PlaceActivation puts m into the list in order and into its group.
LEMMA PlaceLemma ==
    ASSUME NEW s \in Strategies, NEW acts, NEW A, Ranked(s, acts, A),
           NEW m \in Match, m \notin ToSet(A.list), Proper(acts, ToSet(A.list) \cup {m})
    PROVE  LET B == PlaceActivation(s, acts, A, m)
           IN Ranked(s, acts, B) /\ ToSet(B.list) = ToSet(A.list) \cup {m}
<1> DEFINE list == A.list
           v == acts[m].salience
           H == ReuseOrCreateSalienceGroup(A.groups, v)
           k == FindSalienceGroup(H, v)
           p == PlaceOf(s, acts, [A EXCEPT !.groups = H], k, m)
           before == IF k = 1 THEN NoMatch ELSE H[k - 1].last
           after == IF p = 0 THEN NoMatch ELSE list[p]
           new == InsertAt(list, p + 1, m)
           b == Boundary(A, H, k)
           f == At(list, H[k].first)
           l == At(list, H[k].last)
           J == Joins(H[k], before, after, m)
           K == [H EXCEPT ![k] = J]
           B == [list |-> new, groups |-> K]
<1>1. PlaceActivation(s, acts, A, m) = B
  BY DEF PlaceActivation
<1>2. /\ list \in Seq(Match) /\ DOMAIN list = 1..Len(list) /\ Len(list) \in Nat
      /\ IsInjective(list) /\ v \in Int /\ NoMatch \notin Match
      /\ \A x \in DOMAIN list : list[x] \in Match /\ acts[list[x]].salience \in Int
  BY NoMatchAssumption DEF Ranked, Proper, ToSet
<1>3. Regrouped(A.groups, H, v, k)
  <2>1. A.groups \in Seq(Groups) /\ Falling(A.groups)
    BY DEF Ranked, Fits
  <2> HIDE DEF v
  <2> QED BY <1>2, <2>1, RegroupLemma
<1> HIDE DEF H, k
<1>4. PlaceIsRight(s, acts, A, H, k, m, p, f, l)
  BY <1>3, PlaceIs
<1>5. /\ b \in 0..Len(list)
      /\ \A x \in DOMAIN list : x <= b <=> acts[list[x]].salience > v
      /\ k = 1 => b = 0
      /\ k # 1 => b # 0 /\ list[b] = H[k - 1].last
  <2> HIDE DEF v
  <2> QED BY <1>2, <1>3, BoundaryLemma
<1> HIDE DEF p, b, f, l
<1>6. /\ p \in 0..Len(list) /\ p \in Nat /\ b <= p /\ b \in Nat
      /\ \A x \in DOMAIN list : IF x <= p THEN Before(s, acts, list[x], m)
                                          ELSE Before(s, acts, m, list[x])
  BY <1>2, <1>4, <1>5 DEF PlaceIsRight, b
<1>7. Inserted(list, new, p, m)
  BY <1>2, <1>6, InsertedIs
<1> HIDE DEF new
<1>8. /\ IsInjective(new) /\ ToSet(new) = ToSet(list) \cup {m}
      /\ \A i, j \in DOMAIN new : i < j => Before(s, acts, new[i], new[j])
  BY <1>6, <1>7, InsertKeepsOrder
<1>9. /\ H \in Seq(Groups) /\ Falling(H) /\ k \in DOMAIN H /\ H[k].salience = v
      /\ DOMAIN H = 1..Len(H) /\ Len(H) \in Nat
  BY <1>3 DEF Regrouped
<1>10. /\ new \in Seq(Match) /\ p + 1 \in DOMAIN new /\ new[p + 1] = m
       /\ \A x \in DOMAIN list : Shift(p, x) \in DOMAIN new /\ new[Shift(p, x)] = list[x]
       /\ \A y \in DOMAIN new : y # p + 1 => \E x \in DOMAIN list : y = Shift(p, x)
  BY <1>2, <1>6, <1>7 DEF Inserted
\* The group of m.
<1>11. H[k] \in Groups
  BY <1>9, ElementOfSeq
<1>12. /\ J \in Groups /\ J.salience = v
       /\ J.first = IF after \in {NoMatch, before} THEN m ELSE H[k].first
       /\ J.last = IF H[k].last \in {NoMatch, after} THEN m ELSE H[k].last
  <2> HIDE DEF before, after
  <2> QED BY <1>9, <1>11 DEF Joins, Groups
<1> HIDE DEF J
<1>13. after \in {NoMatch, before} <=> p = b
  <2>1. CASE p = 0
    BY <1>6, <2>1
  <2>2. CASE p # 0
    <3>1. p \in DOMAIN list /\ after = list[p] /\ after # NoMatch
      BY <1>2, <1>6, <2>2
    <3>2. CASE k = 1
      BY <1>5, <2>2, <3>1, <3>2
    <3>3. CASE k # 1
      <4>1. b \in DOMAIN list /\ before = list[b]
        BY <1>2, <1>5, <3>3
      <4> QED BY <1>2, <3>1, <4>1 DEF IsInjective
    <3> QED BY <3>2, <3>3
  <2> QED BY <2>1, <2>2
<1> HIDE DEF before
<1>14. \E i, j \in DOMAIN new : Ends(acts, new, J, i, j)
  <2>1. CASE H[k].first = NoMatch
    <3>1. p = b /\ \A x \in DOMAIN list : acts[list[x]].salience # v
      BY <1>4, <2>1 DEF PlaceIsRight, b
    <3>2. H[k].last = NoMatch
      <4>1. CASE H = A.groups
        <5>1. PICK i \in DOMAIN list, j \in DOMAIN list : Ends(acts, list, H[k], i, j)
          BY <1>9, <4>1 DEF Ranked, Fits
        <5> QED BY <1>2, <2>1, <5>1 DEF Ends
      <4>2. CASE H # A.groups
        BY <1>3, <4>2 DEF Regrouped, Group
      <4> QED BY <4>1, <4>2
    <3>3. J.first = m /\ J.last = m
      BY <1>12, <1>13, <3>1, <3>2
    <3>4. ASSUME NEW y \in DOMAIN new, acts[new[y]].salience = v PROVE y = p + 1
      BY <1>10, <3>1, <3>4
    <3>5. Ends(acts, new, J, p + 1, p + 1)
      BY <1>6, <1>10, <1>12, <3>3, <3>4 DEF Ends
    <3> QED BY <1>10, <3>5
  <2>2. CASE H[k].first # NoMatch
    <3>1. Ends(acts, list, H[k], f, l) /\ b = f - 1 /\ p <= l
      BY <1>4, <2>2 DEF PlaceIsRight, b, f, l
    <3>2. /\ f \in DOMAIN list /\ l \in DOMAIN list /\ list[f] = H[k].first /\ list[l] = H[k].last
          /\ acts[list[f]].salience = v /\ acts[list[l]].salience = v
          /\ \A x \in DOMAIN list : acts[list[x]].salience = v => f <= x /\ x <= l
      BY <1>9, <3>1 DEF Ends
    <3>3. f \in Nat /\ l \in Nat /\ f - 1 <= p /\ f <= l
      BY <1>2, <1>6, <3>1, <3>2
    <3> DEFINE i == IF p = f - 1 THEN p + 1 ELSE Shift(p, f)
               j == IF p = l THEN p + 1 ELSE Shift(p, l)
    <3>4. i \in DOMAIN new /\ j \in DOMAIN new
      BY <1>10, <3>2
    <3>5. new[i] = J.first
      <4>1. CASE p = f - 1
        BY <1>10, <1>12, <1>13, <3>1, <4>1
      <4>2. CASE p # f - 1
        BY <1>10, <1>12, <1>13, <3>1, <3>2, <4>2
      <4> QED BY <4>1, <4>2
    <3>6. H[k].last \in {NoMatch, after} <=> p = l
      <4>1. H[k].last # NoMatch
        BY <1>2, <3>2
      <4>2. CASE p = 0
        BY <1>2, <3>2, <3>3, <4>1, <4>2
      <4>3. CASE p # 0
        <5>1. p \in DOMAIN list /\ after = list[p]
          BY <1>2, <1>6, <4>3
        <5> QED BY <1>2, <3>2, <4>1, <5>1 DEF IsInjective
      <4> QED BY <4>2, <4>3
    <3>7. new[j] = J.last
      <4>1. CASE p = l
        BY <1>10, <1>12, <3>6, <4>1
      <4>2. CASE p # l
        BY <1>10, <1>12, <3>2, <3>6, <4>2
      <4> QED BY <4>1, <4>2
    <3>8. acts[new[i]].salience = v /\ acts[new[j]].salience = v
      BY <1>10, <3>2
    <3>9. ASSUME NEW y \in DOMAIN new, acts[new[y]].salience = v PROVE i <= y /\ y <= j
      <4>1. CASE y = p + 1
        <5>1. i <= p + 1
          BY <1>6, <3>1, <3>3 DEF Shift
        <5>2. p + 1 <= j
          BY <1>6, <3>1, <3>3 DEF Shift
        <5> QED BY <4>1, <5>1, <5>2
      <4>2. CASE y # p + 1
        <5>1. PICK x \in DOMAIN list : y = Shift(p, x)
          BY <1>10, <4>2
        <5>2. f <= x /\ x <= l /\ x \in Nat
          BY <1>2, <1>10, <3>2, <3>9, <5>1
        <5>3. i <= y
          BY <1>6, <3>1, <3>3, <5>1, <5>2 DEF Shift
        <5>4. y <= j
          BY <1>6, <3>1, <3>3, <5>1, <5>2 DEF Shift
        <5> QED BY <5>3, <5>4
      <4> QED BY <4>1, <4>2
    <3> HIDE DEF i, j
    <3>10. Ends(acts, new, J, i, j)
      BY <1>12, <3>4, <3>5, <3>7, <3>8, <3>9 DEF Ends
    <3> QED BY <3>4, <3>10
  <2> QED BY <2>1, <2>2
\* The groups.
<1>15. /\ K \in Seq(Groups) /\ DOMAIN K = DOMAIN H /\ K[k] = J
       /\ \A q \in DOMAIN H : q # k => K[q] = H[q]
       /\ \A q \in DOMAIN H : K[q].salience = H[q].salience
  <2>1. K \in Seq(Groups)
    BY <1>9, <1>12, ExceptSeq
  <2> QED BY <1>9, <1>12, <2>1
<1> HIDE DEF K
<1>16. \A q \in DOMAIN H : q # k => \E r \in DOMAIN A.groups : H[q] = A.groups[r]
  BY <1>3 DEF Regrouped
<1>17. ASSUME NEW q \in DOMAIN K PROVE \E i, j \in DOMAIN new : Ends(acts, new, K[q], i, j)
  <2>1. CASE q = k
    BY <1>14, <1>15, <2>1
  <2>2. CASE q # k
    <3>1. PICK r \in DOMAIN A.groups : K[q] = A.groups[r]
      BY <1>15, <1>16, <2>2
    <3>2. PICK i \in DOMAIN list, j \in DOMAIN list : Ends(acts, list, K[q], i, j)
      BY <3>1 DEF Ranked, Fits
    <3>3. K[q].salience # v
      <4>1. K[q].salience \in Int
        <5>1. K[q] \in Groups
          BY <1>15, ElementOfSeq
        <5> QED BY <5>1 DEF Groups
      <4>2. q < k \/ k < q
        BY <1>9, <1>15, <2>2
      <4> QED BY <1>2, <1>9, <1>15, <4>1, <4>2 DEF Falling
    <3>4. Ends(acts, new, K[q], Shift(p, i), Shift(p, j))
      BY <1>2, <1>7, <3>2, <3>3, InsertKeepsEnds
    <3> QED BY <1>10, <3>4
  <2> QED BY <2>1, <2>2
<1>18. ASSUME NEW y \in DOMAIN new
       PROVE  \E q \in DOMAIN K : K[q].salience = acts[new[y]].salience
  <2>1. CASE y = p + 1
    BY <1>9, <1>10, <1>15, <2>1
  <2>2. CASE y # p + 1
    <3>1. PICK x \in DOMAIN list : new[y] = list[x]
      BY <1>10, <2>2
    <3>2. PICK r \in DOMAIN A.groups : A.groups[r].salience = acts[list[x]].salience
      BY DEF Ranked, Fits
    <3>3. PICK q \in DOMAIN H : H[q] = A.groups[r]
      <4>1. CASE H = A.groups
        BY <3>2, <4>1
      <4>2. CASE H # A.groups
        <5>1. Len(H) = Len(A.groups) + 1 /\ (H[r] = A.groups[r] \/ H[r + 1] = A.groups[r])
          BY <1>3, <3>2, <4>2 DEF Regrouped
        <5>2. DOMAIN A.groups = 1..Len(A.groups) /\ Len(A.groups) \in Nat
          BY DEF Ranked
        <5>3. r \in DOMAIN H /\ r + 1 \in DOMAIN H
          BY <1>9, <5>1, <5>2
        <5> QED BY <5>1, <5>3
      <4> QED BY <4>1, <4>2
    <3> QED BY <1>15, <3>1, <3>2, <3>3
  <2> QED BY <2>1, <2>2
<1>19. Falling(K)
  BY <1>9, <1>15 DEF Falling
<1>20. Fits(acts, new, K)
  BY <1>17, <1>18, <1>19 DEF Fits
<1>21. Ranked(s, acts, B)
  <2>1. B.list = new /\ B.groups = K
    OBVIOUS
  <2>2. InOrder(s, acts, B)
    BY <1>8 DEF InOrder, Before
  <2> QED BY <1>8, <1>10, <1>15, <1>20, <2>1, <2>2 DEF Ranked
<1> QED BY <1>1, <1>8, <1>21

\* With the i-th taken out, what was at x is at Back(i, x).
Back(i, x) == IF x < i THEN x ELSE x - 1

Removed(list, new, i) ==
    /\ i \in DOMAIN list /\ new \in Seq(Match) /\ Len(new) = Len(list) - 1
    /\ \A x \in DOMAIN list : x # i => Back(i, x) \in DOMAIN new /\ new[Back(i, x)] = list[x]
    /\ \A y \in DOMAIN new : \E x \in DOMAIN list : x # i /\ y = Back(i, x)

LEMMA RemovedIs ==
    ASSUME NEW list \in Seq(Match), NEW i \in DOMAIN list
    PROVE  Removed(list, RemoveAt(list, i), i)
<1> DEFINE new == RemoveAt(list, i)
<1>1. i \in 1..Len(list) /\ Len(list) \in Nat /\ DOMAIN list = 1..Len(list)
  OBVIOUS
<1>2. /\ new \in Seq(Match) /\ Len(new) = Len(list) - 1
      /\ \A j \in 1..(Len(list) - 1) : new[j] = IF j < i THEN list[j] ELSE list[j + 1]
  BY <1>1, RemoveAtProperties
<1> HIDE DEF new
<1>3. DOMAIN new = 1..(Len(list) - 1)
  BY <1>1, <1>2
<1>4. ASSUME NEW x \in DOMAIN list, x # i PROVE Back(i, x) \in DOMAIN new /\ new[Back(i, x)] = list[x]
  <2>1. CASE x < i
    BY <1>1, <1>2, <1>3, <2>1 DEF Back
  <2>2. CASE ~(x < i)
    <3>1. x - 1 \in DOMAIN new /\ ~(x - 1 < i) /\ (x - 1) + 1 = x
      BY <1>1, <1>3, <1>4, <2>2
    <3>2. new[x - 1] = list[(x - 1) + 1]
      BY <1>2, <1>3, <3>1
    <3> QED BY <2>2, <3>1, <3>2 DEF Back
  <2> QED BY <2>1, <2>2
<1>5. ASSUME NEW y \in DOMAIN new PROVE \E x \in DOMAIN list : x # i /\ y = Back(i, x)
  <2>1. CASE y < i
    <3>1. y \in DOMAIN list /\ y # i /\ y = Back(i, y)
      BY <1>1, <1>3, <2>1 DEF Back
    <3> QED BY <3>1
  <2>2. CASE ~(y < i)
    <3>1. y + 1 \in DOMAIN list /\ y + 1 # i /\ ~(y + 1 < i) /\ (y + 1) - 1 = y
      BY <1>1, <1>3, <2>2
    <3>2. y = Back(i, y + 1)
      BY <3>1 DEF Back
    <3> QED BY <3>1, <3>2
  <2> QED BY <2>1, <2>2
<1> QED BY <1>1, <1>2, <1>4, <1>5 DEF Removed, new

LEMMA BackIs ==
    ASSUME NEW i \in Nat, NEW x \in Nat, NEW y \in Nat, x # i, y # i
    PROVE  /\ x < y <=> Back(i, x) < Back(i, y)
           /\ x <= y <=> Back(i, x) <= Back(i, y)
BY DEF Back

LEMMA RemoveKeepsOrder ==
    ASSUME NEW s, NEW acts, NEW A, Ranked(s, acts, A), NEW i, NEW new, Removed(A.list, new, i)
    PROVE  /\ IsInjective(new) /\ ToSet(new) = ToSet(A.list) \ {A.list[i]}
           /\ \A j, k \in DOMAIN new : j < k => Before(s, acts, new[j], new[k])
<1> DEFINE list == A.list
<1>1. /\ DOMAIN list = 1..Len(list) /\ Len(list) \in Nat
      /\ IsInjective(list) /\ i \in DOMAIN list /\ i \in Nat
  BY DEF Ranked, Removed
<1>2. /\ \A x \in DOMAIN list : x # i => Back(i, x) \in DOMAIN new /\ new[Back(i, x)] = list[x]
      /\ \A y \in DOMAIN new : \E x \in DOMAIN list : x # i /\ y = Back(i, x)
  BY DEF Removed
<1>3. \A y \in DOMAIN new : \E x \in DOMAIN list : x # i /\ y = Back(i, x) /\ new[y] = list[x]
  BY <1>2
<1>4. \A x, y \in DOMAIN list : x # y => list[x] # list[y]
  BY <1>1 DEF IsInjective
<1>5. ToSet(new) = ToSet(list) \ {list[i]}
  <2>1. ToSet(new) \subseteq ToSet(list) \ {list[i]}
    BY <1>1, <1>3, <1>4 DEF ToSet
  <2>2. ToSet(list) \ {list[i]} \subseteq ToSet(new)
    BY <1>2 DEF ToSet
  <2> QED BY <2>1, <2>2
<1>6. ASSUME NEW j \in DOMAIN new, NEW k \in DOMAIN new
      PROVE  /\ j # k => new[j] # new[k]
             /\ j < k => Before(s, acts, new[j], new[k])
  <2>1. PICK x \in DOMAIN list : x # i /\ j = Back(i, x) /\ new[j] = list[x]
    BY <1>3
  <2>2. PICK y \in DOMAIN list : y # i /\ k = Back(i, y) /\ new[k] = list[y]
    BY <1>3
  <2>3. j < k => x < y
    BY <1>1, <2>1, <2>2, BackIs
  <2>4. x < y => Before(s, acts, list[x], list[y])
    BY DEF Ranked, InOrder, Before
  <2> QED BY <1>4, <2>1, <2>2, <2>3, <2>4
<1> QED BY <1>5, <1>6 DEF IsInjective

LEMMA RemoveKeepsEnds ==
    ASSUME NEW acts, NEW list \in Seq(Match), NEW new, NEW i, Removed(list, new, i),
           NEW g, NEW a, NEW z, Ends(acts, list, g, a, z), g.salience # acts[list[i]].salience
    PROVE  Ends(acts, new, g, Back(i, a), Back(i, z))
<1>1. /\ DOMAIN list = 1..Len(list) /\ Len(list) \in Nat /\ i \in DOMAIN list
      /\ a \in DOMAIN list /\ z \in DOMAIN list /\ a # i /\ z # i
  BY DEF Removed, Ends
<1>2. /\ \A x \in DOMAIN list : x # i => Back(i, x) \in DOMAIN new /\ new[Back(i, x)] = list[x]
      /\ \A y \in DOMAIN new : \E x \in DOMAIN list : x # i /\ y = Back(i, x)
  BY DEF Removed
<1>3. ASSUME NEW y \in DOMAIN new, acts[new[y]].salience = g.salience
      PROVE  Back(i, a) <= y /\ y <= Back(i, z)
  <2>1. PICK x \in DOMAIN list : x # i /\ y = Back(i, x)
    BY <1>2
  <2>2. a <= x /\ x <= z
    BY <1>2, <1>3, <2>1 DEF Ends
  <2> QED BY <1>1, <2>1, <2>2, BackIs
<1> QED BY <1>1, <1>2, <1>3 DEF Ends

\* DetachActivation takes m off the list and out of its group.
LEMMA DetachLemma ==
    ASSUME NEW s, NEW acts, NEW A, Ranked(s, acts, A), NEW m \in ToSet(A.list)
    PROVE  LET B == DetachActivation(acts, A, m)
           IN Ranked(s, acts, B) /\ ToSet(B.list) = ToSet(A.list) \ {m}
<1> DEFINE list == A.list
           G == A.groups
           v == acts[m].salience
           k == FindSalienceGroup(G, v)
           i == At(list, m)
           new == RemoveAt(list, i)
           g == G[k]
           K == Leaves(G, k, list, i)
           B == [list |-> new, groups |-> K]
<1>1. /\ list \in Seq(Match) /\ DOMAIN list = 1..Len(list) /\ Len(list) \in Nat
      /\ IsInjective(list)
      /\ \A x \in DOMAIN list : list[x] \in Match /\ acts[list[x]].salience \in Int
      /\ \A x, y \in DOMAIN list : x # y => list[x] # list[y]
  BY DEF Ranked, Proper, ToSet, IsInjective
<1>2. i \in DOMAIN list /\ list[i] = m
  <2>1. PICK j \in DOMAIN list : m = list[j]
    BY DEF ToSet
  <2> QED BY <1>1, <2>1, AtIs
<1>3. v \in Int
  BY <1>1, <1>2
<1>4. /\ G \in Seq(Groups) /\ Falling(G) /\ DOMAIN G = 1..Len(G) /\ Len(G) \in Nat
      /\ \A x \in DOMAIN list : \E r \in DOMAIN G : G[r].salience = acts[list[x]].salience
      /\ \A r \in DOMAIN G : \E a, z \in DOMAIN list : Ends(acts, list, G[r], a, z)
  BY DEF Ranked, Fits
<1> HIDE DEF i
<1>5. k \in DOMAIN G /\ g.salience = v
  <2>1. PICK r \in DOMAIN G : G[r].salience = v
    BY <1>2, <1>4
  <2> HIDE DEF v
  <2>2. FindSalienceGroup(G, v) = r
    BY <1>3, <1>4, <2>1, FindIs
  <2> QED BY <2>1, <2>2
<1>6. DetachActivation(acts, A, m) = B
  <2>1. k # 0
    BY <1>4, <1>5
  <2> HIDE DEF K
  <2> QED BY <2>1 DEF DetachActivation, i, K
<1> HIDE DEF k, new
<1>7. Removed(list, new, i)
  BY <1>1, <1>2, RemovedIs DEF new
<1>8. /\ IsInjective(new) /\ ToSet(new) = ToSet(list) \ {m}
      /\ \A x, y \in DOMAIN new : x < y => Before(s, acts, new[x], new[y])
  BY <1>2, <1>7, RemoveKeepsOrder
<1>9. /\ new \in Seq(Match)
      /\ \A x \in DOMAIN list : x # i => Back(i, x) \in DOMAIN new /\ new[Back(i, x)] = list[x]
      /\ \A y \in DOMAIN new : \E x \in DOMAIN list : x # i /\ y = Back(i, x) /\ new[y] = list[x]
  BY <1>7 DEF Removed
<1>10. PICK f \in DOMAIN list, l \in DOMAIN list : Ends(acts, list, g, f, l)
  BY <1>4, <1>5
<1>11. /\ list[f] = g.first /\ list[l] = g.last
       /\ acts[list[f]].salience = v /\ acts[list[l]].salience = v
       /\ \A x \in DOMAIN list : acts[list[x]].salience = v => f <= x /\ x <= l
       /\ f <= i /\ i <= l
  BY <1>2, <1>5, <1>10 DEF Ends
<1>12. ASSUME NEW r \in DOMAIN G, r # k
       PROVE  /\ G[r].salience # v
              /\ \E a, z \in DOMAIN new : Ends(acts, new, G[r], a, z)
  <2>1. G[r].salience # v
    <3>1. G[r].salience \in Int
      <4>1. G[r] \in Groups
        BY <1>4, ElementOfSeq
      <4> QED BY <4>1 DEF Groups
    <3>2. r < k \/ k < r
      BY <1>4, <1>5, <1>12
    <3>3. CASE r < k
      <4>1. G[r].salience > G[k].salience
        BY <1>4, <1>5, <3>3 DEF Falling
      <4> QED BY <1>3, <1>5, <3>1, <4>1
    <3>4. CASE k < r
      <4>1. G[k].salience > G[r].salience
        BY <1>4, <1>5, <3>4 DEF Falling
      <4> QED BY <1>3, <1>5, <3>1, <4>1
    <3> QED BY <3>2, <3>3, <3>4
  <2>2. PICK a \in DOMAIN list, z \in DOMAIN list : Ends(acts, list, G[r], a, z)
    BY <1>4
  <2>3. a # i /\ z # i
    BY <1>2, <2>1, <2>2 DEF Ends
  <2>4. Ends(acts, new, G[r], Back(i, a), Back(i, z))
    BY <1>1, <1>2, <1>7, <2>1, <2>2, RemoveKeepsEnds
  <2> QED BY <1>9, <2>1, <2>3, <2>4
<1>13. K \in Seq(Groups) /\ Fits(acts, new, K)
  <2>1. CASE g.first = g.last
    <3>1. f = l /\ f = i
      BY <1>1, <1>2, <1>11, <2>1
    <3>2. K = RemoveAt(G, k)
      BY <2>1 DEF Leaves
    <3>3. k \in 1..Len(G)
      BY <1>4, <1>5
    <3> HIDE DEF K
    <3>4. /\ K \in Seq(Groups) /\ Len(K) = Len(G) - 1
          /\ \A j \in 1..(Len(G) - 1) : K[j] = IF j < k THEN G[j] ELSE G[j + 1]
      BY <1>4, <3>2, <3>3, RemoveAtProperties
    <3>5. /\ DOMAIN K = 1..(Len(G) - 1) /\ DOMAIN G = 1..Len(G) /\ Len(G) \in Nat
          /\ k \in Nat /\ k >= 1 /\ k <= Len(G)
      BY <1>4, <3>3, <3>4
    <3>6. ASSUME NEW j \in DOMAIN K PROVE \E r \in DOMAIN G : r # k /\ K[j] = G[r] /\ j = Back(k, r)
      <4>1. CASE j < k
        <5>1. j \in DOMAIN G /\ K[j] = G[j] /\ j # k /\ j = Back(k, j)
          BY <3>4, <3>5, <4>1 DEF Back
        <5> QED BY <5>1
      <4>2. CASE ~(j < k)
        <5>1. j + 1 \in DOMAIN G /\ j + 1 # k /\ ~(j + 1 < k) /\ (j + 1) - 1 = j
          BY <3>5, <4>2
        <5>2. K[j] = G[j + 1] /\ j = Back(k, j + 1)
          BY <3>4, <3>5, <4>2, <5>1 DEF Back
        <5> QED BY <5>1, <5>2
      <4> QED BY <4>1, <4>2
    <3>7. ASSUME NEW r \in DOMAIN G, r # k PROVE \E j \in DOMAIN K : K[j] = G[r]
      <4>1. CASE r < k
        <5>1. r \in DOMAIN K /\ K[r] = G[r]
          BY <3>4, <3>5, <4>1
        <5> QED BY <5>1
      <4>2. CASE ~(r < k)
        <5>1. r - 1 \in DOMAIN K /\ ~(r - 1 < k) /\ (r - 1) + 1 = r
          BY <3>5, <3>7, <4>2
        <5>2. K[r - 1] = G[(r - 1) + 1]
          BY <3>4, <3>5, <5>1
        <5> QED BY <5>1, <5>2
      <4> QED BY <4>1, <4>2
    <3>8. Falling(K)
      <4> SUFFICES ASSUME NEW j \in DOMAIN K, NEW n \in DOMAIN K, j < n
                   PROVE  K[j].salience > K[n].salience
        BY DEF Falling
      <4>1. PICK a \in DOMAIN G : a # k /\ K[j] = G[a] /\ j = Back(k, a)
        BY <3>6
      <4>2. PICK z \in DOMAIN G : z # k /\ K[n] = G[z] /\ n = Back(k, z)
        BY <3>6
      <4>3. a \in Nat /\ z \in Nat /\ k \in Nat
        BY <3>5
      <4>4. a < z
        BY <4>1, <4>2, <4>3, BackIs
      <4> QED BY <1>4, <4>1, <4>2, <4>4 DEF Falling
    <3>9. ASSUME NEW y \in DOMAIN new
          PROVE  \E j \in DOMAIN K : K[j].salience = acts[new[y]].salience
      <4>1. PICK x \in DOMAIN list : x # i /\ new[y] = list[x]
        BY <1>9
      <4>2. PICK r \in DOMAIN G : G[r].salience = acts[list[x]].salience
        BY <1>4
      <4>3. ASSUME r = k PROVE FALSE
        <5>1. f <= x /\ x <= l
          BY <1>5, <1>11, <4>2, <4>3
        <5> QED BY <1>1, <3>1, <4>1, <5>1
      <4> QED BY <3>7, <4>1, <4>2, <4>3
    <3>10. \A j \in DOMAIN K : \E a, z \in DOMAIN new : Ends(acts, new, K[j], a, z)
      BY <1>12, <3>6
    <3> QED BY <3>4, <3>8, <3>9, <3>10 DEF Fits
  <2>2. CASE g.first # g.last
    <3> DEFINE J == [g EXCEPT !.first = IF @ = list[i] THEN list[i + 1] ELSE @,
                              !.last = IF @ = list[i] THEN list[i - 1] ELSE @]
    <3>1. f < l /\ f \in Nat /\ l \in Nat /\ i \in Nat /\ f >= 1 /\ l <= Len(list)
      <4>1. f # l
        BY <1>11, <2>2
      <4> QED BY <1>1, <1>2, <1>11, <4>1
    <3>2. K = [G EXCEPT ![k] = J]
      <4>1. G[k] \in Groups
        BY <1>4, <1>5, ElementOfSeq
      <4> QED BY <1>4, <1>5, <2>2, <4>1 DEF Leaves, Groups
    <3>3. /\ (g.first = list[i] <=> f = i) /\ (g.last = list[i] <=> l = i)
          /\ i = f => i + 1 \in DOMAIN list
          /\ i = l => i - 1 \in DOMAIN list
      BY <1>1, <1>2, <1>11, <3>1
    <3>4. /\ J \in Groups /\ J.salience = v
          /\ J.first = IF f = i THEN list[i + 1] ELSE list[f]
          /\ J.last = IF l = i THEN list[i - 1] ELSE list[l]
      <4>1. g \in Groups
        BY <1>4, <1>5, ElementOfSeq
      <4>2. /\ f = i => list[i + 1] \in Match
            /\ l = i => list[i - 1] \in Match
            /\ g.first = list[f] /\ g.last = list[l]
        BY <1>1, <1>11, <3>3
      <4> QED BY <1>5, <3>3, <4>1, <4>2 DEF Groups
    <3> HIDE DEF J, K
    <3>5. /\ K \in Seq(Groups) /\ DOMAIN K = DOMAIN G /\ K[k] = J
          /\ \A r \in DOMAIN G : r # k => K[r] = G[r]
          /\ \A r \in DOMAIN G : K[r].salience = G[r].salience
      <4>1. K \in Seq(Groups)
        BY <1>4, <1>5, <3>2, <3>4, ExceptSeq
      <4> QED BY <1>4, <1>5, <3>2, <3>4, <4>1
    <3>6. Falling(K)
      BY <1>4, <3>5 DEF Falling
    <3>7. ASSUME NEW y \in DOMAIN new
          PROVE  \E j \in DOMAIN K : K[j].salience = acts[new[y]].salience
      <4>1. PICK x \in DOMAIN list : x # i /\ new[y] = list[x]
        BY <1>9
      <4>2. PICK r \in DOMAIN G : G[r].salience = acts[list[x]].salience
        BY <1>4
      <4> QED BY <3>5, <4>1, <4>2
    <3>8. f \in DOMAIN new /\ new[f] = J.first /\ acts[new[f]].salience = v
      <4>1. CASE f = i
        <5>1. f + 1 \in DOMAIN list /\ f + 1 # i /\ Back(i, f + 1) = f
          BY <1>1, <3>1, <3>3, <4>1 DEF Back
        <5>2. f \in DOMAIN new /\ new[f] = list[f + 1]
          BY <1>9, <5>1
        <5>3. f <= f + 1 /\ f + 1 <= l
          BY <3>1
        <5>4. acts[list[f]].salience >= acts[list[f + 1]].salience
              /\ acts[list[f + 1]].salience >= acts[list[l]].salience
          BY <5>1, <5>3, SalienceFalls
        <5>5. acts[list[f + 1]].salience \in Int
          BY <1>1, <5>1
        <5>6. acts[list[f + 1]].salience = v
          BY <1>3, <1>11, <5>4, <5>5
        <5> QED BY <3>4, <4>1, <5>2, <5>6
      <4>2. CASE f # i
        <5>1. Back(i, f) = f
          BY <1>11, <3>1, <4>2 DEF Back
        <5> QED BY <1>9, <1>11, <3>4, <4>2, <5>1
      <4> QED BY <4>1, <4>2
    <3>9. l - 1 \in DOMAIN new /\ new[l - 1] = J.last /\ acts[new[l - 1]].salience = v
      <4>1. CASE l = i
        <5>1. l - 1 \in DOMAIN list /\ l - 1 # i /\ Back(i, l - 1) = l - 1
          BY <1>1, <3>1, <3>3, <4>1 DEF Back
        <5>2. l - 1 \in DOMAIN new /\ new[l - 1] = list[l - 1]
          BY <1>9, <5>1
        <5>3. f <= l - 1 /\ l - 1 <= l
          BY <3>1
        <5>4. acts[list[f]].salience >= acts[list[l - 1]].salience
              /\ acts[list[l - 1]].salience >= acts[list[l]].salience
          BY <5>1, <5>3, SalienceFalls
        <5>5. acts[list[l - 1]].salience \in Int
          BY <1>1, <5>1
        <5>6. acts[list[l - 1]].salience = v
          BY <1>3, <1>11, <5>4, <5>5
        <5> QED BY <3>4, <4>1, <5>2, <5>6
      <4>2. CASE l # i
        <5>1. Back(i, l) = l - 1
          BY <1>11, <3>1, <4>2 DEF Back
        <5> QED BY <1>9, <1>11, <3>4, <4>2, <5>1
      <4> QED BY <4>1, <4>2
    <3>10. ASSUME NEW y \in DOMAIN new, acts[new[y]].salience = v PROVE f <= y /\ y <= l - 1
      <4>1. PICK x \in DOMAIN list : x # i /\ y = Back(i, x) /\ new[y] = list[x]
        BY <1>9
      <4>2. f <= x /\ x <= l /\ x \in Nat
        BY <1>1, <1>11, <3>10, <4>1
      <4> QED BY <1>11, <3>1, <4>1, <4>2 DEF Back
    <3>11. Ends(acts, new, J, f, l - 1)
      BY <3>4, <3>8, <3>9, <3>10 DEF Ends
    <3>12. ASSUME NEW r \in DOMAIN K PROVE \E a, z \in DOMAIN new : Ends(acts, new, K[r], a, z)
      BY <1>12, <3>5, <3>8, <3>9, <3>11
    <3> QED BY <3>5, <3>6, <3>7, <3>12 DEF Fits
  <2> QED BY <2>1, <2>2
<1> HIDE DEF K
<1>14. Ranked(s, acts, B)
  <2>1. B.list = new /\ B.groups = K
    OBVIOUS
  <2>2. InOrder(s, acts, B)
    BY <1>8 DEF InOrder, Before
  <2>3. Proper(acts, ToSet(new))
    BY <1>8 DEF Ranked, Proper
  <2> QED BY <1>8, <1>9, <1>13, <2>1, <2>2, <2>3 DEF Ranked
<1> QED BY <1>6, <1>8, <1>14

LEMMA NothingRanked ==
    ASSUME NEW s, NEW acts
    PROVE  Ranked(s, acts, NoAgenda) /\ ToSet(NoAgenda.list) = {}
<1>1. /\ NoAgenda.list = << >> /\ NoAgenda.groups = << >>
      /\ NoAgenda = [list |-> NoAgenda.list, groups |-> NoAgenda.groups]
  BY DEF NoAgenda
<1>2. /\ << >> \in Seq(Match) /\ << >> \in Seq(Groups)
      /\ DOMAIN << >> = {}
  OBVIOUS
<1> HIDE DEF NoAgenda
<1>3. ToSet(NoAgenda.list) = {} /\ IsInjective(NoAgenda.list)
  BY <1>1, <1>2 DEF ToSet, IsInjective
<1>4. Proper(acts, {})
  BY DEF Proper
<1>5. InOrder(s, acts, NoAgenda)
  BY <1>1, <1>2 DEF InOrder
<1>6. Fits(acts, NoAgenda.list, NoAgenda.groups)
  BY <1>1, <1>2 DEF Fits, Falling
<1> QED BY <1>1, <1>2, <1>3, <1>4, <1>5, <1>6 DEF Ranked

\* ReorderAgenda's loop ends: there is the function it is defined by.
LEMMA ReorderSteps ==
    ASSUME NEW s, NEW acts, NEW A, A.list \in Seq(Match)
    PROVE  \E F : /\ F = [n \in 0..Len(A.list) |->
                            IF n = 0 THEN NoAgenda
                            ELSE PlaceActivation(s, acts, F[n - 1], A.list[n])]
                  /\ ReorderAgenda(s, acts, A) = F[Len(A.list)]
<1> DEFINE N == Len(A.list)
           Step(F, n) == IF n = 0 THEN NoAgenda
                         ELSE PlaceActivation(s, acts, F[n - 1], A.list[n])
           T == {n \in 0..N : \E F : F = [i \in 0..n |-> Step(F, i)]}
<1>1. N \in Nat
  OBVIOUS
<1>2. 0 \in T
  <2> DEFINE F == [i \in 0..0 |-> NoAgenda]
  <2>1. \A i \in 0..0 : i = 0
    OBVIOUS
  <2>2. F = [i \in 0..0 |-> Step(F, i)]
    BY <2>1
  <2> HIDE DEF F, Step
  <2>3. \E G : G = [i \in 0..0 |-> Step(G, i)]
    BY <2>2
  <2> QED BY <1>1, <2>3
<1>3. ASSUME NEW n \in 0..N - 1, n \in T PROVE n + 1 \in T
  <2>1. PICK F : F = [i \in 0..n |-> Step(F, i)]
    BY <1>3
  <2> DEFINE G == [i \in 0..n + 1 |-> IF i <= n THEN F[i] ELSE PlaceActivation(s, acts, F[n], A.list[n + 1])]
  <2>2. ASSUME NEW i \in 0..n + 1 PROVE G[i] = Step(G, i)
    <3>1. CASE i <= n
      <4>1. i \in 0..n /\ G[i] = F[i]
        BY <3>1
      <4> HIDE DEF G
      <4>2. F[i] = Step(F, i)
        <5> HIDE DEF Step
        <5> QED BY <2>1, <4>1
      <4>3. i # 0 => G[i - 1] = F[i - 1]
        <5> USE DEF G
        <5>1. i # 0 => i - 1 \in 0..n + 1 /\ i - 1 <= n
          BY <4>1
        <5> QED BY <5>1
      <4> QED BY <4>1, <4>2, <4>3
    <3>2. CASE ~(i <= n)
      <4>1. i = n + 1 /\ i # 0 /\ i - 1 = n /\ n \in 0..n + 1 /\ n <= n
        BY <3>2
      <4>2. G[n] = F[n] /\ G[i] = PlaceActivation(s, acts, F[n], A.list[n + 1])
        BY <3>2, <4>1
      <4> HIDE DEF G
      <4> QED BY <4>1, <4>2
    <3> QED BY <3>1, <3>2
  <2>3. G = [i \in 0..n + 1 |-> Step(G, i)]
    <3> HIDE DEF Step
    <3> QED BY <2>2
  <2> HIDE DEF G, Step
  <2>4. \E K : K = [i \in 0..n + 1 |-> Step(K, i)]
    BY <2>3
  <2>5. n + 1 \in 0..N
    BY <1>1
  <2> QED BY <2>4, <2>5
<1>4. N \in T
  <2> HIDE DEF T, N
  <2>1. \A i \in 0..N : i \in T
    BY <1>1, <1>2, <1>3, UpTo
  <2> QED BY <1>1, <2>1
<1> DEFINE placed == CHOOSE F : F = [n \in 0..N |-> Step(F, n)]
<1>5. placed = [n \in 0..N |-> Step(placed, n)]
  <2> HIDE DEF Step, N
  <2>1. \E F : F = [n \in 0..N |-> Step(F, n)]
    BY <1>4
  <2> QED BY <2>1
<1>6. ReorderAgenda(s, acts, A) = placed[N]
  BY DEF ReorderAgenda
<1> HIDE DEF placed
<1> QED BY <1>5, <1>6

\* ReorderAgenda puts the same activations in order, whatever order they were in.
LEMMA ReorderLemma ==
    ASSUME NEW s \in Strategies, NEW acts, NEW A, A.list \in Seq(Match),
           IsInjective(A.list), Proper(acts, ToSet(A.list))
    PROVE  LET B == ReorderAgenda(s, acts, A)
           IN Ranked(s, acts, B) /\ ToSet(B.list) = ToSet(A.list)
<1> DEFINE list == A.list
           N == Len(list)
           First(n) == {list[i] : i \in 1..n}
<1>1. /\ N \in Nat /\ DOMAIN list = 1..N
      /\ \A i \in 1..N : list[i] \in Match /\ list[i] \in ToSet(list)
      /\ \A i, j \in 1..N : i # j => list[i] # list[j]
  BY DEF ToSet, IsInjective
<1>2. PICK F : /\ F = [n \in 0..N |-> IF n = 0 THEN NoAgenda
                                      ELSE PlaceActivation(s, acts, F[n - 1], list[n])]
               /\ ReorderAgenda(s, acts, A) = F[N]
  BY ReorderSteps
<1> DEFINE T == {n \in 0..N : Ranked(s, acts, F[n]) /\ ToSet(F[n].list) = First(n)}
<1>3. 0 \in T
  <2>1. F[0] = NoAgenda
    BY <1>1, <1>2
  <2>2. First(0) = {}
    OBVIOUS
  <2>3. Ranked(s, acts, F[0]) /\ ToSet(F[0].list) = {}
    BY <2>1, NothingRanked
  <2>4. 0 \in 0..N
    BY <1>1
  <2> QED BY <2>2, <2>3, <2>4
<1>4. ASSUME NEW n \in 0..N - 1, n \in T PROVE n + 1 \in T
  <2> DEFINE m == list[n + 1]
  <2>1. n \in Nat /\ n + 1 \in 0..N /\ n + 1 \in 1..N /\ n + 1 # 0 /\ (n + 1) - 1 = n
    BY <1>1
  <2>2. F[n + 1] = PlaceActivation(s, acts, F[n], m)
    BY <1>2, <2>1
  <2>3. Ranked(s, acts, F[n]) /\ ToSet(F[n].list) = First(n)
    BY <1>4
  <2>4. m \in Match /\ m \notin First(n)
    <3>1. \A i \in 1..n : i \in 1..N /\ i # n + 1
      BY <2>1
    <3> QED BY <1>1, <2>1, <3>1
  <2>5. First(n) \cup {m} = First(n + 1)
    <3>1. \A i \in 1..n + 1 : i \in 1..n \/ i = n + 1
      BY <2>1
    <3>2. \A i \in 1..n : i \in 1..n + 1
      BY <2>1
    <3>3. n + 1 \in 1..n + 1
      BY <2>1
    <3> QED BY <3>1, <3>2, <3>3
  <2>6. First(n) \cup {m} \subseteq ToSet(list)
    BY <1>1, <2>1
  <2>7. Proper(acts, First(n) \cup {m})
    BY <2>6 DEF Proper
  <2> HIDE DEF m, First
  <2>8. m \notin ToSet(F[n].list) /\ Proper(acts, ToSet(F[n].list) \cup {m})
    BY <2>3, <2>4, <2>7
  <2>9. LET B == PlaceActivation(s, acts, F[n], m)
        IN Ranked(s, acts, B) /\ ToSet(B.list) = ToSet(F[n].list) \cup {m}
    BY <2>3, <2>4, <2>8, PlaceLemma
  <2> QED BY <2>1, <2>2, <2>3, <2>5, <2>9
<1>5. N \in T
  <2> HIDE DEF T, N
  <2>1. \A i \in 0..N : i \in T
    BY <1>1, <1>3, <1>4, UpTo
  <2> QED BY <1>1, <2>1
<1>6. First(N) = ToSet(list)
  BY <1>1 DEF ToSet
<1> QED BY <1>2, <1>5, <1>6

\* F[n] is the agenda A after the first n of its activations have been looked at.
ClearsBy(F, acts, A, gone) ==
    F = [n \in 0..Len(A.list) |->
            IF n = 0 THEN A
            ELSE IF A.list[n] \in gone THEN DetachActivation(acts, F[n - 1], A.list[n])
            ELSE F[n - 1]]

LEMMA ClearSteps ==
    ASSUME NEW acts, NEW A, A.list \in Seq(Match), NEW gone
    PROVE  \E F : /\ ClearsBy(F, acts, A, gone)
                  /\ ClearRuleFromAgenda(acts, A, gone) = F[Len(A.list)]
<1> DEFINE N == Len(A.list)
           Next1(B, n) == IF A.list[n] \in gone THEN DetachActivation(acts, B, A.list[n]) ELSE B
           Step(F, n) == IF n = 0 THEN A ELSE Next1(F[n - 1], n)
           T == {n \in 0..N : \E F : F = [i \in 0..n |-> Step(F, i)]}
<1>1. N \in Nat
  OBVIOUS
<1>2. 0 \in T
  <2> DEFINE F == [i \in 0..0 |-> A]
  <2>1. \A i \in 0..0 : i = 0
    OBVIOUS
  <2>2. F = [i \in 0..0 |-> Step(F, i)]
    BY <2>1
  <2> HIDE DEF F, Step
  <2>3. \E G : G = [i \in 0..0 |-> Step(G, i)]
    BY <2>2
  <2> QED BY <1>1, <2>3
<1>3. ASSUME NEW n \in 0..N - 1, n \in T PROVE n + 1 \in T
  <2>1. PICK F : F = [i \in 0..n |-> Step(F, i)]
    BY <1>3
  <2> DEFINE G == [i \in 0..n + 1 |-> IF i <= n THEN F[i] ELSE Next1(F[n], n + 1)]
  <2>2. ASSUME NEW i \in 0..n + 1 PROVE G[i] = Step(G, i)
    <3> HIDE DEF Next1
    <3>1. CASE i <= n
      <4>1. i \in 0..n /\ G[i] = F[i]
        BY <3>1
      <4> HIDE DEF G
      <4>2. F[i] = Step(F, i)
        <5> HIDE DEF Step
        <5> QED BY <2>1, <4>1
      <4>3. i # 0 => G[i - 1] = F[i - 1]
        <5> USE DEF G
        <5>1. i # 0 => i - 1 \in 0..n + 1 /\ i - 1 <= n
          BY <4>1
        <5> QED BY <5>1
      <4> QED BY <4>1, <4>2, <4>3
    <3>2. CASE ~(i <= n)
      <4>1. i = n + 1 /\ i # 0 /\ i - 1 = n /\ n \in 0..n + 1 /\ n <= n
        BY <3>2
      <4>2. G[n] = F[n] /\ G[i] = Next1(F[n], n + 1)
        BY <3>2, <4>1
      <4> HIDE DEF G
      <4> QED BY <4>1, <4>2
    <3> QED BY <3>1, <3>2
  <2>3. G = [i \in 0..n + 1 |-> Step(G, i)]
    <3> HIDE DEF Step
    <3> QED BY <2>2
  <2> HIDE DEF G, Step
  <2>4. \E K : K = [i \in 0..n + 1 |-> Step(K, i)]
    BY <2>3
  <2>5. n + 1 \in 0..N
    BY <1>1
  <2> QED BY <2>4, <2>5
<1>4. N \in T
  <2> HIDE DEF T, N
  <2>1. \A i \in 0..N : i \in T
    BY <1>1, <1>2, <1>3, UpTo
  <2> QED BY <1>1, <2>1
<1> DEFINE left == CHOOSE F : F = [n \in 0..N |-> Step(F, n)]
<1>5. left = [n \in 0..N |-> Step(left, n)]
  <2> HIDE DEF Step, N
  <2>1. \E F : F = [n \in 0..N |-> Step(F, n)]
    BY <1>4
  <2> QED BY <2>1
<1>6. ClearRuleFromAgenda(acts, A, gone) = left[N]
  BY DEF ClearRuleFromAgenda
<1>7. ClearsBy(left, acts, A, gone)
  BY <1>5 DEF ClearsBy
<1> HIDE DEF left, Step, Next1
<1> QED BY <1>6, <1>7

\* ClearRuleFromAgenda takes off the activations that are gone, and no other.
LEMMA ClearLemma ==
    ASSUME NEW s, NEW acts, NEW A, Ranked(s, acts, A), NEW gone
    PROVE  LET B == ClearRuleFromAgenda(acts, A, gone)
           IN Ranked(s, acts, B) /\ ToSet(B.list) = ToSet(A.list) \ gone
<1> DEFINE list == A.list
           N == Len(list)
           Left(n) == {list[i] : i \in {j \in 1..N : j > n \/ list[j] \notin gone}}
<1>1. /\ list \in Seq(Match) /\ N \in Nat /\ DOMAIN list = 1..N
      /\ \A i, j \in 1..N : i # j => list[i] # list[j]
  BY DEF Ranked, IsInjective
<1>2a. PICK F : ClearsBy(F, acts, A, gone) /\ ClearRuleFromAgenda(acts, A, gone) = F[N]
  <2>1. A.list \in Seq(Match)
    BY <1>1
  <2> QED BY ONLY <2>1, ClearSteps
<1>2. /\ F = [n \in 0..N |->
                 IF n = 0 THEN A
                 ELSE IF list[n] \in gone THEN DetachActivation(acts, F[n - 1], list[n])
                 ELSE F[n - 1]]
      /\ ClearRuleFromAgenda(acts, A, gone) = F[N]
  BY <1>2a DEF ClearsBy
<1> DEFINE T == {n \in 0..N : Ranked(s, acts, F[n]) /\ ToSet(F[n].list) = Left(n)}
<1>3. 0 \in T
  <2>1. F[0] = A
    BY <1>1, <1>2
  <2>2. Left(0) = ToSet(list)
    <3>1. \A j \in 1..N : j > 0
      BY <1>1
    <3> QED BY <1>1, <3>1 DEF ToSet
  <2> HIDE DEF N, Left
  <2> QED BY <1>1, <2>1, <2>2
<1>4. ASSUME NEW n \in 0..N - 1, n \in T PROVE n + 1 \in T
  <2> DEFINE m == list[n + 1]
  <2>1. n \in Nat /\ n + 1 \in 0..N /\ n + 1 \in 1..N /\ n + 1 # 0 /\ (n + 1) - 1 = n
    BY <1>1
  <2>2. F[n + 1] = IF m \in gone THEN DetachActivation(acts, F[n], m) ELSE F[n]
    BY <1>2, <2>1
  <2>3. Ranked(s, acts, F[n]) /\ ToSet(F[n].list) = Left(n)
    BY <1>4
  <2>4. m \in Left(n)
    BY <2>1
  <2>5. ASSUME NEW j \in 1..N PROVE j > n <=> j > n + 1 \/ j = n + 1
    BY <2>1
  <2>6. CASE m \in gone
    <3>1. Left(n) \ {m} = Left(n + 1)
      <4>1. Left(n + 1) \subseteq Left(n) \ {m}
        <5> SUFFICES ASSUME NEW j \in 1..N, j > n + 1 \/ list[j] \notin gone
                     PROVE  list[j] \in Left(n) /\ list[j] # m
          OBVIOUS
        <5>1. j # n + 1
          BY <2>1, <2>6
        <5> QED BY <1>1, <2>1, <2>5, <5>1
      <4>2. Left(n) \ {m} \subseteq Left(n + 1)
        <5> SUFFICES ASSUME NEW j \in 1..N, j > n \/ list[j] \notin gone, list[j] # m
                     PROVE  list[j] \in Left(n + 1)
          OBVIOUS
        <5> QED BY <2>5
      <4> QED BY <4>1, <4>2
    <3> HIDE DEF m, Left
    <3>2. Ranked(s, acts, F[n + 1]) /\ ToSet(F[n + 1].list) = Left(n) \ {m}
      BY <2>2, <2>3, <2>4, <2>6, DetachLemma
    <3> QED BY <2>1, <3>1, <3>2
  <2>7. CASE m \notin gone
    <3>1. Left(n) = Left(n + 1)
      BY <2>5, <2>7
    <3> HIDE DEF m, Left
    <3> QED BY <2>1, <2>2, <2>3, <2>7, <3>1
  <2> QED BY <2>6, <2>7
<1>5. N \in T
  <2> HIDE DEF T, N
  <2>1. \A i \in 0..N : i \in T
    BY <1>1, <1>3, <1>4, UpTo
  <2> QED BY <1>1, <2>1
<1>6. Left(N) = ToSet(list) \ gone
  <2>1. \A j \in 1..N : ~(j > N)
    BY <1>1
  <2> QED BY <1>1, <2>1 DEF ToSet
<1> QED BY <1>2, <1>5, <1>6

-----------------------------------------------------------------------------
(* All agendas.                                                            *)

\* Who is not on an agenda does not matter to it.
LEMMA SameActs ==
    ASSUME NEW s, NEW acts, NEW others, NEW A, Ranked(s, acts, A),
           \A m \in ToSet(A.list) : others[m] = acts[m]
    PROVE  Ranked(s, others, A)
<1> DEFINE list == A.list
<1>1. \A x \in DOMAIN list : list[x] \in ToSet(list) /\ others[list[x]] = acts[list[x]]
  BY DEF ToSet
<1>2. Proper(others, ToSet(list))
  BY DEF Ranked, Proper
<1>3. ASSUME NEW i \in DOMAIN list, NEW j \in DOMAIN list
      PROVE  Before(s, others, list[i], list[j]) <=> Before(s, acts, list[i], list[j])
  BY <1>1 DEF Before, GoesAfter
<1>4. InOrder(s, others, A)
  <2>1. \A i, j \in DOMAIN list : i < j => Before(s, acts, list[i], list[j])
    BY DEF Ranked, InOrder, Before
  <2>2. \A i, j \in DOMAIN list : i < j => Before(s, others, list[i], list[j])
    BY <1>3, <2>1
  <2> QED BY <2>2 DEF InOrder, Before
<1>5. \A g, i, j : Ends(acts, list, g, i, j) => Ends(others, list, g, i, j)
  BY <1>1 DEF Ends
<1>6. Fits(others, list, A.groups)
  BY <1>1, <1>5 DEF Ranked, Fits
<1> QED BY <1>2, <1>4, <1>6 DEF Ranked

\* Every activation of on is on the agenda of its module, and the agendas are in order.
Posted(s, acts, ag, on) ==
    /\ ag = [d \in Module |-> ag[d]]
    /\ \A d \in Module : /\ Ranked(s, acts, ag[d])
                         /\ ToSet(ag[d].list) = {m \in on : ModuleFor(m) = d}

LEMMA AddPosted ==
    ASSUME NEW s \in Strategies, NEW acts, NEW others, NEW ag, NEW on, Posted(s, acts, ag, on),
           NEW m \in Match, m \notin on, Proper(others, on \cup {m}),
           \A n \in on : others[n] = acts[n]
    PROVE  Posted(s, others, [ag EXCEPT ![ModuleFor(m)] = PlaceActivation(s, others, @, m)],
                  on \cup {m})
<1> DEFINE c == ModuleFor(m)
           B == PlaceActivation(s, others, ag[c], m)
           new == [ag EXCEPT ![c] = B]
<1>1. c \in Module
  BY ModuleAssumption, RuleAssumption DEF ModuleFor
<1>2. \A d \in Module : /\ Ranked(s, acts, ag[d])
                        /\ ToSet(ag[d].list) = {n \in on : ModuleFor(n) = d}
  BY DEF Posted
<1>3. ASSUME NEW d \in Module PROVE Ranked(s, others, ag[d])
  <2>1. \A n \in ToSet(ag[d].list) : others[n] = acts[n]
    BY <1>2
  <2> QED BY <1>2, <2>1, SameActs
<1>4. m \notin ToSet(ag[c].list) /\ Proper(others, ToSet(ag[c].list) \cup {m})
  BY <1>1, <1>2 DEF Proper
<1> HIDE DEF c
<1>5. Ranked(s, others, B) /\ ToSet(B.list) = ToSet(ag[c].list) \cup {m}
  BY <1>1, <1>3, <1>4, PlaceLemma
<1> HIDE DEF B
<1>6. /\ new = [d \in Module |-> new[d]] /\ new[c] = B
      /\ \A d \in Module : d # c => new[d] = ag[d]
  BY <1>1 DEF Posted
<1> HIDE DEF new
<1>7. ASSUME NEW d \in Module
      PROVE  Ranked(s, others, new[d]) /\ ToSet(new[d].list) = {n \in on \cup {m} : ModuleFor(n) = d}
  <2>1. CASE d = c
    BY <1>2, <1>5, <1>6, <2>1 DEF c
  <2>2. CASE d # c
    BY <1>2, <1>3, <1>6, <2>2 DEF c
  <2> QED BY <2>1, <2>2
<1>8. Posted(s, others, new, on \cup {m})
  BY <1>6, <1>7 DEF Posted
<1> QED BY <1>8 DEF new, B, c

LEMMA RemovePosted ==
    ASSUME NEW s, NEW acts, NEW others, NEW ag, NEW on, Posted(s, acts, ag, on),
           NEW m \in on, on \subseteq Match, \A n \in on : n # m => others[n] = acts[n]
    PROVE  Posted(s, others, [ag EXCEPT ![ModuleFor(m)] = DetachActivation(acts, @, m)], on \ {m})
<1> DEFINE c == ModuleFor(m)
           B == DetachActivation(acts, ag[c], m)
           new == [ag EXCEPT ![c] = B]
<1>1. c \in Module
  BY ModuleAssumption, RuleAssumption DEF ModuleFor
<1>2. \A d \in Module : /\ Ranked(s, acts, ag[d])
                        /\ ToSet(ag[d].list) = {n \in on : ModuleFor(n) = d}
  BY DEF Posted
<1>3. m \in ToSet(ag[c].list)
  BY <1>1, <1>2
<1> HIDE DEF c
<1>4. Ranked(s, acts, B) /\ ToSet(B.list) = ToSet(ag[c].list) \ {m}
  BY <1>1, <1>2, <1>3, DetachLemma
<1> HIDE DEF B
<1>5. /\ new = [d \in Module |-> new[d]] /\ new[c] = B
      /\ \A d \in Module : d # c => new[d] = ag[d]
  BY <1>1 DEF Posted
<1> HIDE DEF new
<1>6. ASSUME NEW d \in Module
      PROVE  Ranked(s, acts, new[d]) /\ ToSet(new[d].list) = {n \in on \ {m} : ModuleFor(n) = d}
  <2>1. CASE d = c
    BY <1>2, <1>4, <1>5, <2>1 DEF c
  <2>2. CASE d # c
    BY <1>2, <1>5, <2>2 DEF c
  <2> QED BY <2>1, <2>2
<1>7. ASSUME NEW d \in Module PROVE Ranked(s, others, new[d])
  <2>1. \A n \in ToSet(new[d].list) : others[n] = acts[n]
    BY <1>6
  <2> QED BY <1>6, <2>1, SameActs
<1>8. Posted(s, others, new, on \ {m})
  BY <1>5, <1>6, <1>7 DEF Posted
<1> QED BY <1>8 DEF new, B, c

LEMMA ClearPosted ==
    ASSUME NEW s, NEW acts, NEW others, NEW ag, NEW on, Posted(s, acts, ag, on),
           NEW r \in Rule, NEW gone, \A m \in on : m \in gone <=> RuleOf[m] = r,
           \A n \in on \ gone : others[n] = acts[n]
    PROVE  Posted(s, others, [ag EXCEPT ![ModuleOf[r]] = ClearRuleFromAgenda(acts, @, gone)],
                  on \ gone)
<1> DEFINE c == ModuleOf[r]
           B == ClearRuleFromAgenda(acts, ag[c], gone)
           new == [ag EXCEPT ![c] = B]
<1>1. c \in Module
  BY ModuleAssumption
<1>2. \A d \in Module : /\ Ranked(s, acts, ag[d])
                        /\ ToSet(ag[d].list) = {n \in on : ModuleFor(n) = d}
  BY DEF Posted
<1> HIDE DEF c
<1>3. Ranked(s, acts, B) /\ ToSet(B.list) = ToSet(ag[c].list) \ gone
  BY <1>1, <1>2, ClearLemma
<1> HIDE DEF B
<1>4. /\ new = [d \in Module |-> new[d]] /\ new[c] = B
      /\ \A d \in Module : d # c => new[d] = ag[d]
  BY <1>1 DEF Posted
<1> HIDE DEF new
<1>5. ASSUME NEW d \in Module
      PROVE  Ranked(s, acts, new[d]) /\ ToSet(new[d].list) = {n \in on \ gone : ModuleFor(n) = d}
  <2>1. CASE d = c
    BY <1>2, <1>3, <1>4, <2>1
  <2>2. CASE d # c
    <3>1. \A n \in on : ModuleFor(n) = d => n \notin gone
      BY <2>2 DEF c, ModuleFor
    <3> QED BY <1>2, <1>4, <2>2, <3>1
  <2> QED BY <2>1, <2>2
<1>6. ASSUME NEW d \in Module PROVE Ranked(s, others, new[d])
  <2>1. \A n \in ToSet(new[d].list) : others[n] = acts[n]
    BY <1>5
  <2> QED BY <1>5, <2>1, SameActs
<1>7. Posted(s, others, new, on \ gone)
  BY <1>4, <1>5, <1>6 DEF Posted
<1> QED BY <1>7 DEF new, B, c

LEMMA ReorderPosted ==
    ASSUME NEW s, NEW t \in Strategies, NEW acts, NEW others, NEW ag, NEW on,
           Posted(s, acts, ag, on), Proper(others, on), NEW ds,
           \A d \in Module \ ds : t = s /\ \A n \in on : ModuleFor(n) = d => others[n] = acts[n]
    PROVE  Posted(t, others, [d \in Module |-> IF d \in ds THEN ReorderAgenda(t, others, ag[d])
                                               ELSE ag[d]], on)
<1> DEFINE new == [d \in Module |-> IF d \in ds THEN ReorderAgenda(t, others, ag[d]) ELSE ag[d]]
<1>1. \A d \in Module : /\ Ranked(s, acts, ag[d])
                        /\ ToSet(ag[d].list) = {n \in on : ModuleFor(n) = d}
  BY DEF Posted
<1>2. ASSUME NEW d \in Module
      PROVE  Ranked(t, others, new[d]) /\ ToSet(new[d].list) = ToSet(ag[d].list)
  <2>1. CASE d \in ds
    <3>1. ag[d].list \in Seq(Match) /\ IsInjective(ag[d].list)
      BY <1>1 DEF Ranked
    <3>2. Proper(others, ToSet(ag[d].list))
      BY <1>1 DEF Proper
    <3>3. new[d] = ReorderAgenda(t, others, ag[d])
      BY <2>1
    <3> HIDE DEF new
    <3> QED BY <3>1, <3>2, <3>3, ReorderLemma
  <2>2. CASE d \notin ds
    <3>1. t = s /\ \A n \in ToSet(ag[d].list) : others[n] = acts[n]
      BY <1>1, <2>2
    <3>2. Ranked(s, others, ag[d])
      BY <1>1, <3>1, SameActs
    <3>3. new[d] = ag[d]
      BY <2>2
    <3> HIDE DEF new
    <3> QED BY <3>1, <3>2, <3>3
  <2> QED BY <2>1, <2>2
<1>3. new = [d \in Module |-> new[d]]
  OBVIOUS
<1> HIDE DEF new
<1>4. Posted(t, others, new, on)
  BY <1>1, <1>2, <1>3 DEF Posted
<1> QED BY <1>4 DEF new

-----------------------------------------------------------------------------
(* The focus stack.                                                        *)

LEMMA FocusOnIs ==
    ASSUME NEW stack \in Seq(Module), NEW d \in Module
    PROVE  FocusOn(d, stack) \in Seq(Module) /\ Len(FocusOn(d, stack)) <= Len(stack) + 1
<1>1. <<d>> \o stack \in Seq(Module) /\ Len(<<d>> \o stack) = Len(stack) + 1
  BY PushProperties
<1>2. Len(stack) <= Len(stack) + 1
  OBVIOUS
<1> QED BY <1>1, <1>2 DEF FocusOn

LEMMA RemoveFocusIs ==
    ASSUME NEW stack \in Seq(Module), NEW d
    PROVE  RemoveFocus(d, stack) \in Seq(Module) /\ Len(RemoveFocus(d, stack)) <= Len(stack)
<1>0. Len(stack) \in Nat
  OBVIOUS
<1> DEFINE T == {i \in 1..Len(stack) : stack[i] = d}
           k == SelectInSeq(stack, LAMBDA v : v = d)
<1>1. CASE T = {}
  <2>1. RemoveFocus(d, stack) = stack
    BY <1>1 DEF RemoveFocus, RemoveFirst
  <2> QED BY <1>0, <2>1
<1>2. CASE T # {}
  <2>1. k = Min(T)
    BY <1>2 DEF SelectInSeq
  <2>2. T \subseteq Nat /\ T \subseteq 1..Len(stack)
    OBVIOUS
  <2>3. RemoveFocus(d, stack) = RemoveAt(stack, k)
    <3>1. \E i \in 1..Len(stack) : stack[i] = d
      BY <1>2
    <3> QED BY <3>1 DEF RemoveFocus, RemoveFirst
  <2> HIDE DEF T, k
  <2>4. k \in 1..Len(stack)
    BY <1>2, <2>1, <2>2, MinIs
  <2>5. RemoveAt(stack, k) \in Seq(Module) /\ Len(RemoveAt(stack, k)) = Len(stack) - 1
    BY <2>4, RemoveAtProperties
  <2> QED BY <1>0, <2>3, <2>5
<1> QED BY <1>1, <1>2

\* NextActivationToFire leaves a stack that is empty or begins with a module that
\* has activations.
LEMMA NextFocusIs ==
    ASSUME NEW stack \in Seq(Module), NEW ag
    PROVE  LET next == NextFocus(stack, ag) IN
           /\ next \in Seq(Module)
           /\ Len(next) <= Len(stack) \/ Len(next) <= 1
           /\ next # << >> => ag[Head(next)].list # << >>
<1> DEFINE s == IF stack = << >> THEN <<MAIN>> ELSE stack
           T == {i \in 1..Len(s) : ag[s[i]].list # << >>}
           k == SelectInSeq(s, LAMBDA d : ag[d].list # << >>)
           next == NextFocus(stack, ag)
<1>1. s \in Seq(Module) /\ Len(s) \in Nat /\ (Len(s) = Len(stack) \/ Len(s) = 1)
  <2>1. <<MAIN>> \in Seq(Module) /\ Len(<<MAIN>>) = 1
    BY EngineAssumption
  <2> QED BY <2>1
<1>2. next = IF k = 0 THEN << >> ELSE SubSeq(s, k, Len(s))
  BY DEF NextFocus
<1>3. k = IF T # {} THEN Min(T) ELSE 0
  BY DEF SelectInSeq
<1>4. << >> \in Seq(Module) /\ Len(<< >>) = 0
  OBVIOUS
<1>5. T \subseteq Nat /\ T \subseteq 1..Len(s) /\ \A i \in T : ag[s[i]].list # << >>
  OBVIOUS
<1> HIDE DEF T, k, s, next
<1>6. CASE T = {}
  BY <1>1, <1>2, <1>3, <1>4, <1>6 DEF next
<1>7. CASE T # {}
  <2>1. k \in T
    BY <1>3, <1>5, <1>7, MinIs
  <2>2. k \in 1..Len(s) /\ ag[s[k]].list # << >> /\ k \in Nat /\ k >= 1 /\ k <= Len(s)
    BY <1>1, <1>5, <2>1
  <2>3. next = SubSeq(s, k, Len(s))
    BY <1>1, <1>2, <2>2
  <2>4. /\ SubSeq(s, k, Len(s)) \in Seq(Module)
        /\ Len(SubSeq(s, k, Len(s))) = Len(s) - k + 1
        /\ SubSeq(s, k, Len(s))[1] = s[k]
    BY <1>1, <2>2
  <2>5. Head(next) = s[k]
    BY <1>1, <2>2, <2>3, <2>4
  <2> QED BY <1>1, <2>2, <2>3, <2>4, <2>5 DEF next
<1> QED BY <1>6, <1>7

-----------------------------------------------------------------------------
(* The inductive invariant.                                                *)

Acts == [tag : 0..MaxTag, salience : Salience, random : Random \cup {0}]

Flags ==
    /\ strategy \in Allowed /\ evaluation \in Evaluations
    /\ salience \in [Rule -> Salience] /\ expression \in [Rule -> Salience \cup {Failure}]
    /\ focus \in Seq(Module) /\ Len(focus) <= MaxFocus
    /\ phase \in {"idle", "ready", "acting"} /\ executing \in Match \cup {NoMatch}
    /\ phase = "acting" <=> executing # NoMatch
    /\ limit \in Int
    /\ haltRules \in BOOLEAN /\ haltExecution \in BOOLEAN /\ returned \in BOOLEAN

Markers ==
    /\ act \in [Match -> Acts] /\ matched \subseteq Match /\ tag \in 1..(MaxTag + 1)
    /\ {m \in Match : act[m] # NoActivation} \subseteq matched
    /\ TagsDiffer

Board == Posted(strategy, act, agenda, Activated)

Counted == IsFiniteSet(Activated) /\ CountIsRight

IInv == Flags /\ Markers /\ Board /\ Counted /\ FocusHasWork

LEMMA InitInv == Init => IInv
<1> SUFFICES ASSUME Init PROVE IInv
  OBVIOUS
<1> USE DEF Init
<1>1. Flags
  <2>1. <<MAIN>> \in Seq(Module) /\ Len(<<MAIN>>) = 1
    BY EngineAssumption
  <2>2. salience \in [Rule -> Salience] /\ expression \in [Rule -> Salience \cup {Failure}]
    BY EngineAssumption
  <2>3. 1 <= MaxFocus
    BY EngineAssumption
  <2>4. focus \in Seq(Module) /\ Len(focus) <= MaxFocus
    BY <2>1, <2>3
  <2>5. strategy \in Allowed /\ evaluation \in Evaluations
    BY DEF Evaluations
  <2>6. phase = "idle" /\ executing = NoMatch /\ limit \in Int
        /\ haltRules = FALSE /\ haltExecution = FALSE /\ returned = FALSE
    OBVIOUS
  <2> HIDE DEF Init
  <2> QED BY <2>2, <2>4, <2>5, <2>6 DEF Flags
<1>2. Activated = {}
  BY DEF Activated
<1>3. Markers
  <2>1. NoActivation \in Acts
    BY EngineAssumption DEF NoActivation, Acts
  <2>2. TagsDiffer
    BY <1>2 DEF TagsDiffer
  <2> QED BY <2>1, <2>2, EngineAssumption DEF Markers
<1>4. Board
  <2>1. \A d \in Module : agenda[d] = NoAgenda
    OBVIOUS
  <2> HIDE DEF NoAgenda
  <2> QED BY <1>2, <2>1, NothingRanked DEF Board, Posted
<1>5. Counted
  BY <1>2, FS_EmptySet DEF Counted, CountIsRight
<1>6. FocusHasWork
  BY DEF FocusHasWork
<1> QED BY <1>1, <1>3, <1>4, <1>5, <1>6 DEF IInv

LEMMA BoardFacts ==
    ASSUME IInv
    PROVE  /\ strategy \in Strategies /\ Activated \subseteq Match /\ Proper(act, Activated)
           /\ \A m \in Match : act[m] = NoActivation <=> m \notin Activated
<1>1. \A m \in Activated : act[m] \in Acts /\ act[m].random \in Random /\ m \in Match
  BY DEF IInv, Markers, TagsDiffer, Activated
<1>2. \A m \in Activated : /\ act[m].tag \in Nat /\ act[m].salience \in Int
                           /\ act[m].random \in Nat
  <2>1. Salience \subseteq Int /\ Random \subseteq Nat /\ MaxTag \in Nat
    BY EngineAssumption
  <2>2. ASSUME NEW a \in Acts PROVE a.tag \in Nat /\ a.salience \in Int
    <3>1. a.tag \in 0..MaxTag /\ a.salience \in Salience
      BY DEF Acts
    <3>2. a.salience \in Int
      BY <2>1, <3>1
    <3> DEFINE t == a.tag
    <3>3. t \in 0..MaxTag
      BY <3>1
    <3> HIDE DEF t
    <3>4. t \in Nat
      BY <2>1, <3>3
    <3> QED BY <3>2, <3>4 DEF t
  <2> QED BY <1>1, <2>1, <2>2
<1>3. Proper(act, Activated)
  BY <1>1, <1>2 DEF Proper, IInv, Markers, TagsDiffer
<1> QED BY <1>1, <1>3, EngineAssumption DEF IInv, Flags, Markers, Activated

\* Steps that leave the agendas alone.
LEMMA QuietStep ==
    ASSUME IInv, UNCHANGED <<agendas, matched, tag, strategy>>, Flags', FocusHasWork',
           phase = "acting" <=> phase' = "acting"
    PROVE  IInv'
<1>1. Activated' = Activated
  BY DEF agendas, Activated
<1>2. Markers'
  BY <1>1 DEF IInv, Markers, TagsDiffer, agendas
<1>3. Board'
  BY <1>1 DEF IInv, Board, agendas
<1>4. Counted'
  BY <1>1 DEF IInv, Counted, CountIsRight, agendas
<1> QED BY <1>2, <1>3, <1>4 DEF IInv

\* A command does nothing to (run) itself, which is idle or acting.
LEMMA CommandedIs ==
    ASSUME IInv, Commanded
    PROVE  /\ phase' = phase /\ executing' = executing /\ limit' = limit
           /\ FocusHasWork'
BY DEF Commanded, cycle, FocusHasWork

LEMMA EvaluateIs ==
    ASSUME Flags, NEW r \in Rule, NEW how
    PROVE  EvaluateSalience(r, how) \in Salience /\ Fails(r, how) \in BOOLEAN
BY DEF Flags, EvaluateSalience, Fails, Evaluates

-----------------------------------------------------------------------------
(* Each action keeps it.                                                   *)

LEMMA AddKeeps ==
    ASSUME IInv, NEW m \in Match, act[m] = NoActivation, AddActivation(m), Commanded,
           matched' = matched \cup {m}, UNCHANGED <<settings, haltRules, returned>>
    PROVE  IInv'
<1> DEFINE r == RuleOf[m]
           on == Activated
<1>1. r \in Rule /\ ModuleFor(m) \in Module /\ ModuleFor(m) = ModuleOf[r]
  BY RuleAssumption, ModuleAssumption DEF ModuleFor
<1>2. /\ strategy \in Strategies /\ on \subseteq Match /\ m \notin on /\ Proper(act, on)
      /\ \A n \in Match : act[n] = NoActivation <=> n \notin on
  BY BoardFacts
<1>3. /\ UNCHANGED <<strategy, evaluation, expression>>
      /\ phase' = phase /\ executing' = executing /\ limit' = limit /\ FocusHasWork'
  BY CommandedIs DEF settings
<1>4. salience' \in [Rule -> Salience] /\ haltExecution' \in BOOLEAN /\ salience'[r] \in Salience
  <2>1. Flags
    BY DEF IInv
  <2>2. EvaluateSalience(r, evaluation) \in Salience /\ Fails(r, evaluation) \in BOOLEAN
    BY <1>1, <2>1, EvaluateIs
  <2>3. salience \in [Rule -> Salience]
    BY <2>1 DEF Flags
  <2> QED BY <1>1, <2>2, <2>3 DEF AddActivation
<1>5. focus' \in Seq(Module) /\ Len(focus') <= MaxFocus
  <2>1. focus \in Seq(Module) /\ Len(focus) \in Nat /\ Len(focus) <= MaxFocus /\ MaxFocus \in Nat
    BY EngineAssumption DEF IInv, Flags
  <2>2. CASE r \in AutoFocus
    <3>1. focus' = FocusOn(ModuleFor(m), focus) /\ Len(focus) < MaxFocus
      BY <1>1, <2>2 DEF AddActivation
    <3>2. focus' \in Seq(Module) /\ Len(focus') <= Len(focus) + 1
      BY <1>1, <2>1, <3>1, FocusOnIs
    <3>3. Len(focus') \in Nat
      BY <3>2
    <3> QED BY <2>1, <3>1, <3>2, <3>3
  <2>3. CASE r \notin AutoFocus
    BY <2>1, <2>3 DEF AddActivation
  <2> QED BY <2>2, <2>3
<1>6. PICK k \in Random : act' = [act EXCEPT ![m] = [tag |-> tag, salience |-> salience'[r], random |-> k]]
  BY DEF AddActivation
<1> DEFINE a == [tag |-> tag, salience |-> salience'[r], random |-> k]
<1>7. /\ act \in [Match -> Acts] /\ matched \subseteq Match /\ tag \in 1..(MaxTag + 1)
      /\ tag <= MaxTag /\ tag' = tag + 1 /\ MaxTag \in Nat /\ tag \in Nat
      /\ \A n \in on : /\ act[n].tag < tag /\ act[n].tag >= 1 /\ act[n].tag \in Nat
                       /\ act[n].random \in Random
  <2>1. \A n \in on : act[n].tag \in Nat
    BY <1>2 DEF Proper
  <2> QED BY <2>1, EngineAssumption DEF IInv, Markers, TagsDiffer, AddActivation
<1>8. a \in Acts /\ a # NoActivation /\ a.tag = tag /\ a.random = k
  <2>1. tag \in 0..MaxTag /\ tag # 0
    BY <1>7
  <2>2. k \in Random \cup {0}
    OBVIOUS
  <2> QED BY <1>4, <2>1, <2>2 DEF Acts, NoActivation
<1>9. act' \in [Match -> Acts] /\ act'[m] = a /\ \A n \in Match : n # m => act'[n] = act[n]
  BY <1>6, <1>7, <1>8
<1> HIDE DEF a
<1>10. Activated' = on \cup {m}
  BY <1>2, <1>7, <1>8, <1>9 DEF Activated
<1> HIDE DEF on
<1>11. Proper(act', on \cup {m})
  <2>1. ASSUME NEW n \in on \cup {m}
        PROVE  n \in Match /\ act'[n].tag \in Nat /\ act'[n].salience \in Int /\ act'[n].random \in Nat
    <3>1. CASE n = m
      <4>1. a.salience \in Salience /\ a.random \in Random
        BY <1>8 DEF Acts
      <4> QED BY <1>7, <1>8, <1>9, <3>1, <4>1, EngineAssumption
    <3>2. CASE n # m
      BY <1>2, <1>9, <3>2 DEF Proper
    <3> QED BY <3>1, <3>2
  <2>2. ASSUME NEW n \in on \cup {m}, NEW x \in on \cup {m}, act'[n].tag = act'[x].tag
        PROVE  n = x
    <3>1. \A y \in on : act'[y] = act[y] /\ act[y].tag # tag
      BY <1>2, <1>7, <1>9
    <3>2. act'[m].tag = tag
      BY <1>8, <1>9
    <3>3. \A y, z \in on : act[y].tag = act[z].tag => y = z
      BY <1>2 DEF Proper
    <3> QED BY <2>2, <3>1, <3>2, <3>3
  <2> QED BY <2>1, <2>2 DEF Proper
<1>12. Markers'
  <2>1. {n \in Match : act'[n] # NoActivation} \subseteq matched'
    <3>1. {n \in Match : act[n] # NoActivation} \subseteq matched
      BY DEF IInv, Markers
    <3> QED BY <1>9, <3>1
  <2>2. TagsDiffer'
    <3>1. ASSUME NEW n \in on \cup {m} PROVE act'[n].tag \in 1 .. tag' - 1 /\ act'[n].random \in Random
      <4>1. CASE n = m
        BY <1>7, <1>8, <1>9, <4>1
      <4>2. CASE n # m
        BY <1>2, <1>7, <1>9, <4>2
      <4> QED BY <4>1, <4>2
    <3>2. \A n, x \in on \cup {m} : act'[n].tag = act'[x].tag => n = x
      BY <1>11 DEF Proper
    <3> QED BY <1>10, <3>1, <3>2 DEF TagsDiffer
  <2>3. tag' \in 1..(MaxTag + 1) /\ matched' \subseteq Match
    BY <1>7
  <2> QED BY <1>9, <2>1, <2>2, <2>3 DEF Markers
<1>13. Board'
  <2>1. Posted(strategy, act, agenda, on)
    BY DEF IInv, Board, on
  <2>2. Posted(strategy, act', [agenda EXCEPT ![ModuleFor(m)] = PlaceActivation(strategy, act', @, m)],
               on \cup {m})
    BY <1>2, <1>9, <1>11, <2>1, AddPosted
  <2>3. agenda' = [agenda EXCEPT ![ModuleFor(m)] = PlaceActivation(strategy, act', @, m)]
    BY <1>1 DEF AddActivation
  <2> QED BY <1>3, <1>10, <2>2, <2>3 DEF Board
<1>14. Counted'
  <2>1. IsFiniteSet(on) /\ total = Cardinality(on) + (IF phase = "acting" THEN 1 ELSE 0)
    BY DEF IInv, Counted, CountIsRight, on
  <2>2. IsFiniteSet(on \cup {m}) /\ Cardinality(on \cup {m}) = Cardinality(on) + 1
    BY <1>2, <2>1, FS_AddElement
  <2>3. Cardinality(on) \in Nat /\ total' = total + 1
    BY <2>1, FS_CardinalityType DEF AddActivation
  <2> QED BY <1>3, <1>10, <2>1, <2>2, <2>3 DEF Counted, CountIsRight
<1>15. Flags'
  BY <1>3, <1>4, <1>5 DEF IInv, Flags
<1> QED BY <1>3, <1>12, <1>13, <1>14, <1>15 DEF IInv

\* What is left of the markers when activations go.
LEMMA FewerMarkers ==
    ASSUME IInv, NEW gone, act' \in [Match -> Acts], tag' = tag,
           matched' \subseteq matched, Activated \ gone \subseteq matched',
           \A n \in Match : act'[n] = IF n \in gone THEN NoActivation ELSE act[n]
    PROVE  Markers' /\ Activated' = Activated \ gone
<1>1. Activated' = Activated \ gone
  BY DEF IInv, Markers, Activated
<1>2. {n \in Match : act'[n] # NoActivation} \subseteq matched'
  BY DEF IInv, Markers, Activated
<1>3. \A n \in Activated' : act'[n] = act[n] /\ n \in Activated
  BY <1>1, BoardFacts
<1>4. TagsDiffer'
  BY <1>3 DEF IInv, Markers, TagsDiffer
<1> QED BY <1>1, <1>2, <1>4 DEF IInv, Markers

LEMMA RemoveKeeps ==
    ASSUME IInv, NEW m \in Activated, UNCHANGED <<tag, strategy>>,
           matched' \subseteq matched, Activated \ {m} \subseteq matched',
           agenda' = [agenda EXCEPT ![ModuleFor(m)] = DetachActivation(act, @, m)],
           act' = [act EXCEPT ![m] = NoActivation]
    PROVE  /\ Markers' /\ Board' /\ Activated' = Activated \ {m}
           /\ IsFiniteSet(Activated')
           /\ Cardinality(Activated') = Cardinality(Activated) - 1
           /\ Cardinality(Activated) \in Nat
<1>1. NoActivation \in Acts
  BY EngineAssumption DEF NoActivation, Acts
<1>2. /\ Activated \subseteq Match /\ m \in Match /\ act \in [Match -> Acts]
  BY BoardFacts DEF IInv, Markers
<1>3. /\ act' \in [Match -> Acts]
      /\ \A n \in Match : act'[n] = IF n \in {m} THEN NoActivation ELSE act[n]
  BY <1>1, <1>2
<1>4. Markers' /\ Activated' = Activated \ {m}
  BY <1>3, FewerMarkers
<1>5. Board'
  <2>1. Posted(strategy, act, agenda, Activated)
    BY DEF IInv, Board
  <2>2. \A n \in Activated : n # m => act'[n] = act[n]
    BY <1>2, <1>3
  <2>3. Posted(strategy, act', agenda', Activated \ {m})
    BY <1>2, <2>1, <2>2, RemovePosted
  <2> QED BY <1>4, <2>3 DEF Board
<1>6. IsFiniteSet(Activated)
  BY DEF IInv, Counted
<1> QED BY <1>4, <1>5, <1>6, FS_RemoveElement, FS_CardinalityType

LEMMA CompleteKeeps == ASSUME IInv, NEW m \in Match, Complete(m) PROVE IInv'
<1>1. act[m] = NoActivation
  BY DEF Complete, IInv, Markers
<1> QED BY <1>1, AddKeeps DEF Complete

LEMMA RefreshKeeps == ASSUME IInv, NEW m \in Match, Refresh(m) PROVE IInv'
<1>1. matched' = matched \cup {m}
  BY DEF Refresh
<1> QED BY <1>1, AddKeeps DEF Refresh

LEMMA WithdrawKeeps == ASSUME IInv, NEW m \in Match, Withdraw(m) PROVE IInv'
<1>1. /\ UNCHANGED <<tag, strategy, evaluation, expression, salience, focus, haltRules, returned>>
      /\ phase' = phase /\ executing' = executing /\ limit' = limit /\ FocusHasWork'
      /\ haltExecution' = FALSE /\ matched' = matched \ {m}
  BY CommandedIs DEF Withdraw, settings
<1>2. Flags'
  BY <1>1 DEF IInv, Flags
<1>3. Activated \ {m} \subseteq matched' /\ matched' \subseteq matched
  BY <1>1 DEF Activated
<1>4. total = Cardinality(Activated) + (IF phase = "acting" THEN 1 ELSE 0)
  BY DEF IInv, Counted, CountIsRight
<1>5. CASE act[m] # NoActivation
  <2>1. m \in Activated
    BY <1>5, BoardFacts
  <2>2. /\ agenda' = [agenda EXCEPT ![ModuleFor(m)] = DetachActivation(act, @, m)]
        /\ act' = [act EXCEPT ![m] = NoActivation]
        /\ total' = total - 1
    BY <1>5 DEF Withdraw, RemoveActivation
  <2>3. /\ Markers' /\ Board' /\ IsFiniteSet(Activated')
        /\ Cardinality(Activated') = Cardinality(Activated) - 1
        /\ Cardinality(Activated) \in Nat
    BY <1>1, <1>3, <2>1, <2>2, RemoveKeeps
  <2>4. Counted'
    BY <1>1, <1>4, <2>2, <2>3 DEF Counted, CountIsRight
  <2> QED BY <1>1, <1>2, <2>3, <2>4 DEF IInv
<1>6. CASE act[m] = NoActivation
  <2>1. UNCHANGED <<agenda, act, total>>
    BY <1>6 DEF Withdraw, agendas
  <2>2. m \notin Activated
    BY <1>6 DEF Activated
  <2>3. Activated' = Activated
    BY <1>1, <2>1, <2>2 DEF Activated
  <2>4. Markers'
    <3>1. {n \in Match : act[n] # NoActivation} \subseteq matched'
      BY <1>1, <1>6 DEF IInv, Markers
    <3> QED BY <1>1, <2>1, <2>3, <3>1 DEF IInv, Markers, TagsDiffer
  <2>5. Board' /\ Counted'
    BY <1>1, <2>1, <2>3 DEF IInv, Board, Counted, CountIsRight
  <2> QED BY <1>1, <1>2, <2>4, <2>5 DEF IInv
<1> QED BY <1>5, <1>6

LEMMA DefruleKeeps == ASSUME IInv, NEW r \in Rule, Defrule(r) PROVE IInv'
<1> DEFINE gone == {m \in matched : RuleOf[m] = r}
<1>1. /\ UNCHANGED <<tag, strategy, evaluation, expression, focus, haltRules, returned>>
      /\ phase' = phase /\ executing' = executing /\ limit' = limit /\ FocusHasWork'
      /\ haltExecution' = FALSE /\ matched' = matched \ gone
      /\ salience' = [salience EXCEPT ![r] = IF r \in Dynamic THEN expression[r] ELSE @]
      /\ expression[r] # Failure
      /\ agenda' = [agenda EXCEPT ![ModuleOf[r]] = ClearRuleFromAgenda(act, @, gone)]
      /\ act' = [m \in Match |-> IF m \in gone THEN NoActivation ELSE act[m]]
      /\ total' = total - Cardinality(gone \cap Activated)
  BY CommandedIs DEF Defrule, settings, ActivationsOf
<1>2. Flags'
  <2>1. salience' \in [Rule -> Salience]
    BY <1>1 DEF IInv, Flags
  <2> QED BY <1>1, <2>1 DEF IInv, Flags
<1>3. \A m \in Activated : m \in gone <=> RuleOf[m] = r
  BY DEF Activated
<1> HIDE DEF gone
<1>4. NoActivation \in Acts
  BY EngineAssumption DEF NoActivation, Acts
<1>5. act' \in [Match -> Acts] /\ \A n \in Match : act'[n] = IF n \in gone THEN NoActivation ELSE act[n]
  BY <1>1, <1>4 DEF IInv, Markers
<1>6. Markers' /\ Activated' = Activated \ gone
  <2>1. matched' \subseteq matched /\ Activated \ gone \subseteq matched'
    BY <1>1 DEF Activated
  <2> QED BY <1>1, <1>5, <2>1, FewerMarkers
<1>7. Board'
  <2>1. Posted(strategy, act, agenda, Activated)
    BY DEF IInv, Board
  <2>2. \A n \in Activated \ gone : act'[n] = act[n]
    BY <1>5, BoardFacts
  <2>3. Posted(strategy, act', agenda', Activated \ gone)
    BY <1>1, <1>3, <2>1, <2>2, ClearPosted
  <2> QED BY <1>1, <1>6, <2>3 DEF Board
<1>8. Counted'
  <2>1. IsFiniteSet(Activated) /\ total = Cardinality(Activated) + (IF phase = "acting" THEN 1 ELSE 0)
    BY DEF IInv, Counted, CountIsRight
  <2>2. /\ IsFiniteSet(Activated \ gone)
        /\ Cardinality(Activated \ gone) = Cardinality(Activated) - Cardinality(Activated \cap gone)
    BY <2>1, FS_Difference
  <2>3. Activated \cap gone = gone \cap Activated
    OBVIOUS
  <2>4. Cardinality(Activated) \in Nat /\ Cardinality(gone \cap Activated) \in Nat
    BY <2>1, FS_Intersection, FS_CardinalityType
  <2>5. total' = total - Cardinality(gone \cap Activated) /\ phase' = phase
    BY <1>1
  <2> DEFINE a == Cardinality(Activated)
             b == Cardinality(gone \cap Activated)
             e == IF phase = "acting" THEN 1 ELSE 0
  <2>6. a \in Nat /\ b \in Nat /\ e \in Nat /\ total = a + e
    BY <2>1, <2>4
  <2>7. IsFiniteSet(Activated') /\ Cardinality(Activated') = a - b
    BY <1>6, <2>2, <2>3
  <2>8. total' = total - b
    BY <2>5
  <2> HIDE DEF a, b, e
  <2>9. total' = (a - b) + e
    BY <2>6, <2>8
  <2> QED BY <2>5, <2>7, <2>9 DEF Counted, CountIsRight, e
<1> QED BY <1>1, <1>2, <1>6, <1>7, <1>8 DEF IInv

\* RefreshAgenda, of the command and of (run).
LEMMA RefreshAgendaIs ==
    ASSUME IInv, NEW ds, ds \subseteq Module, RefreshAgenda(ds),
           UNCHANGED <<matched, tag, strategy, expression>>
    PROVE  /\ Markers' /\ Board' /\ Activated' = Activated
           /\ salience' \in [Rule -> Salience] /\ haltExecution' \in BOOLEAN
           /\ \A m \in Activated : ModuleFor(m) \in ds =>
                act'[m].salience = EvaluateSalience(RuleOf[m], "when-activated")
<1> DEFINE due == {m \in Activated : ModuleFor(m) \in ds}
           rules == {RuleOf[m] : m \in due}
<1>1. /\ salience' = [r \in Rule |-> IF r \in rules THEN EvaluateSalience(r, "when-activated")
                                     ELSE salience[r]]
      /\ act' = [m \in Match |-> IF m \in due
                                 THEN [act[m] EXCEPT !.salience = salience'[RuleOf[m]]] ELSE act[m]]
      /\ agenda' = [d \in Module |-> IF d \in ds THEN ReorderAgenda(strategy, act', agenda[d])
                                     ELSE agenda[d]]
      /\ haltExecution' = (haltExecution \/ \E r \in rules : Fails(r, "when-activated"))
  BY DEF RefreshAgenda
<1>2. /\ act \in [Match -> Acts] /\ Flags
      /\ strategy \in Strategies /\ Activated \subseteq Match /\ Proper(act, Activated)
      /\ \A m \in Match : act[m] = NoActivation <=> m \notin Activated
  BY BoardFacts DEF IInv, Markers
<1>3. \A m \in due : RuleOf[m] \in rules /\ m \in Match /\ m \in Activated
  BY <1>2
<1>4. \A m \in Match : RuleOf[m] \in Rule
  BY RuleAssumption
<1>5. \A m \in Match : m \notin due => \A d \in ds : m \in Activated => ModuleFor(m) # d
  OBVIOUS
<1>6. \A m \in Activated : ModuleFor(m) \in ds => m \in due
  OBVIOUS
<1> HIDE DEF due, rules
<1>7. salience' \in [Rule -> Salience]
  <2>1. \A r \in Rule : EvaluateSalience(r, "when-activated") \in Salience
    BY <1>2, EvaluateIs
  <2> QED BY <1>1, <1>2, <2>1 DEF Flags
<1>8. haltExecution' \in BOOLEAN
  BY <1>1, <1>2 DEF Flags
<1>9. ASSUME NEW m \in Match
      PROVE  /\ act'[m] \in Acts /\ act'[m].tag = act[m].tag /\ act'[m].random = act[m].random
             /\ m \in due => act'[m].salience = EvaluateSalience(RuleOf[m], "when-activated")
             /\ m \notin due => act'[m] = act[m]
  <2>1. act[m] \in Acts
    BY <1>2
  <2>2. CASE m \in due
    <3>1. act'[m] = [act[m] EXCEPT !.salience = salience'[RuleOf[m]]]
      BY <1>1, <2>2
    <3>2. salience'[RuleOf[m]] \in Salience
          /\ salience'[RuleOf[m]] = EvaluateSalience(RuleOf[m], "when-activated")
      BY <1>1, <1>3, <1>4, <1>7, <2>2
    <3> DEFINE v == salience'[RuleOf[m]]
    <3>3. act'[m] = [act[m] EXCEPT !.salience = v] /\ v \in Salience
      BY <3>1, <3>2
    <3> HIDE DEF v
    <3>4. act'[m] \in Acts /\ act'[m].tag = act[m].tag /\ act'[m].random = act[m].random
          /\ act'[m].salience = v
      BY <2>1, <3>3 DEF Acts
    <3> QED BY <2>2, <3>2, <3>4 DEF v
  <2>3. CASE m \notin due
    BY <1>1, <2>1, <2>3
  <2> QED BY <2>2, <2>3
<1>10. act' \in [Match -> Acts]
  <2>1. act' = [m \in Match |-> act'[m]]
    BY <1>1
  <2> QED BY <1>9, <2>1
<1>11. \A m \in Activated : act[m].tag # 0
  BY DEF IInv, Markers, TagsDiffer
<1>12. \A m \in Match : act'[m] = NoActivation <=> m \notin Activated
  <2>1. \A m \in Activated : act'[m] # NoActivation
    BY <1>2, <1>9, <1>11 DEF NoActivation
  <2> QED BY <1>2, <1>3, <1>9, <2>1
<1>13. Activated' = Activated
  BY <1>2, <1>12 DEF Activated, IInv, Markers
<1>14. Markers'
  <2>1. TagsDiffer'
    BY <1>2, <1>9, <1>13 DEF IInv, Markers, TagsDiffer
  <2>2. {m \in Match : act'[m] # NoActivation} \subseteq matched'
    BY <1>12 DEF Activated
  <2> QED BY <1>10, <2>1, <2>2 DEF IInv, Markers
<1>15. Proper(act', Activated)
  <2>1. \A m \in Activated : act'[m].salience \in Int
    <3>1. \A a \in Acts : a.salience \in Int
      BY EngineAssumption DEF Acts
    <3> QED BY <1>2, <1>9, <3>1
  <2> QED BY <1>2, <1>9, <2>1 DEF Proper
<1>16. Board'
  <2>1. Posted(strategy, act, agenda, Activated)
    BY DEF IInv, Board
  <2>2. ASSUME NEW d \in Module \ ds, NEW m \in Activated, ModuleFor(m) = d
        PROVE  act'[m] = act[m]
    BY <1>2, <1>3, <1>9, <2>2 DEF due
  <2>3. Posted(strategy, act', [d \in Module |-> IF d \in ds THEN ReorderAgenda(strategy, act', agenda[d])
                                                 ELSE agenda[d]], Activated)
    BY <1>2, <1>15, <2>1, <2>2, ReorderPosted
  <2> QED BY <1>1, <1>13, <2>3 DEF Board
<1>17. \A m \in Activated : ModuleFor(m) \in ds =>
          act'[m].salience = EvaluateSalience(RuleOf[m], "when-activated")
  BY <1>2, <1>6, <1>9
<1> QED BY <1>7, <1>8, <1>13, <1>14, <1>16, <1>17

LEMMA RefreshAgendaKeeps == ASSUME IInv, RefreshAgendaCommand PROVE IInv'
<1>1. /\ UNCHANGED <<total, matched, tag, strategy, evaluation, expression, focus, haltRules, returned>>
      /\ phase' = phase /\ executing' = executing /\ limit' = limit /\ FocusHasWork'
  BY CommandedIs DEF RefreshAgendaCommand, settings
<1>2. PICK ds \in {{d} : d \in Module} \cup {Module} : RefreshAgenda(ds)
  BY DEF RefreshAgendaCommand
<1>3. ds \subseteq Module
  OBVIOUS
<1>4. /\ Markers' /\ Board' /\ Activated' = Activated
      /\ salience' \in [Rule -> Salience] /\ haltExecution' \in BOOLEAN
  BY <1>1, <1>2, <1>3, RefreshAgendaIs
<1>5. Flags'
  BY <1>1, <1>4 DEF IInv, Flags
<1>6. Counted'
  BY <1>1, <1>4 DEF IInv, Counted, CountIsRight
<1> QED BY <1>1, <1>4, <1>5, <1>6 DEF IInv

LEMMA SetStrategyKeeps == ASSUME IInv, NEW s \in Allowed, SetStrategy(s) PROVE IInv'
<1>1. /\ UNCHANGED <<act, total, matched, tag, evaluation, expression, salience, focus, haltRules, returned>>
      /\ phase' = phase /\ executing' = executing /\ limit' = limit /\ FocusHasWork'
      /\ strategy' = s /\ haltExecution' = FALSE
      /\ agenda' = [d \in Module |-> ReorderAgenda(s, act, agenda[d])]
  BY CommandedIs DEF SetStrategy
<1>2. Activated' = Activated
  BY <1>1 DEF Activated
<1>3. Flags'
  BY <1>1 DEF IInv, Flags
<1>4. Markers' /\ Counted'
  BY <1>1, <1>2 DEF IInv, Markers, TagsDiffer, Counted, CountIsRight
<1>5. Board'
  <2>1. Posted(strategy, act, agenda, Activated) /\ s \in Strategies /\ Proper(act, Activated)
    BY BoardFacts, EngineAssumption DEF IInv, Board
  <2>2. Posted(s, act, [d \in Module |-> IF d \in Module THEN ReorderAgenda(s, act, agenda[d])
                                         ELSE agenda[d]], Activated)
    BY <2>1, ReorderPosted
  <2>3. agenda' = [d \in Module |-> IF d \in Module THEN ReorderAgenda(s, act, agenda[d])
                                    ELSE agenda[d]]
    BY <1>1
  <2> QED BY <1>1, <1>2, <2>2, <2>3 DEF Board
<1> QED BY <1>1, <1>3, <1>4, <1>5 DEF IInv

LEMMA SettingKeeps ==
    ASSUME IInv, \/ \E how \in Evaluations : SetSalienceEvaluation(how)
                 \/ \E r \in Dynamic, v \in Salience \cup {Failure} : ExpressionChanges(r, v)
    PROVE  IInv'
<1>1. CASE \E how \in Evaluations : SetSalienceEvaluation(how)
  <2>1. PICK how \in Evaluations : SetSalienceEvaluation(how)
    BY <1>1
  <2>2. /\ UNCHANGED <<agendas, matched, tag, strategy, expression, salience, focus, haltRules, returned>>
        /\ phase' = phase /\ executing' = executing /\ limit' = limit /\ FocusHasWork'
        /\ evaluation' = how /\ haltExecution' = FALSE
    BY <2>1, CommandedIs DEF SetSalienceEvaluation
  <2>3. Flags'
    BY <2>2 DEF IInv, Flags
  <2> QED BY <2>2, <2>3, QuietStep
<1>2. CASE \E r \in Dynamic, v \in Salience \cup {Failure} : ExpressionChanges(r, v)
  <2>1. PICK r \in Dynamic, v \in Salience \cup {Failure} : ExpressionChanges(r, v)
    BY <1>2
  <2>2. /\ UNCHANGED <<agendas, matched, tag, strategy, evaluation, salience, focus, haltRules, returned>>
        /\ phase' = phase /\ executing' = executing /\ limit' = limit /\ FocusHasWork'
        /\ expression' = [expression EXCEPT ![r] = v] /\ haltExecution' = FALSE
    BY <2>1, CommandedIs DEF ExpressionChanges
  <2>3. Flags'
    <3>1. expression' \in [Rule -> Salience \cup {Failure}]
      BY <2>2 DEF IInv, Flags
    <3> QED BY <2>2, <3>1 DEF IInv, Flags
  <2> QED BY <2>2, <2>3, QuietStep
<1> QED BY <1>1, <1>2

LEMMA FocusStackKeeps == ASSUME IInv, FocusStack PROVE IInv'
<1>1. /\ UNCHANGED <<agendas, matched, tag, strategy, evaluation, expression, salience, haltRules, returned>>
      /\ phase' = phase /\ executing' = executing /\ limit' = limit /\ FocusHasWork'
      /\ haltExecution' = FALSE
  BY CommandedIs DEF FocusStack, settings
<1>2. focus \in Seq(Module) /\ Len(focus) \in Nat /\ Len(focus) <= MaxFocus /\ MaxFocus \in Nat /\ MaxFocus >= 1
  BY EngineAssumption DEF IInv, Flags
<1>3. focus' \in Seq(Module) /\ Len(focus') <= MaxFocus
  <2>1. ASSUME NEW d \in Module, Len(focus) < MaxFocus, focus' = FocusOn(d, focus)
        PROVE  focus' \in Seq(Module) /\ Len(focus') <= MaxFocus
    <3>1. focus' \in Seq(Module) /\ Len(focus') <= Len(focus) + 1
      BY <1>2, <2>1, FocusOnIs
    <3>2. Len(focus') \in Nat
      BY <3>1
    <3> QED BY <1>2, <2>1, <3>1, <3>2
  <2>2. ASSUME focus' = RemoveFocus(Head(focus), focus)
        PROVE  focus' \in Seq(Module) /\ Len(focus') <= MaxFocus
    <3>1. focus' \in Seq(Module) /\ Len(focus') <= Len(focus)
      BY <1>2, <2>2, RemoveFocusIs
    <3>2. Len(focus') \in Nat
      BY <3>1
    <3> QED BY <1>2, <3>1, <3>2
  <2>3. << >> \in Seq(Module) /\ Len(<< >>) = 0 /\ <<MAIN>> \in Seq(Module) /\ Len(<<MAIN>>) = 1
    BY EngineAssumption
  <2>4. CASE \E d \in Module : Len(focus) < MaxFocus /\ focus' = FocusOn(d, focus)
    BY <2>1, <2>4
  <2>5. CASE focus' = RemoveFocus(Head(focus), focus)
    BY <2>2, <2>5
  <2>6. CASE focus' = << >> \/ focus' = <<MAIN>>
    <3>1. focus' \in Seq(Module) /\ (Len(focus') = 0 \/ Len(focus') = 1)
      BY <2>3, <2>6
    <3> DEFINE n == Len(focus')
    <3>2. n = 0 \/ n = 1
      BY <3>1
    <3> HIDE DEF n
    <3>3. n <= MaxFocus
      BY <1>2, <3>2
    <3> QED BY <3>1, <3>3 DEF n
  <2> QED BY <2>4, <2>5, <2>6 DEF FocusStack
<1>4. Flags'
  BY <1>1, <1>3 DEF IInv, Flags
<1> QED BY <1>1, <1>4, QuietStep

LEMMA InterruptsKeeps == ASSUME IInv, Interrupts PROVE IInv'
<1>1. /\ UNCHANGED <<agendas, matched, tag, strategy, evaluation, expression, salience, focus>>
      /\ phase' = phase /\ executing' = executing /\ limit' = limit /\ FocusHasWork'
  BY CommandedIs DEF Interrupts, settings
<1>2. haltRules' \in BOOLEAN /\ haltExecution' \in BOOLEAN /\ returned' \in BOOLEAN
  BY DEF Interrupts, IInv, Flags
<1>3. Flags'
  BY <1>1, <1>2 DEF IInv, Flags
<1> QED BY <1>1, <1>3, QuietStep

\* The stack that NextActivationToFire leaves.
LEMMA NextFocusKeeps ==
    ASSUME NEW stack \in Seq(Module), Len(stack) <= MaxFocus, NEW ag, focus' = NextFocus(stack, ag)
    PROVE  /\ focus' \in Seq(Module) /\ Len(focus') <= MaxFocus
           /\ focus' # << >> => ag[Head(focus')].list # << >>
<1>1. /\ focus' \in Seq(Module) /\ (Len(focus') <= Len(stack) \/ Len(focus') <= 1)
      /\ focus' # << >> => ag[Head(focus')].list # << >>
  BY NextFocusIs
<1>2. focus' \in Seq(Module)
  BY NextFocusIs
<1>3. Len(focus') \in Nat /\ Len(stack) \in Nat /\ MaxFocus \in Nat /\ MaxFocus >= 1
  BY <1>2, EngineAssumption
<1> QED BY <1>1, <1>2, <1>3

LEMMA RunCommandKeeps == ASSUME IInv, NEW n \in Limits, RunCommand(n) PROVE IInv'
<1>1. /\ UNCHANGED <<agendas, matched, tag, strategy, evaluation, expression, salience, executing, returned>>
      /\ phase = "idle" /\ phase' = "ready" /\ limit' = n
      /\ haltRules' = FALSE /\ haltExecution' = FALSE
      /\ focus' = NextFocus(focus, agenda) /\ agenda' = agenda
  BY DEF RunCommand, settings, agendas
<1>2. /\ focus' \in Seq(Module) /\ Len(focus') <= MaxFocus
      /\ focus' # << >> => agenda[Head(focus')].list # << >>
  BY <1>1, NextFocusKeeps DEF IInv, Flags
<1>3. FocusHasWork'
  BY <1>1, <1>2 DEF FocusHasWork
<1>4. n \in Int
  BY EngineAssumption
<1>5. Flags'
  BY <1>1, <1>2, <1>4 DEF IInv, Flags
<1> QED BY <1>1, <1>3, <1>5, QuietStep

LEMMA RunReturnsKeeps == ASSUME IInv, RunReturns PROVE IInv'
<1>1. /\ UNCHANGED <<agendas, matched, tag, strategy, evaluation, expression, salience, focus, executing,
                     haltExecution, returned>>
      /\ phase = "ready" /\ phase' = "idle" /\ limit' = 0 /\ haltRules' = FALSE
  BY DEF RunReturns, settings
<1>2. FocusHasWork'
  BY <1>1 DEF FocusHasWork
<1>3. Flags'
  <2>1. Flags /\ executing = NoMatch
    BY <1>1 DEF IInv, Flags
  <2>2. /\ strategy' = strategy /\ evaluation' = evaluation /\ expression' = expression
        /\ salience' = salience /\ focus' = focus /\ executing' = NoMatch
        /\ haltExecution' = haltExecution /\ returned' = returned
    BY <1>1, <2>1
  <2>3. phase' = "idle" /\ limit' = 0 /\ haltRules' = FALSE
    BY <1>1
  <2>4. limit' \in Int
    BY <2>3
  <2> QED BY <2>1, <2>2, <2>3, <2>4 DEF Flags
<1> QED BY <1>1, <1>2, <1>3, QuietStep

\* The activation that (run) is to fire leads the agenda of the focus.
LEMMA UpcomingIs ==
    ASSUME IInv, phase = "ready", Upcoming # NoMatch
    PROVE  /\ focus # << >> /\ Head(focus) \in Module /\ Upcoming \in Activated
           /\ ModuleFor(Upcoming) = Head(focus)
           /\ 1 \in DOMAIN agenda[Head(focus)].list
           /\ Upcoming = agenda[Head(focus)].list[1]
<1>1. focus # << >> /\ focus \in Seq(Module)
  BY DEF Upcoming, IInv, Flags
<1>2. Head(focus) \in Module
  BY <1>1
<1> DEFINE d == Head(focus)
           list == agenda[d].list
<1>3. list # << >> /\ list \in Seq(Match) /\ ToSet(list) = {m \in Activated : ModuleFor(m) = d}
  BY <1>1, <1>2 DEF IInv, FocusHasWork, Board, Posted, Ranked
<1> HIDE DEF d
<1>4. 1 \in DOMAIN list /\ Head(list) = list[1] /\ list[1] \in ToSet(list)
  BY <1>3 DEF ToSet
<1>5. Upcoming = Head(list)
  BY <1>1 DEF Upcoming, d
<1> QED BY <1>1, <1>2, <1>3, <1>4, <1>5 DEF d

LEMMA FireKeeps == ASSUME IInv, Fire PROVE IInv'
<1> DEFINE m == Upcoming
<1>1. /\ UNCHANGED <<total, matched, tag, strategy, evaluation, expression, salience, focus,
                     haltRules, haltExecution, returned>>
      /\ phase = "ready" /\ m # NoMatch /\ phase' = "acting" /\ executing' = m
      /\ agenda' = [agenda EXCEPT ![ModuleFor(m)] = DetachActivation(act, @, m)]
      /\ act' = [act EXCEPT ![m] = NoActivation]
      /\ limit' = (IF limit > 0 THEN limit - 1 ELSE limit)
  BY DEF Fire, MayFire, settings
<1>2. m \in Activated /\ m \in Match
  BY <1>1, UpcomingIs, BoardFacts
<1>3. Activated \ {m} \subseteq matched'
  BY <1>1 DEF Activated
<1> HIDE DEF m
<1>4. /\ Markers' /\ Board' /\ IsFiniteSet(Activated')
      /\ Cardinality(Activated') = Cardinality(Activated) - 1
      /\ Cardinality(Activated) \in Nat
  BY <1>1, <1>2, <1>3, RemoveKeeps
<1>5. Counted'
  BY <1>1, <1>4 DEF IInv, Counted, CountIsRight
<1>6. limit' \in Int
  BY <1>1 DEF IInv, Flags
<1>7. Flags'
  BY <1>1, <1>2, <1>6 DEF IInv, Flags
<1>8. FocusHasWork'
  BY <1>1 DEF FocusHasWork
<1> QED BY <1>4, <1>5, <1>7, <1>8 DEF IInv

LEMMA FinishKeeps == ASSUME IInv, Finish PROVE IInv'
<1>1. /\ UNCHANGED <<matched, tag, strategy, evaluation, expression, limit>>
      /\ phase = "acting" /\ phase' = "ready" /\ executing' = NoMatch /\ total' = total - 1
      /\ returned' = FALSE
      /\ focus' = NextFocus(IF returned THEN RemoveFocus(ModuleFor(executing), focus) ELSE focus, agenda')
      /\ haltRules' = (haltRules \/ BreaksNext(focus', agenda'))
  BY DEF Finish, settings, ReturnActivation
<1>2. /\ Markers' /\ Board' /\ Activated' = Activated
      /\ salience' \in [Rule -> Salience] /\ haltExecution' \in BOOLEAN
  <2>1. CASE evaluation = "every-cycle"
    <3>1. RefreshAgenda(Module)
      BY <2>1 DEF Finish
    <3> QED BY <1>1, <3>1, RefreshAgendaIs
  <2>2. CASE evaluation # "every-cycle"
    <3>1. UNCHANGED <<agenda, act, salience, haltExecution>>
      BY <2>2 DEF Finish
    <3>2. Activated' = Activated
      BY <1>1, <3>1 DEF Activated
    <3> QED BY <1>1, <3>1, <3>2 DEF IInv, Flags, Markers, TagsDiffer, Board
  <2> QED BY <2>1, <2>2
<1>3. Counted'
  <2>1. IsFiniteSet(Activated) /\ total = Cardinality(Activated) + 1
    BY <1>1 DEF IInv, Counted, CountIsRight
  <2>2. Cardinality(Activated) \in Nat
    BY <2>1, FS_CardinalityType
  <2> QED BY <1>1, <1>2, <2>1, <2>2 DEF Counted, CountIsRight
<1> DEFINE stack == IF returned THEN RemoveFocus(ModuleFor(executing), focus) ELSE focus
<1>4. stack \in Seq(Module) /\ Len(stack) <= MaxFocus
  <2>1. focus \in Seq(Module) /\ Len(focus) \in Nat /\ Len(focus) <= MaxFocus /\ MaxFocus \in Nat
    BY EngineAssumption DEF IInv, Flags
  <2> DEFINE popped == RemoveFocus(ModuleFor(executing), focus)
  <2>2. popped \in Seq(Module) /\ Len(popped) <= Len(focus)
    BY <2>1, RemoveFocusIs
  <2> HIDE DEF popped
  <2>3. Len(popped) \in Nat
    BY <2>2
  <2> QED BY <2>1, <2>2, <2>3 DEF popped
<1> HIDE DEF stack
<1>5. /\ focus' \in Seq(Module) /\ Len(focus') <= MaxFocus
      /\ focus' # << >> => agenda'[Head(focus')].list # << >>
  BY <1>1, <1>4, NextFocusKeeps DEF stack
<1>6. FocusHasWork'
  BY <1>5 DEF FocusHasWork
<1>7. haltRules' \in BOOLEAN
  BY <1>1 DEF IInv, Flags, BreaksNext
<1>8. Flags'
  BY <1>1, <1>2, <1>5, <1>7 DEF IInv, Flags
<1> QED BY <1>2, <1>3, <1>6, <1>8 DEF IInv

LEMMA NextInv == IInv /\ [Next]_vars => IInv'
<1> SUFFICES ASSUME IInv, [Next]_vars PROVE IInv'
  OBVIOUS
<1>1. CASE UNCHANGED vars
  <2>1. /\ UNCHANGED <<agendas, matched, tag, strategy, evaluation, expression, salience, focus>>
        /\ UNCHANGED <<phase, executing, limit, haltRules, haltExecution, returned>>
    BY <1>1 DEF vars, settings, cycle
  <2>2. Flags' /\ FocusHasWork'
    BY <2>1 DEF IInv, Flags, FocusHasWork, agendas
  <2> QED BY <2>1, <2>2, QuietStep
<1>2. ASSUME NEW m \in Match, Complete(m) \/ Withdraw(m) \/ Refresh(m) PROVE IInv'
  BY <1>2, CompleteKeeps, WithdrawKeeps, RefreshKeeps
<1>3. ASSUME NEW r \in Rule, Defrule(r) PROVE IInv'
  BY <1>3, DefruleKeeps
<1>4. ASSUME NEW s \in Allowed, SetStrategy(s) PROVE IInv'
  BY <1>4, SetStrategyKeeps
<1>5. ASSUME NEW n \in Limits, RunCommand(n) PROVE IInv'
  BY <1>5, RunCommandKeeps
<1> QED BY <1>1, <1>2, <1>3, <1>4, <1>5, RefreshAgendaKeeps, SettingKeeps, FocusStackKeeps,
           InterruptsKeeps, FireKeeps, FinishKeeps, RunReturnsKeeps DEF Next, Commands, Run

-----------------------------------------------------------------------------
(* What follows.                                                           *)

\* Every part of AgendaInv follows: the groups point at activations, because each
\* has its ends on the list.
LEMMA IInvImplies == IInv => AgendaInv
<1> SUFFICES ASSUME IInv PROVE AgendaInv
  OBVIOUS
<1>1. /\ agenda = [d \in Module |-> agenda[d]]
      /\ \A d \in Module : /\ Ranked(strategy, act, agenda[d])
                           /\ ToSet(agenda[d].list) = {m \in Activated : ModuleFor(m) = d}
  BY DEF IInv, Board, Posted
<1>2. ASSUME NEW d \in Module
      PROVE  agenda[d] \in [list : Seq(Match),
                            groups : Seq([salience : Salience, first : Match, last : Match])]
  <2> DEFINE G == agenda[d].groups
             list == agenda[d].list
             Full == [salience : Salience, first : Match, last : Match]
  <2>1. /\ agenda[d] = [list |-> list, groups |-> G]
        /\ list \in Seq(Match) /\ G \in Seq(Groups) /\ Fits(act, list, G)
    BY <1>1 DEF Ranked
  <2>2. \A a \in Acts : a.salience \in Salience
    BY DEF Acts
  <2>3. ASSUME NEW k \in DOMAIN G PROVE G[k] \in Full
    <3>1. PICK i \in DOMAIN list, j \in DOMAIN list : Ends(act, list, G[k], i, j)
      BY <2>1 DEF Fits
    <3>2. list[i] \in Match /\ list[j] \in Match
      BY <2>1
    <3>3. act[list[i]] \in Acts
      BY <3>2 DEF IInv, Markers
    <3>4. G[k].salience \in Salience /\ G[k].first \in Match /\ G[k].last \in Match
      BY <2>2, <3>1, <3>2, <3>3 DEF Ends
    <3>5. G[k] \in Groups
      BY <2>1, ElementOfSeq
    <3> QED BY <3>4, <3>5 DEF Groups
  <2>4. G \in Seq(Full)
    <3>1. DOMAIN G = 1..Len(G) /\ Len(G) \in Nat /\ G = [k \in 1..Len(G) |-> G[k]]
      BY <2>1
    <3> HIDE DEF G, Full
    <3> QED BY <2>3, <3>1
  <2> HIDE DEF G, list
  <2> QED BY <2>1, <2>4
<1>3. TypeOK
  <2>1. agenda \in [Module -> [list : Seq(Match),
                               groups : Seq([salience : Salience, first : Match, last : Match])]]
    BY <1>1, <1>2
  <2>2. total \in Nat
    <3>1. Cardinality(Activated) \in Nat
      BY FS_CardinalityType DEF IInv, Counted
    <3> QED BY <3>1 DEF IInv, Counted, CountIsRight
  <2> QED BY <2>1, <2>2 DEF TypeOK, IInv, Flags, Markers, Acts
<1>4. AgendasInOrder
  BY <1>1 DEF AgendasInOrder, Ranked
<1>5. GroupsCutAgendas
  BY <1>1, FitsIs DEF GroupsCutAgendas, Ranked
<1>6. MarkersFit
  BY <1>1 DEF MarkersFit, Ranked, IInv, Markers
<1> QED BY <1>3, <1>4, <1>5, <1>6 DEF AgendaInv, IInv, Markers, Counted

\* Whatever commands, rules and the join network do to the agendas, and whatever the
\* saliences, strategies and modules, every agenda stays in order, cut into groups
\* that point at their ends, in step with the markers, the counter and the focus.
THEOREM AgendasHold == Spec => []AgendaInv
<1>1. Spec => []IInv
  BY InitInv, NextInv, PTL DEF Spec
<1> QED BY <1>1, IInvImplies, PTL

\* Run fires the best activation of the module in focus.
THEOREM BestFires == Spec => FiresTheBest
<1>1. Spec => []IInv
  BY InitInv, NextInv, PTL DEF Spec
<1> DEFINE Best ==
      phase = "ready" /\ phase' = "acting" =>
         \A m \in Activated \ {executing'} :
            ModuleFor(m) = ModuleFor(executing') =>
               \/ act[executing'].salience > act[m].salience
               \/ /\ act[executing'].salience = act[m].salience
                  /\ GoesAfter(strategy, act, m, executing')
<1>2. IInv /\ [Next]_vars => [Best]_vars
  <2> SUFFICES ASSUME IInv, Next, phase = "ready", phase' = "acting",
                      NEW m \in Activated, m # executing', ModuleFor(m) = ModuleFor(executing')
               PROVE  \/ act[executing'].salience > act[m].salience
                      \/ /\ act[executing'].salience = act[m].salience
                         /\ GoesAfter(strategy, act, m, executing')
    OBVIOUS
  <2>1. Fire
    BY DEF Next, Commands, Run, Complete, Withdraw, Refresh, Defrule, RefreshAgendaCommand,
           SetStrategy, SetSalienceEvaluation, ExpressionChanges, FocusStack, Interrupts,
           Commanded, Finish, RunReturns, RunCommand
  <2>2. executing' = Upcoming /\ Upcoming # NoMatch
    BY <2>1 DEF Fire, MayFire
  <2> DEFINE d == Head(focus)
             list == agenda[d].list
  <2>3. d \in Module /\ ModuleFor(Upcoming) = d /\ 1 \in DOMAIN list /\ Upcoming = list[1]
    BY <2>2, UpcomingIs
  <2>4. /\ list \in Seq(Match) /\ InOrder(strategy, act, agenda[d])
        /\ ToSet(list) = {x \in Activated : ModuleFor(x) = d}
    BY <2>3 DEF IInv, Board, Posted, Ranked
  <2>5. m \in ToSet(list)
    BY <2>2, <2>3, <2>4
  <2>6. PICK j \in DOMAIN list : m = list[j]
    BY <2>5 DEF ToSet
  <2>7. 1 < j
    BY <2>2, <2>3, <2>4, <2>6
  <2> QED BY <2>2, <2>3, <2>4, <2>6, <2>7 DEF InOrder
<1> QED BY <1>1, <1>2, PTL DEF Spec, FiresTheBest

\* With salience evaluated every cycle, the end of a rule's actions brings every
\* activation the salience its expression yields now.
THEOREM CurrentSalience == Spec => SalienceIsCurrent
<1>1. Spec => []IInv
  BY InitInv, NextInv, PTL DEF Spec
<1> DEFINE Current ==
      phase = "acting" /\ phase' = "ready" /\ evaluation = "every-cycle" =>
         \A m \in Activated :
            RuleOf[m] \in Dynamic /\ expression[RuleOf[m]] # Failure =>
               act'[m].salience = expression[RuleOf[m]]
<1>2. IInv /\ [Next]_vars => [Current]_vars
  <2> SUFFICES ASSUME IInv, Next, phase = "acting", phase' = "ready", evaluation = "every-cycle",
                      NEW m \in Activated, RuleOf[m] \in Dynamic, expression[RuleOf[m]] # Failure
               PROVE  act'[m].salience = expression[RuleOf[m]]
    OBVIOUS
  <2>1. Finish
    BY DEF Next, Commands, Run, Complete, Withdraw, Refresh, Defrule, RefreshAgendaCommand,
           SetStrategy, SetSalienceEvaluation, ExpressionChanges, FocusStack, Interrupts,
           Commanded, cycle, Fire, RunReturns, RunCommand
  <2>2. RefreshAgenda(Module) /\ UNCHANGED <<matched, tag, strategy, expression>>
    BY <2>1 DEF Finish, settings
  <2>3. \A x \in Activated : ModuleFor(x) \in Module =>
          act'[x].salience = EvaluateSalience(RuleOf[x], "when-activated")
    BY <2>2, RefreshAgendaIs
  <2>4. ModuleFor(m) \in Module
    BY BoardFacts, RuleAssumption, ModuleAssumption DEF ModuleFor
  <2>5. EvaluateSalience(RuleOf[m], "when-activated") = expression[RuleOf[m]]
    BY DEF EvaluateSalience, Evaluates
  <2> QED BY <2>3, <2>4, <2>5
<1> QED BY <1>1, <1>2, PTL DEF Spec, SalienceIsCurrent

-----------------------------------------------------------------------------
(* sort.                                                                   *)

\* v belongs in front of w.
Fine(v, w) == ~Swaps(v, w) /\ (~Swaps(w, v) => v.arg < w.arg)
Sorted(s) == \A j, k \in DOMAIN s : j < k => Fine(s[j], s[k])
Holding(s, x) == \E k \in DOMAIN s : s[k] = x

\* What comes of the values so far when the next one is x: the body of the loop.
MergeBody(one, two, b) ==
    IF b.c1 > Len(one) \/ (b.c2 <= Len(two) /\ Swaps(one[b.c1], two[b.c2]))
    THEN [c1 |-> b.c1, c2 |-> b.c2 + 1, list |-> Append(b.list, two[b.c2])]
    ELSE [c1 |-> b.c1 + 1, c2 |-> b.c2, list |-> Append(b.list, one[b.c1])]
MergeStart == [c1 |-> 1, c2 |-> 1, list |-> << >>]

\* f[m] is what there is after m values.
MergeRun(one, two, n, f) ==
    /\ Merge(one, two) = f[n].list
    /\ f[0] = MergeStart
    /\ \A m \in 0 .. n - 1 : f[m + 1] = MergeBody(one, two, f[m])

\* The loop comes to an end.
LEMMA MergeRuns ==
    ASSUME NEW one, NEW two, NEW n \in Nat, n = Len(one) + Len(two)
    PROVE  \E f : MergeRun(one, two, n, f)
<1> DEFINE Body(f, m) == IF m = 0 THEN MergeStart ELSE MergeBody(one, two, f[m - 1])
           T == {k \in 0 .. n : \E f : f = [m \in 0 .. k |-> Body(f, m)]}
           merged == CHOOSE f : f = [m \in 0 .. n |-> Body(f, m)]
<1>1. Merge(one, two) = merged[n].list
  BY DEF Merge, MergeBody, MergeStart
<1>2. 0 \in T
  <2> DEFINE f == [m \in 0 .. 0 |-> MergeStart]
  <2>1. f = [m \in 0 .. 0 |-> Body(f, m)]
    OBVIOUS
  <2> HIDE DEF f, Body
  <2> QED BY <2>1
<1>3. ASSUME NEW k \in 0 .. n - 1, k \in T PROVE k + 1 \in T
  <2>1. PICK f : f = [m \in 0 .. k |-> Body(f, m)]
    BY <1>3
  <2> DEFINE g == [m \in 0 .. k + 1 |-> IF m = k + 1 THEN Body(f, k + 1) ELSE f[m]]
  <2>2. \A m \in 0 .. k : g[m] = f[m]
    OBVIOUS
  <2>3. ASSUME NEW m \in 0 .. k + 1 PROVE g[m] = Body(g, m)
    <3>1. CASE m = k + 1
      <4>1. g[m] = Body(f, m)
        BY <3>1
      <4>2. g[m - 1] = f[m - 1]
        BY <2>2, <3>1
      <4> HIDE DEF g
      <4> QED BY <4>1, <4>2
    <3>2. CASE m # k + 1
      <4>1. m \in 0 .. k /\ (m # 0 => m - 1 \in 0 .. k)
        BY <3>2
      <4>2. f[m] = Body(f, m)
        <5> HIDE DEF Body
        <5> QED BY <2>1, <4>1
      <4>3. m # 0 => g[m - 1] = f[m - 1]
        BY <2>2, <4>1
      <4>4. g[m] = f[m]
        BY <2>2, <4>1
      <4> HIDE DEF g
      <4> QED BY <4>2, <4>3, <4>4
    <3> QED BY <3>1, <3>2
  <2>4. g = [m \in 0 .. k + 1 |-> Body(g, m)]
    <3> HIDE DEF Body
    <3> QED BY <2>3
  <2>5. k + 1 \in 0 .. n
    OBVIOUS
  <2> HIDE DEF g, Body
  <2> QED BY <2>4, <2>5
<1>4. n \in T
  <2> HIDE DEF T
  <2>1. \A k \in 0 .. n : k \in T
    BY <1>2, <1>3, UpTo
  <2> QED BY <2>1
<1> HIDE DEF Body
<1>5. merged = [m \in 0 .. n |-> Body(merged, m)]
  BY <1>4
<1> HIDE DEF merged
<1>6. \A m \in 0 .. n : merged[m] = Body(merged, m)
  BY <1>5
<1>7. merged[0] = MergeStart
  BY <1>6 DEF Body
<1>8. ASSUME NEW m \in 0 .. n - 1 PROVE merged[m + 1] = MergeBody(one, two, merged[m])
  <2>1. m + 1 \in 0 .. n /\ m + 1 # 0 /\ (m + 1) - 1 = m
    OBVIOUS
  <2> QED BY <1>6, <2>1 DEF Body
<1> QED BY <1>1, <1>7, <1>8 DEF MergeRun

\* x is among the first values of s, up to and without place c.
Taken(s, c, x) == \E k \in 1 .. c - 1 : s[k] = x

Between(b, one, two, m, W) ==
    /\ b.c1 \in 1 .. Len(one) + 1 /\ b.c2 \in 1 .. Len(two) + 1 /\ b.c1 + b.c2 = m + 2
    /\ b.list \in Seq(W) /\ Len(b.list) = m
    /\ \A x : Holding(b.list, x) <=> Taken(one, b.c1, x) \/ Taken(two, b.c2, x)

\* What was merged is in order, and in front of what is left.
Ahead(b, one, two) ==
    /\ Sorted(b.list)
    /\ \A j \in DOMAIN b.list : \A k \in b.c1 .. Len(one) : Fine(b.list[j], one[k])
    /\ \A j \in DOMAIN b.list : \A k \in b.c2 .. Len(two) : Fine(b.list[j], two[k])

LEMMA OneMore ==
    ASSUME NEW W, NEW s \in Seq(W), NEW x \in W
    PROVE  /\ Append(s, x) \in Seq(W) /\ Len(Append(s, x)) = Len(s) + 1 /\ Len(s) \in Nat
           /\ DOMAIN s = 1 .. Len(s) /\ DOMAIN Append(s, x) = 1 .. Len(s) + 1
           /\ \A k \in 1 .. Len(s) : Append(s, x)[k] = s[k]
           /\ Append(s, x)[Len(s) + 1] = x
OBVIOUS

LEMMA HoldsOneMore ==
    ASSUME NEW W, NEW s \in Seq(W), NEW y \in W, NEW x
    PROVE  Holding(Append(s, y), x) <=> Holding(s, x) \/ x = y
<1>1. /\ Len(s) \in Nat /\ DOMAIN s = 1 .. Len(s) /\ DOMAIN Append(s, y) = 1 .. Len(s) + 1
      /\ \A k \in 1 .. Len(s) : Append(s, y)[k] = s[k]
      /\ Append(s, y)[Len(s) + 1] = y
  BY OneMore
<1>2. \A k \in 1 .. Len(s) + 1 : k \in 1 .. Len(s) \/ k = Len(s) + 1
  BY <1>1
<1>3. Len(s) + 1 \in 1 .. Len(s) + 1 /\ \A k \in 1 .. Len(s) : k \in 1 .. Len(s) + 1
  BY <1>1
<1> QED BY <1>1, <1>2, <1>3 DEF Holding

LEMMA TakesOneMore ==
    ASSUME NEW s, NEW c \in Nat, c > 0, NEW x
    PROVE  Taken(s, c + 1, x) <=> Taken(s, c, x) \/ x = s[c]
<1>1. \A k \in 1 .. (c + 1) - 1 : k \in 1 .. c - 1 \/ k = c
  OBVIOUS
<1>2. c \in 1 .. (c + 1) - 1 /\ \A k \in 1 .. c - 1 : k \in 1 .. (c + 1) - 1
  OBVIOUS
<1> QED BY <1>1, <1>2 DEF Taken

LEMMA MergeSteps ==
    ASSUME NEW W, NEW one \in Seq(W), NEW two \in Seq(W), NEW m \in Nat, m < Len(one) + Len(two),
           NEW b, Between(b, one, two, m, W)
    PROVE  Between(MergeBody(one, two, b), one, two, m + 1, W)
<1> DEFINE B == MergeBody(one, two, b)
<1>1. /\ Len(one) \in Nat /\ Len(two) \in Nat /\ DOMAIN one = 1 .. Len(one) /\ DOMAIN two = 1 .. Len(two)
      /\ b.c1 \in 1 .. Len(one) + 1 /\ b.c2 \in 1 .. Len(two) + 1 /\ b.c1 + b.c2 = m + 2
      /\ b.list \in Seq(W) /\ Len(b.list) = m
      /\ \A x : Holding(b.list, x) <=> Taken(one, b.c1, x) \/ Taken(two, b.c2, x)
  BY DEF Between
<1> DEFINE second == b.c1 > Len(one) \/ (b.c2 <= Len(two) /\ Swaps(one[b.c1], two[b.c2]))
<1>2. CASE second
  <2>1. B.c1 = b.c1 /\ B.c2 = b.c2 + 1 /\ B.list = Append(b.list, two[b.c2])
    BY <1>2 DEF MergeBody
  <2>2. b.c2 \in 1 .. Len(two) /\ b.c2 \in Nat /\ b.c2 > 0
    BY <1>1, <1>2
  <2>3. two[b.c2] \in W
    BY <2>2
  <2>4. B.list \in Seq(W) /\ Len(B.list) = m + 1
    BY <1>1, <2>1, <2>3, OneMore
  <2>5. B.c1 \in 1 .. Len(one) + 1 /\ B.c2 \in 1 .. Len(two) + 1 /\ B.c1 + B.c2 = (m + 1) + 2
    BY <1>1, <2>1, <2>2
  <2> HIDE DEF B
  <2>6. ASSUME NEW x PROVE Holding(B.list, x) <=> Taken(one, B.c1, x) \/ Taken(two, B.c2, x)
    <3>1. Holding(B.list, x) <=> Holding(b.list, x) \/ x = two[b.c2]
      BY <1>1, <2>1, <2>3, HoldsOneMore
    <3>2. Taken(two, B.c2, x) <=> Taken(two, b.c2, x) \/ x = two[b.c2]
      BY <2>1, <2>2, TakesOneMore
    <3> QED BY <1>1, <2>1, <3>1, <3>2
  <2> QED BY <2>4, <2>5, <2>6 DEF Between, B
<1>3. CASE ~second
  <2>1. B.c1 = b.c1 + 1 /\ B.c2 = b.c2 /\ B.list = Append(b.list, one[b.c1])
    BY <1>3 DEF MergeBody
  <2>2. b.c1 \in 1 .. Len(one) /\ b.c1 \in Nat /\ b.c1 > 0
    BY <1>1, <1>3
  <2> HIDE DEF B, second
  <2>3. one[b.c1] \in W
    BY <2>2
  <2>4. B.list \in Seq(W) /\ Len(B.list) = m + 1
    BY <1>1, <2>1, <2>3, OneMore
  <2>5. B.c1 \in 1 .. Len(one) + 1 /\ B.c2 \in 1 .. Len(two) + 1 /\ B.c1 + B.c2 = (m + 1) + 2
    <3>1. b.c1 + 1 \in 1 .. Len(one) + 1 /\ b.c2 \in Nat
      BY <1>1, <2>2
    <3>2. b.c1 + b.c2 = m + 2 /\ m \in Nat
      BY <1>1
    <3> DEFINE p == b.c1
               q == b.c2
    <3>3. p \in Nat /\ q \in Nat /\ p + q = m + 2
      BY <2>2, <3>1, <3>2
    <3> HIDE DEF p, q
    <3>4. (p + 1) + q = (m + 1) + 2
      BY ONLY <3>2, <3>3
    <3>5. B.c1 = p + 1 /\ B.c2 = q
      BY <2>1 DEF p, q
    <3>6. B.c1 + B.c2 = (m + 1) + 2
      BY <3>4, <3>5
    <3> QED BY <1>1, <2>1, <3>1, <3>6
  <2> HIDE DEF B
  <2>6. ASSUME NEW x PROVE Holding(B.list, x) <=> Taken(one, B.c1, x) \/ Taken(two, B.c2, x)
    <3>1. Holding(B.list, x) <=> Holding(b.list, x) \/ x = one[b.c1]
      BY <1>1, <2>1, <2>3, HoldsOneMore
    <3>2. Taken(one, B.c1, x) <=> Taken(one, b.c1, x) \/ x = one[b.c1]
      BY <2>1, <2>2, TakesOneMore
    <3> QED BY <1>1, <2>1, <3>1, <3>2
  <2> QED BY <2>4, <2>5, <2>6 DEF Between, B
<1> QED BY <1>2, <1>3

\* When keys are ordered, and what is in the first slice was given before what is
\* in the second.
LEMMA FineIs ==
    ASSUME Orders, NEW u, NEW v, NEW w, u.key \in Key, v.key \in Key, w.key \in Key
    PROVE  /\ Swaps(u, v) => ~Swaps(v, u)
           /\ ~Swaps(u, v) /\ ~Swaps(v, w) => ~Swaps(u, w)
<1>1. \A k, l, m \in Key :
         /\ <<k, l>> \notin swap \/ <<l, k>> \notin swap
         /\ <<k, l>> \notin swap /\ <<l, m>> \notin swap => <<k, m>> \notin swap
  BY DEF Orders
<1> QED BY <1>1 DEF Swaps

LEMMA MergeKeepsOrder ==
    ASSUME Orders, NEW W, NEW one \in Seq(W), NEW two \in Seq(W), \A w \in W : w.key \in Key,
           Sorted(one), Sorted(two),
           \A j \in DOMAIN one, k \in DOMAIN two : one[j].arg < two[k].arg,
           NEW m \in Nat, m < Len(one) + Len(two),
           NEW b, Between(b, one, two, m, W), Ahead(b, one, two)
    PROVE  Ahead(MergeBody(one, two, b), one, two)
<1> DEFINE B == MergeBody(one, two, b)
           c1 == b.c1
           c2 == b.c2
           s == b.list
<1>1. /\ Len(one) \in Nat /\ Len(two) \in Nat /\ DOMAIN one = 1 .. Len(one) /\ DOMAIN two = 1 .. Len(two)
      /\ c1 \in 1 .. Len(one) + 1 /\ c2 \in 1 .. Len(two) + 1 /\ c1 + c2 = m + 2
      /\ s \in Seq(W) /\ DOMAIN s = 1 .. Len(s) /\ Len(s) \in Nat
      /\ \A k \in 1 .. Len(one) : one[k] \in W
      /\ \A k \in 1 .. Len(two) : two[k] \in W
  BY DEF Between
<1>2. /\ \A j, k \in DOMAIN s : j < k => Fine(s[j], s[k])
      /\ \A j \in DOMAIN s : \A k \in c1 .. Len(one) : Fine(s[j], one[k])
      /\ \A j \in DOMAIN s : \A k \in c2 .. Len(two) : Fine(s[j], two[k])
  BY DEF Ahead, Sorted
<1> DEFINE second == c1 > Len(one) \/ (c2 <= Len(two) /\ Swaps(one[c1], two[c2]))
<1>3. CASE second
  <2> DEFINE x == two[c2]
  <2>1. B.c1 = c1 /\ B.c2 = c2 + 1 /\ B.list = Append(s, x)
    BY <1>3 DEF MergeBody
  <2>2. c2 \in 1 .. Len(two) /\ c2 \in c2 .. Len(two)
    BY <1>1, <1>3
  <2>3. x \in W /\ x.key \in Key
    BY <1>1, <2>2
  <2>4. ASSUME NEW k \in c1 .. Len(one) PROVE Fine(x, one[k])
    <3>1. k \in 1 .. Len(one) /\ c1 \in 1 .. Len(one) /\ (k = c1 \/ c1 < k)
      BY <1>1, <2>4
    <3>2. one[k].key \in Key /\ one[c1].key \in Key
      BY <1>1, <3>1
    <3>3. Swaps(one[c1], x)
      BY <1>1, <1>3, <3>1
    <3>4. ~Swaps(one[c1], one[k])
      <4>1. CASE k = c1
        BY <3>2, <4>1, FineIs DEF Orders, Swaps
      <4>2. CASE c1 < k
        BY <1>1, <3>1, <4>2 DEF Sorted, Fine
      <4> QED BY <3>1, <4>1, <4>2
    <3> HIDE DEF x, c1
    <3>5. ~Swaps(x, one[c1])
      BY <2>3, <3>2, <3>3, FineIs
    <3>6. ~Swaps(x, one[k])
      BY <2>3, <3>2, <3>4, <3>5, FineIs
    <3>7. Swaps(one[k], x)
      BY <2>3, <3>2, <3>3, <3>4, FineIs
    <3> QED BY <3>6, <3>7 DEF Fine
  <2>5. ASSUME NEW k \in c2 + 1 .. Len(two) PROVE Fine(x, two[k])
    <3>1. k \in 1 .. Len(two) /\ c2 < k /\ k \in DOMAIN two /\ c2 \in DOMAIN two
      BY <1>1, <2>2, <2>5
    <3> QED BY <3>1 DEF Sorted
  <2>6. \A j \in 1 .. Len(s) : /\ Fine(s[j], x)
                               /\ \A k \in c1 .. Len(one) : Fine(s[j], one[k])
                               /\ \A k \in c2 + 1 .. Len(two) : Fine(s[j], two[k])
    <3>1. \A k \in c2 + 1 .. Len(two) : k \in c2 .. Len(two)
      BY <1>1
    <3> QED BY <1>1, <1>2, <2>2, <3>1
  <2>7. /\ DOMAIN B.list = 1 .. Len(s) + 1 /\ B.list[Len(s) + 1] = x
        /\ \A j \in 1 .. Len(s) : B.list[j] = s[j]
    BY <1>1, <2>1, <2>3, OneMore
  <2> HIDE DEF x, B, s, c1, c2
  <2>8. ASSUME NEW j \in 1 .. Len(s) + 1, NEW k \in 1 .. Len(s) + 1, j < k
        PROVE  Fine(B.list[j], B.list[k])
    <3>1. j \in 1 .. Len(s) /\ (k \in 1 .. Len(s) \/ k = Len(s) + 1)
      BY <1>1, <2>8
    <3> QED BY <1>1, <1>2, <2>6, <2>7, <2>8, <3>1
  <2>9. ASSUME NEW j \in 1 .. Len(s) + 1
        PROVE  /\ \A k \in c1 .. Len(one) : Fine(B.list[j], one[k])
               /\ \A k \in c2 + 1 .. Len(two) : Fine(B.list[j], two[k])
    <3>1. j \in 1 .. Len(s) \/ j = Len(s) + 1
      BY <1>1, <2>9
    <3> QED BY <2>4, <2>5, <2>6, <2>7, <3>1
  <2>10. Ahead(B, one, two)
    BY <2>1, <2>7, <2>8, <2>9 DEF Ahead, Sorted
  <2> QED BY <2>10 DEF B
<1>4. CASE ~second
  <2> DEFINE x == one[c1]
  <2>1. B.c1 = c1 + 1 /\ B.c2 = c2 /\ B.list = Append(s, x)
    BY <1>4 DEF MergeBody
  <2>2. c1 \in 1 .. Len(one) /\ c1 \in c1 .. Len(one)
    BY <1>1, <1>4
  <2>3. x \in W /\ x.key \in Key
    BY <1>1, <2>2
  <2>4. ASSUME NEW k \in c2 .. Len(two) PROVE Fine(x, two[k])
    <3>1. k \in 1 .. Len(two) /\ c2 \in 1 .. Len(two) /\ c2 <= Len(two) /\ (k = c2 \/ c2 < k)
      BY <1>1, <2>4
    <3>2. two[k].key \in Key /\ two[c2].key \in Key /\ x.arg < two[k].arg
      BY <1>1, <2>2, <3>1
    <3>3. ~Swaps(x, two[c2])
      BY <1>4, <3>1
    <3>4. ~Swaps(x, two[k])
      <4>1. CASE k = c2
        BY <3>3, <4>1
      <4>2. CASE c2 < k
        <5>1. ~Swaps(two[c2], two[k])
          BY <1>1, <3>1, <4>2 DEF Sorted, Fine
        <5> HIDE DEF x
        <5> QED BY <2>3, <3>2, <3>3, <5>1, FineIs
      <4> QED BY <3>1, <4>1, <4>2
    <3> QED BY <3>2, <3>4 DEF Fine
  <2>5. ASSUME NEW k \in c1 + 1 .. Len(one) PROVE Fine(x, one[k])
    <3>1. k \in 1 .. Len(one) /\ c1 < k /\ k \in DOMAIN one /\ c1 \in DOMAIN one
      BY <1>1, <2>2, <2>5
    <3> QED BY <3>1 DEF Sorted
  <2>6. \A j \in 1 .. Len(s) : /\ Fine(s[j], x)
                               /\ \A k \in c1 + 1 .. Len(one) : Fine(s[j], one[k])
                               /\ \A k \in c2 .. Len(two) : Fine(s[j], two[k])
    <3>1. \A k \in c1 + 1 .. Len(one) : k \in c1 .. Len(one)
      BY <1>1
    <3> QED BY <1>1, <1>2, <2>2, <3>1
  <2>7. /\ DOMAIN B.list = 1 .. Len(s) + 1 /\ B.list[Len(s) + 1] = x
        /\ \A j \in 1 .. Len(s) : B.list[j] = s[j]
    BY <1>1, <2>1, <2>3, OneMore
  <2> HIDE DEF x, B, s, c1, c2
  <2>8. ASSUME NEW j \in 1 .. Len(s) + 1, NEW k \in 1 .. Len(s) + 1, j < k
        PROVE  Fine(B.list[j], B.list[k])
    <3>1. j \in 1 .. Len(s) /\ (k \in 1 .. Len(s) \/ k = Len(s) + 1)
      BY <1>1, <2>8
    <3> QED BY <1>1, <1>2, <2>6, <2>7, <2>8, <3>1
  <2>9. ASSUME NEW j \in 1 .. Len(s) + 1
        PROVE  /\ \A k \in c1 + 1 .. Len(one) : Fine(B.list[j], one[k])
               /\ \A k \in c2 .. Len(two) : Fine(B.list[j], two[k])
    <3>1. j \in 1 .. Len(s) \/ j = Len(s) + 1
      BY <1>1, <2>9
    <3> QED BY <2>4, <2>5, <2>6, <2>7, <3>1
  <2>10. Ahead(B, one, two)
    BY <2>1, <2>7, <2>8, <2>9 DEF Ahead, Sorted
  <2> QED BY <2>10 DEF B
<1> QED BY <1>3, <1>4

LEMMA MergeIs ==
    ASSUME NEW W, NEW one \in Seq(W), NEW two \in Seq(W),
           NEW n \in Nat, n = Len(one) + Len(two)
    PROVE  /\ Merge(one, two) \in Seq(W) /\ Len(Merge(one, two)) = n
           /\ \A x : Holding(Merge(one, two), x) <=> Holding(one, x) \/ Holding(two, x)
           /\ /\ Orders /\ (\A w \in W : w.key \in Key)
              /\ Sorted(one) /\ Sorted(two)
              /\ \A j \in DOMAIN one, k \in DOMAIN two : one[j].arg < two[k].arg
              => Sorted(Merge(one, two))
<1> DEFINE Fit == /\ Orders /\ (\A w \in W : w.key \in Key)
                  /\ Sorted(one) /\ Sorted(two)
                  /\ \A j \in DOMAIN one, k \in DOMAIN two : one[j].arg < two[k].arg
<1>0. PICK f : MergeRun(one, two, n, f)
  BY MergeRuns
<1>1. /\ Len(one) \in Nat /\ Len(two) \in Nat /\ DOMAIN one = 1 .. Len(one) /\ DOMAIN two = 1 .. Len(two)
  OBVIOUS
<1>2. /\ Merge(one, two) = f[n].list
      /\ f[0] = MergeStart
      /\ \A m \in 0 .. n - 1 : f[m + 1] = MergeBody(one, two, f[m])
  BY <1>0 DEF MergeRun
<1> DEFINE T == {m \in 0 .. n : Between(f[m], one, two, m, W) /\ (Fit => Ahead(f[m], one, two))}
<1>3. 0 \in T
  <2>1. MergeStart.c1 = 1 /\ MergeStart.c2 = 1 /\ MergeStart.list = << >>
    BY DEF MergeStart
  <2>2. \A x : ~Taken(one, 1, x) /\ ~Taken(two, 1, x) /\ ~Holding(<< >>, x)
    BY DEF Taken, Holding
  <2>3. << >> \in Seq(W) /\ Len(<< >>) = 0 /\ DOMAIN << >> = {}
    OBVIOUS
  <2>4. 1 \in 1 .. Len(one) + 1 /\ 1 \in 1 .. Len(two) + 1 /\ 1 + 1 = 0 + 2
    BY <1>1
  <2>5. Between(MergeStart, one, two, 0, W)
    BY <2>1, <2>2, <2>3, <2>4 DEF Between
  <2>6. Ahead(MergeStart, one, two)
    BY <2>1, <2>3 DEF Ahead, Sorted
  <2>7. 0 \in 0 .. n
    BY <1>1
  <2> HIDE DEF Fit
  <2> QED BY <1>2, <2>5, <2>6, <2>7
<1>4. ASSUME NEW m \in 0 .. n - 1, m \in T PROVE m + 1 \in T
  <2>1. m \in Nat /\ m < n /\ m + 1 \in 0 .. n
    BY <1>1
  <2>2. Between(f[m], one, two, m, W) /\ (Fit => Ahead(f[m], one, two)) /\ m < Len(one) + Len(two)
    BY <1>4, <2>1
  <2>3. f[m + 1] = MergeBody(one, two, f[m])
    BY <1>2
  <2>4. Between(f[m + 1], one, two, m + 1, W)
    <3> HIDE DEF T, Fit
    <3> QED BY <2>1, <2>2, <2>3, MergeSteps
  <2>5. ASSUME Fit PROVE Ahead(f[m + 1], one, two)
    <3>1. Ahead(f[m], one, two)
      BY <2>2, <2>5
    <3> HIDE DEF T
    <3> QED BY <2>1, <2>2, <2>3, <2>5, <3>1, MergeKeepsOrder
  <2> HIDE DEF Fit
  <2> QED BY <2>1, <2>4, <2>5
<1>5. n \in T
  <2> HIDE DEF T
  <2>1. \A m \in 0 .. n : m \in T
    <3> QED BY <1>1, <1>3, <1>4, UpTo
  <2> QED BY <1>1, <2>1
<1>6. Between(f[n], one, two, n, W) /\ (Fit => Ahead(f[n], one, two))
  BY <1>5
<1> HIDE DEF Fit, T
<1>7. f[n].list \in Seq(W) /\ Len(f[n].list) = n /\ f[n].c1 = Len(one) + 1 /\ f[n].c2 = Len(two) + 1
  BY <1>1, <1>6 DEF Between
<1>8. ASSUME NEW x PROVE Holding(f[n].list, x) <=> Holding(one, x) \/ Holding(two, x)
  <2>1. (Len(one) + 1) - 1 = Len(one) /\ (Len(two) + 1) - 1 = Len(two)
    BY <1>1
  <2>2. /\ Taken(one, Len(one) + 1, x) <=> Holding(one, x)
        /\ Taken(two, Len(two) + 1, x) <=> Holding(two, x)
    BY <1>1, <2>1 DEF Taken, Holding
  <2>3. Holding(f[n].list, x) <=> Taken(one, f[n].c1, x) \/ Taken(two, f[n].c2, x)
    BY <1>6 DEF Between
  <2> QED BY <1>7, <2>2, <2>3
<1>9. Fit => Sorted(f[n].list)
  BY <1>6 DEF Ahead
<1> QED BY <1>2, <1>7, <1>8, <1>9 DEF Fit

\* What DoMergeSort does with a slice, given what it makes of smaller ones.
SliceBody(a, f, r) ==
    LET s == r[1]
        e == r[2]
        middle == s + (e - s + 2) \div 2
    IN IF e <= s THEN <<a[s]>>
       ELSE IF s + 1 = e THEN SortPair(a, s)
       ELSE Merge(f[<<s, middle - 1>>], f[<<middle, e>>])

\* The slices of a slice of more than two are smaller, and one follows the other.
LEMMA Halves ==
    ASSUME NEW n \in Nat, NEW s \in 1 .. n, NEW e \in 1 .. n, s + 1 < e,
           NEW middle, middle = s + (e - s + 2) \div 2
    PROVE  /\ middle \in 1 .. n /\ middle - 1 \in 1 .. n
           /\ s <= middle - 1 /\ middle <= e
           /\ middle - 1 < e /\ s < middle
<1> DEFINE d == e - s
           h == (d + 2) \div 2
<1>1. d \in Nat /\ d >= 2
  OBVIOUS
<1>2. h \in Nat /\ 2 * h <= d + 2 /\ d + 2 < 2 * h + 2
  <2> HIDE DEF d
  <2> QED BY <1>1
<1> HIDE DEF d, h
<1>3. h >= 2 /\ h <= d
  BY <1>1, <1>2
<1>4. d = e - s /\ middle = s + h
  BY DEF d, h
<1> QED BY <1>1, <1>2, <1>3, <1>4

\* The recursion comes to an end.
LEMMA SortRuns ==
    ASSUME NEW W, NEW a \in Seq(W)
    PROVE  \A s, e \in 1 .. Len(a) : DoMergeSort(a)[<<s, e>>] = SliceBody(a, DoMergeSort(a), <<s, e>>)
<1> DEFINE n == Len(a)
           D == (DOMAIN a) \X (DOMAIN a)
           Small(k) == {r \in D : r[2] - r[1] <= k}
           T == {k \in 0 .. n : \E f : f = [r \in Small(k) |-> SliceBody(a, f, r)]}
           slice == CHOOSE f : f = [r \in D |-> SliceBody(a, f, r)]
<1>1. DoMergeSort(a) = slice
  BY DEF DoMergeSort, SliceBody
<1>2. n \in Nat /\ DOMAIN a = 1 .. n /\ D = (1 .. n) \X (1 .. n)
  OBVIOUS
<1> HIDE DEF slice
<1>3. 0 \in T
  <2> DEFINE f == [r \in Small(0) |-> <<a[r[1]]>>]
  <2>1. ASSUME NEW r \in Small(0), NEW g PROVE SliceBody(a, g, r) = <<a[r[1]]>>
    <3>1. r[1] \in Nat /\ r[2] \in Nat /\ r[2] - r[1] <= 0
      BY <1>2
    <3>2. r[2] <= r[1]
      BY <3>1
    <3> QED BY <3>2 DEF SliceBody
  <2>2. f = [r \in Small(0) |-> SliceBody(a, f, r)]
    <3> HIDE DEF Small
    <3> QED BY <2>1
  <2> HIDE DEF f, Small
  <2> QED BY <1>2, <2>2
<1>4. ASSUME NEW k \in 0 .. n - 1, k \in T PROVE k + 1 \in T
  <2>1. PICK f : f = [r \in Small(k) |-> SliceBody(a, f, r)]
    BY <1>4
  <2> DEFINE g == [r \in Small(k + 1) |-> SliceBody(a, f, r)]
  <2>2. k \in Nat /\ k + 1 \in 0 .. n
    BY <1>2
  <2>3. ASSUME NEW r \in Small(k + 1) PROVE SliceBody(a, f, r) = SliceBody(a, g, r)
    <3> DEFINE s == r[1]
               e == r[2]
               middle == s + (e - s + 2) \div 2
    <3>1. s \in 1 .. n /\ e \in 1 .. n /\ e - s <= k + 1
      BY <1>2
    <3>2. CASE s + 1 < e
      <4>1. middle \in 1 .. n /\ middle - 1 \in 1 .. n /\ s < middle /\ middle - 1 < e
        <5> HIDE DEF s, e, n
        <5>1. \A q : q = middle => q \in 1 .. n /\ q - 1 \in 1 .. n /\ s < q /\ q - 1 < e
          <6> HIDE DEF middle
          <6> QED BY <1>2, <3>1, <3>2, Halves DEF middle
        <5> QED BY <5>1
      <4> HIDE DEF s, e, middle, n
      <4>2. (middle - 1) - s <= k /\ e - middle <= k /\ (middle - 1) - s <= k + 1 /\ e - middle <= k + 1
        BY <2>2, <3>1, <4>1
      <4>3. /\ <<s, middle - 1>> \in Small(k) /\ <<middle, e>> \in Small(k)
            /\ <<s, middle - 1>> \in Small(k + 1) /\ <<middle, e>> \in Small(k + 1)
        <5>1. \A p, q \in 1 .. n, j \in {k, k + 1} : q - p <= j => <<p, q>> \in Small(j)
          BY <1>2
        <5> HIDE DEF Small
        <5> QED BY <3>1, <4>1, <4>2, <5>1
      <4> HIDE DEF Small
      <4>4. \A t \in Small(k) : f[t] = SliceBody(a, f, t)
        BY <2>1
      <4>5. \A t \in Small(k + 1) : g[t] = SliceBody(a, f, t)
        OBVIOUS
      <4> HIDE DEF g
      <4>6. f[<<s, middle - 1>>] = g[<<s, middle - 1>>] /\ f[<<middle, e>>] = g[<<middle, e>>]
        BY <4>3, <4>4, <4>5
      <4> QED BY <4>6 DEF SliceBody, s, e, middle
    <3>3. CASE ~(s + 1 < e)
      <4>1. e <= s \/ s + 1 = e
        BY <1>2, <3>1, <3>3
      <4> HIDE DEF g, n, Small
      <4> QED BY <4>1 DEF SliceBody
    <3> QED BY <3>2, <3>3
  <2> HIDE DEF Small
  <2>4. g = [r \in Small(k + 1) |-> SliceBody(a, g, r)]
    BY <2>3
  <2> HIDE DEF g, n
  <2> QED BY <2>2, <2>4
<1>5. n \in T
  <2> HIDE DEF T, n
  <2>1. \A k \in 0 .. n : k \in T
    BY <1>2, <1>3, <1>4, UpTo
  <2> QED BY <1>2, <2>1
<1>6. Small(n) = D
  <2>1. \A r \in D : r[1] \in 1 .. n /\ r[2] \in 1 .. n
    BY <1>2
  <2>2. \A p, q \in 1 .. n : q - p <= n
    BY <1>2
  <2> HIDE DEF D, n
  <2> QED BY <2>1, <2>2
<1>7. \E f : f = [r \in D |-> SliceBody(a, f, r)]
  <2> HIDE DEF Small, D, n
  <2> QED BY <1>5, <1>6
<1>8. slice = [r \in D |-> SliceBody(a, slice, r)]
  <2> HIDE DEF D
  <2> QED BY <1>7 DEF slice
<1>9. \A r \in D : slice[r] = SliceBody(a, slice, r)
  <2> HIDE DEF D
  <2> QED BY <1>8
<1> QED BY <1>1, <1>2, <1>9

\* As sort numbers its arguments.
Numbered(a) == \A i \in DOMAIN a : a[i].key \in Key /\ a[i].arg = i

\* x is a slice of a, sorted if the function orders the keys.
SortedSlice(x, a, s, e, W) ==
    /\ x \in Seq(W) /\ Len(x) = e - s + 1
    /\ \A v : Holding(x, v) <=> \E i \in s .. e : a[i] = v
    /\ Orders => Sorted(x)

LEMMA OneIs ==
    ASSUME NEW W, NEW a \in Seq(W), NEW s \in 1 .. Len(a)
    PROVE  SortedSlice(<<a[s]>>, a, s, s, W)
<1>1. s \in Nat /\ s - s + 1 = 1 /\ a[s] \in W
  OBVIOUS
<1>2. <<a[s]>> \in Seq(W) /\ Len(<<a[s]>>) = 1 /\ DOMAIN <<a[s]>> = {1} /\ <<a[s]>>[1] = a[s]
  BY <1>1
<1>3. s .. s = {s}
  BY <1>1
<1> QED BY <1>1, <1>2, <1>3 DEF SortedSlice, Sorted, Holding

LEMMA PairIs ==
    ASSUME NEW W, NEW a \in Seq(W), Numbered(a), NEW s \in 1 .. Len(a), s + 1 \in 1 .. Len(a)
    PROVE  SortedSlice(SortPair(a, s), a, s, s + 1, W)
<1>1. s \in Nat /\ (s + 1) - s + 1 = 2 /\ a[s] \in W /\ a[s + 1] \in W /\ s < s + 1
  OBVIOUS
<1>2. /\ a[s].key \in Key /\ a[s + 1].key \in Key
      /\ a[s].arg = s /\ a[s + 1].arg = s + 1
  BY DEF Numbered
<1>3. \A i : i \in s .. s + 1 <=> i = s \/ i = s + 1
  BY <1>1
<1>4. ASSUME NEW v \in W, NEW w \in W
      PROVE  /\ <<v, w>> \in Seq(W) /\ Len(<<v, w>>) = 2
             /\ \A x : Holding(<<v, w>>, x) <=> x = v \/ x = w
             /\ Fine(v, w) => Sorted(<<v, w>>)
  <2>1. DOMAIN <<v, w>> = {1, 2} /\ <<v, w>>[1] = v /\ <<v, w>>[2] = w
    OBVIOUS
  <2>2. \A j, k \in {1, 2} : j < k => j = 1 /\ k = 2
    OBVIOUS
  <2>3. <<v, w>> \in Seq(W) /\ Len(<<v, w>>) = 2
    OBVIOUS
  <2> QED BY <2>1, <2>2, <2>3 DEF Holding, Sorted
<1>5. CASE Swaps(a[s], a[s + 1])
  <2>1. SortPair(a, s) = <<a[s + 1], a[s]>>
    BY <1>5 DEF SortPair
  <2>2. Orders => Fine(a[s + 1], a[s])
    BY <1>2, <1>5 DEF Orders, Fine, Swaps
  <2> QED BY <1>1, <1>3, <1>4, <2>1, <2>2 DEF SortedSlice
<1>6. CASE ~Swaps(a[s], a[s + 1])
  <2>1. SortPair(a, s) = <<a[s], a[s + 1]>>
    BY <1>6 DEF SortPair
  <2>2. Fine(a[s], a[s + 1])
    BY <1>1, <1>2, <1>6 DEF Fine
  <2> QED BY <1>1, <1>3, <1>4, <2>1, <2>2 DEF SortedSlice
<1> QED BY <1>5, <1>6

\* Two slices, one after the other.
LEMMA SlicesMerge ==
    ASSUME NEW W, NEW a \in Seq(W), Numbered(a), \A w \in W : w.key \in Key,
           NEW s \in 1 .. Len(a), NEW e \in 1 .. Len(a), NEW c \in 1 .. Len(a), s <= c, c < e,
           NEW one, SortedSlice(one, a, s, c, W), NEW two, SortedSlice(two, a, c + 1, e, W)
    PROVE  SortedSlice(Merge(one, two), a, s, e, W)
<1>1. /\ s \in Nat /\ e \in Nat /\ c \in Nat /\ c - s + 1 \in Nat /\ e - (c + 1) + 1 \in Nat
      /\ (c - s + 1) + (e - (c + 1) + 1) = e - s + 1
  OBVIOUS
<1>2. /\ one \in Seq(W) /\ two \in Seq(W)
      /\ Len(one) + Len(two) = e - s + 1 /\ e - s + 1 \in Nat
  BY <1>1 DEF SortedSlice
<1>3. \A i : i \in s .. e <=> i \in s .. c \/ i \in c + 1 .. e
  BY <1>1
<1>4. ASSUME NEW j \in DOMAIN one, NEW k \in DOMAIN two PROVE one[j].arg < two[k].arg
  <2>1. Holding(one, one[j]) /\ Holding(two, two[k])
    BY DEF Holding
  <2>2. PICK i \in s .. c, h \in c + 1 .. e : a[i] = one[j] /\ a[h] = two[k]
    BY <2>1 DEF SortedSlice
  <2>3. i < h /\ i \in DOMAIN a /\ h \in DOMAIN a
    BY <1>1
  <2> QED BY <2>2, <2>3 DEF Numbered
<1> DEFINE n == e - s + 1
<1> HIDE DEF n
<1>5. n \in Nat /\ n = Len(one) + Len(two)
  BY <1>2 DEF n
<1>6. /\ Merge(one, two) \in Seq(W) /\ Len(Merge(one, two)) = n
      /\ \A x : Holding(Merge(one, two), x) <=> Holding(one, x) \/ Holding(two, x)
      /\ /\ Orders /\ (\A w \in W : w.key \in Key)
         /\ Sorted(one) /\ Sorted(two)
         /\ \A j \in DOMAIN one, k \in DOMAIN two : one[j].arg < two[k].arg
         => Sorted(Merge(one, two))
  BY <1>2, <1>5, MergeIs
<1>7. Orders => Sorted(Merge(one, two))
  BY <1>4, <1>6 DEF SortedSlice
<1>8. ASSUME NEW v PROVE Holding(Merge(one, two), v) <=> \E i \in s .. e : a[i] = v
  BY <1>3, <1>6 DEF SortedSlice
<1> QED BY <1>6, <1>7, <1>8 DEF SortedSlice, n

LEMMA SlicesAre ==
    ASSUME NEW W, NEW a \in Seq(W), Numbered(a), \A w \in W : w.key \in Key,
           NEW n \in Nat, n = Len(a)
    PROVE  \A s, e \in 1 .. n : s <= e => SortedSlice(DoMergeSort(a)[<<s, e>>], a, s, e, W)
<1> DEFINE slice == DoMergeSort(a)
           Good(s, e) == SortedSlice(slice[<<s, e>>], a, s, e, W)
           T == {k \in 0 .. n : \A s, e \in 1 .. n : s <= e /\ e - s <= k => Good(s, e)}
<1> HIDE DEF slice
<1>1. \A s, e \in 1 .. n : slice[<<s, e>>] = SliceBody(a, slice, <<s, e>>)
  BY SortRuns DEF slice
<1>2. 0 \in T
  <2>1. ASSUME NEW s \in 1 .. n, NEW e \in 1 .. n, s <= e, e - s <= 0 PROVE Good(s, e)
    <3>1. s = e
      BY <2>1
    <3>2. slice[<<s, e>>] = SliceBody(a, slice, <<s, e>>)
      BY <1>1
    <3>3. slice[<<s, e>>] = <<a[s]>>
      BY <3>1, <3>2 DEF SliceBody
    <3> QED BY <3>1, <3>3, OneIs
  <2> HIDE DEF Good
  <2> QED BY <2>1
<1>3. ASSUME NEW k \in 0 .. n - 1, k \in T PROVE k + 1 \in T
  <2>1. k \in Nat /\ k + 1 \in 0 .. n
    OBVIOUS
  <2>2. ASSUME NEW s \in 1 .. n, NEW e \in 1 .. n, s <= e, e - s <= k + 1 PROVE Good(s, e)
    <3>1. slice[<<s, e>>] = SliceBody(a, slice, <<s, e>>)
      BY <1>1
    <3>2. CASE s = e
      <4>1. slice[<<s, e>>] = <<a[s]>>
        BY <3>1, <3>2 DEF SliceBody
      <4> QED BY <3>2, <4>1, OneIs
    <3>3. CASE s + 1 = e
      <4>1. slice[<<s, e>>] = SortPair(a, s)
        BY <3>1, <3>3 DEF SliceBody
      <4> QED BY <3>3, <4>1, PairIs
    <3>4. CASE s + 1 < e
      <4> DEFINE middle == s + (e - s + 2) \div 2
      <4>1. slice[<<s, e>>] = Merge(slice[<<s, middle - 1>>], slice[<<middle, e>>])
        BY <3>1, <3>4 DEF SliceBody
      <4>2. /\ middle \in 1 .. n /\ middle - 1 \in 1 .. n
            /\ s <= middle - 1 /\ middle <= e /\ middle - 1 < e /\ s < middle
        <5>1. \A q : q = middle => /\ q \in 1 .. n /\ q - 1 \in 1 .. n
                                   /\ s <= q - 1 /\ q <= e /\ q - 1 < e /\ s < q
          <6> HIDE DEF middle
          <6> QED BY <3>4, Halves DEF middle
        <5> QED BY <5>1
      <4> HIDE DEF middle
      <4>3. (middle - 1) - s <= k /\ e - middle <= k /\ (middle - 1) + 1 = middle
        BY <2>1, <2>2, <4>2
      <4>4. Good(s, middle - 1) /\ Good(middle, e)
        <5> HIDE DEF Good
        <5> QED BY <1>3, <4>2, <4>3
      <4> QED BY <4>1, <4>2, <4>3, <4>4, SlicesMerge
    <3>5. s = e \/ s + 1 = e \/ s + 1 < e
      BY <2>2
    <3> QED BY <3>2, <3>3, <3>4, <3>5
  <2> HIDE DEF Good
  <2> QED BY <2>1, <2>2
<1>4. n \in T
  <2> HIDE DEF T
  <2>1. \A k \in 0 .. n : k \in T
    BY <1>2, <1>3, UpTo
  <2> QED BY <2>1
<1>5. \A s, e \in 1 .. n : e - s <= n
  OBVIOUS
<1> HIDE DEF Good
<1>6. \A s, e \in 1 .. n : s <= e => Good(s, e)
  BY <1>4, <1>5
<1> QED BY <1>6 DEF Good, slice

LEMMA SortIs ==
    ASSUME NEW W, NEW a \in Seq(W), Numbered(a), \A w \in W : w.key \in Key
    PROVE  /\ Len(Sort(a)) = Len(a)
           /\ ToSet(Sort(a)) = ToSet(a)
           /\ Orders => \A i, j \in DOMAIN a : i < j => Fine(Sort(a)[i], Sort(a)[j])
<1> DEFINE n == Len(a)
           middle == (n + 1) \div 2
<1>1. n \in Nat /\ n = Len(a) /\ DOMAIN a = 1 .. n
  OBVIOUS
<1> HIDE DEF n
<1>2. CASE n <= 1
  <2>1. Sort(a) = a
    BY <1>1, <1>2 DEF Sort
  <2>2. \A i, j \in DOMAIN a : ~(i < j)
    BY <1>1, <1>2
  <2> QED BY <2>1, <2>2
<1>3. CASE n > 1
  <2>1. middle \in Nat /\ 1 <= middle /\ middle < n
    <3>1. middle \in Nat /\ 2 * middle <= n + 1 /\ n + 1 < 2 * middle + 2
      BY <1>1
    <3> HIDE DEF middle
    <3> QED BY <1>1, <1>3, <3>1
  <2>2. Sort(a) = Merge(DoMergeSort(a)[<<1, middle>>], DoMergeSort(a)[<<middle + 1, n>>])
    BY <1>1, <1>3 DEF Sort, n
  <2> HIDE DEF middle
  <2>3. 1 \in 1 .. n /\ n \in 1 .. n /\ middle \in 1 .. n /\ middle + 1 \in 1 .. n /\ middle + 1 <= n
    BY <1>1, <2>1
  <2>4. /\ SortedSlice(DoMergeSort(a)[<<1, middle>>], a, 1, middle, W)
        /\ SortedSlice(DoMergeSort(a)[<<middle + 1, n>>], a, middle + 1, n, W)
    BY <1>1, <2>1, <2>3, SlicesAre
  <2>5. SortedSlice(Sort(a), a, 1, n, W)
    BY <1>1, <2>1, <2>2, <2>3, <2>4, SlicesMerge
  <2>6. Sort(a) \in Seq(W) /\ Len(Sort(a)) = n - 1 + 1
    BY <2>5 DEF SortedSlice
  <2>7. Len(Sort(a)) = n /\ DOMAIN Sort(a) = 1 .. n
    BY <1>1, <2>6
  <2>8. ToSet(Sort(a)) = ToSet(a)
    BY <1>1, <2>5 DEF SortedSlice, Holding, ToSet
  <2>9. Orders => Sorted(Sort(a))
    BY <2>5 DEF SortedSlice
  <2> QED BY <1>1, <2>7, <2>8, <2>9 DEF Sorted
<1> QED BY <1>1, <1>2, <1>3

SortTyped == arguments \in Seq([key : Key, arg : Nat]) /\ Numbered(arguments)

LEMMA SortStep == SortTyped /\ [SortNext]_sortVars => SortTyped'
<1> SUFFICES ASSUME SortTyped, [SortNext]_sortVars PROVE SortTyped'
  OBVIOUS
<1>1. CASE UNCHANGED sortVars
  BY <1>1 DEF SortTyped, Numbered, sortVars
<1>2. ASSUME NEW key \in Key, SortFunction(key) PROVE SortTyped'
  <2> DEFINE n == Len(arguments)
             v == [key |-> key, arg |-> n + 1]
             W == [key : Key, arg : Nat]
  <2>1. n \in Nat /\ DOMAIN arguments = 1 .. n /\ arguments \in Seq(W)
    BY DEF SortTyped
  <2>2. v \in W /\ v.key \in Key /\ v.arg = n + 1 /\ arguments' = Append(arguments, v)
    BY <1>2, <2>1 DEF SortFunction
  <2> HIDE DEF v, W
  <2>3. /\ Append(arguments, v) \in Seq(W) /\ DOMAIN Append(arguments, v) = 1 .. n + 1
        /\ \A k \in 1 .. n : Append(arguments, v)[k] = arguments[k]
        /\ Append(arguments, v)[n + 1] = v
    BY <2>1, <2>2, OneMore
  <2> HIDE DEF n
  <2>4. \A k \in 1 .. n + 1 : k \in 1 .. n \/ k = n + 1
    BY <2>1
  <2>5. Numbered(arguments)
    BY DEF SortTyped
  <2>6. Numbered(arguments)'
    BY <2>1, <2>2, <2>3, <2>4, <2>5 DEF Numbered
  <2> QED BY <2>2, <2>3, <2>6 DEF SortTyped, W
<1> QED BY <1>1, <1>2 DEF SortNext

(* Whatever the comparison function says, sort answers its arguments; if it
   orders them, it answers them in its order, equal ones as they were given
   (DoMergeSort, MergeSort of sortfun.c), however many they are.           *)
THEOREM SortHolds == SortSpec => []SortInv
<1>1. SortInit => SortTyped
  BY DEF SortInit, SortTyped, Numbered
<1>2. SortTyped => SortInv
  <2> DEFINE W == [key : Key, arg : Nat]
  <2>1. ASSUME SortTyped PROVE SortInv
    <3>1. arguments \in Seq(W) /\ Numbered(arguments) /\ \A w \in W : w.key \in Key
      BY <2>1 DEF SortTyped
    <3> HIDE DEF W
    <3>2. /\ Len(Sort(arguments)) = Len(arguments)
          /\ ToSet(Sort(arguments)) = ToSet(arguments)
          /\ Orders => \A i, j \in DOMAIN arguments :
                           i < j => Fine(Sort(arguments)[i], Sort(arguments)[j])
      BY <3>1, SortIs
    <3> QED BY <3>2 DEF SortInv, SortPermutes, SortIsStable, Fine
  <2> QED BY <2>1
<1> QED BY <1>1, <1>2, SortStep, PTL DEF SortSpec
=============================================================================
