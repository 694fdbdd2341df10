--------------------------- MODULE InstancesProofs ---------------------------
(***************************************************************************)
(* Proofs about Instances, for any names, any chains, any number of        *)
(* instances and calls nested to any depth, and about ClassPrecedence, for *)
(* any number of classes with any number of direct superclasses.           *)
(***************************************************************************)
EXTENDS Instances, ClassPrecedence, SequenceFacts, FiniteSetTheorems, TLAPS

-----------------------------------------------------------------------------
(* The inductive invariant.                                                *)

In(x, s) == \E k \in DOMAIN s : s[k] = x
Once(s) == \A j, k \in DOMAIN s : j # k => s[j] # s[k]
Ascends(s) == \A j, k \in DOMAIN s : j < k => s[j] < s[k]

InstanceRecord == [name : InstanceName, state : {"live", "garbage", "freed"}, installed : BOOLEAN,
                   busy : Nat, initSlotsCalled : BOOLEAN, next : Nat]
Chains == {HashInstance[n] : n \in InstanceName}
Store == [instances : Seq(InstanceRecord), list : Seq(Nat), table : [Chains -> Seq(Nat)],
          garbage : Seq(SUBSET Nat), maintain : BOOLEAN, stray : BOOLEAN]
Caller == [kind : {"message", "make", "initialize", "unmake", "all"},
           phase : {"create", "delete", "init", "created", "replaced", "initialized", "sent"},
           id : Nat, old : Nat, prev : Nat, name : InstanceName \cup {""},
           maintain : BOOLEAN, due : SUBSET Nat]

Is(S, i, state) == i \in DOMAIN S.instances /\ S.instances[i].state = state
ChainOf(S, i) == HashInstance[S.instances[i].name]

\* The list is in the order the instances were made in; nxtList leads up it, from
\* those that have left it, too.
ListOK(S) ==
    Ascends(S.list) /\ \A i \in Nat : In(i, S.list) <=> Is(S, i, "live")
NextOK(S) ==
    \A i \in DOMAIN S.instances :
        S.instances[i].next \in {None0} \cup (i + 1 .. Len(S.instances))
ChainOK(S, b) ==
    Once(S.table[b]) /\ \A i \in Nat : In(i, S.table[b]) <=> Is(S, i, "live") /\ ChainOf(S, i) = b
GarbageOK(S) ==
    /\ Len(S.garbage) > 0
    /\ \A k \in DOMAIN S.garbage : \A i \in S.garbage[k] : Is(S, i, "garbage")
    /\ \A i \in DOMAIN S.instances :
          Is(S, i, "garbage") => \E k \in DOMAIN S.garbage : i \in S.garbage[k]
    /\ \A k, n \in DOMAIN S.garbage : k # n => S.garbage[k] \cap S.garbage[n] = {}
StatesOK(S) ==
    \A i \in DOMAIN S.instances :
        /\ Is(S, i, "garbage") => ~S.instances[i].installed
        /\ Is(S, i, "freed") => S.instances[i].busy = 0
StoreOK(S) ==
    /\ S \in Store
    /\ ListOK(S) /\ NextOK(S)
    /\ \A b \in Chains : ChainOK(S, b)
    /\ GarbageOK(S) /\ StatesOK(S)

\* What a caller holds, opens a garbage frame for, and keeps garbage for.
Holds(C, i) ==
    \/ C.kind = "message" /\ C.id = i
    \/ C.phase = "initialized" /\ C.id = i
    \/ C.phase = "replaced" /\ C.old = i
Owns(C) == C.kind \in {"message", "unmake", "all"}
Keeps(C) == C.kind \in {"unmake", "all"}
KeepsUpTo(cs, n) == \E j \in 1 .. n : Keeps(cs[j])

HoldOK(S, cs) ==
    \A i \in DOMAIN S.instances :
        S.instances[i].busy = Cardinality({k \in DOMAIN cs : Holds(cs[k], i)})
FramesOK(S, cs) == Len(S.garbage) = Cardinality({k \in DOMAIN cs : Owns(cs[k])}) + 1
MaintainOK(S, cs) ==
    /\ S.maintain = KeepsUpTo(cs, Len(cs))
    /\ \A k \in DOMAIN cs : Keeps(cs[k]) => cs[k].maintain = KeepsUpTo(cs, k - 1)

\* unmake-instance of all, which stands on C.id: from there nxtList leads to all
\* that are due, by instances that are due.
AllOK(S, C) ==
    /\ C.id \in DOMAIN S.instances /\ ~Is(S, C.id, "freed")
    /\ \A i \in C.due : i \in DOMAIN S.instances /\ ~Is(S, i, "freed")
    /\ \A i \in C.due : Is(S, i, "live") =>
          /\ C.id < i
          /\ \A j \in DOMAIN S.instances :
                Is(S, j, "live") /\ C.id < j /\ j < i => j \in C.due
          /\ \A j \in C.due \cup {C.id} :
                Is(S, j, "garbage") /\ C.id <= j /\ j < i =>
                    S.instances[j].next \in C.due /\ j < S.instances[j].next
                    /\ S.instances[j].next <= i

\* make-instance, while the instance it replaces is being deleted.
ReplacesOK(S, C) ==
    /\ \A i \in DOMAIN S.instances :
          Is(S, i, "live") /\ S.instances[i].name = C.name => i = C.old
    /\ C.prev # None0 =>
          /\ Is(S, C.prev, "live") /\ C.prev # C.old
          /\ ChainOf(S, C.prev) = HashInstance[C.name]

CallerOK(S, C, tame) ==
    /\ C.kind = "message" => C.phase \in {"create", "delete", "init"}
    /\ C.kind = "make" => C.phase \in {"created", "replaced", "initialized"}
    /\ C.kind = "initialize" => C.phase = "initialized"
    /\ Keeps(C) => C.phase = "sent"
    /\ C.kind = "message" \/ C.phase \in {"created", "initialized"} => C.id \in DOMAIN S.instances
    /\ C.phase = "replaced" => C.old \in DOMAIN S.instances /\ C.name \in InstanceName
    /\ C.phase = "initialized" => Is(S, C.id, "live") /\ ~S.instances[C.id].installed
    /\ C.kind = "all" => AllOK(S, C)
    /\ tame /\ C.phase = "created" => Is(S, C.id, "live")
    /\ tame /\ C.phase = "replaced" => ReplacesOK(S, C)

\* A caller D below C.
Under(D, C, tame) ==
    /\ D.phase = "initialized" /\ C.phase = "initialized" => D.id # C.id
    /\ tame /\ D.kind = "message" /\ D.phase \in {"create", "delete"} =>
          C.kind = "initialize" \/ (C.kind = "message" /\ C.phase = "init")
\* And right below it.
Calls(D, C) ==
    /\ D.phase = "created" => C.kind = "message" /\ C.phase = "create" /\ C.id = D.id
    /\ D.phase = "replaced" => C.kind = "message" /\ C.phase = "delete" /\ C.id = D.old
    /\ C.kind = "message" /\ C.phase = "init" => D.phase = "initialized" /\ D.id = C.id

StackOK(S, cs, tame) ==
    /\ cs \in Seq(Caller)
    /\ \A k \in DOMAIN cs : CallerOK(S, cs[k], tame)
    /\ \A j, k \in DOMAIN cs : j < k => Under(cs[j], cs[k], tame)
    /\ \A k \in 2 .. Len(cs) : Calls(cs[k - 1], cs[k])
    /\ cs # << >> => ~(cs[1].kind = "message" /\ cs[1].phase = "init")

UniqueNames(S) ==
    \A i, j \in DOMAIN S.instances :
        Is(S, i, "live") /\ Is(S, j, "live") /\ S.instances[i].name = S.instances[j].name => i = j

Good(S, cs, tame) ==
    /\ StoreOK(S)
    /\ HoldOK(S, cs) /\ FramesOK(S, cs) /\ MaintainOK(S, cs)
    /\ StackOK(S, cs, tame)
    /\ tame => ~S.stray /\ UniqueNames(S)

Raised == {"none", "error", "halted"}

IInv == Good(store, callers, orderly) /\ raised \in Raised /\ orderly \in BOOLEAN
-----------------------------------------------------------------------------
(* Lists of instances.                                                     *)

\* The first place of x.
LEMMA PlaceOf ==
    ASSUME NEW s \in Seq(Nat), Once(s), NEW k \in DOMAIN s, NEW i, s[k] = i
    PROVE  SelectInSeq(s, LAMBDA x : x = i) = k
<1> DEFINE I == {j \in 1 .. Len(s) : s[j] = i}
<1>1. I = {k}
  BY DEF Once
<1>2. SelectInSeq(s, LAMBDA x : x = i) = IF I # {} THEN Min(I) ELSE 0
  BY DEF SelectInSeq
<1>3. {k} \subseteq Nat /\ {k} # {}
  OBVIOUS
<1>4. Min({k}) = k
  BY <1>3, MinIs
<1> HIDE DEF I
<1> QED BY <1>1, <1>2, <1>4

LEMMA AscendsOnce ==
    ASSUME NEW s \in Seq(Nat), Ascends(s)
    PROVE  Once(s)
<1>1. \A j, k \in DOMAIN s : j # k => j < k \/ k < j
  OBVIOUS
<1>2. \A j \in DOMAIN s : s[j] \in Nat
  OBVIOUS
<1> QED BY <1>1, <1>2 DEF Ascends, Once

LEMMA NextInIs ==
    ASSUME NEW s \in Seq(Nat), Ascends(s), NEW k \in DOMAIN s
    PROVE  NextIn(s, s[k]) = IF k = Len(s) THEN None0 ELSE s[k + 1]
<1>1. Once(s)
  BY DEF Once, Ascends
<1>2. ASSUME NEW i, s[k] = i PROVE NextIn(s, i) = IF k = Len(s) THEN None0 ELSE s[k + 1]
  <2>1. SelectInSeq(s, LAMBDA x : x = i) = k
    BY <1>1, <1>2, PlaceOf DEF SelectInSeq
  <2> QED BY <2>1 DEF NextIn
<1> QED BY <1>2

LEMMA NextInMeans ==
    ASSUME NEW s \in Seq(Nat), Ascends(s), \A k \in DOMAIN s : s[k] # None0, NEW i, In(i, s)
    PROVE  /\ NextIn(s, i) = None0 => \A x \in Nat : In(x, s) => x <= i
           /\ NextIn(s, i) # None0 => /\ In(NextIn(s, i), s) /\ i < NextIn(s, i)
                                      /\ \A x \in Nat : In(x, s) /\ i < x => NextIn(s, i) <= x
<1>1. PICK k \in DOMAIN s : s[k] = i
  BY DEF In
<1>2. NextIn(s, i) = IF k = Len(s) THEN None0 ELSE s[k + 1]
  BY <1>1, NextInIs
<1>3. k \in 1 .. Len(s) /\ Len(s) \in Nat /\ DOMAIN s = 1 .. Len(s) /\ \A j \in 1 .. Len(s) : s[j] \in Nat
  OBVIOUS
<1>4. CASE k = Len(s)
  <2>1. ASSUME NEW j \in 1 .. Len(s) PROVE s[j] <= i
    BY <1>1, <1>3, <1>4 DEF Ascends
  <2> QED BY <1>2, <1>4, <2>1 DEF In
<1>5. CASE k # Len(s)
  <2>1. k + 1 \in DOMAIN s /\ k < k + 1
    BY <1>3, <1>5
  <2>2. NextIn(s, i) = s[k + 1] /\ s[k + 1] # None0 /\ i < s[k + 1]
    BY <1>1, <1>2, <1>5, <2>1 DEF Ascends
  <2>3. ASSUME NEW j \in 1 .. Len(s), i < s[j] PROVE s[k + 1] <= s[j]
    <3>1. j > k
      BY <1>1, <1>3, <2>3 DEF Ascends
    <3>2. j = k + 1 \/ k + 1 < j
      BY <1>3, <3>1
    <3> QED BY <1>3, <2>1, <3>2 DEF Ascends
  <2> QED BY <1>3, <2>1, <2>2, <2>3 DEF In
<1> QED BY <1>4, <1>5

LEMMA WithoutOne ==
    ASSUME NEW s \in Seq(Nat), Once(s), NEW k \in DOMAIN s, NEW r \in Seq(Nat),
           Len(r) = Len(s) - 1,
           \A j \in 1 .. Len(s) - 1 : r[j] = IF j < k THEN s[j] ELSE s[j + 1]
    PROVE  /\ Once(r) /\ (Ascends(s) => Ascends(r))
           /\ \A x \in Nat : In(x, r) <=> In(x, s) /\ x # s[k]
<1> DEFINE n == Len(s)
           from(j) == IF j < k THEN j ELSE j + 1
<1>1. n \in Nat /\ k \in 1 .. n /\ DOMAIN s = 1 .. n /\ DOMAIN r = 1 .. n - 1
  OBVIOUS
<1>2. \A j \in 1 .. n - 1 : from(j) \in 1 .. n /\ from(j) # k
  BY <1>1
<1>3. \A j \in 1 .. n - 1 : r[j] = s[from(j)]
  BY <1>1
<1>4. \A i, j \in 1 .. n - 1 : (i < j => from(i) < from(j)) /\ (i # j => from(i) # from(j))
  <2>1. SUFFICES ASSUME NEW i \in 1 .. n - 1, NEW j \in 1 .. n - 1
                 PROVE  (i < j => from(i) < from(j)) /\ (i # j => from(i) # from(j))
    OBVIOUS
  <2>2. i \in Int /\ j \in Int /\ k \in Int
    BY <1>1
  <2>3. CASE i < k /\ j < k
    BY <2>2, <2>3
  <2>4. CASE i < k /\ ~(j < k)
    BY <2>2, <2>4
  <2>5. CASE ~(i < k) /\ j < k
    BY <2>2, <2>5
  <2>6. CASE ~(i < k) /\ ~(j < k)
    BY <2>2, <2>6
  <2> QED BY <2>3, <2>4, <2>5, <2>6
<1>5. ASSUME NEW m \in 1 .. n, m # k PROVE \E j \in 1 .. n - 1 : from(j) = m
  <2>1. CASE m < k
    BY <1>1, <2>1
  <2>2. CASE m > k
    <3>1. m - 1 \in 1 .. n - 1 /\ ~(m - 1 < k) /\ (m - 1) + 1 = m
      BY <1>1, <2>2
    <3> QED BY <3>1
  <2> QED BY <1>1, <1>5, <2>1, <2>2
<1> HIDE DEF n, from
<1>6. Once(r)
  <2>1. ASSUME NEW i \in 1 .. n - 1, NEW j \in 1 .. n - 1, i # j PROVE r[i] # r[j]
    <3>1. from(i) \in DOMAIN s /\ from(j) \in DOMAIN s /\ from(i) # from(j)
      BY <1>1, <1>2, <1>4, <2>1
    <3>2. r[i] = s[from(i)] /\ r[j] = s[from(j)]
      BY <1>3
    <3> QED BY <3>1, <3>2 DEF Once
  <2> QED BY <1>1, <2>1 DEF Once
<1>7. ASSUME Ascends(s) PROVE Ascends(r)
  <2>1. ASSUME NEW i \in 1 .. n - 1, NEW j \in 1 .. n - 1, i < j PROVE r[i] < r[j]
    <3>1. from(i) \in DOMAIN s /\ from(j) \in DOMAIN s /\ from(i) < from(j)
      BY <1>1, <1>2, <1>4, <2>1
    <3>2. r[i] = s[from(i)] /\ r[j] = s[from(j)]
      BY <1>3
    <3> QED BY <1>7, <3>1, <3>2 DEF Ascends
  <2> QED BY <1>1, <2>1 DEF Ascends
<1>8. ASSUME NEW x \in Nat PROVE In(x, r) <=> In(x, s) /\ x # s[k]
  <2>1. ASSUME NEW j \in 1 .. n - 1, r[j] = x PROVE In(x, s) /\ x # s[k]
    <3>1. from(j) \in DOMAIN s /\ from(j) # k /\ s[from(j)] = x
      BY <1>1, <1>2, <1>3, <2>1
    <3> QED BY <3>1 DEF In, Once
  <2>2. ASSUME NEW m \in 1 .. n, s[m] = x, x # s[k] PROVE In(x, r)
    <3>1. PICK j \in 1 .. n - 1 : from(j) = m
      BY <1>5, <2>2
    <3> QED BY <1>1, <1>3, <2>2, <3>1 DEF In
  <2> QED BY <1>1, <2>1, <2>2 DEF In
<1> QED BY <1>6, <1>7, <1>8

LEMMA OneRemoved ==
    ASSUME NEW s \in Seq(Nat), NEW k \in 1 .. Len(s)
    PROVE  /\ RemoveAt(s, k) \in Seq(Nat) /\ Len(RemoveAt(s, k)) = Len(s) - 1
           /\ \A j \in 1 .. Len(s) - 1 : RemoveAt(s, k)[j] = IF j < k THEN s[j] ELSE s[j + 1]
BY RemoveAtProperties

LEMMA OneInserted ==
    ASSUME NEW s \in Seq(Nat), NEW i \in Nat, NEW at \in 1 .. Len(s) + 1
    PROVE  /\ InsertAt(s, at, i) \in Seq(Nat) /\ Len(InsertAt(s, at, i)) = Len(s) + 1
           /\ \A j \in 1 .. Len(s) + 1 :
                InsertAt(s, at, i)[j] = IF j < at THEN s[j] ELSE IF j = at THEN i ELSE s[j - 1]
BY InsertAtProperties

LEMMA RemoveFirstIs ==
    ASSUME NEW s \in Seq(Nat), Once(s), NEW i \in Nat
    PROVE  /\ RemoveFirst(s, i) \in Seq(Nat) /\ Once(RemoveFirst(s, i))
           /\ Ascends(s) => Ascends(RemoveFirst(s, i))
           /\ \A x \in Nat : In(x, RemoveFirst(s, i)) <=> In(x, s) /\ x # i
<1>1. CASE ~In(i, s)
  <2>1. RemoveFirst(s, i) = s
    BY <1>1 DEF RemoveFirst, In
  <2>2. \A x \in Nat : In(x, s) <=> In(x, s) /\ x # i
    BY <1>1
  <2> QED BY <2>1, <2>2
<1>2. CASE In(i, s)
  <2>1. PICK k \in DOMAIN s : s[k] = i
    BY <1>2 DEF In
  <2>2. SelectInSeq(s, LAMBDA x : x = i) = k
    BY <2>1, PlaceOf DEF SelectInSeq
  <2>3. RemoveFirst(s, i) = RemoveAt(s, k)
    BY <1>2, <2>2 DEF RemoveFirst, In
  <2>4. /\ RemoveAt(s, k) \in Seq(Nat) /\ Len(RemoveAt(s, k)) = Len(s) - 1
        /\ \A j \in 1 .. Len(s) - 1 : RemoveAt(s, k)[j] = IF j < k THEN s[j] ELSE s[j + 1]
    <3>1. s \in Seq(Nat) /\ k \in 1 .. Len(s)
      OBVIOUS
    <3> QED BY ONLY <3>1, OneRemoved
  <2>5. /\ Once(RemoveAt(s, k)) /\ (Ascends(s) => Ascends(RemoveAt(s, k)))
        /\ \A x \in Nat : In(x, RemoveAt(s, k)) <=> In(x, s) /\ x # i
    BY <2>1, <2>4, WithoutOne
  <2> QED BY <2>3, <2>4, <2>5
<1> QED BY <1>1, <1>2

LEMMA InsertIs ==
    ASSUME NEW s \in Seq(Nat), Once(s), NEW i \in Nat, ~In(i, s), NEW at \in 1 .. Len(s) + 1
    PROVE  /\ InsertAt(s, at, i) \in Seq(Nat) /\ Once(InsertAt(s, at, i))
           /\ \A x \in Nat : In(x, InsertAt(s, at, i)) <=> In(x, s) \/ x = i
<1> DEFINE r == InsertAt(s, at, i)
           n == Len(s)
           from(j) == IF j < at THEN j ELSE j - 1
<1>1. n \in Nat /\ DOMAIN s = 1 .. n /\ at \in 1 .. n + 1
  OBVIOUS
<1>2. /\ r \in Seq(Nat) /\ Len(r) = n + 1
      /\ \A j \in 1 .. n + 1 : r[j] = IF j < at THEN s[j] ELSE IF j = at THEN i ELSE s[j - 1]
  BY OneInserted
<1>3. /\ \A j \in 1 .. n + 1 : j # at => from(j) \in 1 .. n
      /\ \A j, k \in 1 .. n + 1 : j # at /\ k # at /\ j # k => from(j) # from(k)
  BY <1>1
<1>4. \A j \in 1 .. n + 1 : r[j] = IF j = at THEN i ELSE s[from(j)]
  BY <1>1, <1>2
<1>5. ASSUME NEW m \in 1 .. n PROVE \E j \in 1 .. n + 1 : j # at /\ from(j) = m
  <2>1. CASE m < at
    BY <1>1, <2>1
  <2>2. CASE m >= at
    <3>1. m + 1 \in 1 .. n + 1 /\ ~(m + 1 < at) /\ m + 1 # at /\ (m + 1) - 1 = m
      BY <1>1, <2>2
    <3> QED BY <3>1
  <2> QED BY <1>1, <2>1, <2>2
<1>6. r \in Seq(Nat) /\ DOMAIN r = 1 .. n + 1
  BY <1>1, <1>2
<1> HIDE DEF r, n, from
<1>7. Once(r)
  BY <1>1, <1>3, <1>4, <1>6 DEF Once, In
<1>8. ASSUME NEW x \in Nat PROVE In(x, r) <=> In(x, s) \/ x = i
  <2>1. ASSUME NEW j \in 1 .. n + 1, r[j] = x PROVE In(x, s) \/ x = i
    BY <1>1, <1>3, <1>4, <2>1 DEF In
  <2>2. ASSUME NEW m \in 1 .. n, s[m] = x PROVE In(x, r)
    <3>1. PICK j \in 1 .. n + 1 : j # at /\ from(j) = m
      BY <1>5
    <3> QED BY <1>4, <1>6, <2>2, <3>1 DEF In
  <2>3. In(i, r)
    BY <1>1, <1>4, <1>6 DEF In
  <2> QED BY <1>1, <1>6, <2>1, <2>2, <2>3 DEF In
<1> QED BY <1>6, <1>7, <1>8 DEF r

LEMMA AppendIs ==
    ASSUME NEW s \in Seq(Nat), Ascends(s), NEW i \in Nat, \A k \in DOMAIN s : s[k] < i
    PROVE  /\ Append(s, i) \in Seq(Nat) /\ Ascends(Append(s, i))
           /\ \A x \in Nat : In(x, Append(s, i)) <=> In(x, s) \/ x = i
<1> DEFINE r == Append(s, i)
           n == Len(s)
<1>1. /\ n \in Nat /\ DOMAIN s = 1 .. n /\ r \in Seq(Nat) /\ DOMAIN r = 1 .. n + 1
      /\ \A k \in 1 .. n : r[k] = s[k] /\ s[k] \in Nat
      /\ r[n + 1] = i
  OBVIOUS
<1> HIDE DEF r, n
<1>2. Ascends(r)
  <2>1. SUFFICES ASSUME NEW j \in 1 .. n + 1, NEW k \in 1 .. n + 1, j < k PROVE r[j] < r[k]
    BY <1>1 DEF Ascends
  <2>2. j \in 1 .. n /\ (k \in 1 .. n \/ k = n + 1)
    BY <1>1, <2>1
  <2> QED BY <1>1, <2>1, <2>2 DEF Ascends
<1>3. ASSUME NEW x \in Nat PROVE In(x, r) <=> In(x, s) \/ x = i
  <2>1. \A k \in 1 .. n + 1 : k \in 1 .. n \/ k = n + 1
    BY <1>1
  <2>2. n + 1 \in 1 .. n + 1 /\ \A k \in 1 .. n : k \in 1 .. n + 1
    BY <1>1
  <2> QED BY <1>1, <2>1, <2>2 DEF In
<1> QED BY <1>1, <1>2, <1>3 DEF r
-----------------------------------------------------------------------------
(* Instances that are touched: held, let go, being initialized.            *)

\* What is on lists, and where, is the same.
Alike(S, T) ==
    /\ T \in Store /\ T.list = S.list /\ T.table = S.table /\ T.garbage = S.garbage
    /\ T.maintain = S.maintain /\ T.stray = S.stray
    /\ DOMAIN T.instances = DOMAIN S.instances
    /\ \A i \in DOMAIN S.instances :
          /\ T.instances[i].name = S.instances[i].name /\ T.instances[i].state = S.instances[i].state
          /\ T.instances[i].next = S.instances[i].next

\* Nothing but i, which becomes J.
Touched(S, T, i, J) ==
    /\ Alike(S, T) /\ T.instances[i] = J
    /\ \A j \in DOMAIN S.instances : j # i => T.instances[j] = S.instances[j]

LEMMA StoreFields ==
    ASSUME NEW S \in Store
    PROVE  /\ S.instances \in Seq(InstanceRecord) /\ S.list \in Seq(Nat)
           /\ S.table \in [Chains -> Seq(Nat)] /\ S.garbage \in Seq(SUBSET Nat)
           /\ S.maintain \in BOOLEAN /\ S.stray \in BOOLEAN
           /\ Len(S.instances) \in Nat /\ DOMAIN S.instances = 1 .. Len(S.instances)
           /\ \A i \in DOMAIN S.instances :
                 /\ S.instances[i] \in InstanceRecord
                 /\ S.instances[i].name \in InstanceName
                 /\ S.instances[i].state \in {"live", "garbage", "freed"}
                 /\ S.instances[i].installed \in BOOLEAN
                 /\ S.instances[i].busy \in Nat /\ S.instances[i].initSlotsCalled \in BOOLEAN
                 /\ S.instances[i].next \in Nat
<1>1. /\ S.instances \in Seq(InstanceRecord) /\ S.list \in Seq(Nat)
      /\ S.table \in [Chains -> Seq(Nat)] /\ S.garbage \in Seq(SUBSET Nat)
      /\ S.maintain \in BOOLEAN /\ S.stray \in BOOLEAN
  BY DEF Store
<1>2. /\ Len(S.instances) \in Nat /\ DOMAIN S.instances = 1 .. Len(S.instances)
      /\ \A i \in DOMAIN S.instances : S.instances[i] \in InstanceRecord
  BY <1>1
<1>3. ASSUME NEW J \in InstanceRecord
      PROVE  /\ J.name \in InstanceName /\ J.state \in {"live", "garbage", "freed"}
             /\ J.installed \in BOOLEAN /\ J.busy \in Nat
             /\ J.initSlotsCalled \in BOOLEAN /\ J.next \in Nat
  BY DEF InstanceRecord
<1> QED BY <1>1, <1>2, <1>3

LEMMA TouchIs ==
    ASSUME NEW S \in Store, NEW i \in DOMAIN S.instances, NEW J \in InstanceRecord,
           J.name = S.instances[i].name, J.state = S.instances[i].state, J.next = S.instances[i].next
    PROVE  Touched(S, [S EXCEPT !.instances[i] = J], i, J)
<1> DEFINE T == [S EXCEPT !.instances[i] = J]
           ins == [S.instances EXCEPT ![i] = J]
<1>1. S.instances \in Seq(InstanceRecord)
  BY StoreFields
<1>2. /\ ins \in Seq(InstanceRecord) /\ DOMAIN ins = DOMAIN S.instances /\ ins[i] = J
      /\ \A j \in DOMAIN S.instances : j # i => ins[j] = S.instances[j]
  BY <1>1
<1> HIDE DEF ins
<1>3. T = [S EXCEPT !.instances = ins]
  BY DEF ins, Store
<1>4. /\ T \in Store /\ T.instances = ins /\ T.list = S.list /\ T.table = S.table
      /\ T.garbage = S.garbage /\ T.maintain = S.maintain /\ T.stray = S.stray
  BY <1>2, <1>3 DEF Store
<1> HIDE DEF T
<1> QED BY <1>2, <1>4 DEF Touched, Alike, T

LEMMA AlikeIs ==
    ASSUME NEW S, NEW T, Alike(S, T), NEW i, NEW state
    PROVE  Is(T, i, state) <=> Is(S, i, state)
BY DEF Alike, Is

LEMMA AlikeKeeps ==
    ASSUME NEW S, NEW T, StoreOK(S), Alike(S, T), StatesOK(T)
    PROVE  StoreOK(T)
<1>1. \A i, state : Is(T, i, state) <=> Is(S, i, state)
  BY AlikeIs
<1>2. \A i \in DOMAIN S.instances : ChainOf(T, i) = ChainOf(S, i)
  BY DEF Alike, ChainOf
<1>3. ListOK(T)
  BY <1>1 DEF StoreOK, ListOK, Alike
<1>4. NextOK(T)
  <2>1. Len(T.instances) = Len(S.instances)
    <3>1. S \in Store /\ T \in Store
      BY DEF Alike, StoreOK
    <3>2. DOMAIN S.instances = 1 .. Len(S.instances) /\ DOMAIN T.instances = 1 .. Len(T.instances)
          /\ Len(S.instances) \in Nat /\ Len(T.instances) \in Nat
      BY <3>1, StoreFields
    <3> QED BY <3>2 DEF Alike
  <2> QED BY <2>1 DEF StoreOK, NextOK, Alike
<1>5. ASSUME NEW b \in Chains PROVE ChainOK(T, b)
  <2>1. ChainOK(S, b) /\ T.table[b] = S.table[b]
    BY DEF StoreOK, Alike
  <2>2. ASSUME NEW i \in Nat
        PROVE  Is(T, i, "live") /\ ChainOf(T, i) = b <=> Is(S, i, "live") /\ ChainOf(S, i) = b
    BY <1>1, <1>2 DEF Is
  <2> QED BY <2>1, <2>2 DEF ChainOK
<1>6. GarbageOK(T)
  BY <1>1 DEF StoreOK, GarbageOK, Alike
<1> QED BY <1>3, <1>4, <1>5, <1>6 DEF StoreOK, Alike

LEMMA TouchKeeps ==
    ASSUME NEW S, StoreOK(S), NEW T, NEW i \in DOMAIN S.instances, NEW J, Touched(S, T, i, J),
           J.state = "garbage" => ~J.installed, J.state = "freed" => J.busy = 0
    PROVE  StoreOK(T)
<1>1. Alike(S, T)
  BY DEF Touched
<1>2. \A j, state : Is(T, j, state) <=> Is(S, j, state)
  BY <1>1, AlikeIs
<1>3. StatesOK(T)
  <2>1. SUFFICES ASSUME NEW j \in DOMAIN S.instances
                 PROVE  /\ Is(T, j, "garbage") => ~T.instances[j].installed
                        /\ Is(T, j, "freed") => T.instances[j].busy = 0
    BY <1>1 DEF StatesOK, Alike
  <2>2. CASE j = i
    BY <2>2 DEF Touched, Is
  <2>3. CASE j # i
    BY <1>2, <2>3 DEF Touched, StoreOK, StatesOK
  <2> QED BY <2>2, <2>3
<1> QED BY <1>1, <1>3, AlikeKeeps

\* Holding and letting go.
LEMMA HoldIs ==
    ASSUME NEW S, StoreOK(S), NEW i \in DOMAIN S.instances, NEW by \in {1, -1},
           ~Is(S, i, "freed"), S.instances[i].busy + by \in Nat
    PROVE  /\ StoreOK(Hold(S, i, by))
           /\ Touched(S, Hold(S, i, by), i, [S.instances[i] EXCEPT !.busy = @ + by])
<1> DEFINE I == S.instances[i]
           J == [I EXCEPT !.busy = @ + by]
           T == [S EXCEPT !.instances[i] = J]
<1>1. S \in Store /\ I \in InstanceRecord
  BY StoreFields DEF StoreOK
<1>2. /\ J \in InstanceRecord /\ J.name = I.name /\ J.state = I.state /\ J.next = I.next
      /\ J.installed = I.installed
  BY <1>1 DEF InstanceRecord
<1>3. Touched(S, T, i, J)
  BY <1>1, <1>2, TouchIs
<1>4. Hold(S, i, by) = T
  BY DEF Hold
<1>5. J.state = "garbage" => ~J.installed
  BY <1>2 DEF StoreOK, StatesOK, Is
<1>6. J.state # "freed"
  BY <1>2 DEF Is
<1> HIDE DEF I, J, T
<1>7. StoreOK(T)
  BY <1>3, <1>5, <1>6, TouchKeeps
<1> QED BY <1>3, <1>4, <1>7 DEF I, J
-----------------------------------------------------------------------------
(* Garbage frames.                                                         *)

\* What happens to a store whose lists stay as they are: garbage is freed, unless
\* it is to be kept.
Freeing(S, T) ==
    /\ T \in Store /\ T.list = S.list /\ T.table = S.table /\ T.stray = S.stray
    /\ DOMAIN T.instances = DOMAIN S.instances
    /\ \A i \in DOMAIN S.instances :
          \/ T.instances[i] = S.instances[i]
          \/ /\ Is(S, i, "garbage") /\ S.instances[i].busy = 0
             /\ T.instances[i] = Freed(S.instances[i].name)
    /\ T.maintain => T.instances = S.instances

LEMMA FreedFields ==
    ASSUME NEW name
    PROVE  /\ Freed(name).name = name /\ Freed(name).state = "freed" /\ Freed(name).busy = 0
           /\ Freed(name).next = None0 /\ ~Freed(name).installed
BY DEF Freed

LEMMA FreeingMeans ==
    ASSUME NEW S, NEW T, Freeing(S, T), NEW i \in DOMAIN S.instances
    PROVE  /\ T.instances[i].name = S.instances[i].name /\ T.instances[i].busy = S.instances[i].busy
           /\ Is(T, i, "live") <=> Is(S, i, "live")
           /\ Is(S, i, "live") => T.instances[i] = S.instances[i]
           /\ Is(T, i, "garbage") => Is(S, i, "garbage") /\ T.instances[i] = S.instances[i]
           /\ Is(S, i, "freed") => Is(T, i, "freed")
<1> DEFINE J == S.instances[i]
           K == T.instances[i]
<1>1. i \in DOMAIN T.instances /\ (K = J \/ (J.state = "garbage" /\ J.busy = 0 /\ K = Freed(J.name)))
  BY DEF Freeing, Is
<1>2. CASE K = J
  BY <1>1, <1>2 DEF Is
<1>3. CASE J.state = "garbage" /\ J.busy = 0 /\ K = Freed(J.name)
  <2>1. K.name = J.name /\ K.state = "freed" /\ K.busy = 0
    BY <1>3, FreedFields
  <2> QED BY <1>1, <1>3, <2>1 DEF Is
<1> QED BY <1>1, <1>2, <1>3

LEMMA FreeingKeeps ==
    ASSUME NEW S, NEW T, StoreOK(S), Freeing(S, T), GarbageOK(T)
    PROVE  StoreOK(T)
<1>1. \A i : Is(T, i, "live") <=> Is(S, i, "live")
  BY FreeingMeans DEF Freeing, Is
<1>2. \A i \in DOMAIN S.instances : ChainOf(T, i) = ChainOf(S, i)
  BY FreeingMeans DEF ChainOf
<1>3. ListOK(T)
  BY <1>1 DEF StoreOK, ListOK, Freeing
<1>4. NextOK(T)
  <2>1. S \in Store /\ T \in Store
    BY DEF Freeing, StoreOK
  <2>2. /\ DOMAIN S.instances = 1 .. Len(S.instances) /\ DOMAIN T.instances = 1 .. Len(T.instances)
        /\ Len(S.instances) \in Nat /\ Len(T.instances) \in Nat
    BY <2>1, StoreFields
  <2>3. DOMAIN T.instances = DOMAIN S.instances
    BY DEF Freeing
  <2>4. Len(T.instances) = Len(S.instances)
    BY <2>2, <2>3
  <2>5. ASSUME NEW i \in DOMAIN S.instances
        PROVE  T.instances[i].next \in {None0, S.instances[i].next}
    BY FreedFields DEF Freeing
  <2> QED BY <2>3, <2>4, <2>5 DEF StoreOK, NextOK
<1>5. ASSUME NEW b \in Chains PROVE ChainOK(T, b)
  <2>1. ChainOK(S, b) /\ T.table[b] = S.table[b]
    BY DEF StoreOK, Freeing
  <2>2. ASSUME NEW i \in Nat
        PROVE  Is(T, i, "live") /\ ChainOf(T, i) = b <=> Is(S, i, "live") /\ ChainOf(S, i) = b
    BY <1>1, <1>2 DEF Is
  <2> QED BY <2>1, <2>2 DEF ChainOK
<1>6. StatesOK(T)
  <2>1. ASSUME NEW i \in DOMAIN S.instances
        PROVE  /\ Is(T, i, "garbage") => ~T.instances[i].installed
               /\ Is(T, i, "freed") => T.instances[i].busy = 0
    <3>1. Is(T, i, "garbage") => ~T.instances[i].installed
      BY FreeingMeans DEF StoreOK, StatesOK
    <3>2. CASE T.instances[i] = S.instances[i]
      BY <3>1, <3>2 DEF StoreOK, StatesOK, Is, Freeing
    <3>3. CASE T.instances[i] = Freed(S.instances[i].name)
      BY <3>1, <3>3 DEF Freed
    <3> QED BY <3>2, <3>3 DEF Freeing
  <2> QED BY <2>1 DEF StatesOK, Freeing
<1>7. T \in Store
  BY DEF Freeing
<1> QED BY <1>3, <1>4, <1>5, <1>6, <1>7 DEF StoreOK

LEMMA FreedIs ==
    ASSUME NEW name \in InstanceName
    PROVE  Freed(name) \in InstanceRecord
BY DEF Freed, InstanceRecord, None0

With(S, ins, garbage, maintain) ==
    [S EXCEPT !.instances = ins, !.garbage = garbage, !.maintain = maintain]

LEMMA FieldsMake ==
    ASSUME NEW S \in Store, NEW ins \in Seq(InstanceRecord), NEW garbage \in Seq(SUBSET Nat),
           NEW maintain \in BOOLEAN, NEW T, T = With(S, ins, garbage, maintain)
    PROVE  /\ T \in Store /\ T.instances = ins /\ T.garbage = garbage /\ T.maintain = maintain
           /\ T.list = S.list /\ T.table = S.table /\ T.stray = S.stray
BY DEF Store, With

LEMMA CleanupIs ==
    ASSUME NEW S, StoreOK(S)
    PROVE  /\ StoreOK(CleanupInstances(S)) /\ Freeing(S, CleanupInstances(S))
           /\ CleanupInstances(S).maintain = S.maintain
           /\ Len(CleanupInstances(S).garbage) = Len(S.garbage)
<1> DEFINE n == Len(S.garbage)
           free == {i \in S.garbage[n] : S.instances[i].busy = 0}
           ins == [i \in DOMAIN S.instances |->
                      IF i \in free THEN Freed(S.instances[i].name) ELSE S.instances[i]]
           gar == [S.garbage EXCEPT ![n] = @ \ free]
           T == [S EXCEPT !.garbage[n] = @ \ free, !.instances = ins]
<1>1. S \in Store /\ GarbageOK(S)
  BY DEF StoreOK
<1>2. /\ S.instances \in Seq(InstanceRecord) /\ S.garbage \in Seq(SUBSET Nat) /\ S.maintain \in BOOLEAN
      /\ \A i \in DOMAIN S.instances : S.instances[i].name \in InstanceName
  BY <1>1, StoreFields
<1>3. n \in Nat /\ n > 0 /\ n \in DOMAIN S.garbage /\ DOMAIN S.garbage = 1 .. n
  BY <1>1, <1>2 DEF GarbageOK
<1>4. CASE S.maintain
  <2>1. CleanupInstances(S) = S
    BY <1>4 DEF CleanupInstances
  <2>2. Freeing(S, S)
    BY <1>1 DEF Freeing
  <2> QED BY <2>1, <2>2
<1>5. CASE ~S.maintain
  <2>1. /\ ins \in Seq(InstanceRecord) /\ DOMAIN ins = DOMAIN S.instances
    <3>1. \A i \in DOMAIN S.instances : ins[i] \in InstanceRecord
      BY <1>2, FreedIs
    <3>2. ins = [i \in 1 .. Len(S.instances) |-> ins[i]] /\ DOMAIN S.instances = 1 .. Len(S.instances)
          /\ Len(S.instances) \in Nat
      BY <1>2
    <3> HIDE DEF ins
    <3> QED BY <3>1, <3>2
  <2>2. /\ gar \in Seq(SUBSET Nat) /\ Len(gar) = n /\ DOMAIN gar = 1 .. n
        /\ gar[n] = S.garbage[n] \ free
        /\ \A k \in 1 .. n : k # n => gar[k] = S.garbage[k]
    <3> HIDE DEF free
    <3> QED BY <1>2, <1>3
  <2>3. CleanupInstances(S) = With(S, ins, gar, S.maintain)
    BY <1>1, <1>5 DEF CleanupInstances, Last, Instance, Store, With
  <2> DEFINE R == CleanupInstances(S)
  <2>4. /\ R \in Store /\ R.instances = ins /\ R.garbage = gar /\ R.maintain = S.maintain
        /\ R.list = S.list /\ R.table = S.table /\ R.stray = S.stray
    <3> HIDE DEF ins, gar
    <3> QED BY <1>1, <1>2, <2>1, <2>2, <2>3, FieldsMake
  <2>5. \A i \in DOMAIN S.instances : i \in free => Is(S, i, "garbage") /\ S.instances[i].busy = 0
    BY <1>1, <1>3 DEF GarbageOK
  <2>6. Freeing(S, R)
    <3> HIDE DEF free, R
    <3> QED BY <1>5, <2>4, <2>5 DEF Freeing
  <2>7. GarbageOK(R)
    <3>1. \A k \in 1 .. n : gar[k] \subseteq S.garbage[k]
      BY <2>2
    <3>2. ASSUME NEW k \in 1 .. n, NEW i \in gar[k] PROVE Is(R, i, "garbage")
      <4>1. i \in S.garbage[k] /\ Is(S, i, "garbage")
        BY <1>1, <1>3, <3>1, <3>2 DEF GarbageOK
      <4>2. i \notin free
        <5>1. CASE k = n
          BY <2>2, <3>2, <5>1
        <5>2. CASE k # n
          BY <1>1, <1>3, <4>1, <5>2 DEF GarbageOK
        <5> QED BY <5>1, <5>2
      <4>3. R.instances[i] = S.instances[i]
        BY <2>4, <4>1, <4>2 DEF Is
      <4> QED BY <2>1, <2>4, <4>1, <4>3 DEF Is
    <3>3. ASSUME NEW i \in DOMAIN ins, Is(R, i, "garbage") PROVE \E k \in 1 .. n : i \in gar[k]
      <4>1. Is(S, i, "garbage") /\ R.instances[i] = S.instances[i]
        BY <2>1, <2>6, <3>3, FreeingMeans
      <4>2. PICK k \in 1 .. n : i \in S.garbage[k]
        BY <1>1, <1>3, <4>1 DEF GarbageOK, Is
      <4>3. i \notin free
        <5>1. ASSUME i \in free PROVE FALSE
          <6>1. ins[i] = Freed(S.instances[i].name)
            BY <2>1, <5>1
          <6> QED BY <2>4, <3>3, <6>1 DEF Is, Freed
        <5> QED BY <5>1
      <4>4. i \in gar[k]
        BY <2>2, <4>2, <4>3
      <4> QED BY <4>4
    <3>4. ASSUME NEW k \in 1 .. n, NEW m \in 1 .. n, k # m PROVE gar[k] \cap gar[m] = {}
      <4>1. S.garbage[k] \cap S.garbage[m] = {}
        BY <1>1, <1>3, <3>4 DEF GarbageOK
      <4> QED BY <3>1, <4>1
    <3> HIDE DEF ins, gar, free, R
    <3> QED BY <1>3, <2>2, <2>4, <3>2, <3>3, <3>4 DEF GarbageOK
  <2>8. StoreOK(R)
    BY <2>6, <2>7, FreeingKeeps
  <2> QED BY <2>2, <2>4, <2>6, <2>8
<1> QED BY <1>4, <1>5

LEMMA BlockStartIs ==
    ASSUME NEW S, StoreOK(S)
    PROVE  /\ StoreOK(GCBlockStart(S)) /\ Freeing(S, GCBlockStart(S))
           /\ GCBlockStart(S).instances = S.instances /\ GCBlockStart(S).maintain = S.maintain
           /\ Len(GCBlockStart(S).garbage) = Len(S.garbage) + 1
<1> DEFINE T == GCBlockStart(S)
           gar == Append(S.garbage, {})
           n == Len(S.garbage)
<1>1. S \in Store /\ GarbageOK(S)
  BY DEF StoreOK
<1>2. S.instances \in Seq(InstanceRecord) /\ S.garbage \in Seq(SUBSET Nat) /\ S.maintain \in BOOLEAN
  BY <1>1, StoreFields
<1>3. /\ n \in Nat /\ DOMAIN S.garbage = 1 .. n
      /\ gar \in Seq(SUBSET Nat) /\ Len(gar) = n + 1 /\ DOMAIN gar = 1 .. n + 1
      /\ gar[n + 1] = {} /\ \A k \in 1 .. n : gar[k] = S.garbage[k]
  BY <1>2
<1>4. T = With(S, S.instances, gar, S.maintain)
  BY <1>1 DEF GCBlockStart, Store, With
<1>5. /\ T \in Store /\ T.instances = S.instances /\ T.garbage = gar /\ T.maintain = S.maintain
      /\ T.list = S.list /\ T.table = S.table /\ T.stray = S.stray
  <2> HIDE DEF gar
  <2> QED BY <1>1, <1>2, <1>3, <1>4, FieldsMake
<1> HIDE DEF gar, T, n
<1>6. Freeing(S, T)
  BY <1>5 DEF Freeing
<1>7. GarbageOK(T)
  <2>1. \A k \in 1 .. n + 1 : k \in 1 .. n \/ k = n + 1
    BY <1>3
  <2>2. \A i, state : Is(T, i, state) <=> Is(S, i, state)
    BY <1>5 DEF Is
  <2>3. ASSUME NEW k \in 1 .. n + 1, NEW i \in gar[k] PROVE Is(T, i, "garbage")
    BY <1>1, <1>3, <2>1, <2>2, <2>3 DEF GarbageOK
  <2>4. ASSUME NEW i \in DOMAIN S.instances, Is(T, i, "garbage") PROVE \E k \in 1 .. n + 1 : i \in gar[k]
    <3>1. PICK k \in 1 .. n : i \in S.garbage[k]
      BY <1>1, <1>3, <2>2, <2>4 DEF GarbageOK
    <3>2. k \in 1 .. n + 1 /\ i \in gar[k]
      BY <1>3, <3>1
    <3> QED BY <3>2
  <2>5. ASSUME NEW k \in 1 .. n + 1, NEW m \in 1 .. n + 1, k # m PROVE gar[k] \cap gar[m] = {}
    <3>1. CASE k \in 1 .. n /\ m \in 1 .. n
      BY <1>1, <1>3, <2>5, <3>1 DEF GarbageOK
    <3>2. CASE k = n + 1 \/ m = n + 1
      BY <1>3, <3>2
    <3> QED BY <2>1, <3>1, <3>2
  <2>6. Len(gar) > 0
    BY <1>3
  <2> QED BY <1>3, <1>5, <2>3, <2>4, <2>5, <2>6 DEF GarbageOK
<1> QED BY <1>3, <1>5, <1>6, <1>7, FreeingKeeps DEF n, T
\* The frame that ends leaves what is in it to the one around it.
Merged(garbage) ==
    [Front(garbage) EXCEPT ![Len(garbage) - 1] = @ \cup garbage[Len(garbage)]]

LEMMA MergedIs ==
    ASSUME NEW g \in Seq(SUBSET Nat), NEW n \in Nat, n > 1, n = Len(g)
    PROVE  /\ Merged(g) \in Seq(SUBSET Nat) /\ Len(Merged(g)) = n - 1 /\ DOMAIN Merged(g) = 1 .. n - 1
           /\ \A k \in 1 .. n - 2 : Merged(g)[k] = g[k]
           /\ Merged(g)[n - 1] = g[n - 1] \cup g[n]
<1>1. /\ Front(g) \in Seq(SUBSET Nat) /\ Len(Front(g)) = n - 1 /\ DOMAIN Front(g) = 1 .. n - 1
      /\ \A k \in 1 .. n - 1 : Front(g)[k] = g[k]
  BY DEF Front
<1>2. n - 1 \in 1 .. n - 1 /\ n - 1 \in 1 .. n /\ n \in 1 .. n /\ DOMAIN g = 1 .. n
      /\ \A k \in 1 .. n - 2 : k \in 1 .. n - 1 /\ k # n - 1
  OBVIOUS
<1>3. Front(g)[n - 1] \cup g[n] \in SUBSET Nat /\ Front(g)[n - 1] = g[n - 1]
  BY <1>1, <1>2
<1>4. Merged(g) = [Front(g) EXCEPT ![n - 1] = Front(g)[n - 1] \cup g[n]]
  BY DEF Merged
<1>5. /\ Merged(g) \in Seq(SUBSET Nat) /\ DOMAIN Merged(g) = 1 .. n - 1 /\ Len(Merged(g)) = n - 1
      /\ Merged(g)[n - 1] = g[n - 1] \cup g[n]
      /\ \A k \in 1 .. n - 1 : k # n - 1 => Merged(g)[k] = Front(g)[k]
  BY <1>1, <1>2, <1>3, <1>4
<1> QED BY <1>1, <1>2, <1>5

LEMMA MergeIs ==
    ASSUME NEW S, StoreOK(S), Len(S.garbage) > 1,
           NEW T, T = With(S, S.instances, Merged(S.garbage), S.maintain)
    PROVE  /\ StoreOK(T) /\ Freeing(S, T) /\ T.instances = S.instances /\ T.maintain = S.maintain
           /\ Len(T.garbage) = Len(S.garbage) - 1
<1> DEFINE n == Len(S.garbage)
           g == S.garbage
           m == Merged(S.garbage)
<1>1. S \in Store /\ GarbageOK(S)
  BY DEF StoreOK
<1>2. S.instances \in Seq(InstanceRecord) /\ g \in Seq(SUBSET Nat) /\ S.maintain \in BOOLEAN
  BY <1>1, StoreFields
<1>3. n \in Nat /\ n > 1 /\ DOMAIN g = 1 .. n
  BY <1>2
<1>4. /\ m \in Seq(SUBSET Nat) /\ Len(m) = n - 1 /\ DOMAIN m = 1 .. n - 1
      /\ \A k \in 1 .. n - 2 : m[k] = g[k]
      /\ m[n - 1] = g[n - 1] \cup g[n]
  BY <1>2, <1>3, MergedIs
<1>5. /\ T \in Store /\ T.instances = S.instances /\ T.garbage = m /\ T.maintain = S.maintain
      /\ T.list = S.list /\ T.table = S.table /\ T.stray = S.stray
  BY <1>1, <1>2, <1>4, FieldsMake
<1>6. Freeing(S, T)
  BY <1>5 DEF Freeing
<1>7. GarbageOK(T)
  <2> HIDE DEF m, n, g
  <2>1. \A i, state : Is(T, i, state) <=> Is(S, i, state)
    BY <1>5 DEF Is
  <2>2. \A k \in 1 .. n - 1 : k \in 1 .. n - 2 \/ k = n - 1
    BY <1>3
  <2>3. \A k \in 1 .. n : k \in 1 .. n - 2 \/ k = n - 1 \/ k = n
    BY <1>3
  <2>4. n - 1 \in 1 .. n /\ n \in 1 .. n /\ n - 1 # n /\ n - 1 \in 1 .. n - 1
    BY <1>3
  <2>5. \A k \in 1 .. n - 2 : k \in 1 .. n /\ k # n - 1 /\ k # n /\ k \in 1 .. n - 1
    BY <1>3
  <2>6. \A k \in 1 .. n, j \in 1 .. n : k # j => g[k] \cap g[j] = {}
    BY <1>1, <1>3 DEF GarbageOK, g
  <2>7. ASSUME NEW k \in 1 .. n - 1, NEW i \in m[k] PROVE Is(T, i, "garbage")
    <3>1. \E j \in 1 .. n : i \in g[j]
      BY <1>4, <2>2, <2>4, <2>5, <2>7
    <3> QED BY <1>1, <1>3, <2>1, <3>1 DEF GarbageOK, g
  <2>8. ASSUME NEW i \in DOMAIN S.instances, Is(T, i, "garbage") PROVE \E k \in 1 .. n - 1 : i \in m[k]
    <3>1. PICK k \in 1 .. n : i \in g[k]
      BY <1>1, <1>3, <2>1, <2>8 DEF GarbageOK, g
    <3> QED BY <1>4, <2>3, <2>4, <2>5, <3>1
  <2>9. ASSUME NEW k \in 1 .. n - 1, NEW j \in 1 .. n - 1, k # j PROVE m[k] \cap m[j] = {}
    <3>1. CASE k \in 1 .. n - 2 /\ j \in 1 .. n - 2
      BY <1>4, <2>5, <2>6, <2>9, <3>1
    <3>2. CASE k \in 1 .. n - 2 /\ j = n - 1
      BY <1>4, <2>4, <2>5, <2>6, <3>2
    <3>3. CASE k = n - 1 /\ j \in 1 .. n - 2
      BY <1>4, <2>4, <2>5, <2>6, <3>3
    <3> QED BY <2>2, <2>9, <3>1, <3>2, <3>3
  <2>10. Len(m) > 0
    BY <1>3, <1>4
  <2> QED BY <1>4, <1>5, <2>7, <2>8, <2>9, <2>10 DEF GarbageOK
<1>8. Len(T.garbage) = n - 1
  BY <1>4, <1>5
<1> QED BY <1>5, <1>6, <1>7, <1>8, FreeingKeeps

LEMMA FreeingTwice ==
    ASSUME NEW S, NEW C, NEW T, Freeing(S, C), Freeing(C, T), T.maintain = C.maintain
    PROVE  Freeing(S, T)
<1>1. ASSUME NEW i \in DOMAIN S.instances
      PROVE  \/ T.instances[i] = S.instances[i]
             \/ /\ Is(S, i, "garbage") /\ S.instances[i].busy = 0
                /\ T.instances[i] = Freed(S.instances[i].name)
  <2>1. i \in DOMAIN C.instances
    BY DEF Freeing
  <2>2. CASE C.instances[i] = S.instances[i]
    BY <2>1, <2>2 DEF Freeing, Is
  <2>3. CASE /\ Is(S, i, "garbage") /\ S.instances[i].busy = 0
             /\ C.instances[i] = Freed(S.instances[i].name)
    <3>1. ~Is(C, i, "garbage")
      BY <2>3, FreedFields DEF Is
    <3>2. T.instances[i] = C.instances[i]
      BY <2>1, <3>1 DEF Freeing
    <3> QED BY <2>3, <3>2
  <2> QED BY <2>2, <2>3 DEF Freeing
<1> QED BY <1>1 DEF Freeing

LEMMA BlockEndIs ==
    ASSUME NEW S, StoreOK(S), Len(S.garbage) > 1
    PROVE  /\ StoreOK(GCBlockEnd(S)) /\ Freeing(S, GCBlockEnd(S))
           /\ GCBlockEnd(S).maintain = S.maintain
           /\ Len(GCBlockEnd(S).garbage) = Len(S.garbage) - 1
<1> DEFINE C == CleanupInstances(S)
           T == GCBlockEnd(S)
<1>1. StoreOK(C) /\ Freeing(S, C) /\ C.maintain = S.maintain /\ Len(C.garbage) = Len(S.garbage)
  BY CleanupIs
<1>2. C \in Store
  BY <1>1 DEF StoreOK
<1>3. T = With(C, C.instances, Merged(C.garbage), C.maintain)
  <2> HIDE DEF C
  <2>1. [C EXCEPT !.garbage = Merged(C.garbage)] = With(C, C.instances, Merged(C.garbage), C.maintain)
    BY <1>2 DEF With, Store
  <2> QED BY <2>1 DEF GCBlockEnd, Merged, C
<1>4. /\ StoreOK(T) /\ Freeing(C, T) /\ T.instances = C.instances /\ T.maintain = C.maintain
      /\ Len(T.garbage) = Len(C.garbage) - 1
  <2> HIDE DEF C, T
  <2> QED BY <1>1, <1>3, MergeIs
<1>5. Freeing(S, T)
  <2> HIDE DEF C, T
  <2> QED BY <1>1, <1>4 DEF Freeing
<1> QED BY <1>1, <1>4, <1>5

LEMMA KeepingIs ==
    ASSUME NEW S, StoreOK(S), NEW maintain \in BOOLEAN,
           NEW T, T = [S EXCEPT !.maintain = maintain]
    PROVE  /\ StoreOK(T) /\ Freeing(S, T) /\ T.instances = S.instances
           /\ T.maintain = maintain /\ T.garbage = S.garbage
<1>1. S \in Store
  BY DEF StoreOK
<1>2. S.instances \in Seq(InstanceRecord) /\ S.garbage \in Seq(SUBSET Nat)
  BY <1>1, StoreFields
<1>3. T = With(S, S.instances, S.garbage, maintain)
  BY <1>1 DEF With, Store
<1>4. /\ T \in Store /\ T.instances = S.instances /\ T.garbage = S.garbage /\ T.maintain = maintain
      /\ T.list = S.list /\ T.table = S.table /\ T.stray = S.stray
  BY <1>1, <1>2, <1>3, FieldsMake
<1>5. Freeing(S, T)
  BY <1>4 DEF Freeing
<1>6. GarbageOK(T)
  BY <1>4 DEF StoreOK, GarbageOK, Is
<1> QED BY <1>4, <1>5, <1>6, FreeingKeeps

LEMMA MaintainedIs ==
    ASSUME NEW S, StoreOK(S)
    PROVE  /\ StoreOK(Maintained(S)) /\ Freeing(S, Maintained(S))
           /\ Maintained(S).instances = S.instances /\ Maintained(S).maintain = TRUE
           /\ Len(Maintained(S).garbage) = Len(S.garbage) + 1
<1> DEFINE B == GCBlockStart(S)
           T == Maintained(S)
<1>1. /\ StoreOK(B) /\ Freeing(S, B) /\ B.instances = S.instances
      /\ Len(B.garbage) = Len(S.garbage) + 1
  BY BlockStartIs
<1>2. T = [B EXCEPT !.maintain = TRUE]
  BY DEF Maintained
<1> HIDE DEF B, T
<1>3. /\ StoreOK(T) /\ Freeing(B, T) /\ T.instances = B.instances /\ T.maintain = TRUE
      /\ T.garbage = B.garbage
  BY <1>1, <1>2, KeepingIs
<1>4. Freeing(S, T)
  BY <1>1, <1>3 DEF Freeing
<1> QED BY <1>1, <1>3, <1>4 DEF T

LEMMA ReleasedIs ==
    ASSUME NEW S, StoreOK(S), Len(S.garbage) > 1, NEW maintain \in BOOLEAN
    PROVE  /\ StoreOK(Released(S, maintain)) /\ Freeing(S, Released(S, maintain))
           /\ Released(S, maintain).maintain = maintain
           /\ Len(Released(S, maintain).garbage) = Len(S.garbage) - 1
<1> DEFINE B == [S EXCEPT !.maintain = maintain]
           C == CleanupInstances(B)
           T == Released(S, maintain)
<1>1. /\ StoreOK(B) /\ Freeing(S, B) /\ B.instances = S.instances
      /\ B.maintain = maintain /\ B.garbage = S.garbage
  BY KeepingIs
<1>2. StoreOK(C) /\ Freeing(B, C) /\ C.maintain = maintain /\ Len(C.garbage) = Len(S.garbage)
  <2> HIDE DEF B
  <2> QED BY <1>1, CleanupIs
<1>3. T = GCBlockEnd(C)
  BY DEF Released
<1> HIDE DEF B, C, T
<1>4. /\ StoreOK(T) /\ Freeing(C, T) /\ T.maintain = maintain
      /\ Len(T.garbage) = Len(S.garbage) - 1
  BY <1>2, <1>3, BlockEndIs
<1>5. Freeing(S, C)
  <2>1. ASSUME NEW i \in DOMAIN S.instances PROVE Is(B, i, "garbage") <=> Is(S, i, "garbage")
    BY <1>1 DEF Is
  <2> QED BY <1>1, <1>2, <2>1 DEF Freeing
<1>6. Freeing(S, T)
  BY <1>2, <1>4, <1>5, FreeingTwice
<1> QED BY <1>4, <1>6 DEF T
-----------------------------------------------------------------------------
(* An instance goes.                                                       *)

Rebuilt(S, ins, list, table, garbage, stray) ==
    [S EXCEPT !.instances = ins, !.list = list, !.table = table, !.garbage = garbage, !.stray = stray]

LEMMA RebuiltFields ==
    ASSUME NEW S \in Store, NEW ins \in Seq(InstanceRecord), NEW list \in Seq(Nat),
           NEW table \in [Chains -> Seq(Nat)], NEW garbage \in Seq(SUBSET Nat),
           NEW stray \in BOOLEAN
    PROVE  /\ Rebuilt(S, ins, list, table, garbage, stray) \in Store
           /\ Rebuilt(S, ins, list, table, garbage, stray).instances = ins
           /\ Rebuilt(S, ins, list, table, garbage, stray).garbage = garbage
           /\ Rebuilt(S, ins, list, table, garbage, stray).maintain = S.maintain
           /\ Rebuilt(S, ins, list, table, garbage, stray).list = list
           /\ Rebuilt(S, ins, list, table, garbage, stray).table = table
           /\ Rebuilt(S, ins, list, table, garbage, stray).stray = stray
BY DEF Store, Rebuilt

\* What is left of i, which was live.
Gone(S, i) ==
    IF S.instances[i].busy > 0 \/ S.maintain
    THEN [S.instances[i] EXCEPT !.next = NextIn(S.list, i), !.installed = FALSE, !.state = "garbage"]
    ELSE Freed(S.instances[i].name)

Quashed(S, T, i) ==
    /\ T \in Store /\ DOMAIN T.instances = DOMAIN S.instances
    /\ T.maintain = S.maintain /\ T.stray = S.stray /\ Len(T.garbage) = Len(S.garbage)
    /\ T.instances[i] = Gone(S, i)
    /\ \A j \in DOMAIN S.instances : j # i => T.instances[j] = S.instances[j]

LEMMA ListMeans ==
    ASSUME NEW S, StoreOK(S), NEW i \in DOMAIN S.instances, Is(S, i, "live")
    PROVE  /\ In(i, S.list)
           /\ NextIn(S.list, i) \in {None0} \cup (i + 1 .. Len(S.instances))
           /\ NextIn(S.list, i) = None0 => \A x \in Nat : Is(S, x, "live") => x <= i
           /\ NextIn(S.list, i) # None0 =>
                 /\ Is(S, NextIn(S.list, i), "live") /\ i < NextIn(S.list, i)
                 /\ \A x \in Nat : Is(S, x, "live") /\ i < x => NextIn(S.list, i) <= x
<1> DEFINE next == NextIn(S.list, i)
<1>1. S \in Store /\ ListOK(S)
  BY DEF StoreOK
<1>2. S.list \in Seq(Nat) /\ DOMAIN S.instances = 1 .. Len(S.instances) /\ Len(S.instances) \in Nat
  BY <1>1, StoreFields
<1>3. /\ i \in Nat /\ In(i, S.list)
  BY <1>1, <1>2 DEF ListOK
<1>4. \A k \in DOMAIN S.list : S.list[k] \in Nat /\ Is(S, S.list[k], "live")
  BY <1>1, <1>2 DEF ListOK, In
<1>5. \A k \in DOMAIN S.list : S.list[k] # None0
  BY <1>2, <1>4 DEF Is, None0
<1>6. Ascends(S.list)
  BY <1>1 DEF ListOK
<1>7. /\ next = None0 => \A x \in Nat : In(x, S.list) => x <= i
      /\ next # None0 => /\ In(next, S.list) /\ i < next
                         /\ \A x \in Nat : In(x, S.list) /\ i < x => next <= x
  BY <1>2, <1>3, <1>5, <1>6, NextInMeans
<1>8. \A x \in Nat : In(x, S.list) <=> Is(S, x, "live")
  BY <1>1 DEF ListOK
<1>9. next # None0 => next \in Nat
  BY <1>4, <1>7 DEF In
<1> HIDE DEF next
<1>10. next # None0 => Is(S, next, "live") /\ next \in i + 1 .. Len(S.instances)
  BY <1>2, <1>3, <1>7, <1>8, <1>9 DEF Is
<1> QED BY <1>3, <1>7, <1>8, <1>10 DEF next

LEMMA GoneIs ==
    ASSUME NEW S, StoreOK(S), NEW i \in DOMAIN S.instances, Is(S, i, "live")
    PROVE  /\ Gone(S, i) \in InstanceRecord
           /\ Gone(S, i).name = S.instances[i].name /\ Gone(S, i).busy = S.instances[i].busy
           /\ Gone(S, i).next \in {None0} \cup (i + 1 .. Len(S.instances))
           /\ ~Gone(S, i).installed
           /\ Gone(S, i).state = IF S.instances[i].busy > 0 \/ S.maintain THEN "garbage" ELSE "freed"
           /\ S.maintain => Gone(S, i).next = NextIn(S.list, i)
<1> DEFINE J == S.instances[i]
           next == NextIn(S.list, i)
<1>1. S \in Store
  BY DEF StoreOK
<1>2. J \in InstanceRecord /\ J.name \in InstanceName /\ J.busy \in Nat
      /\ DOMAIN S.instances = 1 .. Len(S.instances) /\ Len(S.instances) \in Nat
  BY <1>1, StoreFields
<1>3. next \in {None0} \cup (i + 1 .. Len(S.instances))
  BY ListMeans
<1>4. next \in Nat
  BY <1>2, <1>3 DEF None0
<1>5. CASE J.busy > 0 \/ S.maintain
  <2> DEFINE G == [J EXCEPT !.next = next, !.installed = FALSE, !.state = "garbage"]
  <2>1. Gone(S, i) = G
    BY <1>5 DEF Gone
  <2>2. /\ G \in InstanceRecord /\ G.name = J.name /\ G.busy = J.busy /\ G.next = next
        /\ ~G.installed /\ G.state = "garbage"
    <3> HIDE DEF J, next
    <3> QED BY <1>2, <1>4 DEF InstanceRecord
  <2> HIDE DEF G
  <2> QED BY <1>3, <1>5, <2>1, <2>2
<1>6. CASE ~(J.busy > 0 \/ S.maintain)
  <2>1. Gone(S, i) = Freed(J.name) /\ J.busy = 0
    BY <1>2, <1>6 DEF Gone
  <2>2. Freed(J.name) \in InstanceRecord
    BY <1>2, FreedIs
  <2>3. /\ Freed(J.name).name = J.name /\ Freed(J.name).state = "freed" /\ Freed(J.name).busy = 0
        /\ Freed(J.name).next = None0 /\ ~Freed(J.name).installed
    BY FreedFields
  <2> QED BY <1>6, <2>1, <2>2, <2>3
<1> QED BY <1>5, <1>6

LEMMA QuashFields ==
    ASSUME NEW S, StoreOK(S), NEW i \in DOMAIN S.instances, MayQuash(S, i),
           NEW T, T = QuashInstance(S, i)
    PROVE  /\ Quashed(S, T, i)
           /\ T.list = RemoveFirst(S.list, i)
           /\ T.table[ChainOf(S, i)] = RemoveFirst(S.table[ChainOf(S, i)], i)
           /\ \A b \in Chains : b # ChainOf(S, i) => T.table[b] = S.table[b]
           /\ \A k \in DOMAIN S.garbage : k # Len(S.garbage) => T.garbage[k] = S.garbage[k]
           /\ T.garbage[Len(S.garbage)] =
                 S.garbage[Len(S.garbage)] \cup
                 (IF S.instances[i].busy > 0 \/ S.maintain THEN {i} ELSE {})
<1> DEFINE J == S.instances[i]
           n == Len(S.garbage)
           b0 == ChainOf(S, i)
           waits == J.busy > 0 \/ S.maintain
           ins == [S.instances EXCEPT ![i] = Gone(S, i)]
           list == RemoveFirst(S.list, i)
           table == [S.table EXCEPT ![b0] = RemoveFirst(@, i)]
           gar == [S.garbage EXCEPT ![n] = IF waits THEN @ \cup {i} ELSE @]
<1>1. S \in Store /\ ListOK(S) /\ GarbageOK(S) /\ \A b \in Chains : ChainOK(S, b)
  BY DEF StoreOK
<1>2. /\ S.instances \in Seq(InstanceRecord) /\ S.list \in Seq(Nat)
      /\ S.table \in [Chains -> Seq(Nat)] /\ S.garbage \in Seq(SUBSET Nat)
      /\ S.maintain \in BOOLEAN /\ S.stray \in BOOLEAN
      /\ J \in InstanceRecord /\ J.name \in InstanceName
      /\ DOMAIN S.instances = 1 .. Len(S.instances) /\ Len(S.instances) \in Nat
  BY <1>1, StoreFields
<1>3. Is(S, i, "live") /\ i \in Nat
  BY <1>2 DEF MayQuash, Instance, Is
<1>4. Gone(S, i) \in InstanceRecord
  BY <1>3, GoneIs
<1>5. b0 \in Chains /\ b0 = HashInstance[J.name]
  BY <1>2 DEF Chains, ChainOf
<1>6. /\ ins \in Seq(InstanceRecord) /\ DOMAIN ins = DOMAIN S.instances /\ ins[i] = Gone(S, i)
      /\ \A j \in DOMAIN S.instances : j # i => ins[j] = S.instances[j]
  BY <1>2, <1>4
<1>7. list \in Seq(Nat)
  <2>1. Once(S.list)
    BY <1>1, <1>2, AscendsOnce DEF ListOK
  <2> QED BY <1>2, <1>3, <2>1, RemoveFirstIs
<1>8. RemoveFirst(S.table[b0], i) \in Seq(Nat)
  <2>1. Once(S.table[b0]) /\ S.table[b0] \in Seq(Nat)
    BY <1>1, <1>2, <1>5 DEF ChainOK
  <2> QED BY <1>3, <2>1, RemoveFirstIs
<1>9. /\ table \in [Chains -> Seq(Nat)] /\ table[b0] = RemoveFirst(S.table[b0], i)
      /\ \A b \in Chains : b # b0 => table[b] = S.table[b]
  <2> HIDE DEF b0
  <2> QED BY <1>2, <1>5, <1>8
<1>10. /\ gar \in Seq(SUBSET Nat) /\ Len(gar) = n /\ DOMAIN gar = DOMAIN S.garbage
       /\ \A k \in DOMAIN S.garbage : k # n => gar[k] = S.garbage[k]
       /\ gar[n] = S.garbage[n] \cup (IF waits THEN {i} ELSE {})
  <2>1. n \in DOMAIN S.garbage
    BY <1>1, <1>2 DEF GarbageOK
  <2> DEFINE last == IF waits THEN S.garbage[n] \cup {i} ELSE S.garbage[n]
  <2>2. last \in SUBSET Nat
    BY <1>2, <1>3, <2>1
  <2>3. gar = [S.garbage EXCEPT ![n] = last]
    OBVIOUS
  <2>4. last = S.garbage[n] \cup (IF waits THEN {i} ELSE {})
    OBVIOUS
  <2> HIDE DEF last
  <2> QED BY <1>2, <2>1, <2>2, <2>3, <2>4
<1>11. T = Rebuilt(S, ins, list, table, gar, S.stray)
  <2>1. Gone(S, i) = IF waits THEN [J EXCEPT !.next = NextIn(S.list, i), !.installed = FALSE,
                                              !.state = "garbage"]
                     ELSE Freed(J.name)
    BY DEF Gone
  <2>2. T = [S EXCEPT !.instances[i] = Gone(S, i), !.list = RemoveFirst(@, i),
                      !.table[b0] = RemoveFirst(@, i),
                      !.garbage[n] = IF waits THEN @ \cup {i} ELSE @]
    BY <2>1 DEF QuashInstance, Instance, ChainOf
  <2>3. [S EXCEPT !.instances[i] = Gone(S, i), !.list = RemoveFirst(@, i),
                  !.table[b0] = RemoveFirst(@, i),
                  !.garbage[n] = IF waits THEN @ \cup {i} ELSE @]
        = Rebuilt(S, ins, list, table, gar, S.stray)
    <3> HIDE DEF b0, waits, n
    <3> QED BY <1>1 DEF Rebuilt, Store
  <2> QED BY <2>2, <2>3
<1> HIDE DEF ins, list, table, gar, J, n, b0, waits
<1>12. /\ T \in Store /\ T.instances = ins /\ T.garbage = gar /\ T.maintain = S.maintain
       /\ T.list = list /\ T.table = table /\ T.stray = S.stray
  <2>1. /\ S \in Store /\ ins \in Seq(InstanceRecord) /\ list \in Seq(Nat)
        /\ table \in [Chains -> Seq(Nat)] /\ gar \in Seq(SUBSET Nat) /\ S.stray \in BOOLEAN
    BY <1>1, <1>2, <1>6, <1>7, <1>9, <1>10
  <2> QED BY <1>11, <2>1, RebuiltFields
<1>13. Quashed(S, T, i)
  BY <1>6, <1>10, <1>12 DEF Quashed, n
<1> QED BY <1>9, <1>10, <1>12, <1>13 DEF list, J, n, b0, waits
LEMMA QuashedMeans ==
    ASSUME NEW S, StoreOK(S), NEW i \in DOMAIN S.instances, Is(S, i, "live"), NEW T, Quashed(S, T, i)
    PROVE  /\ \A j : Is(T, j, "live") <=> Is(S, j, "live") /\ j # i
           /\ \A j : Is(T, j, "garbage") <=> \/ Is(S, j, "garbage")
                                             \/ j = i /\ (S.instances[i].busy > 0 \/ S.maintain)
           /\ \A j : Is(S, j, "freed") => Is(T, j, "freed")
           /\ \A j : Is(T, j, "freed") => Is(S, j, "freed") \/ (j = i /\ ~S.maintain)
           /\ \A j \in DOMAIN S.instances : /\ T.instances[j].name = S.instances[j].name
                                            /\ T.instances[j].busy = S.instances[j].busy
           /\ \A j \in DOMAIN S.instances : j # i => T.instances[j] = S.instances[j]
           /\ S.maintain => T.instances[i].next = NextIn(S.list, i)
<1>1. /\ DOMAIN T.instances = DOMAIN S.instances /\ T.instances[i] = Gone(S, i)
      /\ \A j \in DOMAIN S.instances : j # i => T.instances[j] = S.instances[j]
  BY DEF Quashed
<1>2. /\ Gone(S, i).name = S.instances[i].name /\ Gone(S, i).busy = S.instances[i].busy
      /\ Gone(S, i).state = IF S.instances[i].busy > 0 \/ S.maintain THEN "garbage" ELSE "freed"
      /\ S.maintain => Gone(S, i).next = NextIn(S.list, i)
  BY GoneIs
<1>3. ASSUME NEW j
      PROVE  /\ Is(T, j, "live") <=> Is(S, j, "live") /\ j # i
             /\ Is(T, j, "garbage") <=> \/ Is(S, j, "garbage")
                                        \/ j = i /\ (S.instances[i].busy > 0 \/ S.maintain)
             /\ Is(S, j, "freed") => Is(T, j, "freed")
             /\ Is(T, j, "freed") => Is(S, j, "freed") \/ (j = i /\ ~S.maintain)
  <2>1. CASE j = i
    BY <1>1, <1>2, <2>1 DEF Is
  <2>2. CASE j # i
    BY <1>1, <2>2 DEF Is
  <2> QED BY <2>1, <2>2
<1>4. \A j \in DOMAIN S.instances : /\ T.instances[j].name = S.instances[j].name
                                    /\ T.instances[j].busy = S.instances[j].busy
  BY <1>1, <1>2
<1> QED BY <1>1, <1>2, <1>3, <1>4

LEMMA QuashKeeps ==
    ASSUME NEW S, StoreOK(S), NEW i \in DOMAIN S.instances, MayQuash(S, i),
           NEW T, T = QuashInstance(S, i)
    PROVE  StoreOK(T)
<1> DEFINE n == Len(S.garbage)
           waits == S.instances[i].busy > 0 \/ S.maintain
           b0 == ChainOf(S, i)
<1>1. /\ S \in Store /\ ListOK(S) /\ NextOK(S) /\ GarbageOK(S) /\ StatesOK(S)
      /\ \A b \in Chains : ChainOK(S, b)
  BY DEF StoreOK
<1>2. /\ S.list \in Seq(Nat) /\ S.table \in [Chains -> Seq(Nat)] /\ S.garbage \in Seq(SUBSET Nat)
      /\ S.instances[i].name \in InstanceName
      /\ DOMAIN S.instances = 1 .. Len(S.instances) /\ Len(S.instances) \in Nat
  BY <1>1, StoreFields
<1>3. Is(S, i, "live") /\ i \in Nat
  BY <1>2 DEF MayQuash, Instance, Is
<1>4. /\ Quashed(S, T, i) /\ T.list = RemoveFirst(S.list, i)
      /\ T.table[b0] = RemoveFirst(S.table[b0], i)
      /\ \A b \in Chains : b # b0 => T.table[b] = S.table[b]
      /\ \A k \in DOMAIN S.garbage : k # n => T.garbage[k] = S.garbage[k]
      /\ T.garbage[n] = S.garbage[n] \cup (IF waits THEN {i} ELSE {})
  BY QuashFields
<1>5. /\ \A j : Is(T, j, "live") <=> Is(S, j, "live") /\ j # i
      /\ \A j : Is(T, j, "garbage") <=> Is(S, j, "garbage") \/ (j = i /\ waits)
      /\ \A j \in DOMAIN S.instances : T.instances[j].name = S.instances[j].name
      /\ \A j \in DOMAIN S.instances : j # i => T.instances[j] = S.instances[j]
  BY <1>3, <1>4, QuashedMeans
<1>6. T \in Store /\ DOMAIN T.instances = DOMAIN S.instances /\ Len(T.garbage) = n
      /\ T.instances[i] = Gone(S, i)
  BY <1>4 DEF Quashed
<1>7. /\ DOMAIN T.instances = 1 .. Len(T.instances) /\ Len(T.instances) \in Nat
      /\ T.garbage \in Seq(SUBSET Nat)
  BY <1>6, StoreFields
<1>8. Len(T.instances) = Len(S.instances)
  BY <1>2, <1>6, <1>7
<1>9. ListOK(T)
  <2>1. Once(S.list) /\ Ascends(S.list)
    BY <1>1, <1>2, AscendsOnce DEF ListOK
  <2>2. Ascends(T.list) /\ \A x \in Nat : In(x, T.list) <=> In(x, S.list) /\ x # i
    <3>1. S.list \in Seq(Nat) /\ i \in Nat
      BY <1>2, <1>3
    <3>2. /\ Ascends(RemoveFirst(S.list, i))
          /\ \A x \in Nat : In(x, RemoveFirst(S.list, i)) <=> In(x, S.list) /\ x # i
      BY <2>1, <3>1, RemoveFirstIs
    <3>3. T.list = RemoveFirst(S.list, i)
      BY <1>4
    <3> QED BY ONLY <3>2, <3>3
  <2> QED BY <1>1, <1>5, <2>2 DEF ListOK
<1>10. ASSUME NEW b \in Chains PROVE ChainOK(T, b)
  <2>1. S.table[b] \in Seq(Nat) /\ ChainOK(S, b)
    BY <1>1, <1>2
  <2>2. \A j \in DOMAIN S.instances : ChainOf(T, j) = ChainOf(S, j)
    BY <1>5 DEF ChainOf
  <2>3. CASE b = b0
    <3>1. Once(T.table[b]) /\ \A x \in Nat : In(x, T.table[b]) <=> In(x, S.table[b]) /\ x # i
      <4>1. S.table[b] \in Seq(Nat) /\ Once(S.table[b]) /\ i \in Nat
        BY <1>3, <2>1 DEF ChainOK
      <4>2. /\ Once(RemoveFirst(S.table[b], i))
            /\ \A x \in Nat : In(x, RemoveFirst(S.table[b], i)) <=> In(x, S.table[b]) /\ x # i
        BY <4>1, RemoveFirstIs
      <4>3. T.table[b] = RemoveFirst(S.table[b], i)
        BY <1>4, <2>3
      <4> QED BY ONLY <4>2, <4>3
    <3> QED BY <1>5, <2>1, <2>2, <3>1 DEF ChainOK, Is
  <2>4. CASE b # b0
    <3>1. T.table[b] = S.table[b]
      BY <1>4, <2>4
    <3>2. ChainOf(S, i) # b
      BY <2>4
    <3> QED BY <1>5, <2>1, <2>2, <3>1, <3>2 DEF ChainOK, Is
  <2> QED BY <2>3, <2>4
<1>11. NextOK(T)
  <2>1. Gone(S, i).next \in {None0} \cup (i + 1 .. Len(S.instances))
    BY <1>3, GoneIs
  <2> QED BY <1>1, <1>5, <1>6, <1>8, <2>1 DEF NextOK
<1>12. GarbageOK(T)
  <2>1. n \in Nat /\ n > 0 /\ DOMAIN S.garbage = 1 .. n /\ DOMAIN T.garbage = 1 .. n /\ n \in 1 .. n
    BY <1>1, <1>2, <1>6, <1>7 DEF GarbageOK
  <2>2. \A k \in 1 .. n : i \notin S.garbage[k]
    BY <1>1, <1>3, <2>1 DEF GarbageOK, Is
  <2>3. ASSUME NEW k \in 1 .. n, NEW j \in T.garbage[k] PROVE Is(T, j, "garbage")
    <3>1. CASE j \in S.garbage[k]
      BY <1>1, <1>5, <2>1, <3>1 DEF GarbageOK
    <3>2. CASE j \notin S.garbage[k]
      <4>1. k = n /\ waits /\ j = i
        BY <1>4, <2>1, <2>3, <3>2
      <4> QED BY <1>5, <4>1
    <3> QED BY <3>1, <3>2
  <2>4. ASSUME NEW j \in DOMAIN S.instances, Is(T, j, "garbage") PROVE \E k \in 1 .. n : j \in T.garbage[k]
    <3>1. CASE Is(S, j, "garbage")
      <4>1. PICK k \in 1 .. n : j \in S.garbage[k]
        BY <1>1, <2>1, <3>1 DEF GarbageOK
      <4>2. j \in T.garbage[k]
        BY <1>4, <2>1, <4>1
      <4> QED BY <4>2
    <3>2. CASE j = i /\ waits
      BY <1>4, <2>1, <3>2
    <3> QED BY <1>5, <2>4, <3>1, <3>2
  <2>5. ASSUME NEW k \in 1 .. n, NEW m \in 1 .. n, k # m PROVE T.garbage[k] \cap T.garbage[m] = {}
    <3>1. S.garbage[k] \cap S.garbage[m] = {}
      BY <1>1, <2>1, <2>5 DEF GarbageOK
    <3>2. \A x \in 1 .. n : T.garbage[x] \subseteq S.garbage[x] \cup {i}
                            /\ (x # n => T.garbage[x] = S.garbage[x])
      BY <1>4, <2>1
    <3>3. k # n \/ m # n
      BY <2>5
    <3> HIDE DEF n, waits
    <3> QED BY <2>2, <3>1, <3>2, <3>3
  <2> HIDE DEF n
  <2> QED BY <1>6, <2>1, <2>3, <2>4, <2>5 DEF GarbageOK
<1>13. StatesOK(T)
  <2>1. ASSUME NEW j \in DOMAIN S.instances
        PROVE  /\ Is(T, j, "garbage") => ~T.instances[j].installed
               /\ Is(T, j, "freed") => T.instances[j].busy = 0
    <3>1. CASE j = i
      <4>1. /\ ~Gone(S, i).installed /\ Gone(S, i).busy = S.instances[i].busy
            /\ Gone(S, i).state = IF waits THEN "garbage" ELSE "freed"
        BY <1>3, GoneIs
      <4>2. S.instances[i].busy \in Nat
        BY <1>1, StoreFields
      <4> QED BY <1>6, <3>1, <4>1, <4>2 DEF Is
    <3>2. CASE j # i
      BY <1>1, <1>5, <3>2 DEF Is, StatesOK
    <3> QED BY <3>1, <3>2
  <2> QED BY <1>6, <2>1 DEF StatesOK
<1> QED BY <1>6, <1>9, <1>10, <1>11, <1>12, <1>13 DEF StoreOK

-----------------------------------------------------------------------------
(* A new instance.                                                         *)

Fresh(name) ==
    [name |-> name, state |-> "live", installed |-> TRUE, busy |-> 0,
     initSlotsCalled |-> FALSE, next |-> None0]

Grown(S, T, name) ==
    /\ T \in Store /\ Len(T.instances) = Len(S.instances) + 1
    /\ T.maintain = S.maintain /\ T.garbage = S.garbage
    /\ T.instances[Len(S.instances) + 1] = Fresh(name)
    /\ \A j \in DOMAIN S.instances : T.instances[j] = S.instances[j]

LEMMA FreshIs ==
    ASSUME NEW name \in InstanceName
    PROVE  /\ Fresh(name) \in InstanceRecord /\ Fresh(name).name = name
           /\ Fresh(name).state = "live" /\ Fresh(name).installed /\ Fresh(name).busy = 0
           /\ Fresh(name).next = None0
BY DEF Fresh, InstanceRecord, None0

LEMMA SelectIs ==
    ASSUME NEW s \in Seq(Nat), NEW x
    PROVE  /\ SelectInSeq(s, LAMBDA i : i = x) \in 0 .. Len(s)
           /\ SelectInSeq(s, LAMBDA i : i = x) = 0 <=> ~In(x, s)
<1> DEFINE I == {j \in 1 .. Len(s) : s[j] = x}
<1>1. SelectInSeq(s, LAMBDA i : i = x) = IF I # {} THEN Min(I) ELSE 0
  BY DEF SelectInSeq
<1>2. I \subseteq Nat /\ Len(s) \in Nat /\ DOMAIN s = 1 .. Len(s)
  OBVIOUS
<1>3. I # {} => Min(I) \in I
  <2> HIDE DEF I
  <2> QED BY <1>2, MinIs
<1>4. I = {} <=> ~In(x, s)
  BY <1>2 DEF In
<1> QED BY <1>1, <1>2, <1>3, <1>4
\* And where it is listed.
Entered(S, T, name, prev) ==
    /\ T.list = Append(S.list, Len(S.instances) + 1)
    /\ \E at \in 1 .. Len(S.table[HashInstance[name]]) + 1 :
          T.table[HashInstance[name]] =
              InsertAt(S.table[HashInstance[name]], at, Len(S.instances) + 1)
    /\ \A b \in Chains : b # HashInstance[name] => T.table[b] = S.table[b]
    /\ T.stray = (prev # None0 /\ ~In(prev, S.table[HashInstance[name]]))

LEMMA NewFields ==
    ASSUME NEW S, StoreOK(S), NEW name \in InstanceName, NEW prev \in Nat,
           NEW T, T = NewInstance(S, name, prev)
    PROVE  Grown(S, T, name) /\ Entered(S, T, name, prev)
<1> DEFINE b0 == HashInstance[name]
           at == SelectInSeq(S.table[b0], LAMBDA i : i = prev)
           n == Len(S.instances)
           ins == Append(S.instances, Fresh(name))
           list == Append(S.list, n + 1)
           table == [S.table EXCEPT ![b0] = InsertAt(@, at + 1, n + 1)]
           stray == prev # None0 /\ at = 0
<1>1. S \in Store
  BY DEF StoreOK
<1>2. /\ S.instances \in Seq(InstanceRecord) /\ S.list \in Seq(Nat)
      /\ S.table \in [Chains -> Seq(Nat)] /\ S.garbage \in Seq(SUBSET Nat)
      /\ n \in Nat /\ DOMAIN S.instances = 1 .. n
  BY <1>1, StoreFields
<1>3. b0 \in Chains
  BY DEF Chains
<1>4. at \in 0 .. Len(S.table[b0]) /\ (at = 0 <=> ~In(prev, S.table[b0]))
  <2>1. S.table[b0] \in Seq(Nat)
    BY <1>2, <1>3
  <2> HIDE DEF b0
  <2> QED BY <2>1, SelectIs DEF SelectInSeq
<1> HIDE DEF b0, at
<1>5. InsertAt(S.table[b0], at + 1, n + 1) \in Seq(Nat) /\ at + 1 \in 1 .. Len(S.table[b0]) + 1
  <2>1. S.table[b0] \in Seq(Nat) /\ n + 1 \in Nat
    BY <1>2, <1>3
  <2>2. at + 1 \in 1 .. Len(S.table[b0]) + 1
    BY <1>4, <2>1
  <2> HIDE DEF n
  <2> QED BY <2>1, <2>2, InsertAtProperties
<1>6. /\ ins \in Seq(InstanceRecord) /\ Len(ins) = n + 1 /\ ins[n + 1] = Fresh(name)
      /\ \A j \in DOMAIN S.instances : ins[j] = S.instances[j]
  <2>1. Fresh(name) \in InstanceRecord
    BY FreshIs
  <2> QED BY <1>2, <2>1
<1>7. list \in Seq(Nat) /\ stray \in BOOLEAN
  BY <1>2
<1>8. /\ table \in [Chains -> Seq(Nat)] /\ table[b0] = InsertAt(S.table[b0], at + 1, n + 1)
      /\ \A b \in Chains : b # b0 => table[b] = S.table[b]
  BY <1>2, <1>3, <1>5
<1>9. T = Rebuilt(S, ins, list, table, S.garbage, stray)
  <2>1. T = [S EXCEPT !.instances = Append(@, Fresh(name)), !.list = Append(@, n + 1),
                      !.table[b0] = InsertAt(@, at + 1, n + 1),
                      !.stray = prev # None0 /\ at = 0]
    BY DEF NewInstance, Fresh, b0, at
  <2> QED BY <1>1, <2>1 DEF Rebuilt, Store
<1> HIDE DEF ins, list, table, stray
<1>10. /\ T \in Store /\ T.instances = ins /\ T.garbage = S.garbage /\ T.maintain = S.maintain
       /\ T.list = list /\ T.table = table /\ T.stray = stray
  <2>1. /\ S \in Store /\ ins \in Seq(InstanceRecord) /\ list \in Seq(Nat)
        /\ table \in [Chains -> Seq(Nat)] /\ S.garbage \in Seq(SUBSET Nat) /\ stray \in BOOLEAN
    BY <1>1, <1>2, <1>6, <1>7, <1>8
  <2> DEFINE R == Rebuilt(S, ins, list, table, S.garbage, stray)
  <2>2. /\ R \in Store /\ R.instances = ins /\ R.garbage = S.garbage /\ R.maintain = S.maintain
        /\ R.list = list /\ R.table = table /\ R.stray = stray
    BY <2>1, RebuiltFields
  <2>3. T = R
    BY <1>9
  <2> QED BY ONLY <2>2, <2>3
<1>11. Grown(S, T, name)
  BY <1>6, <1>10 DEF Grown
<1> QED BY <1>4, <1>5, <1>8, <1>10, <1>11 DEF list, stray, b0, Entered

LEMMA GrownMeans ==
    ASSUME NEW S, StoreOK(S), NEW name \in InstanceName, NEW T, Grown(S, T, name)
    PROVE  /\ DOMAIN T.instances = DOMAIN S.instances \cup {Len(S.instances) + 1}
           /\ Len(S.instances) + 1 \notin DOMAIN S.instances /\ Len(S.instances) \in Nat
           /\ DOMAIN S.instances = 1 .. Len(S.instances)
           /\ T.instances[Len(S.instances) + 1] = Fresh(name)
           /\ \A j : Is(T, j, "live") <=> Is(S, j, "live") \/ j = Len(S.instances) + 1
           /\ \A j : Is(T, j, "garbage") <=> Is(S, j, "garbage")
           /\ \A j : Is(T, j, "freed") <=> Is(S, j, "freed")
           /\ \A j \in DOMAIN S.instances : T.instances[j] = S.instances[j]
<1> DEFINE n == Len(S.instances)
<1>1. S \in Store /\ T \in Store
  BY DEF StoreOK, Grown
<1>2. /\ n \in Nat /\ DOMAIN S.instances = 1 .. n
      /\ Len(T.instances) \in Nat /\ DOMAIN T.instances = 1 .. Len(T.instances)
  BY <1>1, StoreFields
<1>3. DOMAIN T.instances = DOMAIN S.instances \cup {n + 1} /\ n + 1 \notin DOMAIN S.instances
  BY <1>2 DEF Grown
<1>4. T.instances[n + 1].state = "live" /\ T.instances[n + 1] = Fresh(name)
  BY FreshIs DEF Grown
<1>5. \A j \in DOMAIN S.instances : T.instances[j] = S.instances[j]
  BY DEF Grown
<1>6. ASSUME NEW j
      PROVE  /\ Is(T, j, "live") <=> Is(S, j, "live") \/ j = n + 1
             /\ Is(T, j, "garbage") <=> Is(S, j, "garbage")
             /\ Is(T, j, "freed") <=> Is(S, j, "freed")
  <2> HIDE DEF n
  <2>1. CASE j = n + 1
    BY <1>3, <1>4, <2>1 DEF Is
  <2>2. CASE j # n + 1
    BY <1>3, <1>5, <2>2 DEF Is
  <2> QED BY <2>1, <2>2
<1> QED BY <1>2, <1>3, <1>4, <1>5, <1>6

LEMMA NewKeeps ==
    ASSUME NEW S, StoreOK(S), NEW name \in InstanceName, NEW prev \in Nat,
           NEW T, T = NewInstance(S, name, prev)
    PROVE  StoreOK(T)
<1> DEFINE n == Len(S.instances)
           new == Len(S.instances) + 1
           b0 == HashInstance[name]
<1>1. /\ S \in Store /\ ListOK(S) /\ NextOK(S) /\ GarbageOK(S) /\ StatesOK(S)
      /\ \A b \in Chains : ChainOK(S, b)
  BY DEF StoreOK
<1>2. S.list \in Seq(Nat) /\ S.table \in [Chains -> Seq(Nat)]
  BY <1>1, StoreFields
<1>3. /\ Grown(S, T, name) /\ T.list = Append(S.list, new)
      /\ \E at \in 1 .. Len(S.table[b0]) + 1 : T.table[b0] = InsertAt(S.table[b0], at, new)
      /\ \A b \in Chains : b # b0 => T.table[b] = S.table[b]
  <2>1. Grown(S, T, name) /\ Entered(S, T, name, prev)
    BY NewFields
  <2> QED BY <2>1 DEF Entered
<1>4. /\ DOMAIN T.instances = DOMAIN S.instances \cup {new} /\ new \notin DOMAIN S.instances
      /\ n \in Nat /\ DOMAIN S.instances = 1 .. n /\ T.instances[new] = Fresh(name)
      /\ \A j : Is(T, j, "live") <=> Is(S, j, "live") \/ j = new
      /\ \A j : Is(T, j, "garbage") <=> Is(S, j, "garbage")
      /\ \A j : Is(T, j, "freed") <=> Is(S, j, "freed")
      /\ \A j \in DOMAIN S.instances : T.instances[j] = S.instances[j]
  BY <1>3, GrownMeans
<1>5. T \in Store /\ T.garbage = S.garbage /\ Len(T.instances) = n + 1 /\ new = n + 1 /\ new \in Nat
  BY <1>3, <1>4 DEF Grown
<1>6. /\ Fresh(name).name = name /\ Fresh(name).next = None0 /\ Fresh(name).busy = 0
      /\ Fresh(name).state = "live"
  BY FreshIs
<1> HIDE DEF new
<1>7. ListOK(T)
  <2>1. \A k \in DOMAIN S.list : S.list[k] \in Nat /\ Is(S, S.list[k], "live")
    BY <1>1, <1>2 DEF ListOK, In
  <2>2. \A k \in DOMAIN S.list : S.list[k] < new
    BY <1>4, <1>5, <2>1 DEF Is
  <2>3. Ascends(S.list)
    BY <1>1 DEF ListOK
  <2>4. Ascends(T.list) /\ \A x \in Nat : In(x, T.list) <=> In(x, S.list) \/ x = new
    <3>1. S.list \in Seq(Nat) /\ T.list = Append(S.list, new) /\ new \in Nat
      BY <1>2, <1>3, <1>5
    <3> QED BY <2>2, <2>3, <3>1, AppendIs
  <2> QED BY <1>1, <1>4, <2>4 DEF ListOK
<1>8. ASSUME NEW b \in Chains PROVE ChainOK(T, b)
  <2>1. S.table[b] \in Seq(Nat) /\ ChainOK(S, b)
    BY <1>1, <1>2
  <2>2. \A j \in DOMAIN S.instances : ChainOf(T, j) = ChainOf(S, j)
    BY <1>4 DEF ChainOf
  <2>3. ChainOf(T, new) = b0
    BY <1>4, <1>6 DEF ChainOf
  <2>4. CASE b = b0
    <3>1. PICK at \in 1 .. Len(S.table[b]) + 1 : T.table[b] = InsertAt(S.table[b], at, new)
      BY <1>3, <2>4
    <3>2. ~In(new, S.table[b]) /\ Once(S.table[b])
      BY <1>4, <1>5, <2>1 DEF ChainOK, Is
    <3>3. Once(T.table[b]) /\ \A x \in Nat : In(x, T.table[b]) <=> In(x, S.table[b]) \/ x = new
      BY <1>5, <2>1, <3>1, <3>2, InsertIs
    <3> QED BY <1>4, <2>1, <2>2, <2>3, <2>4, <3>3 DEF ChainOK, Is
  <2>5. CASE b # b0
    <3>1. T.table[b] = S.table[b]
      BY <1>3, <2>5
    <3> QED BY <1>4, <2>1, <2>2, <2>3, <2>5, <3>1 DEF ChainOK, Is
  <2> QED BY <2>4, <2>5
<1>9. NextOK(T)
  <2>1. ASSUME NEW i \in DOMAIN T.instances
        PROVE  T.instances[i].next \in {None0} \cup (i + 1 .. n + 1)
    <3>1. CASE i = new
      <4>1. T.instances[i].next = None0
        BY <1>4, <1>6, <3>1
      <4> QED BY <4>1
    <3>2. CASE i \in DOMAIN S.instances
      <4>1. T.instances[i].next \in {None0} \cup (i + 1 .. n)
        BY <1>1, <1>4, <3>2 DEF NextOK
      <4> QED BY <1>4, <3>2, <4>1
    <3> QED BY <1>4, <3>1, <3>2
  <2> QED BY <1>5, <2>1 DEF NextOK
<1>10. GarbageOK(T)
  <2>1. /\ Len(S.garbage) > 0
        /\ \A k \in DOMAIN S.garbage : \A i \in S.garbage[k] : Is(S, i, "garbage")
        /\ \A i \in DOMAIN S.instances :
              Is(S, i, "garbage") => \E k \in DOMAIN S.garbage : i \in S.garbage[k]
        /\ \A k, m \in DOMAIN S.garbage : k # m => S.garbage[k] \cap S.garbage[m] = {}
    BY <1>1 DEF GarbageOK
  <2>2. \A i \in DOMAIN T.instances :
              Is(T, i, "garbage") => \E k \in DOMAIN S.garbage : i \in S.garbage[k]
    BY <1>4, <2>1 DEF Is
  <2> QED BY <1>4, <1>5, <2>1, <2>2 DEF GarbageOK
<1>11. StatesOK(T)
  <2>1. ASSUME NEW i \in DOMAIN T.instances
        PROVE  /\ Is(T, i, "garbage") => ~T.instances[i].installed
               /\ Is(T, i, "freed") => T.instances[i].busy = 0
    <3>1. CASE i = new
      BY <1>4, <1>6, <3>1 DEF Is
    <3>2. CASE i \in DOMAIN S.instances
      BY <1>1, <1>4, <3>2 DEF StatesOK
    <3> QED BY <1>4, <3>1, <3>2
  <2> QED BY <2>1 DEF StatesOK
<1> QED BY <1>5, <1>7, <1>8, <1>9, <1>10, <1>11 DEF StoreOK
-----------------------------------------------------------------------------
(* What callers rely on, when the store changes.                           *)

SameLiving(S, T) ==
    /\ DOMAIN T.instances = DOMAIN S.instances
    /\ \A i \in DOMAIN S.instances : T.instances[i].name = S.instances[i].name
    /\ \A i : Is(T, i, "live") <=> Is(S, i, "live")

LEMMA ServesSame ==
    ASSUME NEW S, NEW T, SameLiving(S, T), NEW C, NEW tame, CallerOK(S, C, tame),
           C.phase = "initialized" => ~T.instances[C.id].installed,
           C.kind = "all" => AllOK(T, C)
    PROVE  CallerOK(T, C, tame)
<1>1. ReplacesOK(S, C) => ReplacesOK(T, C)
  <2> SUFFICES ASSUME ReplacesOK(S, C) PROVE ReplacesOK(T, C)
    OBVIOUS
  <2>1. \A i \in DOMAIN T.instances :
          Is(T, i, "live") /\ T.instances[i].name = C.name => i = C.old
    BY DEF ReplacesOK, SameLiving
  <2>2. C.prev # None0 =>
          /\ Is(T, C.prev, "live") /\ C.prev # C.old
          /\ ChainOf(T, C.prev) = HashInstance[C.name]
    BY DEF ReplacesOK, SameLiving, ChainOf, Is
  <2> QED BY <2>1, <2>2 DEF ReplacesOK
<1> QED BY <1>1 DEF CallerOK, SameLiving

LEMMA AllSame ==
    ASSUME NEW S, NEW T, NEW C, AllOK(S, C), DOMAIN T.instances = DOMAIN S.instances,
           \A i \in DOMAIN S.instances : /\ T.instances[i].state = S.instances[i].state
                                         /\ T.instances[i].next = S.instances[i].next
    PROVE  AllOK(T, C)
<1>1. \A i, state : Is(T, i, state) <=> Is(S, i, state)
  BY DEF Is
<1> QED BY <1>1 DEF AllOK, Is

LEMMA TouchServes ==
    ASSUME NEW S, NEW T, NEW i \in DOMAIN S.instances, NEW J, Touched(S, T, i, J),
           NEW C, NEW tame, CallerOK(S, C, tame),
           C.phase = "initialized" /\ C.id = i => ~J.installed
    PROVE  CallerOK(T, C, tame)
<1>1. Alike(S, T) /\ T.instances[i] = J /\ \A j \in DOMAIN S.instances : j # i => T.instances[j] = S.instances[j]
  BY DEF Touched
<1>2. SameLiving(S, T)
  BY <1>1, AlikeIs DEF SameLiving, Alike
<1>3. C.phase = "initialized" => ~T.instances[C.id].installed
  BY <1>1 DEF CallerOK
<1>4. C.kind = "all" => AllOK(T, C)
  BY <1>1, AllSame DEF CallerOK, Alike
<1> QED BY <1>2, <1>3, <1>4, ServesSame

LEMMA FreeingServes ==
    ASSUME NEW S, NEW T, Freeing(S, T), NEW C, NEW tame, CallerOK(S, C, tame),
           C.kind = "all" => T.maintain
    PROVE  CallerOK(T, C, tame)
<1>1. SameLiving(S, T)
  <2>1. ASSUME NEW i PROVE Is(T, i, "live") <=> Is(S, i, "live")
    BY FreeingMeans DEF Freeing, Is
  <2>2. \A i \in DOMAIN S.instances : T.instances[i].name = S.instances[i].name
    BY FreeingMeans
  <2> QED BY <2>1, <2>2 DEF SameLiving, Freeing
<1>2. C.phase = "initialized" => ~T.instances[C.id].installed
  <2>1. ASSUME C.phase = "initialized" PROVE Is(S, C.id, "live") /\ ~S.instances[C.id].installed
    BY <2>1 DEF CallerOK
  <2> QED BY <2>1, FreeingMeans DEF Is
<1>3. C.kind = "all" => AllOK(T, C)
  <2>1. ASSUME C.kind = "all" PROVE AllOK(T, C)
    <3>1. T.instances = S.instances /\ AllOK(S, C)
      BY <2>1 DEF Freeing, CallerOK
    <3> QED BY <3>1 DEF AllOK, Is
  <2> QED BY <2>1
<1> QED BY <1>1, <1>2, <1>3, ServesSame

\* An instance that goes while all are being deleted still leads on.
LEMMA AllQuashed ==
    ASSUME NEW S, StoreOK(S), NEW i0 \in DOMAIN S.instances, Is(S, i0, "live"),
           NEW T, Quashed(S, T, i0), S.maintain, NEW C \in Caller, AllOK(S, C)
    PROVE  AllOK(T, C)
<1>1. /\ DOMAIN S.instances = 1 .. Len(S.instances) /\ Len(S.instances) \in Nat
      /\ \A j \in DOMAIN S.instances : S.instances[j].next \in Nat
  BY StoreFields DEF StoreOK
<1>2. /\ \A j : Is(T, j, "live") <=> Is(S, j, "live") /\ j # i0
      /\ \A j : Is(T, j, "garbage") <=> \/ Is(S, j, "garbage")
                                        \/ j = i0 /\ (S.instances[i0].busy > 0 \/ S.maintain)
      /\ \A j : Is(T, j, "freed") => Is(S, j, "freed") \/ (j = i0 /\ ~S.maintain)
      /\ \A j \in DOMAIN S.instances : j # i0 => T.instances[j] = S.instances[j]
      /\ S.maintain => T.instances[i0].next = NextIn(S.list, i0)
  BY QuashedMeans
<1> DEFINE next == NextIn(S.list, i0)
<1>3. /\ next = None0 => \A x \in Nat : Is(S, x, "live") => x <= i0
      /\ next # None0 =>
            /\ Is(S, next, "live") /\ i0 < next
            /\ \A x \in Nat : Is(S, x, "live") /\ i0 < x => next <= x
  BY ListMeans
<1>4. DOMAIN T.instances = DOMAIN S.instances
  BY DEF Quashed
<1>5. C.id \in DOMAIN S.instances /\ ~Is(S, C.id, "freed")
      /\ \A i \in C.due : i \in DOMAIN S.instances /\ ~Is(S, i, "freed")
  BY DEF AllOK
<1>6. ASSUME NEW i \in C.due, Is(T, i, "live")
      PROVE  /\ C.id < i
             /\ \A j \in DOMAIN T.instances :
                   Is(T, j, "live") /\ C.id < j /\ j < i => j \in C.due
             /\ \A j \in C.due \cup {C.id} :
                   Is(T, j, "garbage") /\ C.id <= j /\ j < i =>
                       T.instances[j].next \in C.due /\ j < T.instances[j].next
                       /\ T.instances[j].next <= i
  <2>1. Is(S, i, "live") /\ i # i0
    BY <1>2, <1>6
  <2>2. /\ C.id < i
        /\ \A j \in DOMAIN S.instances :
              Is(S, j, "live") /\ C.id < j /\ j < i => j \in C.due
        /\ \A j \in C.due \cup {C.id} :
              Is(S, j, "garbage") /\ C.id <= j /\ j < i =>
                  S.instances[j].next \in C.due /\ j < S.instances[j].next
                  /\ S.instances[j].next <= i
    BY <2>1 DEF AllOK
  <2>3. ASSUME NEW j \in C.due \cup {C.id}, Is(T, j, "garbage"), C.id <= j, j < i
        PROVE  T.instances[j].next \in C.due /\ j < T.instances[j].next /\ T.instances[j].next <= i
    <3>1. CASE j # i0
      <4>1. Is(S, j, "garbage") /\ T.instances[j] = S.instances[j]
        BY <1>2, <1>5, <2>3, <3>1
      <4> QED BY <2>2, <2>3, <4>1
    <3>2. CASE j = i0
      <4>1. T.instances[j].next = next
        BY <1>2, <3>2
      <4>2. i \in Nat /\ j \in Nat /\ C.id \in Nat
        BY <1>1, <1>5, <2>3
      <4>3. next # None0
        <5> HIDE DEF next
        <5> QED BY <1>3, <2>1, <2>3, <3>2, <4>2
      <4>4. Is(S, next, "live") /\ j < next /\ next <= i
        <5> HIDE DEF next
        <5> QED BY <1>3, <2>1, <2>3, <3>2, <4>2, <4>3
      <4>5. next \in Nat
        BY <1>1, <4>4 DEF Is
      <4>6. next \in C.due
        <5> HIDE DEF next
        <5>1. CASE next = i
          BY <5>1
        <5>2. CASE next # i
          <6>1. next < i /\ C.id < next
            BY <2>3, <4>2, <4>4, <4>5, <5>2
          <6>2. next \in DOMAIN S.instances
            BY <4>4 DEF Is
          <6> QED BY <2>2, <4>4, <6>1, <6>2
        <5> QED BY <5>1, <5>2
      <4> QED BY <4>1, <4>4, <4>6
    <3> QED BY <3>1, <3>2
  <2> QED BY <1>2, <1>4, <2>2, <2>3
<1>7. ASSUME NEW i, ~Is(S, i, "freed") PROVE ~Is(T, i, "freed")
  BY <1>2, <1>7
<1> HIDE DEF next
<1> QED BY <1>4, <1>5, <1>6, <1>7 DEF AllOK

LEMMA QuashServes ==
    ASSUME NEW S, StoreOK(S), NEW i \in DOMAIN S.instances, MayQuash(S, i), NEW T, Quashed(S, T, i),
           NEW C \in Caller, NEW tame, CallerOK(S, C, tame), C.kind = "all" => S.maintain,
           tame => /\ C.phase = "created" => C.id # i
                   /\ C.phase = "replaced" => C.prev # i
    PROVE  CallerOK(T, C, tame)
<1>1. Is(S, i, "live") /\ S.instances[i].installed
  BY DEF MayQuash, Instance, Is
<1>2. /\ \A j : Is(T, j, "live") <=> Is(S, j, "live") /\ j # i
      /\ \A j \in DOMAIN S.instances : T.instances[j].name = S.instances[j].name
      /\ \A j \in DOMAIN S.instances : j # i => T.instances[j] = S.instances[j]
  BY <1>1, QuashedMeans
<1>3. DOMAIN T.instances = DOMAIN S.instances
  BY DEF Quashed
<1>4. C.kind = "all" => AllOK(T, C)
  BY <1>1, AllQuashed DEF CallerOK
<1>5. C.phase = "initialized" => Is(T, C.id, "live") /\ ~T.instances[C.id].installed
  BY <1>1, <1>2 DEF CallerOK, Is
<1>6. tame /\ C.phase = "created" => Is(T, C.id, "live")
  BY <1>2 DEF CallerOK
<1>7. tame /\ C.phase = "replaced" => ReplacesOK(T, C)
  <2>1. ASSUME tame, C.phase = "replaced" PROVE ReplacesOK(T, C)
    <3>1. ReplacesOK(S, C) /\ C.prev # i
      BY <2>1 DEF CallerOK
    <3>2. \A j \in DOMAIN T.instances :
            Is(T, j, "live") /\ T.instances[j].name = C.name => j = C.old
      BY <1>2, <1>3, <3>1 DEF ReplacesOK
    <3>3. C.prev # None0 =>
            /\ Is(T, C.prev, "live") /\ C.prev # C.old
            /\ ChainOf(T, C.prev) = HashInstance[C.name]
      BY <1>2, <3>1 DEF ReplacesOK, ChainOf, Is
    <3> QED BY <3>2, <3>3 DEF ReplacesOK
  <2> QED BY <2>1
<1> QED BY <1>3, <1>4, <1>5, <1>6, <1>7 DEF CallerOK

LEMMA GrownServes ==
    ASSUME NEW S, StoreOK(S), NEW name \in InstanceName, NEW T, Grown(S, T, name),
           NEW C \in Caller, NEW tame, CallerOK(S, C, tame), tame => C.phase # "replaced"
    PROVE  CallerOK(T, C, tame)
<1> DEFINE new == Len(S.instances) + 1
<1>1. /\ DOMAIN T.instances = DOMAIN S.instances \cup {new}
      /\ new \notin DOMAIN S.instances /\ Len(S.instances) \in Nat
      /\ DOMAIN S.instances = 1 .. Len(S.instances)
      /\ \A j : Is(T, j, "live") <=> Is(S, j, "live") \/ j = new
      /\ \A j : Is(T, j, "garbage") <=> Is(S, j, "garbage")
      /\ \A j : Is(T, j, "freed") <=> Is(S, j, "freed")
      /\ \A j \in DOMAIN S.instances : T.instances[j] = S.instances[j]
  BY GrownMeans
<1>2. C.kind = "all" => AllOK(T, C)
  <2>1. SUFFICES ASSUME C.kind = "all", AllOK(S, C) PROVE AllOK(T, C)
    BY DEF CallerOK
  <2>2. ASSUME NEW i \in C.due, Is(T, i, "live")
        PROVE  /\ C.id < i
               /\ \A j \in DOMAIN T.instances :
                     Is(T, j, "live") /\ C.id < j /\ j < i => j \in C.due
               /\ \A j \in C.due \cup {C.id} :
                     Is(T, j, "garbage") /\ C.id <= j /\ j < i =>
                         T.instances[j].next \in C.due /\ j < T.instances[j].next
                         /\ T.instances[j].next <= i
    <3>1. i \in DOMAIN S.instances /\ Is(S, i, "live")
      BY <1>1, <2>1, <2>2 DEF AllOK, Is
    <3>2. ~(new < i)
      BY <1>1, <3>1
    <3>3. \A j \in C.due \cup {C.id} : j \in DOMAIN S.instances
      BY <2>1 DEF AllOK
    <3> HIDE DEF new
    <3> QED BY <1>1, <2>1, <3>1, <3>2, <3>3 DEF AllOK
  <2> HIDE DEF new
  <2> QED BY <1>1, <2>1, <2>2 DEF AllOK
<1>3. C.phase = "initialized" => Is(T, C.id, "live") /\ ~T.instances[C.id].installed
  BY <1>1 DEF CallerOK, Is
<1> HIDE DEF new
<1> QED BY <1>1, <1>2, <1>3 DEF CallerOK
-----------------------------------------------------------------------------
(* Calls come and go.                                                      *)

\* A store that is good for these calls, but for what they hold and keep.
Suits(T, cs, tame) ==
    /\ StoreOK(T)
    /\ \A k \in DOMAIN cs : CallerOK(T, cs[k], tame)
    /\ tame => ~T.stray /\ UniqueNames(T)

\* T bears one more call, C, than S does.
Bears(S, T, C) ==
    /\ DOMAIN T.instances = DOMAIN S.instances
    /\ \A i \in DOMAIN S.instances :
          T.instances[i].busy = S.instances[i].busy + IF Holds(C, i) THEN 1 ELSE 0
    /\ Len(T.garbage) = Len(S.garbage) + IF Owns(C) THEN 1 ELSE 0
    /\ T.maintain = (S.maintain \/ Keeps(C))
    /\ Keeps(C) => C.maintain = S.maintain
\* S bears one more than T.
Sheds(S, T, C) ==
    /\ DOMAIN T.instances = DOMAIN S.instances
    /\ \A i \in DOMAIN S.instances :
          S.instances[i].busy = T.instances[i].busy + IF Holds(C, i) THEN 1 ELSE 0
    /\ Len(S.garbage) = Len(T.garbage) + IF Owns(C) THEN 1 ELSE 0
    /\ T.maintain = IF Keeps(C) THEN C.maintain ELSE S.maintain

Fitting(cs, C, tame) ==
    /\ \A k \in DOMAIN cs : Under(cs[k], C, tame)
    /\ cs # << >> => Calls(cs[Len(cs)], C)
    /\ cs = << >> => ~(C.kind = "message" /\ C.phase = "init")

LEMMA PushIs ==
    ASSUME NEW cs \in Seq(Caller), NEW C \in Caller
    PROVE  /\ Append(cs, C) \in Seq(Caller) /\ Len(cs) \in Nat
           /\ Len(Append(cs, C)) = Len(cs) + 1 /\ DOMAIN cs = 1 .. Len(cs)
           /\ DOMAIN Append(cs, C) = 1 .. Len(cs) + 1
           /\ Append(cs, C)[Len(cs) + 1] = C
           /\ \A k \in 1 .. Len(cs) : Append(cs, C)[k] = cs[k]
OBVIOUS

LEMMA PopIs ==
    ASSUME NEW cs \in Seq(Caller), cs # << >>
    PROVE  /\ Front(cs) \in Seq(Caller) /\ Last(cs) \in Caller /\ Last(cs) = cs[Len(cs)]
           /\ cs = Append(Front(cs), Last(cs)) /\ Len(cs) \in Nat /\ Len(cs) > 0
           /\ Len(Front(cs)) = Len(cs) - 1 /\ DOMAIN cs = 1 .. Len(cs)
           /\ DOMAIN Front(cs) = 1 .. Len(cs) - 1
           /\ \A k \in 1 .. Len(cs) - 1 : Front(cs)[k] = cs[k]
<1> DEFINE n == Len(cs)
           f == Front(cs)
<1>1. n \in Nat /\ n > 0 /\ DOMAIN cs = 1 .. n /\ n \in 1 .. n
  OBVIOUS
<1>2. /\ f \in Seq(Caller) /\ Len(f) = n - 1 /\ DOMAIN f = 1 .. n - 1
      /\ \A k \in 1 .. n - 1 : f[k] = cs[k]
  <2> DEFINE m == n - 1
  <2>1. m \in 0 .. Len(cs) /\ f = SubSeq(cs, 1, m)
    BY <1>1 DEF Front
  <2>2. /\ SubSeq(cs, 1, m) \in Seq(Caller) /\ Len(SubSeq(cs, 1, m)) = m
        /\ \A k \in 1 .. m : SubSeq(cs, 1, m)[k] = cs[k]
    <3> HIDE DEF m
    <3> QED BY <2>1
  <2>3. DOMAIN SubSeq(cs, 1, m) = 1 .. Len(SubSeq(cs, 1, m))
    <3> HIDE DEF m
    <3> QED BY <2>2
  <2> QED BY <2>1, <2>2, <2>3
<1>3. Last(cs) = cs[n] /\ cs[n] \in Caller
  BY <1>1 DEF Last
<1>4. cs = Append(f, cs[n])
  <2> DEFINE C == cs[n]
  <2> HIDE DEF f, C
  <2>1. C \in Caller
    BY <1>3 DEF C
  <2>0. f \in Seq(Caller) /\ Len(f) = n - 1
    BY <1>2
  <2>2. /\ Append(f, C) \in Seq(Caller) /\ Len(Append(f, C)) = n
        /\ Append(f, C)[n] = C /\ \A k \in 1 .. n - 1 : Append(f, C)[k] = f[k]
    <3>1. /\ Append(f, C) \in Seq(Caller) /\ Len(Append(f, C)) = Len(f) + 1
          /\ Append(f, C)[Len(f) + 1] = C /\ \A k \in 1 .. Len(f) : Append(f, C)[k] = f[k]
      BY <2>0, <2>1, PushIs
    <3>2. Len(f) + 1 = n
      BY <1>1, <2>0
    <3> QED BY <2>0, <3>1, <3>2
  <2>3. \A k \in 1 .. n : Append(f, C)[k] = cs[k]
    <3>1. \A k \in 1 .. n : k \in 1 .. n - 1 \/ k = n
      <4> HIDE DEF n
      <4> QED BY <1>1
    <3> QED BY <1>2, <2>2, <3>1 DEF C
  <2> HIDE DEF n
  <2>4. Append(f, C) = cs
    BY <1>1, <2>2, <2>3
  <2> QED BY <2>4 DEF C
<1> QED BY <1>1, <1>2, <1>3, <1>4

Hits(cs, W) == {k \in DOMAIN cs : cs[k] \in W}

LEMMA CountOne ==
    ASSUME NEW cs \in Seq(Caller), NEW C \in Caller, NEW W
    PROVE  /\ Cardinality(Hits(cs, W)) \in Nat
           /\ Cardinality(Hits(Append(cs, C), W))
              = Cardinality(Hits(cs, W)) + IF C \in W THEN 1 ELSE 0
<1> DEFINE n == Len(cs)
           ds == Append(cs, C)
           A == {k \in DOMAIN cs : cs[k] \in W}
           B == {k \in DOMAIN ds : ds[k] \in W}
<1>1. /\ n \in Nat /\ DOMAIN cs = 1 .. n /\ DOMAIN ds = 1 .. n + 1 /\ ds[n + 1] = C
      /\ \A k \in 1 .. n : ds[k] = cs[k]
  BY PushIs
<1>2. IsFiniteSet(1 .. n)
  BY <1>1, FS_Interval
<1>3. A \subseteq 1 .. n
  BY <1>1
<1>4. IsFiniteSet(A) /\ Cardinality(A) \in Nat
  BY <1>2, <1>3, FS_Subset, FS_CardinalityType
<1>5. n + 1 \notin A
  BY <1>1, <1>3
<1>6. B = IF C \in W THEN A \cup {n + 1} ELSE A
  <2>1. \A k : k \in 1 .. n + 1 <=> k \in 1 .. n \/ k = n + 1
    BY <1>1
  <2>2. n + 1 \notin 1 .. n
    BY <1>1
  <2>3. ASSUME NEW k PROVE k \in B <=> k \in A \/ (k = n + 1 /\ C \in W)
    <3> HIDE DEF n, ds
    <3> QED BY <1>1, <2>1, <2>2
  <2> HIDE DEF A, B, n
  <2> QED BY <2>3
<1>7. Cardinality(A \cup {n + 1}) = Cardinality(A) + 1
  <2> HIDE DEF A, n
  <2> QED BY <1>4, <1>5, FS_AddElement
<1>8. Cardinality(A) \in Nat /\ Cardinality(B) = Cardinality(A) + IF C \in W THEN 1 ELSE 0
  <2> HIDE DEF A, B
  <2>1. CASE C \in W
    BY <1>4, <1>6, <1>7, <2>1
  <2>2. CASE C \notin W
    BY <1>4, <1>6, <2>2
  <2> QED BY <2>1, <2>2
<1> QED BY <1>8 DEF Hits

Holders(cs, i) == {k \in DOMAIN cs : Holds(cs[k], i)}
Owners(cs) == {k \in DOMAIN cs : Owns(cs[k])}

LEMMA HoldersPush ==
    ASSUME NEW cs \in Seq(Caller), NEW C \in Caller, NEW i
    PROVE  /\ Cardinality(Holders(cs, i)) \in Nat
           /\ Cardinality(Holders(Append(cs, C), i))
              = Cardinality(Holders(cs, i)) + IF Holds(C, i) THEN 1 ELSE 0
<1> DEFINE W == {D \in Caller : Holds(D, i)}
<1>1. ASSUME NEW ds \in Seq(Caller) PROVE Holders(ds, i) = Hits(ds, W)
  <2>1. \A k \in DOMAIN ds : ds[k] \in Caller
    OBVIOUS
  <2> QED BY <2>1 DEF Holders, Hits
<1>2. Append(cs, C) \in Seq(Caller)
  OBVIOUS
<1>3. C \in W <=> Holds(C, i)
  OBVIOUS
<1> HIDE DEF W
<1>4. /\ Cardinality(Hits(cs, W)) \in Nat
      /\ Cardinality(Hits(Append(cs, C), W))
         = Cardinality(Hits(cs, W)) + IF C \in W THEN 1 ELSE 0
  BY CountOne
<1>5. Holders(cs, i) = Hits(cs, W)
  BY <1>1
<1>6. Holders(Append(cs, C), i) = Hits(Append(cs, C), W)
  BY <1>1, <1>2
<1> QED BY ONLY <1>3, <1>4, <1>5, <1>6

LEMMA OwnersPush ==
    ASSUME NEW cs \in Seq(Caller), NEW C \in Caller
    PROVE  /\ Cardinality(Owners(cs)) \in Nat
           /\ Cardinality(Owners(Append(cs, C)))
              = Cardinality(Owners(cs)) + IF Owns(C) THEN 1 ELSE 0
<1> DEFINE W == {D \in Caller : Owns(D)}
<1>1. ASSUME NEW ds \in Seq(Caller) PROVE Owners(ds) = Hits(ds, W)
  <2>1. \A k \in DOMAIN ds : ds[k] \in Caller
    OBVIOUS
  <2> QED BY <2>1 DEF Owners, Hits
<1>2. Append(cs, C) \in Seq(Caller)
  OBVIOUS
<1>3. C \in W <=> Owns(C)
  OBVIOUS
<1> HIDE DEF W
<1>4. /\ Cardinality(Hits(cs, W)) \in Nat
      /\ Cardinality(Hits(Append(cs, C), W))
         = Cardinality(Hits(cs, W)) + IF C \in W THEN 1 ELSE 0
  BY CountOne
<1>5. Owners(cs) = Hits(cs, W)
  BY <1>1
<1>6. Owners(Append(cs, C)) = Hits(Append(cs, C), W)
  BY <1>1, <1>2
<1> QED BY ONLY <1>3, <1>4, <1>5, <1>6

LEMMA KeepsPush ==
    ASSUME NEW cs \in Seq(Caller), NEW C \in Caller
    PROVE  /\ \A n \in 0 .. Len(cs) : KeepsUpTo(Append(cs, C), n) = KeepsUpTo(cs, n)
           /\ KeepsUpTo(Append(cs, C), Len(cs) + 1) = (KeepsUpTo(cs, Len(cs)) \/ Keeps(C))
<1> DEFINE N == Len(cs)
           ds == Append(cs, C)
<1>1. /\ N \in Nat /\ DOMAIN cs = 1 .. N /\ DOMAIN ds = 1 .. N + 1 /\ ds[N + 1] = C
      /\ \A k \in 1 .. N : ds[k] = cs[k]
  BY PushIs
<1>2. \A n \in 0 .. N : \A k \in 1 .. n : k \in 1 .. N
  BY <1>1
<1>3. \A k : k \in 1 .. N + 1 <=> k \in 1 .. N \/ k = N + 1
  BY <1>1
<1> HIDE DEF N, ds
<1>4. ASSUME NEW n \in 0 .. N PROVE KeepsUpTo(ds, n) <=> KeepsUpTo(cs, n)
  BY <1>1, <1>2 DEF KeepsUpTo
<1>5. KeepsUpTo(ds, N + 1) <=> (KeepsUpTo(cs, N) \/ Keeps(C))
  BY <1>1, <1>3 DEF KeepsUpTo
<1>6. \A n : KeepsUpTo(ds, n) \in BOOLEAN /\ KeepsUpTo(cs, n) \in BOOLEAN
  BY DEF KeepsUpTo
<1>7. (KeepsUpTo(cs, N) \/ Keeps(C)) \in BOOLEAN
  OBVIOUS
<1> QED BY <1>4, <1>5, <1>6, <1>7 DEF N, ds

LEMMA PushKeeps ==
    ASSUME NEW S, NEW T, NEW cs, NEW C \in Caller, NEW tame, Good(S, cs, tame),
           Suits(T, cs, tame), Bears(S, T, C), Fitting(cs, C, tame), CallerOK(T, C, tame)
    PROVE  Good(T, Append(cs, C), tame)
<1> DEFINE N == Len(cs)
           ds == Append(cs, C)
<1>1. cs \in Seq(Caller)
  BY DEF Good, StackOK
<1>2. /\ ds \in Seq(Caller) /\ N \in Nat /\ Len(ds) = N + 1 /\ DOMAIN cs = 1 .. N
      /\ DOMAIN ds = 1 .. N + 1 /\ ds[N + 1] = C /\ \A k \in 1 .. N : ds[k] = cs[k]
  BY <1>1, PushIs
<1>3. HoldOK(T, ds)
  <2>1. ASSUME NEW i \in DOMAIN S.instances
        PROVE  T.instances[i].busy = Cardinality(Holders(ds, i))
    <3>1. S.instances[i].busy = Cardinality(Holders(cs, i))
      BY DEF Good, HoldOK, Holders
    <3>2. T.instances[i].busy = S.instances[i].busy + IF Holds(C, i) THEN 1 ELSE 0
      BY DEF Bears
    <3>3. Cardinality(Holders(ds, i)) = Cardinality(Holders(cs, i)) + IF Holds(C, i) THEN 1 ELSE 0
      BY <1>1, HoldersPush
    <3> QED BY ONLY <3>1, <3>2, <3>3
  <2>2. DOMAIN T.instances = DOMAIN S.instances
    BY DEF Bears
  <2> HIDE DEF ds
  <2> QED BY <2>1, <2>2 DEF HoldOK, Holders
<1>4. FramesOK(T, ds)
  <2>1. Len(S.garbage) = Cardinality(Owners(cs)) + 1
    BY DEF Good, FramesOK, Owners
  <2>2. Len(T.garbage) = Len(S.garbage) + IF Owns(C) THEN 1 ELSE 0
    BY DEF Bears
  <2>3. /\ Cardinality(Owners(cs)) \in Nat
        /\ Cardinality(Owners(ds)) = Cardinality(Owners(cs)) + IF Owns(C) THEN 1 ELSE 0
    BY <1>1, OwnersPush
  <2>4. Len(T.garbage) = Cardinality(Owners(ds)) + 1
    <3>1. CASE Owns(C)
      BY ONLY <2>1, <2>2, <2>3, <3>1
    <3>2. CASE ~Owns(C)
      BY ONLY <2>1, <2>2, <2>3, <3>2
    <3> QED BY <3>1, <3>2
  <2> HIDE DEF ds
  <2> QED BY <2>4 DEF FramesOK, Owners
<1>5. MaintainOK(T, ds)
  <2>1. /\ S.maintain = KeepsUpTo(cs, N)
        /\ \A k \in DOMAIN cs : Keeps(cs[k]) => cs[k].maintain = KeepsUpTo(cs, k - 1)
    BY DEF Good, MaintainOK
  <2>2. /\ \A n \in 0 .. N : KeepsUpTo(ds, n) = KeepsUpTo(cs, n)
        /\ KeepsUpTo(ds, N + 1) = (KeepsUpTo(cs, N) \/ Keeps(C))
    BY <1>1, KeepsPush
  <2>3. T.maintain = (S.maintain \/ Keeps(C)) /\ (Keeps(C) => C.maintain = S.maintain)
    BY DEF Bears
  <2>4. T.maintain = KeepsUpTo(ds, N + 1)
    BY ONLY <2>1, <2>2, <2>3
  <2>5. \A k \in 1 .. N : Keeps(ds[k]) => ds[k].maintain = KeepsUpTo(ds, k - 1)
    <3>1. \A k \in 1 .. N : k - 1 \in 0 .. N
      BY <1>2
    <3> HIDE DEF N, ds
    <3> QED BY <1>2, <2>1, <2>2, <3>1
  <2>6. Keeps(C) => C.maintain = KeepsUpTo(ds, N)
    <3>1. N \in 0 .. N
      BY <1>2
    <3> HIDE DEF N, ds
    <3> QED BY <2>1, <2>2, <2>3, <3>1
  <2>7. ASSUME NEW k \in DOMAIN ds, Keeps(ds[k]) PROVE ds[k].maintain = KeepsUpTo(ds, k - 1)
    <3>1. k \in 1 .. N \/ (k = N + 1 /\ k - 1 = N)
      BY <1>2
    <3> HIDE DEF N, ds
    <3> QED BY <1>2, <2>5, <2>6, <2>7, <3>1
  <2>8. T.maintain = KeepsUpTo(ds, Len(ds))
    <3> HIDE DEF ds
    <3> QED BY <1>2, <2>4
  <2> HIDE DEF ds
  <2> QED BY <2>7, <2>8 DEF MaintainOK
<1>6. StackOK(T, ds, tame)
  <2>0. /\ \A j, k \in DOMAIN cs : j < k => Under(cs[j], cs[k], tame)
        /\ \A k \in 2 .. N : Calls(cs[k - 1], cs[k])
        /\ cs # << >> => ~(cs[1].kind = "message" /\ cs[1].phase = "init")
    BY DEF Good, StackOK
  <2>1. /\ \A k \in 1 .. N : Under(cs[k], C, tame)
        /\ N > 0 => Calls(cs[N], C)
        /\ N = 0 => ~(C.kind = "message" /\ C.phase = "init")
    <3>1. cs = << >> <=> N = 0
      BY <1>1
    <3>2. N > 0 => N # 0
      BY <1>2
    <3> QED BY <1>2, <3>1, <3>2 DEF Fitting
  <2>2. ASSUME NEW k \in DOMAIN ds PROVE CallerOK(T, ds[k], tame)
    <3>1. k \in 1 .. N \/ k = N + 1
      BY <1>2
    <3> HIDE DEF N, ds
    <3> QED BY <1>2, <3>1 DEF Suits
  <2>3. ASSUME NEW j \in DOMAIN ds, NEW k \in DOMAIN ds, j < k PROVE Under(ds[j], ds[k], tame)
    <3>1. j \in 1 .. N /\ (k \in 1 .. N \/ k = N + 1)
      BY <1>2, <2>3
    <3> HIDE DEF N, ds
    <3> QED BY <1>2, <2>0, <2>1, <2>3, <3>1
  <2>4. ASSUME NEW k \in 2 .. N + 1 PROVE Calls(ds[k - 1], ds[k])
    <3>1. /\ k - 1 \in 1 .. N /\ N > 0
          /\ (k \in 2 .. N /\ k \in 1 .. N) \/ (k = N + 1 /\ k - 1 = N)
      BY <1>2
    <3> HIDE DEF N, ds
    <3> QED BY <1>2, <2>0, <2>1, <3>1
  <2>5. ~(ds[1].kind = "message" /\ ds[1].phase = "init")
    <3>1. N = 0 \/ (1 \in 1 .. N /\ cs # << >>)
      BY <1>1, <1>2
    <3>2. N = 0 => N + 1 = 1
      BY <1>2
    <3> HIDE DEF N, ds
    <3> QED BY <1>2, <2>0, <2>1, <3>1, <3>2
  <2> HIDE DEF ds
  <2> QED BY <1>2, <2>2, <2>3, <2>4, <2>5 DEF StackOK
<1>7. StoreOK(T) /\ (tame => ~T.stray /\ UniqueNames(T))
  BY DEF Suits
<1> QED BY <1>3, <1>4, <1>5, <1>6, <1>7 DEF Good

LEMMA PopKeeps ==
    ASSUME NEW S, NEW T, NEW cs, cs # << >>, NEW tame, Good(S, cs, tame),
           Suits(T, Front(cs), tame), Sheds(S, T, Last(cs)), T \in Store, S \in Store
    PROVE  Good(T, Front(cs), tame)
<1> DEFINE N == Len(cs) - 1
           ds == Front(cs)
           C == Last(cs)
<1>1. cs \in Seq(Caller)
  BY DEF Good, StackOK
<1>2. /\ ds \in Seq(Caller) /\ C \in Caller /\ C = cs[N + 1] /\ cs = Append(ds, C)
      /\ N \in Nat /\ Len(cs) = N + 1 /\ Len(ds) = N /\ DOMAIN cs = 1 .. N + 1
      /\ DOMAIN ds = 1 .. N /\ \A k \in 1 .. N : ds[k] = cs[k]
  <2>1. /\ Front(cs) \in Seq(Caller) /\ Last(cs) \in Caller /\ Last(cs) = cs[Len(cs)]
        /\ cs = Append(Front(cs), Last(cs)) /\ Len(cs) \in Nat /\ Len(cs) > 0
        /\ Len(Front(cs)) = Len(cs) - 1 /\ DOMAIN cs = 1 .. Len(cs)
        /\ DOMAIN Front(cs) = 1 .. Len(cs) - 1
        /\ \A k \in 1 .. Len(cs) - 1 : Front(cs)[k] = cs[k]
    BY <1>1, PopIs
  <2>2. Len(cs) = N + 1 /\ N \in Nat
    BY <2>1
  <2> QED BY <2>1, <2>2
<1> HIDE DEF N, ds, C
<1>3. HoldOK(T, ds)
  <2>1. ASSUME NEW i \in DOMAIN S.instances
        PROVE  T.instances[i].busy = Cardinality(Holders(ds, i))
    <3>1. S.instances[i].busy = Cardinality(Holders(cs, i))
      BY DEF Good, HoldOK, Holders
    <3>2. S.instances[i].busy = T.instances[i].busy + IF Holds(C, i) THEN 1 ELSE 0
      BY DEF Sheds, C
    <3>3. /\ Cardinality(Holders(ds, i)) \in Nat
          /\ Cardinality(Holders(cs, i)) = Cardinality(Holders(ds, i)) + IF Holds(C, i) THEN 1 ELSE 0
      BY <1>2, HoldersPush
    <3>4. T.instances[i].busy \in Nat
      BY StoreFields DEF Sheds
    <3> DEFINE a == T.instances[i].busy
               b == Cardinality(Holders(ds, i))
               d == IF Holds(C, i) THEN 1 ELSE 0
    <3>5. a \in Nat /\ b \in Nat /\ d \in {0, 1} /\ a + d = b + d
      BY <3>1, <3>2, <3>3, <3>4
    <3>6. a = b
      <4> HIDE DEF a, b, d
      <4> QED BY <3>5
    <3> QED BY <3>6
  <2>2. DOMAIN T.instances = DOMAIN S.instances
    BY DEF Sheds
  <2> QED BY <2>1, <2>2 DEF HoldOK, Holders
<1>4. FramesOK(T, ds)
  <2>1. Len(S.garbage) = Cardinality(Owners(cs)) + 1
    BY DEF Good, FramesOK, Owners
  <2>2. Len(S.garbage) = Len(T.garbage) + IF Owns(C) THEN 1 ELSE 0
    BY DEF Sheds, C
  <2>3. /\ Cardinality(Owners(ds)) \in Nat
        /\ Cardinality(Owners(cs)) = Cardinality(Owners(ds)) + IF Owns(C) THEN 1 ELSE 0
    BY <1>2, OwnersPush
  <2>4. Len(T.garbage) \in Nat
    BY StoreFields
  <2>5. Len(T.garbage) = Cardinality(Owners(ds)) + 1
    <3>1. CASE Owns(C)
      BY ONLY <2>1, <2>2, <2>3, <2>4, <3>1
    <3>2. CASE ~Owns(C)
      BY ONLY <2>1, <2>2, <2>3, <2>4, <3>2
    <3> QED BY <3>1, <3>2
  <2> QED BY <2>5 DEF FramesOK, Owners
<1>5. MaintainOK(T, ds)
  <2>1. /\ S.maintain = KeepsUpTo(cs, N + 1)
        /\ \A k \in DOMAIN cs : Keeps(cs[k]) => cs[k].maintain = KeepsUpTo(cs, k - 1)
    BY <1>2 DEF Good, MaintainOK
  <2>2. /\ \A n \in 0 .. N : KeepsUpTo(cs, n) = KeepsUpTo(ds, n)
        /\ KeepsUpTo(cs, N + 1) = (KeepsUpTo(ds, N) \/ Keeps(C))
    BY <1>2, KeepsPush
  <2>3. T.maintain = IF Keeps(C) THEN C.maintain ELSE S.maintain
    BY DEF Sheds, C
  <2>4. T.maintain = KeepsUpTo(ds, N)
    <3>1. N \in 0 .. N /\ N + 1 \in 1 .. N + 1 /\ (N + 1) - 1 = N
      BY <1>2
    <3>2. KeepsUpTo(ds, N) \in BOOLEAN
      BY DEF KeepsUpTo
    <3>3. CASE Keeps(C)
      BY <1>2, <2>1, <2>2, <2>3, <3>1, <3>3
    <3>4. CASE ~Keeps(C)
      BY <2>1, <2>2, <2>3, <3>2, <3>4
    <3> QED BY <3>3, <3>4
  <2>5. ASSUME NEW k \in DOMAIN ds, Keeps(ds[k]) PROVE ds[k].maintain = KeepsUpTo(ds, k - 1)
    <3>1. k - 1 \in 0 .. N /\ k \in 1 .. N + 1 /\ k \in 1 .. N
      BY <1>2
    <3> QED BY <1>2, <2>1, <2>2, <2>5, <3>1
  <2> QED BY <1>2, <2>4, <2>5 DEF MaintainOK
<1>6. StackOK(T, ds, tame)
  <2>0. /\ \A j, k \in DOMAIN cs : j < k => Under(cs[j], cs[k], tame)
        /\ \A k \in 2 .. N + 1 : Calls(cs[k - 1], cs[k])
        /\ ~(cs[1].kind = "message" /\ cs[1].phase = "init")
    BY <1>2 DEF Good, StackOK
  <2>1. \A k \in DOMAIN ds : CallerOK(T, ds[k], tame)
    BY DEF Suits, ds
  <2>2. \A k \in 1 .. N : k \in 1 .. N + 1
    BY <1>2
  <2>3. \A j, k \in DOMAIN ds : j < k => Under(ds[j], ds[k], tame)
    BY <1>2, <2>0, <2>2
  <2>4. \A k \in 2 .. N : k \in 2 .. N + 1 /\ k \in 1 .. N /\ k - 1 \in 1 .. N
    BY <1>2
  <2>5. \A k \in 2 .. Len(ds) : Calls(ds[k - 1], ds[k])
    BY <1>2, <2>0, <2>4
  <2>6. ds # << >> => ~(ds[1].kind = "message" /\ ds[1].phase = "init")
    <3>1. ds # << >> => 1 \in 1 .. N
      BY <1>2
    <3> QED BY <1>2, <2>0, <3>1
  <2> QED BY <1>2, <2>1, <2>3, <2>5, <2>6 DEF StackOK
<1>7. StoreOK(T) /\ (tame => ~T.stray /\ UniqueNames(T))
  BY DEF Suits
<1> QED BY <1>3, <1>4, <1>5, <1>6, <1>7 DEF Good, ds
-----------------------------------------------------------------------------
(* Steps that leave the calls alone.                                       *)

LEMMA CallersAre ==
    ASSUME NEW S, NEW cs, NEW tame, StackOK(S, cs, tame), NEW k \in DOMAIN cs
    PROVE  cs[k] \in Caller /\ CallerOK(S, cs[k], tame)
BY DEF StackOK

LEMMA StayKeeps ==
    ASSUME NEW S, NEW T, NEW cs, NEW tame, Good(S, cs, tame), Suits(T, cs, tame),
           DOMAIN T.instances = DOMAIN S.instances,
           \A i \in DOMAIN S.instances : T.instances[i].busy = S.instances[i].busy,
           Len(T.garbage) = Len(S.garbage), T.maintain = S.maintain
    PROVE  Good(T, cs, tame)
<1>1. HoldOK(T, cs)
  BY DEF Good, HoldOK
<1>2. FramesOK(T, cs)
  BY DEF Good, FramesOK
<1>3. MaintainOK(T, cs)
  BY DEF Good, MaintainOK
<1>4. StackOK(T, cs, tame)
  BY DEF Good, StackOK, Suits
<1> QED BY <1>1, <1>2, <1>3, <1>4 DEF Good, Suits

\* Nobody holds an instance that was not made yet.
LEMMA NoneHolds ==
    ASSUME NEW S, NEW C \in Caller, NEW tame, CallerOK(S, C, tame), NEW i, i \notin DOMAIN S.instances
    PROVE  ~Holds(C, i)
BY DEF Holds, CallerOK

LEMMA GrowKeeps ==
    ASSUME NEW S, NEW T, NEW cs, NEW tame, Good(S, cs, tame), Suits(T, cs, tame),
           NEW name \in InstanceName, Grown(S, T, name)
    PROVE  Good(T, cs, tame)
<1>0. StoreOK(S) /\ StackOK(S, cs, tame)
  BY DEF Good
<1>1. HoldOK(T, cs)
  <2> DEFINE n == Len(S.instances) + 1
  <2>1. /\ DOMAIN T.instances = DOMAIN S.instances \cup {n} /\ n \notin DOMAIN S.instances
        /\ T.instances[n] = Fresh(name)
        /\ \A j \in DOMAIN S.instances : T.instances[j] = S.instances[j]
    BY <1>0, GrownMeans
  <2> HIDE DEF n
  <2>2. ASSUME NEW k \in DOMAIN cs PROVE ~Holds(cs[k], n)
    BY <1>0, <2>1, CallersAre, NoneHolds
  <2>3. {k \in DOMAIN cs : Holds(cs[k], n)} = {}
    BY <2>2
  <2>4. T.instances[n].busy = Cardinality({k \in DOMAIN cs : Holds(cs[k], n)})
    <3>1. T.instances[n].busy = 0
      BY <2>1, FreshIs
    <3> QED BY <2>3, <3>1, FS_EmptySet
  <2>5. \A i \in DOMAIN S.instances :
           T.instances[i].busy = Cardinality({k \in DOMAIN cs : Holds(cs[k], i)})
    BY <2>1 DEF Good, HoldOK
  <2> QED BY <2>1, <2>4, <2>5 DEF HoldOK
<1>2. FramesOK(T, cs)
  BY DEF Good, FramesOK, Grown
<1>3. MaintainOK(T, cs)
  BY DEF Good, MaintainOK, Grown
<1>4. StackOK(T, cs, tame)
  BY DEF Good, StackOK, Suits
<1> QED BY <1>1, <1>2, <1>3, <1>4 DEF Good, Suits

\* What serves all calls that do not keep garbage.
LEMMA KeepingMeans ==
    ASSUME NEW S, NEW cs, NEW tame, Good(S, cs, tame), NEW k \in DOMAIN cs, cs[k].kind = "all"
    PROVE  S.maintain
<1>1. cs \in Seq(Caller) /\ S.maintain = KeepsUpTo(cs, Len(cs))
  BY DEF Good, StackOK, MaintainOK
<1>2. DOMAIN cs = 1 .. Len(cs)
  BY <1>1
<1> QED BY <1>1, <1>2 DEF KeepsUpTo, Keeps

\* And for the calls below one that keeps it, what it comes back to.
LEMMA KeepingBelow ==
    ASSUME NEW S, NEW cs, NEW tame, Good(S, cs, tame), cs # << >>,
           NEW k \in DOMAIN Front(cs), Front(cs)[k].kind = "all"
    PROVE  /\ S.maintain
           /\ Keeps(Last(cs)) => Last(cs).maintain
<1>1. cs \in Seq(Caller)
  BY DEF Good, StackOK
<1>2. /\ Last(cs) = cs[Len(cs)] /\ Len(cs) \in Nat /\ Len(cs) > 0 /\ DOMAIN cs = 1 .. Len(cs)
      /\ DOMAIN Front(cs) = 1 .. Len(cs) - 1
      /\ \A j \in 1 .. Len(cs) - 1 : Front(cs)[j] = cs[j]
  BY <1>1, PopIs
<1>3. k \in 1 .. Len(cs) - 1 /\ k \in 1 .. Len(cs) /\ Len(cs) \in DOMAIN cs
  BY <1>2
<1>4. cs[k].kind = "all"
  BY <1>2, <1>3
<1>5. S.maintain
  BY <1>2, <1>3, <1>4, KeepingMeans
<1>6. ASSUME Keeps(Last(cs)) PROVE Last(cs).maintain
  <2>1. Last(cs).maintain = KeepsUpTo(cs, Len(cs) - 1)
    BY <1>2, <1>3, <1>6 DEF Good, MaintainOK
  <2>2. KeepsUpTo(cs, Len(cs) - 1)
    BY <1>3, <1>4 DEF KeepsUpTo, Keeps
  <2> QED BY <2>1, <2>2
<1> QED BY <1>5, <1>6

Kept(T, cs) == \A k \in DOMAIN cs : cs[k].kind = "all" => T.maintain

\* What frees, touches or deletes instances suits the calls it suited.
LEMMA FreeingSuits ==
    ASSUME NEW S, NEW T, NEW cs, NEW tame, Suits(S, cs, tame), StoreOK(T), Freeing(S, T),
           Kept(T, cs)
    PROVE  Suits(T, cs, tame)
<1>1. \A k \in DOMAIN cs : CallerOK(T, cs[k], tame)
  BY FreeingServes DEF Suits, Kept
<1>2. UniqueNames(S) => UniqueNames(T)
  <2>1. /\ DOMAIN T.instances = DOMAIN S.instances
        /\ \A i \in DOMAIN S.instances : /\ T.instances[i].name = S.instances[i].name
                                         /\ Is(T, i, "live") <=> Is(S, i, "live")
    BY FreeingMeans DEF Freeing
  <2> QED BY <2>1 DEF UniqueNames
<1> QED BY <1>1, <1>2 DEF Suits, Freeing

LEMMA TouchSuits ==
    ASSUME NEW S, NEW T, NEW cs, NEW tame, Suits(S, cs, tame), StoreOK(T),
           NEW i \in DOMAIN S.instances, NEW J, Touched(S, T, i, J),
           \A k \in DOMAIN cs : cs[k].phase = "initialized" /\ cs[k].id = i => ~J.installed
    PROVE  Suits(T, cs, tame)
<1>1. \A k \in DOMAIN cs : CallerOK(T, cs[k], tame)
  BY TouchServes DEF Suits
<1>2. UniqueNames(S) => UniqueNames(T)
  <2>1. /\ DOMAIN T.instances = DOMAIN S.instances
        /\ \A j \in DOMAIN S.instances : T.instances[j].name = S.instances[j].name
        /\ \A j : Is(T, j, "live") <=> Is(S, j, "live")
    BY AlikeIs DEF Touched, Alike
  <2> QED BY <2>1 DEF UniqueNames
<1>3. T.stray = S.stray
  BY DEF Touched, Alike
<1> QED BY <1>1, <1>2, <1>3 DEF Suits

LEMMA GoodSuits ==
    ASSUME NEW S, NEW cs, NEW tame, Good(S, cs, tame)
    PROVE  Suits(S, cs, tame)
BY DEF Good, Suits, StackOK

LEMMA BelowSuits ==
    ASSUME NEW S, NEW cs, NEW tame, Good(S, cs, tame), cs # << >>
    PROVE  Suits(S, Front(cs), tame)
<1>1. cs \in Seq(Caller)
  BY DEF Good, StackOK
<1>2. /\ DOMAIN cs = 1 .. Len(cs) /\ DOMAIN Front(cs) = 1 .. Len(cs) - 1 /\ Len(cs) \in Nat
      /\ \A j \in 1 .. Len(cs) - 1 : Front(cs)[j] = cs[j]
  BY <1>1, PopIs
<1>3. \A j \in DOMAIN Front(cs) : j \in DOMAIN cs /\ Front(cs)[j] = cs[j]
  BY <1>2
<1> QED BY <1>3 DEF Good, Suits, StackOK

\* A command that cleans up.
LEMMA CleanKeeps ==
    ASSUME NEW S, NEW cs, NEW tame, Good(S, cs, tame)
    PROVE  Good(CleanupInstances(S), cs, tame)
<1> DEFINE T == CleanupInstances(S)
<1>1. StoreOK(T) /\ Freeing(S, T) /\ T.maintain = S.maintain /\ Len(T.garbage) = Len(S.garbage)
  BY CleanupIs DEF Good
<1> HIDE DEF T
<1>2. Kept(T, cs)
  BY <1>1, KeepingMeans DEF Kept
<1>3. Suits(T, cs, tame)
  BY <1>1, <1>2, GoodSuits, FreeingSuits
<1>4. /\ DOMAIN T.instances = DOMAIN S.instances
      /\ \A i \in DOMAIN S.instances : T.instances[i].busy = S.instances[i].busy
  BY <1>1, FreeingMeans DEF Freeing
<1>5. Good(T, cs, tame)
  BY <1>1, <1>3, <1>4, StayKeeps
<1> QED BY <1>5 DEF T
-----------------------------------------------------------------------------
(* Instances that are deleted, messages, and calls that keep garbage.      *)

\* Whoever deletes i does not do it under one who relies on it.
Spared(cs, i, tame) ==
    tame => \A k \in DOMAIN cs : /\ cs[k].phase = "created" => cs[k].id # i
                                 /\ cs[k].phase = "replaced" => cs[k].prev # i

LEMMA QuashSuits ==
    ASSUME NEW S, NEW cs \in Seq(Caller), NEW tame, Suits(S, cs, tame),
           NEW i \in DOMAIN S.instances, MayQuash(S, i), NEW T, T = QuashInstance(S, i),
           \A k \in DOMAIN cs : cs[k].kind = "all" => S.maintain, Spared(cs, i, tame)
    PROVE  Suits(T, cs, tame)
<1>0. StoreOK(S)
  BY DEF Suits
<1>1. Quashed(S, T, i) /\ StoreOK(T)
  BY <1>0, QuashFields, QuashKeeps
<1>2. ASSUME NEW k \in DOMAIN cs PROVE CallerOK(T, cs[k], tame)
  <2>1. cs[k] \in Caller /\ CallerOK(S, cs[k], tame)
    BY DEF Suits
  <2>2. (cs[k].kind = "all" => S.maintain)
        /\ (tame => /\ cs[k].phase = "created" => cs[k].id # i
                    /\ cs[k].phase = "replaced" => cs[k].prev # i)
    BY DEF Spared
  <2> QED BY <1>0, <1>1, <2>1, <2>2, QuashServes
<1>3. UniqueNames(S) => UniqueNames(T)
  <2>1. Is(S, i, "live")
    BY DEF MayQuash, Is, Instance
  <2>2. /\ DOMAIN T.instances = DOMAIN S.instances
        /\ \A j \in DOMAIN S.instances : /\ T.instances[j].name = S.instances[j].name
                                         /\ Is(T, j, "live") => Is(S, j, "live")
    BY <1>0, <1>1, <2>1, QuashedMeans DEF Quashed
  <2> QED BY <2>2 DEF UniqueNames
<1>4. T.stray = S.stray
  BY <1>1 DEF Quashed
<1> QED BY <1>1, <1>2, <1>3, <1>4 DEF Suits

LEMMA QuashStays ==
    ASSUME NEW S, NEW cs, NEW tame, Good(S, cs, tame), NEW i \in DOMAIN S.instances,
           MayQuash(S, i) => Spared(cs, i, tame)
    PROVE  Good(QuashInstance(S, i), cs, tame)
<1> DEFINE T == QuashInstance(S, i)
<1>0. StoreOK(S) /\ cs \in Seq(Caller)
  BY DEF Good, StackOK
<1>1. CASE ~MayQuash(S, i)
  <2>1. T = S
    BY <1>1 DEF QuashInstance
  <2> QED BY <2>1
<1>2. CASE MayQuash(S, i)
  <2>1. Quashed(S, T, i)
    BY <1>0, <1>2, QuashFields
  <2>2. Suits(T, cs, tame)
    BY <1>0, <1>2, GoodSuits, KeepingMeans, QuashSuits
  <2>3. Is(S, i, "live")
    BY <1>2 DEF MayQuash, Is, Instance
  <2> HIDE DEF T
  <2>4. /\ DOMAIN T.instances = DOMAIN S.instances
        /\ \A j \in DOMAIN S.instances : T.instances[j].busy = S.instances[j].busy
        /\ Len(T.garbage) = Len(S.garbage) /\ T.maintain = S.maintain
    BY <1>0, <2>1, <2>3, QuashedMeans DEF Quashed
  <2>5. Good(T, cs, tame)
    BY <2>2, <2>4, StayKeeps
  <2> QED BY <2>5 DEF T
<1> QED BY <1>1, <1>2

Messages3 == {"create", "delete", "init"}

LEMMA MessageGoes ==
    ASSUME NEW S, NEW cs, NEW tame, Good(S, cs, tame), NEW i \in DOMAIN S.instances,
           ~Is(S, i, "freed"), NEW C \in Caller, C.kind = "message", C.phase \in Messages3, C.id = i,
           Fitting(cs, C, tame)
    PROVE  Good(Hold(GCBlockStart(S), i, 1), Append(cs, C), tame)
<1> DEFINE B == GCBlockStart(S)
           T == Hold(B, i, 1)
<1>0. StoreOK(S) /\ cs \in Seq(Caller)
  BY DEF Good, StackOK
<1>1. /\ StoreOK(B) /\ Freeing(S, B) /\ B.instances = S.instances /\ B.maintain = S.maintain
      /\ Len(B.garbage) = Len(S.garbage) + 1
  BY <1>0, BlockStartIs
<1> HIDE DEF B
<1>2. /\ StoreOK(T) /\ Touched(B, T, i, [B.instances[i] EXCEPT !.busy = @ + 1])
  <2>1. B.instances[i].busy \in Nat
    BY <1>1, StoreFields DEF StoreOK
  <2>2. B.instances[i].busy + 1 \in Nat
    BY <2>1
  <2>3. i \in DOMAIN B.instances /\ ~Is(B, i, "freed")
    BY <1>1 DEF Is
  <2> QED BY <1>1, <2>2, <2>3, HoldIs
<1>3. Suits(B, cs, tame)
  <2>1. Kept(B, cs)
    BY <1>1, KeepingMeans DEF Kept
  <2> QED BY <1>1, <2>1, GoodSuits, FreeingSuits
<1> DEFINE J == [B.instances[i] EXCEPT !.busy = @ + 1]
<1>4. J.installed = S.instances[i].installed /\ J.busy = S.instances[i].busy + 1
  <2>1. S.instances[i] \in InstanceRecord
    BY <1>0, StoreFields DEF StoreOK
  <2> QED BY <1>1, <2>1 DEF InstanceRecord
<1>5. \A k \in DOMAIN cs : cs[k].phase = "initialized" /\ cs[k].id = i => ~J.installed
  BY <1>4, CallersAre DEF Good, CallerOK
<1> HIDE DEF T, J
<1>6. Touched(B, T, i, J)
  BY <1>2 DEF J
<1>7. i \in DOMAIN B.instances
  BY <1>1
<1>8. Suits(T, cs, tame)
  BY <1>2, <1>3, <1>5, <1>6, <1>7, TouchSuits
<1>9. Bears(S, T, C)
  <2>1. Owns(C) /\ ~Keeps(C) /\ \A j : Holds(C, j) <=> j = i
    BY DEF Owns, Keeps, Holds, Messages3
  <2>2. /\ DOMAIN T.instances = DOMAIN S.instances /\ T.instances[i] = J
        /\ \A j \in DOMAIN S.instances : j # i => T.instances[j] = S.instances[j]
        /\ T.garbage = B.garbage /\ T.maintain = S.maintain
    BY <1>1, <1>6 DEF Touched, Alike
  <2>3. ASSUME NEW j \in DOMAIN S.instances
        PROVE  T.instances[j].busy = S.instances[j].busy + IF Holds(C, j) THEN 1 ELSE 0
    <3>1. S.instances[j].busy \in Nat
      BY <1>0, StoreFields DEF StoreOK
    <3>2. CASE j = i
      BY <1>4, <2>1, <2>2, <3>2
    <3>3. CASE j # i
      BY <2>1, <2>2, <3>1, <3>3
    <3> QED BY <3>2, <3>3
  <2>4. (T.maintain = (S.maintain \/ Keeps(C))) /\ (Keeps(C) => C.maintain = S.maintain)
    BY <1>0, <2>1, <2>2, StoreFields DEF StoreOK
  <2> QED BY <1>1, <2>1, <2>2, <2>3, <2>4 DEF Bears
<1>10. CallerOK(T, C, tame)
  <2>1. /\ ~Keeps(C) /\ i \in DOMAIN T.instances
        /\ C.phase \notin {"created", "initialized", "replaced"}
    BY <1>6, <1>7 DEF Touched, Alike, Keeps, Messages3
  <2> QED BY <2>1 DEF CallerOK, Messages3
<1>11. Good(T, Append(cs, C), tame)
  BY <1>8, <1>9, <1>10, PushKeeps
<1> QED BY <1>11 DEF T, B

LEMMA Between ==
    ASSUME NEW S, NEW cs, NEW tame, Good(S, cs, tame), cs # << >>, Owns(Last(cs))
    PROVE  Len(S.garbage) > 1
<1>1. cs \in Seq(Caller) /\ Len(S.garbage) = Cardinality(Owners(cs)) + 1
  BY DEF Good, StackOK, FramesOK, Owners
<1>2. Front(cs) \in Seq(Caller) /\ Last(cs) \in Caller /\ cs = Append(Front(cs), Last(cs))
  BY <1>1, PopIs
<1>3. Cardinality(Owners(Front(cs))) \in Nat
      /\ Cardinality(Owners(cs)) = Cardinality(Owners(Front(cs))) + 1
  <2>1. /\ Cardinality(Owners(Front(cs))) \in Nat
        /\ Cardinality(Owners(Append(Front(cs), Last(cs))))
           = Cardinality(Owners(Front(cs))) + IF Owns(Last(cs)) THEN 1 ELSE 0
    BY <1>2, OwnersPush
  <2> QED BY <1>2, <2>1
<1> QED BY <1>1, <1>3

LEMMA Held ==
    ASSUME NEW S, NEW cs, NEW tame, Good(S, cs, tame), cs # << >>, NEW i \in DOMAIN S.instances,
           Holds(Last(cs), i)
    PROVE  S.instances[i].busy \in Nat /\ S.instances[i].busy > 0 /\ ~Is(S, i, "freed")
<1>1. cs \in Seq(Caller) /\ S.instances[i].busy = Cardinality(Holders(cs, i)) /\ StoreOK(S)
  BY DEF Good, StackOK, HoldOK, Holders
<1>2. Front(cs) \in Seq(Caller) /\ Last(cs) \in Caller /\ cs = Append(Front(cs), Last(cs))
  BY <1>1, PopIs
<1>3. Cardinality(Holders(Front(cs), i)) \in Nat
      /\ Cardinality(Holders(cs, i)) = Cardinality(Holders(Front(cs), i)) + 1
  <2>1. /\ Cardinality(Holders(Front(cs), i)) \in Nat
        /\ Cardinality(Holders(Append(Front(cs), Last(cs)), i))
           = Cardinality(Holders(Front(cs), i)) + IF Holds(Last(cs), i) THEN 1 ELSE 0
    BY <1>2, HoldersPush
  <2> QED BY <1>2, <2>1
<1>4. S.instances[i].busy \in Nat /\ S.instances[i].busy > 0
  BY <1>1, <1>3
<1>5. Is(S, i, "freed") => S.instances[i].busy = 0
  BY <1>1 DEF StoreOK, StatesOK
<1> QED BY <1>4, <1>5

\* Calls that end.
LEMMA MessageEnds ==
    ASSUME NEW S, NEW cs, NEW tame, Good(S, cs, tame), cs # << >>, Last(cs).kind = "message"
    PROVE  Good(GCBlockEnd(Hold(S, Last(cs).id, -1)), Front(cs), tame)
<1> DEFINE C == Last(cs)
           i == C.id
           B == Hold(S, i, -1)
           T == GCBlockEnd(B)
           J == [S.instances[i] EXCEPT !.busy = @ + -1]
<1>1. StoreOK(S) /\ cs \in Seq(Caller)
  BY DEF Good, StackOK
<1>2. C \in Caller /\ CallerOK(S, C, tame)
  <2>1. C = cs[Len(cs)] /\ Len(cs) \in DOMAIN cs
    BY <1>1, PopIs
  <2> QED BY <2>1, CallersAre DEF Good
<1>3. /\ i \in DOMAIN S.instances /\ Holds(C, i) /\ Owns(C) /\ ~Keeps(C)
      /\ \A j : Holds(C, j) <=> j = i
  BY <1>2 DEF CallerOK, Holds, Owns, Keeps
<1>4. S.instances[i].busy \in Nat /\ S.instances[i].busy > 0 /\ ~Is(S, i, "freed")
  BY <1>3, Held
<1>5. StoreOK(B) /\ Touched(S, B, i, J)
  <2>1. S.instances[i].busy + -1 \in Nat
    BY <1>4
  <2> HIDE DEF i
  <2> QED BY <1>1, <1>3, <1>4, <2>1, HoldIs
<1>6. J.installed = S.instances[i].installed /\ J.busy + 1 = S.instances[i].busy
  <2>1. S.instances[i] \in InstanceRecord
    BY <1>1, <1>3, StoreFields DEF StoreOK
  <2>2. J.installed = S.instances[i].installed /\ J.busy = S.instances[i].busy + -1
    BY <2>1 DEF InstanceRecord
  <2> QED BY <1>4, <2>2
<1> HIDE DEF B, J
<1>7. B.garbage = S.garbage /\ B.maintain = S.maintain /\ DOMAIN B.instances = DOMAIN S.instances
      /\ \A j \in DOMAIN S.instances : B.instances[j].busy + (IF j = i THEN 1 ELSE 0) = S.instances[j].busy
  <2>1. ASSUME NEW j \in DOMAIN S.instances
        PROVE  B.instances[j].busy + (IF j = i THEN 1 ELSE 0) = S.instances[j].busy
    <3>1. S.instances[j].busy \in Nat
      BY <1>1, StoreFields DEF StoreOK
    <3>2. CASE j = i
      BY <1>5, <1>6, <3>2 DEF Touched
    <3>3. CASE j # i
      BY <1>5, <3>1, <3>3 DEF Touched
    <3> QED BY <3>2, <3>3
  <2> QED BY <1>5, <2>1 DEF Touched, Alike
<1>8. Len(S.garbage) > 1
  BY <1>3, Between
<1>9. /\ StoreOK(T) /\ Freeing(B, T) /\ T.maintain = S.maintain /\ Len(T.garbage) = Len(S.garbage) - 1
  BY <1>5, <1>7, <1>8, BlockEndIs
<1> HIDE DEF T
<1>10. Suits(B, Front(cs), tame)
  <2>1. \A k \in DOMAIN Front(cs) :
           Front(cs)[k].phase = "initialized" /\ Front(cs)[k].id = i => ~J.installed
    BY <1>6, BelowSuits DEF Suits, CallerOK
  <2> HIDE DEF i
  <2> QED BY <1>3, <1>5, <2>1, BelowSuits, TouchSuits
<1>11. Suits(T, Front(cs), tame)
  <2>1. Kept(T, Front(cs))
    BY <1>9, KeepingBelow DEF Kept
  <2>2. StoreOK(T) /\ Freeing(B, T)
    BY <1>5, <1>9
  <2> HIDE DEF C, i
  <2> QED BY <1>10, <2>1, <2>2, FreeingSuits
<1>12. Sheds(S, T, C)
  <2>1. /\ DOMAIN T.instances = DOMAIN S.instances
        /\ \A j \in DOMAIN S.instances : T.instances[j].busy = B.instances[j].busy
    <3>1. Freeing(B, T) /\ StoreOK(B) /\ DOMAIN B.instances = DOMAIN S.instances
      BY <1>5, <1>7, <1>9
    <3>2. DOMAIN T.instances = DOMAIN B.instances
      BY <3>1 DEF Freeing
    <3>3. \A j \in DOMAIN B.instances : T.instances[j].busy = B.instances[j].busy
      BY <3>1, FreeingMeans
    <3> QED BY ONLY <3>1, <3>2, <3>3
  <2>2. ASSUME NEW j \in DOMAIN S.instances
        PROVE  S.instances[j].busy = T.instances[j].busy + IF Holds(C, j) THEN 1 ELSE 0
    BY <1>3, <1>7, <2>1
  <2>3. Len(S.garbage) = Len(T.garbage) + IF Owns(C) THEN 1 ELSE 0
    <3>1. Len(S.garbage) \in Nat
      BY <1>1, StoreFields DEF StoreOK
    <3> QED BY <1>3, <1>9, <3>1
  <2> QED BY <1>3, <1>9, <2>1, <2>2, <2>3 DEF Sheds
<1>13. S \in Store /\ T \in Store
  BY <1>1, <1>9 DEF StoreOK
<1>14. Good(T, Front(cs), tame)
  BY <1>11, <1>12, <1>13, PopKeeps
<1> QED BY <1>14 DEF T, B

LEMMA KeeperEnds ==
    ASSUME NEW S, NEW cs, NEW tame, Good(S, cs, tame), cs # << >>, Keeps(Last(cs))
    PROVE  Good(Released(S, Last(cs).maintain), Front(cs), tame)
<1> DEFINE C == Last(cs)
           T == Released(S, C.maintain)
<1>1. StoreOK(S) /\ cs \in Seq(Caller)
  BY DEF Good, StackOK
<1>2. C \in Caller /\ CallerOK(S, C, tame)
  <2>1. C = cs[Len(cs)] /\ Len(cs) \in DOMAIN cs
    BY <1>1, PopIs
  <2> QED BY <2>1, CallersAre DEF Good
<1>3. C.maintain \in BOOLEAN /\ Owns(C) /\ \A j : ~Holds(C, j)
  BY <1>2 DEF Caller, Owns, Keeps, Holds, CallerOK
<1>4. Len(S.garbage) > 1
  BY <1>3, Between
<1>5. /\ StoreOK(T) /\ Freeing(S, T) /\ T.maintain = C.maintain
      /\ Len(T.garbage) = Len(S.garbage) - 1
  BY <1>1, <1>3, <1>4, ReleasedIs
<1> HIDE DEF T
<1>6. Suits(T, Front(cs), tame)
  <2>1. Kept(T, Front(cs))
    BY <1>5, KeepingBelow DEF Kept
  <2> QED BY <1>5, <2>1, BelowSuits, FreeingSuits
<1>7. Sheds(S, T, C)
  <2>1. /\ DOMAIN T.instances = DOMAIN S.instances
        /\ \A j \in DOMAIN S.instances : T.instances[j].busy = S.instances[j].busy
    BY <1>5, FreeingMeans DEF Freeing
  <2>2. ASSUME NEW j \in DOMAIN S.instances
        PROVE  S.instances[j].busy = T.instances[j].busy + IF Holds(C, j) THEN 1 ELSE 0
    <3>1. S.instances[j].busy \in Nat
      BY <1>1, StoreFields DEF StoreOK
    <3> QED BY <1>3, <2>1, <3>1
  <2>3. Len(S.garbage) = Len(T.garbage) + IF Owns(C) THEN 1 ELSE 0
    <3>1. Len(S.garbage) \in Nat
      BY <1>1, StoreFields DEF StoreOK
    <3> QED BY <1>3, <1>5, <3>1
  <2> QED BY <1>5, <2>1, <2>2, <2>3 DEF Sheds
<1>8. S \in Store /\ T \in Store
  BY <1>1, <1>5 DEF StoreOK
<1>9. Good(T, Front(cs), tame)
  BY <1>6, <1>7, <1>8, PopKeeps
<1> QED BY <1>9 DEF T

LEMMA KeeperStarts ==
    ASSUME NEW S, NEW cs, NEW tame, Good(S, cs, tame), NEW C \in Caller, Keeps(C),
           \A j : ~Holds(C, j), C.maintain = S.maintain, Fitting(cs, C, tame),
           CallerOK(Maintained(S), C, tame)
    PROVE  Good(Maintained(S), Append(cs, C), tame)
<1> DEFINE T == Maintained(S)
<1>1. StoreOK(S)
  BY DEF Good
<1>2. /\ StoreOK(T) /\ Freeing(S, T) /\ T.instances = S.instances /\ T.maintain = TRUE
      /\ Len(T.garbage) = Len(S.garbage) + 1
  BY <1>1, MaintainedIs
<1> HIDE DEF T
<1>3. Suits(T, cs, tame)
  <2>1. Kept(T, cs)
    BY <1>2 DEF Kept
  <2> QED BY <1>2, <2>1, GoodSuits, FreeingSuits
<1>4. Bears(S, T, C)
  <2>1. ASSUME NEW j \in DOMAIN S.instances
        PROVE  T.instances[j].busy = S.instances[j].busy + IF Holds(C, j) THEN 1 ELSE 0
    <3>1. S.instances[j].busy \in Nat
      BY <1>1, StoreFields DEF StoreOK
    <3> QED BY <1>2, <3>1
  <2>2. Owns(C)
    BY DEF Owns, Keeps
  <2> QED BY <1>2, <2>1, <2>2 DEF Bears
<1>5. CallerOK(T, C, tame)
  BY DEF T
<1>6. Good(T, Append(cs, C), tame)
  BY <1>3, <1>4, <1>5, PushKeeps
<1> QED BY <1>6 DEF T

\* One that goes on with another instance.
LEMMA KeeperGoesOn ==
    ASSUME NEW S, NEW cs, NEW tame, Good(S, cs, tame), cs # << >>, Keeps(Last(cs)),
           NEW D \in Caller, Keeps(D), \A j : ~Holds(D, j), D.maintain = Last(cs).maintain,
           Fitting(Front(cs), D, tame), CallerOK(S, D, tame)
    PROVE  Good(S, Append(Front(cs), D), tame)
<1> DEFINE C == Last(cs)
           M == With(S, S.instances, Merged(S.garbage), S.maintain)
           T == [M EXCEPT !.maintain = C.maintain]
<1>1. StoreOK(S) /\ cs \in Seq(Caller)
  BY DEF Good, StackOK
<1>2. C \in Caller /\ CallerOK(S, C, tame) /\ C = cs[Len(cs)] /\ Len(cs) \in DOMAIN cs
  <2>1. C = cs[Len(cs)] /\ Len(cs) \in DOMAIN cs
    BY <1>1, PopIs
  <2> QED BY <2>1, CallersAre DEF Good
<1>3. C.maintain \in BOOLEAN /\ Owns(C) /\ (\A j : ~Holds(C, j)) /\ S.maintain
  <2>1. S.maintain
    BY <1>1, <1>2 DEF Good, MaintainOK, KeepsUpTo
  <2> QED BY <1>2, <2>1 DEF Caller, Owns, Keeps, Holds, CallerOK
<1>4. Len(S.garbage) > 1
  BY <1>3, Between
<1>5. /\ StoreOK(M) /\ Freeing(S, M) /\ M.instances = S.instances /\ M.maintain = S.maintain
      /\ Len(M.garbage) = Len(S.garbage) - 1
  BY <1>1, <1>4, MergeIs
<1> HIDE DEF M
<1>6. /\ StoreOK(T) /\ Freeing(M, T) /\ T.instances = M.instances
      /\ T.maintain = C.maintain /\ T.garbage = M.garbage
  BY <1>3, <1>5, KeepingIs
<1> HIDE DEF T
<1>7. Freeing(S, T)
  <2>1. T.list = S.list /\ T.table = S.table /\ T.stray = S.stray /\ T \in Store
    BY <1>5, <1>6 DEF Freeing
  <2> QED BY <1>5, <1>6, <2>1 DEF Freeing
<1>8. Suits(T, Front(cs), tame)
  <2>1. Kept(T, Front(cs))
    BY <1>6, KeepingBelow DEF Kept
  <2> QED BY <1>6, <1>7, <2>1, BelowSuits, FreeingSuits
<1>9. Sheds(S, T, C)
  <2>1. ASSUME NEW j \in DOMAIN S.instances
        PROVE  S.instances[j].busy = T.instances[j].busy + IF Holds(C, j) THEN 1 ELSE 0
    <3>1. S.instances[j].busy \in Nat
      BY <1>1, StoreFields DEF StoreOK
    <3> QED BY <1>3, <1>5, <1>6, <3>1
  <2>2. Len(S.garbage) = Len(T.garbage) + IF Owns(C) THEN 1 ELSE 0
    <3>1. Len(S.garbage) \in Nat
      BY <1>1, StoreFields DEF StoreOK
    <3> QED BY <1>3, <1>5, <1>6, <3>1
  <2> QED BY <1>5, <1>6, <2>1, <2>2 DEF Sheds
<1>10. S \in Store /\ T \in Store
  BY <1>1, <1>6 DEF StoreOK
<1>11. Good(T, Front(cs), tame)
  BY <1>8, <1>9, <1>10, PopKeeps
<1>12. Bears(T, S, D)
  <2>1. ASSUME NEW j \in DOMAIN T.instances
        PROVE  S.instances[j].busy = T.instances[j].busy + IF Holds(D, j) THEN 1 ELSE 0
    <3>1. S.instances[j].busy \in Nat
      BY <1>1, <1>5, <1>6, StoreFields DEF StoreOK
    <3> QED BY <1>5, <1>6, <3>1
  <2>2. Len(S.garbage) = Len(T.garbage) + IF Owns(D) THEN 1 ELSE 0
    <3>1. Len(S.garbage) \in Nat /\ Owns(D)
      BY <1>1, StoreFields DEF StoreOK, Owns, Keeps
    <3> QED BY <1>5, <1>6, <3>1
  <2>3. S.maintain = (T.maintain \/ Keeps(D)) /\ (Keeps(D) => D.maintain = T.maintain)
    <3>1. S.maintain \in BOOLEAN
      BY <1>1, StoreFields DEF StoreOK
    <3> QED BY <1>3, <1>6, <3>1
  <2> QED BY <1>5, <1>6, <2>1, <2>2, <2>3 DEF Bears
<1>13. Suits(S, Front(cs), tame)
  BY BelowSuits
<1> QED BY <1>11, <1>12, <1>13, PushKeeps
-----------------------------------------------------------------------------
(* Who is found, and what is made.                                         *)

At(S, s, name) == SelectInSeq(s, LAMBDA i : Instance(S, i).name = name)

AtOK(S, s, name) ==
    /\ At(S, s, name) \in 0 .. Len(s)
    /\ At(S, s, name) # 0 => S.instances[s[At(S, s, name)]].name = name
    /\ At(S, s, name) = 0 => \A k \in DOMAIN s : S.instances[s[k]].name # name

LEMMA AtIs ==
    ASSUME NEW S, NEW s \in Seq(Nat), NEW name
    PROVE  AtOK(S, s, name)
<1> DEFINE I == {k \in 1 .. Len(s) : Instance(S, s[k]).name = name}
<1>1. I \subseteq Nat /\ DOMAIN s = 1 .. Len(s)
  OBVIOUS
<1>2. At(S, s, name) = IF I # {} THEN Min(I) ELSE 0
  BY DEF At, SelectInSeq
<1>3. I # {} => Min(I) \in I
  <2> HIDE DEF I
  <2> QED BY <1>1, MinIs
<1>4. CASE I = {}
  <2>1. At(S, s, name) = 0 /\ Len(s) \in Nat
    BY <1>2, <1>4
  <2>2. \A k \in DOMAIN s : S.instances[s[k]].name # name
    BY <1>1, <1>4 DEF Instance
  <2> QED BY <2>1, <2>2 DEF AtOK
<1>5. CASE I # {}
  <2>1. At(S, s, name) \in I
    BY <1>2, <1>3, <1>5
  <2>2. At(S, s, name) \in 1 .. Len(s) /\ Instance(S, s[At(S, s, name)]).name = name
    BY <2>1
  <2> QED BY <2>2 DEF Instance, AtOK
<1> QED BY <1>4, <1>5

LEMMA ChainHas ==
    ASSUME NEW S, StoreOK(S), NEW name \in InstanceName
    PROVE  /\ HashInstance[name] \in Chains /\ S.table[HashInstance[name]] \in Seq(Nat)
           /\ Once(S.table[HashInstance[name]])
           /\ \A k \in DOMAIN S.table[HashInstance[name]] :
                 /\ S.table[HashInstance[name]][k] \in DOMAIN S.instances
                 /\ Is(S, S.table[HashInstance[name]][k], "live")
                 /\ S.table[HashInstance[name]][k] # None0
                 /\ In(S.table[HashInstance[name]][k], S.table[HashInstance[name]])
           /\ \A i \in Nat : Is(S, i, "live") /\ S.instances[i].name = name =>
                 \E k \in DOMAIN S.table[HashInstance[name]] : S.table[HashInstance[name]][k] = i
<1> DEFINE b == HashInstance[name]
           s == S.table[b]
<1>1. b \in Chains
  BY DEF Chains
<1>2. s \in Seq(Nat) /\ ChainOK(S, b) /\ DOMAIN S.instances = 1 .. Len(S.instances)
  BY <1>1, StoreFields DEF StoreOK
<1>3. \A i \in Nat : In(i, s) <=> Is(S, i, "live") /\ ChainOf(S, i) = b
  BY <1>2 DEF ChainOK
<1>4. \A k \in DOMAIN s : s[k] \in Nat /\ In(s[k], s)
  BY <1>2 DEF In
<1>5. \A i \in DOMAIN S.instances : i # None0
  BY <1>2 DEF None0
<1> QED BY <1>1, <1>2, <1>3, <1>4, <1>5 DEF ChainOK, Is, ChainOf, In

LEMMA FindIs ==
    ASSUME NEW S, StoreOK(S), NEW name \in InstanceName
    PROVE  /\ FindInstanceBySymbol(S, name) # None0 =>
                 /\ FindInstanceBySymbol(S, name) \in DOMAIN S.instances
                 /\ Is(S, FindInstanceBySymbol(S, name), "live")
                 /\ S.instances[FindInstanceBySymbol(S, name)].name = name
           /\ FindInstanceBySymbol(S, name) = None0 =>
                 \A i \in DOMAIN S.instances : Is(S, i, "live") => S.instances[i].name # name
<1> DEFINE s == S.table[HashInstance[name]]
           at == At(S, s, name)
<1>1. /\ s \in Seq(Nat)
      /\ \A k \in DOMAIN s : s[k] \in DOMAIN S.instances /\ Is(S, s[k], "live") /\ s[k] # None0
      /\ \A i \in Nat : Is(S, i, "live") /\ S.instances[i].name = name => \E k \in DOMAIN s : s[k] = i
  BY ChainHas
<1>2. FindInstanceBySymbol(S, name) = IF at = 0 THEN None0 ELSE s[at]
  BY DEF FindInstanceBySymbol, At
<1> HIDE DEF s
<1>3. /\ at \in 0 .. Len(s)
      /\ at # 0 => S.instances[s[at]].name = name
      /\ at = 0 => \A k \in DOMAIN s : S.instances[s[k]].name # name
  <2>1. s \in Seq(Nat)
    BY <1>1
  <2>2. AtOK(S, s, name)
    BY <2>1, AtIs
  <2> QED BY <2>2 DEF AtOK
<1>4. at # 0 => at \in DOMAIN s
  BY <1>1, <1>3
<1>5. DOMAIN S.instances \subseteq Nat
  BY StoreFields DEF StoreOK
<1> HIDE DEF at
<1> QED BY <1>1, <1>2, <1>3, <1>4, <1>5

LEMMA PredecessorIs ==
    ASSUME NEW S, StoreOK(S), NEW name \in InstanceName
    PROVE  /\ Predecessor(S, name) \in Nat
           /\ Predecessor(S, name) # None0 =>
                 /\ Predecessor(S, name) \in DOMAIN S.instances
                 /\ Is(S, Predecessor(S, name), "live")
                 /\ In(Predecessor(S, name), S.table[HashInstance[name]])
                 /\ Predecessor(S, name) # FindInstanceBySymbol(S, name)
<1> DEFINE s == S.table[HashInstance[name]]
           at == At(S, s, name)
<1>1. /\ s \in Seq(Nat) /\ Once(s)
      /\ \A k \in DOMAIN s : /\ s[k] \in DOMAIN S.instances /\ Is(S, s[k], "live") /\ s[k] # None0
                             /\ In(s[k], s)
  BY ChainHas
<1>2. /\ FindInstanceBySymbol(S, name) = IF at = 0 THEN None0 ELSE s[at]
      /\ Predecessor(S, name) = IF at = 0 THEN (IF s = << >> THEN None0 ELSE Last(s))
                                ELSE IF at = 1 THEN None0 ELSE s[at - 1]
  BY DEF FindInstanceBySymbol, Predecessor, At
<1> HIDE DEF s
<1>3. at \in 0 .. Len(s) /\ DOMAIN s = 1 .. Len(s) /\ Len(s) \in Nat
  <2>1. s \in Seq(Nat)
    BY <1>1
  <2>2. at \in 0 .. Len(s)
    <3>1. AtOK(S, s, name)
      BY <2>1, AtIs
    <3> QED BY <3>1 DEF AtOK
  <2> QED BY <2>1, <2>2
<1> HIDE DEF at
<1>4. None0 \in Nat /\ DOMAIN S.instances \subseteq Nat
  BY StoreFields DEF StoreOK, None0
<1> DEFINE p == Predecessor(S, name)
<1>5. p = None0 \/ \E k \in DOMAIN s : p = s[k] /\ (at = 0 \/ (at \in DOMAIN s /\ k # at))
  <2>1. CASE at = 0 /\ s # << >>
    <3>1. Len(s) \in DOMAIN s
      BY <1>1, <1>3, <2>1
    <3> QED BY <1>2, <2>1, <3>1 DEF Last
  <2>2. CASE at # 0 /\ at # 1
    <3>1. at - 1 \in DOMAIN s /\ at \in DOMAIN s /\ at - 1 # at
      BY <1>3, <2>2
    <3> QED BY <1>2, <2>2, <3>1
  <2>3. CASE (at = 0 /\ s = << >>) \/ at = 1
    BY <1>2, <2>3
  <2> QED BY <2>1, <2>2, <2>3
<1>6. CASE p = None0
  BY <1>4, <1>6
<1>7. CASE p # None0
  <2>1. PICK k \in DOMAIN s : p = s[k] /\ (at = 0 \/ (at \in DOMAIN s /\ k # at))
    BY <1>5, <1>7
  <2>2. p # FindInstanceBySymbol(S, name)
    BY <1>1, <1>2, <2>1 DEF Once
  <2> HIDE DEF p
  <2>3. p \in DOMAIN S.instances /\ Is(S, p, "live") /\ In(p, s) /\ p \in Nat
    BY <1>1, <1>4, <2>1
  <2> QED BY <2>2, <2>3 DEF p, s
<1> QED BY <1>6, <1>7

\* No handler of create or delete is under way.
Quiet(cs) ==
    \A k \in DOMAIN cs : ~(cs[k].kind = "message" /\ cs[k].phase \in {"create", "delete"})

LEMMA NobodyMakes ==
    ASSUME NEW S, NEW cs, NEW tame, StackOK(S, cs, tame), Quiet(cs),
           cs # << >> => Last(cs).phase \notin {"created", "replaced"}
    PROVE  \A k \in DOMAIN cs : cs[k].phase \notin {"created", "replaced"}
<1>1. cs \in Seq(Caller) /\ \A k \in 2 .. Len(cs) : Calls(cs[k - 1], cs[k])
  BY DEF StackOK
<1>2. DOMAIN cs = 1 .. Len(cs) /\ Len(cs) \in Nat
  BY <1>1
<1>3. ASSUME NEW k \in DOMAIN cs PROVE cs[k].phase \notin {"created", "replaced"}
  <2>1. CASE k = Len(cs)
    <3>1. cs # << >> /\ Last(cs) = cs[k]
      BY <1>1, <1>3, <2>1, PopIs
    <3> QED BY <3>1
  <2>2. CASE k # Len(cs)
    <3> DEFINE m == k + 1
    <3>1. m \in 2 .. Len(cs) /\ m - 1 = k /\ m \in DOMAIN cs
      BY <1>2, <2>2
    <3> HIDE DEF m
    <3>2. Calls(cs[k], cs[m])
      BY <1>1, <3>1
    <3> QED BY <3>1, <3>2 DEF Calls, Quiet
  <2> QED BY <2>1, <2>2
<1> QED BY <1>3

\* Calls that hold nothing and open no frame.
Plain(C) == ~Owns(C) /\ \A i : ~Holds(C, i)

LEMMA PlainPush ==
    ASSUME NEW S, NEW cs, NEW tame, Good(S, cs, tame), NEW C \in Caller, Plain(C),
           Fitting(cs, C, tame), CallerOK(S, C, tame)
    PROVE  Good(S, Append(cs, C), tame)
<1>1. S \in Store
  BY DEF Good, StoreOK
<1>2. /\ Len(S.garbage) \in Nat /\ S.maintain \in BOOLEAN
      /\ \A i \in DOMAIN S.instances : S.instances[i].busy \in Nat
  BY <1>1, StoreFields
<1>3. ~Owns(C) /\ ~Keeps(C) /\ \A i : ~Holds(C, i)
  BY DEF Plain, Owns, Keeps
<1>4. Bears(S, S, C)
  BY <1>2, <1>3 DEF Bears
<1> QED BY <1>4, GoodSuits, PushKeeps

LEMMA PlainPop ==
    ASSUME NEW S, NEW cs, NEW tame, Good(S, cs, tame), cs # << >>, Plain(Last(cs))
    PROVE  Good(S, Front(cs), tame)
<1>1. S \in Store
  BY DEF Good, StoreOK
<1>2. /\ Len(S.garbage) \in Nat /\ S.maintain \in BOOLEAN
      /\ \A i \in DOMAIN S.instances : S.instances[i].busy \in Nat
  BY <1>1, StoreFields
<1> DEFINE C == Last(cs)
<1>3. ~Owns(C) /\ ~Keeps(C) /\ \A i : ~Holds(C, i)
  BY DEF Plain, Owns, Keeps
<1> HIDE DEF C
<1>4. Sheds(S, S, C)
  BY <1>2, <1>3 DEF Sheds
<1> QED BY <1>1, <1>4, BelowSuits, PopKeeps DEF C
-----------------------------------------------------------------------------
(* Messages and what is made.                                              *)

LEMMA CallIs ==
    ASSUME NEW kind, NEW phase, NEW id
    PROVE  /\ Call(kind, phase, id).kind = kind /\ Call(kind, phase, id).phase = phase
           /\ Call(kind, phase, id).id = id /\ Call(kind, phase, id).old = None0
           /\ Call(kind, phase, id).prev = None0 /\ Call(kind, phase, id).name = ""
           /\ Call(kind, phase, id).maintain = store.maintain
           /\ Call(kind, phase, id).due = {}
BY DEF Call

LEMMA CallerIs ==
    ASSUME store \in Store, NEW kind \in {"message", "make", "initialize", "unmake", "all"},
           NEW phase \in {"create", "delete", "init", "created", "replaced", "initialized", "sent"},
           NEW id \in Nat
    PROVE  Call(kind, phase, id) \in Caller
<1>1. store.maintain \in BOOLEAN
  BY StoreFields
<1> QED BY <1>1 DEF Call, Caller, None0

\* A message finds its place on the stack, whoever sends it.
LEMMA CreatingFits ==
    ASSUME NEW S, NEW cs, NEW tame, Good(S, cs, tame), tame => Quiet(cs), NEW C,
           C.kind = "message", C.phase \in {"create", "delete"},
           cs # << >> => Calls(Last(cs), C)
    PROVE  Fitting(cs, C, tame)
<1>1. cs \in Seq(Caller)
  BY DEF Good, StackOK
<1>2. cs # << >> => Last(cs) = cs[Len(cs)]
  BY <1>1, PopIs
<1>3. \A k \in DOMAIN cs : Under(cs[k], C, tame)
  BY DEF Under, Quiet
<1> QED BY <1>2, <1>3 DEF Fitting

LEMMA InitFits ==
    ASSUME NEW S, NEW cs, NEW tame, Good(S, cs, tame), NEW C,
           C.kind = "message", C.phase = "init",
           cs # << >>, Last(cs).phase = "initialized", Last(cs).id = C.id
    PROVE  Fitting(cs, C, tame)
<1>1. cs \in Seq(Caller)
  BY DEF Good, StackOK
<1>2. Last(cs) = cs[Len(cs)]
  BY <1>1, PopIs
<1>3. \A k \in DOMAIN cs : Under(cs[k], C, tame)
  BY DEF Under
<1> QED BY <1>2, <1>3 DEF Fitting, Calls

LEMMA SendKeeps ==
    ASSUME store \in Store, raised \in Raised, NEW S, NEW cs, Good(S, cs, orderly),
           NEW i \in DOMAIN S.instances, ~Is(S, i, "freed"), NEW message \in Messages3,
           Fitting(cs, Call("message", message, i), orderly),
           Send(cs, S, message, i)
    PROVE  Good(store', callers', orderly) /\ raised' \in Raised
<1>1. CASE raised # "none"
  BY <1>1 DEF Send, Raised
<1>2. CASE raised = "none"
  <2> DEFINE C == Call("message", message, i)
  <2>1. i \in Nat
    BY StoreFields DEF Good, StoreOK
  <2>2. C \in Caller
    BY <2>1, CallerIs DEF Messages3
  <2>3. C.kind = "message" /\ C.phase = message /\ C.id = i
    BY DEF Call
  <2> HIDE DEF C
  <2>4. Fitting(cs, C, orderly)
    BY DEF C
  <2>5. Good(Hold(GCBlockStart(S), i, 1), Append(cs, C), orderly)
    BY <2>2, <2>3, <2>4, MessageGoes
  <2>6. /\ callers' = Append(cs, C) /\ store' = Hold(GCBlockStart(S), i, 1) /\ raised' = "none"
    BY <1>2 DEF Send, C
  <2> QED BY <2>5, <2>6 DEF Raised
<1> QED BY <1>1, <1>2

\* A new instance, in its place.
LEMMA NewSuits ==
    ASSUME NEW S, NEW cs, NEW tame, Good(S, cs, tame), NEW name \in InstanceName, NEW prev \in Nat,
           NEW T, T = NewInstance(S, name, prev),
           tame => /\ \A k \in DOMAIN cs : cs[k].phase # "replaced"
                   /\ \A i \in DOMAIN S.instances : Is(S, i, "live") => S.instances[i].name # name
                   /\ prev # None0 => In(prev, S.table[HashInstance[name]])
    PROVE  Good(T, cs, tame) /\ Grown(S, T, name)
<1>1. StoreOK(S) /\ StackOK(S, cs, tame) /\ (tame => ~S.stray /\ UniqueNames(S))
  BY DEF Good
<1>2. Grown(S, T, name) /\ Entered(S, T, name, prev) /\ StoreOK(T)
  BY <1>1, NewFields, NewKeeps
<1>3. ASSUME NEW k \in DOMAIN cs PROVE CallerOK(T, cs[k], tame)
  <2>1. cs[k] \in Caller /\ CallerOK(S, cs[k], tame)
    BY <1>1, CallersAre
  <2>2. tame => cs[k].phase # "replaced"
    OBVIOUS
  <2> QED BY <1>1, <1>2, <2>1, <2>2, GrownServes
<1>4. tame => ~T.stray
  BY <1>2 DEF Entered
<1>5. ASSUME tame PROVE UniqueNames(T)
  <2> DEFINE n == Len(S.instances) + 1
  <2>1. /\ DOMAIN T.instances = DOMAIN S.instances \cup {n} /\ n \notin DOMAIN S.instances
        /\ T.instances[n] = Fresh(name)
        /\ \A j : Is(T, j, "live") <=> Is(S, j, "live") \/ j = n
        /\ \A j \in DOMAIN S.instances : T.instances[j] = S.instances[j]
    BY <1>1, <1>2, GrownMeans
  <2> HIDE DEF n
  <2>2. T.instances[n].name = name
    BY <2>1, FreshIs
  <2>3. \A i \in DOMAIN S.instances : Is(S, i, "live") => S.instances[i].name # name
    BY <1>5
  <2>4. UniqueNames(S)
    BY <1>1, <1>5
  <2> QED BY <2>1, <2>2, <2>3, <2>4 DEF UniqueNames
<1>6. Suits(T, cs, tame)
  BY <1>2, <1>3, <1>4, <1>5 DEF Suits
<1> QED BY <1>2, <1>6, GrowKeeps

LEMMA CreateKeeps ==
    ASSUME store \in Store, raised \in Raised, NEW S, NEW cs, Good(S, cs, orderly),
           NEW name \in InstanceName, NEW prev \in Nat,
           cs # << >> => Last(cs).phase \notin {"created", "replaced"},
           orderly => /\ Quiet(cs)
                      /\ \A i \in DOMAIN S.instances : Is(S, i, "live") => S.instances[i].name # name
                      /\ prev # None0 => In(prev, S.table[HashInstance[name]]),
           Create(cs, S, name, prev)
    PROVE  Good(store', callers', orderly) /\ raised' \in Raised
<1> DEFINE N == NewInstance(S, name, prev)
           i == Len(N.instances)
           C == Call("make", "created", i)
           M == Call("message", "create", i)
<1>1. StackOK(S, cs, orderly) /\ StoreOK(S)
  BY DEF Good
<1>2. orderly => \A k \in DOMAIN cs : cs[k].phase # "replaced"
  BY <1>1, NobodyMakes
<1>3. Good(N, cs, orderly) /\ Grown(S, N, name)
  BY <1>2, NewSuits
<1>4. Send(Append(cs, C), N, "create", i)
  BY DEF Create
<1> HIDE DEF N
<1>5. i \in DOMAIN N.instances /\ Is(N, i, "live") /\ i \in Nat
  <2>1. i = Len(S.instances) + 1
    BY <1>3 DEF Grown
  <2>2. /\ DOMAIN N.instances = DOMAIN S.instances \cup {Len(S.instances) + 1}
        /\ Is(N, Len(S.instances) + 1, "live")
        /\ Len(S.instances) \in Nat
    BY <1>1, <1>3, GrownMeans
  <2>3. i \in Nat
    BY <2>1, <2>2
  <2> HIDE DEF i
  <2> QED BY <2>1, <2>2, <2>3
<1> HIDE DEF i
<1>6. C \in Caller /\ C.kind = "make" /\ C.phase = "created" /\ C.id = i
  BY <1>5, CallerIs DEF Call
<1>7. M.kind = "message" /\ M.phase = "create" /\ M.id = i
  BY DEF Call
<1> HIDE DEF C, M
<1>8. Plain(C) /\ CallerOK(N, C, orderly)
  BY <1>5, <1>6 DEF Plain, Owns, Holds, CallerOK, Keeps
<1>9. cs \in Seq(Caller) /\ (cs # << >> => Last(cs) = cs[Len(cs)])
  <2>1. cs \in Seq(Caller)
    BY <1>1 DEF StackOK
  <2> QED BY <2>1, PopIs
<1>10. Fitting(cs, C, orderly)
  <2>1. \A k \in DOMAIN cs : Under(cs[k], C, orderly)
    BY <1>6 DEF Under, Quiet
  <2>2. cs # << >> => Calls(cs[Len(cs)], C)
    BY <1>6, <1>9 DEF Calls
  <2> QED BY <1>6, <2>1, <2>2 DEF Fitting
<1>11. Good(N, Append(cs, C), orderly)
  BY <1>3, <1>6, <1>8, <1>10, PlainPush
<1>12. /\ Append(cs, C) \in Seq(Caller) /\ Append(cs, C) # << >> /\ Last(Append(cs, C)) = C
       /\ DOMAIN Append(cs, C) = 1 .. Len(cs) + 1 /\ DOMAIN cs = 1 .. Len(cs) /\ Len(cs) \in Nat
       /\ Append(cs, C)[Len(cs) + 1] = C /\ \A k \in 1 .. Len(cs) : Append(cs, C)[k] = cs[k]
  <2>1. /\ Append(cs, C) \in Seq(Caller) /\ Len(Append(cs, C)) = Len(cs) + 1
        /\ DOMAIN Append(cs, C) = 1 .. Len(cs) + 1 /\ DOMAIN cs = 1 .. Len(cs) /\ Len(cs) \in Nat
        /\ Append(cs, C)[Len(cs) + 1] = C /\ \A k \in 1 .. Len(cs) : Append(cs, C)[k] = cs[k]
    BY <1>6, <1>9, PushIs
  <2>2. Append(cs, C) # << >>
    BY <2>1
  <2> QED BY <2>1, <2>2 DEF Last
<1>13. orderly => Quiet(Append(cs, C))
  <2>1. ASSUME orderly, NEW k \in DOMAIN Append(cs, C)
        PROVE  ~(Append(cs, C)[k].kind = "message" /\ Append(cs, C)[k].phase \in {"create", "delete"})
    <3>1. k \in 1 .. Len(cs) \/ k = Len(cs) + 1
      BY <1>12
    <3> QED BY <1>6, <1>12, <2>1, <3>1 DEF Quiet
  <2> QED BY <2>1 DEF Quiet
<1>14. Fitting(Append(cs, C), M, orderly)
  <2>1. Calls(C, M)
    BY <1>6, <1>7 DEF Calls
  <2> QED BY <1>7, <1>11, <1>12, <1>13, <2>1, CreatingFits
<1>15. ~Is(N, i, "freed")
  BY <1>5 DEF Is
<1>16. Fitting(Append(cs, C), Call("message", "create", i), orderly)
  BY <1>14 DEF M
<1>17. Send(Append(cs, C), N, "create", i)
  BY <1>4 DEF i, C
<1> QED BY <1>5, <1>11, <1>15, <1>16, <1>17, SendKeeps DEF Messages3
-----------------------------------------------------------------------------
(* The actions.                                                            *)

LEMMA InvIs ==
    ASSUME IInv
    PROVE  /\ Good(store, callers, orderly) /\ StoreOK(store) /\ store \in Store
           /\ StackOK(store, callers, orderly) /\ callers \in Seq(Caller)
           /\ raised \in Raised /\ orderly \in BOOLEAN
BY DEF IInv, Good, StoreOK, StackOK

LEMMA InvFollows ==
    ASSUME Good(store', callers', orderly), raised' \in Raised, UNCHANGED orderly, IInv
    PROVE  IInv'
BY DEF IInv

LEMMA HereIs ==
    ASSUME IInv, callers # << >>
    PROVE  /\ Here \in Caller /\ CallerOK(store, Here, orderly) /\ Here = callers[Len(callers)]
           /\ Front(callers) \in Seq(Caller) /\ Len(callers) \in DOMAIN callers
           /\ Len(callers) \in Nat /\ DOMAIN callers = 1 .. Len(callers)
           /\ DOMAIN Front(callers) = 1 .. Len(callers) - 1 /\ Len(Front(callers)) = Len(callers) - 1
           /\ \A k \in 1 .. Len(callers) - 1 : k \in DOMAIN callers /\ Front(callers)[k] = callers[k]
           /\ \A k \in DOMAIN Front(callers) : Under(Front(callers)[k], Here, orderly)
           /\ Front(callers) # << >> => Calls(Last(Front(callers)), Here)
<1> DEFINE n == Len(callers)
<1>1. /\ callers \in Seq(Caller) /\ \A j, k \in DOMAIN callers : j < k => Under(callers[j], callers[k], orderly)
      /\ \A k \in 2 .. n : Calls(callers[k - 1], callers[k])
      /\ \A k \in DOMAIN callers : CallerOK(store, callers[k], orderly)
  BY InvIs DEF StackOK
<1>2. /\ Here = callers[n] /\ Here \in Caller /\ n \in Nat /\ n > 0 /\ DOMAIN callers = 1 .. n
      /\ Front(callers) \in Seq(Caller) /\ Len(Front(callers)) = n - 1 /\ DOMAIN Front(callers) = 1 .. n - 1
      /\ \A k \in 1 .. n - 1 : Front(callers)[k] = callers[k]
  BY <1>1, PopIs DEF Here
<1>3. n \in DOMAIN callers /\ \A k \in 1 .. n - 1 : k \in DOMAIN callers /\ k < n
  BY <1>2
<1>4. \A k \in DOMAIN Front(callers) : Under(Front(callers)[k], Here, orderly)
  BY <1>1, <1>2, <1>3
<1>5. Front(callers) # << >> => Calls(Last(Front(callers)), Here)
  <2>1. SUFFICES ASSUME Front(callers) # << >> PROVE Calls(Last(Front(callers)), Here)
    OBVIOUS
  <2>2. Last(Front(callers)) = Front(callers)[Len(Front(callers))] /\ Len(Front(callers)) > 0
    BY <1>2, <2>1, PopIs
  <2>3. n - 1 \in 1 .. n - 1 /\ n \in 2 .. n
    BY <1>2, <2>2
  <2>4. Last(Front(callers)) = callers[n - 1]
    BY <1>2, <2>2, <2>3
  <2> HIDE DEF n
  <2> QED BY <1>1, <1>2, <2>3, <2>4
<1> QED BY <1>1, <1>2, <1>3, <1>4, <1>5

\* Functions are called from handlers and commands.
LEMMA Evaluating ==
    ASSUME IInv, Evaluates, callers # << >>
    PROVE  Here.kind = "message" /\ Here.phase \in Messages3 /\ Here.id \in DOMAIN store.instances
BY HereIs DEF Evaluates, InHandler, CallerOK, Messages3

LEMMA FoundIs ==
    ASSUME IInv, NEW name \in InstanceName, NEW i, i = FindInstanceBySymbol(store, name), i # None0
    PROVE  /\ i \in DOMAIN store.instances /\ Is(store, i, "live") /\ store.instances[i].name = name
           /\ ~Is(store, i, "freed") /\ i \in Nat
<1>1. i \in DOMAIN store.instances /\ Is(store, i, "live") /\ store.instances[i].name = name
  BY InvIs, FindIs
<1>2. DOMAIN store.instances \subseteq Nat
  BY InvIs, StoreFields
<1> QED BY <1>1, <1>2 DEF Is

LEMMA SendDeleteKeeps ==
    ASSUME IInv, NEW name \in InstanceName, SendDelete(name)
    PROVE  IInv'
<1> DEFINE i == FindInstanceBySymbol(store, name)
           C == Call("message", "delete", i)
<1>1. /\ Evaluates /\ i # None0 /\ Allowed /\ Send(callers, store, "delete", i)
      /\ UNCHANGED orderly
  BY DEF SendDelete
<1> HIDE DEF i
<1>2. i \in DOMAIN store.instances /\ ~Is(store, i, "freed")
  BY <1>1, FoundIs DEF i
<1>3. C.kind = "message" /\ C.phase = "delete"
  BY DEF Call
<1> HIDE DEF C
<1>4. orderly => Quiet(callers)
  BY <1>1 DEF Allowed, Quiet
<1>5. callers # << >> => Calls(Last(callers), C)
  BY <1>1, <1>3, Evaluating DEF Calls, Here, Messages3
<1>6. Fitting(callers, C, orderly)
  BY <1>3, <1>4, <1>5, InvIs, CreatingFits
<1>7. Fitting(callers, Call("message", "delete", i), orderly)
  BY <1>6 DEF C
<1> QED BY <1>1, <1>2, <1>7, InvIs, SendKeeps, InvFollows DEF Messages3

LEMMA MessageReturnsKeeps ==
    ASSUME IInv, MessageReturns
    PROVE  IInv'
<1>1. /\ callers # << >> /\ Last(callers).kind = "message" /\ callers' = Front(callers)
      /\ store' = GCBlockEnd(Hold(store, Last(callers).id, -1)) /\ UNCHANGED <<raised, orderly>>
  BY DEF MessageReturns, InHandler, Here
<1>2. Good(store', callers', orderly)
  BY <1>1, InvIs, MessageEnds
<1> QED BY <1>1, <1>2, InvIs, InvFollows

\* Only a handler of delete deletes its own instance, where handlers keep the
\* rules: what is being initialized is not deleted.
LEMMA DeleteInstanceKeeps ==
    ASSUME IInv, DeleteInstance
    PROVE  IInv'
<1> DEFINE i == Here.id
           n == Len(callers)
<1>1. /\ Evaluates /\ callers # << >> /\ (orderly => Here.phase # "create")
      /\ store' = QuashInstance(store, i) /\ raised' \in {raised, "error"}
      /\ UNCHANGED <<callers, orderly>>
  BY DEF DeleteInstance, InHandler
<1>2. Here.kind = "message" /\ Here.phase \in Messages3 /\ i \in DOMAIN store.instances
  BY <1>1, Evaluating
<1>3. /\ Here = callers[n] /\ n \in DOMAIN callers /\ n \in Nat /\ DOMAIN callers = 1 .. n
  BY <1>1, HereIs
<1>4. /\ \A j, k \in DOMAIN callers : j < k => Under(callers[j], callers[k], orderly)
      /\ \A k \in 2 .. n : Calls(callers[k - 1], callers[k])
      /\ \A k \in DOMAIN callers : CallerOK(store, callers[k], orderly)
      /\ ~(callers[1].kind = "message" /\ callers[1].phase = "init")
  BY <1>1, InvIs DEF StackOK
<1>5. ASSUME MayQuash(store, i) PROVE Spared(callers, i, orderly)
  <2>1. Here.phase # "init"
    <3>1. SUFFICES ASSUME Here.phase = "init" PROVE FALSE
      OBVIOUS
    <3>2. n # 1
      BY <1>2, <1>3, <1>4, <3>1
    <3> DEFINE m == n - 1
    <3>3. m \in DOMAIN callers /\ n \in 2 .. n /\ m = n - 1
      BY <1>3, <3>2
    <3> HIDE DEF m, n
    <3>4. callers[m].phase = "initialized" /\ callers[m].id = i
      BY <1>2, <1>3, <1>4, <3>1, <3>3 DEF Calls
    <3>5. ~store.instances[i].installed
      BY <1>4, <3>3, <3>4 DEF CallerOK
    <3> QED BY <1>5, <3>5 DEF MayQuash, Instance
  <2>2. ASSUME orderly, NEW k \in DOMAIN callers
        PROVE  /\ callers[k].phase = "created" => callers[k].id # i
               /\ callers[k].phase = "replaced" => callers[k].prev # i
    <3>1. Here.phase = "delete"
      BY <1>1, <1>2, <2>1, <2>2 DEF Messages3
    <3>2. SUFFICES ASSUME callers[k].phase \in {"created", "replaced"}
                   PROVE  callers[k].phase = "replaced" /\ callers[k].prev # i
      OBVIOUS
    <3>3. k # n
      BY <1>3, <3>1, <3>2
    <3> DEFINE m == k + 1
    <3>4. m \in DOMAIN callers /\ m \in 2 .. n /\ k = m - 1 /\ (m < n \/ m = n)
      BY <1>3, <3>3
    <3> HIDE DEF m, n, i
    <3>5. Calls(callers[k], callers[m])
      BY <1>4, <3>4
    <3>6. callers[m].kind = "message" /\ callers[m].phase \in {"create", "delete"}
      BY <3>2, <3>5 DEF Calls
    <3>7. m = n
      <4>1. SUFFICES ASSUME m < n PROVE FALSE
        BY <3>4
      <4>2. Under(callers[m], Here, orderly)
        BY <1>3, <1>4, <3>4, <4>1
      <4> QED BY <1>2, <2>2, <3>1, <3>6, <4>2 DEF Under
    <3>8. callers[k].phase = "replaced" /\ i = callers[k].old
      BY <1>3, <3>1, <3>2, <3>5, <3>7 DEF Calls, i
    <3>9. ReplacesOK(store, callers[k])
      BY <1>4, <2>2, <3>8 DEF CallerOK
    <3>10. i # None0
      <4>1. DOMAIN store.instances = 1 .. Len(store.instances)
        BY InvIs, StoreFields
      <4> QED BY <1>2, <4>1 DEF None0
    <3> QED BY <3>8, <3>9, <3>10 DEF ReplacesOK
  <2> QED BY <2>2 DEF Spared
<1>6. Good(store', callers', orderly)
  <2> HIDE DEF i
  <2> QED BY <1>1, <1>2, <1>5, InvIs, QuashStays
<1> QED BY <1>1, <1>6, InvIs, InvFollows DEF Raised

LEMMA InitSlotsKeeps ==
    ASSUME IInv, InitSlots
    PROVE  IInv'
<1> DEFINE i == Here.id
           J == [store.instances[i] EXCEPT !.initSlotsCalled = TRUE]
           T == [store EXCEPT !.instances[i] = J]
<1>1. /\ Evaluates /\ callers # << >>
      /\ store' = [store EXCEPT !.instances[i].initSlotsCalled = TRUE]
      /\ UNCHANGED <<callers, raised, orderly>>
  BY DEF InitSlots, InHandler
<1>2. i \in DOMAIN store.instances
  BY <1>1, Evaluating
<1>3. store' = T
  BY <1>1
<1>4. /\ store.instances[i] \in InstanceRecord /\ J \in InstanceRecord
      /\ J.name = store.instances[i].name /\ J.state = store.instances[i].state
      /\ J.next = store.instances[i].next /\ J.busy = store.instances[i].busy
      /\ J.installed = store.instances[i].installed
  <2>1. store.instances[i] \in InstanceRecord
    BY <1>2, InvIs, StoreFields
  <2> QED BY <2>1 DEF InstanceRecord
<1> HIDE DEF J, i
<1>5. Touched(store, T, i, J)
  BY <1>2, <1>4, InvIs, TouchIs
<1>6. StoreOK(T)
  <2>1. (J.state = "garbage" => ~J.installed) /\ (J.state = "freed" => J.busy = 0)
    BY <1>2, <1>4, InvIs DEF StoreOK, StatesOK, Is
  <2> QED BY <1>2, <1>5, <2>1, InvIs, TouchKeeps
<1> HIDE DEF T
<1>7. \A k \in DOMAIN callers : callers[k].phase = "initialized" /\ callers[k].id = i => ~J.installed
  BY <1>4, InvIs DEF StackOK, CallerOK
<1>8. Suits(T, callers, orderly)
  BY <1>2, <1>5, <1>6, <1>7, InvIs, GoodSuits, TouchSuits
<1>9. /\ DOMAIN T.instances = DOMAIN store.instances /\ T.garbage = store.garbage
      /\ T.maintain = store.maintain
      /\ \A j \in DOMAIN store.instances : T.instances[j].busy = store.instances[j].busy
  BY <1>4, <1>5 DEF Touched, Alike
<1>10. Good(T, callers, orderly)
  BY <1>8, <1>9, InvIs, StayKeeps
<1> QED BY <1>1, <1>3, <1>10, InvIs, InvFollows

LEMMA CleanActionKeeps ==
    ASSUME IInv, Clean
    PROVE  IInv'
<1>1. store' = CleanupInstances(store) /\ UNCHANGED <<callers, raised, orderly>>
  BY DEF Clean
<1>2. Good(store', callers', orderly)
  BY <1>1, InvIs, CleanKeeps
<1> QED BY <1>1, <1>2, InvIs, InvFollows

LEMMA ErrorsKeep ==
    ASSUME IInv, Fail \/ Recover
    PROVE  IInv'
<1>1. UNCHANGED <<store, callers, orderly>> /\ raised' \in Raised
  BY DEF Fail, Recover, Raised
<1> QED BY <1>1, InvIs, InvFollows

Opened(S, i) ==
    [S EXCEPT !.instances[i].busy = @ + 1, !.instances[i].installed = FALSE,
              !.instances[i].initSlotsCalled = FALSE]
Closed(S, i) ==
    [S EXCEPT !.instances[i].busy = @ - 1, !.instances[i].installed = TRUE,
              !.instances[i].initSlotsCalled = FALSE]

LEMMA OpenedIs ==
    ASSUME NEW S, StoreOK(S), NEW i \in DOMAIN S.instances, Is(S, i, "live"), S.instances[i].installed
    PROVE  \E J \in InstanceRecord :
              /\ Touched(S, Opened(S, i), i, J) /\ ~J.installed /\ J.busy = S.instances[i].busy + 1
              /\ StoreOK(Opened(S, i))
<1> DEFINE I == S.instances[i]
           J == [I EXCEPT !.busy = @ + 1, !.installed = FALSE, !.initSlotsCalled = FALSE]
           T == [S EXCEPT !.instances[i] = J]
<1>1. S \in Store /\ S.instances \in Seq(InstanceRecord) /\ I \in InstanceRecord /\ I.state = "live"
  BY StoreFields DEF StoreOK, Is
<1>2. /\ J \in InstanceRecord /\ J.name = I.name /\ J.state = I.state /\ J.next = I.next
      /\ J.busy = I.busy + 1 /\ ~J.installed
  <2>1. I.busy + 1 \in Nat
    BY <1>1 DEF InstanceRecord
  <2> HIDE DEF I
  <2> QED BY <1>1, <2>1 DEF InstanceRecord
<1>3. Opened(S, i) = T
  BY <1>1 DEF Opened, Store
<1> HIDE DEF J
<1>4. Touched(S, T, i, J)
  BY <1>1, <1>2, TouchIs
<1> HIDE DEF T
<1>5. StoreOK(T)
  BY <1>1, <1>2, <1>4, TouchKeeps
<1> QED BY <1>2, <1>3, <1>4, <1>5

LEMMA ClosedIs ==
    ASSUME NEW S, StoreOK(S), NEW i \in DOMAIN S.instances, Is(S, i, "live"), S.instances[i].busy > 0
    PROVE  \E J \in InstanceRecord :
              /\ Touched(S, Closed(S, i), i, J) /\ J.installed /\ S.instances[i].busy = J.busy + 1
              /\ StoreOK(Closed(S, i))
<1> DEFINE I == S.instances[i]
           J == [I EXCEPT !.busy = @ - 1, !.installed = TRUE, !.initSlotsCalled = FALSE]
           T == [S EXCEPT !.instances[i] = J]
<1>1. S \in Store /\ S.instances \in Seq(InstanceRecord) /\ I \in InstanceRecord /\ I.state = "live"
  BY StoreFields DEF StoreOK, Is
<1>2. /\ J \in InstanceRecord /\ J.name = I.name /\ J.state = I.state /\ J.next = I.next
      /\ I.busy = J.busy + 1 /\ J.installed
  <2>1. I.busy - 1 \in Nat /\ I.busy = (I.busy - 1) + 1
    BY <1>1 DEF InstanceRecord
  <2> HIDE DEF I
  <2> QED BY <1>1, <2>1 DEF InstanceRecord
<1>3. Closed(S, i) = T
  BY <1>1 DEF Closed, Store
<1> HIDE DEF J
<1>4. Touched(S, T, i, J)
  BY <1>1, <1>2, TouchIs
<1> HIDE DEF T
<1>5. StoreOK(T)
  BY <1>1, <1>2, <1>4, TouchKeeps
<1> QED BY <1>2, <1>3, <1>4, <1>5

\* init is sent to what is not being initialized.
LEMMA OpenKeeps ==
    ASSUME store \in Store, raised \in Raised, NEW S, NEW cs, Good(S, cs, orderly),
           NEW i \in DOMAIN S.instances, Is(S, i, "live"), S.instances[i].installed,
           NEW C \in Caller, C.kind \in {"make", "initialize"}, C.phase = "initialized", C.id = i,
           cs # << >> => Last(cs).phase \notin {"created", "replaced"},
           C.kind = "make" /\ orderly => Quiet(cs),
           Send(Append(cs, C), Opened(S, i), "init", i)
    PROVE  Good(store', callers', orderly) /\ raised' \in Raised
<1> DEFINE T == Opened(S, i)
           M == Call("message", "init", i)
<1>1. StackOK(S, cs, orderly) /\ StoreOK(S) /\ cs \in Seq(Caller)
  BY DEF Good, StackOK
<1>2. PICK J \in InstanceRecord :
         /\ Touched(S, T, i, J) /\ ~J.installed /\ J.busy = S.instances[i].busy + 1 /\ StoreOK(T)
  BY <1>1, OpenedIs
<1> HIDE DEF T
<1>3. Suits(T, cs, orderly)
  BY <1>2, GoodSuits, TouchSuits
<1>4. /\ DOMAIN T.instances = DOMAIN S.instances /\ T.instances[i] = J
      /\ \A j \in DOMAIN S.instances : j # i => T.instances[j] = S.instances[j]
      /\ T.garbage = S.garbage /\ T.maintain = S.maintain
  BY <1>2 DEF Touched, Alike
<1>5. ~Owns(C) /\ ~Keeps(C) /\ \A j : Holds(C, j) <=> j = i
  BY DEF Owns, Keeps, Holds
<1>6. Bears(S, T, C)
  <2>1. ASSUME NEW j \in DOMAIN S.instances
        PROVE  T.instances[j].busy = S.instances[j].busy + IF Holds(C, j) THEN 1 ELSE 0
    <3>1. S.instances[j].busy \in Nat
      BY <1>1, StoreFields DEF StoreOK
    <3>2. CASE j = i
      BY <1>2, <1>4, <1>5, <3>2
    <3>3. CASE j # i
      BY <1>4, <1>5, <3>1, <3>3
    <3> QED BY <3>2, <3>3
  <2>2. Len(S.garbage) \in Nat /\ S.maintain \in BOOLEAN
    BY <1>1, StoreFields DEF StoreOK
  <2> QED BY <1>4, <1>5, <2>1, <2>2 DEF Bears
<1>7. Is(T, i, "live") /\ ~T.instances[i].installed
  BY <1>2, <1>4, AlikeIs DEF Touched
<1>8. CallerOK(T, C, orderly)
  BY <1>4, <1>5, <1>7 DEF CallerOK
<1>9. cs # << >> => Last(cs) = cs[Len(cs)]
  BY <1>1, PopIs
<1>10. Fitting(cs, C, orderly)
  <2>1. ASSUME NEW k \in DOMAIN cs PROVE Under(cs[k], C, orderly)
    <3>1. cs[k].phase = "initialized" => ~S.instances[cs[k].id].installed
      BY <1>1 DEF StackOK, CallerOK
    <3> QED BY <3>1 DEF Under, Quiet
  <2>2. cs # << >> => Calls(cs[Len(cs)], C)
    BY <1>9 DEF Calls
  <2> QED BY <2>1, <2>2 DEF Fitting
<1>11. Good(T, Append(cs, C), orderly)
  BY <1>3, <1>6, <1>8, <1>10, PushKeeps
<1>12. Append(cs, C) # << >> /\ Last(Append(cs, C)) = C
  <2>1. Append(cs, C) \in Seq(Caller) /\ Len(Append(cs, C)) = Len(cs) + 1 /\ Len(cs) \in Nat
        /\ Append(cs, C)[Len(cs) + 1] = C
    BY <1>1, PushIs
  <2>2. Append(cs, C) # << >>
    BY <2>1
  <2> QED BY <2>1, <2>2 DEF Last
<1>13. M.kind = "message" /\ M.phase = "init" /\ M.id = i
  BY DEF Call
<1> HIDE DEF M
<1>14. Fitting(Append(cs, C), M, orderly)
  BY <1>11, <1>12, <1>13, InitFits
<1>15. Fitting(Append(cs, C), Call("message", "init", i), orderly)
  BY <1>14 DEF M
<1>16. i \in DOMAIN T.instances /\ ~Is(T, i, "freed")
  BY <1>4, <1>7 DEF Is
<1>17. Send(Append(cs, C), T, "init", i)
  BY DEF T
<1> QED BY <1>11, <1>15, <1>16, <1>17, SendKeeps DEF Messages3

LEMMA InitializeInstanceKeeps ==
    ASSUME IInv, NEW name \in InstanceName, InitializeInstance(name)
    PROVE  IInv'
<1> DEFINE i == FindInstanceBySymbol(store, name)
           C == Call("initialize", "initialized", i)
<1>1. /\ Evaluates /\ i # None0 /\ UNCHANGED orderly
      /\ IF ~store.instances[i].installed
         THEN raised' = "error" /\ UNCHANGED <<store, callers>>
         ELSE Send(Append(callers, C), Opened(store, i), "init", i)
  BY DEF InitializeInstance, Instance, Opened
<1> HIDE DEF i
<1>2. i \in DOMAIN store.instances /\ Is(store, i, "live") /\ i \in Nat
  BY <1>1, FoundIs DEF i
<1>3. CASE ~store.instances[i].installed
  <2>1. raised' = "error" /\ UNCHANGED <<store, callers>>
    BY <1>1, <1>3
  <2> QED BY <1>1, <2>1, InvIs, InvFollows DEF Raised
<1>4. CASE store.instances[i].installed
  <2>1. C \in Caller /\ C.kind = "initialize" /\ C.phase = "initialized" /\ C.id = i
    BY <1>2, InvIs, CallerIs DEF Call
  <2>2. Send(Append(callers, C), Opened(store, i), "init", i)
    BY <1>1, <1>4
  <2> HIDE DEF C
  <2>3. callers # << >> => Last(callers).phase \notin {"created", "replaced"}
    BY <1>1, Evaluating DEF Here, Messages3
  <2>4. Good(store', callers', orderly) /\ raised' \in Raised
    BY <1>2, <1>4, <2>1, <2>2, <2>3, InvIs, OpenKeeps
  <2> QED BY <1>1, <2>4, InvFollows
<1> QED BY <1>3, <1>4

\* What make-instance replaces is deleted first; what is created waits for its
\* initialization.
LEMMA MakeInstanceKeeps ==
    ASSUME IInv, NEW name \in InstanceName, MakeInstance(name)
    PROVE  IInv'
<1> DEFINE i == FindInstanceBySymbol(store, name)
           prev == Predecessor(store, name)
           C == [Call("make", "replaced", None0) EXCEPT !.old = i, !.prev = prev, !.name = name]
           T == Hold(store, i, 1)
           M == Call("message", "delete", i)
<1>1. /\ Evaluates /\ Allowed /\ UNCHANGED orderly
      /\ IF i = None0 THEN Create(callers, store, name, prev)
         ELSE IF ~store.instances[i].installed
         THEN raised' = "error" /\ UNCHANGED <<store, callers>>
         ELSE Send(Append(callers, C), T, "delete", i)
  BY DEF MakeInstance, Instance
<1>2. /\ prev \in Nat
      /\ prev # None0 => /\ prev \in DOMAIN store.instances /\ Is(store, prev, "live")
                         /\ In(prev, store.table[HashInstance[name]]) /\ prev # i
  BY InvIs, PredecessorIs
<1>3. callers # << >> => Last(callers).kind = "message" /\ Last(callers).phase \notin {"created", "replaced"}
  BY <1>1, Evaluating DEF Here, Messages3
<1>4. orderly => Quiet(callers)
  BY <1>1 DEF Allowed, Quiet
<1>5. CASE i = None0
  <2>1. Create(callers, store, name, prev)
    BY <1>1, <1>5
  <2>2. \A j \in DOMAIN store.instances : Is(store, j, "live") => store.instances[j].name # name
    BY <1>5, InvIs, FindIs
  <2> HIDE DEF prev, i
  <2>3. Good(store', callers', orderly) /\ raised' \in Raised
    BY <1>2, <1>3, <1>4, <2>1, <2>2, InvIs, CreateKeeps
  <2> QED BY <1>1, <2>3, InvFollows
<1>6. CASE i # None0 /\ ~store.instances[i].installed
  <2>1. raised' = "error" /\ UNCHANGED <<store, callers>>
    BY <1>1, <1>6
  <2> QED BY <1>1, <2>1, InvIs, InvFollows DEF Raised
<1>7. CASE i # None0 /\ store.instances[i].installed
  <2>1. Send(Append(callers, C), T, "delete", i)
    BY <1>1, <1>7
  <2>2. /\ i \in DOMAIN store.instances /\ Is(store, i, "live") /\ store.instances[i].name = name
        /\ ~Is(store, i, "freed") /\ i \in Nat
    BY <1>7, FoundIs
  <2> HIDE DEF i, prev
  <2>3. /\ C.kind = "make" /\ C.phase = "replaced" /\ C.old = i /\ C.prev = prev /\ C.name = name
    BY DEF Call
  <2>4. C \in Caller
    <3>1. store.maintain \in BOOLEAN
      BY InvIs, StoreFields
    <3> QED BY <1>2, <2>2, <3>1 DEF Call, Caller, None0
  <2>5. M.kind = "message" /\ M.phase = "delete" /\ M.id = i
    BY DEF Call
  <2> DEFINE J == [store.instances[i] EXCEPT !.busy = @ + 1]
  <2>6. StoreOK(T) /\ Touched(store, T, i, J)
    <3>1. store.instances[i].busy + 1 \in Nat
      <4>1. store.instances[i].busy \in Nat
        BY <2>2, InvIs, StoreFields
      <4> QED BY <4>1
    <3> QED BY <2>2, <3>1, InvIs, HoldIs
  <2>7. J.busy = store.instances[i].busy + 1 /\ J.installed
    <3>1. store.instances[i] \in InstanceRecord
      BY <2>2, InvIs, StoreFields
    <3> QED BY <1>7, <3>1 DEF InstanceRecord
  <2> HIDE DEF C, M, T, J
  <2>8. ~Owns(C) /\ ~Keeps(C) /\ \A j : Holds(C, j) <=> j = i
    BY <2>3 DEF Owns, Keeps, Holds
  <2>9. /\ DOMAIN T.instances = DOMAIN store.instances /\ T.instances[i] = J
        /\ \A j \in DOMAIN store.instances : j # i => T.instances[j] = store.instances[j]
        /\ \A j \in DOMAIN store.instances : T.instances[j].name = store.instances[j].name
        /\ T.garbage = store.garbage /\ T.maintain = store.maintain
        /\ \A j : Is(T, j, "live") <=> Is(store, j, "live")
    BY <2>6, AlikeIs DEF Touched, Alike
  <2>10. Suits(T, callers, orderly)
    <3>1. \A k \in DOMAIN callers : ~(callers[k].phase = "initialized" /\ callers[k].id = i)
      BY <1>7, InvIs DEF StackOK, CallerOK
    <3> QED BY <2>2, <2>6, <3>1, InvIs, GoodSuits, TouchSuits
  <2>11. Bears(store, T, C)
    <3>1. ASSUME NEW j \in DOMAIN store.instances
          PROVE  T.instances[j].busy = store.instances[j].busy + IF Holds(C, j) THEN 1 ELSE 0
      <4>1. store.instances[j].busy \in Nat
        BY InvIs, StoreFields
      <4>2. CASE j = i
        BY <2>7, <2>8, <2>9, <4>2
      <4>3. CASE j # i
        BY <2>8, <2>9, <4>1, <4>3
      <4> QED BY <4>2, <4>3
    <3>2. Len(store.garbage) \in Nat /\ store.maintain \in BOOLEAN
      BY InvIs, StoreFields
    <3> QED BY <2>8, <2>9, <3>1, <3>2 DEF Bears
  <2>12. CallerOK(T, C, orderly)
    <3>1. ASSUME orderly PROVE ReplacesOK(T, C)
      <4>1. UniqueNames(store)
        BY <3>1, InvIs DEF Good
      <4>2. \A j \in DOMAIN T.instances : Is(T, j, "live") /\ T.instances[j].name = name => j = i
        BY <2>2, <2>9, <4>1 DEF UniqueNames
      <4>3. prev # None0 => ChainOf(store, prev) = HashInstance[name]
        <5>1. HashInstance[name] \in Chains
          BY DEF Chains
        <5> QED BY <1>2, <5>1, InvIs DEF StoreOK, ChainOK
      <4>4. prev # None0 => ChainOf(T, prev) = HashInstance[name]
        BY <1>2, <2>9, <4>3 DEF ChainOf
      <4> QED BY <1>2, <2>3, <2>9, <4>2, <4>4 DEF ReplacesOK
    <3> QED BY <2>2, <2>3, <2>8, <2>9, <3>1 DEF CallerOK
  <2>13. Fitting(callers, C, orderly)
    <3>1. \A k \in DOMAIN callers : Under(callers[k], C, orderly)
      BY <1>4, <2>3 DEF Under, Quiet
    <3>2. callers # << >> => Calls(callers[Len(callers)], C)
      BY <1>3, <2>3, HereIs DEF Calls, Here
    <3> QED BY <2>3, <3>1, <3>2 DEF Fitting
  <2>14. Good(T, Append(callers, C), orderly)
    BY <2>4, <2>10, <2>11, <2>12, <2>13, InvIs, PushKeeps
  <2>15. /\ Append(callers, C) # << >> /\ Last(Append(callers, C)) = C
         /\ DOMAIN Append(callers, C) = 1 .. Len(callers) + 1 /\ Len(callers) \in Nat
         /\ DOMAIN callers = 1 .. Len(callers) /\ Append(callers, C)[Len(callers) + 1] = C
         /\ \A k \in 1 .. Len(callers) : Append(callers, C)[k] = callers[k]
    <3>1. /\ Append(callers, C) \in Seq(Caller) /\ Len(Append(callers, C)) = Len(callers) + 1
          /\ DOMAIN Append(callers, C) = 1 .. Len(callers) + 1 /\ Len(callers) \in Nat
          /\ DOMAIN callers = 1 .. Len(callers) /\ Append(callers, C)[Len(callers) + 1] = C
          /\ \A k \in 1 .. Len(callers) : Append(callers, C)[k] = callers[k]
      BY <2>4, InvIs, PushIs
    <3>2. Append(callers, C) # << >>
      BY <3>1
    <3> QED BY <3>1, <3>2 DEF Last
  <2>16. orderly => Quiet(Append(callers, C))
    <3>1. ASSUME orderly, NEW k \in DOMAIN Append(callers, C)
          PROVE  ~(Append(callers, C)[k].kind = "message" /\ Append(callers, C)[k].phase \in {"create", "delete"})
      <4>1. k \in 1 .. Len(callers) \/ k = Len(callers) + 1
        BY <2>15
      <4> QED BY <1>4, <2>3, <2>15, <3>1, <4>1 DEF Quiet
    <3> QED BY <3>1 DEF Quiet
  <2>17. Fitting(Append(callers, C), M, orderly)
    <3>1. Calls(C, M)
      BY <2>3, <2>5 DEF Calls
    <3> QED BY <2>5, <2>14, <2>15, <2>16, <3>1, CreatingFits
  <2>18. Fitting(Append(callers, C), Call("message", "delete", i), orderly)
    BY <2>17 DEF M
  <2>19. i \in DOMAIN T.instances /\ ~Is(T, i, "freed")
    BY <2>2, <2>9 DEF Is
  <2>20. Good(store', callers', orderly) /\ raised' \in Raised
    BY <2>1, <2>14, <2>18, <2>19, InvIs, SendKeeps DEF Messages3
  <2> QED BY <1>1, <2>20, InvFollows
<1> QED BY <1>5, <1>6, <1>7

LEMMA FrontIsQuiet ==
    ASSUME IInv, callers # << >>, Here.kind \in {"make", "unmake", "all"}
    PROVE  /\ orderly => Quiet(Front(callers))
           /\ Front(callers) # << >> => Last(Front(callers)).phase \notin {"created", "replaced"}
<1>1. orderly => Quiet(Front(callers))
  BY HereIs DEF Quiet, Under
<1>2. Front(callers) # << >> => Last(Front(callers)).phase \notin {"created", "replaced"}
  BY HereIs DEF Calls
<1> QED BY <1>1, <1>2

LEMMA MakeReplacesKeeps ==
    ASSUME IInv, MakeReplaces
    PROVE  IInv'
<1> DEFINE C == Here
           i == Here.old
           T == Hold(store, i, -1)
           J == [store.instances[i] EXCEPT !.busy = @ + -1]
<1>1. /\ callers # << >> /\ C.kind = "make" /\ C.phase = "replaced" /\ UNCHANGED orderly
      /\ IF Instance(T, i).state = "live"
         THEN callers' = Front(callers) /\ store' = T /\ raised' = "error"
         ELSE Create(Front(callers), T, C.name, C.prev)
  BY DEF MakeReplaces, Resumes
<1>2. C \in Caller /\ CallerOK(store, C, orderly)
  BY <1>1, HereIs
<1>3. /\ i \in DOMAIN store.instances /\ C.name \in InstanceName /\ C.prev \in Nat
      /\ \A j : Holds(C, j) <=> j = i
      /\ ~Owns(C) /\ ~Keeps(C)
  BY <1>1, <1>2 DEF CallerOK, Caller, Holds, Owns, Keeps
<1>4. store.instances[i].busy \in Nat /\ store.instances[i].busy > 0 /\ ~Is(store, i, "freed")
  BY <1>1, <1>3, InvIs, Held DEF Here
<1>5. StoreOK(T) /\ Touched(store, T, i, J)
  <2>1. store.instances[i].busy + -1 \in Nat
    BY <1>4
  <2> HIDE DEF i
  <2> QED BY <1>3, <1>4, <2>1, InvIs, HoldIs
<1>6. J.installed = store.instances[i].installed /\ J.busy + 1 = store.instances[i].busy
  <2>1. store.instances[i] \in InstanceRecord
    BY <1>3, InvIs, StoreFields
  <2>2. J.installed = store.instances[i].installed /\ J.busy = store.instances[i].busy + -1
    BY <2>1 DEF InstanceRecord
  <2> QED BY <1>4, <2>2
<1> HIDE DEF T, J, C, i
<1>7. /\ DOMAIN T.instances = DOMAIN store.instances /\ T.instances[i] = J
      /\ \A j \in DOMAIN store.instances : j # i => T.instances[j] = store.instances[j]
      /\ \A j \in DOMAIN store.instances : T.instances[j].name = store.instances[j].name
      /\ T.garbage = store.garbage /\ T.maintain = store.maintain /\ T.table = store.table
      /\ \A j : Is(T, j, "live") <=> Is(store, j, "live")
  BY <1>5, AlikeIs DEF Touched, Alike
<1>8. Sheds(store, T, C)
  <2>1. ASSUME NEW j \in DOMAIN store.instances
        PROVE  store.instances[j].busy = T.instances[j].busy + IF Holds(C, j) THEN 1 ELSE 0
    <3>1. store.instances[j].busy \in Nat
      BY InvIs, StoreFields
    <3>2. CASE j = i
      BY <1>3, <1>6, <1>7, <3>2
    <3>3. CASE j # i
      BY <1>3, <1>7, <3>1, <3>3
    <3> QED BY <3>2, <3>3
  <2>2. Len(store.garbage) \in Nat /\ store.maintain \in BOOLEAN
    BY InvIs, StoreFields
  <2> QED BY <1>3, <1>7, <2>1, <2>2 DEF Sheds
<1>9. Suits(T, Front(callers), orderly)
  <2>1. \A k \in DOMAIN Front(callers) :
           Front(callers)[k].phase = "initialized" /\ Front(callers)[k].id = i => ~J.installed
    BY <1>1, <1>6, InvIs, BelowSuits DEF Suits, CallerOK
  <2> QED BY <1>1, <1>3, <1>5, <2>1, InvIs, BelowSuits, TouchSuits
<1>10. Good(T, Front(callers), orderly)
  <2>1. C = Last(callers) /\ T \in Store
    BY <1>5 DEF C, Here, StoreOK
  <2> QED BY <1>1, <1>8, <1>9, <2>1, InvIs, PopKeeps
<1>11. CASE Instance(T, i).state = "live"
  <2>1. callers' = Front(callers) /\ store' = T /\ raised' = "error"
    BY <1>1, <1>11
  <2> QED BY <1>1, <1>10, <2>1, InvFollows DEF Raised
<1>12. CASE Instance(T, i).state # "live"
  <2>1. Create(Front(callers), T, C.name, C.prev)
    BY <1>1, <1>12
  <2>2. ~Is(T, i, "live")
    BY <1>12 DEF Is, Instance
  <2>3. /\ orderly => Quiet(Front(callers))
        /\ Front(callers) # << >> => Last(Front(callers)).phase \notin {"created", "replaced"}
    BY <1>1, FrontIsQuiet DEF C
  <2>4. ASSUME orderly
        PROVE  /\ \A j \in DOMAIN T.instances : Is(T, j, "live") => T.instances[j].name # C.name
               /\ C.prev # None0 => In(C.prev, T.table[HashInstance[C.name]])
    <3>1. ReplacesOK(store, C) /\ i = C.old
      BY <1>1, <1>2, <2>4 DEF CallerOK, C, i
    <3>2. \A j \in DOMAIN T.instances : Is(T, j, "live") => T.instances[j].name # C.name
      BY <1>7, <2>2, <3>1 DEF ReplacesOK
    <3>3. C.prev # None0 => In(C.prev, store.table[HashInstance[C.name]])
      <4>1. HashInstance[C.name] \in Chains
        BY <1>3 DEF Chains
      <4> QED BY <1>3, <3>1, <4>1, InvIs DEF ReplacesOK, StoreOK, ChainOK
    <3> QED BY <1>7, <3>2, <3>3
  <2>5. Good(store', callers', orderly) /\ raised' \in Raised
    BY <1>3, <1>10, <2>1, <2>3, <2>4, InvIs, CreateKeeps
  <2> QED BY <1>1, <2>5, InvFollows
<1> QED BY <1>11, <1>12

LEMMA StrayIs ==
    ASSUME NEW S, StoreOK(S), NEW T, T = [S EXCEPT !.stray = TRUE]
    PROVE  /\ StoreOK(T) /\ T.instances = S.instances /\ T.garbage = S.garbage
           /\ T.maintain = S.maintain
<1>1. S \in Store
  BY DEF StoreOK
<1>2. /\ T \in Store /\ T.instances = S.instances /\ T.garbage = S.garbage
      /\ T.maintain = S.maintain /\ T.list = S.list /\ T.table = S.table
  BY <1>1 DEF Store
<1>3. \A i, state : Is(T, i, state) <=> Is(S, i, state)
  BY <1>2 DEF Is
<1>4. ListOK(T)
  BY <1>2, <1>3 DEF StoreOK, ListOK
<1>5. NextOK(T) /\ StatesOK(T)
  BY <1>2, <1>3 DEF StoreOK, NextOK, StatesOK
<1>6. \A b \in Chains : ChainOK(T, b)
  BY <1>2, <1>3 DEF StoreOK, ChainOK, ChainOf
<1>7. GarbageOK(T)
  BY <1>2, <1>3 DEF StoreOK, GarbageOK
<1> QED BY <1>2, <1>4, <1>5, <1>6, <1>7 DEF StoreOK

LEMMA MakeInitializesKeeps ==
    ASSUME IInv, MakeInitializes
    PROVE  IInv'
<1> DEFINE C == Here
           i == Here.id
           D == [Here EXCEPT !.phase = "initialized"]
<1>1. callers # << >> /\ C.kind = "make" /\ C.phase = "created" /\ UNCHANGED orderly
  BY DEF MakeInitializes, Resumes
<1>2. C \in Caller /\ CallerOK(store, C, orderly)
  BY <1>1, HereIs
<1>3. i \in DOMAIN store.instances /\ i \in Nat
  BY <1>1, <1>2 DEF CallerOK, Caller
<1>4. Plain(Last(callers))
  <2>1. Plain(C)
    BY <1>1 DEF Plain, Owns, Holds
  <2> QED BY <2>1 DEF Here
<1>5. Good(store, Front(callers), orderly)
  BY <1>1, <1>4, InvIs, PlainPop
<1>6. CASE store.instances[i].state = "freed"
  <2> DEFINE T == [store EXCEPT !.stray = TRUE]
  <2>1. store' = T /\ UNCHANGED <<callers, raised>>
    BY <1>6 DEF MakeInitializes, Instance
  <2>2. ~orderly
    BY <1>1, <1>2, <1>6 DEF CallerOK, Is
  <2>3. StoreOK(T) /\ T.instances = store.instances /\ T.garbage = store.garbage /\ T.maintain = store.maintain
    BY InvIs, StrayIs
  <2> HIDE DEF T
  <2>4. ASSUME NEW k \in DOMAIN callers PROVE CallerOK(T, callers[k], orderly)
    <3>1. \A j, state : Is(T, j, state) <=> Is(store, j, state)
      BY <2>3 DEF Is
    <3>2. CallerOK(store, callers[k], orderly)
      BY InvIs, CallersAre
    <3>3. callers[k].kind = "all" => AllOK(T, callers[k])
      BY <2>3, <3>1, <3>2 DEF CallerOK, AllOK
    <3> QED BY <2>2, <2>3, <3>1, <3>2, <3>3 DEF CallerOK
  <2>5. Suits(T, callers, orderly)
    BY <2>2, <2>3, <2>4 DEF Suits
  <2>6. Good(T, callers, orderly)
    BY <2>3, <2>5, InvIs, StayKeeps
  <2> QED BY <1>1, <2>1, <2>6, InvIs, InvFollows
<1>7. CASE store.instances[i].state # "freed" /\ ~store.instances[i].installed
  <2>1. callers' = Front(callers) /\ raised' = "error" /\ UNCHANGED store
    BY <1>7 DEF MakeInitializes, Instance
  <2> QED BY <1>1, <1>5, <2>1, InvFollows DEF Raised
<1>8. CASE store.instances[i].state # "freed" /\ store.instances[i].installed
  <2>1. Send(Append(Front(callers), D), Opened(store, i), "init", i)
    <3>1. Initialize(Here, store)
      BY <1>8 DEF MakeInitializes, Instance
    <3> QED BY <3>1 DEF Initialize, Opened
  <2>2. Is(store, i, "live")
    <3>1. store.instances[i].state \in {"live", "garbage", "freed"}
      BY <1>3, InvIs, StoreFields
    <3>2. ~Is(store, i, "garbage")
      BY <1>3, <1>8, InvIs DEF StoreOK, StatesOK
    <3> QED BY <1>3, <1>8, <3>1, <3>2 DEF Is
  <2>3. D \in Caller /\ D.kind = "make" /\ D.phase = "initialized" /\ D.id = i
    BY <1>1, <1>2 DEF Caller
  <2>4. /\ orderly => Quiet(Front(callers))
        /\ Front(callers) # << >> => Last(Front(callers)).phase \notin {"created", "replaced"}
    BY <1>1, FrontIsQuiet
  <2> HIDE DEF D, i
  <2>5. Good(store', callers', orderly) /\ raised' \in Raised
    BY <1>3, <1>5, <1>8, <2>1, <2>2, <2>3, <2>4, InvIs, OpenKeeps
  <2> QED BY <1>1, <2>5, InvFollows
<1> QED BY <1>6, <1>7, <1>8

LEMMA InitializedKeeps ==
    ASSUME IInv, Initialized
    PROVE  IInv'
<1> DEFINE C == Here
           i == Here.id
           T == Closed(store, i)
<1>1. /\ callers # << >> /\ C.kind \in {"make", "initialize"} /\ C.phase = "initialized"
      /\ callers' = Front(callers) /\ UNCHANGED <<raised, orderly>>
      /\ store' = T \/ (C.kind = "make" /\ store' = QuashInstance(T, i))
  BY DEF Initialized, Resumes, Closed
<1>2. C \in Caller /\ CallerOK(store, C, orderly)
  BY <1>1, HereIs
<1>3. /\ i \in DOMAIN store.instances /\ i \in Nat /\ Is(store, i, "live")
      /\ \A j : Holds(C, j) <=> j = i
      /\ ~Owns(C) /\ ~Keeps(C)
  BY <1>1, <1>2 DEF CallerOK, Caller, Holds, Owns, Keeps
<1>4. store.instances[i].busy \in Nat /\ store.instances[i].busy > 0
  BY <1>1, <1>3, InvIs, Held DEF Here
<1>5. PICK J \in InstanceRecord :
         /\ Touched(store, T, i, J) /\ J.installed /\ store.instances[i].busy = J.busy + 1
         /\ StoreOK(T)
  BY <1>3, <1>4, InvIs, ClosedIs
<1> HIDE DEF T
<1>6. \A k \in DOMAIN Front(callers) :
         ~(Front(callers)[k].phase = "initialized" /\ Front(callers)[k].id = i)
  BY <1>1, HereIs DEF Under
<1> HIDE DEF C, i
<1>7. /\ DOMAIN T.instances = DOMAIN store.instances /\ T.instances[i] = J
      /\ \A j \in DOMAIN store.instances : j # i => T.instances[j] = store.instances[j]
      /\ T.garbage = store.garbage /\ T.maintain = store.maintain
  BY <1>5 DEF Touched, Alike
<1>8. Sheds(store, T, C)
  <2>1. ASSUME NEW j \in DOMAIN store.instances
        PROVE  store.instances[j].busy = T.instances[j].busy + IF Holds(C, j) THEN 1 ELSE 0
    <3>1. store.instances[j].busy \in Nat
      BY InvIs, StoreFields
    <3>2. CASE j = i
      BY <1>3, <1>5, <1>7, <3>2
    <3>3. CASE j # i
      BY <1>3, <1>7, <3>1, <3>3
    <3> QED BY <3>2, <3>3
  <2>2. Len(store.garbage) \in Nat /\ store.maintain \in BOOLEAN
    BY InvIs, StoreFields
  <2> QED BY <1>3, <1>7, <2>1, <2>2 DEF Sheds
<1>9. Suits(T, Front(callers), orderly)
  BY <1>1, <1>3, <1>5, <1>6, InvIs, BelowSuits, TouchSuits
<1>10. Good(T, Front(callers), orderly)
  <2>1. C = Last(callers) /\ T \in Store
    BY <1>5 DEF C, Here, StoreOK
  <2> QED BY <1>1, <1>8, <1>9, <2>1, InvIs, PopKeeps
<1>11. CASE store' = T
  BY <1>1, <1>10, <1>11, InvIs, InvFollows
<1>12. CASE C.kind = "make" /\ store' = QuashInstance(T, i)
  <2>1. /\ orderly => Quiet(Front(callers))
        /\ Front(callers) # << >> => Last(Front(callers)).phase \notin {"created", "replaced"}
    BY <1>1, <1>12, FrontIsQuiet DEF C
  <2>2. orderly => \A k \in DOMAIN Front(callers) : Front(callers)[k].phase \notin {"created", "replaced"}
    BY <1>10, <2>1, NobodyMakes DEF Good
  <2>3. Spared(Front(callers), i, orderly)
    BY <2>2 DEF Spared
  <2>4. Good(QuashInstance(T, i), Front(callers), orderly)
    BY <1>3, <1>7, <1>10, <2>3, QuashStays
  <2> QED BY <1>1, <1>12, <2>4, InvIs, InvFollows
<1> QED BY <1>1, <1>11, <1>12
-----------------------------------------------------------------------------
(* Deleting one and all.                                                   *)

LEMMA UnmakeReturnsKeeps ==
    ASSUME IInv, UnmakeReturns
    PROVE  IInv'
<1>1. /\ callers # << >> /\ Keeps(Last(callers)) /\ callers' = Front(callers)
      /\ store' = Released(store, Last(callers).maintain) /\ UNCHANGED <<raised, orderly>>
  BY DEF UnmakeReturns, Resumes, Here, Keeps
<1>2. Good(store', callers', orderly)
  BY <1>1, InvIs, KeeperEnds
<1> QED BY <1>1, <1>2, InvIs, InvFollows

\* A call that keeps garbage begins, from a handler or a command, and sends delete.
LEMMA KeeperSends ==
    ASSUME IInv, Evaluates, Allowed, NEW C \in Caller, C.kind \in {"unmake", "all"}, C.phase = "sent",
           C.maintain = store.maintain, NEW i \in DOMAIN store.instances, Is(store, i, "live"),
           CallerOK(Maintained(store), C, orderly),
           Send(Append(callers, C), Maintained(store), "delete", i)
    PROVE  Good(store', callers', orderly) /\ raised' \in Raised
<1> DEFINE T == Maintained(store)
           M == Call("message", "delete", i)
<1>1. orderly => Quiet(callers)
  BY DEF Allowed, Quiet
<1>2. callers # << >> => Last(callers).kind = "message" /\ Last(callers).phase \notin {"created", "replaced"}
  BY Evaluating DEF Here, Messages3
<1>3. Keeps(C) /\ \A j : ~Holds(C, j)
  BY DEF Keeps, Holds
<1>4. Fitting(callers, C, orderly)
  <2>1. \A k \in DOMAIN callers : Under(callers[k], C, orderly)
    BY <1>1 DEF Under, Quiet
  <2>2. callers # << >> => Calls(callers[Len(callers)], C)
    BY <1>2, HereIs DEF Calls, Here
  <2> QED BY <2>1, <2>2 DEF Fitting
<1>5. Good(T, Append(callers, C), orderly)
  BY <1>3, <1>4, InvIs, KeeperStarts
<1>6. T.instances = store.instances
  BY InvIs, MaintainedIs
<1> HIDE DEF T
<1>7. M.kind = "message" /\ M.phase = "delete" /\ M.id = i
  BY DEF Call
<1> HIDE DEF M
<1>8. /\ Append(callers, C) # << >> /\ Last(Append(callers, C)) = C
      /\ DOMAIN Append(callers, C) = 1 .. Len(callers) + 1 /\ Len(callers) \in Nat
      /\ DOMAIN callers = 1 .. Len(callers) /\ Append(callers, C)[Len(callers) + 1] = C
      /\ \A k \in 1 .. Len(callers) : Append(callers, C)[k] = callers[k]
  <2>1. /\ Append(callers, C) \in Seq(Caller) /\ Len(Append(callers, C)) = Len(callers) + 1
        /\ DOMAIN Append(callers, C) = 1 .. Len(callers) + 1 /\ Len(callers) \in Nat
        /\ DOMAIN callers = 1 .. Len(callers) /\ Append(callers, C)[Len(callers) + 1] = C
        /\ \A k \in 1 .. Len(callers) : Append(callers, C)[k] = callers[k]
    BY InvIs, PushIs
  <2>2. Append(callers, C) # << >>
    BY <2>1
  <2> QED BY <2>1, <2>2 DEF Last
<1>9. orderly => Quiet(Append(callers, C))
  <2>1. ASSUME orderly, NEW k \in DOMAIN Append(callers, C)
        PROVE  ~(Append(callers, C)[k].kind = "message" /\ Append(callers, C)[k].phase \in {"create", "delete"})
    <3>1. k \in 1 .. Len(callers) \/ k = Len(callers) + 1
      BY <1>8
    <3> QED BY <1>1, <1>8, <2>1, <3>1 DEF Quiet
  <2> QED BY <2>1 DEF Quiet
<1>10. Fitting(Append(callers, C), M, orderly)
  <2>1. Calls(C, M)
    BY <1>7 DEF Calls
  <2> QED BY <1>5, <1>7, <1>8, <1>9, <2>1, CreatingFits
<1>11. Fitting(Append(callers, C), Call("message", "delete", i), orderly)
  BY <1>10 DEF M
<1>12. i \in DOMAIN T.instances /\ ~Is(T, i, "freed")
  BY <1>6 DEF Is
<1>13. Send(Append(callers, C), T, "delete", i)
  BY DEF T
<1> QED BY <1>5, <1>11, <1>12, <1>13, InvIs, SendKeeps DEF Messages3

LEMMA UnmakeInstanceKeeps ==
    ASSUME IInv, NEW name \in InstanceName, UnmakeInstance(name)
    PROVE  IInv'
<1> DEFINE i == FindInstanceBySymbol(store, name)
           C == Call("unmake", "sent", i)
<1>1. /\ Evaluates /\ i # None0 /\ Allowed /\ UNCHANGED orderly
      /\ Send(Append(callers, C), Maintained(store), "delete", i)
  BY DEF UnmakeInstance
<1> HIDE DEF i
<1>2. i \in DOMAIN store.instances /\ Is(store, i, "live") /\ i \in Nat
  BY <1>1, FoundIs DEF i
<1>3. C \in Caller /\ C.kind = "unmake" /\ C.phase = "sent" /\ C.maintain = store.maintain
  BY <1>2, InvIs, CallerIs DEF Call
<1> HIDE DEF C
<1>4. CallerOK(Maintained(store), C, orderly)
  BY <1>3 DEF CallerOK
<1>5. Good(store', callers', orderly) /\ raised' \in Raised
  BY <1>1, <1>2, <1>3, <1>4, KeeperSends
<1> QED BY <1>1, <1>5, InvFollows

LEMMA UnmakeAllInstancesKeeps ==
    ASSUME IInv, UnmakeAllInstances
    PROVE  IInv'
<1> DEFINE i == Head(store.list)
           due == ToSet(Tail(store.list))
           T == Maintained(store)
           C == [Call("all", "sent", i) EXCEPT !.due = due]
<1>1. /\ Evaluates /\ Allowed /\ store.list # << >> /\ UNCHANGED orderly
      /\ Send(Append(callers, C), T, "delete", i)
  BY DEF UnmakeAllInstances
<1>2. /\ store.list \in Seq(Nat) /\ Ascends(store.list)
      /\ \A x \in Nat : In(x, store.list) <=> Is(store, x, "live")
  BY InvIs, StoreFields DEF StoreOK, ListOK
<1>3. /\ Len(store.list) \in Nat /\ Len(store.list) > 0 /\ DOMAIN store.list = 1 .. Len(store.list)
      /\ i = store.list[1] /\ Tail(store.list) \in Seq(Nat) /\ Len(Tail(store.list)) = Len(store.list) - 1
      /\ \A k \in 1 .. Len(store.list) - 1 : Tail(store.list)[k] = store.list[k + 1]
  <2>1. Len(store.list) \in Nat /\ Len(store.list) > 0
    BY <1>1, <1>2
  <2> QED BY <1>1, <1>2, <2>1
<1>4. \A x : x \in due <=> \E k \in 2 .. Len(store.list) : x = store.list[k]
  <2> DEFINE n == Len(store.list)
  <2>1. due = {Tail(store.list)[k] : k \in 1 .. n - 1}
    <3> DEFINE t == Tail(store.list)
    <3>1. t \in Seq(Nat) /\ Len(t) = n - 1
      BY <1>3
    <3>2. DOMAIN t = 1 .. n - 1
      <4> HIDE DEF t
      <4> QED BY <3>1
    <3>3. due = {t[k] : k \in DOMAIN t}
      BY DEF ToSet
    <3> HIDE DEF t, due
    <3>4. due = {t[k] : k \in 1 .. n - 1}
      BY <3>2, <3>3
    <3> QED BY <3>4 DEF t
  <2>2. \A k \in 1 .. n - 1 : k + 1 \in 2 .. n
    BY <1>3
  <2>3. \A k \in 2 .. n : k - 1 \in 1 .. n - 1 /\ (k - 1) + 1 = k
    BY <1>3
  <2> HIDE DEF n, due
  <2>4. \A k \in 1 .. n - 1 : Tail(store.list)[k] = store.list[k + 1]
    BY <1>3 DEF n
  <2>5. \A k \in 2 .. n : Tail(store.list)[k - 1] = store.list[k]
    BY <2>3, <2>4
  <2> QED BY <2>1, <2>2, <2>3, <2>4, <2>5 DEF n
<1> HIDE DEF due, i
<1>5. i \in Nat /\ Is(store, i, "live") /\ i \in DOMAIN store.instances
  <2>1. 1 \in DOMAIN store.list
    BY <1>3
  <2> QED BY <1>2, <1>3, <2>1 DEF In, Is
<1>6. \A x \in due : x \in Nat /\ Is(store, x, "live") /\ x \in DOMAIN store.instances /\ i < x
  <2>1. \A k \in 2 .. Len(store.list) : k \in DOMAIN store.list /\ 1 \in DOMAIN store.list /\ 1 < k
    BY <1>3
  <2>2. ASSUME NEW k \in 2 .. Len(store.list)
        PROVE  /\ store.list[k] \in Nat /\ Is(store, store.list[k], "live")
               /\ i < store.list[k]
    <3>1. store.list[k] \in Nat /\ In(store.list[k], store.list)
      BY <1>2, <2>1 DEF In
    <3>2. i < store.list[k]
      BY <1>2, <1>3, <2>1 DEF Ascends
    <3> QED BY <1>2, <3>1, <3>2
  <2> QED BY <1>4, <2>2 DEF Is
<1>7. \A x \in Nat : Is(store, x, "live") /\ i < x => x \in due
  <2>1. ASSUME NEW x \in Nat, Is(store, x, "live"), i < x PROVE x \in due
    <3>1. PICK k \in DOMAIN store.list : store.list[k] = x
      BY <1>2, <2>1 DEF In
    <3>2. k # 1
      BY <1>3, <1>5, <2>1, <3>1
    <3>3. k \in 2 .. Len(store.list)
      BY <1>3, <3>2
    <3> QED BY <1>4, <3>1, <3>3
  <2> QED BY <2>1
<1>8. T.instances = store.instances
  BY InvIs, MaintainedIs
<1>9. DOMAIN store.instances \subseteq Nat
  BY InvIs, StoreFields
<1>10. due \subseteq Nat
  BY <1>6
<1>11. C \in Caller /\ C.kind = "all" /\ C.phase = "sent" /\ C.maintain = store.maintain
       /\ C.id = i /\ C.due = due
  <2>1. store.maintain \in BOOLEAN
    BY InvIs, StoreFields
  <2> QED BY <1>5, <1>10, <2>1 DEF Call, Caller, None0
<1> HIDE DEF C, T
<1>12. \A x, state : Is(T, x, state) <=> Is(store, x, state)
  BY <1>8 DEF Is
<1>13. AllOK(T, C)
  <2>1. \A x \in due \cup {i} : ~Is(store, x, "freed") /\ ~Is(store, x, "garbage")
    BY <1>5, <1>6 DEF Is
  <2>2. C.id \in DOMAIN T.instances /\ ~Is(T, C.id, "freed")
    BY <1>5, <1>8, <1>11, <1>12, <2>1
  <2>3. \A x \in C.due : x \in DOMAIN T.instances /\ ~Is(T, x, "freed")
    BY <1>6, <1>8, <1>11, <1>12, <2>1
  <2>4. ASSUME NEW x \in C.due, Is(T, x, "live")
        PROVE  /\ C.id < x
               /\ \A j \in DOMAIN T.instances : Is(T, j, "live") /\ C.id < j /\ j < x => j \in C.due
               /\ \A j \in C.due \cup {C.id} :
                     Is(T, j, "garbage") /\ C.id <= j /\ j < x =>
                        T.instances[j].next \in C.due /\ j < T.instances[j].next
                        /\ T.instances[j].next <= x
    BY <1>6, <1>7, <1>8, <1>9, <1>11, <1>12, <2>1
  <2> QED BY <2>2, <2>3, <2>4 DEF AllOK
<1>14. CallerOK(T, C, orderly)
  BY <1>11, <1>13 DEF CallerOK
<1>15. Good(store', callers', orderly) /\ raised' \in Raised
  <2>1. CallerOK(Maintained(store), C, orderly)
    BY <1>14 DEF T
  <2>2. Send(Append(callers, C), Maintained(store), "delete", i)
    BY <1>1 DEF T, C
  <2> QED BY <1>1, <1>5, <1>11, <2>1, <2>2, KeeperSends
<1> QED BY <1>1, <1>15, InvFollows
-----------------------------------------------------------------------------
(* Past what is garbage.                                                   *)

\* Links that lead up end.
Links(n, stop, g) == \A j \in 1 .. n : j \notin stop => g[j] \in {0} \cup (j + 1 .. n)
Follows(f, n, stop, g) ==
    f = [j \in 0 .. n |-> IF j = 0 THEN 0 ELSE IF j \in stop THEN j ELSE f[g[j]]]

LEMMA LinksEnd ==
    ASSUME NEW n \in Nat, NEW stop, NEW g, Links(n, stop, g)
    PROVE  \E f : Follows(f, n, stop, g)
<1> DEFINE Step(f, j) == IF j = 0 THEN 0 ELSE IF j \in stop THEN j ELSE f[g[j]]
           Dom(m) == {j \in 0 .. n : j = 0 \/ j > n - m}
           T == {m \in 0 .. n : \E f : f = [j \in Dom(m) |-> Step(f, j)]}
<1> USE DEF Links
<1>1. 0 \in T
  <2>1. \A j \in Dom(0) : j = 0
    OBVIOUS
  <2> DEFINE F == [j \in Dom(0) |-> 0]
  <2>2. F = [j \in Dom(0) |-> Step(F, j)]
    BY <2>1
  <2>3. 0 \in 0 .. n
    OBVIOUS
  <2> HIDE DEF F, Dom, Step
  <2> QED BY <2>2, <2>3
<1>2. ASSUME NEW m \in 0 .. n - 1, m \in T PROVE m + 1 \in T
  <2>1. PICK F : F = [j \in Dom(m) |-> Step(F, j)]
    BY <1>2
  <2> DEFINE k == n - m
             G == [j \in Dom(m + 1) |-> IF j = k THEN (IF k \in stop THEN k ELSE F[g[k]]) ELSE F[j]]
  <2>2. /\ k \in 1 .. n /\ k \in Dom(m + 1) /\ k # 0 /\ k \notin Dom(m)
        /\ \A j \in Dom(m + 1) : j # k => j \in Dom(m)
        /\ \A j \in Dom(m) : j \in Dom(m + 1) /\ j # k
        /\ \A j \in Dom(m) : j # 0 /\ j \notin stop => g[j] \in Dom(m)
        /\ k \notin stop => g[k] \in Dom(m)
    <3>1. k \in 1 .. n /\ k \in Dom(m + 1) /\ k # 0 /\ k \notin Dom(m)
      OBVIOUS
    <3>2. \A j \in Dom(m + 1) : j # k => j \in Dom(m)
      OBVIOUS
    <3>3. \A j \in Dom(m) : j \in Dom(m + 1) /\ j # k
      OBVIOUS
    <3>4. \A j \in Dom(m) : j # 0 /\ j \notin stop => g[j] \in Dom(m)
      OBVIOUS
    <3>5. k \notin stop => g[k] \in Dom(m)
      <4>1. k \notin stop => g[k] \in {0} \cup (k + 1 .. n)
        BY <3>1
      <4>2. \A j \in {0} \cup (k + 1 .. n) : j \in Dom(m)
        OBVIOUS
      <4> QED BY <4>1, <4>2
    <3> QED BY <3>1, <3>2, <3>3, <3>4, <3>5
  <2>3. m + 1 \in 0 .. n
    OBVIOUS
  <2> HIDE DEF Dom, k
  <2>4. ASSUME NEW j \in Dom(m + 1) PROVE G[j] = Step(G, j)
    <3>1. CASE j = k
      BY <2>2, <3>1
    <3>2. CASE j # k
      <4>1. j \in Dom(m) /\ G[j] = F[j]
        BY <2>2, <3>2
      <4>2. F[j] = Step(F, j)
        <5> HIDE DEF Step
        <5> QED BY <2>1, <4>1
      <4>3. j # 0 /\ j \notin stop => G[g[j]] = F[g[j]]
        BY <2>2, <4>1
      <4> HIDE DEF G
      <4> QED BY <4>1, <4>2, <4>3
    <3> QED BY <3>1, <3>2
  <2>5. G = [j \in Dom(m + 1) |-> Step(G, j)]
    <3> HIDE DEF Step
    <3> QED BY <2>4
  <2> HIDE DEF G, Step
  <2> QED BY <2>3, <2>5
<1>3. n \in T
  <2> HIDE DEF T
  <2>1. \A m \in 0 .. n : m \in T
    BY <1>1, <1>2, UpTo
  <2> QED BY <2>1
<1>4. Dom(n) = 0 .. n
  OBVIOUS
<1> HIDE DEF Dom
<1>5. PICK f : f = [j \in 0 .. n |-> Step(f, j)]
  BY <1>3, <1>4
<1> QED BY <1>5 DEF Follows

LEMMA NxtListIs ==
    ASSUME NEW S, StoreOK(S), NEW j \in DOMAIN S.instances
    PROVE  /\ Is(S, j, "live") => NxtList(S, j) = NextIn(S.list, j)
           /\ ~Is(S, j, "live") => NxtList(S, j) = S.instances[j].next
           /\ NxtList(S, j) \in {None0} \cup (j + 1 .. Len(S.instances))
<1>1. j \in Nat /\ S.list \in Seq(Nat)
  BY StoreFields DEF StoreOK
<1>2. Contains(S.list, j) <=> In(j, S.list)
  <2>1. DOMAIN S.list = 1 .. Len(S.list)
    BY <1>1
  <2> QED BY <2>1 DEF Contains, In
<1>3. In(j, S.list) <=> Is(S, j, "live")
  BY <1>1 DEF StoreOK, ListOK
<1>4. NxtList(S, j) = IF Is(S, j, "live") THEN NextIn(S.list, j) ELSE S.instances[j].next
  BY <1>2, <1>3 DEF NxtList, Instance
<1>5. Is(S, j, "live") => NextIn(S.list, j) \in {None0} \cup (j + 1 .. Len(S.instances))
  BY ListMeans
<1>6. S.instances[j].next \in {None0} \cup (j + 1 .. Len(S.instances))
  BY DEF StoreOK, NextOK
<1> QED BY <1>4, <1>5, <1>6

Past(S, f) ==
    \A j \in 0 .. Len(S.instances) :
        f[j] = IF j = 0 THEN 0 ELSE IF Is(S, j, "live") THEN j ELSE f[NxtList(S, j)]

LEMMA PastIs ==
    ASSUME NEW S, StoreOK(S), NEW i \in 0 .. Len(S.instances)
    PROVE  \E f : Past(S, f) /\ PastGarbage(S, i) = f[i]
<1> DEFINE n == Len(S.instances)
           stop == {j \in 1 .. n : Is(S, j, "live")}
           g == [j \in 1 .. n |-> NxtList(S, j)]
           Step(f, j) == IF j = None0 THEN None0
                         ELSE IF Instance(S, j).state = "live" THEN j ELSE f[NxtList(S, j)]
           past == CHOOSE f : f = [j \in 0 .. n |-> Step(f, j)]
<1>1. n \in Nat /\ DOMAIN S.instances = 1 .. n
  BY StoreFields DEF StoreOK
<1>2. \A j \in 1 .. n : g[j] \in {0} \cup (j + 1 .. n)
  BY <1>1, NxtListIs DEF None0
<1>3. \E f : Follows(f, n, stop, g)
  <2> HIDE DEF n, stop, g
  <2>1. Links(n, stop, g)
    BY <1>2 DEF Links
  <2> QED BY <1>1, <2>1, LinksEnd
<1>4. ASSUME NEW f, NEW j \in 0 .. n
      PROVE  (IF j = 0 THEN 0 ELSE IF j \in stop THEN j ELSE f[g[j]]) = Step(f, j)
  <2>1. j # 0 => j \in 1 .. n /\ g[j] = NxtList(S, j) /\ (j \in stop <=> Instance(S, j).state = "live")
    BY <1>1 DEF Is, Instance
  <2> QED BY <2>1 DEF None0
<1> HIDE DEF n, stop, g
<1>5. \E f : f = [j \in 0 .. n |-> Step(f, j)]
  <2>1. PICK f : f = [j \in 0 .. n |-> IF j = 0 THEN 0 ELSE IF j \in stop THEN j ELSE f[g[j]]]
    BY <1>3 DEF Follows
  <2> HIDE DEF Step
  <2>2. f = [j \in 0 .. n |-> Step(f, j)]
    BY <1>4, <2>1
  <2> QED BY <2>2
<1>6. past = [j \in 0 .. n |-> Step(past, j)]
  <2> HIDE DEF Step
  <2> QED BY <1>5
<1>7. PastGarbage(S, i) = past[i]
  BY DEF PastGarbage, n
<1> HIDE DEF past
<1>8. Past(S, past)
  <2>1. \A j \in 0 .. n : past[j] = Step(past, j)
    <3> HIDE DEF Step
    <3> QED BY <1>6
  <2>2. \A j \in 0 .. n : j # 0 => (Is(S, j, "live") <=> Instance(S, j).state = "live")
    BY <1>1 DEF Is, Instance
  <2> QED BY <2>1, <2>2 DEF Past, n, None0
<1> QED BY <1>7, <1>8

\* Whoever goes on finds nobody, or one that lives.
LEMMA PastLives ==
    ASSUME NEW S, StoreOK(S), NEW f, Past(S, f), NEW i \in 0 .. Len(S.instances)
    PROVE  f[i] = 0 \/ (f[i] \in DOMAIN S.instances /\ Is(S, f[i], "live"))
<1> DEFINE n == Len(S.instances)
           Well(j) == f[j] = 0 \/ (f[j] \in DOMAIN S.instances /\ Is(S, f[j], "live"))
           T == {m \in 0 .. n : \A j \in 0 .. n : j = 0 \/ j > n - m => Well(j)}
<1>1. n \in Nat /\ DOMAIN S.instances = 1 .. n
  BY StoreFields DEF StoreOK
<1>2. ASSUME NEW j \in 0 .. n, j # 0 => Is(S, j, "live") \/ Well(NxtList(S, j)) PROVE Well(j)
  BY <1>2 DEF Past, Is
<1> HIDE DEF Well
<1>3. 0 \in T
  <2>1. Well(0) /\ 0 \in 0 .. n
    BY <1>1, <1>2
  <2>2. \A j \in 0 .. n : j = 0 \/ j > n - 0 => j = 0
    BY <1>1
  <2> QED BY <2>1, <2>2
<1>4. ASSUME NEW m \in 0 .. n - 1, m \in T PROVE m + 1 \in T
  <2>1. m + 1 \in 0 .. n
    BY <1>1
  <2>2. ASSUME NEW j \in 0 .. n, j = 0 \/ j > n - (m + 1) PROVE Well(j)
    <3>1. ASSUME j # 0 PROVE Well(NxtList(S, j))
      <4>1. NxtList(S, j) \in {0} \cup (j + 1 .. n)
        BY <1>1, <3>1, NxtListIs DEF None0
      <4>2. \A x \in {0} \cup (j + 1 .. n) : x \in 0 .. n /\ (x = 0 \/ x > n - m)
        BY <1>1, <2>2, <3>1
      <4>3. \A x \in 0 .. n : x = 0 \/ x > n - m => Well(x)
        BY <1>4
      <4> QED BY <4>1, <4>2, <4>3
    <3> QED BY <1>2, <3>1
  <2> QED BY <2>1, <2>2
<1>5. n \in T
  <2> HIDE DEF T, n
  <2>1. \A m \in 0 .. n : m \in T
    BY <1>1, <1>3, <1>4, UpTo
  <2> QED BY <1>1, <2>1
<1>6. Well(i)
  <2>1. i = 0 \/ i > n - n
    BY <1>1
  <2> QED BY <1>5, <2>1
<1> QED BY <1>6 DEF Well

\* And whoever deletes all comes to one that is due, before all others that are.
LEMMA PastDue ==
    ASSUME NEW S, StoreOK(S), NEW C, AllOK(S, C), NEW x \in C.due, Is(S, x, "live"),
           NEW f, Past(S, f)
    PROVE  /\ NxtList(S, C.id) \in 0 .. Len(S.instances)
           /\ f[NxtList(S, C.id)] \in C.due /\ f[NxtList(S, C.id)] <= x
<1> DEFINE n == Len(S.instances)
           On(j) == C.id < j /\ j <= x /\ j \in C.due
           T == {m \in 0 .. n : \A j \in 0 .. n : j > n - m /\ On(j) => f[j] \in C.due /\ f[j] <= x}
           i == C.id
<1>1. n \in Nat /\ DOMAIN S.instances = 1 .. n
  BY StoreFields DEF StoreOK
<1>2. /\ i \in 1 .. n /\ x \in 1 .. n /\ i < x /\ ~Is(S, i, "freed")
      /\ \A j \in C.due : j \in 1 .. n /\ ~Is(S, j, "freed")
      /\ \A j \in 1 .. n : Is(S, j, "live") /\ i < j /\ j < x => j \in C.due
      /\ \A j \in C.due \cup {i} :
            Is(S, j, "garbage") /\ i <= j /\ j < x =>
                S.instances[j].next \in C.due /\ j < S.instances[j].next
                /\ S.instances[j].next <= x
  BY <1>1 DEF AllOK
<1>3. \A j \in 1 .. n : Is(S, j, "live") \/ Is(S, j, "garbage") \/ Is(S, j, "freed")
  BY <1>1, StoreFields DEF StoreOK, Is
<1> HIDE DEF n, i
<1>4. ASSUME NEW j \in 1 .. n, j = i \/ (On(j) /\ ~Is(S, j, "live"))
      PROVE  On(NxtList(S, j)) /\ NxtList(S, j) > j
  <2>1. i <= j /\ j < x /\ j \in C.due \cup {i} /\ ~Is(S, j, "freed")
    <3>1. j # x \/ j = i
      BY <1>4
    <3> QED BY <1>2, <1>4, <3>1 DEF i
  <2>2. CASE Is(S, j, "live")
    <3>1. NxtList(S, j) = NextIn(S.list, j) /\ j \in DOMAIN S.instances /\ x \in Nat
      BY <1>1, <1>2, <2>2, NxtListIs
    <3>2. /\ NextIn(S.list, j) = None0 => \A y \in Nat : Is(S, y, "live") => y <= j
          /\ NextIn(S.list, j) # None0 =>
                /\ Is(S, NextIn(S.list, j), "live") /\ j < NextIn(S.list, j)
                /\ \A y \in Nat : Is(S, y, "live") /\ j < y => NextIn(S.list, j) <= y
      BY <2>2, <3>1, ListMeans
    <3> DEFINE y == NextIn(S.list, j)
    <3>3. y # None0
      BY <1>2, <2>1, <3>1, <3>2
    <3>4. Is(S, y, "live") /\ j < y /\ y <= x /\ y \in 1 .. n
      BY <1>1, <2>1, <3>1, <3>2, <3>3 DEF Is
    <3> HIDE DEF y
    <3>5. y \in C.due /\ i < y
      BY <1>2, <2>1, <3>4
    <3> QED BY <3>1, <3>4, <3>5 DEF y, i
  <2>3. CASE ~Is(S, j, "live")
    <3>1. NxtList(S, j) = S.instances[j].next /\ Is(S, j, "garbage")
      BY <1>1, <1>3, <2>1, <2>3, NxtListIs
    <3>2. S.instances[j].next \in C.due /\ j < S.instances[j].next /\ S.instances[j].next <= x
      BY <1>2, <2>1, <3>1
    <3>3. i < S.instances[j].next
      BY <1>2, <2>1, <3>2
    <3> QED BY <3>1, <3>2, <3>3 DEF i
  <2> QED BY <2>2, <2>3
<1>5. \A j : On(j) => j \in 1 .. n
  BY <1>2
<1>6. ASSUME NEW j \in 0 .. n, On(j), ~Is(S, j, "live") => f[NxtList(S, j)] \in C.due /\ f[NxtList(S, j)] <= x
      PROVE  f[j] \in C.due /\ f[j] <= x
  <2>1. f[j] = IF Is(S, j, "live") THEN j ELSE f[NxtList(S, j)]
    <3>1. j # 0
      BY <1>1, <1>5, <1>6
    <3> QED BY <3>1 DEF Past, n
  <2> QED BY <1>6, <2>1
<1> HIDE DEF On
<1>7. 0 \in T
  <2>1. \A j \in 0 .. n : ~(j > n - 0)
    BY <1>1
  <2>2. 0 \in 0 .. n
    BY <1>1
  <2> QED BY <2>1, <2>2
<1>8. ASSUME NEW m \in 0 .. n - 1, m \in T PROVE m + 1 \in T
  <2>1. m + 1 \in 0 .. n
    BY <1>1
  <2>2. ASSUME NEW j \in 0 .. n, j > n - (m + 1), On(j) PROVE f[j] \in C.due /\ f[j] <= x
    <3>1. ASSUME ~Is(S, j, "live") PROVE f[NxtList(S, j)] \in C.due /\ f[NxtList(S, j)] <= x
      <4>1. On(NxtList(S, j)) /\ NxtList(S, j) > j /\ NxtList(S, j) \in 1 .. n
        BY <1>4, <1>5, <2>2, <3>1
      <4> DEFINE y == NxtList(S, j)
      <4>2. y \in 0 .. n /\ y > n - m /\ On(y)
        <5>1. y \in 1 .. n /\ y > j /\ On(y)
          BY <4>1
        <5> HIDE DEF y
        <5> QED BY <1>1, <2>2, <5>1
      <4> HIDE DEF y
      <4>3. f[y] \in C.due /\ f[y] <= x
        BY <1>8, <4>2
      <4> QED BY <4>3 DEF y
    <3> QED BY <1>6, <2>2, <3>1
  <2> QED BY <2>1, <2>2
<1>9. n \in T
  <2> HIDE DEF T
  <2>1. \A m \in 0 .. n : m \in T
    BY <1>1, <1>7, <1>8, UpTo
  <2> QED BY <1>1, <2>1
<1> DEFINE y == NxtList(S, i)
<1>10. On(y) /\ y \in 1 .. n
  BY <1>2, <1>4, <1>5
<1> HIDE DEF y
<1>11. y \in 0 .. n /\ y > n - n
  BY <1>1, <1>10
<1>12. f[y] \in C.due /\ f[y] <= x
  BY <1>9, <1>10, <1>11
<1> QED BY <1>11, <1>12 DEF y, i, n

LEMMA UnmakeAllGoesOnKeeps ==
    ASSUME IInv, UnmakeAllGoesOn
    PROVE  IInv'
<1> DEFINE C == Here
           next == PastGarbage(store, NxtList(store, Here.id))
           D == [Here EXCEPT !.id = next, !.due = @ \ {next}]
           M == Call("message", "delete", next)
<1>1. /\ callers # << >> /\ C.kind = "all" /\ C.phase = "sent" /\ UNCHANGED orderly
      /\ IF next = None0
         THEN store' = Released(store, C.maintain) /\ callers' = Front(callers) /\ UNCHANGED raised
         ELSE Send(Append(Front(callers), D), store, "delete", next)
  BY DEF UnmakeAllGoesOn, Resumes
<1>2. C \in Caller /\ CallerOK(store, C, orderly) /\ C = Last(callers) /\ Keeps(C)
  BY <1>1, HereIs DEF Here, Keeps
<1>3. AllOK(store, C)
  BY <1>1, <1>2 DEF CallerOK
<1>4. CASE next = None0
  <2>1. store' = Released(store, Last(callers).maintain) /\ callers' = Front(callers) /\ UNCHANGED raised
    BY <1>1, <1>2, <1>4
  <2>2. Good(store', callers', orderly)
    <3>1. Keeps(Last(callers))
      BY <1>2
    <3> QED BY <1>1, <2>1, <3>1, InvIs, KeeperEnds
  <2> QED BY <1>1, <2>1, <2>2, InvIs, InvFollows
<1>5. CASE next # None0
  <2>1. Send(Append(Front(callers), D), store, "delete", next)
    BY <1>1, <1>5
  <2> DEFINE y == NxtList(store, C.id)
  <2>2. y \in 0 .. Len(store.instances) /\ DOMAIN store.instances \subseteq Nat
    <3>1. C.id \in DOMAIN store.instances
      BY <1>3 DEF AllOK
    <3>2. DOMAIN store.instances = 1 .. Len(store.instances) /\ Len(store.instances) \in Nat
      BY InvIs, StoreFields
    <3>3. y \in {0} \cup (C.id + 1 .. Len(store.instances))
      BY <3>1, InvIs, NxtListIs DEF None0
    <3> HIDE DEF y, C
    <3> QED BY <3>1, <3>2, <3>3
  <2>3. PICK f : Past(store, f) /\ next = f[y]
    <3>1. next = PastGarbage(store, y)
      OBVIOUS
    <3> HIDE DEF next, y
    <3> QED BY <2>2, <3>1, InvIs, PastIs
  <2> HIDE DEF next, y
  <2>4. next \in DOMAIN store.instances /\ Is(store, next, "live") /\ next \in Nat
    BY <1>5, <2>2, <2>3, InvIs, PastLives DEF None0
  <2>5. \A x \in C.due : Is(store, x, "live") => next \in C.due /\ next <= x
    <3>1. ASSUME NEW x \in C.due, Is(store, x, "live") PROVE next \in C.due /\ next <= x
      BY <1>3, <2>3, <3>1, InvIs, PastDue DEF y
    <3> QED BY <3>1
  <2>6. /\ D \in Caller /\ D.kind = "all" /\ D.phase = "sent" /\ D.id = next
        /\ D.due = C.due \ {next} /\ D.maintain = C.maintain
    BY <1>1, <1>2, <2>4 DEF Caller
  <2>7. M.kind = "message" /\ M.phase = "delete" /\ M.id = next
    BY DEF Call
  <2> HIDE DEF D, M, C
  <2>8. AllOK(store, D)
    <3>1. /\ C.id \in DOMAIN store.instances /\ C.id \in Nat /\ C.due \subseteq Nat
          /\ \A i \in C.due : i \in DOMAIN store.instances /\ ~Is(store, i, "freed")
      BY <1>3, <2>2 DEF AllOK
    <3>2. ~Is(store, next, "freed") /\ ~Is(store, next, "garbage")
      BY <2>4 DEF Is
    <3>3. ASSUME NEW i \in D.due, Is(store, i, "live")
          PROVE  /\ next < i
                 /\ \A j \in DOMAIN store.instances : Is(store, j, "live") /\ next < j /\ j < i => j \in D.due
                 /\ \A j \in D.due \cup {next} :
                       Is(store, j, "garbage") /\ next <= j /\ j < i =>
                          store.instances[j].next \in D.due /\ j < store.instances[j].next
                          /\ store.instances[j].next <= i
      <4>1. i \in C.due /\ i # next /\ i \in Nat
        BY <2>6, <3>1
      <4>2. next \in C.due /\ next < i
        BY <2>4, <2>5, <3>3, <4>1
      <4>3. C.id < next
        BY <1>3, <2>4, <4>2 DEF AllOK
      <4>4. ASSUME NEW j \in DOMAIN store.instances, Is(store, j, "live"), next < j, j < i
            PROVE  j \in D.due
        <5>1. C.id < j /\ j # next
          BY <2>2, <2>4, <3>1, <4>3, <4>4
        <5>2. j \in C.due
          BY <1>3, <3>3, <4>1, <4>4, <5>1 DEF AllOK
        <5> QED BY <2>6, <5>1, <5>2
      <4>5. ASSUME NEW j \in D.due \cup {next}, Is(store, j, "garbage"), next <= j, j < i
            PROVE  /\ store.instances[j].next \in D.due /\ j < store.instances[j].next
                   /\ store.instances[j].next <= i
        <5>1. j \in C.due /\ j \in Nat /\ C.id <= j
          BY <2>4, <2>6, <3>1, <3>2, <4>3, <4>5
        <5>2. /\ store.instances[j].next \in C.due /\ j < store.instances[j].next
              /\ store.instances[j].next <= i
          BY <1>3, <3>3, <4>1, <4>5, <5>1 DEF AllOK
        <5>3. store.instances[j].next # next
          BY <2>4, <3>1, <4>5, <5>1, <5>2
        <5> QED BY <2>6, <5>2, <5>3
      <4> QED BY <4>2, <4>4, <4>5
    <3>4. \A i \in D.due : i \in DOMAIN store.instances /\ ~Is(store, i, "freed")
      BY <2>6, <3>1
    <3> QED BY <2>4, <2>6, <3>2, <3>3, <3>4 DEF AllOK
  <2>9. CallerOK(store, D, orderly) /\ Keeps(D) /\ \A j : ~Holds(D, j)
    BY <2>6, <2>8 DEF CallerOK, Keeps, Holds
  <2>10. /\ orderly => Quiet(Front(callers))
         /\ Front(callers) # << >> => Last(Front(callers)).phase \notin {"created", "replaced"}
    BY <1>1, FrontIsQuiet DEF C
  <2>11. Fitting(Front(callers), D, orderly)
    <3>1. \A k \in DOMAIN Front(callers) : Under(Front(callers)[k], D, orderly)
      BY <2>6, <2>10 DEF Under, Quiet
    <3>2. Front(callers) # << >> => Calls(Front(callers)[Len(Front(callers))], D)
      BY <2>6, <2>10 DEF Calls, Last
    <3> QED BY <2>6, <3>1, <3>2 DEF Fitting
  <2>12. Good(store, Append(Front(callers), D), orderly)
    <3>1. Keeps(Last(callers)) /\ D.maintain = Last(callers).maintain
      BY <1>2, <2>6
    <3> QED BY <1>1, <2>6, <2>9, <2>11, <3>1, InvIs, KeeperGoesOn
  <2> DEFINE cs == Front(callers)
  <2>13. /\ Append(cs, D) # << >> /\ Last(Append(cs, D)) = D
         /\ DOMAIN Append(cs, D) = 1 .. Len(cs) + 1 /\ Len(cs) \in Nat
         /\ DOMAIN cs = 1 .. Len(cs) /\ Append(cs, D)[Len(cs) + 1] = D
         /\ \A k \in 1 .. Len(cs) : Append(cs, D)[k] = cs[k]
    <3>0. cs \in Seq(Caller)
      BY <1>1, HereIs
    <3> HIDE DEF cs
    <3>1. /\ Append(cs, D) \in Seq(Caller) /\ Len(Append(cs, D)) = Len(cs) + 1
          /\ DOMAIN Append(cs, D) = 1 .. Len(cs) + 1 /\ Len(cs) \in Nat
          /\ DOMAIN cs = 1 .. Len(cs) /\ Append(cs, D)[Len(cs) + 1] = D
          /\ \A k \in 1 .. Len(cs) : Append(cs, D)[k] = cs[k]
      BY <2>6, <3>0, PushIs
    <3>2. Append(cs, D) # << >>
      BY <3>1
    <3> QED BY <3>1, <3>2 DEF Last
  <2> HIDE DEF cs
  <2>14. orderly => Quiet(Append(cs, D))
    <3>1. ASSUME orderly, NEW k \in DOMAIN Append(cs, D)
          PROVE  ~(Append(cs, D)[k].kind = "message" /\ Append(cs, D)[k].phase \in {"create", "delete"})
      <4>1. k \in 1 .. Len(cs) \/ k = Len(cs) + 1
        BY <2>13
      <4>2. Quiet(cs)
        BY <2>10, <3>1 DEF cs
      <4> QED BY <2>6, <2>13, <4>1, <4>2 DEF Quiet
    <3> QED BY <3>1 DEF Quiet
  <2>15. Fitting(Append(cs, D), M, orderly)
    <3>1. Calls(D, M)
      BY <2>6, <2>7 DEF Calls
    <3>2. Good(store, Append(cs, D), orderly)
      BY <2>12 DEF cs
    <3> QED BY <2>7, <2>13, <2>14, <3>1, <3>2, CreatingFits
  <2>16. Fitting(Append(Front(callers), D), Call("message", "delete", next), orderly)
    BY <2>15 DEF M, cs
  <2>17. ~Is(store, next, "freed")
    BY <2>4 DEF Is
  <2>18. Good(store', callers', orderly) /\ raised' \in Raised
    BY <2>1, <2>4, <2>12, <2>16, <2>17, InvIs, SendKeeps DEF Messages3
  <2> QED BY <1>1, <2>18, InvFollows
<1> QED BY <1>4, <1>5
-----------------------------------------------------------------------------
(* What the invariant says, and that it holds.                             *)

LEMMA ListsFollow ==
    ASSUME IInv
    PROVE  ListsHoldTheLiving
<1>1. /\ store.list \in Seq(Nat) /\ store.table \in [Chains -> Seq(Nat)]
      /\ DOMAIN store.instances \subseteq Nat
  BY InvIs, StoreFields
<1>2. ASSUME NEW s \in Seq(Nat)
      PROVE  /\ \A i : i \in ToSet(s) <=> In(i, s)
             /\ Once(s) => IsInjective(s)
             /\ \A i : In(i, s) => i \in Nat
  BY DEF ToSet, In, Once, IsInjective
<1>3. \A i : i \in InState("live") <=> Is(store, i, "live")
  BY DEF InState, Made, Instance, Is
<1>4. \A i \in Nat : In(i, store.list) <=> Is(store, i, "live")
  BY InvIs DEF StoreOK, ListOK
<1>5. Once(store.list)
  <2>1. Ascends(store.list)
    BY InvIs DEF StoreOK, ListOK
  <2> QED BY <1>1, <2>1, AscendsOnce
<1>6. \A i : Is(store, i, "live") => i \in Nat
  BY <1>1 DEF Is
<1>7. ToSet(store.list) = InState("live") /\ IsInjective(store.list)
  BY <1>1, <1>2, <1>3, <1>4, <1>5, <1>6
<1>8. ASSUME NEW b \in DOMAIN store.table
      PROVE  /\ IsInjective(store.table[b])
             /\ ToSet(store.table[b]) = {i \in InState("live") : HashInstance[Instance(store, i).name] = b}
  <2>1. b \in Chains /\ store.table[b] \in Seq(Nat)
    BY <1>1
  <2>2. Once(store.table[b])
        /\ \A i \in Nat : In(i, store.table[b]) <=> Is(store, i, "live") /\ ChainOf(store, i) = b
    BY <2>1, InvIs DEF StoreOK, ChainOK
  <2>3. \A i : ChainOf(store, i) = HashInstance[Instance(store, i).name]
    BY DEF ChainOf, Instance
  <2> QED BY <1>2, <1>3, <1>6, <2>1, <2>2, <2>3
<1> QED BY <1>7, <1>8 DEF ListsHoldTheLiving

LEMMA BusyFollows ==
    ASSUME IInv
    PROVE  BusyCountsHolders
<1>1. ASSUME NEW i \in Made
      PROVE  Instance(store, i).busy =
                Cardinality({k \in DOMAIN callers :
                    \/ callers[k].kind = "message" /\ callers[k].id = i
                    \/ callers[k].phase = "initialized" /\ callers[k].id = i
                    \/ callers[k].phase = "replaced" /\ callers[k].old = i})
  <2>1. store.instances[i].busy = Cardinality({k \in DOMAIN callers : Holds(callers[k], i)})
    BY <1>1, InvIs DEF Good, HoldOK, Made
  <2> QED BY <2>1 DEF Holds, Instance
<1> QED BY <1>1 DEF BusyCountsHolders

LEMMA GarbageFollows ==
    ASSUME IInv
    PROVE  GarbageIsKept
<1>1. GarbageOK(store) /\ StatesOK(store) /\ store.garbage \in Seq(SUBSET Nat)
  BY InvIs, StoreFields DEF StoreOK
<1>2. \A i, state : i \in InState(state) <=> Is(store, i, state)
  BY DEF InState, Made, Instance, Is
<1>3. ASSUME NEW i PROVE i \in UNION ToSet(store.garbage) <=> i \in InState("garbage")
  <2>1. i \in UNION ToSet(store.garbage) <=> \E k \in DOMAIN store.garbage : i \in store.garbage[k]
    BY DEF ToSet
  <2>2. Is(store, i, "garbage") => i \in DOMAIN store.instances
    BY DEF Is
  <2> QED BY <1>1, <1>2, <2>1, <2>2 DEF GarbageOK
<1>4. \A k, n \in DOMAIN store.garbage : k # n => store.garbage[k] \cap store.garbage[n] = {}
  BY <1>1 DEF GarbageOK
<1>5. \A i \in InState("freed") : Instance(store, i).busy = 0
  BY <1>1, <1>2 DEF StatesOK, Is, Instance
<1>6. callers = << >> => ~store.maintain
  <2>1. store.maintain = KeepsUpTo(callers, Len(callers))
    BY InvIs DEF Good, MaintainOK
  <2>2. callers = << >> => Len(callers) = 0
    OBVIOUS
  <2> QED BY <2>1, <2>2 DEF KeepsUpTo
<1> QED BY <1>3, <1>4, <1>5, <1>6 DEF GarbageIsKept

\* The last of those reached before x leads on to x.
LEMMA AllAreReached ==
    ASSUME NEW S, StoreOK(S), NEW C, AllOK(S, C), NEW reached, C.id \in reached,
           \A j \in reached : NxtList(S, j) \in reached \cup {None0},
           NEW x \in C.due, Is(S, x, "live")
    PROVE  x \in reached
<1> DEFINE n == Len(S.instances)
           i == C.id
           W == {j \in reached : j \in C.due \cup {i} /\ i <= j /\ j <= x}
<1>1. n \in Nat /\ DOMAIN S.instances = 1 .. n
  BY StoreFields DEF StoreOK
<1>2. /\ i \in 1 .. n /\ x \in 1 .. n /\ i < x /\ ~Is(S, i, "freed")
      /\ \A j \in C.due : j \in 1 .. n /\ ~Is(S, j, "freed")
      /\ \A j \in 1 .. n : Is(S, j, "live") /\ i < j /\ j < x => j \in C.due
      /\ \A j \in C.due \cup {i} :
            Is(S, j, "garbage") /\ i <= j /\ j < x =>
                S.instances[j].next \in C.due /\ j < S.instances[j].next
                /\ S.instances[j].next <= x
  BY <1>1 DEF AllOK
<1>3. \A j \in 1 .. n : Is(S, j, "live") \/ Is(S, j, "garbage") \/ Is(S, j, "freed")
  BY <1>1, StoreFields DEF StoreOK, Is
<1> HIDE DEF n
<1>4. i \in W /\ W \subseteq 0 .. n
  <2> HIDE DEF i
  <2>1. \A j \in C.due \cup {i} : j \in 0 .. n
    BY <1>1, <1>2
  <2> QED BY <1>1, <1>2, <2>1 DEF i
<1> HIDE DEF i, W
<1>5. PICK m \in W : \A j \in W : j <= m
  <2>1. W # {}
    BY <1>4
  <2> QED BY <1>1, <1>4, <2>1, MaxIs
<1>6. m \in reached /\ m \in C.due \cup {i} /\ i <= m /\ m <= x /\ m \in 1 .. n
  BY <1>2, <1>5 DEF W
<1>7. CASE m = x
  BY <1>6, <1>7
<1>8. CASE m # x
  <2>1. m < x /\ ~Is(S, m, "freed") /\ m \in DOMAIN S.instances
    BY <1>1, <1>2, <1>6, <1>8
  <2> DEFINE y == NxtList(S, m)
  <2>2. y \in C.due /\ m < y /\ y <= x
    <3>1. CASE Is(S, m, "live")
      <4>1. y = NextIn(S.list, m)
        BY <2>1, <3>1, NxtListIs
      <4>2. /\ NextIn(S.list, m) = None0 => \A z \in Nat : Is(S, z, "live") => z <= m
            /\ NextIn(S.list, m) # None0 =>
                  /\ Is(S, NextIn(S.list, m), "live") /\ m < NextIn(S.list, m)
                  /\ \A z \in Nat : Is(S, z, "live") /\ m < z => NextIn(S.list, m) <= z
        BY <2>1, <3>1, ListMeans
      <4>3. y # None0
        BY <1>2, <1>6, <2>1, <4>1, <4>2
      <4>4. Is(S, y, "live") /\ m < y /\ y <= x /\ y \in 1 .. n
        BY <1>1, <1>2, <1>6, <2>1, <4>1, <4>2, <4>3 DEF Is
      <4> HIDE DEF y
      <4>5. i < y
        BY <1>2, <1>6, <4>4
      <4> QED BY <1>2, <4>4, <4>5
    <3>2. CASE ~Is(S, m, "live")
      <4>1. y = S.instances[m].next /\ Is(S, m, "garbage")
        BY <1>3, <1>6, <2>1, <3>2, NxtListIs
      <4> QED BY <1>2, <1>6, <2>1, <4>1
    <3> QED BY <3>1, <3>2
  <2>3. y \in reached
    <3>1. y # None0
      BY <1>2, <2>2 DEF None0
    <3> QED BY <1>6, <3>1
  <2> HIDE DEF y
  <2>4. y \in W
    <3>1. y \in 1 .. n /\ i <= y
      BY <1>2, <1>6, <2>2
    <3> QED BY <2>2, <2>3, <3>1 DEF W
  <2>5. y <= m /\ y \in 1 .. n
    BY <1>2, <1>5, <2>2, <2>4
  <2> QED BY <1>6, <2>2, <2>5
<1> QED BY <1>7, <1>8

LEMMA ReachesFollows ==
    ASSUME IInv
    PROVE  UnmakeAllReaches
<1> SUFFICES ASSUME NEW k \in DOMAIN callers, callers[k].kind = "all",
                    NEW reached \in SUBSET Made, callers[k].id \in reached,
                    \A j \in reached : NxtList(store, j) \in reached \cup {None0},
                    NEW x \in callers[k].due \cap InState("live")
             PROVE  x \in reached
  BY DEF UnmakeAllReaches
<1>1. AllOK(store, callers[k]) /\ StoreOK(store)
  BY InvIs, CallersAre DEF CallerOK
<1>2. Is(store, x, "live")
  BY DEF InState, Made, Instance, Is
<1> QED BY <1>1, <1>2, AllAreReached

LEMMA InvImplies ==
    ASSUME IInv
    PROVE  InstancesInv
<1>1. NamesAreUnique
  <2>1. \A i : i \in InState("live") <=> Is(store, i, "live")
    BY DEF InState, Made, Instance, Is
  <2>2. orderly => ~store.stray /\ UniqueNames(store)
    BY InvIs DEF Good
  <2>3. \A i : Is(store, i, "live") => i \in DOMAIN store.instances
    BY DEF Is
  <2> QED BY <2>1, <2>2, <2>3 DEF NamesAreUnique, UniqueNames, Instance
<1> QED BY <1>1, ListsFollow, BusyFollows, GarbageFollows, ReachesFollows DEF InstancesInv

LEMMA InitHolds ==
    ASSUME InstancesInit
    PROVE  IInv
<1>1. /\ store = [instances |-> << >>, list |-> << >>, table |-> [b \in Chains |-> << >>],
                  garbage |-> <<{}>>, maintain |-> FALSE, stray |-> FALSE]
      /\ callers = << >> /\ raised = "none" /\ orderly \in BOOLEAN
  BY DEF InstancesInit, Chains
<1>2. /\ store.instances = << >> /\ store.list = << >> /\ store.garbage = <<{}>>
      /\ store.table = [b \in Chains |-> << >>] /\ ~store.maintain /\ ~store.stray
  BY <1>1
<1>3. << >> \in Seq(InstanceRecord) /\ << >> \in Seq(Nat) /\ <<{}>> \in Seq(SUBSET Nat)
      /\ << >> \in Seq(Caller)
  OBVIOUS
<1>4. store \in Store
  BY <1>1, <1>3 DEF Store
<1>5. \A i, state : ~Is(store, i, state)
  BY <1>2 DEF Is
<1>6. ListOK(store) /\ NextOK(store) /\ StatesOK(store)
  BY <1>2, <1>5 DEF ListOK, NextOK, StatesOK, Ascends, In
<1>7. \A b \in Chains : ChainOK(store, b)
  BY <1>2, <1>5 DEF ChainOK, Once, In
<1>8. GarbageOK(store)
  <2>1. Len(store.garbage) = 1 /\ DOMAIN store.garbage = 1 .. 1 /\ store.garbage[1] = {}
    BY <1>2
  <2>2. \A k \in DOMAIN store.garbage : k = 1
    BY <2>1
  <2> QED BY <1>2, <2>1, <2>2 DEF GarbageOK
<1>9. StoreOK(store)
  BY <1>4, <1>6, <1>7, <1>8 DEF StoreOK
<1>10. HoldOK(store, callers)
  BY <1>2 DEF HoldOK
<1>11. FramesOK(store, callers)
  <2>1. {k \in DOMAIN callers : Owns(callers[k])} = {} /\ Len(store.garbage) = 1
    BY <1>1, <1>2
  <2> QED BY <2>1, FS_EmptySet DEF FramesOK
<1>12. MaintainOK(store, callers)
  BY <1>1, <1>2 DEF MaintainOK, KeepsUpTo
<1>13. StackOK(store, callers, orderly)
  BY <1>1, <1>3 DEF StackOK
<1>14. UniqueNames(store)
  BY <1>2 DEF UniqueNames
<1> QED BY <1>1, <1>2, <1>9, <1>10, <1>11, <1>12, <1>13, <1>14 DEF IInv, Good, Raised

LEMMA StepHolds ==
    ASSUME IInv, [InstancesNext]_instanceVars
    PROVE  IInv'
<1>1. CASE InstancesNext
  <2>1. ASSUME NEW name \in InstanceName,
               MakeInstance(name) \/ InitializeInstance(name) \/ UnmakeInstance(name) \/ SendDelete(name)
        PROVE  IInv'
    BY <2>1, MakeInstanceKeeps, InitializeInstanceKeeps, UnmakeInstanceKeeps, SendDeleteKeeps
  <2>2. CASE MakeReplaces
    BY <2>2, MakeReplacesKeeps
  <2>3. CASE MakeInitializes
    BY <2>3, MakeInitializesKeeps
  <2>4. CASE Initialized
    BY <2>4, InitializedKeeps
  <2>5. CASE UnmakeReturns
    BY <2>5, UnmakeReturnsKeeps
  <2>6. CASE UnmakeAllInstances
    BY <2>6, UnmakeAllInstancesKeeps
  <2>7. CASE UnmakeAllGoesOn
    BY <2>7, UnmakeAllGoesOnKeeps
  <2>8. CASE MessageReturns
    BY <2>8, MessageReturnsKeeps
  <2>9. CASE DeleteInstance
    BY <2>9, DeleteInstanceKeeps
  <2>10. CASE InitSlots
    BY <2>10, InitSlotsKeeps
  <2>11. CASE Fail \/ Recover
    BY <2>11, ErrorsKeep
  <2>12. CASE Clean
    BY <2>12, CleanActionKeeps
  <2> QED BY <1>1, <2>1, <2>2, <2>3, <2>4, <2>5, <2>6, <2>7, <2>8, <2>9, <2>10, <2>11, <2>12
          DEF InstancesNext
<1>2. CASE UNCHANGED instanceVars
  BY <1>2 DEF instanceVars, IInv
<1> QED BY <1>1, <1>2

\* However makes, deletions and initializations call each other, with errors and
\* try anywhere: the lists hold the instances that live, the holders of an instance
\* are counted, garbage waits in one frame until nobody holds it, (unmake-instance *)
\* comes to all there was, and where handlers keep the rules a name has one instance
\* and no memory is used that was given back (insmngr.c, insfun.c, inscom.c).
THEOREM InstancesHold == InstancesSpec => []InstancesInv
<1>1. InstancesInit => IInv
  BY InitHolds
<1>2. IInv /\ [InstancesNext]_instanceVars => IInv'
  BY StepHolds
<1>3. IInv => InstancesInv
  BY InvImplies
<1> QED BY <1>1, <1>2, <1>3, PTL DEF InstancesSpec

-----------------------------------------------------------------------------
(* PRECEDENCE LISTS OF CLASSES.                                            *)

-----------------------------------------------------------------------------
(* Sets of what lists hold.                                                *)

LEMMA SetOfAppend ==
    ASSUME NEW S, NEW s \in Seq(S), NEW x \in S
    PROVE  ToSet(Append(s, x)) = ToSet(s) \cup {x} /\ ToSet(s) \subseteq S
<1>1. /\ Len(s) \in Nat /\ DOMAIN s = 1 .. Len(s) /\ DOMAIN Append(s, x) = 1 .. Len(s) + 1
      /\ \A k \in 1 .. Len(s) : Append(s, x)[k] = s[k] /\ s[k] \in S
      /\ Append(s, x)[Len(s) + 1] = x
  OBVIOUS
<1>2. \A k \in 1 .. Len(s) + 1 : k \in 1 .. Len(s) \/ k = Len(s) + 1
  BY <1>1
<1>3. Len(s) + 1 \in 1 .. Len(s) + 1 /\ \A k \in 1 .. Len(s) : k \in 1 .. Len(s) + 1
  BY <1>1
<1> QED BY <1>1, <1>2, <1>3 DEF ToSet

LEMMA SetOfConcat ==
    ASSUME NEW S, NEW s \in Seq(S), NEW t \in Seq(S)
    PROVE  ToSet(s \o t) = ToSet(s) \cup ToSet(t)
<1> DEFINE n == Len(s)
           m == Len(t)
<1>1. /\ n \in Nat /\ m \in Nat /\ DOMAIN s = 1 .. n /\ DOMAIN t = 1 .. m
      /\ DOMAIN (s \o t) = 1 .. n + m
  OBVIOUS
<1>2. \A k \in 1 .. n + m : (s \o t)[k] = IF k <= n THEN s[k] ELSE t[k - n]
  BY ConcatProperties
<1> HIDE DEF n, m
<1>3. \A k \in 1 .. n + m : k \in 1 .. n \/ (k - n \in 1 .. m /\ ~(k <= n))
  BY <1>1
<1>4. (\A k \in 1 .. n : k \in 1 .. n + m /\ k <= n)
      /\ \A k \in 1 .. m : n + k \in 1 .. n + m /\ ~(n + k <= n) /\ (n + k) - n = k
  BY <1>1
<1>5. ToSet(s \o t) \subseteq ToSet(s) \cup ToSet(t)
  BY <1>1, <1>2, <1>3 DEF ToSet
<1>6. \A k \in 1 .. n : (s \o t)[k] = s[k]
  BY <1>2, <1>4
<1>7. \A k \in 1 .. m : (s \o t)[n + k] = t[k]
  BY <1>2, <1>4
<1>8. ToSet(s) \subseteq ToSet(s \o t)
  BY <1>1, <1>4, <1>6 DEF ToSet
<1>9. ToSet(t) \subseteq ToSet(s \o t)
  <2>1. ASSUME NEW k \in 1 .. m PROVE t[k] \in ToSet(s \o t)
    <3>1. n + k \in DOMAIN (s \o t) /\ (s \o t)[n + k] = t[k]
      BY <1>1, <1>4, <1>7
    <3> QED BY <3>1 DEF ToSet
  <2> QED BY <1>1, <2>1 DEF ToSet
<1> QED BY <1>5, <1>8, <1>9

\* What is behind the k-th.
LEMMA SetOfRest ==
    ASSUME NEW S, NEW s \in Seq(S), NEW k \in DOMAIN s
    PROVE  /\ SubSeq(s, k + 1, Len(s)) \in Seq(S)
           /\ ToSet(SubSeq(s, k + 1, Len(s))) \subseteq ToSet(s)
           /\ \A x \in ToSet(s) : x \in ToSet(SubSeq(s, k + 1, Len(s))) \/ \E i \in 1 .. k : s[i] = x
<1> DEFINE r == SubSeq(s, k + 1, Len(s))
<1>1. /\ Len(s) \in Nat /\ DOMAIN s = 1 .. Len(s) /\ k \in 1 .. Len(s)
      /\ r \in Seq(S) /\ Len(r) = Len(s) - k /\ DOMAIN r = 1 .. Len(s) - k
      /\ \A j \in 1 .. Len(s) - k : r[j] = s[j + k]
  OBVIOUS
<1> HIDE DEF r
<1>2. \A j \in 1 .. Len(s) - k : j + k \in 1 .. Len(s)
  BY <1>1
<1>3. \A i \in 1 .. Len(s) : i \in 1 .. k \/ (i - k \in 1 .. Len(s) - k /\ (i - k) + k = i)
  BY <1>1
<1>4. ToSet(r) \subseteq ToSet(s)
  BY <1>1, <1>2 DEF ToSet
<1>5. \A i \in 1 .. Len(s) : i \in 1 .. k \/ s[i] \in ToSet(r)
  BY <1>1, <1>3 DEF ToSet
<1>6. \A x \in ToSet(s) : x \in ToSet(r) \/ \E i \in 1 .. k : s[i] = x
  BY <1>1, <1>5 DEF ToSet
<1> QED BY <1>1, <1>4, <1>6 DEF r

LEMMA OnceAppend ==
    ASSUME NEW S, NEW s \in Seq(S), NEW x \in S, IsInjective(s), x \notin ToSet(s)
    PROVE  IsInjective(Append(s, x))
<1>1. /\ Len(s) \in Nat /\ DOMAIN s = 1 .. Len(s) /\ DOMAIN Append(s, x) = 1 .. Len(s) + 1
      /\ \A k \in 1 .. Len(s) : Append(s, x)[k] = s[k]
      /\ Append(s, x)[Len(s) + 1] = x
  OBVIOUS
<1>2. \A k \in 1 .. Len(s) + 1 : k \in 1 .. Len(s) \/ k = Len(s) + 1
  BY <1>1
<1>3. \A k \in 1 .. Len(s) : s[k] # x
  BY <1>1 DEF ToSet
<1> QED BY <1>1, <1>2, <1>3 DEF IsInjective

LEMMA OnceRemoveAt ==
    ASSUME NEW S, NEW s \in Seq(S), NEW k \in DOMAIN s, IsInjective(s)
    PROVE  /\ IsInjective(RemoveAt(s, k))
           /\ ToSet(RemoveAt(s, k)) = ToSet(s) \ {s[k]}
<1> DEFINE r == RemoveAt(s, k)
           n == Len(s)
<1>1. n \in Nat /\ DOMAIN s = 1 .. n /\ k \in 1 .. n
  OBVIOUS
<1>2. /\ r \in Seq(S) /\ Len(r) = n - 1
      /\ \A j \in 1 .. n - 1 : r[j] = IF j < k THEN s[j] ELSE s[j + 1]
  BY <1>1, RemoveAtProperties
<1>3. DOMAIN r = 1 .. n - 1
  BY <1>1, <1>2
<1> HIDE DEF r, n
<1> DEFINE from(j) == IF j < k THEN j ELSE j + 1
<1>4. \A j \in 1 .. n - 1 : from(j) \in 1 .. n /\ from(j) # k /\ r[j] = s[from(j)]
  BY <1>1, <1>2
<1>5. \A i, j \in 1 .. n - 1 : from(i) = from(j) => i = j
  BY <1>1
<1>6. \A i \in 1 .. n : i # k => \E j \in 1 .. n - 1 : from(j) = i
  <2>1. ASSUME NEW i \in 1 .. n, i # k PROVE \E j \in 1 .. n - 1 : from(j) = i
    <3>1. CASE i < k
      <4>1. i \in 1 .. n - 1 /\ from(i) = i
        BY <1>1, <3>1
      <4> QED BY <4>1
    <3>2. CASE i > k
      <4>1. i - 1 \in 1 .. n - 1 /\ from(i - 1) = i
        BY <1>1, <3>2
      <4> QED BY <4>1
    <3> QED BY <1>1, <2>1, <3>1, <3>2
  <2> QED BY <2>1
<1> HIDE DEF from
<1>7. \A i, j \in 1 .. n : s[i] = s[j] => i = j
  BY <1>1 DEF IsInjective
<1>8. IsInjective(r)
  <2>1. ASSUME NEW i \in 1 .. n - 1, NEW j \in 1 .. n - 1, r[i] = r[j] PROVE i = j
    BY <1>4, <1>5, <1>7, <2>1
  <2> QED BY <1>3, <2>1 DEF IsInjective
<1>9. ToSet(r) \subseteq ToSet(s) \ {s[k]}
  BY <1>1, <1>3, <1>4, <1>7 DEF ToSet
<1>10. ToSet(s) \ {s[k]} \subseteq ToSet(r)
  <2>1. ASSUME NEW i \in 1 .. n, i # k PROVE s[i] \in ToSet(r)
    BY <1>3, <1>4, <1>6, <2>1 DEF ToSet
  <2> QED BY <1>1, <2>1 DEF ToSet
<1> QED BY <1>8, <1>9, <1>10 DEF r

\* A list of as many different numbers as there are holds them all.
LEMMA HoldsAll ==
    ASSUME NEW n \in Nat, NEW s \in Seq(1 .. n), IsInjective(s), Len(s) >= n, NEW x \in 1 .. n
    PROVE  x \in ToSet(s)
<1> SUFFICES ASSUME x \notin ToSet(s) PROVE FALSE
  OBVIOUS
<1> DEFINE t == Append(s, x)
           m == Len(s) + 1
<1>1. IsInjective(t)
  BY OnceAppend
<1>2. m \in Nat /\ m > n /\ DOMAIN t = 1 .. m /\ t \in [1 .. m -> 1 .. n]
  <2>1. t \in Seq(1 .. n) /\ Len(t) = m /\ m \in Nat /\ m > n
    OBVIOUS
  <2> HIDE DEF t, m
  <2>2. t \in [1 .. Len(t) -> 1 .. n]
    BY <2>1, LenProperties
  <2> QED BY <2>1, <2>2
<1> HIDE DEF t, m
<1>3. /\ IsFiniteSet(1 .. m) /\ Cardinality(1 .. m) = m
      /\ IsFiniteSet(1 .. n) /\ Cardinality(1 .. n) = n
  <2>1. ASSUME NEW k \in Nat PROVE IsFiniteSet(1 .. k) /\ Cardinality(1 .. k) = k
    <3>1. 1 \in Int /\ k \in Int /\ (IF 1 > k THEN 0 ELSE k - 1 + 1) = k
      OBVIOUS
    <3>2. IsFiniteSet(1 .. k) /\ Cardinality(1 .. k) = IF 1 > k THEN 0 ELSE k - 1 + 1
      BY <3>1, FS_Interval
    <3> QED BY <3>1, <3>2
  <2> QED BY <1>2, <2>1
<1>4. \E i, j \in 1 .. m : i # j /\ t[i] = t[j]
  BY <1>2, <1>3, FS_PigeonHole
<1> QED BY <1>1, <1>2, <1>4 DEF IsInjective

-----------------------------------------------------------------------------
(* The table.                                                              *)

\* A class is defined after its superclasses.
Defined(all) == all \in Seq(Seq(Nat)) /\ \A c \in DOMAIN all : all[c] \in Seq(1 .. c - 1)

Open(b) == {i \in DOMAIN b.rest : b.rest[i] \notin ToSet(b.table)}

\* The next class is entered: the body of the loop.
Enter(all, b) ==
    LET c == b.rest[Min(Open(b))]
    IN IF Open(b) = {} THEN b
       ELSE [table |-> Append(b.table, c),
             rest |-> all[c] \o SubSeq(b.rest, Min(Open(b)) + 1, Len(b.rest))]

\* f[m] is what there is after m classes.
EnterRun(all, own, n, f) ==
    /\ InitializePartialOrderTable(all, own) = f[n].table
    /\ f[0] = [table |-> << >>, rest |-> own]
    /\ \A m \in 0 .. n - 1 : f[m + 1] = Enter(all, f[m])

\* The loop comes to an end.
LEMMA EnterRuns ==
    ASSUME NEW all, NEW own, NEW n \in Nat, n = Len(all)
    PROVE  \E f : EnterRun(all, own, n, f)
<1> DEFINE Start == [table |-> << >>, rest |-> own]
           Body(f, m) == IF m = 0 THEN Start ELSE Enter(all, f[m - 1])
           T == {k \in 0 .. n : \E f : f = [m \in 0 .. k |-> Body(f, m)]}
           entered == CHOOSE f : f = [m \in 0 .. n |-> Body(f, m)]
<1>1. InitializePartialOrderTable(all, own) = entered[n].table
  BY DEF InitializePartialOrderTable, Enter, Open
<1> HIDE DEF Start
<1>2. 0 \in T
  <2> DEFINE f == [m \in 0 .. 0 |-> Start]
  <2>1. f = [m \in 0 .. 0 |-> Body(f, m)]
    OBVIOUS
  <2> HIDE DEF f, Body
  <2> QED BY <2>1
<1>3. ASSUME NEW k \in 0 .. n - 1, k \in T PROVE k + 1 \in T
  <2>1. PICK f : f = [m \in 0 .. k |-> Body(f, m)]
    BY <1>3
  <2> DEFINE g == [m \in 0 .. k + 1 |-> IF m = k + 1 THEN Body(f, k + 1) ELSE f[m]]
  <2>2. \A m \in 0 .. k : g[m] = f[m]
    OBVIOUS
  <2>3. ASSUME NEW m \in 0 .. k + 1 PROVE g[m] = Body(g, m)
    <3>1. CASE m = k + 1
      <4>1. g[m] = Body(f, m)
        BY <3>1
      <4>2. g[m - 1] = f[m - 1]
        BY <2>2, <3>1
      <4> HIDE DEF g
      <4> QED BY <4>1, <4>2
    <3>2. CASE m # k + 1
      <4>1. m \in 0 .. k /\ (m # 0 => m - 1 \in 0 .. k)
        BY <3>2
      <4>2. f[m] = Body(f, m)
        <5> HIDE DEF Body
        <5> QED BY <2>1, <4>1
      <4>3. m # 0 => g[m - 1] = f[m - 1]
        BY <2>2, <4>1
      <4>4. g[m] = f[m]
        BY <2>2, <4>1
      <4> HIDE DEF g
      <4> QED BY <4>2, <4>3, <4>4
    <3> QED BY <3>1, <3>2
  <2>4. g = [m \in 0 .. k + 1 |-> Body(g, m)]
    <3> HIDE DEF Body
    <3> QED BY <2>3
  <2>5. k + 1 \in 0 .. n
    OBVIOUS
  <2> HIDE DEF g, Body
  <2> QED BY <2>4, <2>5
<1>4. n \in T
  <2> HIDE DEF T
  <2>1. \A k \in 0 .. n : k \in T
    BY <1>2, <1>3, UpTo
  <2> QED BY <2>1
<1> HIDE DEF Body
<1>5. entered = [m \in 0 .. n |-> Body(entered, m)]
  BY <1>4
<1> HIDE DEF entered
<1>6. \A m \in 0 .. n : entered[m] = Body(entered, m)
  BY <1>5
<1>7. entered[0] = Start
  BY <1>6 DEF Body
<1>8. ASSUME NEW m \in 0 .. n - 1 PROVE entered[m + 1] = Enter(all, entered[m])
  <2>1. m + 1 \in 0 .. n /\ m + 1 # 0 /\ (m + 1) - 1 = m
    OBVIOUS
  <2> QED BY <1>6, <2>1 DEF Body
<1> QED BY <1>1, <1>7, <1>8 DEF EnterRun, Start

\* S has the superclasses of each class in it.
HasSupers(all, S) == \A c \in S : ToSet(all[c]) \subseteq S

\* The table and what is to be looked at, after m classes.
Entering(all, own, b, m) ==
    /\ b.table \in Seq(DOMAIN all) /\ b.rest \in Seq(DOMAIN all)
    /\ IsInjective(b.table)
    /\ ToSet(own) \subseteq ToSet(b.table) \cup ToSet(b.rest)
    /\ \A c \in ToSet(b.table) : ToSet(all[c]) \subseteq ToSet(b.table) \cup ToSet(b.rest)
    /\ \A S : HasSupers(all, S) /\ ToSet(own) \subseteq S => ToSet(b.table) \cup ToSet(b.rest) \subseteq S
    /\ Open(b) = {} \/ Len(b.table) = m

LEMMA EnterKeeps ==
    ASSUME NEW all, Defined(all), NEW own, NEW m \in Nat, NEW b, Entering(all, own, b, m)
    PROVE  Entering(all, own, Enter(all, b), m + 1)
<1>1. CASE Open(b) = {}
  BY <1>1 DEF Enter, Entering
<1>2. CASE Open(b) # {}
  <2> DEFINE C == DOMAIN all
             i == Min(Open(b))
             c == b.rest[i]
             table == Append(b.table, c)
             late == SubSeq(b.rest, i + 1, Len(b.rest))
             rest == all[c] \o late
             B == [table |-> table, rest |-> rest]
  <2>1. /\ b.table \in Seq(C) /\ b.rest \in Seq(C) /\ IsInjective(b.table)
        /\ DOMAIN b.rest = 1 .. Len(b.rest) /\ Len(b.rest) \in Nat /\ Len(b.table) = m
    BY <1>2 DEF Entering
  <2>2. /\ i \in DOMAIN b.rest /\ c \notin ToSet(b.table)
        /\ \A j \in DOMAIN b.rest : j < i => b.rest[j] \in ToSet(b.table)
    <3>1. Open(b) \subseteq Nat
      BY <2>1 DEF Open
    <3>2. Min(Open(b)) \in Open(b) /\ \A u \in Open(b) : Min(Open(b)) <= u
      BY <1>2, <3>1, MinIs
    <3>3. i \in Open(b) /\ (\A u \in Open(b) : i <= u) /\ Open(b) \subseteq Nat
      BY <3>1, <3>2
    <3> HIDE DEF i
    <3>4. ASSUME NEW j \in DOMAIN b.rest, j < i, b.rest[j] \notin ToSet(b.table) PROVE FALSE
      <4>1. j \in Open(b)
        BY <3>4 DEF Open
      <4>2. i <= j /\ i \in Nat /\ j \in Nat
        BY <3>3, <4>1
      <4> QED BY <3>4, <4>2
    <3>5. i \in DOMAIN b.rest /\ b.rest[i] \notin ToSet(b.table)
      BY <3>3 DEF Open
    <3> QED BY <3>4, <3>5
  <2> HIDE DEF i
  <2>3. c \in C /\ all[c] \in Seq(C) /\ C = 1 .. Len(all) /\ Len(all) \in Nat
    <3>1. c \in C /\ C = 1 .. Len(all) /\ Len(all) \in Nat
      BY <2>1, <2>2 DEF Defined
    <3>2. all[c] \in Seq(1 .. c - 1) /\ \A k \in 1 .. c - 1 : k \in C
      BY <3>1 DEF Defined
    <3> HIDE DEF C, c
    <3> QED BY <3>1, <3>2
  <2>4. Enter(all, b) = B
    BY <1>2 DEF Enter, i
  <2> HIDE DEF c, C
  <2>5. /\ table \in Seq(C) /\ Len(table) = m + 1 /\ IsInjective(table)
        /\ ToSet(table) = ToSet(b.table) \cup {c}
    BY <2>1, <2>2, <2>3, SetOfAppend, OnceAppend
  <2>6. /\ late \in Seq(C) /\ ToSet(late) \subseteq ToSet(b.rest)
        /\ \A x \in ToSet(b.rest) : x \in ToSet(late) \/ \E j \in 1 .. i : b.rest[j] = x
    <3> DEFINE r == b.rest
    <3>1. r \in Seq(C) /\ i \in DOMAIN r
      BY <2>1, <2>2
    <3> HIDE DEF r
    <3>2. /\ SubSeq(r, i + 1, Len(r)) \in Seq(C)
          /\ ToSet(SubSeq(r, i + 1, Len(r))) \subseteq ToSet(r)
          /\ \A x \in ToSet(r) : x \in ToSet(SubSeq(r, i + 1, Len(r))) \/ \E j \in 1 .. i : r[j] = x
      BY <3>1, SetOfRest
    <3> QED BY <3>2 DEF r
  <2> HIDE DEF table, late
  <2>7. rest \in Seq(C) /\ ToSet(rest) = ToSet(all[c]) \cup ToSet(late)
    BY <2>3, <2>6, SetOfConcat
  <2> HIDE DEF rest
  <2>8. ToSet(b.table) \cup ToSet(b.rest) \subseteq ToSet(table) \cup ToSet(rest)
    <3>1. ASSUME NEW j \in 1 .. i PROVE b.rest[j] \in ToSet(table)
      <4>1. j \in DOMAIN b.rest /\ (j < i \/ j = i)
        BY <2>1, <2>2
      <4> QED BY <2>2, <2>5, <4>1 DEF c
    <3> QED BY <2>5, <2>6, <2>7, <3>1
  <2>9. \A d \in ToSet(table) : ToSet(all[d]) \subseteq ToSet(table) \cup ToSet(rest)
    BY <2>5, <2>7, <2>8 DEF Entering
  <2>10. ASSUME NEW S, HasSupers(all, S), ToSet(own) \subseteq S
         PROVE  ToSet(table) \cup ToSet(rest) \subseteq S
    <3>1. ToSet(b.table) \cup ToSet(b.rest) \subseteq S
      BY <2>10 DEF Entering
    <3>2. c \in ToSet(b.rest)
      BY <2>2 DEF ToSet, c
    <3>3. ToSet(all[c]) \subseteq S
      BY <2>10, <3>1, <3>2 DEF HasSupers
    <3> QED BY <2>5, <2>6, <2>7, <3>1, <3>2, <3>3
  <2>11. ToSet(own) \subseteq ToSet(table) \cup ToSet(rest)
    BY <2>8 DEF Entering
  <2>12. B.table = table /\ B.rest = rest
    OBVIOUS
  <2> HIDE DEF B
  <2> QED BY <2>4, <2>5, <2>7, <2>9, <2>10, <2>11, <2>12 DEF Entering, C
<1> QED BY <1>1, <1>2

\* So it is after every class.
LEMMA EnteringAll ==
    ASSUME NEW all, Defined(all), NEW own \in Seq(DOMAIN all), NEW n \in Nat, n = Len(all),
           NEW f, EnterRun(all, own, n, f)
    PROVE  \A m \in 0 .. n : Entering(all, own, f[m], m)
<1> DEFINE T == {m \in 0 .. n : Entering(all, own, f[m], m)}
<1>1. 0 \in T
  <2>1. f[0].table = << >> /\ f[0].rest = own
    BY DEF EnterRun
  <2>2. << >> \in Seq(DOMAIN all) /\ Len(<< >>) = 0 /\ DOMAIN << >> = {}
    OBVIOUS
  <2>3. ToSet(<< >>) = {} /\ IsInjective(<< >>)
    BY <2>2 DEF ToSet, IsInjective
  <2>4. Entering(all, own, f[0], 0)
    <3> DEFINE b == f[0]
    <3>1. b.table = << >> /\ b.rest = own
      BY <2>1
    <3> HIDE DEF b
    <3>2. Entering(all, own, b, 0)
      BY <2>2, <2>3, <3>1 DEF Entering
    <3> QED BY <3>2 DEF b
  <2> QED BY <2>4
<1>2. ASSUME NEW m \in 0 .. n - 1, m \in T PROVE m + 1 \in T
  <2>1. m \in Nat /\ m + 1 \in 0 .. n /\ f[m + 1] = Enter(all, f[m])
    BY DEF EnterRun
  <2> QED BY <1>2, <2>1, EnterKeeps
<1> HIDE DEF T
<1>3. \A m \in 0 .. n : m \in T
  BY <1>1, <1>2, UpTo
<1> QED BY <1>3 DEF T

\* As many classes as there are suffice.
LEMMA EnteredAll ==
    ASSUME NEW all, Defined(all), NEW own \in Seq(DOMAIN all), NEW n \in Nat, n = Len(all),
           NEW f, EnterRun(all, own, n, f)
    PROVE  Entering(all, own, f[n], n) /\ Open(f[n]) = {}
<1>1. DOMAIN all = 1 .. n
  BY DEF Defined
<1>2. Entering(all, own, f[n], n)
  BY EnteringAll
<1>3. CASE Len(f[n].table) = n
  <2>1. f[n].table \in Seq(1 .. n) /\ f[n].rest \in Seq(1 .. n) /\ IsInjective(f[n].table) /\ n >= n
    BY <1>1, <1>2 DEF Entering
  <2>2. \A x \in 1 .. n : x \in ToSet(f[n].table)
    BY <1>3, <2>1, HoldsAll
  <2>3. \A i \in DOMAIN f[n].rest : f[n].rest[i] \in 1 .. n
    <3>1. ASSUME NEW r \in Seq(1 .. n) PROVE \A i \in DOMAIN r : r[i] \in 1 .. n
      <4>1. r \in [1 .. Len(r) -> 1 .. n] /\ DOMAIN r = 1 .. Len(r)
        BY LenProperties
      <4> QED BY <4>1
    <3> QED BY <2>1, <3>1
  <2>4. Open(f[n]) = {}
    BY <2>2, <2>3 DEF Open
  <2> QED BY <1>2, <2>4
<1> QED BY <1>2, <1>3 DEF Entering

\* The table when it is complete.
LEMMA TableIs ==
    ASSUME NEW all, Defined(all), NEW own \in Seq(DOMAIN all)
    PROVE  LET table == InitializePartialOrderTable(all, own)
           IN /\ table \in Seq(DOMAIN all) /\ IsInjective(table)
              /\ ToSet(own) \subseteq ToSet(table) /\ HasSupers(all, ToSet(table))
              /\ \A S : HasSupers(all, S) /\ ToSet(own) \subseteq S => ToSet(table) \subseteq S
<1> DEFINE n == Len(all)
<1>1. n \in Nat /\ n = Len(all)
  BY DEF Defined
<1> HIDE DEF n
<1>2. PICK f : EnterRun(all, own, n, f)
  BY <1>1, EnterRuns
<1>3. Entering(all, own, f[n], n) /\ Open(f[n]) = {}
  BY <1>1, <1>2, EnteredAll
<1>4. ToSet(f[n].rest) \subseteq ToSet(f[n].table)
  BY <1>3 DEF Open, ToSet
<1>5. InitializePartialOrderTable(all, own) = f[n].table
  BY <1>2 DEF EnterRun
<1> QED BY <1>3, <1>4, <1>5 DEF Entering, HasSupers


LEMMA SetOfTyped ==
    ASSUME NEW S, NEW s \in Seq(S)
    PROVE  ToSet(s) \subseteq S
<1>1. s \in [1 .. Len(s) -> S] /\ DOMAIN s = 1 .. Len(s)
  BY LenProperties
<1> QED BY <1>1 DEF ToSet

LEMMA SupersBelow ==
    ASSUME NEW all, Defined(all), NEW c \in DOMAIN all
    PROVE  ToSet(all[c]) \subseteq 1 .. c - 1
<1>1. all[c] \in Seq(1 .. c - 1)
  BY DEF Defined
<1> DEFINE S == 1 .. c - 1
<1> HIDE DEF S
<1>2. all[c] \in Seq(S)
  BY <1>1 DEF S
<1>3. ToSet(all[c]) \subseteq S
  BY <1>2, SetOfTyped
<1> QED BY <1>3 DEF S

\* f[c] is what class c inherits from.
Inherits(all, f) == \A c \in DOMAIN all : f[c] = {c} \cup UNION {f[d] : d \in ToSet(all[c])}

LEMMA InheritsRuns ==
    ASSUME NEW all, Defined(all), NEW own
    PROVE  \E f : Inherits(all, f) /\ Ancestors(all, own) = UNION {f[c] : c \in ToSet(own)}
<1> DEFINE Body(f, c) == {c} \cup UNION {f[d] : d \in ToSet(all[c])}
           n == Len(all)
           T == {k \in 0 .. n : \E f : f = [c \in 1 .. k |-> Body(f, c)]}
           inherits == CHOOSE f : f = [c \in DOMAIN all |-> Body(f, c)]
<1>1. Ancestors(all, own) = UNION {inherits[c] : c \in ToSet(own)}
  BY DEF Ancestors
<1>2. n \in Nat /\ DOMAIN all = 1 .. n /\ 1 .. 0 = {}
  BY DEF Defined
<1>3. ASSUME NEW c \in 1 .. n PROVE ToSet(all[c]) \subseteq 1 .. c - 1
  BY <1>2, SupersBelow
<1> HIDE DEF n, inherits
<1>4. 0 \in T
  <2> DEFINE f == [c \in 1 .. 0 |-> {}]
  <2>1. f = [c \in 1 .. 0 |-> Body(f, c)]
    BY <1>2
  <2>2. 0 \in 0 .. n
    BY <1>2
  <2> HIDE DEF f, Body
  <2> QED BY <2>1, <2>2
<1>5. ASSUME NEW k \in 0 .. n - 1, k \in T PROVE k + 1 \in T
  <2>1. PICK f : f = [c \in 1 .. k |-> Body(f, c)]
    BY <1>5
  <2>2. k \in Nat /\ k + 1 \in 0 .. n /\ n \in Nat
    BY <1>2
  <2> DEFINE g == [c \in 1 .. k + 1 |-> Body(f, c)]
  <2>3. ASSUME NEW c \in 1 .. k + 1 PROVE Body(f, c) = Body(g, c)
    <3>1. c \in 1 .. n /\ \A d \in 1 .. c - 1 : d \in 1 .. k /\ d \in 1 .. k + 1
      BY <2>2
    <3>2. \A d \in 1 .. k : f[d] = Body(f, d)
      <4> HIDE DEF Body
      <4> QED BY <2>1
    <3>3. \A d \in 1 .. k + 1 : g[d] = Body(f, d)
      OBVIOUS
    <3>4. \A d \in ToSet(all[c]) : f[d] = g[d]
      <4> HIDE DEF Body, g
      <4> QED BY <1>3, <3>1, <3>2, <3>3
    <3> HIDE DEF g
    <3> QED BY <3>4
  <2>4. g = [c \in 1 .. k + 1 |-> Body(g, c)]
    <3> HIDE DEF Body
    <3> QED BY <2>3
  <2> HIDE DEF g, Body
  <2> QED BY <2>2, <2>4
<1>6. n \in T
  <2> HIDE DEF T
  <2>1. \A k \in 0 .. n : k \in T
    BY <1>2, <1>4, <1>5, UpTo
  <2> QED BY <1>2, <2>1
<1> HIDE DEF Body
<1>7. inherits = [c \in DOMAIN all |-> Body(inherits, c)]
  BY <1>2, <1>6 DEF inherits
<1>8. \A c \in DOMAIN all : inherits[c] = Body(inherits, c)
  BY <1>7
<1>9. Inherits(all, inherits)
  BY <1>8 DEF Inherits, Body
<1> QED BY <1>1, <1>9

\* The classes own inherits from are the least set that has own and is closed.
LEMMA AncestorsAre ==
    ASSUME NEW all, Defined(all), NEW own \in Seq(DOMAIN all)
    PROVE  /\ ToSet(own) \subseteq Ancestors(all, own) /\ HasSupers(all, Ancestors(all, own))
           /\ \A S : HasSupers(all, S) /\ ToSet(own) \subseteq S => Ancestors(all, own) \subseteq S
<1> DEFINE n == Len(all)
<1>1. n \in Nat /\ DOMAIN all = 1 .. n /\ 1 .. 0 = {}
  BY DEF Defined
<1> HIDE DEF n
<1>2. ToSet(own) \subseteq 1 .. n
  BY <1>1, SetOfTyped
<1>3. ASSUME NEW c \in 1 .. n PROVE ToSet(all[c]) \subseteq 1 .. c - 1
  BY <1>1, SupersBelow
<1>4. PICK f : Inherits(all, f) /\ Ancestors(all, own) = UNION {f[c] : c \in ToSet(own)}
  BY InheritsRuns
<1> DEFINE LeastWithSupers(c) == /\ c \in f[c] /\ HasSupers(all, f[c])
                      /\ \A S : HasSupers(all, S) /\ c \in S => f[c] \subseteq S
           T == {k \in 0 .. n : \A c \in 1 .. k : LeastWithSupers(c)}
<1>5. 0 \in T
  BY <1>1
<1>6. ASSUME NEW k \in 0 .. n - 1, k \in T PROVE k + 1 \in T
  <2> DEFINE c == k + 1
  <2>1. c \in 1 .. n /\ c \in 0 .. n /\ k \in Nat /\ c - 1 = k /\ \A i \in 1 .. c : i \in 1 .. k \/ i = c
    BY <1>1
  <2>2. ToSet(all[c]) \subseteq 1 .. k
    BY <1>3, <2>1
  <2> HIDE DEF c
  <2>3. f[c] = {c} \cup UNION {f[d] : d \in ToSet(all[c])}
    BY <1>1, <1>4, <2>1 DEF Inherits
  <2>4. \A d \in ToSet(all[c]) : LeastWithSupers(d)
    <3> HIDE DEF LeastWithSupers
    <3> QED BY <1>6, <2>2
  <2>5. c \in f[c]
    BY <2>3
  <2>6. ASSUME NEW x \in f[c] PROVE ToSet(all[x]) \subseteq f[c]
    <3>1. CASE x = c
      BY <2>3, <2>4, <3>1
    <3>2. CASE x # c
      <4>1. PICK d \in ToSet(all[c]) : x \in f[d]
        BY <2>3, <3>2
      <4>2. ToSet(all[x]) \subseteq f[d]
        BY <2>4, <4>1 DEF HasSupers
      <4> QED BY <2>3, <4>1, <4>2
    <3> QED BY <3>1, <3>2
  <2>7. ASSUME NEW S, HasSupers(all, S), c \in S PROVE f[c] \subseteq S
    <3>1. ToSet(all[c]) \subseteq S
      BY <2>7 DEF HasSupers
    <3>2. \A d \in ToSet(all[c]) : f[d] \subseteq S
      BY <2>4, <2>7, <3>1
    <3> QED BY <2>3, <2>7, <3>2
  <2>8. LeastWithSupers(c)
    BY <2>5, <2>6, <2>7 DEF HasSupers
  <2> HIDE DEF LeastWithSupers
  <2>9. \A i \in 1 .. c : LeastWithSupers(i)
    BY <1>6, <2>1, <2>8
  <2> QED BY <2>1, <2>9 DEF c
<1>7. n \in T
  <2> HIDE DEF T
  <2>1. \A k \in 0 .. n : k \in T
    BY <1>1, <1>5, <1>6, UpTo
  <2> QED BY <1>1, <2>1
<1>8. \A c \in 1 .. n : LeastWithSupers(c)
  BY <1>7
<1>9. ToSet(own) \subseteq 1 .. n
  BY <1>2
<1> HIDE DEF T
<1>10. ToSet(own) \subseteq Ancestors(all, own)
  BY <1>4, <1>8, <1>9
<1>11. ASSUME NEW x \in Ancestors(all, own) PROVE ToSet(all[x]) \subseteq Ancestors(all, own)
  <2>1. PICK c \in ToSet(own) : x \in f[c]
    BY <1>4
  <2>2. ToSet(all[x]) \subseteq f[c]
    BY <1>8, <1>9, <2>1 DEF HasSupers
  <2> QED BY <1>4, <2>1, <2>2
<1>12. ASSUME NEW S, HasSupers(all, S), ToSet(own) \subseteq S PROVE Ancestors(all, own) \subseteq S
  BY <1>4, <1>8, <1>9, <1>12
<1> QED BY <1>10, <1>11, <1>12 DEF HasSupers

\* The table holds what is inherited from, each class once.
LEMMA TableHoldsAncestors ==
    ASSUME NEW all, Defined(all), NEW own \in Seq(DOMAIN all)
    PROVE  LET table == InitializePartialOrderTable(all, own)
           IN /\ table \in Seq(DOMAIN all) /\ IsInjective(table)
              /\ ToSet(table) = Ancestors(all, own)
<1> DEFINE table == InitializePartialOrderTable(all, own)
<1>1. /\ table \in Seq(DOMAIN all) /\ IsInjective(table)
      /\ ToSet(own) \subseteq ToSet(table) /\ HasSupers(all, ToSet(table))
      /\ \A S : HasSupers(all, S) /\ ToSet(own) \subseteq S => ToSet(table) \subseteq S
  BY TableIs
<1> HIDE DEF table
<1>2. ToSet(table) = Ancestors(all, own)
  BY <1>1, AncestorsAre
<1> QED BY <1>1, <1>2 DEF table

-----------------------------------------------------------------------------
(* The scan.                                                               *)

Free(s, order) == {i \in DOMAIN s.table : ~\E d \in ToSet(s.table) : <<d, s.table[i]>> \in order}
Found(s, order) ==
    LET ahead == {i \in Free(s, order) : i >= s.at}
    IN Min(IF ahead # {} THEN ahead ELSE Free(s, order))

\* The next class is taken: the body of the loop.
Take(order, s) ==
    IF Free(s, order) = {} THEN s
    ELSE [table |-> RemoveAt(s.table, Found(s, order)), at |-> Found(s, order),
          list |-> Append(s.list, s.table[Found(s, order)])]

\* f[m] is what there is after m classes.
ScanRun(table, order, n, f) ==
    /\ Scan(table, order) = f[n]
    /\ f[0] = [table |-> table, at |-> 1, list |-> << >>]
    /\ \A m \in 0 .. n - 1 : f[m + 1] = Take(order, f[m])

\* The loop comes to an end.
LEMMA ScanRuns ==
    ASSUME NEW table, NEW order, NEW n \in Nat, n = Len(table)
    PROVE  \E f : ScanRun(table, order, n, f)
<1> DEFINE Start == [table |-> table, at |-> 1, list |-> << >>]
           Body(f, m) == IF m = 0 THEN Start ELSE Take(order, f[m - 1])
           T == {k \in 0 .. n : \E f : f = [m \in 0 .. k |-> Body(f, m)]}
           scanned == CHOOSE f : f = [m \in 0 .. n |-> Body(f, m)]
<1>1. Scan(table, order) = scanned[n]
  BY DEF Scan, Take, Found, Free
<1> HIDE DEF Start
<1>2. 0 \in T
  <2> DEFINE f == [m \in 0 .. 0 |-> Start]
  <2>1. f = [m \in 0 .. 0 |-> Body(f, m)]
    OBVIOUS
  <2> HIDE DEF f, Body
  <2> QED BY <2>1
<1>3. ASSUME NEW k \in 0 .. n - 1, k \in T PROVE k + 1 \in T
  <2>1. PICK f : f = [m \in 0 .. k |-> Body(f, m)]
    BY <1>3
  <2> DEFINE g == [m \in 0 .. k + 1 |-> IF m = k + 1 THEN Body(f, k + 1) ELSE f[m]]
  <2>2. \A m \in 0 .. k : g[m] = f[m]
    OBVIOUS
  <2>3. ASSUME NEW m \in 0 .. k + 1 PROVE g[m] = Body(g, m)
    <3>1. CASE m = k + 1
      <4>1. g[m] = Body(f, m)
        BY <3>1
      <4>2. g[m - 1] = f[m - 1]
        BY <2>2, <3>1
      <4> HIDE DEF g
      <4> QED BY <4>1, <4>2
    <3>2. CASE m # k + 1
      <4>1. m \in 0 .. k /\ (m # 0 => m - 1 \in 0 .. k)
        BY <3>2
      <4>2. f[m] = Body(f, m)
        <5> HIDE DEF Body
        <5> QED BY <2>1, <4>1
      <4>3. m # 0 => g[m - 1] = f[m - 1]
        BY <2>2, <4>1
      <4>4. g[m] = f[m]
        BY <2>2, <4>1
      <4> HIDE DEF g
      <4> QED BY <4>2, <4>3, <4>4
    <3> QED BY <3>1, <3>2
  <2>4. g = [m \in 0 .. k + 1 |-> Body(g, m)]
    <3> HIDE DEF Body
    <3> QED BY <2>3
  <2>5. k + 1 \in 0 .. n
    OBVIOUS
  <2> HIDE DEF g, Body
  <2> QED BY <2>4, <2>5
<1>4. n \in T
  <2> HIDE DEF T
  <2>1. \A k \in 0 .. n : k \in T
    BY <1>2, <1>3, UpTo
  <2> QED BY <2>1
<1> HIDE DEF Body
<1>5. scanned = [m \in 0 .. n |-> Body(scanned, m)]
  BY <1>4
<1> HIDE DEF scanned
<1>6. \A m \in 0 .. n : scanned[m] = Body(scanned, m)
  BY <1>5
<1>7. scanned[0] = Start
  BY <1>6 DEF Body
<1>8. ASSUME NEW m \in 0 .. n - 1 PROVE scanned[m + 1] = Take(order, scanned[m])
  <2>1. m + 1 \in 0 .. n /\ m + 1 # 0 /\ (m + 1) - 1 = m
    OBVIOUS
  <2> QED BY <1>6, <2>1 DEF Body
<1> QED BY <1>1, <1>7, <1>8 DEF ScanRun, Start

\* What was taken and what is left, after m classes.
Scanning(table, order, X, s, m) ==
    /\ s.table \in Seq(X) /\ s.list \in Seq(X) /\ IsInjective(s.table) /\ IsInjective(s.list)
    /\ ToSet(s.table) \cap ToSet(s.list) = {}
    /\ ToSet(s.table) \cup ToSet(s.list) = ToSet(table)
    /\ \A d \in ToSet(s.table), c \in ToSet(s.list) : <<d, c>> \notin order
    /\ Respects(s.list, order)
    /\ Len(s.table) + Len(s.list) = Len(table)
    /\ Free(s, order) = {} \/ Len(s.list) = m

LEMMA FoundIsFree ==
    ASSUME NEW X, NEW s, s.table \in Seq(X), NEW order, Free(s, order) # {}
    PROVE  Found(s, order) \in Free(s, order)
<1> DEFINE free == Free(s, order)
           ahead == {i \in free : i >= s.at}
           from == IF ahead # {} THEN ahead ELSE free
<1>1. free \subseteq Nat
  <2>1. DOMAIN s.table = 1 .. Len(s.table) /\ Len(s.table) \in Nat
    BY LenProperties
  <2> QED BY <2>1 DEF Free
<1> HIDE DEF free
<1>2. from \subseteq free /\ from # {} /\ from \subseteq Nat
  BY <1>1 DEF free
<1>3. Found(s, order) = Min(from)
  BY DEF Found, free
<1> HIDE DEF from
<1>4. Min(from) \in from
  BY <1>2, MinIs
<1> QED BY <1>2, <1>3, <1>4 DEF free

LEMMA TakeKeeps ==
    ASSUME NEW X, NEW table, NEW order, NEW m \in Nat, NEW s, Scanning(table, order, X, s, m)
    PROVE  Scanning(table, order, X, Take(order, s), m + 1)
<1>1. CASE Free(s, order) = {}
  BY <1>1 DEF Take, Scanning
<1>2. CASE Free(s, order) # {}
  <2> DEFINE i == Found(s, order)
             c == s.table[i]
             left == RemoveAt(s.table, i)
             list == Append(s.list, c)
             S == [table |-> left, at |-> i, list |-> list]
             n == Len(s.list)
  <2>1. /\ s.table \in Seq(X) /\ s.list \in Seq(X) /\ IsInjective(s.table) /\ IsInjective(s.list)
        /\ ToSet(s.table) \cap ToSet(s.list) = {}
        /\ ToSet(s.table) \cup ToSet(s.list) = ToSet(table)
        /\ \A d \in ToSet(s.table), x \in ToSet(s.list) : <<d, x>> \notin order
        /\ Respects(s.list, order)
        /\ Len(s.table) + n = Len(table) /\ n = m
    BY <1>2 DEF Scanning
  <2>2. i \in Free(s, order)
    BY <1>2, <2>1, FoundIsFree
  <2>3. Take(order, s) = S
    BY <1>2 DEF Take
  <2> HIDE DEF i
  <2>4. /\ i \in DOMAIN s.table /\ i \in 1 .. Len(s.table) /\ Len(s.table) \in Nat /\ c \in ToSet(s.table)
        /\ \A d \in ToSet(s.table) : <<d, c>> \notin order
    <3>1. DOMAIN s.table = 1 .. Len(s.table) /\ Len(s.table) \in Nat
      BY <2>1, LenProperties
    <3> QED BY <2>2, <3>1 DEF Free, ToSet
  <2>5. left \in Seq(X) /\ Len(left) = Len(s.table) - 1
    BY <2>1, <2>4, RemoveAtProperties
  <2>6. IsInjective(left) /\ ToSet(left) = ToSet(s.table) \ {c}
    BY <2>1, <2>4, OnceRemoveAt
  <2>7. c \in X
    BY <2>1, <2>4, SetOfTyped
  <2> HIDE DEF c, left
  <2>8. c \notin ToSet(s.list)
    BY <2>1, <2>4
  <2>9. list \in Seq(X) /\ IsInjective(list) /\ ToSet(list) = ToSet(s.list) \cup {c}
    BY <2>1, <2>7, <2>8, SetOfAppend, OnceAppend
  <2>10. /\ n \in Nat /\ Len(list) = n + 1 /\ DOMAIN list = 1 .. n + 1 /\ DOMAIN s.list = 1 .. n
         /\ (\A k \in 1 .. n : list[k] = s.list[k]) /\ list[n + 1] = c
    BY <2>1, <2>7
  <2> HIDE DEF list, n
  <2>11. \A k \in 1 .. n : s.list[k] \in ToSet(s.list)
    BY <2>10 DEF ToSet
  <2>12. ASSUME NEW j \in DOMAIN list, NEW k \in DOMAIN list, <<list[j], list[k]>> \in order PROVE j < k
    <3>1. (j \in 1 .. n \/ j = n + 1) /\ (k \in 1 .. n \/ k = n + 1)
      BY <2>10, <2>12
    <3>2. CASE j = n + 1
      <4>1. k \in 1 .. n => <<c, s.list[k]>> \in order
        BY <2>10, <2>12, <3>2
      <4>2. k = n + 1 => <<c, c>> \in order
        BY <2>10, <2>12, <3>2
      <4> QED BY <2>1, <2>4, <2>11, <3>1, <4>1, <4>2
    <3>3. CASE j \in 1 .. n /\ k = n + 1
      BY <2>10, <3>3
    <3>4. CASE j \in 1 .. n /\ k \in 1 .. n
      <4>1. <<s.list[j], s.list[k]>> \in order /\ j \in DOMAIN s.list /\ k \in DOMAIN s.list
        BY <2>10, <2>12, <3>4
      <4> QED BY <2>1, <4>1 DEF Respects
    <3> QED BY <3>1, <3>2, <3>3, <3>4
  <2>13. Respects(list, order)
    BY <2>12 DEF Respects
  <2>14. ToSet(left) \cap ToSet(list) = {} /\ ToSet(left) \cup ToSet(list) = ToSet(table)
    BY <2>1, <2>4, <2>6, <2>9
  <2>15. \A d \in ToSet(left), x \in ToSet(list) : <<d, x>> \notin order
    BY <2>1, <2>4, <2>6, <2>9
  <2>16. Len(left) + Len(list) = Len(table) /\ Len(list) = m + 1
    <3> DEFINE p == Len(s.table)
    <3>1. p \in Nat /\ p + n = Len(table) /\ n = m /\ n \in Nat /\ Len(left) = p - 1 /\ Len(list) = n + 1
      BY <2>1, <2>4, <2>5, <2>10
    <3> HIDE DEF p
    <3>2. (p - 1) + (n + 1) = p + n
      BY ONLY <3>1
    <3> QED BY <3>1, <3>2
  <2>17. S.table = left /\ S.list = list
    OBVIOUS
  <2> HIDE DEF S
  <2> QED BY <2>3, <2>5, <2>6, <2>9, <2>13, <2>14, <2>15, <2>16, <2>17 DEF Scanning
<1> QED BY <1>1, <1>2

\* Where the scan ends: all are taken, in order, or each that is left has one
\* before it that is left.
LEMMA ScanIs ==
    ASSUME NEW X, NEW table \in Seq(X), IsInjective(table), NEW order
    PROVE  LET s == Scan(table, order)
           IN /\ s.table = << >> => /\ s.list \in Seq(X) /\ IsInjective(s.list)
                                    /\ ToSet(s.list) = ToSet(table) /\ Respects(s.list, order)
              /\ s.table # << >> => /\ ToSet(s.table) # {} /\ ToSet(s.table) \subseteq ToSet(table)
                                    /\ \A c \in ToSet(s.table) : \E d \in ToSet(s.table) : <<d, c>> \in order
<1> DEFINE n == Len(table)
           s == Scan(table, order)
<1>1. n \in Nat /\ n = Len(table)
  OBVIOUS
<1> HIDE DEF n, s
<1>2. PICK f : ScanRun(table, order, n, f)
  BY <1>1, ScanRuns
<1> DEFINE T == {m \in 0 .. n : Scanning(table, order, X, f[m], m)}
<1>3. 0 \in T
  <2> DEFINE b == f[0]
  <2>1. b.table = table /\ b.list = << >>
    BY <1>2 DEF ScanRun
  <2>2. /\ << >> \in Seq(X) /\ Len(<< >>) = 0 /\ DOMAIN << >> = {} /\ ToSet(<< >>) = {}
        /\ IsInjective(<< >>) /\ Respects(<< >>, order)
    <3>1. << >> \in Seq(X) /\ Len(<< >>) = 0 /\ DOMAIN << >> = {}
      OBVIOUS
    <3> QED BY <3>1 DEF ToSet, IsInjective, Respects
  <2> HIDE DEF b
  <2>3. Len(table) + 0 = Len(table)
    BY <1>1
  <2>4. Scanning(table, order, X, b, 0)
    BY <2>1, <2>2, <2>3 DEF Scanning
  <2> QED BY <1>1, <2>4 DEF b
<1>4. ASSUME NEW m \in 0 .. n - 1, m \in T PROVE m + 1 \in T
  <2>1. m \in Nat /\ m + 1 \in 0 .. n /\ f[m + 1] = Take(order, f[m])
    BY <1>1, <1>2 DEF ScanRun
  <2> QED BY <1>4, <2>1, TakeKeeps
<1>5. n \in T
  <2> HIDE DEF T
  <2>1. \A m \in 0 .. n : m \in T
    BY <1>1, <1>3, <1>4, UpTo
  <2> QED BY <1>1, <2>1
<1>6. Scanning(table, order, X, s, n)
  BY <1>2, <1>5 DEF ScanRun, s
<1> HIDE DEF T
<1>7. ASSUME s.table = << >>
      PROVE  /\ s.list \in Seq(X) /\ IsInjective(s.list)
             /\ ToSet(s.list) = ToSet(table) /\ Respects(s.list, order)
  <2>1. ToSet(s.table) = {}
    <3>1. DOMAIN s.table = {}
      BY <1>7
    <3> QED BY <3>1 DEF ToSet
  <2> QED BY <1>6, <2>1 DEF Scanning
<1>8. ASSUME s.table # << >>
      PROVE  /\ ToSet(s.table) # {} /\ ToSet(s.table) \subseteq ToSet(table)
             /\ \A c \in ToSet(s.table) : \E d \in ToSet(s.table) : <<d, c>> \in order
  <2>1. /\ s.table \in Seq(X) /\ s.list \in Seq(X)
        /\ Len(s.table) + Len(s.list) = n /\ (Free(s, order) = {} \/ Len(s.list) = n)
        /\ ToSet(s.table) \subseteq ToSet(table)
    BY <1>1, <1>6 DEF Scanning
  <2>2. Len(s.table) \in Nat /\ Len(s.table) # 0 /\ Len(s.list) \in Nat /\ DOMAIN s.table = 1 .. Len(s.table)
    BY <1>8, <2>1, LenProperties, EmptySeq
  <2>3. Free(s, order) = {}
    <3> DEFINE p == Len(s.table)
               q == Len(s.list)
    <3>1. p \in Nat /\ q \in Nat /\ p # 0 /\ p + q = n
      BY <2>1, <2>2
    <3> HIDE DEF p, q
    <3>2. q # n
      BY ONLY <3>1
    <3> QED BY <2>1, <3>2 DEF q
  <2>4. 1 \in DOMAIN s.table
    BY <2>2
  <2> QED BY <2>1, <2>3, <2>4 DEF Free, ToSet
<1> QED BY <1>7, <1>8 DEF s

-----------------------------------------------------------------------------
(* Lists and rules.                                                        *)

LEMMA BeforeIs ==
    ASSUME NEW S, NEW s \in Seq(S), NEW x, NEW y
    PROVE  <<x, y>> \in Before(s) <=> \E i, j \in DOMAIN s : i < j /\ s[i] = x /\ s[j] = y
<1>1. DOMAIN s = 1 .. Len(s) /\ Len(s) \in Nat
  BY LenProperties
<1>2. \A i \in 1 .. Len(s) : \A j : j \in i + 1 .. Len(s) <=> j \in 1 .. Len(s) /\ i < j
  BY <1>1
<1>3. <<x, y>> \in Before(s) <=> \E i \in DOMAIN s : \E j \in i + 1 .. Len(s) : <<x, y>> = <<s[i], s[j]>>
  BY DEF Before
<1> QED BY <1>1, <1>2, <1>3

LEMMA ClassInFront ==
    ASSUME NEW S, NEW s \in Seq(S), NEW c \in S
    PROVE  /\ <<c>> \o s \in Seq(S) /\ <<c>> \o s # << >> /\ Len(s) \in Nat
           /\ DOMAIN s = 1 .. Len(s) /\ DOMAIN (<<c>> \o s) = 1 .. Len(s) + 1
           /\ Len(<<c>> \o s) = Len(s) + 1
           /\ (<<c>> \o s)[1] = c
           /\ \A k \in 1 .. Len(s) : (<<c>> \o s)[k + 1] = s[k]
           /\ ToSet(<<c>> \o s) = {c} \cup ToSet(s)
<1> DEFINE t == <<c>> \o s
           n == Len(s)
<1>1. n \in Nat /\ DOMAIN s = 1 .. n
  BY LenProperties
<1>2. /\ t \in Seq(S) /\ Len(t) = n + 1
      /\ \A j \in 1 .. n + 1 : t[j] = IF j = 1 THEN c ELSE s[j - 1]
  BY PushProperties
<1> HIDE DEF t, n
<1>3. DOMAIN t = 1 .. n + 1 /\ Len(t) # 0
  BY <1>1, <1>2, LenProperties
<1>4. t # << >>
  BY <1>3, EmptySeq
<1>5. t[1] = c
  BY <1>1, <1>2
<1>6. ASSUME NEW k \in 1 .. n PROVE t[k + 1] = s[k]
  <2>1. k + 1 \in 1 .. n + 1 /\ k + 1 # 1 /\ (k + 1) - 1 = k
    BY <1>1
  <2> QED BY <1>2, <2>1
<1>7. ToSet(t) = {c} \cup ToSet(s)
  <2> DEFINE one == <<c>>
  <2>1. one \in Seq(S) /\ DOMAIN one = {1} /\ one[1] = c
    OBVIOUS
  <2>2. t = one \o s
    BY DEF t
  <2> HIDE DEF one
  <2>3. ToSet(one) = {c}
    BY <2>1 DEF ToSet
  <2> QED BY <2>1, <2>2, <2>3, SetOfConcat
<1> QED BY <1>1, <1>2, <1>3, <1>4, <1>5, <1>6, <1>7 DEF t, n

LEMMA OncePush ==
    ASSUME NEW S, NEW s \in Seq(S), NEW c \in S, IsInjective(s), c \notin ToSet(s)
    PROVE  IsInjective(<<c>> \o s)
<1> DEFINE t == <<c>> \o s
           n == Len(s)
<1>1. /\ n \in Nat /\ DOMAIN s = 1 .. n /\ DOMAIN t = 1 .. n + 1 /\ t[1] = c
      /\ \A k \in 1 .. n : t[k + 1] = s[k]
  BY ClassInFront
<1> HIDE DEF t, n
<1>2. \A k \in 1 .. n + 1 : k = 1 \/ (k - 1 \in 1 .. n /\ (k - 1) + 1 = k)
  BY <1>1
<1>3. \A k \in 1 .. n : s[k] # c
  BY <1>1 DEF ToSet
<1>4. ASSUME NEW i \in 1 .. n + 1, NEW j \in 1 .. n + 1, t[i] = t[j] PROVE i = j
  <2>1. CASE i = 1 \/ j = 1
    BY <1>1, <1>2, <1>3, <1>4, <2>1
  <2>2. CASE i # 1 /\ j # 1
    <3>1. /\ i - 1 \in 1 .. n /\ j - 1 \in 1 .. n /\ (i - 1) + 1 = i /\ (j - 1) + 1 = j
      BY <1>2, <2>2
    <3>2. s[i - 1] = s[j - 1]
      BY <1>1, <1>4, <3>1
    <3>3. i - 1 = j - 1
      BY <1>1, <3>1, <3>2 DEF IsInjective
    <3> QED BY <3>1, <3>3
  <2> QED BY <2>1, <2>2
<1> QED BY <1>1, <1>4 DEF IsInjective, t

LEMMA BeforePush ==
    ASSUME NEW S, NEW s \in Seq(S), NEW c \in S, NEW x, NEW y
    PROVE  <<x, y>> \in Before(<<c>> \o s) <=> <<x, y>> \in Before(s) \/ (x = c /\ y \in ToSet(s))
<1> DEFINE t == <<c>> \o s
           n == Len(s)
<1>1. /\ n \in Nat /\ DOMAIN s = 1 .. n /\ DOMAIN t = 1 .. n + 1 /\ t[1] = c
      /\ \A k \in 1 .. n : t[k + 1] = s[k]
  BY ClassInFront
<1>2. <<x, y>> \in Before(t) <=> \E i, j \in DOMAIN t : i < j /\ t[i] = x /\ t[j] = y
  <2>1. t \in Seq(S)
    BY ClassInFront
  <2> HIDE DEF t
  <2> QED BY <2>1, BeforeIs
<1>3. <<x, y>> \in Before(s) <=> \E i, j \in DOMAIN s : i < j /\ s[i] = x /\ s[j] = y
  BY BeforeIs
<1> HIDE DEF t, n
<1>4. ASSUME NEW i \in 1 .. n + 1, NEW j \in 1 .. n + 1, i < j, t[i] = x, t[j] = y
      PROVE  <<x, y>> \in Before(s) \/ (x = c /\ y \in ToSet(s))
  <2>1. j - 1 \in 1 .. n /\ (j - 1) + 1 = j
    BY <1>1, <1>4
  <2>2. s[j - 1] = y
    BY <1>1, <1>4, <2>1
  <2>3. CASE i = 1
    BY <1>1, <1>4, <2>1, <2>2, <2>3 DEF ToSet
  <2>4. CASE i # 1
    <3>1. i - 1 \in 1 .. n /\ (i - 1) + 1 = i /\ i - 1 < j - 1
      BY <1>1, <1>4, <2>4
    <3>2. s[i - 1] = x
      BY <1>1, <1>4, <3>1
    <3> QED BY <1>1, <1>3, <2>1, <2>2, <3>1, <3>2
  <2> QED BY <2>3, <2>4
<1>5. ASSUME <<x, y>> \in Before(s) PROVE <<x, y>> \in Before(t)
  <2>1. PICK i \in 1 .. n, j \in 1 .. n : i < j /\ s[i] = x /\ s[j] = y
    BY <1>1, <1>3, <1>5
  <2>2. i + 1 \in 1 .. n + 1 /\ j + 1 \in 1 .. n + 1 /\ i + 1 < j + 1
    BY <1>1, <2>1
  <2> QED BY <1>1, <1>2, <2>1, <2>2
<1>6. ASSUME x = c, y \in ToSet(s) PROVE <<x, y>> \in Before(t)
  <2>1. PICK j \in 1 .. n : s[j] = y
    BY <1>1, <1>6 DEF ToSet
  <2>2. 1 \in 1 .. n + 1 /\ j + 1 \in 1 .. n + 1 /\ 1 < j + 1
    BY <1>1, <2>1
  <2> QED BY <1>1, <1>2, <1>6, <2>1, <2>2
<1> QED BY <1>1, <1>2, <1>4, <1>5, <1>6 DEF t

LEMMA BeforeIn ==
    ASSUME NEW S, NEW s \in Seq(S), NEW x, NEW y, <<x, y>> \in Before(s)
    PROVE  x \in ToSet(s) /\ y \in ToSet(s)
BY BeforeIs DEF ToSet

\* The rules are what is recorded, and that the class precedes its superclasses.
LEMMA RulesAre ==
    ASSUME NEW all, Defined(all), NEW own \in Seq(DOMAIN all), NEW c \in Nat,
           NEW table, ToSet(table) = Ancestors(all, own), NEW x, NEW y
    PROVE  /\ <<x, y>> \in RulesOf(all, c, own)
                <=> <<x, y>> \in PartialOrder(all, table, own) \/ (x = c /\ y \in ToSet(own))
           /\ <<x, y>> \in RulesOf(all, c, own) => y \in Ancestors(all, own)
<1> DEFINE A == Ancestors(all, own)
           below == UNION {Before(<<d>> \o all[d]) : d \in A}
<1>1. RulesOf(all, c, own) = Before(<<c>> \o own) \cup below
  BY DEF RulesOf
<1>2. PartialOrder(all, table, own) = Before(own) \cup below
  BY DEF PartialOrder
<1>3. own \in Seq(Nat) /\ A \subseteq DOMAIN all /\ ToSet(own) \subseteq A /\ HasSupers(all, A)
  <2>1. DOMAIN all \subseteq Nat
    BY DEF Defined
  <2>2. own \in Seq(Nat)
    BY <2>1
  <2>3. ToSet(own) \subseteq DOMAIN all
    BY SetOfTyped
  <2>4. HasSupers(all, DOMAIN all)
    <3>1. ASSUME NEW d \in DOMAIN all PROVE ToSet(all[d]) \subseteq DOMAIN all
      <4>1. ToSet(all[d]) \subseteq 1 .. d - 1
        BY SupersBelow
      <4>2. DOMAIN all = 1 .. Len(all) /\ Len(all) \in Nat
        BY DEF Defined
      <4> QED BY <4>1, <4>2
    <3> QED BY <3>1 DEF HasSupers
  <2> QED BY <2>2, <2>3, <2>4, AncestorsAre
<1>4. <<x, y>> \in Before(<<c>> \o own) <=> <<x, y>> \in Before(own) \/ (x = c /\ y \in ToSet(own))
  BY <1>3, BeforePush
<1>5. <<x, y>> \in Before(own) => y \in A
  BY <1>3, BeforeIn
<1>6. <<x, y>> \in below => y \in A
  <2>1. ASSUME NEW d \in A, <<x, y>> \in Before(<<d>> \o all[d]) PROVE y \in A
    <3>1. d \in Nat /\ all[d] \in Seq(Nat)
      BY <1>3 DEF Defined
    <3>2. <<x, y>> \in Before(all[d]) \/ (x = d /\ y \in ToSet(all[d]))
      BY <2>1, <3>1, BeforePush
    <3>3. y \in ToSet(all[d])
      BY <3>1, <3>2, BeforeIn
    <3> QED BY <1>3, <3>3 DEF HasSupers
  <2> HIDE DEF A
  <2> QED BY <2>1
<1> HIDE DEF A, below
<1> QED BY <1>1, <1>2, <1>3, <1>4, <1>5, <1>6 DEF A

-----------------------------------------------------------------------------
(* The list.                                                               *)

\* What is inherited is defined before.
LEMMA AncestorsBelow ==
    ASSUME NEW all, Defined(all), NEW k \in 1 .. Len(all) + 1, NEW own \in Seq(1 .. k - 1)
    PROVE  own \in Seq(DOMAIN all) /\ Ancestors(all, own) \subseteq 1 .. k - 1
<1>1. DOMAIN all = 1 .. Len(all) /\ Len(all) \in Nat
  BY DEF Defined
<1> DEFINE S == 1 .. k - 1
<1>2. S \subseteq DOMAIN all
  BY <1>1
<1>3. own \in Seq(DOMAIN all)
  BY <1>2
<1>4. ASSUME NEW d \in S PROVE ToSet(all[d]) \subseteq S
  <2>1. ToSet(all[d]) \subseteq 1 .. d - 1
    BY <1>2, SupersBelow
  <2> QED BY <1>1, <2>1
<1>5. own \in Seq(S)
  OBVIOUS
<1> HIDE DEF S
<1>6. ToSet(own) \subseteq S
  BY <1>5, SetOfTyped
<1>7. HasSupers(all, S)
  BY <1>4 DEF HasSupers
<1> QED BY <1>3, <1>6, <1>7, AncestorsAre DEF S

\* The table, and the scan of it.
LEMMA ScannedIs ==
    ASSUME NEW all, Defined(all), NEW own \in Seq(DOMAIN all)
    PROVE  LET table == InitializePartialOrderTable(all, own)
               order == PartialOrder(all, table, own)
               s == Scan(table, order)
           IN /\ s.table = << >> => /\ s.list \in Seq(Nat) /\ IsInjective(s.list)
                                    /\ ToSet(s.list) = Ancestors(all, own) /\ Respects(s.list, order)
              /\ s.table # << >> => /\ ToSet(s.table) # {} /\ ToSet(s.table) \subseteq Ancestors(all, own)
                                    /\ \A c \in ToSet(s.table) : \E d \in ToSet(s.table) : <<d, c>> \in order
<1> DEFINE table == InitializePartialOrderTable(all, own)
           order == PartialOrder(all, table, own)
           s == Scan(table, order)
<1>1. table \in Seq(DOMAIN all) /\ IsInjective(table) /\ ToSet(table) = Ancestors(all, own)
  BY TableHoldsAncestors
<1>2. DOMAIN all \subseteq Nat
  BY DEF Defined
<1> HIDE DEF table, order
<1>3. table \in Seq(Nat)
  BY <1>1, <1>2
<1>4. /\ s.table = << >> => /\ s.list \in Seq(Nat) /\ IsInjective(s.list)
                            /\ ToSet(s.list) = ToSet(table) /\ Respects(s.list, order)
      /\ s.table # << >> => /\ ToSet(s.table) # {} /\ ToSet(s.table) \subseteq ToSet(table)
                            /\ \A c \in ToSet(s.table) : \E d \in ToSet(s.table) : <<d, c>> \in order
  BY <1>1, <1>3, ScanIs
<1> HIDE DEF s
<1> QED BY <1>1, <1>4 DEF s, order, table

\* A list that can be formed is the one the rules ask for.
LEMMA ListIs ==
    ASSUME NEW all, Defined(all), NEW own \in Seq(DOMAIN all),
           NEW c \in Nat, c \notin Ancestors(all, own),
           FindPrecedenceList(all, c, own) # None
    PROVE  LET list == FindPrecedenceList(all, c, own)
           IN /\ list \in Seq(Nat) /\ ToSet(list) = {c} \cup Ancestors(all, own)
              /\ IsInjective(list) /\ list[1] = c /\ Respects(list, RulesOf(all, c, own))
<1> DEFINE table == InitializePartialOrderTable(all, own)
           order == PartialOrder(all, table, own)
           s == Scan(table, order)
           A == Ancestors(all, own)
           R == RulesOf(all, c, own)
           list == <<c>> \o s.list
           n == Len(s.list)
<1>1. s.table = << >> /\ FindPrecedenceList(all, c, own) = list
  BY DEF FindPrecedenceList
<1>2. ToSet(table) = A
  BY TableHoldsAncestors
<1>3. \A x, y : /\ <<x, y>> \in R <=> <<x, y>> \in order \/ (x = c /\ y \in ToSet(own))
                /\ <<x, y>> \in R => y \in A
  <2> HIDE DEF table
  <2> QED BY <1>2, RulesAre
<1>4. s.list \in Seq(Nat) /\ IsInjective(s.list) /\ ToSet(s.list) = A /\ Respects(s.list, order)
  BY <1>1, ScannedIs
<1> HIDE DEF table, order, s, A, R
<1>5. /\ list \in Seq(Nat) /\ n \in Nat /\ DOMAIN s.list = 1 .. n /\ DOMAIN list = 1 .. n + 1
      /\ list[1] = c /\ (\A k \in 1 .. n : list[k + 1] = s.list[k])
      /\ ToSet(list) = {c} \cup ToSet(s.list)
  BY <1>4, ClassInFront
<1>6. IsInjective(list)
  BY <1>4, OncePush DEF A
<1> HIDE DEF list, n
<1>7. c \notin A
  BY DEF A
<1>8. ASSUME NEW i \in 1 .. n + 1, NEW j \in 1 .. n + 1, <<list[i], list[j]>> \in R PROVE i < j
  <2>1. j # 1
    BY <1>3, <1>5, <1>7, <1>8
  <2>2. CASE i = 1
    BY <1>5, <2>1, <2>2
  <2>3. CASE i # 1
    <3>1. /\ i - 1 \in 1 .. n /\ j - 1 \in 1 .. n /\ (i - 1) + 1 = i /\ (j - 1) + 1 = j
      BY <1>5, <2>1, <2>3
    <3>2. list[i] = s.list[i - 1] /\ list[j] = s.list[j - 1]
      BY <1>5, <3>1
    <3>3. list[i] # c
      BY <1>4, <1>5, <1>7, <3>1, <3>2 DEF ToSet
    <3>4. <<s.list[i - 1], s.list[j - 1]>> \in order
      BY <1>3, <1>8, <3>2, <3>3
    <3>5. i - 1 < j - 1
      BY <1>4, <1>5, <3>1, <3>4 DEF Respects
    <3> QED BY <1>5, <3>5
  <2> QED BY <2>2, <2>3
<1>9. Respects(list, R)
  BY <1>5, <1>8 DEF Respects
<1> QED BY <1>1, <1>4, <1>5, <1>6, <1>9 DEF A, R

\* No list can be formed only when some classes each have one before them.
LEMMA RefusedIs ==
    ASSUME NEW all, Defined(all), NEW own \in Seq(DOMAIN all),
           NEW c \in Nat, c \notin Ancestors(all, own)
    PROVE  FindPrecedenceList(all, c, own) = None <=>
               \E circle \in SUBSET ({c} \cup Ancestors(all, own)) :
                   /\ circle # {}
                   /\ \A x \in circle : \E d \in circle : <<d, x>> \in RulesOf(all, c, own)
<1> DEFINE A == Ancestors(all, own)
           R == RulesOf(all, c, own)
<1>1. ASSUME FindPrecedenceList(all, c, own) = None
      PROVE  \E circle \in SUBSET ({c} \cup A) :
                 circle # {} /\ \A x \in circle : \E d \in circle : <<d, x>> \in R
  <2> DEFINE table == InitializePartialOrderTable(all, own)
             order == PartialOrder(all, table, own)
             s == Scan(table, order)
  <2>1. ToSet(table) = A
    BY TableHoldsAncestors
  <2>2. \A x, y : <<x, y>> \in order => <<x, y>> \in R
    <3> HIDE DEF table
    <3> QED BY <2>1, RulesAre
  <2>3. s.table # << >>
    <3>1. SUFFICES ASSUME s.table = << >> PROVE FALSE
      OBVIOUS
    <3>2. s.list \in Seq(Nat) /\ FindPrecedenceList(all, c, own) = <<c>> \o s.list
      BY <3>1, ScannedIs DEF FindPrecedenceList
    <3> HIDE DEF s
    <3>3. <<c>> \o s.list # << >>
      BY <3>2, ClassInFront
    <3> QED BY <1>1, <3>2, <3>3 DEF None
  <2>4. /\ ToSet(s.table) # {} /\ ToSet(s.table) \subseteq A
        /\ \A x \in ToSet(s.table) : \E d \in ToSet(s.table) : <<d, x>> \in order
    BY <2>3, ScannedIs
  <2> DEFINE circle == ToSet(s.table)
  <2> HIDE DEF order, A, R
  <2>5. circle \in SUBSET ({c} \cup A) /\ circle # {}
    BY <2>4
  <2>6. \A x \in circle : \E d \in circle : <<d, x>> \in R
    BY <2>2, <2>4
  <2> HIDE DEF circle
  <2> QED BY <2>5, <2>6
<1>2. ASSUME NEW circle \in SUBSET ({c} \cup A), circle # {},
             \A x \in circle : \E d \in circle : <<d, x>> \in R,
             FindPrecedenceList(all, c, own) # None
      PROVE  FALSE
  <2> DEFINE list == FindPrecedenceList(all, c, own)
  <2>1. list \in Seq(Nat) /\ ToSet(list) = {c} \cup A /\ Respects(list, R)
    BY <1>2, ListIs
  <2> HIDE DEF list, A, R
  <2> DEFINE in == {k \in DOMAIN list : list[k] \in circle}
             first == Min(in)
  <2>2. DOMAIN list \subseteq Nat
    BY <2>1
  <2>3. \A x \in circle : \E k \in in : list[k] = x
    <3>1. ASSUME NEW x \in circle PROVE \E k \in in : list[k] = x
      <4>1. x \in ToSet(list)
        BY <1>2, <2>1
      <4> QED BY <4>1 DEF ToSet
    <3> QED BY <3>1
  <2>4. in # {} /\ in \subseteq Nat
    BY <1>2, <2>2, <2>3
  <2> HIDE DEF in
  <2>5. first \in in /\ \A k \in in : first <= k
    BY <2>4, MinIs
  <2> HIDE DEF first
  <2>6. first \in DOMAIN list /\ list[first] \in circle
    BY <2>5 DEF in
  <2>7. PICK k \in in : <<list[k], list[first]>> \in R
    BY <1>2, <2>3, <2>6
  <2>8. k < first
    BY <2>1, <2>6, <2>7 DEF Respects, in
  <2>9. first <= k /\ k \in Nat /\ first \in Nat
    BY <2>4, <2>5
  <2> QED BY <2>8, <2>9
<1> HIDE DEF A, R
<1>3. (\E circle \in SUBSET ({c} \cup A) :
           circle # {} /\ \A x \in circle : \E d \in circle : <<d, x>> \in R)
          => FindPrecedenceList(all, c, own) = None
  BY <1>2
<1> QED BY <1>1, <1>3 DEF A, R

-----------------------------------------------------------------------------
(* Defined again: the class itself is in front of the table.               *)

\* s is where the scan of the table is, r where the scan with c in front is.
InFront(c, A, s, r) ==
    /\ s.table \in Seq(Nat) /\ IsInjective(s.table) /\ ToSet(s.table) \subseteq A /\ s.list \in Seq(Nat)
    /\ r.table = s.table /\ r.at = s.at /\ r.list = <<c>> \o s.list

LEMMA TakeInFront ==
    ASSUME NEW c \in Nat, NEW A, NEW s, NEW r, InFront(c, A, s, r), NEW order, NEW again,
           \A x, y \in A : <<x, y>> \in again <=> <<x, y>> \in order
    PROVE  InFront(c, A, Take(order, s), Take(again, r))
<1>1. /\ s.table \in Seq(Nat) /\ IsInjective(s.table) /\ ToSet(s.table) \subseteq A /\ s.list \in Seq(Nat)
      /\ r.table = s.table /\ r.at = s.at /\ r.list = <<c>> \o s.list
  BY DEF InFront
<1>2. Free(r, again) = Free(s, order)
  <2>1. \A i \in DOMAIN s.table : s.table[i] \in A
    BY <1>1 DEF ToSet
  <2>2. \A i \in DOMAIN s.table : (\E d \in ToSet(s.table) : <<d, s.table[i]>> \in again)
                                  <=> \E d \in ToSet(s.table) : <<d, s.table[i]>> \in order
    BY <1>1, <2>1
  <2> QED BY <1>1, <2>2 DEF Free
<1>3. Found(r, again) = Found(s, order)
  BY <1>1, <1>2 DEF Found
<1>4. CASE Free(s, order) = {}
  BY <1>2, <1>4 DEF Take
<1>5. CASE Free(s, order) # {}
  <2> DEFINE i == Found(s, order)
             x == s.table[i]
             left == RemoveAt(s.table, i)
             S == [table |-> left, at |-> i, list |-> Append(s.list, x)]
             R == [table |-> left, at |-> i, list |-> Append(<<c>> \o s.list, x)]
  <2>1. i \in Free(s, order)
    BY <1>1, <1>5, FoundIsFree
  <2>2. Take(order, s) = S
    BY <1>5 DEF Take
  <2>3. Take(again, r) = R
    BY <1>1, <1>2, <1>3, <1>5 DEF Take
  <2> HIDE DEF i
  <2>4. i \in DOMAIN s.table /\ i \in 1 .. Len(s.table)
    <3>1. DOMAIN s.table = 1 .. Len(s.table)
      BY <1>1, LenProperties
    <3> QED BY <2>1, <3>1 DEF Free
  <2>5. left \in Seq(Nat) /\ IsInjective(left) /\ ToSet(left) \subseteq A
    <3>1. left \in Seq(Nat)
      BY <1>1, <2>4, RemoveAtProperties
    <3>2. IsInjective(left) /\ ToSet(left) = ToSet(s.table) \ {x}
      BY <1>1, <2>4, OnceRemoveAt
    <3> QED BY <1>1, <3>1, <3>2
  <2>6. x \in Nat
    BY <1>1, <2>4, SetOfTyped DEF ToSet
  <2> HIDE DEF left, x
  <2> DEFINE one == <<c>>
             l == s.list
  <2>7. one \in Seq(Nat) /\ <<x>> \in Seq(Nat) /\ l \in Seq(Nat)
    BY <1>1, <2>6
  <2> HIDE DEF one, l
  <2>8. one \o l \in Seq(Nat) /\ Append(l, x) \in Seq(Nat)
    BY <2>6, <2>7, ConcatProperties
  <2>9. Append(one \o l, x) = (one \o l) \o <<x>> /\ Append(l, x) = l \o <<x>>
    BY <2>6, <2>7, <2>8, AppendIsConcat
  <2>10. (one \o l) \o <<x>> = one \o (l \o <<x>>)
    BY <2>7, ConcatAssociative
  <2>11. Append(<<c>> \o s.list, x) = <<c>> \o Append(s.list, x)
    BY <2>9, <2>10 DEF one, l
  <2>12. Append(s.list, x) \in Seq(Nat)
    BY <2>8 DEF l
  <2>13. S.table = left /\ S.at = i /\ S.list = Append(s.list, x)
    OBVIOUS
  <2>14. R.table = left /\ R.at = i /\ R.list = <<c>> \o Append(s.list, x)
    BY <2>11
  <2> HIDE DEF S, R
  <2> QED BY <2>2, <2>3, <2>5, <2>12, <2>13, <2>14 DEF InFront
<1> QED BY <1>4, <1>5

\* Nothing precedes the class in front: it is taken first.
LEMMA TakeFront ==
    ASSUME NEW T \in Seq(Nat), IsInjective(T), NEW c \in Nat, c \notin ToSet(T),
           NEW again, \A x, y : <<x, y>> \in again => y \in ToSet(T)
    PROVE  LET Start(t) == [table |-> t, at |-> 1, list |-> << >>]
           IN InFront(c, ToSet(T), Start(T), Take(again, Start(<<c>> \o T)))
<1> DEFINE U == <<c>> \o T
           n == Len(T)
           s == [table |-> T, at |-> 1, list |-> << >>]
           u == [table |-> U, at |-> 1, list |-> << >>]
           left == RemoveAt(U, 1)
<1>1. /\ U \in Seq(Nat) /\ n \in Nat /\ DOMAIN U = 1 .. n + 1 /\ Len(U) = n + 1
      /\ U[1] = c /\ \A k \in 1 .. n : U[k + 1] = T[k]
  BY ClassInFront
<1> HIDE DEF U, n
<1>2. u.table = U /\ u.at = 1 /\ u.list = << >> /\ s.table = T /\ s.at = 1 /\ s.list = << >>
  OBVIOUS
<1> HIDE DEF u, s
<1>3. 1 \in Free(u, again) /\ Free(u, again) \subseteq 1 .. n + 1
  <2>1. \A d : <<d, U[1]>> \notin again
    BY <1>1
  <2>2. 1 \in DOMAIN U
    BY <1>1
  <2> QED BY <1>1, <1>2, <2>1, <2>2 DEF Free
<1>4. Found(u, again) = 1
  <2> DEFINE free == Free(u, again)
             ahead == {i \in free : i >= u.at}
  <2>1. 1 \in ahead /\ ahead \subseteq Nat /\ \A i \in ahead : 1 <= i
    BY <1>1, <1>2, <1>3
  <2>2. Found(u, again) = Min(ahead)
    BY <2>1 DEF Found
  <2> HIDE DEF ahead
  <2>3. Min(ahead) \in ahead /\ \A i \in ahead : Min(ahead) <= i
    BY <2>1, MinIs
  <2> DEFINE min == Min(ahead)
  <2>4. min \in Nat /\ min <= 1 /\ 1 <= min
    BY <2>1, <2>3
  <2> HIDE DEF min
  <2>5. min = 1
    BY ONLY <2>4
  <2> QED BY <2>2, <2>5 DEF min
<1>5. Take(again, u) = [table |-> left, at |-> 1, list |-> Append(<< >>, c)]
  BY <1>1, <1>2, <1>3, <1>4 DEF Take
<1>6. left = T
  <2>1. 1 \in 1 .. Len(U)
    BY <1>1
  <2>2. /\ left \in Seq(Nat) /\ Len(left) = (n + 1) - 1
        /\ \A j \in 1 .. (n + 1) - 1 : left[j] = IF j < 1 THEN U[j] ELSE U[j + 1]
    BY <1>1, <2>1, RemoveAtProperties
  <2>3. Len(left) = n /\ \A j \in 1 .. n : left[j] = T[j]
    BY <1>1, <2>2
  <2> HIDE DEF left
  <2> QED BY <2>2, <2>3, SeqEqual DEF n
<1>7. Append(<< >>, c) = <<c>> \o << >> /\ << >> \in Seq(Nat)
  OBVIOUS
<1>8. InFront(c, ToSet(T), s, Take(again, u))
  <2> DEFINE r == Take(again, u)
  <2>1. r.table = T /\ r.at = 1 /\ r.list = <<c>> \o << >>
    BY <1>5, <1>6, <1>7
  <2> HIDE DEF r
  <2>2. InFront(c, ToSet(T), s, r)
    BY <1>2, <1>7, <2>1 DEF InFront
  <2> QED BY <2>2 DEF r
<1> QED BY <1>8 DEF s, u, U

\* What is left is the same, and what is taken is the same, after the class.
LEMMA ScanAgain ==
    ASSUME NEW T \in Seq(Nat), IsInjective(T), NEW c \in Nat, c \notin ToSet(T),
           NEW order, NEW again, \A x, y : <<x, y>> \in again => y \in ToSet(T),
           \A x, y \in ToSet(T) : <<x, y>> \in again <=> <<x, y>> \in order
    PROVE  InFront(c, ToSet(T), Scan(T, order), Scan(<<c>> \o T, again))
<1> DEFINE n == Len(T)
           U == <<c>> \o T
           k == n + 1
           A == ToSet(T)
<1>1. n \in Nat /\ n = Len(T) /\ Len(U) = k /\ k \in Nat
  BY ClassInFront
<1>2. PICK f : ScanRun(T, order, n, f)
  BY <1>1, ScanRuns
<1>3. PICK g : ScanRun(U, again, k, g)
  <2> HIDE DEF U, k, n
  <2> QED BY <1>1, ScanRuns
<1>4. InFront(c, A, f[0], g[1])
  <2>1. f[0] = [table |-> T, at |-> 1, list |-> << >>]
    BY <1>2 DEF ScanRun
  <2>2. g[0] = [table |-> U, at |-> 1, list |-> << >>] /\ \A m \in 0 .. k - 1 : g[m + 1] = Take(again, g[m])
    BY <1>3 DEF ScanRun
  <2>3. 0 \in 0 .. k - 1 /\ 0 + 1 = 1
    BY <1>1
  <2>4. g[1] = Take(again, g[0])
    <3>1. g[0 + 1] = Take(again, g[0])
      BY <2>2, <2>3
    <3> QED BY <2>3, <3>1
  <2>5. InFront(c, A, [table |-> T, at |-> 1, list |-> << >>],
              Take(again, [table |-> U, at |-> 1, list |-> << >>]))
    BY TakeFront
  <2> QED BY <2>1, <2>2, <2>4, <2>5
<1> HIDE DEF A, U, n
<1> DEFINE W == {m \in 0 .. n : InFront(c, A, f[m], g[m + 1])}
<1>5. 0 \in W
  BY <1>1, <1>4
<1>6. ASSUME NEW m \in 0 .. n - 1, m \in W PROVE m + 1 \in W
  <2>1. m + 1 \in 0 .. n /\ m + 1 \in 0 .. k - 1
    BY <1>1
  <2>2. f[m + 1] = Take(order, f[m]) /\ g[(m + 1) + 1] = Take(again, g[m + 1])
    BY <1>2, <1>3, <2>1 DEF ScanRun
  <2>3. InFront(c, A, f[m], g[m + 1])
    BY <1>6
  <2>4. \A x, y \in A : <<x, y>> \in again <=> <<x, y>> \in order
    BY DEF A
  <2>5. InFront(c, A, Take(order, f[m]), Take(again, g[m + 1]))
    BY <2>3, <2>4, TakeInFront
  <2> QED BY <2>1, <2>2, <2>5
<1>7. n \in W
  <2> HIDE DEF W
  <2>1. \A m \in 0 .. n : m \in W
    BY <1>1, <1>5, <1>6, UpTo
  <2> QED BY <1>1, <2>1
<1>8. InFront(c, A, f[n], g[k])
  BY <1>7
<1> HIDE DEF W
<1>9. Scan(T, order) = f[n] /\ Scan(U, again) = g[k]
  BY <1>2, <1>3 DEF ScanRun
<1> QED BY <1>8, <1>9 DEF A, U

LEMMA AgainIs ==
    ASSUME NEW all, Defined(all), NEW c \in DOMAIN all
    PROVE  FindPrecedenceListAgain(all, c) = FindPrecedenceList(all, c, all[c])
<1> DEFINE own == all[c]
           T == InitializePartialOrderTable(all, own)
           order == PartialOrder(all, T, own)
           U == <<c>> \o T
           again == PartialOrder(all, U, own)
           A == Ancestors(all, own)
           s == Scan(T, order)
           r == Scan(U, again)
<1>1. DOMAIN all = 1 .. Len(all) /\ Len(all) \in Nat /\ c \in Nat /\ c \in 1 .. Len(all) + 1
  BY DEF Defined
<1>2. own \in Seq(DOMAIN all) /\ c \notin A /\ own \in Seq(Nat)
  <2>1. own \in Seq(1 .. c - 1)
    BY DEF Defined
  <2>2. own \in Seq(DOMAIN all) /\ A \subseteq 1 .. c - 1
    BY <1>1, <2>1, AncestorsBelow
  <2>3. c \notin 1 .. c - 1
    BY <1>1
  <2> QED BY <2>2, <2>3 DEF Defined
<1>3. T \in Seq(Nat) /\ IsInjective(T) /\ ToSet(T) = A
  <2>1. T \in Seq(DOMAIN all) /\ IsInjective(T) /\ ToSet(T) = A
    BY <1>2, TableHoldsAncestors
  <2> HIDE DEF T
  <2> QED BY <1>1, <2>1
<1>4. ToSet(U) = {c} \cup A
  <2> HIDE DEF T
  <2> QED BY <1>1, <1>3, ClassInFront
<1>5. order = Before(own) \cup UNION {Before(<<d>> \o all[d]) : d \in A}
  BY <1>3 DEF PartialOrder
<1>6. again = Before(own) \cup UNION {Before(<<d>> \o all[d]) : d \in {c} \cup A}
  <2> HIDE DEF U
  <2> QED BY <1>4 DEF PartialOrder
<1>7. again = order \cup Before(<<c>> \o own)
  BY <1>5, <1>6
<1>8. \A x, y : <<x, y>> \in Before(<<c>> \o own) <=> <<x, y>> \in Before(own) \/ (x = c /\ y \in ToSet(own))
  BY <1>1, <1>2, BeforePush
<1>9. \A x, y : <<x, y>> \in again <=> <<x, y>> \in order \/ (x = c /\ y \in ToSet(own))
  BY <1>5, <1>7, <1>8
<1>10. \A x, y : /\ <<x, y>> \in RulesOf(all, c, own) <=> <<x, y>> \in order \/ (x = c /\ y \in ToSet(own))
                 /\ <<x, y>> \in RulesOf(all, c, own) => y \in A
  <2> HIDE DEF T
  <2> QED BY <1>1, <1>2, <1>3, RulesAre
<1> HIDE DEF order, again, A, own, T
<1>11. \A x, y : <<x, y>> \in again => y \in ToSet(T)
  BY <1>3, <1>9, <1>10
<1>12. \A x, y \in ToSet(T) : <<x, y>> \in again <=> <<x, y>> \in order
  BY <1>2, <1>3, <1>9
<1>13. InFront(c, ToSet(T), s, r)
  BY <1>1, <1>2, <1>3, <1>11, <1>12, ScanAgain
<1>14. r.table = s.table /\ r.list = <<c>> \o s.list
  BY <1>13 DEF InFront
<1>15. FindPrecedenceList(all, c, own) = IF s.table # << >> THEN None ELSE <<c>> \o s.list
  BY DEF FindPrecedenceList, order, T
<1>16. FindPrecedenceListAgain(all, c) = IF r.table # << >> THEN None ELSE r.list
  BY DEF FindPrecedenceListAgain, again, T, own
<1> HIDE DEF s, r
<1> QED BY <1>14, <1>15, <1>16 DEF own

-----------------------------------------------------------------------------
(* What a later class leaves alone.                                        *)

LEMMA DefinedAppend ==
    ASSUME NEW all, Defined(all), NEW own \in Seq(1 .. Len(all))
    PROVE  /\ Defined(Append(all, own)) /\ Len(all) \in Nat /\ DOMAIN all = 1 .. Len(all)
           /\ Len(Append(all, own)) = Len(all) + 1 /\ DOMAIN Append(all, own) = 1 .. Len(all) + 1
           /\ \A c \in DOMAIN all : Append(all, own)[c] = all[c]
           /\ Append(all, own)[Len(all) + 1] = own
<1> DEFINE more == Append(all, own)
           n == Len(all)
<1>1. own \in Seq(Nat) /\ all \in Seq(Seq(Nat))
  BY DEF Defined
<1>2. /\ more \in Seq(Seq(Nat)) /\ n \in Nat /\ Len(more) = n + 1 /\ DOMAIN all = 1 .. n
      /\ DOMAIN more = 1 .. n + 1 /\ (\A c \in 1 .. n : more[c] = all[c]) /\ more[n + 1] = own
  BY <1>1
<1> HIDE DEF more, n
<1>3. ASSUME NEW c \in 1 .. n + 1 PROVE more[c] \in Seq(1 .. c - 1)
  <2>1. CASE c \in 1 .. n
    BY <1>2, <2>1 DEF Defined
  <2>2. CASE c \notin 1 .. n
    <3>1. c = n + 1 /\ c - 1 = n
      BY <1>2, <2>2
    <3> QED BY <1>2, <3>1 DEF n
  <2> QED BY <2>1, <2>2
<1> QED BY <1>2, <1>3 DEF Defined, more, n

\* The table of classes that are there.
LEMMA TableStays ==
    ASSUME NEW all, Defined(all), NEW new \in Seq(1 .. Len(all)), NEW own \in Seq(DOMAIN all)
    PROVE  InitializePartialOrderTable(Append(all, new), own) = InitializePartialOrderTable(all, own)
<1> DEFINE more == Append(all, new)
           n == Len(all)
           k == n + 1
<1>1. /\ n \in Nat /\ n = Len(all) /\ Len(more) = k /\ k \in Nat /\ DOMAIN all = 1 .. n
      /\ \A c \in DOMAIN all : more[c] = all[c]
  BY DefinedAppend
<1> HIDE DEF more, n
<1>2. PICK f : EnterRun(all, own, n, f)
  BY <1>1, EnterRuns
<1>3. PICK g : EnterRun(more, own, k, g)
  <2> HIDE DEF k
  <2> QED BY <1>1, EnterRuns
<1>4. \A m \in 0 .. n : Entering(all, own, f[m], m)
  BY <1>1, <1>2, EnteringAll
<1> DEFINE W == {m \in 0 .. n : g[m] = f[m]}
<1>5. 0 \in W
  <2>1. g[0] = f[0]
    BY <1>2, <1>3 DEF EnterRun
  <2> QED BY <1>1, <2>1
<1>6. ASSUME NEW m \in 0 .. n - 1, m \in W PROVE m + 1 \in W
  <2>1. m + 1 \in 0 .. n /\ m \in 0 .. n /\ m \in 0 .. k - 1
    BY <1>1
  <2> DEFINE b == f[m]
  <2>2. f[m + 1] = Enter(all, b) /\ g[m + 1] = Enter(more, b)
    BY <1>2, <1>3, <1>6, <2>1 DEF EnterRun
  <2>3. b.rest \in Seq(DOMAIN all)
    BY <1>4, <2>1 DEF Entering
  <2> HIDE DEF b
  <2>4. Enter(more, b) = Enter(all, b)
    <3>1. CASE Open(b) = {}
      BY <3>1 DEF Enter
    <3>2. CASE Open(b) # {}
      <4>1. Open(b) \subseteq Nat /\ Open(b) \subseteq DOMAIN b.rest
        BY <2>3 DEF Open
      <4>2. Min(Open(b)) \in Open(b)
        BY <3>2, <4>1, MinIs
      <4>3. b.rest[Min(Open(b))] \in ToSet(b.rest)
        BY <4>1, <4>2 DEF ToSet
      <4>4. b.rest[Min(Open(b))] \in DOMAIN all
        BY <2>3, <4>3, SetOfTyped
      <4> QED BY <1>1, <4>4 DEF Enter
    <3> QED BY <3>1, <3>2
  <2> QED BY <2>1, <2>2, <2>4
<1>7. n \in W
  <2> HIDE DEF W
  <2>1. \A m \in 0 .. n : m \in W
    BY <1>1, <1>5, <1>6, UpTo
  <2> QED BY <1>1, <2>1
<1>8. g[n] = f[n]
  BY <1>7
<1> HIDE DEF W
<1>9. Open(f[n]) = {}
  BY <1>1, <1>2, EnteredAll
<1>10. g[k] = g[n]
  <2>1. n \in 0 .. k - 1
    BY <1>1
  <2>2. g[n + 1] = Enter(more, g[n])
    BY <1>3, <2>1 DEF EnterRun
  <2> QED BY <1>8, <1>9, <2>2 DEF Enter
<1>11. InitializePartialOrderTable(all, own) = f[n].table /\ InitializePartialOrderTable(more, own) = g[k].table
  BY <1>2, <1>3 DEF EnterRun
<1> QED BY <1>8, <1>10, <1>11 DEF more

LEMMA ListStays ==
    ASSUME NEW all, Defined(all), NEW new \in Seq(1 .. Len(all)), NEW own \in Seq(DOMAIN all), NEW c
    PROVE  FindPrecedenceList(Append(all, new), c, own) = FindPrecedenceList(all, c, own)
<1> DEFINE more == Append(all, new)
           table == InitializePartialOrderTable(all, own)
<1>1. \A d \in DOMAIN all : more[d] = all[d]
  BY DefinedAppend
<1>2. InitializePartialOrderTable(more, own) = table
  BY TableStays
<1>3. ToSet(table) \subseteq DOMAIN all
  <2>1. table \in Seq(DOMAIN all)
    BY TableHoldsAncestors
  <2> HIDE DEF table
  <2> QED BY <2>1, SetOfTyped
<1> HIDE DEF more, table
<1>4. PartialOrder(more, table, own) = PartialOrder(all, table, own)
  <2>1. \A d \in ToSet(table) : Before(<<d>> \o more[d]) = Before(<<d>> \o all[d])
    BY <1>1, <1>3
  <2>2. {Before(<<d>> \o more[d]) : d \in ToSet(table)} = {Before(<<d>> \o all[d]) : d \in ToSet(table)}
    BY <2>1
  <2> QED BY <2>2 DEF PartialOrder
<1>5. FindPrecedenceList(more, c, own) = FindPrecedenceList(all, c, own)
  BY <1>2, <1>4 DEF FindPrecedenceList, table
<1> QED BY <1>5 DEF more

-----------------------------------------------------------------------------
(* The classes there are.                                                  *)

ListsAre ==
    \A c \in DOMAIN supers :
        /\ precedence[c] = FindPrecedenceList(supers, c, supers[c])
        /\ precedence[c] # None

ClassesIInv ==
    /\ Defined(supers) /\ DOMAIN precedence = DOMAIN supers
    /\ precedence \in Seq(Seq(Nat)) /\ ListsAre

\* A list of one class.
LEMMA OneClass ==
    ASSUME NEW list \in Seq(Nat), NEW c \in Nat, IsInjective(list), list[1] = c, ToSet(list) = {c}
    PROVE  list = <<c>>
<1> DEFINE n == Len(list)
<1>1. n \in Nat /\ DOMAIN list = 1 .. n
  OBVIOUS
<1>2. \A k \in 1 .. n : list[k] = c
  BY <1>1 DEF ToSet
<1>3. n # 0
  BY <1>1 DEF ToSet
<1>4. n = 1
  <2>1. ~(n > 1)
    <3>1. SUFFICES ASSUME n > 1 PROVE FALSE
      OBVIOUS
    <3>2. 1 \in 1 .. n /\ 2 \in 1 .. n
      BY <1>1, <3>1
    <3>3. 1 = 2
      BY <1>1, <1>2, <3>2 DEF IsInjective
    <3> QED BY <3>3
  <2> QED BY <1>1, <1>3, <2>1
<1>5. <<c>> \in Seq(Nat) /\ Len(<<c>>) = 1 /\ <<c>>[1] = c
  OBVIOUS
<1>6. Len(list) = Len(<<c>>) /\ \A k \in 1 .. Len(list) : list[k] = <<c>>[k]
  <2>1. \A k \in 1 .. 1 : k = 1
    OBVIOUS
  <2> QED BY <1>4, <1>5, <2>1
<1> DEFINE one == <<c>>
<1>7. one \in Seq(Nat) /\ Len(list) = Len(one) /\ \A k \in 1 .. Len(list) : list[k] = one[k]
  BY <1>5, <1>6
<1> HIDE DEF one
<1>8. list = one
  BY <1>7, SeqEqual
<1> QED BY <1>8 DEF one

\* A list of two.
LEMMA TwoClasses ==
    ASSUME NEW list \in Seq(Nat), NEW c \in Nat, NEW d \in Nat, c # d,
           IsInjective(list), list[1] = c, ToSet(list) = {c, d}
    PROVE  list = <<c, d>>
<1> DEFINE n == Len(list)
<1>1. n \in Nat /\ DOMAIN list = 1 .. n
  OBVIOUS
<1>2. \A k \in 1 .. n : list[k] = c \/ list[k] = d
  BY <1>1 DEF ToSet
<1>3. (\E k \in 1 .. n : list[k] = c) /\ \E k \in 1 .. n : list[k] = d
  BY <1>1 DEF ToSet
<1>4. \A i, j \in 1 .. n : list[i] = list[j] => i = j
  BY <1>1 DEF IsInjective
<1>5. n >= 2
  BY <1>1, <1>3
<1>6. list[2] = d
  <2>1. 1 \in 1 .. n /\ 2 \in 1 .. n
    BY <1>1, <1>5
  <2> QED BY <1>2, <1>4, <2>1
<1>7. n = 2
  <2>1. ~(n >= 3)
    <3>1. SUFFICES ASSUME n >= 3 PROVE FALSE
      OBVIOUS
    <3>2. 1 \in 1 .. n /\ 2 \in 1 .. n /\ 3 \in 1 .. n
      BY <1>1, <3>1
    <3>3. 3 = 1 \/ 3 = 2
      BY <1>2, <1>4, <1>6, <3>2
    <3> QED BY <3>3
  <2> QED BY <1>1, <1>5, <2>1
<1> DEFINE two == <<c, d>>
<1>8. two \in Seq(Nat) /\ Len(two) = 2 /\ two[1] = c /\ two[2] = d
  OBVIOUS
<1> HIDE DEF two
<1>9. Len(list) = Len(two) /\ \A k \in 1 .. Len(list) : list[k] = two[k]
  <2>1. \A k \in 1 .. 2 : k = 1 \/ k = 2
    OBVIOUS
  <2> QED BY <1>6, <1>7, <1>8, <2>1
<1>10. list = two
  BY <1>8, <1>9, SeqEqual
<1> QED BY <1>10 DEF two

\* In the beginning.
LEMMA ClassesInitIs ==
    LET all == <<<< >>, <<OBJECT>>>>
    IN Defined(all) /\ FindPrecedenceList(all, OBJECT, << >>) = <<OBJECT>>
       /\ FindPrecedenceList(all, USER, <<OBJECT>>) = <<USER, OBJECT>>
<1> DEFINE all == <<<< >>, <<OBJECT>>>>
           none == << >>
           one == <<OBJECT>>
<1>1. /\ all \in Seq(Seq(Nat)) /\ Len(all) = 2 /\ DOMAIN all = 1 .. 2 /\ all[1] = none /\ all[2] = one
      /\ none \in Seq(1 .. 0) /\ one \in Seq(1 .. 1) /\ 1 .. 0 = {} /\ 1 .. 1 = {1}
      /\ DOMAIN none = {} /\ Len(one) = 1 /\ DOMAIN one = {1} /\ one[1] = 1 /\ one \in Seq(Nat) /\ none \in Seq(Nat)
  BY DEF OBJECT
<1> HIDE DEF all, one, none
<1>2. Defined(all)
  <2>1. \A c \in 1 .. 2 : (c = 1 /\ c - 1 = 0) \/ (c = 2 /\ c - 1 = 1)
    OBVIOUS
  <2> QED BY <1>1, <2>1 DEF Defined
<1>3. 1 \in 1 .. Len(all) + 1 /\ 2 \in 1 .. Len(all) + 1 /\ none \in Seq(1 .. 1 - 1) /\ one \in Seq(1 .. 2 - 1)
  <2>1. Len(all) + 1 = 3 /\ 1 - 1 = 0 /\ 2 - 1 = 1 /\ 1 \in 1 .. 3 /\ 2 \in 1 .. 3
    BY <1>1
  <2> QED BY <1>1, <2>1
<1>4. none \in Seq(DOMAIN all) /\ Ancestors(all, none) = {}
  <2>1. none \in Seq(DOMAIN all) /\ Ancestors(all, none) \subseteq 1 .. 1 - 1
    BY <1>2, <1>3, AncestorsBelow
  <2> QED BY <1>1, <2>1
<1>5. one \in Seq(DOMAIN all) /\ Ancestors(all, one) = {1}
  <2>1. one \in Seq(DOMAIN all) /\ Ancestors(all, one) \subseteq 1 .. 2 - 1
    BY <1>2, <1>3, AncestorsBelow
  <2>2. ToSet(one) \subseteq Ancestors(all, one)
    BY <1>2, <2>1, AncestorsAre
  <2>3. ToSet(one) = {1}
    BY <1>1 DEF ToSet
  <2> QED BY <1>1, <2>1, <2>2, <2>3
<1>6. FindPrecedenceList(all, 1, none) # None
  <2>1. \A x, y : <<x, y>> \in RulesOf(all, 1, none) => y \in {}
    <3> DEFINE table == InitializePartialOrderTable(all, none)
    <3>1. ToSet(table) = Ancestors(all, none)
      BY <1>2, <1>4, TableHoldsAncestors
    <3> HIDE DEF table
    <3> QED BY <1>2, <1>4, <3>1, RulesAre
  <2>2. ~\E circle \in SUBSET ({1} \cup Ancestors(all, none)) :
            circle # {} /\ \A x \in circle : \E d \in circle : <<d, x>> \in RulesOf(all, 1, none)
    BY <2>1
  <2> QED BY <1>2, <1>4, <2>2, RefusedIs
<1>7. FindPrecedenceList(all, 2, one) # None
  <2> DEFINE table == InitializePartialOrderTable(all, one)
             R == RulesOf(all, 2, one)
  <2>1. ToSet(table) = {1}
    BY <1>2, <1>5, TableHoldsAncestors
  <2>2. PartialOrder(all, table, one) = Before(one) \cup Before(<<1>> \o all[1])
    <3> HIDE DEF table
    <3> QED BY <2>1 DEF PartialOrder
  <2>3. \A x, y : /\ <<x, y>> \in R <=> <<x, y>> \in PartialOrder(all, table, one) \/ (x = 2 /\ y \in ToSet(one))
                  /\ <<x, y>> \in R => y \in {1}
    <3> HIDE DEF table
    <3> DEFINE c == 2
    <3>1. c \in Nat /\ ToSet(table) = Ancestors(all, one)
      BY <1>5, <2>1
    <3> HIDE DEF c
    <3>2. \A x, y : /\ <<x, y>> \in RulesOf(all, c, one)
                         <=> <<x, y>> \in PartialOrder(all, table, one) \/ (x = c /\ y \in ToSet(one))
                    /\ <<x, y>> \in RulesOf(all, c, one) => y \in Ancestors(all, one)
      BY <1>2, <1>5, <3>1, RulesAre
    <3> QED BY <1>5, <3>2 DEF R, c
  <2> HIDE DEF table, R
  <2>4. \A x, y : <<x, y>> \notin Before(one)
    <3>1. ASSUME NEW x, NEW y, <<x, y>> \in Before(one) PROVE FALSE
      <4>1. one \in Seq(Nat)
        BY <1>1
      <4>2. PICK i \in DOMAIN one, j \in DOMAIN one : i < j
        BY <3>1, <4>1, BeforeIs
      <4>3. i = 1 /\ j = 1
        BY <1>1, <4>2
      <4> QED BY <4>2, <4>3
    <3> QED BY <3>1
  <2>5. \A x, y : <<x, y>> \notin Before(<<1>> \o all[1])
    <3>1. none \in Seq(Nat) /\ ToSet(none) = {} /\ DOMAIN none = {} /\ all[1] = none
      BY <1>1 DEF ToSet
    <3>2. ASSUME NEW x, NEW y, <<x, y>> \in Before(none) PROVE FALSE
      <4>1. PICK i \in DOMAIN none, j \in DOMAIN none : i < j
        BY <3>1, <3>2, BeforeIs
      <4> QED BY <3>1, <4>1
    <3>3. ASSUME NEW x, NEW y, NEW c \in Nat, <<x, y>> \in Before(<<c>> \o none) PROVE FALSE
      <4>1. <<x, y>> \in Before(none) \/ (x = c /\ y \in ToSet(none))
        BY <3>1, <3>3, BeforePush
      <4> QED BY <3>1, <3>2, <4>1
    <3>4. 1 \in Nat
      OBVIOUS
    <3> QED BY <3>1, <3>3, <3>4
  <2>6. \A x, y : <<x, y>> \in R => x = 2 /\ y = 1
    BY <2>2, <2>3, <2>4, <2>5
  <2>7. ~\E circle \in SUBSET ({2} \cup Ancestors(all, one)) :
            circle # {} /\ \A x \in circle : \E d \in circle : <<d, x>> \in R
    <3>1. SUFFICES ASSUME NEW circle, circle # {}, \A x \in circle : \E d \in circle : <<d, x>> \in R
                   PROVE  FALSE
      OBVIOUS
    <3>2. PICK x \in circle : TRUE
      BY <3>1
    <3>3. PICK d \in circle : <<d, x>> \in R
      BY <3>1
    <3>4. PICK e \in circle : <<e, d>> \in R
      BY <3>1
    <3>5. d = 2 /\ d = 1
      BY <2>6, <3>3, <3>4
    <3> QED BY <3>5
  <2>8. 2 \notin Ancestors(all, one)
    BY <1>5
  <2> QED BY <1>2, <1>5, <2>7, <2>8, RefusedIs DEF R
<1>8. FindPrecedenceList(all, 1, none) = <<1>>
  <2> DEFINE list == FindPrecedenceList(all, 1, none)
  <2>1. list \in Seq(Nat) /\ ToSet(list) = {1} /\ IsInjective(list) /\ list[1] = 1
    BY <1>2, <1>4, <1>6, ListIs
  <2> HIDE DEF list
  <2>2. list = <<1>>
    BY <2>1, OneClass
  <2> QED BY <2>2 DEF list
<1>9. FindPrecedenceList(all, 2, one) = <<2, 1>>
  <2> DEFINE list == FindPrecedenceList(all, 2, one)
  <2>1. 2 \notin Ancestors(all, one)
    BY <1>5
  <2>2. list \in Seq(Nat) /\ ToSet(list) = {2} \cup Ancestors(all, one) /\ IsInjective(list) /\ list[1] = 2
    BY <1>2, <1>5, <1>7, <2>1, ListIs
  <2>3. ToSet(list) = {2, 1}
    BY <1>5, <2>2
  <2> HIDE DEF list
  <2>4. list = <<2, 1>>
    BY <2>2, <2>3, TwoClasses
  <2> QED BY <2>4 DEF list
<1> QED BY <1>2, <1>8, <1>9 DEF all, one, none, OBJECT, USER

LEMMA ClassesInitInv ==
    ClassesInit => ClassesIInv
<1> SUFFICES ASSUME ClassesInit PROVE ClassesIInv
  OBVIOUS
<1> DEFINE none == << >>
           one == <<OBJECT>>
           all == <<none, one>>
           lists == <<one, <<USER, OBJECT>>>>
<1>1. supers = all /\ precedence = lists
  BY DEF ClassesInit
<1>2. Defined(all) /\ FindPrecedenceList(all, OBJECT, none) = one /\ FindPrecedenceList(all, USER, one) = <<USER, OBJECT>>
  BY ClassesInitIs
<1>3. /\ DOMAIN all = 1 .. 2 /\ DOMAIN lists = 1 .. 2 /\ lists \in Seq(Seq(Nat))
      /\ all[1] = none /\ all[2] = one /\ lists[1] = one /\ lists[2] = <<USER, OBJECT>>
      /\ one # << >> /\ <<USER, OBJECT>> # << >>
  BY DEF OBJECT, USER
<1>4. \A c \in 1 .. 2 : c = OBJECT \/ c = USER
  BY DEF OBJECT, USER
<1>5. OBJECT = 1 /\ USER = 2
  BY DEF OBJECT, USER
<1> HIDE DEF all, lists, one, none
<1>6. ListsAre
  <2>1. ASSUME NEW c \in 1 .. 2
        PROVE  lists[c] = FindPrecedenceList(all, c, all[c]) /\ lists[c] # None
    <3>1. CASE c = OBJECT
      BY <1>2, <1>3, <1>5, <3>1 DEF None
    <3>2. CASE c = USER
      BY <1>2, <1>3, <1>5, <3>2 DEF None
    <3> QED BY <1>4, <3>1, <3>2
  <2> QED BY <1>1, <1>3, <2>1 DEF ListsAre
<1> QED BY <1>1, <1>2, <1>3, <1>6 DEF ClassesIInv

\* A new class has superclasses that are there.
LEMMA SuperclassesAre ==
    ASSUME Defined(supers), NEW own \in Superclasses
    PROVE  /\ own \in Seq(1 .. Len(supers)) /\ own \in Seq(DOMAIN supers) /\ New \in Nat
           /\ New \notin Ancestors(supers, own)
<1> DEFINE n == Len(supers)
<1>1. n \in Nat /\ DOMAIN supers = 1 .. n
  BY DEF Defined
<1>2. own \in BoundedSeq(USER .. New - 1, MaxSupers)
  BY DEF Superclasses
<1>3. New = n + 1 /\ New - 1 = n /\ New \in 1 .. n + 1 /\ New \in Nat
  BY <1>1 DEF New
<1> HIDE DEF n
<1>4. PICK m \in 0 .. MaxSupers : own \in [1 .. m -> USER .. New - 1]
  BY <1>2 DEF BoundedSeq, SeqOf
<1>5. own \in [1 .. m -> 1 .. n] /\ m \in Nat
  <2>1. USER .. New - 1 \subseteq 1 .. n
    BY <1>1, <1>3 DEF USER
  <2> QED BY <1>4, <2>1, ClassesAssumption
<1>6. own \in Seq(1 .. n)
  BY <1>5, SeqDef
<1>7. own \in Seq(1 .. New - 1) /\ New \in 1 .. Len(supers) + 1
  BY <1>3, <1>6 DEF n
<1>8. own \in Seq(DOMAIN supers) /\ Ancestors(supers, own) \subseteq 1 .. New - 1
  BY <1>7, AncestorsBelow
<1>9. New \notin 1 .. New - 1
  BY <1>3
<1> QED BY <1>3, <1>6, <1>8, <1>9 DEF n

LEMMA DefineStep ==
    ASSUME ClassesIInv, NEW own \in Superclasses, ParseDefclass(own)
    PROVE  ClassesIInv'
<1> DEFINE n == Len(supers)
           list == FindPrecedenceList(supers, New, own)
           more == Append(supers, own)
           lists == Append(precedence, list)
<1>1. Defined(supers) /\ DOMAIN precedence = DOMAIN supers /\ precedence \in Seq(Seq(Nat)) /\ ListsAre
  BY DEF ClassesIInv
<1>2. list # None /\ supers' = more /\ precedence' = lists /\ New = n + 1
  BY DEF ParseDefclass, New
<1>3. own \in Seq(1 .. Len(supers)) /\ own \in Seq(DOMAIN supers) /\ New \in Nat /\ New \notin Ancestors(supers, own)
  BY <1>1, SuperclassesAre
<1>4. /\ Defined(more) /\ n \in Nat /\ DOMAIN supers = 1 .. n /\ DOMAIN more = 1 .. n + 1
      /\ \A c \in DOMAIN supers : more[c] = supers[c]
      /\ more[n + 1] = own
  BY <1>1, <1>3, DefinedAppend
<1>5. list \in Seq(Nat)
  BY <1>1, <1>2, <1>3, ListIs
<1> HIDE DEF list
<1>6. /\ lists \in Seq(Seq(Nat)) /\ DOMAIN lists = 1 .. n + 1
      /\ (\A c \in 1 .. n : lists[c] = precedence[c]) /\ lists[n + 1] = list
  <2> DEFINE m == Len(precedence)
  <2>1. /\ lists \in Seq(Seq(Nat)) /\ m \in Nat /\ DOMAIN precedence = 1 .. m /\ DOMAIN lists = 1 .. m + 1
        /\ (\A c \in 1 .. m : lists[c] = precedence[c]) /\ lists[m + 1] = list
    BY <1>1, <1>5
  <2>2. 1 .. m = 1 .. n
    BY <1>1, <1>4, <2>1
  <2> HIDE DEF m, n, lists
  <2>3. m = n
    <3>1. m \in Nat /\ n \in Nat
      BY <1>4, <2>1
    <3>2. (m = 0 \/ m \in 1 .. n) /\ (n = 0 \/ n \in 1 .. m)
      BY <2>2, <3>1
    <3> QED BY <2>2, <3>1, <3>2
  <2> QED BY <2>1, <2>3
<1>7. \A s \in Seq(DOMAIN supers), c \in Nat : FindPrecedenceList(more, c, s) = FindPrecedenceList(supers, c, s)
  <2> HIDE DEF more
  <2>1. ASSUME NEW s \in Seq(DOMAIN supers), NEW c \in Nat
        PROVE  FindPrecedenceList(more, c, s) = FindPrecedenceList(supers, c, s)
    BY <1>1, <1>3, ListStays DEF more
  <2> QED BY <2>1
<1> HIDE DEF more, lists
<1>8. ASSUME NEW c \in 1 .. n + 1
      PROVE  lists[c] = FindPrecedenceList(more, c, more[c]) /\ lists[c] # None
  <2>1. CASE c \in 1 .. n
    <3>1. lists[c] = precedence[c] /\ more[c] = supers[c] /\ c \in DOMAIN supers /\ c \in Nat
      <4>1. c \in Nat
        BY <1>4, <2>1
      <4>2. c \in DOMAIN supers
        BY <1>4, <2>1
      <4>3. lists[c] = precedence[c]
        BY <1>6, <2>1
      <4>4. more[c] = supers[c]
        BY <1>4, <4>2
      <4> QED BY <4>1, <4>2, <4>3, <4>4
    <3>2. precedence[c] = FindPrecedenceList(supers, c, supers[c]) /\ precedence[c] # None
      BY <1>1, <3>1 DEF ListsAre
    <3>3. supers[c] \in Seq(DOMAIN supers)
      <4>1. supers[c] \in Seq(1 .. c - 1) /\ c \in 1 .. Len(supers) + 1
        BY <1>1, <1>4, <2>1, <3>1 DEF Defined
      <4> QED BY <1>1, <4>1, AncestorsBelow
    <3> QED BY <1>7, <3>1, <3>2, <3>3
  <2>2. CASE c \notin 1 .. n
    <3>1. c = n + 1 /\ c = New
      BY <1>2, <1>4, <2>2
    <3>2. lists[c] = list /\ more[c] = own
      BY <1>4, <1>6, <3>1
    <3>3. FindPrecedenceList(more, c, own) = FindPrecedenceList(supers, c, own)
      BY <1>3, <1>7, <3>1
    <3> QED BY <1>2, <3>1, <3>2, <3>3 DEF list
  <2> QED BY <2>1, <2>2
<1>9. ListsAre'
  <2>1. \A c \in DOMAIN more : lists[c] = FindPrecedenceList(more, c, more[c]) /\ lists[c] # None
    BY <1>4, <1>8
  <2> QED BY <1>2, <2>1 DEF ListsAre
<1> QED BY <1>2, <1>4, <1>6, <1>9 DEF ClassesIInv

LEMMA ClassesStep ==
    ClassesIInv /\ [ClassesNext]_classVars => ClassesIInv'
<1> SUFFICES ASSUME ClassesIInv, [ClassesNext]_classVars PROVE ClassesIInv'
  OBVIOUS
<1>1. CASE UNCHANGED classVars
  BY <1>1 DEF ClassesIInv, ListsAre, classVars
<1>2. ASSUME NEW own \in Superclasses, ParseDefclass(own) PROVE ClassesIInv'
  BY <1>2, DefineStep
<1>3. ASSUME NEW own \in Superclasses, RefuseDefclass(own) PROVE ClassesIInv'
  BY <1>1, <1>3 DEF RefuseDefclass
<1> QED BY <1>1, <1>2, <1>3 DEF ClassesNext

LEMMA ClassesIInvImplies ==
    ClassesIInv => PrecedenceInv
<1> SUFFICES ASSUME ClassesIInv PROVE PrecedenceInv
  OBVIOUS
<1>1. Defined(supers) /\ ListsAre /\ DOMAIN supers = 1 .. Len(supers) /\ Len(supers) \in Nat
  BY DEF ClassesIInv, Defined
<1>2. ASSUME NEW c \in DOMAIN supers
      PROVE  c \in Nat /\ supers[c] \in Seq(DOMAIN supers) /\ c \notin Ancestors(supers, supers[c])
  <2>1. supers[c] \in Seq(1 .. c - 1) /\ c \in 1 .. Len(supers) + 1
    BY <1>1 DEF Defined
  <2>2. supers[c] \in Seq(DOMAIN supers) /\ Ancestors(supers, supers[c]) \subseteq 1 .. c - 1
    BY <1>1, <2>1, AncestorsBelow
  <2>3. c \in Nat /\ c \notin 1 .. c - 1
    BY <1>1
  <2> QED BY <2>2, <2>3
<1>3. PrecedenceFollowsRules
  <2>1. ASSUME NEW c \in DOMAIN supers
        PROVE  /\ ToSet(precedence[c]) = {c} \cup Ancestors(supers, supers[c])
               /\ IsInjective(precedence[c]) /\ precedence[c][1] = c
               /\ Respects(precedence[c], RulesOf(supers, c, supers[c]))
    <3>1. precedence[c] = FindPrecedenceList(supers, c, supers[c]) /\ precedence[c] # None
      BY <1>1 DEF ListsAre
    <3> QED BY <1>1, <1>2, <3>1, ListIs
  <2> QED BY <2>1 DEF PrecedenceFollowsRules
<1>4. RefusedOnlyInCircles
  <2>1. ASSUME NEW own \in Superclasses
        PROVE  FindPrecedenceList(supers, New, own) = None <=>
                   \E circle \in SUBSET ({New} \cup Ancestors(supers, own)) :
                       /\ circle # {}
                       /\ \A c \in circle : \E d \in circle : <<d, c>> \in RulesOf(supers, New, own)
    BY <1>1, SuperclassesAre, RefusedIs
  <2> QED BY <2>1 DEF RefusedOnlyInCircles
<1>5. DefinedAgainTheSame
  BY <1>1, AgainIs DEF DefinedAgainTheSame, ListsAre
<1> QED BY <1>3, <1>4, <1>5 DEF PrecedenceInv

(* Whatever classes are defined, one after the other: the precedence list of
   each holds what it inherits from, once and in an order that respects every
   rule; a class is refused only when its rules contradict each other; and a
   class defined again gets the list it had.                               *)
THEOREM PrecedenceHolds == ClassesSpec => []PrecedenceInv
<1>1. ClassesInit => ClassesIInv
  BY ClassesInitInv
<1>2. ClassesIInv /\ [ClassesNext]_classVars => ClassesIInv'
  BY ClassesStep
<1>3. ClassesIInv => PrecedenceInv
  BY ClassesIInvImplies
<1> QED BY <1>1, <1>2, <1>3, PTL DEF ClassesSpec
====================================================================
