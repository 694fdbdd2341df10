-------------------------- MODULE InputOutputProofs --------------------------
(***************************************************************************)
(* Proofs about Readers, for any texts, any number of readers at once and  *)
(* any number of calls, and about Routers, for any names, any batch files  *)
(* with any text, any input from the console and any number of pieces of   *)
(* output.                                                                 *)
(***************************************************************************)
EXTENDS Readers, Routers, SequenceFacts, FiniteSetTheorems, TLAPS

-----------------------------------------------------------------------------
(* READERS.                                                                *)

-----------------------------------------------------------------------------
(* The inductive invariant.                                                *)

Kinds == {"command", "eval", "build", "load", "batch*"}

TextOf(kind) ==
    CASE kind = "command" -> Command [] kind = "eval" -> Expression
      [] kind = "build" -> Construct [] kind = "load" -> LoadFile
      [] kind = "batch*" -> BatchFile

Frame == [kind : Kinds, name : SourceName \cup {NoSource}, text : AnyText,
          got : Seq(AnyText \X Nat), now : {<< >>} \cup Calls, later : Seq(Calls),
          phase : {"reading", "parsed", "evaluating"}]

\* The readers from the i-th down that evaluate a string.
EvalsFrom(stk, i) == {j \in i..Len(stk) : stk[j].kind = "eval"}

\* What a reader is called follows from where it stands.
NameAt(stk, i) ==
    CASE stk[i].kind = "command" -> <<"command", 0>>
      [] stk[i].kind = "build" -> <<"build", 0>>
      [] stk[i].kind = "eval" -> <<"Eval", Cardinality(EvalsFrom(stk, i))>>
      [] stk[i].kind = "load" -> <<"file", Len(stk) - i>>
      [] stk[i].kind = "batch*" -> NoSource

\* It has opened its source and not closed it.
Open(f) == f.kind = "eval" \/ (f.kind \in {"command", "build"} /\ f.phase # "evaluating")

StackOK(stk) ==
    /\ stk \in Seq(Frame)
    /\ \A i \in DOMAIN stk : stk[i].text \in TextOf(stk[i].kind) /\ stk[i].name = NameAt(stk, i)
    /\ \A i, j \in DOMAIN stk :
          stk[i].kind = "build" /\ stk[j].kind = "build" /\ Open(stk[i]) /\ Open(stk[j]) => i = j
    /\ Len(stk) <= MaxReaders + 1
    /\ Len(stk) = MaxReaders + 1 => stk[1].kind = "command"

StringSource == [name : SourceName, text : Parsed, read : Nat]

SourcesOK(src) ==
    /\ src \in Seq(StringSource)
    /\ \A i \in DOMAIN src : src[i].read <= Size[src[i].text]
    /\ \A i, j \in DOMAIN src : src[i].name = src[j].name => i = j

\* A source has a reader that has not closed it ...
Backed(src, stk) ==
    \A i \in DOMAIN src : \E j \in DOMAIN stk :
        Open(stk[j]) /\ stk[j].name = src[i].name /\ stk[j].text = src[i].text

\* ... and eval and build have a source that is where they are.
HasSource(src, f) ==
    \E i \in DOMAIN src : src[i] = [name |-> f.name, text |-> f.text, read |-> Len(f.got)]

ReadsOwn(f) == Len(f.got) <= Size[f.text] /\ f.got = Own(f, Len(f.got))

Served(src, stk) ==
    \A j \in DOMAIN stk : stk[j].kind \in {"eval", "build"} =>
        ReadsOwn(stk[j]) /\ (Open(stk[j]) => HasSource(src, stk[j]))

FilesOK(fst, fls, stk) ==
    /\ fls \in [DOMAIN fls -> [text : LoadFile, read : Nat]]
    /\ \A g \in DOMAIN fls : \E j \in DOMAIN stk : stk[j].kind = "load" /\ stk[j].name = g
    /\ fst \in DOMAIN fls \cup {NoSource}

Fits(src, fst, fls, stk) ==
    StackOK(stk) /\ SourcesOK(src) /\ Backed(src, stk) /\ Served(src, stk) /\ FilesOK(fst, fls, stk)

ReadersIInv == Fits(sources, fast, files, stack) /\ calls \in 0..MaxCalls
-----------------------------------------------------------------------------
(* Readers, names and numbers of eval.                                     *)

LEMMA NewReaderIs ==
    ASSUME NEW k \in Kinds, NEW name \in SourceName \cup {NoSource}, NEW text \in AnyText
    PROVE  LET f == Reader(k, name, text)
           IN /\ f \in Frame /\ f.kind = k /\ f.name = name /\ f.text = text
              /\ f.got = << >> /\ f.now = << >> /\ f.later = << >> /\ f.phase = "reading"
<1> DEFINE f == Reader(k, name, text)
<1>1. << >> \in Seq(AnyText \X Nat) /\ << >> \in Seq(Calls)
  OBVIOUS
<1> QED BY <1>1 DEF Reader, Frame

LEMMA TextsAre ==
    /\ \A k \in Kinds : TextOf(k) \subseteq AnyText
    /\ \A k \in Kinds \ {"batch*"} : TextOf(k) \subseteq Parsed
    /\ \A t \in AnyText : Size[t] \in Nat /\ Size[t] >= 1
    /\ Construct \subseteq Command /\ Parsed \subseteq AnyText
<1>1. ASSUME NEW k \in Kinds \ {"batch*"} PROVE TextOf(k) \subseteq Parsed
  BY ReadersAssumption DEF Kinds, TextOf, Parsed
<1>2. TextOf("batch*") = BatchFile
  BY DEF TextOf
<1>3. \A t \in AnyText : Size[t] \in Nat /\ Size[t] >= 1
  BY ReadersAssumption
<1> QED BY <1>1, <1>2, <1>3, ReadersAssumption DEF AnyText

LEMMA NamesDiffer ==
    /\ \A n, k \in Nat : <<"command", n>> # <<"Eval", k>> /\ <<"command", n>> # <<"build", k>>
    /\ \A n, k \in Nat : <<"build", n>> # <<"Eval", k>>
    /\ \A n, k \in Nat : /\ <<"file", n>> # <<"Eval", k>> /\ <<"file", n>> # <<"build", k>>
                         /\ <<"file", n>> # <<"command", k>>
    /\ \A n, k \in Nat : <<"Eval", n>> = <<"Eval", k>> => n = k
    /\ \A n, k \in Nat : <<"file", n>> = <<"file", k>> => n = k
    /\ \A n \in Nat : /\ <<"file", n>> \in SourceName /\ <<"Eval", n>> \in SourceName
                      /\ <<"command", n>> \in SourceName /\ <<"build", n>> \in SourceName
    /\ \A name \in SourceName : name # NoSource
BY ReadersAssumption DEF SourceName

LEMMA EvalsAre ==
    ASSUME NEW stk, Len(stk) \in Nat, NEW i \in Nat
    PROVE  IsFiniteSet(EvalsFrom(stk, i)) /\ Cardinality(EvalsFrom(stk, i)) \in Nat
<1>1. IsFiniteSet(i..Len(stk))
  BY FS_Interval
<1> QED BY <1>1, FS_Subset, FS_CardinalityType DEF EvalsFrom

\* An eval further up has a higher number.
LEMMA EvalsFall ==
    ASSUME NEW stk, Len(stk) \in Nat, NEW i \in 1..Len(stk), NEW j \in Nat, i < j,
           stk[i].kind = "eval"
    PROVE  Cardinality(EvalsFrom(stk, j)) < Cardinality(EvalsFrom(stk, i))
<1> DEFINE I == EvalsFrom(stk, i)
           J == EvalsFrom(stk, j)
<1>1. IsFiniteSet(I) /\ IsFiniteSet(J) /\ Cardinality(I) \in Nat /\ Cardinality(J) \in Nat
  BY EvalsAre
<1>2. J \cup {i} \subseteq I /\ i \notin J
  BY DEF EvalsFrom
<1> HIDE DEF I, J
<1>3. Cardinality(J \cup {i}) = Cardinality(J) + 1
  BY <1>1, <1>2, FS_AddElement
<1>4. Cardinality(J \cup {i}) <= Cardinality(I)
  BY <1>1, <1>2, FS_Subset
<1>5. Cardinality(J) < Cardinality(I)
  BY <1>1, <1>3, <1>4
<1> QED BY <1>5 DEF I, J

\* What lies k further down counts the same ones.
LEMMA EvalsShift ==
    ASSUME NEW old, NEW new, Len(old) \in Nat, Len(new) = Len(old) + 1,
           \A j \in 1..Len(old) : new[j + 1].kind = old[j].kind,
           NEW i \in 1..Len(old) + 1
    PROVE  Cardinality(EvalsFrom(new, i + 1)) = Cardinality(EvalsFrom(old, i))
<1> DEFINE I == EvalsFrom(old, i)
           J == EvalsFrom(new, i + 1)
           f == [j \in I |-> j + 1]
<1>1. IsFiniteSet(I)
  BY EvalsAre
<1>2. f \in [I -> J]
  <2> SUFFICES ASSUME NEW j \in I PROVE j + 1 \in J
    OBVIOUS
  <2> QED BY DEF EvalsFrom
<1>3. \A a, b \in I : f[a] = f[b] => a = b
  BY DEF EvalsFrom
<1>4. ASSUME NEW k \in J PROVE \E j \in I : f[j] = k
  <2>1. k \in Nat /\ k >= i + 1 /\ k <= Len(old) + 1 /\ new[k].kind = "eval"
    BY DEF EvalsFrom
  <2>2. k - 1 \in 1..Len(old) /\ k - 1 \in i..Len(old) /\ (k - 1) + 1 = k
    BY <2>1
  <2>3. k - 1 \in I
    BY <2>1, <2>2 DEF EvalsFrom
  <2> QED BY <2>2, <2>3
<1> HIDE DEF I, J, f
<1>5. f \in Bijection(I, J)
  <2>1. f \in Injection(I, J)
    BY <1>2, <1>3 DEF Injection, IsInjective
  <2>2. f \in Surjection(I, J)
    BY <1>2, <1>4 DEF Surjection
  <2> QED BY <2>1, <2>2 DEF Bijection
<1>6. ExistsBijection(I, J)
  BY <1>5 DEF ExistsBijection
<1>7. Cardinality(J) = Cardinality(I)
  BY <1>1, <1>6, FS_Bijection
<1> QED BY <1>7 DEF I, J
-----------------------------------------------------------------------------
(* What happens to the stack: the reader on top goes on, one is put above,  *)
(* the one on top is done.                                                  *)

Same(f, g) == f.kind = g.kind /\ f.name = g.name /\ f.text = g.text

LEMMA TopIs ==
    ASSUME NEW stk \in Seq(Frame), stk # << >>
    PROVE  /\ Len(stk) \in Nat /\ Len(stk) >= 1 /\ DOMAIN stk = 1..Len(stk)
           /\ 1 \in DOMAIN stk /\ Head(stk) = stk[1] /\ stk[1] \in Frame
           /\ Tail(stk) \in Seq(Frame) /\ Len(Tail(stk)) = Len(stk) - 1
           /\ DOMAIN Tail(stk) = 1..(Len(stk) - 1)
           /\ \A i \in 1..(Len(stk) - 1) : Tail(stk)[i] = stk[i + 1]
OBVIOUS

LEMMA PushIs ==
    ASSUME NEW stk \in Seq(Frame), NEW f \in Frame
    PROVE  LET P == <<f>> \o stk
           IN /\ P \in Seq(Frame) /\ Len(P) = Len(stk) + 1 /\ Len(stk) \in Nat
              /\ DOMAIN P = 1..(Len(stk) + 1) /\ P[1] = f
              /\ \A j \in 1..Len(stk) : j + 1 \in DOMAIN P /\ P[j + 1] = stk[j]
              /\ \A j \in DOMAIN P : j # 1 =>
                    j - 1 \in DOMAIN stk /\ P[j] = stk[j - 1] /\ (j - 1) + 1 = j
<1> DEFINE P == <<f>> \o stk
<1>1. /\ P \in Seq(Frame) /\ Len(P) = Len(stk) + 1
      /\ \A j \in 1..(Len(stk) + 1) : P[j] = IF j = 1 THEN f ELSE stk[j - 1]
  BY PushProperties
<1>2. Len(stk) \in Nat /\ DOMAIN stk = 1..Len(stk)
  OBVIOUS
<1> HIDE DEF P
<1>3. DOMAIN P = 1..(Len(stk) + 1)
  BY <1>1
<1>4. ASSUME NEW j \in 1..Len(stk) PROVE j + 1 \in DOMAIN P /\ P[j + 1] = stk[j]
  <2>1. j + 1 \in 1..(Len(stk) + 1) /\ j + 1 # 1 /\ (j + 1) - 1 = j
    BY <1>2
  <2> QED BY <1>1, <1>3, <2>1
<1>5. ASSUME NEW j \in DOMAIN P, j # 1
      PROVE  j - 1 \in DOMAIN stk /\ P[j] = stk[j - 1] /\ (j - 1) + 1 = j
  BY <1>1, <1>2, <1>3, <1>5
<1>6. P[1] = f
  BY <1>1, <1>2
<1> QED BY <1>1, <1>2, <1>3, <1>4, <1>5, <1>6 DEF P

LEMMA UpdateIs ==
    ASSUME NEW stk \in Seq(Frame), stk # << >>, NEW g \in Frame
    PROVE  LET U == <<g>> \o Tail(stk)
           IN /\ U \in Seq(Frame) /\ Len(U) = Len(stk) /\ DOMAIN U = DOMAIN stk
              /\ U[1] = g /\ U # << >>
              /\ \A j \in DOMAIN stk : j # 1 => U[j] = stk[j]
<1> DEFINE U == <<g>> \o Tail(stk)
<1>1. /\ Len(stk) \in Nat /\ Len(stk) >= 1 /\ DOMAIN stk = 1..Len(stk)
      /\ Tail(stk) \in Seq(Frame) /\ Len(Tail(stk)) = Len(stk) - 1
      /\ \A i \in 1..(Len(stk) - 1) : Tail(stk)[i] = stk[i + 1]
  BY TopIs
<1>2. /\ U \in Seq(Frame) /\ Len(U) = Len(Tail(stk)) + 1
      /\ \A j \in 1..(Len(Tail(stk)) + 1) : U[j] = IF j = 1 THEN g ELSE Tail(stk)[j - 1]
  BY <1>1, PushProperties
<1> HIDE DEF U
<1>3. Len(U) = Len(stk) /\ DOMAIN U = DOMAIN stk
  BY <1>1, <1>2
<1>4. ASSUME NEW j \in DOMAIN stk, j # 1 PROVE U[j] = stk[j]
  <2>1. j \in 1..(Len(Tail(stk)) + 1) /\ j - 1 \in 1..(Len(stk) - 1) /\ (j - 1) + 1 = j
    BY <1>1, <1>4
  <2> QED BY <1>1, <1>2, <1>4, <2>1
<1>5. U[1] = g /\ U # << >>
  BY <1>1, <1>2
<1> QED BY <1>2, <1>3, <1>4, <1>5 DEF U

\* Names depend on the kinds alone.
LEMMA NamesStay ==
    ASSUME NEW old \in Seq(Frame), NEW new \in Seq(Frame), DOMAIN new = DOMAIN old,
           Len(new) = Len(old), \A i \in DOMAIN old : new[i].kind = old[i].kind
    PROVE  \A i \in DOMAIN old : NameAt(new, i) = NameAt(old, i)
<1> SUFFICES ASSUME NEW i \in DOMAIN old PROVE NameAt(new, i) = NameAt(old, i)
  OBVIOUS
<1>1. \A j \in i..Len(old) : j \in DOMAIN old
  OBVIOUS
<1>2. EvalsFrom(new, i) = EvalsFrom(old, i)
  BY <1>1 DEF EvalsFrom
<1> QED BY <1>2 DEF NameAt

LEMMA NamesShift ==
    ASSUME NEW old \in Seq(Frame), NEW new, Len(new) = Len(old) + 1,
           \A j \in 1..Len(old) : new[j + 1] = old[j],
           NEW i \in DOMAIN old
    PROVE  NameAt(new, i + 1) = NameAt(old, i)
<1>1. Len(old) \in Nat /\ DOMAIN old = 1..Len(old) /\ i \in Nat
  OBVIOUS
<1>2. Cardinality(EvalsFrom(new, i + 1)) = Cardinality(EvalsFrom(old, i))
  BY <1>1, EvalsShift
<1>3. new[i + 1] = old[i]
  BY <1>1
<1>4. Len(new) - (i + 1) = Len(old) - i
  BY <1>1
<1> QED BY <1>2, <1>3, <1>4 DEF NameAt

LEMMA UpdateStack ==
    ASSUME NEW stk, StackOK(stk), stk # << >>, NEW g \in Frame, Same(g, Head(stk)),
           Open(g) => Open(Head(stk))
    PROVE  StackOK(<<g>> \o Tail(stk))
<1> DEFINE U == <<g>> \o Tail(stk)
<1>1. stk \in Seq(Frame)
  BY DEF StackOK
<1>2. /\ U \in Seq(Frame) /\ Len(U) = Len(stk) /\ DOMAIN U = DOMAIN stk /\ U[1] = g
      /\ \A j \in DOMAIN stk : j # 1 => U[j] = stk[j]
  BY <1>1, UpdateIs
<1>3. Head(stk) = stk[1] /\ 1 \in DOMAIN stk
  BY <1>1, TopIs
<1> HIDE DEF U
<1>4. \A j \in DOMAIN stk : Same(U[j], stk[j]) /\ (Open(U[j]) => Open(stk[j]))
  BY <1>2, <1>3 DEF Same
<1>5. \A j \in DOMAIN stk : NameAt(U, j) = NameAt(stk, j)
  BY <1>1, <1>2, <1>4, NamesStay DEF Same
<1>6. StackOK(U)
  BY <1>2, <1>3, <1>4, <1>5 DEF StackOK, Same
<1> QED BY <1>6 DEF U

LEMMA PushStack ==
    ASSUME NEW stk, StackOK(stk), NEW f \in Frame, f.text \in TextOf(f.kind),
           f.name = NameAt(<<f>> \o stk, 1),
           \A j \in DOMAIN stk : f.kind = "build" => ~(stk[j].kind = "build" /\ Open(stk[j])),
           Len(stk) < MaxReaders \/ (Len(stk) <= MaxReaders /\ f.kind = "command")
    PROVE  StackOK(<<f>> \o stk)
<1> DEFINE P == <<f>> \o stk
<1>1. stk \in Seq(Frame) /\ MaxReaders \in Nat
  BY ReadersAssumption DEF StackOK
<1>2. /\ P \in Seq(Frame) /\ Len(P) = Len(stk) + 1 /\ Len(stk) \in Nat
      /\ DOMAIN P = 1..(Len(stk) + 1) /\ P[1] = f
      /\ \A j \in 1..Len(stk) : j + 1 \in DOMAIN P /\ P[j + 1] = stk[j]
      /\ \A j \in DOMAIN P : j # 1 =>
            j - 1 \in DOMAIN stk /\ P[j] = stk[j - 1] /\ (j - 1) + 1 = j
  BY <1>1, PushIs
<1>3. f.name = NameAt(P, 1)
  OBVIOUS
<1> HIDE DEF P
<1>4. ASSUME NEW j \in DOMAIN P PROVE P[j].text \in TextOf(P[j].kind) /\ P[j].name = NameAt(P, j)
  <2>1. CASE j = 1
    BY <1>2, <1>3, <2>1
  <2>2. CASE j # 1
    <3>1. j - 1 \in DOMAIN stk /\ P[j] = stk[j - 1] /\ (j - 1) + 1 = j
      BY <1>2, <2>2
    <3>2. NameAt(P, (j - 1) + 1) = NameAt(stk, j - 1)
      BY <1>1, <1>2, <3>1, NamesShift
    <3> QED BY <3>1, <3>2 DEF StackOK
  <2> QED BY <2>1, <2>2
<1>5. ASSUME NEW i \in DOMAIN P, NEW j \in DOMAIN P, P[i].kind = "build", P[j].kind = "build",
             Open(P[i]), Open(P[j])
      PROVE  i = j
  <2>1. CASE i = 1 \/ j = 1
    BY <1>2, <1>5, <2>1
  <2>2. CASE i # 1 /\ j # 1
    <3>1. i - 1 = j - 1
      BY <1>2, <1>5, <2>2 DEF StackOK
    <3> QED BY <1>2, <3>1
  <2> QED BY <2>1, <2>2
<1>6. Len(P) <= MaxReaders + 1 /\ (Len(P) = MaxReaders + 1 => P[1].kind = "command")
  BY <1>1, <1>2
<1>7. StackOK(P)
  BY <1>2, <1>4, <1>5, <1>6 DEF StackOK
<1> QED BY <1>7 DEF P

LEMMA PopStack ==
    ASSUME NEW stk, StackOK(stk), stk # << >>
    PROVE  StackOK(Tail(stk))
<1> DEFINE T == Tail(stk)
<1>1. stk \in Seq(Frame) /\ MaxReaders \in Nat
  BY ReadersAssumption DEF StackOK
<1>2. /\ Len(stk) \in Nat /\ Len(stk) >= 1 /\ DOMAIN stk = 1..Len(stk)
      /\ T \in Seq(Frame) /\ Len(T) = Len(stk) - 1 /\ DOMAIN T = 1..(Len(stk) - 1)
      /\ \A i \in 1..(Len(stk) - 1) : T[i] = stk[i + 1]
  BY <1>1, TopIs
<1> HIDE DEF T
<1>3. Len(stk) = Len(T) + 1 /\ \A i \in 1..Len(T) : stk[i + 1] = T[i]
  BY <1>2
<1>4. \A i \in DOMAIN T : i + 1 \in DOMAIN stk /\ T[i] = stk[i + 1]
  BY <1>2
<1>5. \A i \in DOMAIN T : NameAt(T, i) = NameAt(stk, i + 1)
  BY <1>2, <1>3, NamesShift
<1>6. ASSUME NEW i \in DOMAIN T, NEW j \in DOMAIN T, T[i].kind = "build", T[j].kind = "build",
             Open(T[i]), Open(T[j])
      PROVE  i = j
  <2>1. i + 1 = j + 1
    BY <1>4, <1>6 DEF StackOK
  <2> QED BY <1>2, <2>1
<1>7. Len(T) < MaxReaders + 1
  <2>1. Len(stk) <= MaxReaders + 1
    BY DEF StackOK
  <2>2. Len(T) = Len(stk) - 1 /\ Len(stk) \in Nat
    BY <1>2
  <2> QED BY <1>1, <2>1, <2>2
<1>8. \A i \in DOMAIN T : T[i].text \in TextOf(T[i].kind) /\ T[i].name = NameAt(T, i)
  BY <1>4, <1>5 DEF StackOK
<1>9. Len(T) <= MaxReaders + 1 /\ Len(T) # MaxReaders + 1
  <2>1. Len(T) \in Nat
    BY <1>2
  <2> QED BY <1>1, <1>7, <2>1
<1>10. StackOK(T)
  BY <1>2, <1>6, <1>8, <1>9 DEF StackOK
<1> QED BY <1>10 DEF T
\* Of the readers with a source that is asked for by its own text, no two have
\* the same name.
LEMMA OwnersDiffer ==
    ASSUME NEW stk, StackOK(stk), NEW j \in DOMAIN stk, j # 1, stk[j].kind \in {"eval", "build"},
           Open(stk[j]), Open(stk[1])
    PROVE  stk[j].name # stk[1].name
<1>1. /\ stk \in Seq(Frame) /\ Len(stk) \in Nat /\ DOMAIN stk = 1..Len(stk)
      /\ 1 \in DOMAIN stk /\ 1 < j /\ j \in Nat
  BY DEF StackOK
<1>2. stk[j].name = NameAt(stk, j) /\ stk[1].name = NameAt(stk, 1)
  BY <1>1 DEF StackOK
<1>3. /\ Cardinality(EvalsFrom(stk, j)) \in Nat /\ Cardinality(EvalsFrom(stk, 1)) \in Nat
      /\ stk[1].kind = "eval" => Cardinality(EvalsFrom(stk, j)) < Cardinality(EvalsFrom(stk, 1))
  BY <1>1, EvalsAre, EvalsFall
<1>4. stk[1].kind \in {"eval", "command", "build"}
  BY DEF Open
<1>5. CASE stk[j].kind = "eval"
  <2>1. stk[j].name = <<"Eval", Cardinality(EvalsFrom(stk, j))>>
    BY <1>2, <1>5 DEF NameAt
  <2>2. CASE stk[1].kind = "eval"
    <3>1. stk[1].name = <<"Eval", Cardinality(EvalsFrom(stk, 1))>>
      BY <1>2, <2>2 DEF NameAt
    <3>2. Cardinality(EvalsFrom(stk, j)) # Cardinality(EvalsFrom(stk, 1))
      BY <1>3, <2>2
    <3> QED BY <1>3, <2>1, <3>1, <3>2
  <2>3. CASE stk[1].kind # "eval"
    <3>1. stk[1].name \in {<<"command", 0>>, <<"build", 0>>}
      BY <1>2, <1>4, <2>3 DEF NameAt
    <3> QED BY <1>3, <2>1, <3>1, NamesDiffer
  <2> QED BY <2>2, <2>3
<1>6. CASE stk[j].kind = "build"
  <2>1. stk[j].name = <<"build", 0>>
    BY <1>2, <1>6 DEF NameAt
  <2>2. stk[1].kind # "build"
    BY <1>1, <1>6 DEF StackOK
  <2>3. stk[1].name \in {<<"command", 0>>, <<"Eval", Cardinality(EvalsFrom(stk, 1))>>}
    BY <1>2, <1>4, <2>2 DEF NameAt
  <2> QED BY <1>3, <2>1, <2>3, NamesDiffer
<1> QED BY <1>5, <1>6

\* The reader on top goes on.  What it may change of the sources is its own.
LEMMA UpdateFits ==
    ASSUME NEW src, NEW fst, NEW fls, NEW stk, Fits(src, fst, fls, stk), stk # << >>,
           NEW g \in Frame, Same(g, Head(stk)), Open(g) => Open(Head(stk)),
           NEW new, SourcesOK(new),
           \A i \in DOMAIN new : \E k \in DOMAIN src :
              new[i].name = src[k].name /\ new[i].text = src[k].text,
           \A i \in DOMAIN new : Open(Head(stk)) /\ ~Open(g) => new[i].name # g.name,
           \A i \in DOMAIN src : ~(Open(Head(stk)) /\ src[i].name = g.name) =>
              \E k \in DOMAIN new : new[k] = src[i],
           g.kind \in {"eval", "build"} => ReadsOwn(g) /\ (Open(g) => HasSource(new, g)),
           NEW now, now \in [DOMAIN fls -> [text : LoadFile, read : Nat]]
    PROVE  Fits(new, fst, now, <<g>> \o Tail(stk))
<1> DEFINE U == <<g>> \o Tail(stk)
<1>1. StackOK(stk) /\ stk \in Seq(Frame)
  BY DEF Fits, StackOK
<1>2. /\ U \in Seq(Frame) /\ Len(U) = Len(stk) /\ DOMAIN U = DOMAIN stk /\ U[1] = g
      /\ \A j \in DOMAIN stk : j # 1 => U[j] = stk[j]
  BY <1>1, UpdateIs
<1>3. Head(stk) = stk[1] /\ 1 \in DOMAIN stk
  BY <1>1, TopIs
<1>4. StackOK(U)
  BY <1>1, UpdateStack
<1> HIDE DEF U
<1>5. Backed(new, U)
  <2> SUFFICES ASSUME NEW i \in DOMAIN new
               PROVE  \E j \in DOMAIN U :
                         Open(U[j]) /\ U[j].name = new[i].name /\ U[j].text = new[i].text
    BY DEF Backed
  <2>1. PICK k \in DOMAIN src : new[i].name = src[k].name /\ new[i].text = src[k].text
    OBVIOUS
  <2>2. PICK j \in DOMAIN stk :
          Open(stk[j]) /\ stk[j].name = src[k].name /\ stk[j].text = src[k].text
    BY DEF Fits, Backed
  <2>3. CASE j = 1
    <3>1. g.name = new[i].name /\ g.text = new[i].text /\ Open(Head(stk))
      BY <1>3, <2>1, <2>2, <2>3 DEF Same
    <3>2. Open(g)
      BY <3>1
    <3> QED BY <1>2, <1>3, <3>1, <3>2
  <2>4. CASE j # 1
    BY <1>2, <2>1, <2>2, <2>4
  <2> QED BY <2>3, <2>4
<1>6. Served(new, U)
  <2> SUFFICES ASSUME NEW j \in DOMAIN U, U[j].kind \in {"eval", "build"}
               PROVE  ReadsOwn(U[j]) /\ (Open(U[j]) => HasSource(new, U[j]))
    BY DEF Served
  <2>1. CASE j = 1
    BY <1>2, <2>1
  <2>2. CASE j # 1
    <3>1. U[j] = stk[j] /\ j \in DOMAIN stk
      BY <1>2, <2>2
    <3>2. ReadsOwn(stk[j]) /\ (Open(stk[j]) => HasSource(src, stk[j]))
      BY <3>1 DEF Fits, Served
    <3>3. ASSUME Open(stk[j]) PROVE HasSource(new, stk[j])
      <4>1. PICK i \in DOMAIN src :
               src[i] = [name |-> stk[j].name, text |-> stk[j].text, read |-> Len(stk[j].got)]
        BY <3>2, <3>3 DEF HasSource
      <4>2. Open(Head(stk)) => src[i].name # g.name
        <5>1. src[i].name = stk[j].name /\ g.name = stk[1].name
          BY <1>3, <4>1 DEF Same
        <5> QED BY <1>1, <1>3, <2>2, <3>1, <3>3, <5>1, OwnersDiffer
      <4>3. PICK k \in DOMAIN new : new[k] = src[i]
        BY <4>2
      <4> QED BY <4>1, <4>3 DEF HasSource
    <3> QED BY <3>1, <3>2, <3>3
  <2> QED BY <2>1, <2>2
<1>7. FilesOK(fst, now, U)
  <2>1. DOMAIN now = DOMAIN fls
    OBVIOUS
  <2>2. ASSUME NEW p \in DOMAIN fls
        PROVE  \E j \in DOMAIN U : U[j].kind = "load" /\ U[j].name = p
    <3>1. PICK j \in DOMAIN stk : stk[j].kind = "load" /\ stk[j].name = p
      BY DEF Fits, FilesOK
    <3>2. U[j].kind = stk[j].kind /\ U[j].name = stk[j].name
      BY <1>2, <1>3 DEF Same
    <3> QED BY <1>2, <3>1, <3>2
  <2>3. fst \in DOMAIN fls \cup {NoSource}
    BY DEF Fits, FilesOK
  <2> QED BY <2>1, <2>2, <2>3 DEF FilesOK
<1>8. Fits(new, fst, now, U)
  BY <1>4, <1>5, <1>6, <1>7 DEF Fits
<1> QED BY <1>8 DEF U

\* A reader is put on top, with its source.
LEMMA PushFits ==
    ASSUME NEW src, NEW fst, NEW fls, NEW stk, Fits(src, fst, fls, stk),
           NEW f \in Frame, StackOK(<<f>> \o stk), NEW new, SourcesOK(new),
           \A i \in DOMAIN new : \/ \E k \in DOMAIN src : new[i] = src[k]
                                 \/ new[i].name = f.name /\ new[i].text = f.text /\ Open(f),
           \A i \in DOMAIN src : \E k \in DOMAIN new : new[k] = src[i],
           f.kind \in {"eval", "build"} => ReadsOwn(f) /\ HasSource(new, f),
           NEW fst2, NEW now, FilesOK(fst2, now, <<f>> \o stk)
    PROVE  Fits(new, fst2, now, <<f>> \o stk)
<1> DEFINE P == <<f>> \o stk
<1>1. stk \in Seq(Frame)
  BY DEF Fits, StackOK
<1>2. /\ P \in Seq(Frame) /\ Len(P) = Len(stk) + 1 /\ Len(stk) \in Nat
      /\ DOMAIN P = 1..(Len(stk) + 1) /\ P[1] = f
      /\ \A j \in 1..Len(stk) : j + 1 \in DOMAIN P /\ P[j + 1] = stk[j]
      /\ \A j \in DOMAIN P : j # 1 =>
            j - 1 \in DOMAIN stk /\ P[j] = stk[j - 1] /\ (j - 1) + 1 = j
  BY <1>1, PushIs
<1>3. StackOK(P) /\ FilesOK(fst2, now, P)
  OBVIOUS
<1> HIDE DEF P
<1>4. Backed(new, P)
  <2> SUFFICES ASSUME NEW i \in DOMAIN new
               PROVE  \E j \in DOMAIN P :
                         Open(P[j]) /\ P[j].name = new[i].name /\ P[j].text = new[i].text
    BY DEF Backed
  <2>1. CASE \E k \in DOMAIN src : new[i] = src[k]
    <3>1. PICK k \in DOMAIN src : new[i] = src[k]
      BY <2>1
    <3>2. PICK j \in DOMAIN stk :
            Open(stk[j]) /\ stk[j].name = src[k].name /\ stk[j].text = src[k].text
      BY DEF Fits, Backed
    <3>3. j \in 1..Len(stk)
      BY <1>1
    <3> QED BY ZenonT(60), <1>2, <3>1, <3>2, <3>3
  <2>2. CASE new[i].name = f.name /\ new[i].text = f.text /\ Open(f)
    <3>1. 1 \in DOMAIN P /\ P[1] = f
      BY <1>2
    <3> QED BY <2>2, <3>1
  <2> QED BY <2>1, <2>2
<1>5. Served(new, P)
  <2> SUFFICES ASSUME NEW j \in DOMAIN P, P[j].kind \in {"eval", "build"}
               PROVE  ReadsOwn(P[j]) /\ (Open(P[j]) => HasSource(new, P[j]))
    BY DEF Served
  <2>1. CASE j = 1
    BY <1>2, <2>1
  <2>2. CASE j # 1
    <3>1. j - 1 \in DOMAIN stk /\ P[j] = stk[j - 1]
      BY <1>2, <2>2
    <3>2. ReadsOwn(P[j]) /\ (Open(P[j]) => HasSource(src, P[j]))
      BY <3>1 DEF Fits, Served
    <3> QED BY <3>2 DEF HasSource
  <2> QED BY <2>1, <2>2
<1>6. Fits(new, fst2, now, P)
  BY <1>3, <1>4, <1>5 DEF Fits
<1> QED BY <1>6 DEF P

\* The reader on top is done, and so is its source.
LEMMA PopFits ==
    ASSUME NEW src, NEW fst, NEW fls, NEW stk, Fits(src, fst, fls, stk), stk # << >>,
           NEW new, SourcesOK(new),
           \A i \in DOMAIN new : \E k \in DOMAIN src : new[i] = src[k],
           \A i \in DOMAIN new : Open(Head(stk)) => new[i].name # Head(stk).name,
           \A i \in DOMAIN src : ~(Open(Head(stk)) /\ src[i].name = Head(stk).name) =>
              \E k \in DOMAIN new : new[k] = src[i],
           NEW fst2, NEW now, FilesOK(fst2, now, Tail(stk))
    PROVE  Fits(new, fst2, now, Tail(stk))
<1> DEFINE T == Tail(stk)
<1>1. StackOK(stk) /\ stk \in Seq(Frame)
  BY DEF Fits, StackOK
<1>2. /\ Len(stk) \in Nat /\ Len(stk) >= 1 /\ DOMAIN stk = 1..Len(stk)
      /\ T \in Seq(Frame) /\ Len(T) = Len(stk) - 1 /\ DOMAIN T = 1..(Len(stk) - 1)
      /\ \A i \in 1..(Len(stk) - 1) : T[i] = stk[i + 1]
      /\ Head(stk) = stk[1] /\ 1 \in DOMAIN stk
  BY <1>1, TopIs
<1>3. StackOK(T) /\ FilesOK(fst2, now, T)
  BY <1>1, PopStack
<1> HIDE DEF T
<1>4. Backed(new, T)
  <2> SUFFICES ASSUME NEW i \in DOMAIN new
               PROVE  \E j \in DOMAIN T :
                         Open(T[j]) /\ T[j].name = new[i].name /\ T[j].text = new[i].text
    BY DEF Backed
  <2>1. PICK k \in DOMAIN src : new[i] = src[k]
    OBVIOUS
  <2>2. PICK j \in DOMAIN stk :
          Open(stk[j]) /\ stk[j].name = src[k].name /\ stk[j].text = src[k].text
    BY DEF Fits, Backed
  <2>3. j # 1
    BY <1>2, <2>1, <2>2
  <2>4. j - 1 \in 1..(Len(stk) - 1) /\ (j - 1) + 1 = j
    BY <1>2, <2>3
  <2>5. T[j - 1] = stk[j]
    BY <1>2, <2>4
  <2> QED BY <1>2, <2>1, <2>2, <2>4, <2>5
<1>5. Served(new, T)
  <2> SUFFICES ASSUME NEW j \in DOMAIN T, T[j].kind \in {"eval", "build"}
               PROVE  ReadsOwn(T[j]) /\ (Open(T[j]) => HasSource(new, T[j]))
    BY DEF Served
  <2>1. j + 1 \in DOMAIN stk /\ T[j] = stk[j + 1] /\ j + 1 # 1
    BY <1>2
  <2>2. ReadsOwn(T[j]) /\ (Open(T[j]) => HasSource(src, T[j]))
    BY <2>1 DEF Fits, Served
  <2>3. ASSUME Open(T[j]) PROVE HasSource(new, T[j])
    <3>1. PICK i \in DOMAIN src :
             src[i] = [name |-> T[j].name, text |-> T[j].text, read |-> Len(T[j].got)]
      BY <2>2, <2>3 DEF HasSource
    <3>2. Open(Head(stk)) => stk[j + 1].name # stk[1].name
      BY <1>1, <1>2, <2>1, <2>3, OwnersDiffer
    <3>3. Open(Head(stk)) => src[i].name # Head(stk).name
      BY <1>2, <2>1, <3>1, <3>2
    <3>4. PICK k \in DOMAIN new : new[k] = src[i]
      BY <3>3
    <3> QED BY <3>1, <3>4 DEF HasSource
  <2> QED BY <2>2, <2>3
<1>6. Fits(new, fst2, now, T)
  BY <1>3, <1>4, <1>5 DEF Fits
<1> QED BY <1>6 DEF T
-----------------------------------------------------------------------------
(* The string router.                                                      *)

LEMMA FindIs ==
    ASSUME SourcesOK(sources), NEW name
    PROVE  LET r == FindStringRouter(name)
           IN /\ r = 0 => \A i \in DOMAIN sources : sources[i].name # name
              /\ r # 0 => r \in DOMAIN sources /\ r \in 1..Len(sources) /\ sources[r].name = name
<1> DEFINE I == {i \in 1..Len(sources) : sources[i].name = name}
<1>1. DOMAIN sources = 1..Len(sources) /\ Len(sources) \in Nat
  BY DEF SourcesOK
<1>2. FindStringRouter(name) = IF I # {} THEN Min(I) ELSE 0
  BY DEF FindStringRouter, SelectInSeq
<1>3. CASE I = {}
  <2>1. FindStringRouter(name) = 0
    BY <1>2, <1>3
  <2>2. \A i \in DOMAIN sources : sources[i].name # name
    BY <1>1, <1>3
  <2> QED BY <2>1, <2>2
<1>4. CASE I # {}
  <2>1. I \subseteq Nat
    OBVIOUS
  <2> HIDE DEF I
  <2>2. Min(I) \in I
    BY <1>4, <2>1, MinIs
  <2>3. FindStringRouter(name) \in I
    BY <1>2, <1>4, <2>2
  <2>4. /\ FindStringRouter(name) \in 1..Len(sources) /\ FindStringRouter(name) # 0
        /\ sources[FindStringRouter(name)].name = name
    BY <2>3 DEF I
  <2> QED BY <1>1, <2>4
<1> QED BY <1>3, <1>4

\* A source is put in front, unless there is one of the name.
LEMMA OpenIs ==
    ASSUME SourcesOK(sources), NEW name \in SourceName, NEW text \in Parsed
    PROVE  LET new == OpenStringSource(name, text)
           IN /\ SourcesOK(new)
              /\ \A i \in DOMAIN new : \/ \E k \in DOMAIN sources : new[i] = sources[k]
                                       \/ new[i].name = name /\ new[i].text = text
              /\ \A i \in DOMAIN sources : \E k \in DOMAIN new : new[k] = sources[i]
              /\ (\A i \in DOMAIN sources : sources[i].name # name) =>
                    \E k \in DOMAIN new : new[k] = [name |-> name, text |-> text, read |-> 0]
<1> DEFINE s == [name |-> name, text |-> text, read |-> 0]
           new == <<s>> \o sources
<1>1. CASE FindStringRouter(name) # 0
  <2>1. OpenStringSource(name, text) = sources
    BY <1>1 DEF OpenStringSource
  <2>2. \E i \in DOMAIN sources : sources[i].name = name
    BY <1>1, FindIs
  <2> QED BY <2>1, <2>2
<1>2. CASE FindStringRouter(name) = 0
  <2>1. OpenStringSource(name, text) = new
    BY <1>2 DEF OpenStringSource
  <2>2. \A i \in DOMAIN sources : sources[i].name # name
    BY <1>2, FindIs
  <2>3. sources \in Seq(StringSource) /\ DOMAIN sources = 1..Len(sources) /\ Len(sources) \in Nat
    BY DEF SourcesOK
  <2>4. s \in StringSource /\ s.name = name /\ s.text = text /\ s.read = 0
    BY DEF StringSource
  <2>5. /\ new \in Seq(StringSource) /\ Len(new) = Len(sources) + 1
        /\ \A j \in 1..(Len(sources) + 1) : new[j] = IF j = 1 THEN s ELSE sources[j - 1]
    BY <2>3, <2>4, PushProperties
  <2> HIDE DEF s, new
  <2>6. DOMAIN new = 1..(Len(sources) + 1)
    BY <2>5
  <2>7. ASSUME NEW j \in DOMAIN new, j # 1
        PROVE  j - 1 \in DOMAIN sources /\ new[j] = sources[j - 1]
    BY <2>3, <2>5, <2>6, <2>7
  <2>8. new[1] = s /\ 1 \in DOMAIN new
    BY <2>3, <2>5, <2>6
  <2>9. ASSUME NEW i \in DOMAIN sources PROVE i + 1 \in DOMAIN new /\ new[i + 1] = sources[i]
    <3>1. i + 1 \in 1..(Len(sources) + 1) /\ i + 1 # 1 /\ (i + 1) - 1 = i
      BY <2>3
    <3> QED BY <2>5, <2>6, <3>1
  <2>10. SourcesOK(new)
    <3>1. ASSUME NEW i \in DOMAIN new PROVE new[i].read <= Size[new[i].text]
      <4>1. CASE i = 1
        <5>1. Size[text] \in Nat /\ Size[text] >= 1
          BY TextsAre
        <5> QED BY <2>4, <2>8, <4>1, <5>1
      <4>2. CASE i # 1
        BY <2>7, <4>2 DEF SourcesOK
      <4> QED BY <4>1, <4>2
    <3>2. ASSUME NEW i \in DOMAIN new, NEW j \in DOMAIN new, new[i].name = new[j].name
          PROVE  i = j
      <4>1. CASE i = 1 /\ j = 1
        BY <4>1
      <4>2. CASE i = 1 /\ j # 1
        BY <2>2, <2>4, <2>7, <2>8, <3>2, <4>2
      <4>3. CASE i # 1 /\ j = 1
        BY <2>2, <2>4, <2>7, <2>8, <3>2, <4>3
      <4>4. CASE i # 1 /\ j # 1
        <5>1. i - 1 = j - 1
          BY <2>7, <3>2, <4>4 DEF SourcesOK
        <5> QED BY <2>6, <5>1
      <4> QED BY <4>1, <4>2, <4>3, <4>4
    <3> QED BY <2>5, <3>1, <3>2 DEF SourcesOK
  <2>11. \A i \in DOMAIN new : \/ \E k \in DOMAIN sources : new[i] = sources[k]
                               \/ new[i].name = name /\ new[i].text = text
    BY <2>4, <2>7, <2>8
  <2> QED BY <2>1, <2>8, <2>9, <2>10, <2>11 DEF s
<1> QED BY <1>1, <1>2

\* The source of a name is taken out.
LEMMA CloseIs ==
    ASSUME SourcesOK(sources), NEW name
    PROVE  LET new == CloseStringSource(name)
           IN /\ SourcesOK(new)
              /\ \A i \in DOMAIN new : \E k \in DOMAIN sources : new[i] = sources[k]
              /\ \A i \in DOMAIN new : new[i].name # name
              /\ \A i \in DOMAIN sources : sources[i].name # name =>
                    \E k \in DOMAIN new : new[k] = sources[i]
<1> DEFINE r == FindStringRouter(name)
           new == RemoveAt(sources, r)
<1>1. CASE r = 0
  <2>1. CloseStringSource(name) = sources
    BY <1>1 DEF CloseStringSource
  <2>2. \A i \in DOMAIN sources : sources[i].name # name
    BY <1>1, FindIs
  <2> QED BY <2>1, <2>2
<1>2. CASE r # 0
  <2>1. CloseStringSource(name) = new
    BY <1>2 DEF CloseStringSource
  <2>2. r \in DOMAIN sources /\ r \in 1..Len(sources) /\ sources[r].name = name
    BY <1>2, FindIs
  <2>3. /\ sources \in Seq(StringSource) /\ DOMAIN sources = 1..Len(sources)
        /\ Len(sources) \in Nat
    BY DEF SourcesOK
  <2> HIDE DEF r
  <2>4. /\ new \in Seq(StringSource) /\ Len(new) = Len(sources) - 1
        /\ \A j \in 1..(Len(sources) - 1) : new[j] = IF j < r THEN sources[j] ELSE sources[j + 1]
    BY <2>2, <2>3, RemoveAtProperties
  <2> HIDE DEF new
  <2>5. DOMAIN new = 1..(Len(sources) - 1)
    BY <2>2, <2>3, <2>4
  <2> DEFINE at(j) == IF j < r THEN j ELSE j + 1
  <2>6. ASSUME NEW j \in DOMAIN new
        PROVE  at(j) \in DOMAIN sources /\ new[j] = sources[at(j)] /\ at(j) # r
    BY <2>2, <2>3, <2>4, <2>5
  <2>7. ASSUME NEW i \in DOMAIN sources, i # r PROVE \E k \in DOMAIN new : new[k] = sources[i]
    <3>1. CASE i < r
      <4>1. i \in DOMAIN new /\ new[i] = sources[i]
        BY <2>2, <2>3, <2>4, <2>5, <3>1
      <4> QED BY <4>1
    <3>2. CASE ~(i < r)
      <4>1. i - 1 \in DOMAIN new /\ ~(i - 1 < r) /\ (i - 1) + 1 = i
        BY <2>2, <2>3, <2>5, <2>7, <3>2
      <4>2. new[i - 1] = sources[i]
        BY <2>4, <2>5, <4>1
      <4> QED BY <4>1, <4>2
    <3> QED BY <3>1, <3>2
  <2>8. ASSUME NEW i \in DOMAIN new, NEW j \in DOMAIN new, new[i].name = new[j].name
        PROVE  i = j
    <3>1. at(i) = at(j)
      BY <2>6, <2>8 DEF SourcesOK
    <3> QED BY <2>2, <2>3, <2>5, <3>1
  <2> HIDE DEF at
  <2>9. SourcesOK(new)
    BY <2>4, <2>6, <2>8 DEF SourcesOK
  <2>10. \A i \in DOMAIN new : new[i].name # name
    BY <2>2, <2>6 DEF SourcesOK
  <2>11. \A i \in DOMAIN sources : sources[i].name # name => i # r
    BY <2>2
  <2> QED BY <2>1, <2>6, <2>7, <2>9, <2>10, <2>11
<1> QED BY <1>1, <1>2

\* A part is read from the source of a name.
LEMMA AdvanceIs ==
    ASSUME SourcesOK(sources), NEW name, NEW r \in DOMAIN sources, sources[r].name = name,
           sources[r].read # Size[sources[r].text]
    PROVE  LET new == [sources EXCEPT ![r].read = @ + 1]
           IN /\ SourcesOK(new) /\ DOMAIN new = DOMAIN sources
              /\ new[r] = [name |-> name, text |-> sources[r].text, read |-> sources[r].read + 1]
              /\ \A i \in DOMAIN sources : sources[i].name # name => new[i] = sources[i]
              /\ \A i \in DOMAIN sources : new[i].name = sources[i].name /\ new[i].text = sources[i].text
<1> DEFINE new == [sources EXCEPT ![r].read = @ + 1]
           s == sources[r]
           e == [s EXCEPT !.read = @ + 1]
<1>1. /\ sources \in Seq(StringSource) /\ DOMAIN sources = 1..Len(sources)
      /\ Len(sources) \in Nat /\ s \in StringSource /\ s.read <= Size[s.text]
  BY DEF SourcesOK
<1>2. Size[s.text] \in Nat /\ s.read \in Nat /\ s.read + 1 <= Size[s.text]
  <2>1. s.text \in AnyText /\ s.read \in Nat
    BY <1>1, TextsAre DEF StringSource
  <2>2. Size[s.text] \in Nat
    BY <2>1, TextsAre
  <2>3. s.read <= Size[s.text] /\ s.read # Size[s.text]
    BY <1>1
  <2> HIDE DEF s
  <2> QED BY <2>1, <2>2, <2>3
<1>3. /\ e \in StringSource /\ e.name = s.name /\ e.text = s.text /\ e.read = s.read + 1
      /\ e = [name |-> s.name, text |-> s.text, read |-> s.read + 1]
  BY <1>1, <1>2 DEF StringSource
<1>4. new = [sources EXCEPT ![r] = e]
  OBVIOUS
<1> HIDE DEF new, e
<1>5. /\ new \in Seq(StringSource) /\ DOMAIN new = DOMAIN sources /\ new[r] = e
      /\ \A i \in DOMAIN sources : i # r => new[i] = sources[i]
  BY <1>1, <1>3, <1>4
<1>6. \A i \in DOMAIN sources : new[i].name = sources[i].name /\ new[i].text = sources[i].text
  BY <1>3, <1>5
<1>7. \A i \in DOMAIN new : new[i].read <= Size[new[i].text]
  <2> SUFFICES ASSUME NEW i \in DOMAIN new PROVE new[i].read <= Size[new[i].text]
    OBVIOUS
  <2>1. CASE i = r
    BY <1>2, <1>3, <1>5, <2>1
  <2>2. CASE i # r
    BY <1>5, <2>2 DEF SourcesOK
  <2> QED BY <2>1, <2>2
<1>8. SourcesOK(new)
  BY <1>5, <1>6, <1>7 DEF SourcesOK
<1>9. new[r] = [name |-> name, text |-> sources[r].text, read |-> sources[r].read + 1]
  BY <1>3, <1>5
<1>10. \A i \in DOMAIN sources : sources[i].name # name => i # r
  OBVIOUS
<1> QED BY <1>5, <1>6, <1>8, <1>9, <1>10 DEF new
-----------------------------------------------------------------------------
(* A reader starts.                                                        *)

LEMMA EvalNumber ==
    ASSUME NEW b \in Seq(Frame), NEW f \in Frame, f.kind = "eval"
    PROVE  /\ Cardinality(EvalsFrom(b, 1)) \in Nat
           /\ NameAt(<<f>> \o b, 1) = <<"Eval", Cardinality(EvalsFrom(b, 1)) + 1>>
<1> DEFINE P == <<f>> \o b
<1>1. /\ Len(P) = Len(b) + 1 /\ Len(b) \in Nat /\ P[1] = f
      /\ \A j \in 1..Len(b) : P[j + 1] = b[j]
  BY PushIs
<1> HIDE DEF P
<1>2. /\ IsFiniteSet(EvalsFrom(P, 2)) /\ Cardinality(EvalsFrom(b, 1)) \in Nat
      /\ Cardinality(EvalsFrom(P, 2)) \in Nat
  <2>1. Len(P) \in Nat /\ Len(b) \in Nat /\ 1 \in Nat /\ 2 \in Nat
    BY <1>1
  <2>2. IsFiniteSet(EvalsFrom(P, 2)) /\ Cardinality(EvalsFrom(P, 2)) \in Nat
    BY <2>1, EvalsAre
  <2>3. Cardinality(EvalsFrom(b, 1)) \in Nat
    BY <2>1, EvalsAre
  <2> QED BY <2>2, <2>3
<1>3. Cardinality(EvalsFrom(P, 1 + 1)) = Cardinality(EvalsFrom(b, 1))
  BY <1>1, EvalsShift
<1>4. EvalsFrom(P, 1) = EvalsFrom(P, 2) \cup {1} /\ 1 \notin EvalsFrom(P, 2)
  BY <1>1 DEF EvalsFrom
<1>5. Cardinality(EvalsFrom(P, 1)) = Cardinality(EvalsFrom(P, 2)) + 1
  BY <1>2, <1>4, FS_AddElement
<1>6. NameAt(P, 1) = <<"Eval", Cardinality(EvalsFrom(P, 1))>>
  BY <1>1 DEF NameAt
<1> QED BY <1>2, <1>3, <1>5, <1>6 DEF P

\* The next number is free.
LEMMA EvalIsFresh ==
    ASSUME NEW src, NEW b, StackOK(b), Backed(src, b), NEW i \in DOMAIN src
    PROVE  src[i].name # <<"Eval", Cardinality(EvalsFrom(b, 1)) + 1>>
<1>1. b \in Seq(Frame) /\ Len(b) \in Nat /\ DOMAIN b = 1..Len(b)
  BY DEF StackOK
<1>2. PICK j \in DOMAIN b : Open(b[j]) /\ b[j].name = src[i].name
  BY DEF Backed
<1>3. b[j].name = NameAt(b, j) /\ b[j].kind \in {"eval", "build", "command"}
  BY <1>2 DEF StackOK, Open
<1>4. /\ IsFiniteSet(EvalsFrom(b, 1)) /\ Cardinality(EvalsFrom(b, 1)) \in Nat
      /\ Cardinality(EvalsFrom(b, j)) \in Nat
  BY <1>1, EvalsAre
<1>5. Cardinality(EvalsFrom(b, j)) <= Cardinality(EvalsFrom(b, 1))
  <2>1. EvalsFrom(b, j) \subseteq EvalsFrom(b, 1)
    BY <1>1 DEF EvalsFrom
  <2> QED BY <1>4, <2>1, FS_Subset
<1> DEFINE c == Cardinality(EvalsFrom(b, 1))
           d == Cardinality(EvalsFrom(b, j))
<1>6. c \in Nat /\ d \in Nat /\ d # c + 1 /\ c + 1 \in Nat
  BY <1>4, <1>5
<1>7. b[j].name \in {<<"Eval", d>>, <<"build", 0>>, <<"command", 0>>}
  BY <1>3 DEF NameAt
<1> HIDE DEF c, d
<1>8. b[j].name # <<"Eval", c + 1>>
  BY <1>6, <1>7, NamesDiffer
<1> QED BY <1>2, <1>8 DEF c

LEMMA FilesPush ==
    ASSUME NEW fst, NEW fls, NEW b \in Seq(Frame), FilesOK(fst, fls, b), NEW f \in Frame
    PROVE  FilesOK(fst, fls, <<f>> \o b)
<1> DEFINE P == <<f>> \o b
<1>1. \A j \in 1..Len(b) : j + 1 \in DOMAIN P /\ P[j + 1] = b[j]
  BY PushIs
<1> HIDE DEF P
<1>2. ASSUME NEW g \in DOMAIN fls PROVE \E j \in DOMAIN P : P[j].kind = "load" /\ P[j].name = g
  <2>1. PICK j \in DOMAIN b : b[j].kind = "load" /\ b[j].name = g
    BY DEF FilesOK
  <2>2. j \in 1..Len(b)
    OBVIOUS
  <2> QED BY <1>1, <2>1, <2>2
<1>3. FilesOK(fst, fls, P)
  BY <1>2 DEF FilesOK
<1> QED BY <1>3 DEF P

\* below may differ from the stack by what its top has read and has to call.
Alike(b) == b \in Seq(Frame) /\ Len(b) = Depth /\ \A i \in 1..Depth : b[i].kind = stack[i].kind

LEMMA CommandFits ==
    ASSUME NEW b, Fits(sources, fast, files, b), Len(b) <= MaxReaders, NEW text \in Command,
           RouteCommand(text, b)
    PROVE  Fits(sources', fast', files', stack')
<1> DEFINE name == <<"command", 0>>
           f == Reader("command", name, text)
<1>1. name \in SourceName /\ text \in Parsed /\ text \in AnyText
  BY NamesDiffer DEF Parsed, AnyText
<1>2. f \in Frame /\ f.kind = "command" /\ f.name = name /\ f.text = text /\ f.phase = "reading"
  BY <1>1, NewReaderIs DEF Kinds
<1>3. /\ sources' = OpenStringSource(name, text) /\ stack' = <<f>> \o b
      /\ fast' = fast /\ files' = files
  BY DEF RouteCommand
<1>4. StackOK(b) /\ b \in Seq(Frame) /\ SourcesOK(sources) /\ FilesOK(fast, files, b)
  BY DEF Fits, StackOK
<1>5. Open(f)
  BY <1>2 DEF Open
<1> HIDE DEF f
<1>6. (<<f>> \o b)[1] = f
  BY <1>2, <1>4, PushIs
<1>7. NameAt(<<f>> \o b, 1) = f.name
  BY <1>2, <1>6 DEF NameAt
<1>8. f.text \in TextOf(f.kind)
  BY <1>2 DEF TextOf
<1>9. StackOK(<<f>> \o b)
  BY <1>2, <1>4, <1>7, <1>8, PushStack
<1>10. FilesOK(fast, files, <<f>> \o b)
  BY <1>2, <1>4, FilesPush
<1> DEFINE new == OpenStringSource(name, text)
<1>11. /\ SourcesOK(new)
       /\ \A i \in DOMAIN new : \/ \E k \in DOMAIN sources : new[i] = sources[k]
                                \/ new[i].name = f.name /\ new[i].text = f.text /\ Open(f)
       /\ \A i \in DOMAIN sources : \E k \in DOMAIN new : new[k] = sources[i]
  BY <1>1, <1>2, <1>4, <1>5, OpenIs
<1> HIDE DEF new
<1>12. Fits(new, fast, files, <<f>> \o b)
  BY <1>2, <1>9, <1>10, <1>11, PushFits
<1> QED BY <1>3, <1>12 DEF new

LEMMA EvalFits ==
    ASSUME NEW b, Fits(sources, fast, files, b), Alike(b), Len(b) < MaxReaders,
           NEW text \in Expression, Eval(text, b)
    PROVE  Fits(sources', fast', files', stack')
<1> DEFINE c == Cardinality(EvalsFrom(b, 1))
           name == <<"Eval", c + 1>>
           f == Reader("eval", name, text)
           new == OpenStringSource(name, text)
<1>1. /\ StackOK(b) /\ b \in Seq(Frame) /\ SourcesOK(sources) /\ FilesOK(fast, files, b)
      /\ Backed(sources, b) /\ Len(b) \in Nat
  BY DEF Fits, StackOK
<1>2. {i \in 1..Depth : stack[i].kind = "eval"} = EvalsFrom(b, 1)
  BY DEF Alike, EvalsFrom
<1>3. /\ sources' = new /\ stack' = <<f>> \o b
      /\ fast' = fast /\ files' = files
  BY <1>2 DEF Eval
<1>4. c \in Nat /\ c + 1 \in Nat
  <2>1. c \in Nat
    BY <1>1, EvalsAre
  <2> HIDE DEF c
  <2> QED BY <2>1
<1>5. name \in SourceName /\ text \in Parsed /\ text \in AnyText
  BY <1>4, NamesDiffer DEF Parsed, AnyText
<1>6. /\ f \in Frame /\ f.kind = "eval" /\ f.name = name /\ f.text = text
      /\ f.got = << >> /\ f.phase = "reading"
  BY <1>5, NewReaderIs DEF Kinds
<1>7. Open(f)
  BY <1>6 DEF Open
<1>8. \A i \in DOMAIN sources : sources[i].name # name
  BY <1>1, EvalIsFresh
<1> HIDE DEF f
<1>9. NameAt(<<f>> \o b, 1) = f.name
  BY <1>1, <1>6, EvalNumber
<1>10. f.text \in TextOf(f.kind)
  BY <1>6 DEF TextOf
<1>11. StackOK(<<f>> \o b)
  BY <1>1, <1>6, <1>9, <1>10, PushStack
<1>12. FilesOK(fast, files, <<f>> \o b)
  BY <1>1, <1>6, FilesPush
<1> HIDE DEF c
<1>13. /\ SourcesOK(new)
       /\ \A i \in DOMAIN new : \/ \E k \in DOMAIN sources : new[i] = sources[k]
                                \/ new[i].name = name /\ new[i].text = text
       /\ \A i \in DOMAIN sources : \E k \in DOMAIN new : new[k] = sources[i]
       /\ \E k \in DOMAIN new : new[k] = [name |-> name, text |-> text, read |-> 0]
  BY <1>1, <1>5, <1>8, OpenIs
<1> HIDE DEF new, name
<1>14. ReadsOwn(f)
  <2>1. Size[text] \in Nat
    BY <1>5, TextsAre
  <2>2. Own(f, 0) = << >>
    BY DEF Own
  <2> QED BY <1>6, <2>1, <2>2 DEF ReadsOwn
<1>15. HasSource(new, f)
  BY <1>6, <1>13 DEF HasSource
<1>16. Fits(new, fast, files, <<f>> \o b)
  BY <1>6, <1>7, <1>11, <1>12, <1>13, <1>14, <1>15, PushFits
<1> QED BY <1>3, <1>16

LEMMA BuildFits ==
    ASSUME NEW b, Fits(sources, fast, files, b), Len(b) < MaxReaders,
           NEW text \in Construct, Build(text, b)
    PROVE  Fits(sources', fast', files', stack')
<1> DEFINE name == <<"build", 0>>
           f == Reader("build", name, text)
           new == OpenStringSource(name, text)
<1>1. /\ StackOK(b) /\ b \in Seq(Frame) /\ SourcesOK(sources) /\ FilesOK(fast, files, b)
      /\ Backed(sources, b) /\ Served(sources, b) /\ Len(b) \in Nat
  BY DEF Fits, StackOK
<1>2. /\ sources' = new /\ fast' = fast /\ files' = files
      /\ stack' = IF FindStringRouter(name) # 0 THEN b ELSE <<f>> \o b
  BY DEF Build
<1>3. CASE FindStringRouter(name) # 0
  <2>1. sources' = sources /\ stack' = b
    BY <1>2, <1>3 DEF OpenStringSource
  <2> QED BY <1>2, <2>1
<1>4. CASE FindStringRouter(name) = 0
  <2>1. name \in SourceName /\ text \in Parsed /\ text \in AnyText
    BY NamesDiffer DEF Parsed, AnyText
  <2>2. /\ f \in Frame /\ f.kind = "build" /\ f.name = name /\ f.text = text
        /\ f.got = << >> /\ f.phase = "reading"
    BY <2>1, NewReaderIs DEF Kinds
  <2>3. Open(f)
    BY <2>2 DEF Open
  <2>4. \A i \in DOMAIN sources : sources[i].name # name
    BY <1>1, <1>4, FindIs
  <2> HIDE DEF f
  <2>5. (<<f>> \o b)[1] = f
    BY <1>1, <2>2, PushIs
  <2>6. NameAt(<<f>> \o b, 1) = f.name
    BY <2>2, <2>5 DEF NameAt
  <2>7. f.text \in TextOf(f.kind)
    BY <2>2 DEF TextOf
  <2>8. ASSUME NEW j \in DOMAIN b, b[j].kind = "build", Open(b[j]) PROVE FALSE
    <3>1. HasSource(sources, b[j])
      BY <1>1, <2>8 DEF Served
    <3>2. PICK i \in DOMAIN sources : sources[i].name = b[j].name
      BY <3>1 DEF HasSource
    <3>3. b[j].name = name
      BY <1>1, <2>8 DEF StackOK, NameAt
    <3> QED BY <2>4, <3>2, <3>3
  <2>9. StackOK(<<f>> \o b)
    BY <1>1, <2>2, <2>6, <2>7, <2>8, PushStack
  <2>10. FilesOK(fast, files, <<f>> \o b)
    BY <1>1, <2>2, FilesPush
  <2>11. /\ SourcesOK(new)
         /\ \A i \in DOMAIN new : \/ \E k \in DOMAIN sources : new[i] = sources[k]
                                  \/ new[i].name = name /\ new[i].text = text
         /\ \A i \in DOMAIN sources : \E k \in DOMAIN new : new[k] = sources[i]
         /\ \E k \in DOMAIN new : new[k] = [name |-> name, text |-> text, read |-> 0]
    BY <1>1, <2>1, <2>4, OpenIs
  <2> HIDE DEF new, name
  <2>12. ReadsOwn(f)
    <3>1. Size[text] \in Nat
      BY <2>1, TextsAre
    <3>2. Own(f, 0) = << >>
      BY DEF Own
    <3> QED BY <2>2, <3>1, <3>2 DEF ReadsOwn
  <2>13. HasSource(new, f)
    BY <2>2, <2>11 DEF HasSource
  <2>14. Fits(new, fast, files, <<f>> \o b)
    BY <2>2, <2>3, <2>9, <2>10, <2>11, <2>12, <2>13, PushFits
  <2>15. stack' = <<f>> \o b
    BY <1>2, <1>4 DEF name
  <2> QED BY <1>2, <2>14, <2>15
<1> QED BY <1>3, <1>4

LEMMA LoadFits ==
    ASSUME NEW b, Fits(sources, fast, files, b), Len(b) < MaxReaders,
           NEW text \in LoadFile, Load(text, b)
    PROVE  Fits(sources', fast', files', stack')
<1> DEFINE name == <<"file", Len(b)>>
           f == Reader("load", name, text)
           s == [text |-> text, read |-> 0]
           now == [g \in DOMAIN files \cup {name} |-> IF g = name THEN s ELSE files[g]]
<1>1. /\ StackOK(b) /\ b \in Seq(Frame) /\ SourcesOK(sources) /\ FilesOK(fast, files, b)
      /\ Len(b) \in Nat
  BY DEF Fits, StackOK
<1>2. sources' = sources /\ fast' = name /\ files' = now /\ stack' = <<f>> \o b
  BY DEF Load
<1>3. name \in SourceName /\ text \in AnyText
  BY <1>1, NamesDiffer DEF Parsed, AnyText
<1>4. f \in Frame /\ f.kind = "load" /\ f.name = name /\ f.text = text
  BY <1>3, NewReaderIs DEF Kinds
<1> HIDE DEF f
<1>5. (<<f>> \o b)[1] = f /\ Len(<<f>> \o b) = Len(b) + 1 /\ 1 \in DOMAIN (<<f>> \o b)
  BY <1>1, <1>4, PushIs
<1>6. NameAt(<<f>> \o b, 1) = f.name
  BY <1>1, <1>4, <1>5 DEF NameAt
<1>7. f.text \in TextOf(f.kind)
  BY <1>4 DEF TextOf
<1>8. StackOK(<<f>> \o b)
  BY <1>1, <1>4, <1>6, <1>7, PushStack
<1>9. FilesOK(fast, files, <<f>> \o b)
  BY <1>1, <1>4, FilesPush
<1>10. FilesOK(name, now, <<f>> \o b)
  <2>1. s \in [text : LoadFile, read : Nat]
    OBVIOUS
  <2>2. files \in [DOMAIN files -> [text : LoadFile, read : Nat]]
    BY <1>1 DEF FilesOK
  <2> HIDE DEF s, name
  <2>3. now \in [DOMAIN files \cup {name} -> [text : LoadFile, read : Nat]]
    BY <2>1, <2>2
  <2>4. DOMAIN now = DOMAIN files \cup {name}
    OBVIOUS
  <2> HIDE DEF now
  <2>5. ASSUME NEW g \in DOMAIN now
        PROVE  \E j \in DOMAIN (<<f>> \o b) :
                  (<<f>> \o b)[j].kind = "load" /\ (<<f>> \o b)[j].name = g
    <3>1. CASE g = name
      BY <1>4, <1>5, <3>1
    <3>2. CASE g # name
      BY <1>9, <2>4, <3>2 DEF FilesOK
    <3> QED BY <3>1, <3>2
  <2> QED BY <2>3, <2>4, <2>5 DEF FilesOK
<1> HIDE DEF now, name
<1>11. Fits(sources, name, now, <<f>> \o b)
  BY <1>1, <1>4, <1>8, <1>10, PushFits
<1> QED BY <1>2, <1>11

LEMMA BatchFits ==
    ASSUME NEW b, Fits(sources, fast, files, b), Len(b) < MaxReaders,
           NEW text \in BatchFile, BatchStar(text, b)
    PROVE  Fits(sources', fast', files', stack')
<1> DEFINE f == Reader("batch*", NoSource, text)
<1>1. /\ StackOK(b) /\ b \in Seq(Frame) /\ SourcesOK(sources) /\ FilesOK(fast, files, b)
  BY DEF Fits, StackOK
<1>2. sources' = sources /\ fast' = fast /\ files' = files /\ stack' = <<f>> \o b
  BY DEF BatchStar
<1>3. f \in Frame /\ f.kind = "batch*" /\ f.name = NoSource /\ f.text = text
  BY NewReaderIs DEF Kinds, AnyText
<1> HIDE DEF f
<1>4. (<<f>> \o b)[1] = f
  BY <1>1, <1>3, PushIs
<1>5. NameAt(<<f>> \o b, 1) = f.name
  BY <1>3, <1>4 DEF NameAt
<1>6. f.text \in TextOf(f.kind)
  BY <1>3 DEF TextOf
<1>7. StackOK(<<f>> \o b)
  BY <1>1, <1>3, <1>5, <1>6, PushStack
<1>8. FilesOK(fast, files, <<f>> \o b)
  BY <1>1, <1>3, FilesPush
<1>9. Fits(sources, fast, files, <<f>> \o b)
  BY <1>1, <1>3, <1>7, <1>8, PushFits
<1> QED BY <1>2, <1>9

LEMMA StartFits ==
    ASSUME NEW b, Fits(sources, fast, files, b), Alike(b), Len(b) < MaxReaders,
           NEW call \in Calls, Start(call, b)
    PROVE  Fits(sources', fast', files', stack')
<1>1. CASE call[1] = "eval" /\ Eval(call[2], b)
  <2>1. call[2] \in Expression
    BY <1>1 DEF Calls
  <2> QED BY <1>1, <2>1, EvalFits
<1>2. CASE call[1] = "build" /\ Build(call[2], b)
  <2>1. call[2] \in Construct
    BY <1>2 DEF Calls
  <2> QED BY <1>2, <2>1, BuildFits
<1>3. CASE call[1] = "load" /\ Load(call[2], b)
  <2>1. call[2] \in LoadFile
    BY <1>3 DEF Calls
  <2> QED BY <1>3, <2>1, LoadFits
<1>4. CASE call[1] = "batch*" /\ BatchStar(call[2], b)
  <2>1. call[2] \in BatchFile
    BY <1>4 DEF Calls
  <2> QED BY <1>4, <2>1, BatchFits
<1> QED BY <1>1, <1>2, <1>3, <1>4 DEF Start
-----------------------------------------------------------------------------
(* The steps keep the invariant.                                           *)

LEMMA RunningIs ==
    ASSUME StackOK(stack), stack # << >>
    PROVE  /\ stack \in Seq(Frame) /\ Depth \in Nat /\ Depth >= 1
           /\ Running = stack[1] /\ 1 \in DOMAIN stack /\ Running \in Frame
           /\ Running.text \in TextOf(Running.kind)
           /\ Running.kind # "batch*" => Running.name \in SourceName /\ Running.name # NoSource
           /\ Running.kind = "load" => \E n \in Nat : Running.name = <<"file", n>>
           /\ Running.kind \notin {"load", "batch*"} => \A n \in Nat : Running.name # <<"file", n>>
<1>1. stack \in Seq(Frame)
  BY DEF StackOK
<1>2. /\ Len(stack) \in Nat /\ Len(stack) >= 1 /\ 1 \in DOMAIN stack /\ Head(stack) = stack[1]
      /\ stack[1] \in Frame
  BY <1>1, TopIs
<1>3. stack[1].text \in TextOf(stack[1].kind) /\ stack[1].name = NameAt(stack, 1)
  BY <1>2 DEF StackOK
<1>4. stack[1].kind \in Kinds
  BY <1>2 DEF Frame
<1> DEFINE c == Cardinality(EvalsFrom(stack, 1))
           d == Len(stack) - 1
<1>5. c \in Nat /\ d \in Nat
  BY <1>2, EvalsAre
<1>6. /\ stack[1].kind = "command" => stack[1].name = <<"command", 0>>
      /\ stack[1].kind = "build" => stack[1].name = <<"build", 0>>
      /\ stack[1].kind = "eval" => stack[1].name = <<"Eval", c>>
      /\ stack[1].kind = "load" => stack[1].name = <<"file", d>>
  BY <1>3 DEF NameAt
<1> HIDE DEF c, d
<1>7. /\ stack[1].kind # "batch*" => stack[1].name \in SourceName /\ stack[1].name # NoSource
      /\ stack[1].kind = "load" => \E n \in Nat : stack[1].name = <<"file", n>>
      /\ stack[1].kind \notin {"load", "batch*"} => \A n \in Nat : stack[1].name # <<"file", n>>
  <2>1. /\ <<"command", 0>> \in SourceName /\ <<"build", 0>> \in SourceName
        /\ <<"Eval", c>> \in SourceName /\ <<"file", d>> \in SourceName
        /\ \A name \in SourceName : name # NoSource
    BY <1>5, NamesDiffer
  <2>2. \A n \in Nat : /\ <<"command", 0>> # <<"file", n>> /\ <<"build", 0>> # <<"file", n>>
                       /\ <<"Eval", c>> # <<"file", n>>
    BY <1>5, NamesDiffer
  <2> QED BY <1>4, <1>5, <1>6, <2>1, <2>2 DEF Kinds
<1> QED BY <1>1, <1>2, <1>3, <1>7 DEF Running, Depth

\* load reads no string, and no other reader a file.
LEMMA NoFileIsAString ==
    ASSUME NEW src, NEW stk, StackOK(stk), Backed(src, stk), NEW i \in DOMAIN src, NEW n \in Nat
    PROVE  src[i].name # <<"file", n>>
<1>1. stk \in Seq(Frame) /\ Len(stk) \in Nat /\ DOMAIN stk = 1..Len(stk)
  BY DEF StackOK
<1>2. PICK j \in DOMAIN stk : Open(stk[j]) /\ stk[j].name = src[i].name
  BY DEF Backed
<1> DEFINE c == Cardinality(EvalsFrom(stk, j))
<1>3. stk[j].name = NameAt(stk, j) /\ stk[j].kind \in {"eval", "build", "command"}
  BY <1>2 DEF StackOK, Open
<1>4. c \in Nat
  BY <1>1, EvalsAre
<1>5. stk[j].name \in {<<"Eval", c>>, <<"build", 0>>, <<"command", 0>>}
  BY <1>3 DEF NameAt
<1> HIDE DEF c
<1> QED BY <1>2, <1>4, <1>5, NamesDiffer

LEMMA FileIsLoad ==
    ASSUME NEW stk, StackOK(stk), NEW fst, NEW fls, FilesOK(fst, fls, stk), NEW g \in DOMAIN fls
    PROVE  \E n \in Nat : g = <<"file", n>>
<1>1. stk \in Seq(Frame) /\ Len(stk) \in Nat /\ DOMAIN stk = 1..Len(stk)
  BY DEF StackOK
<1>2. PICK j \in DOMAIN stk : stk[j].kind = "load" /\ stk[j].name = g
  BY DEF FilesOK
<1>3. g = <<"file", Len(stk) - j>>
  BY <1>2 DEF StackOK, NameAt
<1>4. Len(stk) - j \in Nat
  BY <1>1
<1> QED BY <1>3, <1>4

\* The reader on top changes, the sources do not.
LEMMA UpdateSame ==
    ASSUME Fits(sources, fast, files, stack), stack # << >>, NEW g \in Frame, Same(g, Running),
           Open(g) <=> Open(Running), g.kind \in {"eval", "build"} => g.got = Running.got
    PROVE  Fits(sources, fast, files, <<g>> \o Tail(stack)) /\ Alike(<<g>> \o Tail(stack))
<1>1. /\ StackOK(stack) /\ stack \in Seq(Frame) /\ SourcesOK(sources)
      /\ FilesOK(fast, files, stack) /\ Served(sources, stack)
  BY DEF Fits, StackOK
<1>2. Running = stack[1] /\ Running = Head(stack) /\ 1 \in DOMAIN stack
  BY <1>1, RunningIs DEF Running
<1>3. ASSUME g.kind \in {"eval", "build"}
      PROVE  ReadsOwn(g) /\ (Open(g) => HasSource(sources, g))
  <2>1. ReadsOwn(Running) /\ (Open(Running) => HasSource(sources, Running))
    BY <1>1, <1>2, <1>3 DEF Served, Same
  <2>2. g.got = Running.got /\ g.name = Running.name /\ g.text = Running.text
    BY <1>3 DEF Same
  <2> QED BY <2>1, <2>2 DEF ReadsOwn, Own, HasSource
<1>4. files \in [DOMAIN files -> [text : LoadFile, read : Nat]]
  BY <1>1 DEF FilesOK
<1>5. Same(g, Head(stack)) /\ (Open(g) <=> Open(Head(stack)))
  BY <1>2
<1>6. Fits(sources, fast, files, <<g>> \o Tail(stack))
  BY <1>1, <1>3, <1>4, <1>5, UpdateFits
<1> DEFINE U == <<g>> \o Tail(stack)
<1>7. /\ U \in Seq(Frame) /\ Len(U) = Len(stack) /\ U[1] = g
      /\ \A j \in DOMAIN stack : j # 1 => U[j] = stack[j]
  BY <1>1, UpdateIs
<1> HIDE DEF U
<1>8. \A i \in 1..Len(stack) : i \in DOMAIN stack
  BY <1>1
<1>9. Alike(U)
  BY <1>2, <1>7, <1>8 DEF Alike, Depth, Same
<1> QED BY <1>6, <1>9 DEF U

LEMMA OwnGrows ==
    ASSUME NEW f \in Frame, NEW g \in Frame, ReadsOwn(f), g.text = f.text,
           g.got = Append(f.got, <<f.text, Len(f.got) + 1>>), Len(f.got) # Size[f.text]
    PROVE  ReadsOwn(g) /\ Len(g.got) = Len(f.got) + 1
<1> DEFINE n == Len(f.got)
<1>1. f.got \in Seq(AnyText \X Nat) /\ n \in Nat /\ f.text \in AnyText /\ DOMAIN f.got = 1..n
  BY DEF Frame
<1>2. Size[f.text] \in Nat /\ n <= Size[f.text] /\ n # Size[f.text]
  BY <1>1, TextsAre DEF ReadsOwn
<1>3. n + 1 <= Size[f.text]
  <2> HIDE DEF n
  <2> QED BY <1>1, <1>2
<1>4. <<f.text, n + 1>> \in AnyText \X Nat
  BY <1>1
<1>5. /\ Len(g.got) = n + 1 /\ DOMAIN g.got = 1..n + 1
      /\ \A i \in 1..n : g.got[i] = f.got[i]
      /\ g.got[n + 1] = <<f.text, n + 1>>
      /\ g.got \in Seq(AnyText \X Nat)
  BY <1>1, <1>4
<1>6. \A i \in 1..n : f.got[i] = <<f.text, i>>
  BY <1>1 DEF ReadsOwn, Own
<1>7. ASSUME NEW i \in 1..n + 1 PROVE g.got[i] = <<g.text, i>>
  <2>1. CASE i = n + 1
    BY <1>5, <2>1
  <2>2. CASE i # n + 1
    <3>1. i \in 1..n
      BY <1>1, <2>2
    <3> QED BY <1>5, <1>6, <3>1
  <2> QED BY <2>1, <2>2
<1>8. g.got = [i \in 1..n + 1 |-> <<g.text, i>>]
  <2>1. g.got = [i \in DOMAIN g.got |-> g.got[i]]
    BY <1>5
  <2> HIDE DEF n
  <2> QED BY <1>5, <1>7, <2>1
<1>9. ReadsOwn(g)
  BY <1>3, <1>5, <1>8 DEF ReadsOwn, Own
<1> QED BY <1>5, <1>9
LEMMA InitFits == ReadersInit => ReadersIInv
<1> SUFFICES ASSUME ReadersInit PROVE ReadersIInv
  OBVIOUS
<1>1. sources = << >> /\ fast = NoSource /\ files = << >> /\ stack = << >> /\ calls = 0
  BY DEF ReadersInit
<1>2. DOMAIN stack = {} /\ DOMAIN sources = {} /\ DOMAIN files = {} /\ Len(stack) = 0
  BY <1>1
<1>3. MaxReaders \in Nat \ {0} /\ MaxCalls \in Nat
  BY ReadersAssumption
<1>4. StackOK(stack)
  <2>1. stack \in Seq(Frame)
    BY <1>1
  <2> QED BY <1>2, <1>3, <2>1 DEF StackOK
<1>5. SourcesOK(sources)
  <2>1. sources \in Seq(StringSource)
    BY <1>1
  <2> QED BY <1>2, <2>1 DEF SourcesOK
<1>6. Backed(sources, stack) /\ Served(sources, stack)
  BY <1>2 DEF Backed, Served
<1>7. FilesOK(fast, files, stack)
  <2>1. files \in [DOMAIN files -> [text : LoadFile, read : Nat]]
    BY <1>1, <1>2
  <2> QED BY <1>1, <1>2, <2>1 DEF FilesOK
<1>8. calls \in 0..MaxCalls
  BY <1>1, <1>3
<1> QED BY <1>4, <1>5, <1>6, <1>7, <1>8 DEF ReadersIInv, Fits

LEMMA TypeFits ==
    ASSUME Fits(sources, fast, files, stack), Type
    PROVE  Fits(sources', fast', files', stack')
<1>1. stack = << >> /\ Len(stack) <= MaxReaders
  BY ReadersAssumption DEF Type
<1>2. PICK text \in Command : RouteCommand(text, stack)
  BY DEF Type
<1> QED BY <1>1, <1>2, CommandFits

LEMMA EndOfTextFits ==
    ASSUME Fits(sources, fast, files, stack), EndOfText
    PROVE  Fits(sources', fast', files', stack')
<1> DEFINE g == [Running EXCEPT !.phase = "parsed"]
<1>1. /\ stack # << >> /\ Running.phase = "reading" /\ stack' = <<g>> \o Tail(stack)
      /\ sources' = sources /\ fast' = fast /\ files' = files
  BY DEF EndOfText, Reading, Become
<1>2. StackOK(stack) /\ Running \in Frame
  BY <1>1, RunningIs DEF Fits
<1>3. /\ g \in Frame /\ Same(g, Running) /\ g.got = Running.got /\ g.phase = "parsed"
      /\ g.kind = Running.kind
  BY <1>2 DEF Frame, Same
<1>4. Open(g) <=> Open(Running)
  BY <1>1, <1>3 DEF Open
<1> HIDE DEF g
<1> QED BY <1>1, <1>3, <1>4, UpdateSame

LEMMA NextCommandFits ==
    ASSUME Fits(sources, fast, files, stack), NextCommand
    PROVE  Fits(sources', fast', files', stack')
<1> DEFINE f == Running
           i == Len(f.got) + 1
           g == [f EXCEPT !.got = Append(@, <<f.text, i>>)]
           h == [f EXCEPT !.phase = "parsed"]
<1>1. /\ stack # << >> /\ f.kind = "batch*"
      /\ \/ /\ i <= Size[f.text] /\ RouteCommand(CommandOf(f.text, i), <<g>> \o Tail(stack))
         \/ /\ stack' = <<h>> \o Tail(stack)
            /\ sources' = sources /\ fast' = fast /\ files' = files
  BY DEF NextCommand, Reading, Become
<1>2. StackOK(stack) /\ f \in Frame /\ f.text \in TextOf(f.kind) /\ f = stack[1]
  BY <1>1, RunningIs DEF Fits
<1>3. f.text \in BatchFile /\ f.text \in AnyText
  BY <1>1, <1>2 DEF TextOf, AnyText
<1>4. f.got \in Seq(AnyText \X Nat) /\ i \in Nat /\ i >= 1
  BY <1>2 DEF Frame
<1>5. g \in Frame /\ Same(g, f) /\ g.kind = "batch*" /\ g.phase = f.phase
  <2>1. Append(f.got, <<f.text, i>>) \in Seq(AnyText \X Nat)
    BY <1>3, <1>4
  <2> HIDE DEF i
  <2> QED BY <1>1, <1>2, <2>1 DEF Frame, Same
<1>6. h \in Frame /\ Same(h, f) /\ h.kind = "batch*"
  BY <1>1, <1>2 DEF Frame, Same
<1>7. ~Open(f) /\ ~Open(g) /\ ~Open(h)
  BY <1>1, <1>5, <1>6 DEF Open
<1> HIDE DEF g, h
<1>8. CASE i <= Size[f.text] /\ RouteCommand(CommandOf(f.text, i), <<g>> \o Tail(stack))
  <2> DEFINE b == <<g>> \o Tail(stack)
  <2>1. Fits(sources, fast, files, b) /\ Alike(b)
    BY <1>1, <1>5, <1>7, UpdateSame
  <2>2. Depth <= MaxReaders
    <3>1. Depth \in Nat /\ MaxReaders \in Nat /\ Depth <= MaxReaders + 1 /\ Depth # MaxReaders + 1
      BY <1>1, <1>2, RunningIs, ReadersAssumption DEF StackOK, Depth
    <3> QED BY <3>1
  <2>3. Len(b) <= MaxReaders
    BY <2>1, <2>2 DEF Alike
  <2>4. CommandOf(f.text, i) \in Command
    <3>1. Size[f.text] \in Nat
      BY <1>3, TextsAre
    <3>2. i \in 1..Size[f.text]
      BY <1>4, <1>8, <3>1
    <3> HIDE DEF i
    <3> QED BY <1>3, <3>2, ReadersAssumption
  <2> HIDE DEF b, i
  <2> QED BY <1>8, <2>1, <2>3, <2>4, CommandFits DEF b
<1>9. CASE stack' = <<h>> \o Tail(stack) /\ sources' = sources /\ fast' = fast /\ files' = files
  BY <1>1, <1>6, <1>7, <1>9, UpdateSame
<1> QED BY <1>1, <1>8, <1>9

LEMMA CallNowFits ==
    ASSUME Fits(sources, fast, files, stack), CallNow
    PROVE  Fits(sources', fast', files', stack')
<1> DEFINE g == [Running EXCEPT !.now = << >>]
           b == <<g>> \o Tail(stack)
<1>1. /\ stack # << >> /\ Running.now # << >>
      /\ \/ Depth < MaxReaders /\ Start(Running.now, b)
         \/ stack' = b /\ sources' = sources /\ fast' = fast /\ files' = files
  BY DEF CallNow
<1>2. StackOK(stack) /\ Running \in Frame
  BY <1>1, RunningIs DEF Fits
<1>3. /\ g \in Frame /\ Same(g, Running) /\ g.got = Running.got /\ g.phase = Running.phase
      /\ g.kind = Running.kind
  BY <1>2 DEF Frame, Same
<1>4. Open(g) <=> Open(Running)
  BY <1>3 DEF Open
<1>5. Running.now \in Calls
  BY <1>1, <1>2 DEF Frame
<1> HIDE DEF g
<1>6. Fits(sources, fast, files, b) /\ Alike(b)
  BY <1>1, <1>3, <1>4, UpdateSame
<1> HIDE DEF b
<1>7. Len(b) = Depth
  BY <1>6 DEF Alike
<1> QED BY <1>1, <1>5, <1>6, <1>7, StartFits

LEMMA CallLaterFits ==
    ASSUME Fits(sources, fast, files, stack), CallLater
    PROVE  Fits(sources', fast', files', stack')
<1> DEFINE g == [Running EXCEPT !.later = Tail(@)]
           b == <<g>> \o Tail(stack)
<1>1. /\ stack # << >> /\ Running.later # << >>
      /\ \/ Depth < MaxReaders /\ Start(Head(Running.later), b)
         \/ stack' = b /\ sources' = sources /\ fast' = fast /\ files' = files
  BY DEF CallLater
<1>2. StackOK(stack) /\ Running \in Frame
  BY <1>1, RunningIs DEF Fits
<1>3. Running.later \in Seq(Calls)
  BY <1>2 DEF Frame
<1>4. Tail(Running.later) \in Seq(Calls) /\ Head(Running.later) \in Calls
  BY <1>1, <1>3
<1>5. /\ g \in Frame /\ Same(g, Running) /\ g.got = Running.got /\ g.phase = Running.phase
      /\ g.kind = Running.kind
  BY <1>2, <1>4 DEF Frame, Same
<1>6. Open(g) <=> Open(Running)
  BY <1>5 DEF Open
<1> HIDE DEF g
<1>7. Fits(sources, fast, files, b) /\ Alike(b)
  BY <1>1, <1>5, <1>6, UpdateSame
<1> HIDE DEF b
<1>8. Len(b) = Depth
  BY <1>7 DEF Alike
<1> QED BY <1>1, <1>4, <1>7, <1>8, StartFits

LEMMA EndOfParseFits ==
    ASSUME Fits(sources, fast, files, stack), EndOfParse
    PROVE  Fits(sources', fast', files', stack')
<1> DEFINE f == Running
           g == [f EXCEPT !.phase = "evaluating"]
<1>1. /\ stack # << >> /\ f.phase = "parsed" /\ stack' = <<g>> \o Tail(stack)
      /\ sources' = IF f.kind \in {"command", "build"} THEN CloseStringSource(f.name) ELSE sources
      /\ fast' = fast /\ files' = files
  BY DEF EndOfParse, Become
<1>2. /\ StackOK(stack) /\ f \in Frame /\ f = stack[1] /\ 1 \in DOMAIN stack
      /\ SourcesOK(sources) /\ FilesOK(fast, files, stack) /\ Served(sources, stack)
  BY <1>1, RunningIs DEF Fits
<1>3. /\ g \in Frame /\ Same(g, f) /\ g.got = f.got /\ g.phase = "evaluating"
      /\ g.kind = f.kind /\ g.name = f.name /\ g.text = f.text
  BY <1>2 DEF Frame, Same
<1>4. CASE f.kind \in {"command", "build"}
  <2> DEFINE new == CloseStringSource(f.name)
  <2>1. /\ SourcesOK(new)
        /\ \A i \in DOMAIN new : \E k \in DOMAIN sources : new[i] = sources[k]
        /\ \A i \in DOMAIN new : new[i].name # g.name
        /\ \A i \in DOMAIN sources : sources[i].name # g.name =>
              \E k \in DOMAIN new : new[k] = sources[i]
    BY <1>2, <1>3, CloseIs
  <2>2. ~Open(g) /\ Open(f)
    BY <1>1, <1>3, <1>4 DEF Open
  <2>3. g.kind \in {"eval", "build"} => ReadsOwn(g)
    <3>1. f.kind \in {"eval", "build"} => ReadsOwn(f)
      BY <1>2 DEF Served
    <3> QED BY <1>3, <3>1 DEF ReadsOwn, Own
  <2>4. files \in [DOMAIN files -> [text : LoadFile, read : Nat]]
    BY <1>2 DEF FilesOK
  <2>5. Head(stack) = f /\ sources' = new
    BY <1>1, <1>4 DEF Running
  <2> HIDE DEF new, f, g
  <2>6. Same(g, Head(stack)) /\ Open(Head(stack))
    BY <1>3, <2>2, <2>5
  <2>7. Fits(new, fast, files, <<g>> \o Tail(stack))
    BY <1>1, <1>3, <2>1, <2>2, <2>3, <2>4, <2>6, UpdateFits
  <2> QED BY <1>1, <2>5, <2>7
<1>5. CASE f.kind \notin {"command", "build"}
  <2>1. Open(g) <=> Open(f)
    BY <1>3, <1>5 DEF Open
  <2> HIDE DEF g
  <2> QED BY <1>1, <1>3, <1>5, <2>1, UpdateSame
<1> QED BY <1>4, <1>5

LEMMA FinishFits ==
    ASSUME Fits(sources, fast, files, stack), Finish
    PROVE  Fits(sources', fast', files', stack')
<1> DEFINE f == Running
           now == [g \in DOMAIN files \ {f.name} |-> files[g]]
           fst == IF f.kind = "load" THEN NoSource ELSE fast
           T == Tail(stack)
<1>1. /\ stack # << >> /\ f.phase = "evaluating" /\ stack' = T
      /\ sources' = IF f.kind = "eval" THEN CloseStringSource(f.name) ELSE sources
      /\ fast' = fst /\ files' = now
  BY DEF Finish
<1>2. /\ StackOK(stack) /\ stack \in Seq(Frame) /\ f \in Frame /\ f = stack[1]
      /\ SourcesOK(sources) /\ FilesOK(fast, files, stack) /\ Head(stack) = f
  BY <1>1, RunningIs DEF Fits, Running
<1>3. /\ Len(stack) \in Nat /\ Len(stack) >= 1 /\ DOMAIN stack = 1..Len(stack)
      /\ DOMAIN T = 1..(Len(stack) - 1)
      /\ \A i \in 1..(Len(stack) - 1) : T[i] = stack[i + 1]
  BY <1>1, <1>2, TopIs
<1>4. Open(f) <=> f.kind = "eval"
  BY <1>1 DEF Open
<1>5. FilesOK(fst, now, T)
  <2>1. now \in [DOMAIN now -> [text : LoadFile, read : Nat]] /\ DOMAIN now = DOMAIN files \ {f.name}
    BY <1>2 DEF FilesOK
  <2>2. ASSUME NEW g \in DOMAIN now PROVE \E j \in DOMAIN T : T[j].kind = "load" /\ T[j].name = g
    <3>1. PICK j \in DOMAIN stack : stack[j].kind = "load" /\ stack[j].name = g
      BY <1>2, <2>1 DEF FilesOK
    <3>2. j # 1
      BY <1>2, <2>1, <3>1
    <3>3. j - 1 \in 1..(Len(stack) - 1) /\ (j - 1) + 1 = j
      BY <1>3, <3>2
    <3>4. T[j - 1] = stack[j]
      BY <1>3, <3>3
    <3> QED BY <1>3, <3>1, <3>3, <3>4
  <2>3. fst \in DOMAIN now \cup {NoSource}
    <3>1. CASE f.kind = "load"
      BY <3>1
    <3>2. CASE f.kind # "load"
      <4>1. fast \in DOMAIN files \cup {NoSource}
        BY <1>2 DEF FilesOK
      <4>2. CASE fast \in DOMAIN files
        <5>1. \E n \in Nat : fast = <<"file", n>>
          BY <1>2, <4>2, FileIsLoad
        <5>2. f.kind # "batch*" => \A n \in Nat : f.name # <<"file", n>>
          BY <1>1, <1>2, <3>2, RunningIs
        <5>3. f.kind = "batch*" => f.name = NoSource
          <6>1. 1 \in DOMAIN stack
            BY <1>3
          <6>2. stack[1].name = NameAt(stack, 1)
            BY <1>2, <6>1 DEF StackOK
          <6>3. stack[1].kind = "batch*" => NameAt(stack, 1) = NoSource
            BY DEF NameAt
          <6> QED BY <1>2, <6>2, <6>3
        <5>4. f.name # fast
          BY <5>1, <5>2, <5>3, NamesDiffer
        <5> QED BY <2>1, <3>2, <4>2, <5>4
      <4> QED BY <3>2, <4>1, <4>2
    <3> QED BY <3>1, <3>2
  <2> HIDE DEF T, now, fst
  <2> QED BY <2>1, <2>2, <2>3 DEF FilesOK
<1> HIDE DEF now, fst
<1>6. CASE f.kind = "eval"
  <2> DEFINE new == CloseStringSource(f.name)
  <2>1. /\ SourcesOK(new)
        /\ \A i \in DOMAIN new : \E k \in DOMAIN sources : new[i] = sources[k]
        /\ \A i \in DOMAIN new : new[i].name # f.name
        /\ \A i \in DOMAIN sources : sources[i].name # f.name =>
              \E k \in DOMAIN new : new[k] = sources[i]
    BY <1>2, CloseIs
  <2>2. Open(Head(stack)) /\ sources' = new
    BY <1>1, <1>2, <1>4, <1>6
  <2> HIDE DEF new, f
  <2>3. Fits(new, fst, now, Tail(stack))
    BY <1>1, <1>2, <1>5, <2>1, <2>2, PopFits
  <2> QED BY <1>1, <2>2, <2>3
<1>7. CASE f.kind # "eval"
  <2>1. ~Open(Head(stack)) /\ sources' = sources
    BY <1>1, <1>2, <1>4, <1>7
  <2>2. Fits(sources, fst, now, Tail(stack))
    BY <1>1, <1>2, <1>5, <2>1, PopFits
  <2> QED BY <1>1, <2>1, <2>2
<1> QED BY <1>6, <1>7
\* A part is read: from its own source, if it is eval or build that reads.
LEMMA ReadPartFits ==
    ASSUME Fits(sources, fast, files, stack), NEW call \in {<< >>} \cup Calls, ReadPart(call)
    PROVE  Fits(sources', fast', files', stack')
<1> DEFINE f == Running
           name == f.name
           part == NextPart(name)
           s == Source(name)
           atOnce == part[1] \in Construct \cup LoadFile
           g == [f EXCEPT
                   !.got = Append(@, part),
                   !.now = IF atOnce THEN call ELSE << >>,
                   !.later = IF atOnce \/ call = << >> THEN @ ELSE Append(@, call),
                   !.phase = IF f.kind # "load" /\ part[2] = Size[part[1]] THEN "parsed" ELSE @]
           r == FindStringRouter(name)
<1>1. /\ stack # << >> /\ f.phase = "reading" /\ f.kind # "batch*"
      /\ Known(name) /\ s.read # Size[s.text]
      /\ stack' = <<g>> \o Tail(stack) /\ fast' = fast /\ Advance(name)
  BY DEF ReadPart, Reading, Become, AtEnd
<1>2. /\ StackOK(stack) /\ SourcesOK(sources) /\ FilesOK(fast, files, stack)
      /\ Backed(sources, stack) /\ Served(sources, stack)
  BY DEF Fits
<1>3. /\ f \in Frame /\ f = stack[1] /\ 1 \in DOMAIN stack
      /\ name \in SourceName /\ name # NoSource
      /\ f.kind = "load" => \E n \in Nat : name = <<"file", n>>
      /\ f.kind \notin {"load", "batch*"} => \A n \in Nat : name # <<"file", n>>
  BY <1>1, <1>2, RunningIs
<1>4. Head(stack) = f
  BY DEF Running
<1>5. part = <<s.text, s.read + 1>>
  BY DEF NextPart
<1>6. CASE name = fast
  <2>1. s = files[name] /\ name \in DOMAIN files
    BY <1>2, <1>3, <1>6 DEF Source, FilesOK
  <2>2. files \in [DOMAIN files -> [text : LoadFile, read : Nat]]
    BY <1>2 DEF FilesOK
  <2>3. s.text \in LoadFile /\ s.read \in Nat
    BY <2>1, <2>2
  <2>4. part \in AnyText \X Nat /\ s.text \in AnyText
    BY <1>5, <2>3 DEF AnyText, Parsed
  <2>5. /\ files' = [files EXCEPT ![name].read = @ + 1] /\ sources' = sources
    BY <1>1, <1>6 DEF Advance
  <2>6. files' \in [DOMAIN files -> [text : LoadFile, read : Nat]]
    BY <2>1, <2>2, <2>5
  <2>7. f.kind = "load"
    <3>1. \E n \in Nat : name = <<"file", n>>
      BY <1>2, <2>1, FileIsLoad
    <3> QED BY <1>1, <1>3, <3>1
  <2> HIDE DEF part, s
  <2>8. g \in Frame /\ Same(g, f)
    <3>1. f.got \in Seq(AnyText \X Nat) /\ f.later \in Seq(Calls) /\ f.now \in {<< >>} \cup Calls
      BY <1>3 DEF Frame
    <3>2. Append(f.got, part) \in Seq(AnyText \X Nat)
      BY <2>4, <3>1
    <3>3. call # << >> => Append(f.later, call) \in Seq(Calls)
      BY <3>1
    <3> HIDE DEF atOnce
    <3> QED BY <1>3, <3>1, <3>2, <3>3 DEF Frame, Same
  <2> HIDE DEF g, f, name
  <2>9. g.kind = "load" /\ ~Open(g) /\ ~Open(Head(stack)) /\ Same(g, Head(stack))
    BY <1>4, <2>7, <2>8 DEF Open, Same
  <2>10. Fits(sources, fast, files', <<g>> \o Tail(stack))
    BY <1>1, <1>2, <2>6, <2>8, <2>9, UpdateFits
  <2> QED BY <1>1, <2>5, <2>10
<1>7. CASE name # fast
  <2>1. r \in DOMAIN sources /\ sources[r].name = name /\ r # 0
    <3>1. r # 0
      BY <1>1, <1>7 DEF Known
    <3> QED BY <1>2, <3>1, FindIs
  <2>2. s = sources[r]
    BY <1>7 DEF Source
  <2>3. sources[r] \in StringSource
    BY <1>2, <2>1 DEF SourcesOK
  <2>4. s.text \in AnyText /\ s.read \in Nat
    BY <2>2, <2>3 DEF StringSource, AnyText
  <2>5. part \in AnyText \X Nat
    BY <1>5, <2>4
  <2> DEFINE new == [sources EXCEPT ![r].read = @ + 1]
  <2>6. sources' = new /\ files' = files
    BY <1>1, <1>7 DEF Advance
  <2>7. f.kind \in {"command", "eval", "build"}
    <3>1. f.kind # "load"
      BY <1>2, <1>3, <2>1, NoFileIsAString
    <3>2. f.kind \in Kinds
      BY <1>3 DEF Frame
    <3> QED BY <1>1, <3>1, <3>2 DEF Kinds
  <2>8. /\ g \in Frame /\ Same(g, f) /\ g.kind = f.kind /\ g.name = name /\ g.text = f.text
        /\ g.got = Append(f.got, part) /\ g.phase \in {"reading", "parsed"}
    <3> HIDE DEF part, s
    <3>1. f.got \in Seq(AnyText \X Nat) /\ f.later \in Seq(Calls) /\ f.now \in {<< >>} \cup Calls
      BY <1>3 DEF Frame
    <3>2. Append(f.got, part) \in Seq(AnyText \X Nat)
      BY <2>5, <3>1
    <3>3. call # << >> => Append(f.later, call) \in Seq(Calls)
      BY <3>1
    <3> HIDE DEF atOnce
    <3> QED BY <1>1, <1>3, <3>1, <3>2, <3>3 DEF Frame, Same
  <2>9. Open(f) /\ Open(g)
    BY <1>1, <2>7, <2>8 DEF Open
  <2>10. /\ SourcesOK(new) /\ DOMAIN new = DOMAIN sources
         /\ new[r] = [name |-> name, text |-> sources[r].text, read |-> sources[r].read + 1]
         /\ \A i \in DOMAIN sources : sources[i].name # name => new[i] = sources[i]
         /\ \A i \in DOMAIN sources : new[i].name = sources[i].name /\ new[i].text = sources[i].text
    <3>1. sources[r].read # Size[sources[r].text]
      BY <1>1, <2>2
    <3> QED BY <1>2, <2>1, <3>1, AdvanceIs
  <2>11. ASSUME f.kind \in {"eval", "build"} PROVE ReadsOwn(g) /\ HasSource(new, g)
    <3>1. ReadsOwn(f) /\ HasSource(sources, f)
      BY <1>2, <1>3, <2>9, <2>11 DEF Served
    <3>2. PICK i \in DOMAIN sources :
            sources[i] = [name |-> f.name, text |-> f.text, read |-> Len(f.got)]
      BY <3>1 DEF HasSource
    <3>3. i = r
      BY <1>2, <2>1, <3>2 DEF SourcesOK
    <3>4. s.text = f.text /\ s.read = Len(f.got)
      BY <2>2, <3>2, <3>3
    <3>5. Len(f.got) # Size[f.text] /\ part = <<f.text, Len(f.got) + 1>>
      BY <1>1, <1>5, <3>4
    <3>6. g.got = Append(f.got, <<f.text, Len(f.got) + 1>>)
      BY <2>8, <3>5
    <3>7. ReadsOwn(g) /\ Len(g.got) = Len(f.got) + 1
      BY <1>3, <2>8, <3>1, <3>5, <3>6, OwnGrows
    <3>8. new[r] = [name |-> g.name, text |-> g.text, read |-> Len(g.got)]
      BY <2>2, <2>8, <2>10, <3>4, <3>7
    <3> QED BY <2>1, <2>10, <3>7, <3>8 DEF HasSource
  <2>12. files \in [DOMAIN files -> [text : LoadFile, read : Nat]]
    BY <1>2 DEF FilesOK
  <2> HIDE DEF g, new, r
  <2>13. Same(g, Head(stack)) /\ Open(Head(stack))
    BY <1>4, <2>8, <2>9
  <2> HIDE DEF f, name
  <2>14. \A i \in DOMAIN sources : sources[i].name # g.name => new[i] = sources[i] /\ i \in DOMAIN new
    BY <2>8, <2>10
  <2>15. \A i \in DOMAIN new : i \in DOMAIN sources /\ new[i].name = sources[i].name
                                                   /\ new[i].text = sources[i].text
    BY <2>10
  <2>16. g.kind \in {"eval", "build"} => ReadsOwn(g) /\ HasSource(new, g)
    BY <2>8, <2>11
  <2>17. SourcesOK(new)
    BY <2>10
  <2>18. \A i \in DOMAIN sources : ~(Open(Head(stack)) /\ sources[i].name = g.name) =>
            \E k \in DOMAIN new : new[k] = sources[i]
    BY <2>13, <2>14
  <2>19. Fits(new, fast, files, <<g>> \o Tail(stack))
    BY <1>1, <2>8, <2>9, <2>12, <2>13, <2>15, <2>16, <2>17, <2>18, UpdateFits
  <2> QED BY <1>1, <2>6, <2>19
<1> QED BY <1>6, <1>7

-----------------------------------------------------------------------------
(* Theorems.                                                               *)

LEMMA StepFits == ReadersIInv /\ [ReadersNext]_readerVars => ReadersIInv'
<1> SUFFICES ASSUME ReadersIInv, [ReadersNext]_readerVars PROVE ReadersIInv'
  OBVIOUS
<1>1. Fits(sources, fast, files, stack) /\ calls \in 0..MaxCalls /\ MaxCalls \in Nat
  BY ReadersAssumption DEF ReadersIInv
<1>2. CASE Type
  <2>1. calls' = 0
    BY <1>2 DEF Type
  <2> QED BY <1>1, <1>2, <2>1, TypeFits DEF ReadersIInv
<1>3. CASE ReadPart(<< >>)
  <2>1. calls' = calls
    BY <1>1, <1>3 DEF ReadPart
  <2> QED BY <1>1, <1>3, <2>1, ReadPartFits DEF ReadersIInv
<1>4. CASE EndOfText
  BY <1>1, <1>4, EndOfTextFits DEF ReadersIInv, EndOfText
<1>5. CASE NextCommand
  BY <1>1, <1>5, NextCommandFits DEF ReadersIInv, NextCommand
<1>6. CASE CallNow
  BY <1>1, <1>6, CallNowFits DEF ReadersIInv, CallNow
<1>7. CASE EndOfParse
  BY <1>1, <1>7, EndOfParseFits DEF ReadersIInv, EndOfParse
<1>8. CASE CallLater
  BY <1>1, <1>8, CallLaterFits DEF ReadersIInv, CallLater
<1>9. CASE Finish
  BY <1>1, <1>9, FinishFits DEF ReadersIInv, Finish
<1>10. CASE calls < MaxCalls /\ \E call \in Calls : ReadPart(call)
  <2>1. PICK call \in Calls : ReadPart(call)
    BY <1>10
  <2>2. calls' \in 0..MaxCalls
    BY <1>1, <1>10, <2>1 DEF ReadPart
  <2>3. Fits(sources', fast', files', stack')
    BY <1>1, <2>1, ReadPartFits
  <2> QED BY <2>2, <2>3 DEF ReadersIInv
<1>11. CASE UNCHANGED readerVars
  BY <1>1, <1>11 DEF ReadersIInv, readerVars
<1> QED BY <1>2, <1>3, <1>4, <1>5, <1>6, <1>7, <1>8, <1>9, <1>10, <1>11 DEF ReadersNext, Go

LEMMA InvFollows == ReadersIInv => ReadersInv
<1> SUFFICES ASSUME ReadersIInv PROVE ReadersInv
  OBVIOUS
<1>1. /\ StackOK(stack) /\ SourcesOK(sources) /\ FilesOK(fast, files, stack)
      /\ Backed(sources, stack) /\ Served(sources, stack)
      /\ calls \in 0..MaxCalls /\ MaxCalls \in Nat
  BY ReadersAssumption DEF ReadersIInv, Fits
<1>2. stack \in Seq(Frame) /\ DOMAIN stack = 1..Depth /\ Depth \in Nat
  BY <1>1 DEF StackOK, Depth
<1>3. ReadersTypeOK
  <2>1. ASSUME NEW i \in DOMAIN sources
        PROVE  sources[i].text \in Parsed /\ sources[i].read \in 0..Size[sources[i].text]
    <3>1. sources[i] \in StringSource /\ sources[i].read <= Size[sources[i].text]
      BY <1>1 DEF SourcesOK
    <3>2. sources[i].text \in Parsed /\ sources[i].text \in AnyText /\ sources[i].read \in Nat
      BY <3>1 DEF StringSource, AnyText
    <3>3. Size[sources[i].text] \in Nat
      BY <3>2, TextsAre
    <3> QED BY <3>1, <3>2, <3>3
  <2>2. fast \in DOMAIN files \cup {NoSource}
    BY <1>1 DEF FilesOK
  <2>3. Depth <= MaxReaders + 1 /\ calls <= MaxCalls
    BY <1>1 DEF StackOK, Depth
  <2> QED BY <2>1, <2>2, <2>3 DEF ReadersTypeOK
<1>4. EvalReadsItsOwn
  <2> SUFFICES ASSUME NEW i \in 1..Depth, stack[i].kind \in {"eval", "build"}
               PROVE  IsPrefix(stack[i].got, Own(stack[i], Size[stack[i].text]))
    BY DEF EvalReadsItsOwn
  <2> DEFINE f == stack[i]
             n == Len(f.got)
             t == Own(f, Size[f.text])
  <2>1. f \in Frame
    BY <1>2
  <2>2. f.got \in Seq(AnyText \X Nat) /\ f.text \in AnyText /\ n \in Nat
    BY <2>1 DEF Frame
  <2>3. Size[f.text] \in Nat
    BY <2>2, TextsAre
  <2>4. n <= Size[f.text] /\ f.got = Own(f, n)
    BY <1>1, <1>2 DEF Served, ReadsOwn
  <2>5. /\ t \in Seq(AnyText \X Nat) /\ Len(t) = Size[f.text]
        /\ \A j \in 1..Size[f.text] : t[j] = <<f.text, j>>
    BY <2>2, <2>3 DEF Own
  <2>6. \A j \in 1..n : f.got[j] = <<f.text, j>>
    BY <2>4 DEF Own
  <2> HIDE DEF t, n, f
  <2>7. SubSeq(f.got, 1, n) = SubSeq(t, 1, n)
    <3> DEFINE S == AnyText \X Nat
               p == SubSeq(f.got, 1, n)
               q == SubSeq(t, 1, n)
    <3>0. Len(f.got) = n
      BY DEF n
    <3> HIDE DEF S
    <3>1. p \in Seq(S) /\ Len(p) = n /\ \A j \in 1..n : p[j] = f.got[j]
      BY <2>2, <3>0 DEF S
    <3>2. q \in Seq(S) /\ Len(q) = n /\ \A j \in 1..n : q[j] = t[j]
      BY <2>2, <2>3, <2>4, <2>5 DEF S
    <3>3. \A j \in 1..n : j \in 1..Size[f.text]
      BY <2>2, <2>3, <2>4
    <3> HIDE DEF p, q
    <3>4. \A j \in 1..n : p[j] = q[j]
      BY <2>5, <2>6, <3>1, <3>2, <3>3
    <3>5. p = q
      BY <3>1, <3>2, <3>4
    <3> QED BY <3>5 DEF p, q
  <2> QED BY <2>4, <2>5, <2>7 DEF IsPrefix, t, n, f
<1>5. SourcesHaveReaders
  <2>1. ASSUME NEW i \in DOMAIN sources
        PROVE  \E j \in 1..Depth : stack[j].name = sources[i].name /\ stack[j].text = sources[i].text
    BY <1>1, <1>2 DEF Backed
  <2>2. \A i, j \in DOMAIN sources : sources[i].name = sources[j].name => i = j
    BY <1>1 DEF SourcesOK
  <2>3. ASSUME stack = << >> PROVE fast = NoSource /\ DOMAIN files = {}
    <3>1. DOMAIN stack = {}
      BY <2>3
    <3>2. DOMAIN files = {}
      BY <1>1, <3>1 DEF FilesOK
    <3> QED BY <1>1, <3>2 DEF FilesOK
  <2> QED BY <2>1, <2>2, <2>3 DEF SourcesHaveReaders
<1> QED BY <1>3, <1>4, <1>5 DEF ReadersInv

\* However eval, build, load, batch* and commands nest, eval and build read
\* their own text only, each source belongs to one that still reads, and none
\* is left when the commands are done (strngrtr.c, strngfun.c, cstrcpsr.c).
THEOREM ReadersHold == ReadersSpec => []ReadersInv
<1>1. ReadersInit => ReadersIInv
  BY InitFits
<1>2. ReadersIInv /\ [ReadersNext]_readerVars => ReadersIInv'
  BY StepFits
<1>3. ReadersIInv => ReadersInv
  BY InvFollows
<1> QED BY <1>1, <1>2, <1>3, PTL DEF ReadersSpec
LEMMA StepReadsAll ==
    ReadersIInv /\ [ReadersNext]_readerVars =>
       [Reading /\ Running.kind \in {"eval", "build"} /\ stack'[1].phase = "parsed"
          /\ Depth = Len(stack') => stack'[1].got = Own(Running, Size[Running.text])]_readerVars
<1> SUFFICES ASSUME ReadersIInv, ReadersNext, Reading, Running.kind \in {"eval", "build"},
                    stack'[1].phase = "parsed"
             PROVE  stack'[1].got = Own(Running, Size[Running.text])
  OBVIOUS
<1> DEFINE f == Running
           name == f.name
           r == FindStringRouter(name)
<1>1. /\ StackOK(stack) /\ SourcesOK(sources) /\ FilesOK(fast, files, stack)
      /\ Backed(sources, stack) /\ Served(sources, stack)
  BY DEF ReadersIInv, Fits
<1>2. stack # << >> /\ f.phase = "reading" /\ f.now = << >>
  BY DEF Reading
<1>3. /\ stack \in Seq(Frame) /\ f \in Frame /\ f = stack[1] /\ 1 \in DOMAIN stack
      /\ \A n \in Nat : name # <<"file", n>>
      /\ name # NoSource
  BY <1>1, <1>2, RunningIs
<1>4. Open(f)
  BY <1>2 DEF Open
<1>5. ReadsOwn(f) /\ HasSource(sources, f)
  BY <1>1, <1>3, <1>4 DEF Served
<1>6. PICK i \in DOMAIN sources :
        sources[i] = [name |-> f.name, text |-> f.text, read |-> Len(f.got)]
  BY <1>5 DEF HasSource
<1>7. name # fast
  <2>1. fast \in DOMAIN files => name # fast
    BY <1>1, <1>3, FileIsLoad
  <2> QED BY <1>1, <1>3, <2>1 DEF FilesOK
<1>8. r # 0 /\ i = r
  <2>1. r # 0
    BY <1>1, <1>6, FindIs
  <2>2. r \in DOMAIN sources /\ sources[r].name = name
    BY <1>1, <2>1, FindIs
  <2>3. sources[i].name = sources[r].name
    BY <1>6, <2>2
  <2> QED BY <1>1, <2>1, <2>2, <2>3 DEF SourcesOK
<1>9. Source(name).text = f.text /\ Source(name).read = Len(f.got) /\ Known(name)
  BY <1>6, <1>7, <1>8 DEF Source, Known
<1>10. f.got \in Seq(AnyText \X Nat) /\ f.text \in AnyText /\ Tail(stack) \in Seq(Frame)
  BY <1>2, <1>3, TopIs DEF Frame
<1>11. \A g : (<<g>> \o Tail(stack))[1] = g
  BY <1>10
<1>12. CASE EndOfText
  <2> DEFINE g == [f EXCEPT !.phase = "parsed"]
  <2>1. stack' = <<g>> \o Tail(stack) /\ AtEnd(name)
    BY <1>12 DEF EndOfText, Become
  <2>2. Len(f.got) = Size[f.text]
    BY <1>9, <2>1 DEF AtEnd
  <2>3. g.got = f.got
    BY <1>3 DEF Frame
  <2>4. stack'[1] = g
    BY <1>11, <2>1
  <2> QED BY <1>5, <2>2, <2>3, <2>4 DEF ReadsOwn
<1>13. ASSUME NEW call, ReadPart(call) PROVE stack'[1].got = Own(f, Size[f.text])
  <2> DEFINE part == NextPart(name)
             atOnce == part[1] \in Construct \cup LoadFile
             now == IF atOnce THEN call ELSE << >>
             later == IF atOnce \/ call = << >> THEN f.later ELSE Append(f.later, call)
             phase == IF f.kind # "load" /\ part[2] = Size[part[1]] THEN "parsed" ELSE f.phase
             g == [f EXCEPT !.got = Append(@, part), !.now = now, !.later = later, !.phase = phase]
  <2>1. stack' = <<g>> \o Tail(stack) /\ ~AtEnd(name)
    BY <1>13 DEF ReadPart, Become
  <2>2. part = <<f.text, Len(f.got) + 1>>
    BY <1>9 DEF NextPart
  <2>3. stack'[1] = g
    BY <1>11, <2>1
  <2> HIDE DEF part, now, later, atOnce
  <2>4. g.got = Append(f.got, part) /\ g.phase = phase
    BY <1>3 DEF Frame
  <2> HIDE DEF g, f
  <2>5. part[2] = Size[part[1]]
    BY <1>2, <2>3, <2>4
  <2>6. Size[f.text] = Len(f.got) + 1
    BY <2>2, <2>5
  <2>7. f.got = Own(f, Len(f.got)) /\ Len(f.got) \in Nat
    BY <1>5, <1>10 DEF ReadsOwn
  <2> DEFINE n == Len(f.got)
  <2>8. \A k \in 1..n : f.got[k] = <<f.text, k>>
    BY <2>7 DEF Own
  <2>9. /\ Append(f.got, part) \in Seq(AnyText \X Nat) /\ Len(Append(f.got, part)) = n + 1
        /\ \A k \in 1..n : Append(f.got, part)[k] = f.got[k]
        /\ Append(f.got, part)[n + 1] = <<f.text, n + 1>>
    BY <1>10, <2>2, <2>7
  <2> DEFINE h == Append(f.got, part)
  <2> HIDE DEF h
  <2>10. ASSUME NEW k \in 1..n + 1 PROVE h[k] = <<f.text, k>>
    <3>1. CASE k = n + 1
      BY <2>9, <3>1 DEF h
    <3>2. CASE k # n + 1
      <4>1. k \in 1..n
        BY <2>7, <3>2
      <4> QED BY <2>8, <2>9, <4>1 DEF h
    <3> QED BY <3>1, <3>2
  <2>11. h = [k \in 1..n + 1 |-> <<f.text, k>>]
    <3>1. h = [k \in DOMAIN h |-> h[k]] /\ DOMAIN h = 1..n + 1
      BY <2>7, <2>9 DEF h
    <3> HIDE DEF n
    <3> QED BY <2>10, <3>1
  <2> QED BY <2>3, <2>4, <2>6, <2>11 DEF Own, h
<1>14. ~Type /\ ~NextCommand /\ ~CallNow /\ ~EndOfParse /\ ~CallLater /\ ~Finish
  BY <1>2 DEF Type, NextCommand, CallNow, EndOfParse, CallLater, Finish
<1> QED BY <1>12, <1>13, <1>14 DEF ReadersNext, Go

\* What eval and build go on with is their whole text: no reader that came in
\* between has taken any of it, or closed its source early.
THEOREM AllIsRead == ReadersSpec => EvalReadsAll
<1>1. ReadersInit => ReadersIInv
  BY InitFits
<1>2. ReadersIInv /\ [ReadersNext]_readerVars => ReadersIInv'
  BY StepFits
<1> QED BY <1>1, <1>2, StepReadsAll, PTL DEF ReadersSpec, EvalReadsAll

-----------------------------------------------------------------------------
(* ROUTERS.                                                                *)

-----------------------------------------------------------------------------
(* The list of routers.                                                    *)

\* Which routers there are follows from whether there is a dribble file and
\* whether there are batch files.
Listed(dribble, batch) ==
    IF dribble /\ batch
    THEN <<"dribble", "batch", "socketio", "stringBuilder", "string", "fileio">>
    ELSE IF dribble THEN <<"dribble", "socketio", "stringBuilder", "string", "fileio">>
    ELSE IF batch THEN <<"batch", "socketio", "stringBuilder", "string", "fileio">>
    ELSE <<"socketio", "stringBuilder", "string", "fileio">>

LEMMA SameSequence ==
    ASSUME NEW S, NEW s \in Seq(S), NEW t \in Seq(S), Len(s) = Len(t),
           \A i \in 1..Len(s) : s[i] = t[i]
    PROVE  s = t
BY SMTT(30)

\* In front of the first whose priority is no higher, when k of them go before it.
LEMMA AddRouterIs ==
    ASSUME NEW list \in Seq(RouterName), NEW r \in RouterName, NEW k \in 0..Len(list),
           \A i \in DOMAIN list : Priority(r) < Priority(list[i]) <=> i <= k
    PROVE  AddRouter(list, r) = IF Contains(list, r) THEN list ELSE InsertAt(list, k + 1, r)
<1>1. {i \in DOMAIN list : Priority(r) < Priority(list[i])} = 1..k
  OBVIOUS
<1>2. Cardinality(1..k) = k
  BY FS_Interval
<1> QED BY <1>1, <1>2 DEF AddRouter

LEMMA PlaceIs ==
    ASSUME NEW list \in Seq(RouterName), NEW k \in 1..Len(list),
           \A i \in 1..Len(list) : i # k => list[i] # list[k]
    PROVE  PlaceOf(list, list[k]) = k
<1>1. {i \in 1..Len(list) : list[i] = list[k]} = {k}
  OBVIOUS
<1>2. Min({k}) = k
  <2>1. {k} \subseteq Nat /\ {k} # {}
    OBVIOUS
  <2> QED BY <2>1, MinIs
<1> QED BY <1>1, <1>2 DEF PlaceOf, SelectInSeq

Standing == {"socketio", "stringBuilder", "string", "fileio"}

LEMMA ListedIs ==
    ASSUME NEW d \in BOOLEAN, NEW b \in BOOLEAN
    PROVE  /\ Listed(d, b) \in Seq(RouterName)
           /\ Len(Listed(d, b)) = IF d /\ b THEN 6 ELSE IF d \/ b THEN 5 ELSE 4
           /\ Contains(Listed(d, b), "dribble") <=> d
           /\ Contains(Listed(d, b), "batch") <=> b
           /\ \A r \in Standing : Contains(Listed(d, b), r)
<1>1. Listed(d, b) \in Seq(RouterName)
  <2>1. /\ <<"dribble", "batch", "socketio", "stringBuilder", "string", "fileio">> \in Seq(RouterName)
        /\ <<"dribble", "socketio", "stringBuilder", "string", "fileio">> \in Seq(RouterName)
        /\ <<"batch", "socketio", "stringBuilder", "string", "fileio">> \in Seq(RouterName)
        /\ <<"socketio", "stringBuilder", "string", "fileio">> \in Seq(RouterName)
    BY DEF RouterName
  <2> QED BY <2>1 DEF Listed
<1>2. Len(Listed(d, b)) = IF d /\ b THEN 6 ELSE IF d \/ b THEN 5 ELSE 4
  BY DEF Listed
<1>3. Contains(Listed(d, b), "dribble") <=> d
  BY DEF Listed, Contains
<1>4. Contains(Listed(d, b), "batch") <=> b
  BY DEF Listed, Contains
<1>5. ASSUME NEW r \in Standing PROVE Contains(Listed(d, b), r)
  <2> DEFINE n == Len(Listed(d, b))
  <2>1. /\ n \in 4..6
        /\ \A i \in 0..3 : n - i \in 1..n
        /\ Listed(d, b)[n] = "fileio" /\ Listed(d, b)[n - 1] = "string"
        /\ Listed(d, b)[n - 2] = "stringBuilder" /\ Listed(d, b)[n - 3] = "socketio"
    BY <1>2 DEF Listed
  <2> QED BY <2>1 DEF Contains, Standing
<1> QED BY <1>1, <1>2, <1>3, <1>4, <1>5

LEMMA RouterInserted ==
    ASSUME NEW list \in Seq(RouterName), NEW r \in RouterName, NEW n \in 1..(Len(list) + 1)
    PROVE  /\ InsertAt(list, n, r) \in Seq(RouterName)
           /\ Len(InsertAt(list, n, r)) = Len(list) + 1
           /\ \A j \in 1..(Len(list) + 1) : InsertAt(list, n, r)[j] =
                     IF j < n THEN list[j] ELSE IF j = n THEN r ELSE list[j - 1]
BY InsertAtProperties

LEMMA InsertIs ==
    ASSUME NEW list \in Seq(RouterName), NEW r \in RouterName, NEW k \in 0..Len(list),
           NEW t \in Seq(RouterName), Len(t) = Len(list) + 1, t[k + 1] = r,
           \A i \in 1..k : t[i] = list[i], \A i \in (k + 2)..Len(t) : t[i] = list[i - 1]
    PROVE  InsertAt(list, k + 1, r) = t
<1>1. k + 1 \in 1..(Len(list) + 1)
  OBVIOUS
<1> DEFINE s == InsertAt(list, k + 1, r)
<1>2. /\ s \in Seq(RouterName) /\ Len(s) = Len(list) + 1
      /\ \A j \in 1..(Len(list) + 1) :
           s[j] = IF j < k + 1 THEN list[j] ELSE IF j = k + 1 THEN r ELSE list[j - 1]
  BY <1>1, RouterInserted
<1> HIDE DEF s
<1>3. ASSUME NEW i \in 1..Len(s) PROVE s[i] = t[i]
  <2>1. i \in 1..k \/ i = k + 1 \/ i \in (k + 2)..Len(t)
    BY <1>2
  <2>2. CASE i \in 1..k
    BY <1>2, <2>2
  <2>3. CASE i = k + 1
    BY <1>2, <2>3
  <2>4. CASE i \in (k + 2)..Len(t)
    <3>1. ~(i < k + 1) /\ i # k + 1
      BY <2>4
    <3> QED BY <1>2, <2>4, <3>1
  <2> QED BY <2>1, <2>2, <2>3, <2>4
<1>4. s = t
  BY <1>2, <1>3, SameSequence
<1> QED BY <1>4 DEF s

LEMMA RemoveIs ==
    ASSUME NEW list \in Seq(RouterName), NEW k \in 1..Len(list),
           NEW t \in Seq(RouterName), Len(t) = Len(list) - 1,
           \A i \in 1..(k - 1) : t[i] = list[i], \A i \in k..Len(t) : t[i] = list[i + 1]
    PROVE  RemoveAt(list, k) = t
<1> DEFINE s == RemoveAt(list, k)
<1>2. /\ s \in Seq(RouterName) /\ Len(s) = Len(list) - 1
      /\ \A j \in 1..(Len(list) - 1) : s[j] = IF j < k THEN list[j] ELSE list[j + 1]
  BY RemoveAtProperties
<1> HIDE DEF s
<1>3. ASSUME NEW i \in 1..Len(s) PROVE s[i] = t[i]
  <2>1. i \in 1..(k - 1) \/ i \in k..Len(t)
    BY <1>2
  <2> QED BY <1>2, <2>1
<1>4. s = t
  BY <1>2, <1>3, SameSequence
<1> QED BY <1>4 DEF s

LEMMA DribbleJoins ==
    ASSUME NEW b \in BOOLEAN
    PROVE  AddRouter(Listed(FALSE, b), "dribble") = Listed(TRUE, b)
<1> DEFINE list == Listed(FALSE, b)
<1>1. list \in Seq(RouterName) /\ ~Contains(list, "dribble") /\ Listed(TRUE, b) \in Seq(RouterName)
  BY ListedIs
<1>2. \A i \in DOMAIN list : Priority(list[i]) <= 20 /\ Priority(list[i]) \in Nat
  BY DEF Listed, Priority
<1>3. "dribble" \in RouterName /\ Priority("dribble") = 40
  BY DEF RouterName, Priority
<1>4. /\ Len(Listed(TRUE, b)) = Len(list) + 1 /\ Listed(TRUE, b)[1] = "dribble"
      /\ \A i \in 2..Len(Listed(TRUE, b)) : Listed(TRUE, b)[i] = list[i - 1]
  BY DEF Listed
<1> HIDE DEF list
<1>5. AddRouter(list, "dribble") = InsertAt(list, 0 + 1, "dribble")
  <2>1. \A i \in DOMAIN list : Priority("dribble") < Priority(list[i]) <=> i <= 0
    BY <1>1, <1>2, <1>3
  <2> QED BY <1>1, <1>3, <2>1, AddRouterIs
<1>6. InsertAt(list, 0 + 1, "dribble") = Listed(TRUE, b)
  <2> DEFINE t == Listed(TRUE, b)
  <2>1. /\ 0 \in 0..Len(list) /\ t[0 + 1] = "dribble"
        /\ \A i \in 1..0 : t[i] = list[i]
        /\ \A i \in (0 + 2)..Len(t) : t[i] = list[i - 1]
    <3>1. Len(list) \in Nat /\ 0 + 1 = 1 /\ 0 + 2 = 2
      BY <1>1
    <3>2. t[1] = "dribble" /\ \A i \in 2..Len(t) : t[i] = list[i - 1]
      BY <1>4
    <3>3. \A i \in 1..0 : FALSE
      OBVIOUS
    <3> HIDE DEF t
    <3> QED BY <3>1, <3>2, <3>3
  <2> HIDE DEF t
  <2>2. t \in Seq(RouterName) /\ Len(t) = Len(list) + 1
    BY <1>1, <1>4 DEF t
  <2>3. InsertAt(list, 0 + 1, "dribble") = t
    BY <1>1, <1>3, <2>1, <2>2, InsertIs
  <2> QED BY <2>3 DEF t
<1> QED BY <1>5, <1>6 DEF list

LEMMA BatchJoins ==
    ASSUME NEW d \in BOOLEAN
    PROVE  AddRouter(Listed(d, FALSE), "batch") = Listed(d, TRUE)
<1> DEFINE list == Listed(d, FALSE)
           k == IF d THEN 1 ELSE 0
<1>1. list \in Seq(RouterName) /\ ~Contains(list, "batch") /\ Listed(d, TRUE) \in Seq(RouterName)
  BY ListedIs
<1>2. \A i \in DOMAIN list : 20 < Priority(list[i]) <=> i <= k
  BY DEF Listed, Priority
<1>3. "batch" \in RouterName /\ Priority("batch") = 20 /\ k \in 0..Len(list)
  BY DEF RouterName, Priority, Listed
<1>4. /\ Len(Listed(d, TRUE)) = Len(list) + 1 /\ Listed(d, TRUE)[k + 1] = "batch"
      /\ \A i \in 1..k : Listed(d, TRUE)[i] = list[i]
      /\ \A i \in (k + 2)..Len(Listed(d, TRUE)) : Listed(d, TRUE)[i] = list[i - 1]
  BY DEF Listed
<1> HIDE DEF list, k
<1>5. AddRouter(list, "batch") = InsertAt(list, k + 1, "batch")
  BY <1>1, <1>2, <1>3, AddRouterIs
<1>6. InsertAt(list, k + 1, "batch") = Listed(d, TRUE)
  BY <1>1, <1>3, <1>4, InsertIs
<1> QED BY <1>5, <1>6 DEF list

LEMMA DribbleLeaves ==
    ASSUME NEW d \in BOOLEAN, NEW b \in BOOLEAN
    PROVE  DeleteRouter(Listed(d, b), "dribble") = Listed(FALSE, b)
<1>1. CASE ~d
  BY <1>1, ListedIs DEF DeleteRouter
<1>2. CASE d
  <2> DEFINE list == Listed(TRUE, b)
             t == Listed(FALSE, b)
  <2>1. list \in Seq(RouterName) /\ t \in Seq(RouterName) /\ Contains(list, "dribble")
    BY ListedIs
  <2>2. /\ 1 \in 1..Len(list) /\ list[1] = "dribble" /\ Len(t) = Len(list) - 1
        /\ \A i \in 1..Len(list) : i # 1 => list[i] # list[1]
        /\ \A i \in 1..Len(t) : t[i] = list[i + 1]
    BY DEF Listed
  <2> HIDE DEF list, t
  <2>3. PlaceOf(list, "dribble") = 1
    BY <2>1, <2>2, PlaceIs
  <2>4. RemoveAt(list, 1) = t
    BY <2>1, <2>2, RemoveIs
  <2> QED BY <1>2, <2>1, <2>3, <2>4 DEF list, t, DeleteRouter
<1> QED BY <1>1, <1>2

LEMMA BatchLeaves ==
    ASSUME NEW d \in BOOLEAN, NEW b \in BOOLEAN
    PROVE  DeleteRouter(Listed(d, b), "batch") = Listed(d, FALSE)
<1>1. CASE ~b
  BY <1>1, ListedIs DEF DeleteRouter
<1>2. CASE b
  <2> DEFINE list == Listed(d, TRUE)
             t == Listed(d, FALSE)
             k == IF d THEN 2 ELSE 1
  <2>1. list \in Seq(RouterName) /\ t \in Seq(RouterName) /\ Contains(list, "batch")
    BY ListedIs
  <2>2. /\ k \in 1..Len(list) /\ list[k] = "batch" /\ Len(t) = Len(list) - 1
        /\ \A i \in 1..Len(list) : i # k => list[i] # list[k]
        /\ \A i \in 1..(k - 1) : t[i] = list[i]
        /\ \A i \in k..Len(t) : t[i] = list[i + 1]
    BY DEF Listed
  <2> HIDE DEF list, t, k
  <2>3. PlaceOf(list, "batch") = k
    BY <2>1, <2>2, PlaceIs
  <2>4. RemoveAt(list, k) = t
    BY <2>1, <2>2, RemoveIs
  <2> QED BY <1>2, <2>1, <2>3, <2>4 DEF list, t, DeleteRouter
<1> QED BY <1>1, <1>2

\* Who is asked after r.
LEMMA NextIs ==
    ASSUME NEW d \in BOOLEAN, NEW b \in BOOLEAN
    PROVE  LET next(r) == NextRouter(Listed(d, b), r) IN
           /\ d => next("dribble") = IF b THEN "batch" ELSE "socketio"
           /\ b => next("batch") = "socketio"
           /\ next("socketio") = "stringBuilder" /\ next("stringBuilder") = "string"
           /\ next("string") = "fileio" /\ next("fileio") = Nothing
<1> DEFINE list == Listed(d, b)
<1>1. list \in Seq(RouterName) /\ Len(list) \in 4..6
  BY ListedIs
<1>2. ASSUME NEW i \in 1..Len(list), NEW j \in 1..Len(list), i # j PROVE list[i] # list[j]
  BY <1>2 DEF Listed
<1>3. ASSUME NEW i \in 1..Len(list)
      PROVE  NextRouter(list, list[i]) = IF i < Len(list) THEN list[i + 1] ELSE Nothing
  <2>1. PlaceOf(list, list[i]) = i
    <3> HIDE DEF list
    <3> QED BY <1>1, <1>2, PlaceIs
  <2> QED BY <2>1 DEF NextRouter
<1>4. ASSUME NEW r, NEW i \in 1..Len(list), r = list[i]
      PROVE  NextRouter(list, r) = IF i < Len(list) THEN list[i + 1] ELSE Nothing
  BY <1>3, <1>4
<1>5. d => NextRouter(list, "dribble") = IF b THEN "batch" ELSE "socketio"
  <2>1. d => 1 \in 1..Len(list) /\ list[1] = "dribble" /\ 1 < Len(list)
             /\ list[2] = IF b THEN "batch" ELSE "socketio"
    BY DEF Listed
  <2> HIDE DEF list
  <2> QED BY <1>4, <2>1
<1>6. b => NextRouter(list, "batch") = "socketio"
  <2> DEFINE k == IF d THEN 2 ELSE 1
  <2>1. b => k \in 1..Len(list) /\ list[k] = "batch" /\ k < Len(list) /\ list[k + 1] = "socketio"
    BY DEF Listed
  <2> HIDE DEF list, k
  <2> QED BY <1>4, <2>1
<1>7. /\ NextRouter(list, "socketio") = "stringBuilder"
      /\ NextRouter(list, "stringBuilder") = "string"
      /\ NextRouter(list, "string") = "fileio" /\ NextRouter(list, "fileio") = Nothing
  <2> DEFINE n == Len(list)
  <2>1. /\ n - 3 \in 1..n /\ n - 3 < n /\ list[n - 3] = "socketio"
        /\ n - 2 \in 1..n /\ n - 2 < n /\ list[n - 2] = "stringBuilder"
        /\ n - 1 \in 1..n /\ n - 1 < n /\ list[n - 1] = "string"
        /\ n \in 1..n /\ ~(n < n) /\ list[n] = "fileio"
        /\ (n - 3) + 1 = n - 2 /\ (n - 2) + 1 = n - 1 /\ (n - 1) + 1 = n
    BY DEF Listed
  <2> HIDE DEF list, n
  <2> QED BY <1>4, <2>1 DEF n
<1> QED BY <1>5, <1>6, <1>7

\* One after the other, the default routers come to stand in this order.
LEMMA DefaultIs == DefaultRouters = Listed(FALSE, FALSE)
<1> DEFINE l1 == <<"fileio">>
           l2 == <<"string", "fileio">>
           l3 == <<"stringBuilder", "string", "fileio">>
<1>1. ASSUME NEW list \in Seq(Standing), NEW r \in Standing, ~Contains(list, r),
             NEW t \in Seq(Standing), Len(t) = Len(list) + 1, t[1] = r,
             \A i \in 2..Len(t) : t[i] = list[i - 1]
      PROVE  AddRouter(list, r) = t
  <2>1. list \in Seq(RouterName) /\ r \in RouterName /\ t \in Seq(RouterName)
    BY DEF Standing, RouterName
  <2>2. \A i \in DOMAIN list : Priority(r) < Priority(list[i]) <=> i <= 0
    BY DEF Standing, Priority
  <2>3. AddRouter(list, r) = InsertAt(list, 0 + 1, r)
    BY <1>1, <2>1, <2>2, AddRouterIs
  <2>4. /\ 0 \in 0..Len(list) /\ t[0 + 1] = r
        /\ \A i \in 1..0 : t[i] = list[i]
        /\ \A i \in (0 + 2)..Len(t) : t[i] = list[i - 1]
    BY <1>1
  <2> QED BY <1>1, <2>1, <2>3, <2>4, InsertIs
<1> DEFINE l4 == <<"socketio", "stringBuilder", "string", "fileio">>
<1>2. /\ << >> \in Seq(Standing) /\ l1 \in Seq(Standing) /\ l2 \in Seq(Standing) /\ l3 \in Seq(Standing)
      /\ l4 \in Seq(Standing)
      /\ "fileio" \in Standing /\ "string" \in Standing /\ "stringBuilder" \in Standing
      /\ "socketio" \in Standing
  BY DEF Standing
<1>3. /\ ~Contains(<< >>, "fileio") /\ ~Contains(l1, "string") /\ ~Contains(l2, "stringBuilder")
      /\ ~Contains(l3, "socketio")
  BY DEF Contains
<1>4. AddRouter(<< >>, "fileio") = l1
  <2>1. Len(l1) = Len(<< >>) + 1 /\ l1[1] = "fileio" /\ \A i \in 2..Len(l1) : l1[i] = << >>[i - 1]
    OBVIOUS
  <2> HIDE DEF l1
  <2> QED BY <1>1, <1>2, <1>3, <2>1
<1>5. AddRouter(l1, "string") = l2
  <2>1. Len(l2) = Len(l1) + 1 /\ l2[1] = "string" /\ \A i \in 2..Len(l2) : l2[i] = l1[i - 1]
    OBVIOUS
  <2> HIDE DEF l1, l2
  <2> QED BY <1>1, <1>2, <1>3, <2>1
<1>6. AddRouter(l2, "stringBuilder") = l3
  <2>1. /\ Len(l3) = Len(l2) + 1 /\ l3[1] = "stringBuilder"
        /\ \A i \in 2..Len(l3) : l3[i] = l2[i - 1]
    OBVIOUS
  <2> HIDE DEF l2, l3
  <2> QED BY <1>1, <1>2, <1>3, <2>1
<1>7. AddRouter(l3, "socketio") = l4
  <2>1. Len(l4) = Len(l3) + 1 /\ l4[1] = "socketio" /\ \A i \in 2..Len(l4) : l4[i] = l3[i - 1]
    OBVIOUS
  <2> HIDE DEF l3, l4
  <2> QED BY <1>1, <1>2, <1>3, <2>1
<1> HIDE DEF l1, l2, l3
<1> QED BY <1>4, <1>5, <1>6, <1>7 DEF DefaultRouters, Listed
-----------------------------------------------------------------------------
(* The inductive invariant.                                                *)

BatchEntry == [file : File, left : Seq(Char)]

Memory ==
    [routers : Seq(RouterName), files : SUBSET Name, sockets : SUBSET Name,
     batch : Seq(BatchEntry), echo : Seq(Char), console : Seq(Char),
     dribble : {"off", "on", "closed"}, copy : Seq(Char), buffer : Seq(Char),
     awaiting : BOOLEAN, char : Char \cup {Nothing},
     taken : [File \cup {Nothing} -> Seq(Char)], shown : Seq(Char), late : BOOLEAN]

ListOK(M) == M.routers = Listed(M.dribble # "off", M.batch # << >>)

\* Each batch file once, and all of them opened; the last one leaves no line behind.
BatchOK(M, opened) ==
    /\ \A i \in DOMAIN M.batch : M.batch[i].file \in opened
    /\ \A i, j \in DOMAIN M.batch : M.batch[i].file = M.batch[j].file => i = j
    /\ M.batch = << >> => M.echo = << >>

\* What was taken and what is left make up the whole.
TakenOK(M, opened) ==
    /\ M.taken[Nothing] \o M.console = Console
    /\ \A i \in DOMAIN M.batch : M.taken[M.batch[i].file] \o M.batch[i].left = Text[M.batch[i].file]
    /\ \A f \in File \ opened : M.taken[f] = << >>

\* A batch file that is no longer there was read to its end.
AllRead(M, opened) ==
    \A f \in opened : (\A i \in DOMAIN M.batch : M.batch[i].file # f) => M.taken[f] = Text[f]

Sound(M, opened) == M \in Memory /\ ListOK(M) /\ BatchOK(M, opened) /\ TakenOK(M, opened)

\* What is in the dribble file or on its way there.
Copied(M) == M.copy \o M.buffer

\* exit has passed by those in front of the router that comes next.
Closed ==
    /\ m.dribble = "on" <=> due = "dribble"
    /\ due \notin {"dribble", "batch"} => m.batch = << >>
    /\ due \notin {"dribble", "batch", "socketio"} => m.sockets = {}
    /\ session = "over" => m.files = {}

RoutersIInv ==
    /\ Sound(m, used) /\ used \subseteq File
    /\ session \in {"loop", "command", "readline", "exit", "over"}
    /\ due \in RouterName \cup {Nothing}
    /\ session = "exit" <=> due # Nothing
    /\ session = "exit" => Contains(m.routers, due)
    /\ outputs \in 0..MaxOutput /\ split \in BOOLEAN
    /\ session = "command" => ~m.awaiting
    /\ m.dribble = "closed" => session \in {"exit", "over"}
    /\ session \notin {"exit", "over"} => AllRead(m, used)
    /\ TranscriptIsSession
    /\ session \in {"exit", "over"} => Closed
    /\ m.dribble = "closed" /\ ~split /\ ~m.late => m.copy = m.shown

-----------------------------------------------------------------------------
(* Output.                                                                 *)

LEMMA DribblesIs ==
    ASSUME NEW M, ListOK(M)
    PROVE  /\ Dribbles(M) <=> M.dribble # "off"
           /\ Contains(M.routers, "batch") <=> M.batch # << >>
BY ListedIs DEF ListOK, Dribbles

\* What goes to the dribble router changes nothing else.
SameInput(M, N) ==
    /\ N.routers = M.routers /\ N.files = M.files /\ N.sockets = M.sockets
    /\ N.batch = M.batch /\ N.echo = M.echo /\ N.console = M.console
    /\ N.dribble = M.dribble /\ N.awaiting = M.awaiting /\ N.char = M.char
    /\ N.taken = M.taken

LEMMA PutcCopies ==
    ASSUME NEW M \in Memory, NEW chars \in Seq(Char)
    PROVE  LET N == PutcDribbleBuffer(M, chars) IN
           /\ N \in Memory /\ SameInput(M, N) /\ N.shown = M.shown
           /\ M.dribble # "closed" => Copied(N) = Copied(M) \o chars /\ N.late = M.late
           /\ M.dribble = "closed" => N.copy = M.copy /\ N.buffer = M.buffer /\ N.late
<1> DEFINE N == PutcDribbleBuffer(M, chars)
<1>1. /\ M.copy \in Seq(Char) /\ M.buffer \in Seq(Char) /\ M.copy \o M.buffer \in Seq(Char)
      /\ M.buffer \o chars \in Seq(Char) /\ (M.copy \o M.buffer) \o chars \in Seq(Char)
  BY DEF Memory
<1>2. CASE M.dribble = "closed"
  <2>1. N = [M EXCEPT !.late = TRUE]
    BY <1>2 DEF PutcDribbleBuffer
  <2> HIDE DEF N
  <2>2. N \in Memory
    BY <2>1 DEF Memory
  <2>3. SameInput(M, N) /\ N.shown = M.shown /\ N.copy = M.copy /\ N.buffer = M.buffer /\ N.late
    BY <2>1 DEF Memory, SameInput
  <2> QED BY <1>2, <2>2, <2>3 DEF N
<1>3. CASE M.dribble # "closed" /\ M.awaiting
  <2>1. N = [M EXCEPT !.buffer = @ \o chars]
    BY <1>3 DEF PutcDribbleBuffer
  <2> HIDE DEF N
  <2>2. N \in Memory
    BY <1>1, <2>1 DEF Memory
  <2>3. /\ SameInput(M, N) /\ N.shown = M.shown /\ N.copy = M.copy /\ N.late = M.late
        /\ N.buffer = M.buffer \o chars
    BY <2>1 DEF Memory, SameInput
  <2>4. Copied(N) = Copied(M) \o chars
    <3>1. (M.copy \o M.buffer) \o chars = M.copy \o (M.buffer \o chars)
      <4> DEFINE a == M.copy
                 b == M.buffer
      <4>1. a \in Seq(Char) /\ b \in Seq(Char)
        BY <1>1
      <4> HIDE DEF a, b
      <4>2. (a \o b) \o chars = a \o (b \o chars)
        BY <4>1, ConcatAssociative
      <4> QED BY <4>2 DEF a, b
    <3> QED BY <2>3, <3>1 DEF Copied
  <2> QED BY <1>3, <2>2, <2>3, <2>4 DEF N
<1>4. CASE M.dribble # "closed" /\ ~M.awaiting
  <2> DEFINE c == (M.copy \o M.buffer) \o chars
  <2>1. N = [M EXCEPT !.copy = c, !.buffer = << >>]
    BY <1>4 DEF PutcDribbleBuffer, Memory
  <2>5. c \in Seq(Char) /\ << >> \in Seq(Char)
    BY <1>1
  <2> HIDE DEF N, c
  <2>2. N \in Memory
    BY <2>1, <2>5 DEF Memory
  <2>3. /\ SameInput(M, N) /\ N.shown = M.shown /\ N.late = M.late
        /\ N.copy = c /\ N.buffer = << >>
    BY <2>1 DEF Memory, SameInput
  <2>4. Copied(N) = Copied(M) \o chars
    BY <2>3, <2>5, ConcatEmptySeq DEF Copied, c
  <2> QED BY <1>4, <2>2, <2>3, <2>4 DEF N
<1> QED BY <1>2, <1>3, <1>4

\* What is written to stdout is shown, and copied but for the dribble router's own.
LEMMA WriteStringShows ==
    ASSUME NEW M \in Memory, ListOK(M), NEW chars \in Seq(Char), NEW aside \in BOOLEAN
    PROVE  LET N == WriteString(M, chars, aside) IN
           /\ N \in Memory /\ SameInput(M, N)
           /\ N.shown = IF M.dribble = "off" THEN M.shown ELSE M.shown \o chars
           /\ aside \/ M.dribble = "off" =>
                N.copy = M.copy /\ N.buffer = M.buffer /\ N.late = M.late
           /\ ~aside /\ M.dribble = "on" => Copied(N) = Copied(M) \o chars /\ N.late = M.late
           /\ ~aside /\ M.dribble = "closed" => N.copy = M.copy /\ N.buffer = M.buffer /\ N.late
<1> DEFINE P == IF Dribbles(M) /\ ~aside THEN PutcDribbleBuffer(M, chars) ELSE M
           N == WriteString(M, chars, aside)
<1>1. Dribbles(M) <=> M.dribble # "off"
  BY DribblesIs
<1>2. /\ P \in Memory /\ SameInput(M, P) /\ P.shown = M.shown
      /\ aside \/ M.dribble = "off" =>
           P.copy = M.copy /\ P.buffer = M.buffer /\ P.late = M.late
      /\ ~aside /\ M.dribble = "on" => Copied(P) = Copied(M) \o chars /\ P.late = M.late
      /\ ~aside /\ M.dribble = "closed" => P.copy = M.copy /\ P.buffer = M.buffer /\ P.late
  <2>1. CASE Dribbles(M) /\ ~aside
    BY <1>1, <2>1, PutcCopies
  <2>2. CASE ~(Dribbles(M) /\ ~aside)
    <3>1. P = M
      BY <2>2
    <3> HIDE DEF P
    <3> QED BY <1>1, <2>2, <3>1 DEF SameInput
  <2> QED BY <2>1, <2>2
<1>3. N = [P EXCEPT !.shown = IF M.dribble = "off" THEN @ ELSE @ \o chars]
  BY DEF WriteString
<1> HIDE DEF P, N
<1>4. M.shown \in Seq(Char) /\ M.shown \o chars \in Seq(Char)
  BY DEF Memory
<1>5. /\ N \in Memory /\ SameInput(P, N) /\ N.copy = P.copy /\ N.buffer = P.buffer
      /\ N.late = P.late /\ N.shown = IF M.dribble = "off" THEN M.shown ELSE M.shown \o chars
  <2>1. N \in Memory
    BY <1>2, <1>3, <1>4 DEF Memory
  <2>2. /\ SameInput(P, N) /\ N.copy = P.copy /\ N.buffer = P.buffer /\ N.late = P.late
        /\ N.shown = IF M.dribble = "off" THEN M.shown ELSE M.shown \o chars
    <3>1. N.shown = IF M.dribble = "off" THEN P.shown ELSE P.shown \o chars
      BY <1>2, <1>3 DEF Memory
    <3>2. /\ SameInput(P, N) /\ N.copy = P.copy /\ N.buffer = P.buffer /\ N.late = P.late
      BY <1>2, <1>3 DEF SameInput, Memory
    <3> QED BY <1>2, <3>1, <3>2
  <2> QED BY <2>1, <2>2
<1>6. SameInput(M, N)
  BY <1>2, <1>5 DEF SameInput
<1>7. Copied(N) = Copied(P)
  BY <1>5 DEF Copied
<1> QED BY <1>2, <1>5, <1>6, <1>7 DEF N

LEMMA SameInputSound ==
    ASSUME NEW M, NEW N \in Memory, NEW opened, SameInput(M, N)
    PROVE  /\ ListOK(M) => ListOK(N)
           /\ Sound(M, opened) => Sound(N, opened)
           /\ AllRead(M, opened) => AllRead(N, opened)
BY DEF SameInput, Sound, ListOK, BatchOK, TakenOK, AllRead
-----------------------------------------------------------------------------
(* Input.                                                                  *)

LEMMA TakeFirst ==
    ASSUME NEW s \in Seq(Char), NEW t \in Seq(Char), t # << >>
    PROVE  /\ Head(t) \in Char /\ Tail(t) \in Seq(Char) /\ Append(s, Head(t)) \in Seq(Char)
           /\ Append(s, Head(t)) \o Tail(t) = s \o t
<1> DEFINE h == <<Head(t)>>
           r == Tail(t)
<1>1. Head(t) \in Char /\ r \in Seq(Char) /\ h \in Seq(Char) /\ Append(s, Head(t)) \in Seq(Char)
  OBVIOUS
<1>2. Append(s, Head(t)) = s \o h
  BY <1>1, AppendIsConcat
<1>3. h \o r = t
  OBVIOUS
<1> HIDE DEF h, r
<1>4. (s \o h) \o r = s \o (h \o r)
  BY <1>1, ConcatAssociative
<1> QED BY <1>1, <1>2, <1>3, <1>4 DEF r

LEMMA AppendMoves ==
    ASSUME NEW s \in Seq(Char), NEW t \in Seq(Char), NEW c \in Char
    PROVE  s \o Append(t, c) = Append(s \o t, c) /\ Append(s \o t, c) = (s \o t) \o <<c>>
<1>1. s \o t \in Seq(Char) /\ <<c>> \in Seq(Char)
  OBVIOUS
<1>2. Append(t, c) = t \o <<c>> /\ Append(s \o t, c) = (s \o t) \o <<c>>
  BY <1>1, AppendIsConcat
<1>3. (s \o t) \o <<c>> = s \o (t \o <<c>>)
  BY <1>1, ConcatAssociative
<1> QED BY <1>2, <1>3

LiveIn(batch) == SelectInSeq(batch, LAMBDA b : b.left # << >>)

LEMMA LiveIs ==
    ASSUME NEW batch \in Seq(BatchEntry)
    PROVE  \/ /\ LiveIn(batch) = 0 /\ \A i \in DOMAIN batch : batch[i].left = << >>
           \/ /\ LiveIn(batch) \in DOMAIN batch /\ batch[LiveIn(batch)].left # << >>
              /\ \A i \in DOMAIN batch : i < LiveIn(batch) => batch[i].left = << >>
<1> DEFINE T == {i \in 1..Len(batch) : batch[i].left # << >>}
<1>1. LiveIn(batch) = IF T # {} THEN Min(T) ELSE 0
  BY DEF LiveIn, SelectInSeq
<1>2. T \subseteq Nat /\ DOMAIN batch = 1..Len(batch)
  OBVIOUS
<1>3. CASE T = {}
  BY <1>1, <1>2, <1>3
<1>4. CASE T # {}
  <2>1. Min(T) \in T /\ \A u \in T : Min(T) <= u
    <3> HIDE DEF T
    <3> QED BY <1>2, <1>4, MinIs
  <2>2. ASSUME NEW i \in DOMAIN batch, i < Min(T) PROVE batch[i].left = << >>
    <3>1. i \notin T
      <4>1. i \in Nat /\ Min(T) \in Nat /\ ~(Min(T) <= i)
        <5> DEFINE least == Min(T)
        <5>1. i \in Nat /\ least \in Nat /\ i < least
          <6>1. T \subseteq Nat /\ DOMAIN batch \subseteq Nat
            BY <1>2
          <6> HIDE DEF T
          <6> QED BY <2>1, <2>2, <6>1
        <5> HIDE DEF least
        <5>2. ~(least <= i)
          BY <5>1
        <5> QED BY <5>1, <5>2 DEF least
      <4> HIDE DEF T
      <4> QED BY <2>1, <4>1
    <3> QED BY <1>2, <3>1
  <2> QED BY <1>1, <1>2, <1>4, <2>1, <2>2
<1> QED BY <1>3, <1>4

\* Reading from the batch files and writing to stdout leave these alone.
SameElse(M, N) ==
    /\ N.files = M.files /\ N.sockets = M.sockets /\ N.console = M.console
    /\ N.dribble = M.dribble /\ N.awaiting = M.awaiting

LEMMA SameElseChains ==
    ASSUME NEW M, NEW N, NEW R, SameElse(M, N), SameElse(N, R)
    PROVE  SameElse(M, R)
BY DEF SameElse

\* The line so far is shown.
LEMMA EchoGoes ==
    ASSUME NEW opened, NEW M, Sound(M, opened), NEW aside \in BOOLEAN
    PROVE  LET N == [WriteString(M, M.echo, aside) EXCEPT !.echo = << >>] IN
           /\ Sound(N, opened) /\ SameElse(M, N)
           /\ N.batch = M.batch /\ N.taken = M.taken /\ N.char = M.char /\ N.echo = << >>
           /\ M.dribble = "on" =>
                /\ N.shown = M.shown \o M.echo
                /\ Copied(N) = IF aside THEN Copied(M) ELSE Copied(M) \o M.echo
           /\ M.dribble = "closed" => N.copy = M.copy /\ (N.late \/ (aside /\ N.late = M.late))
<1> DEFINE P == WriteString(M, M.echo, aside)
           N == [P EXCEPT !.echo = << >>]
<1>1. M \in Memory /\ ListOK(M) /\ M.echo \in Seq(Char)
  BY DEF Sound, Memory
<1>2. /\ P \in Memory /\ SameInput(M, P)
      /\ M.dribble = "on" =>
           /\ P.shown = M.shown \o M.echo
           /\ Copied(P) = IF aside THEN Copied(M) ELSE Copied(M) \o M.echo
      /\ M.dribble = "closed" => P.copy = M.copy /\ (P.late \/ (aside /\ P.late = M.late))
  <2>1. /\ P \in Memory /\ SameInput(M, P)
        /\ P.shown = IF M.dribble = "off" THEN M.shown ELSE M.shown \o M.echo
        /\ aside \/ M.dribble = "off" => P.copy = M.copy /\ P.buffer = M.buffer /\ P.late = M.late
        /\ ~aside /\ M.dribble = "on" => Copied(P) = Copied(M) \o M.echo /\ P.late = M.late
        /\ ~aside /\ M.dribble = "closed" => P.copy = M.copy /\ P.buffer = M.buffer /\ P.late
    <3> DEFINE chars == M.echo
    <3>1. chars \in Seq(Char)
      BY <1>1
    <3> HIDE DEF chars
    <3>2. LET W == WriteString(M, chars, aside) IN
           /\ W \in Memory /\ SameInput(M, W)
           /\ W.shown = IF M.dribble = "off" THEN M.shown ELSE M.shown \o chars
           /\ aside \/ M.dribble = "off" =>
                W.copy = M.copy /\ W.buffer = M.buffer /\ W.late = M.late
           /\ ~aside /\ M.dribble = "on" => Copied(W) = Copied(M) \o chars /\ W.late = M.late
           /\ ~aside /\ M.dribble = "closed" => W.copy = M.copy /\ W.buffer = M.buffer /\ W.late
      BY <1>1, <3>1, WriteStringShows
    <3> QED BY <3>2 DEF chars
  <2> HIDE DEF P
  <2>3. CASE aside
    <3>1. P.copy = M.copy /\ P.buffer = M.buffer /\ P.late = M.late
      BY <2>1, <2>3
    <3>2. Copied(P) = Copied(M)
      BY <3>1 DEF Copied
    <3> QED BY <2>1, <2>3, <3>1, <3>2
  <2>4. CASE ~aside
    BY <2>1, <2>4
  <2> QED BY <2>3, <2>4
<1> HIDE DEF P
<1>7. N \in Memory
  <2>1. << >> \in Seq(Char)
    OBVIOUS
  <2> QED BY <1>2, <2>1 DEF Memory
<1>3. /\ N.echo = << >> /\ N.routers = P.routers /\ N.files = P.files
      /\ N.sockets = P.sockets /\ N.batch = P.batch /\ N.console = P.console
      /\ N.dribble = P.dribble /\ N.copy = P.copy /\ N.buffer = P.buffer
      /\ N.awaiting = P.awaiting /\ N.char = P.char /\ N.taken = P.taken
      /\ N.shown = P.shown /\ N.late = P.late
  BY <1>2 DEF Memory
<1> HIDE DEF N
<1>4. SameElse(M, N) /\ N.batch = M.batch /\ N.taken = M.taken /\ N.char = M.char
  BY <1>2, <1>3 DEF SameInput, SameElse
<1>5. Sound(N, opened)
  <2>1. /\ N.routers = M.routers /\ N.batch = M.batch /\ N.taken = M.taken
        /\ N.console = M.console /\ N.dribble = M.dribble /\ N.echo = << >>
    BY <1>2, <1>3 DEF SameInput
  <2>2. ListOK(N) /\ BatchOK(N, opened) /\ TakenOK(N, opened)
    BY <2>1 DEF Sound, ListOK, BatchOK, TakenOK
  <2> QED BY <1>7, <2>2 DEF Sound
<1>6. Copied(N) = Copied(P)
  BY <1>3 DEF Copied
<1> QED BY <1>2, <1>3, <1>4, <1>5, <1>6 DEF N, P

\* At the end of the last batch file its router goes.
LEMMA BatchEnds ==
    ASSUME NEW opened, NEW M, Sound(M, opened), M.echo = << >>,
           \A i \in DOMAIN M.batch : M.batch[i].left = << >>
    PROVE  LET N == [M EXCEPT !.batch = << >>, !.routers = DeleteRouter(@, "batch"),
                              !.char = Nothing] IN
           /\ Sound(N, opened) /\ (AllRead(M, opened) => AllRead(N, opened)) /\ SameElse(M, N)
           /\ N.batch = << >> /\ N.echo = << >> /\ N.char = Nothing
           /\ N.shown = M.shown /\ Copied(N) = Copied(M) /\ N.copy = M.copy /\ N.late = M.late
<1> DEFINE routers == DeleteRouter(M.routers, "batch")
           N == [M EXCEPT !.batch = << >>, !.routers = DeleteRouter(@, "batch"), !.char = Nothing]
<1>1. M \in Memory /\ ListOK(M) /\ BatchOK(M, opened) /\ TakenOK(M, opened)
  BY DEF Sound
<1>2. routers = Listed(M.dribble # "off", FALSE) /\ routers \in Seq(RouterName)
  <2>1. routers = Listed(M.dribble # "off", FALSE)
    BY <1>1, BatchLeaves DEF ListOK
  <2> QED BY <2>1, ListedIs
<1>3. N = [M EXCEPT !.batch = << >>, !.routers = routers, !.char = Nothing]
  BY <1>1 DEF Memory
<1>4. << >> \in Seq(BatchEntry)
  OBVIOUS
<1> HIDE DEF routers, N
<1>5. N \in Memory
  BY <1>1, <1>2, <1>3, <1>4 DEF Memory
<1>6. /\ SameElse(M, N) /\ N.batch = << >> /\ N.echo = << >> /\ N.char = Nothing
      /\ N.routers = routers /\ N.taken = M.taken
      /\ N.shown = M.shown /\ N.copy = M.copy /\ N.buffer = M.buffer /\ N.late = M.late
  BY <1>1, <1>3 DEF Memory, SameElse
<1>7. Sound(N, opened)
  <2>1. ListOK(N)
    BY <1>2, <1>6 DEF ListOK, SameElse
  <2>2. BatchOK(N, opened)
    BY <1>6 DEF BatchOK
  <2>3. TakenOK(N, opened)
    <3>1. DOMAIN N.batch = {}
      BY <1>6
    <3>2. N.taken = M.taken /\ N.console = M.console
      BY <1>6 DEF SameElse
    <3> QED BY <1>1, <3>1, <3>2 DEF TakenOK
  <2> QED BY <1>5, <2>1, <2>2, <2>3 DEF Sound
<1>8. ASSUME AllRead(M, opened) PROVE AllRead(N, opened)
  <2> SUFFICES ASSUME NEW f \in opened PROVE N.taken[f] = Text[f]
    BY DEF AllRead
  <2>1. CASE \A i \in DOMAIN M.batch : M.batch[i].file # f
    BY <1>6, <1>8, <2>1 DEF AllRead
  <2>2. CASE \E i \in DOMAIN M.batch : M.batch[i].file = f
    <3>1. PICK i \in DOMAIN M.batch : M.batch[i].file = f
      BY <2>2
    <3>2. f \in File
      <4>1. M.batch \in Seq(BatchEntry)
        BY <1>1 DEF Memory
      <4>2. M.batch[i] \in BatchEntry
        BY <3>1, <4>1
      <4> QED BY <3>1, <4>2 DEF BatchEntry
    <3>3. M.taken[f] \o << >> = Text[f]
      BY <1>1, <3>1 DEF TakenOK
    <3>4. M.taken[f] \in Seq(Char)
      BY <1>1, <3>2 DEF Memory
    <3>5. M.taken[f] \o << >> = M.taken[f]
      BY <3>4, ConcatEmptySeq
    <3> QED BY <1>6, <3>3, <3>5
  <2> QED BY <2>1, <2>2
<1>9. Copied(N) = Copied(M)
  BY <1>6 DEF Copied
<1> QED BY <1>5, <1>6, <1>7, <1>8, <1>9 DEF N

LEMMA PlaceInRest ==
    ASSUME NEW i \in Nat, NEW k \in Nat, NEW n \in Nat, k <= i, i <= n
    PROVE  i - k + 1 \in 1..(n - k + 1) /\ (i - k + 1) + k - 1 = i
OBVIOUS

LEMMA RestIs ==
    ASSUME NEW S, NEW s \in Seq(S), NEW k \in 1..Len(s)
    PROVE  LET r == SubSeq(s, k, Len(s)) IN
           /\ r \in Seq(S) /\ Len(r) = Len(s) - k + 1 /\ r[1] = s[k]
           /\ \A j \in 1..(Len(s) - k + 1) : r[j] = s[j + k - 1]
<1> DEFINE r == SubSeq(s, k, Len(s))
<1>1. /\ r \in Seq(S) /\ Len(r) = Len(s) - k + 1
      /\ \A j \in 1..(Len(s) - k + 1) : r[j] = s[j + k - 1]
  OBVIOUS
<1>2. 1 \in 1..(Len(s) - k + 1) /\ 1 + k - 1 = k
  OBVIOUS
<1> QED BY <1>1, <1>2

\* The memory when a character was taken from the first of the batch files rest.
Took(M, rest) ==
    LET c == Head(rest[1].left) IN
    [M EXCEPT !.batch = [rest EXCEPT ![1].left = Tail(@)], !.taken[rest[1].file] = Append(@, c),
              !.char = c, !.echo = Append(M.echo, c)]

\* The next character is that of the first batch file which has one left.
LEMMA TakesNext ==
    ASSUME NEW opened \in SUBSET File, NEW M, Sound(M, opened),
           NEW k \in DOMAIN M.batch, M.batch[k].left # << >>,
           \A i \in DOMAIN M.batch : i < k => M.batch[i].left = << >>
    PROVE  LET rest == SubSeq(M.batch, k, Len(M.batch))
               c == Head(rest[1].left)
               R == Took(M, rest)
           IN
           /\ c \in Char /\ Sound(R, opened) /\ (AllRead(M, opened) => AllRead(R, opened))
           /\ SameElse(M, R) /\ R.char = c /\ R.echo = Append(M.echo, c) /\ R.batch # << >>
           /\ R.shown = M.shown /\ R.copy = M.copy /\ R.buffer = M.buffer /\ R.late = M.late
<1> DEFINE rest == SubSeq(M.batch, k, Len(M.batch))
           c == Head(rest[1].left)
           f == M.batch[k].file
           l == M.batch[k].left
           batch == [rest EXCEPT ![1].left = Tail(@)]
           taken == [M.taken EXCEPT ![f] = Append(@, c)]
           line == Append(M.echo, c)
           R == [M EXCEPT !.batch = batch, !.taken[rest[1].file] = Append(@, c), !.char = c,
                          !.echo = line]
           n == Len(M.batch) - k + 1
<1>1. M \in Memory /\ ListOK(M) /\ BatchOK(M, opened) /\ TakenOK(M, opened)
  BY DEF Sound
<1>2. /\ M.batch \in Seq(BatchEntry) /\ M.echo \in Seq(Char)
      /\ M.taken \in [File \cup {Nothing} -> Seq(Char)]
  BY <1>1 DEF Memory
<1>3. /\ k \in Nat /\ k >= 1 /\ n \in Nat /\ n >= 1 /\ k <= Len(M.batch)
      /\ \A j \in 1..n : j + k - 1 \in DOMAIN M.batch /\ (j + k - 1 = k <=> j = 1)
  <2> DEFINE len == Len(M.batch)
  <2>1. len \in Nat /\ DOMAIN M.batch = 1..len /\ k \in 1..len /\ n = len - k + 1
    BY <1>2
  <2> HIDE DEF len, n
  <2>2. k \in Nat /\ k >= 1 /\ n \in Nat /\ n >= 1 /\ k <= len
    BY <2>1
  <2>3. \A j \in 1..n : j + k - 1 \in 1..len /\ (j + k - 1 = k <=> j = 1)
    BY <2>1, <2>2
  <2> QED BY <2>1, <2>2, <2>3 DEF len
<1>4. f \in opened /\ f \in File /\ l \in Seq(Char) /\ M.taken[f] \in Seq(Char)
  <2>1. M.batch[k] \in BatchEntry
    BY <1>2
  <2> QED BY <1>1, <1>2, <2>1 DEF BatchEntry, BatchOK
<1>5. /\ rest \in Seq(BatchEntry) /\ Len(rest) = n /\ rest[1] = M.batch[k]
      /\ \A j \in 1..n : rest[j] = M.batch[j + k - 1]
  <2> DEFINE s == M.batch
  <2>1. /\ s \in Seq(BatchEntry) /\ k \in 1..Len(s)
        /\ rest = SubSeq(s, k, Len(s)) /\ n = Len(s) - k + 1
    BY <1>2
  <2> HIDE DEF s, rest, n
  <2>2. LET r == SubSeq(s, k, Len(s)) IN
        /\ r \in Seq(BatchEntry) /\ Len(r) = Len(s) - k + 1 /\ r[1] = s[k]
        /\ \A j \in 1..(Len(s) - k + 1) : r[j] = s[j + k - 1]
    BY <2>1, RestIs
  <2> QED BY <2>1, <2>2 DEF s
<1> HIDE DEF n
<1>6. c = Head(l) /\ c \in Char /\ Tail(l) \in Seq(Char) /\ line \in Seq(Char)
      /\ Append(M.taken[f], c) \in Seq(Char) /\ Append(M.taken[f], c) \o Tail(l) = M.taken[f] \o l
  <2>1. c = Head(l)
    BY <1>5
  <2>2. l # << >>
    OBVIOUS
  <2> HIDE DEF c, l, f
  <2>3. /\ Head(l) \in Char /\ Tail(l) \in Seq(Char) /\ Append(M.taken[f], Head(l)) \in Seq(Char)
        /\ Append(M.taken[f], Head(l)) \o Tail(l) = M.taken[f] \o l
    BY <1>4, <2>2, TakeFirst
  <2>4. Append(M.echo, Head(l)) \in Seq(Char)
    BY <1>2, <2>3
  <2> QED BY <2>1, <2>3, <2>4
<1> HIDE DEF f, l
<1>7. /\ batch \in Seq(BatchEntry) /\ Len(batch) = n
      /\ batch[1].file = f /\ batch[1].left = Tail(l)
      /\ \A j \in 1..n : j # 1 => batch[j] = M.batch[j + k - 1]
  <2> HIDE DEF rest, n
  <2>1. 1 \in 1..Len(rest) /\ rest[1] \in BatchEntry
    BY <1>3, <1>5
  <2>2. rest[1].file = f /\ rest[1].left = l
    BY <1>5 DEF f, l
  <2> DEFINE e == [rest[1] EXCEPT !.left = Tail(l)]
  <2>3. e \in BatchEntry /\ e.file = f /\ e.left = Tail(l)
    BY <1>6, <2>1, <2>2 DEF BatchEntry
  <2>4. batch = [rest EXCEPT ![1] = e]
    BY <2>1, <2>2
  <2> HIDE DEF batch, e
  <2> QED BY <1>5, <2>1, <2>3, <2>4
<1>8. \A j \in 1..n : batch[j].file = M.batch[j + k - 1].file
  <2>1. 1 + k - 1 = k /\ M.batch[k].file = f
    BY <1>3 DEF f
  <2> HIDE DEF batch, n
  <2> QED BY <1>7, <2>1
<1>9. taken \in [File \cup {Nothing} -> Seq(Char)] /\ taken[f] = Append(M.taken[f], c)
      /\ \A g \in File \cup {Nothing} : g # f => taken[g] = M.taken[g]
  BY <1>2, <1>4, <1>6
<1>10. R = [M EXCEPT !.batch = batch, !.taken = taken, !.char = c, !.echo = line]
  BY <1>1, <1>5 DEF Memory, f
<1> HIDE DEF rest, batch, taken, line, R, c
<1>11. /\ R \in Memory
       /\ SameElse(M, R) /\ R.char = c /\ R.echo = line /\ R.batch = batch /\ R.taken = taken
       /\ R.routers = M.routers
       /\ R.shown = M.shown /\ R.copy = M.copy /\ R.buffer = M.buffer /\ R.late = M.late
  <2>1. R \in Memory
    BY <1>1, <1>6, <1>7, <1>9, <1>10 DEF Memory
  <2>2. /\ SameElse(M, R) /\ R.char = c /\ R.echo = line /\ R.batch = batch /\ R.taken = taken
        /\ R.routers = M.routers
        /\ R.shown = M.shown /\ R.copy = M.copy /\ R.buffer = M.buffer /\ R.late = M.late
    BY <1>1, <1>10 DEF Memory, SameElse
  <2> QED BY <2>1, <2>2
<1>12. batch # << >> /\ M.batch # << >> /\ DOMAIN batch = 1..n
  BY <1>2, <1>3, <1>7
<1>13. ListOK(R)
  BY <1>1, <1>11, <1>12 DEF ListOK, SameElse
<1>14. BatchOK(R, opened)
  <2>1. \A j \in 1..n : batch[j].file \in opened
    BY <1>1, <1>3, <1>8 DEF BatchOK
  <2>2. ASSUME NEW i \in 1..n, NEW j \in 1..n, batch[i].file = batch[j].file PROVE i = j
    <3>1. /\ i + k - 1 \in DOMAIN M.batch /\ j + k - 1 \in DOMAIN M.batch
          /\ M.batch[i + k - 1].file = M.batch[j + k - 1].file
      BY <1>3, <1>8, <2>2
    <3>2. i + k - 1 = j + k - 1
      BY <1>1, <3>1 DEF BatchOK
    <3> QED BY <1>3, <3>2
  <2> QED BY <1>11, <1>12, <2>1, <2>2 DEF BatchOK
<1>15. TakenOK(R, opened)
  <2>1. taken[Nothing] \o M.console = Console
    <3>1. Nothing # f
      BY <1>4, RoutersAssumption
    <3> QED BY <1>1, <1>9, <3>1 DEF TakenOK
  <2>2. ASSUME NEW j \in 1..n PROVE taken[batch[j].file] \o batch[j].left = Text[batch[j].file]
    <3>1. CASE j = 1
      <4>1. M.taken[f] \o l = Text[f]
        BY <1>1 DEF TakenOK, f, l
      <4>2. batch[j].file = f /\ batch[j].left = Tail(l)
        BY <1>7, <3>1
      <4>3. taken[f] \o Tail(l) = M.taken[f] \o l
        BY <1>6, <1>9
      <4> QED BY <4>1, <4>2, <4>3
    <3>2. CASE j # 1
      <4> DEFINE i == j + k - 1
      <4>1. i \in DOMAIN M.batch /\ i # k /\ batch[j] = M.batch[i]
        BY <1>3, <1>7, <3>2
      <4> HIDE DEF i
      <4>2. M.batch[k].file = f
        BY DEF f
      <4>4. M.batch[i].file # f /\ M.batch[i].file \in opened
        BY <1>1, <4>1, <4>2 DEF BatchOK
      <4>3. taken[M.batch[i].file] = M.taken[M.batch[i].file]
        BY <1>9, <4>4
      <4> QED BY <1>1, <4>1, <4>3 DEF TakenOK
    <3> QED BY <3>1, <3>2
  <2>3. \A g \in File \ opened : taken[g] = << >>
    BY <1>1, <1>4, <1>9 DEF TakenOK
  <2> QED BY <1>11, <1>12, <2>1, <2>2, <2>3 DEF TakenOK, SameElse
<1>16. ASSUME AllRead(M, opened) PROVE AllRead(R, opened)
  <2> SUFFICES ASSUME NEW g \in opened, \A j \in 1..n : batch[j].file # g
               PROVE  taken[g] = Text[g]
    BY <1>11, <1>12 DEF AllRead
  <2>1. g # f
    <3>1. 1 \in 1..n /\ batch[1].file = f
      BY <1>3, <1>7
    <3> QED BY <3>1
  <2>2. taken[g] = M.taken[g]
    BY <1>9, <2>1
  <2>3. CASE \A i \in DOMAIN M.batch : M.batch[i].file # g
    BY <1>16, <2>2, <2>3 DEF AllRead
  <2>4. CASE \E i \in DOMAIN M.batch : M.batch[i].file = g
    <3>1. PICK i \in DOMAIN M.batch : M.batch[i].file = g
      BY <2>4
    <3>2. i < k
      <4>1. SUFFICES ASSUME ~(i < k) PROVE FALSE
        OBVIOUS
      <4>2. i - k + 1 \in 1..n /\ (i - k + 1) + k - 1 = i
        <5>1. i \in Nat /\ k \in Nat /\ i >= k /\ i <= Len(M.batch) /\ Len(M.batch) \in Nat
          BY <1>2, <1>3, <4>1
        <5>2. n = Len(M.batch) - k + 1
          BY DEF n
        <5> QED BY <5>1, <5>2, PlaceInRest
      <4> QED BY <1>8, <3>1, <4>2
    <3>3. M.taken[g] \o << >> = Text[g]
      BY <1>1, <3>1, <3>2 DEF TakenOK
    <3>4. M.taken[g] \in Seq(Char)
      BY <1>2
    <3>5. M.taken[g] \o << >> = M.taken[g]
      BY <3>4, ConcatEmptySeq
    <3> QED BY <2>2, <3>3, <3>5
  <2> QED BY <2>3, <2>4
<1>17. Sound(R, opened)
  BY <1>11, <1>13, <1>14, <1>15 DEF Sound
<1>18. Took(M, rest) = R
  BY DEF Took, R, batch, line, c
<1> QED BY <1>6, <1>11, <1>12, <1>16, <1>17, <1>18 DEF line, rest, c

\* What reading a character does to the two records of the session.  aside: the
\* dribble router, itself reading, is not asked to copy what is shown.
Recorded(M, R, aside) ==
    M.dribble = "on" =>
        /\ aside => /\ Copied(R) = Copied(M)
                    /\ R.char = Nothing => R.shown \o R.echo = M.shown \o M.echo
                    /\ R.char # Nothing =>
                         R.shown \o R.echo = (M.shown \o M.echo) \o <<R.char>>
        /\ ~aside /\ Copied(M) = M.shown => Copied(R) = R.shown

LEMMA BatchReads ==
    ASSUME NEW opened \in SUBSET File, NEW M, Sound(M, opened),
           NEW aside \in BOOLEAN
    PROVE  LET R == LLGetcBatch(M, aside) IN
           /\ Sound(R, opened) /\ (AllRead(M, opened) => AllRead(R, opened)) /\ SameElse(M, R)
           /\ R.char = Nothing => R.batch = << >> /\ \A i \in DOMAIN M.batch : M.batch[i].left = << >>
           /\ R.char # Nothing => R.char \in Char /\ (R.char \in NewLine => R.echo = << >>)
           /\ Recorded(M, R, aside)
<1> DEFINE live == LiveIn(M.batch)
           E(P) == [WriteString(P, P.echo, aside) EXCEPT !.echo = << >>]
           N == IF live = 1 \/ M.echo = << >> THEN M ELSE E(M)
           rest == SubSeq(M.batch, live, Len(M.batch))
           c == Head(rest[1].left)
           Z == [N EXCEPT !.batch = << >>, !.routers = DeleteRouter(@, "batch"), !.char = Nothing]
           T == [N EXCEPT !.batch = [rest EXCEPT ![1].left = Tail(@)],
                          !.taken[rest[1].file] = Append(@, c), !.char = c,
                          !.echo = Append(N.echo, c)]
           L == [WriteString(T, Append(N.echo, c), aside) EXCEPT !.echo = << >>]
           R == LLGetcBatch(M, aside)
<1>1. R = IF live = 0 THEN Z ELSE IF c \in NewLine THEN L ELSE T
  BY DEF LLGetcBatch, LiveIn
<1>2. M.batch \in Seq(BatchEntry) /\ Nothing \notin Char
  BY RoutersAssumption DEF Sound, Memory
<1>3. \/ live = 0 /\ \A i \in DOMAIN M.batch : M.batch[i].left = << >>
      \/ /\ live # 0 /\ live \in DOMAIN M.batch /\ M.batch[live].left # << >>
         /\ \A i \in DOMAIN M.batch : i < live => M.batch[i].left = << >>
  BY <1>2, LiveIs
<1>4. ASSUME NEW P, Sound(P, opened)
      PROVE  /\ P.shown \in Seq(Char) /\ P.echo \in Seq(Char)
             /\ (P.shown \o P.echo) \o << >> = P.shown \o P.echo /\ P.shown \o << >> = P.shown
             /\ P.shown \o P.echo \in Seq(Char)
  <2>1. P.shown \in Seq(Char) /\ P.echo \in Seq(Char)
    BY <1>4 DEF Sound, Memory
  <2>2. P.shown \o P.echo \in Seq(Char)
    BY <2>1
  <2> QED BY <2>1, <2>2, ConcatEmptySeq
<1> HIDE DEF live, R
<1>5. /\ Sound(N, opened) /\ (AllRead(M, opened) => AllRead(N, opened)) /\ SameElse(M, N)
      /\ N.batch = M.batch /\ (live # 1 => N.echo = << >>)
      /\ M.dribble = "on" =>
           /\ aside => Copied(N) = Copied(M) /\ N.shown \o N.echo = M.shown \o M.echo
           /\ ~aside /\ Copied(M) = M.shown => Copied(N) = N.shown
  <2>1. CASE live = 1 \/ M.echo = << >>
    <3>1. N = M
      BY <2>1
    <3> HIDE DEF N
    <3> QED BY <2>1, <3>1 DEF SameElse
  <2>2. CASE ~(live = 1 \/ M.echo = << >>)
    <3>1. N = E(M)
      BY <2>2
    <3> HIDE DEF N
    <3>2. /\ Sound(N, opened) /\ SameElse(M, N)
          /\ N.batch = M.batch /\ N.taken = M.taken /\ N.echo = << >>
          /\ M.dribble = "on" =>
               /\ N.shown = M.shown \o M.echo
               /\ Copied(N) = IF aside THEN Copied(M) ELSE Copied(M) \o M.echo
      BY <3>1, EchoGoes, ZenonT(60)
    <3>3. AllRead(M, opened) => AllRead(N, opened)
      BY <3>2 DEF AllRead
    <3>4. M.dribble = "on" => N.shown \o N.echo = M.shown \o M.echo
      BY <3>2, <1>4
    <3> QED BY <3>2, <3>3, <3>4
  <2> QED BY <2>1, <2>2
<1> HIDE DEF N
<1>6. CASE live = 0
  <2>1. /\ N.echo = << >> /\ \A i \in DOMAIN N.batch : N.batch[i].left = << >>
        /\ \A i \in DOMAIN M.batch : M.batch[i].left = << >>
    BY <1>3, <1>5, <1>6
  <2>2. /\ Sound(Z, opened) /\ (AllRead(N, opened) => AllRead(Z, opened)) /\ SameElse(N, Z)
        /\ Z.batch = << >> /\ Z.echo = << >> /\ Z.char = Nothing
        /\ Z.shown = N.shown /\ Copied(Z) = Copied(N)
    BY <1>5, <2>1, BatchEnds
  <2>3. R = Z
    BY <1>1, <1>6
  <2> HIDE DEF Z
  <2>4. SameElse(M, Z)
    BY <1>5, <2>2, SameElseChains
  <2>5. Recorded(M, Z, aside)
    BY <1>5, <2>1, <2>2 DEF Recorded
  <2> QED BY <1>5, <2>1, <2>2, <2>3, <2>4, <2>5 DEF R
<1>7. CASE live # 0
  <2>1. /\ live \in DOMAIN N.batch /\ N.batch[live].left # << >>
        /\ \A i \in DOMAIN N.batch : i < live => N.batch[i].left = << >>
    BY <1>3, <1>5, <1>7
  <2>2. rest = SubSeq(N.batch, live, Len(N.batch))
    BY <1>5
  <2> DEFINE W(r) == Took(N, r)
             restN == SubSeq(N.batch, live, Len(N.batch))
             d == Head(restN[1].left)
  <2>8. /\ d \in Char /\ Sound(W(restN), opened)
        /\ (AllRead(N, opened) => AllRead(W(restN), opened))
        /\ SameElse(N, W(restN)) /\ W(restN).char = d /\ W(restN).echo = Append(N.echo, d)
        /\ W(restN).batch # << >>
        /\ W(restN).shown = N.shown /\ W(restN).copy = N.copy /\ W(restN).buffer = N.buffer
    BY <1>5, <2>1, TakesNext
  <2>9. T = W(rest) /\ rest = restN /\ c = Head(rest[1].left)
    BY <2>2 DEF Took
  <2> HIDE DEF W, T, c, rest, restN
  <2>3. /\ c \in Char /\ Sound(T, opened) /\ (AllRead(N, opened) => AllRead(T, opened))
        /\ SameElse(N, T) /\ T.char = c /\ T.echo = Append(N.echo, c) /\ T.batch # << >>
        /\ T.shown = N.shown /\ T.copy = N.copy /\ T.buffer = N.buffer
    BY <2>8, <2>9
  <2>4. T.shown \o T.echo = (N.shown \o N.echo) \o <<c>> /\ Copied(T) = Copied(N)
    <3>1. N.shown \in Seq(Char) /\ N.echo \in Seq(Char)
      BY <1>4, <1>5
    <3>2. N.shown \o Append(N.echo, c) = (N.shown \o N.echo) \o <<c>>
      <4> DEFINE a == N.shown
                 b == N.echo
      <4>1. a \in Seq(Char) /\ b \in Seq(Char) /\ c \in Char
        BY <2>3, <3>1
      <4> HIDE DEF a, b
      <4>2. a \o Append(b, c) = Append(a \o b, c) /\ Append(a \o b, c) = (a \o b) \o <<c>>
        BY <4>1, AppendMoves
      <4> QED BY <4>2 DEF a, b
    <3> QED BY <2>3, <3>2 DEF Copied
  <2>5. SameElse(M, T) /\ T.dribble = M.dribble
    BY <1>5, <2>3, SameElseChains DEF SameElse
  <2>6. CASE c \notin NewLine
    <3>1. R = T
      BY <1>1, <1>7, <2>6
    <3>2. Recorded(M, T, aside)
      BY <1>2, <1>5, <2>3, <2>4 DEF Recorded
    <3> QED BY <1>2, <1>5, <2>3, <2>5, <2>6, <3>1, <3>2 DEF R
  <2>7. CASE c \in NewLine
    <3>1. R = E(T)
      BY <1>1, <1>7, <2>3, <2>7
    <3>2. /\ Sound(E(T), opened) /\ SameElse(T, E(T))
          /\ E(T).batch = T.batch /\ E(T).taken = T.taken /\ E(T).char = T.char
          /\ E(T).echo = << >>
          /\ T.dribble = "on" =>
               /\ E(T).shown = T.shown \o T.echo
               /\ Copied(E(T)) = IF aside THEN Copied(T) ELSE Copied(T) \o T.echo
      BY ZenonT(60), <2>3, EchoGoes
    <3> HIDE DEF E
    <3>3. SameElse(M, R) /\ AllRead(T, opened) => AllRead(R, opened)
      BY <2>5, <3>1, <3>2, SameElseChains DEF AllRead
    <3>4. R.shown \o R.echo = R.shown
      BY <1>4, <3>1, <3>2
    <3>5. Recorded(M, R, aside)
      <4> SUFFICES ASSUME M.dribble = "on"
                   PROVE  /\ aside => /\ Copied(R) = Copied(M)
                                      /\ R.shown \o R.echo = (M.shown \o M.echo) \o <<R.char>>
                          /\ ~aside /\ Copied(M) = M.shown => Copied(R) = R.shown
        BY <1>2, <2>3, <3>1, <3>2 DEF Recorded
      <4>1. CASE aside
        BY <1>5, <2>3, <2>4, <2>5, <3>1, <3>2, <3>4, <4>1
      <4>2. CASE ~aside
        BY <1>5, <2>3, <2>4, <2>5, <3>1, <3>2, <4>2
      <4> QED BY <4>1, <4>2
    <3>6. SameElse(M, R)
      BY <2>5, <3>1, <3>2, SameElseChains
    <3> QED BY <1>2, <1>5, <2>3, <3>1, <3>2, <3>3, <3>5, <3>6 DEF R
  <2> QED BY <2>6, <2>7
<1> QED BY <1>6, <1>7

SameSession(M, R) ==
    /\ R.files = M.files /\ R.sockets = M.sockets
    /\ R.dribble = M.dribble /\ R.awaiting = M.awaiting

LEMMA ConsoleReads ==
    ASSUME NEW opened \in SUBSET File, NEW M, Sound(M, opened),
           M.console # << >>
    PROVE  LET R == ReadConsole(M) IN
           /\ Sound(R, opened) /\ (AllRead(M, opened) => AllRead(R, opened)) /\ SameSession(M, R)
           /\ R.batch = M.batch /\ R.echo = M.echo /\ R.char \in Char /\ Copied(R) = Copied(M)
           /\ M.dribble # "off" => R.shown = M.shown \o <<R.char>>
<1> DEFINE c == Head(M.console)
           s == M.taken[Nothing]
           taken == [M.taken EXCEPT ![Nothing] = Append(@, c)]
           rest == Tail(M.console)
           shown == IF M.dribble = "off" THEN M.shown ELSE Append(M.shown, c)
           R == ReadConsole(M)
<1>1. M \in Memory /\ ListOK(M) /\ BatchOK(M, opened) /\ TakenOK(M, opened)
  BY DEF Sound
<1>2. /\ M.console \in Seq(Char) /\ M.taken \in [File \cup {Nothing} -> Seq(Char)]
      /\ M.shown \in Seq(Char) /\ s \in Seq(Char)
  BY <1>1 DEF Memory
<1>3. /\ c \in Char /\ rest \in Seq(Char) /\ Append(s, c) \in Seq(Char)
      /\ Append(s, c) \o rest = s \o M.console
  <2> DEFINE t == M.console
  <2>1. t \in Seq(Char) /\ t # << >>
    BY <1>2
  <2> HIDE DEF t, s
  <2>2. /\ Head(t) \in Char /\ Tail(t) \in Seq(Char) /\ Append(s, Head(t)) \in Seq(Char)
        /\ Append(s, Head(t)) \o Tail(t) = s \o t
    BY <1>2, <2>1, TakeFirst
  <2> QED BY <2>2 DEF t
<1>4. shown \in Seq(Char) /\ (M.dribble # "off" => shown = M.shown \o <<c>>)
  <2> DEFINE t == M.shown
  <2>1. t \in Seq(Char) /\ c \in Char
    BY <1>2, <1>3
  <2> HIDE DEF t, c
  <2>2. Append(t, c) \in Seq(Char) /\ Append(t, c) = t \o <<c>>
    BY <2>1, AppendIsConcat
  <2> QED BY <1>2, <2>2 DEF t
<1>5. R = [M EXCEPT !.console = rest, !.taken = taken, !.char = c, !.shown = shown]
  BY <1>1 DEF ReadConsole, Memory
<1>6. taken \in [File \cup {Nothing} -> Seq(Char)] /\ taken[Nothing] = Append(s, c)
      /\ \A f \in File : f # Nothing => taken[f] = M.taken[f]
  BY <1>2, <1>3
<1> HIDE DEF c, s, taken, rest, shown, R
<1>7. R \in Memory
  BY <1>1, <1>3, <1>4, <1>5, <1>6 DEF Memory
<1>8. /\ R.routers = M.routers /\ R.files = M.files /\ R.sockets = M.sockets
      /\ R.batch = M.batch /\ R.echo = M.echo /\ R.console = rest /\ R.dribble = M.dribble
      /\ R.copy = M.copy /\ R.buffer = M.buffer /\ R.awaiting = M.awaiting /\ R.char = c
      /\ R.taken = taken /\ R.shown = shown
  BY <1>1, <1>5 DEF Memory
<1>9. \A f \in File : taken[f] = M.taken[f]
  BY <1>6, RoutersAssumption
<1>10. M.batch \in Seq(BatchEntry) /\ \A i \in DOMAIN M.batch : M.batch[i].file \in File
  <2>1. M.batch \in Seq(BatchEntry)
    BY <1>1 DEF Memory
  <2>2. \A i \in DOMAIN M.batch : M.batch[i] \in BatchEntry
    BY <2>1
  <2> QED BY <2>1, <2>2 DEF BatchEntry
<1>11. Sound(R, opened)
  <2>1. ListOK(R) /\ BatchOK(R, opened)
    BY <1>1, <1>8 DEF ListOK, BatchOK
  <2>2. TakenOK(R, opened)
    <3>1. taken[Nothing] \o rest = Console
      BY <1>1, <1>3, <1>6 DEF TakenOK, s
    <3>2. \A i \in DOMAIN M.batch :
            taken[M.batch[i].file] \o M.batch[i].left = Text[M.batch[i].file]
      BY <1>1, <1>9, <1>10 DEF TakenOK
    <3>3. \A f \in File \ opened : taken[f] = << >>
      BY <1>1, <1>9 DEF TakenOK
    <3> QED BY <1>8, <3>1, <3>2, <3>3 DEF TakenOK
  <2> QED BY <1>7, <2>1, <2>2 DEF Sound
<1>12. AllRead(M, opened) => AllRead(R, opened)
  BY <1>8, <1>9 DEF AllRead
<1>13. Copied(R) = Copied(M)
  BY <1>8 DEF Copied
<1> QED BY <1>3, <1>4, <1>8, <1>11, <1>12, <1>13 DEF SameSession, R

\* The command loop clears the place of the last character before it reads.
LEMMA ClearsChar ==
    ASSUME NEW opened, NEW M, Sound(M, opened)
    PROVE  LET N == [M EXCEPT !.char = Nothing] IN
           /\ Sound(N, opened) /\ (AllRead(M, opened) => AllRead(N, opened)) /\ SameElse(M, N)
           /\ N.batch = M.batch /\ N.echo = M.echo /\ N.char = Nothing
           /\ N.shown = M.shown /\ Copied(N) = Copied(M)
<1> DEFINE N == [M EXCEPT !.char = Nothing]
<1>1. M \in Memory
  BY DEF Sound
<1>2. N \in Memory
  BY <1>1 DEF Memory
<1>3. /\ N.routers = M.routers /\ N.files = M.files /\ N.sockets = M.sockets
      /\ N.batch = M.batch /\ N.echo = M.echo /\ N.console = M.console /\ N.dribble = M.dribble
      /\ N.copy = M.copy /\ N.buffer = M.buffer /\ N.awaiting = M.awaiting /\ N.char = Nothing
      /\ N.taken = M.taken /\ N.shown = M.shown
  BY <1>1 DEF Memory
<1> HIDE DEF N
<1>4. ListOK(N) /\ BatchOK(N, opened) /\ TakenOK(N, opened)
  BY <1>3 DEF Sound, ListOK, BatchOK, TakenOK
<1> QED BY <1>2, <1>3, <1>4 DEF Sound, AllRead, SameElse, Copied, N

LEMMA StdinReads ==
    ASSUME NEW opened \in SUBSET File, NEW M, Sound(M, opened), HasInput(M),
           M.dribble # "closed"
    PROVE  LET R == ReadStdin(M) IN
           /\ Sound(R, opened) /\ (AllRead(M, opened) => AllRead(R, opened)) /\ SameSession(M, R)
           /\ R.char \in Char /\ (R.char \in NewLine => R.echo = << >>)
           /\ M.batch = << >> => R.batch = << >>
           /\ M.dribble = "on" /\ Copied(M) = M.shown \o M.echo => Copied(R) = R.shown \o R.echo
<1> DEFINE aside == Dribbles(M)
           N == IF Contains(M.routers, "batch") THEN LLGetcBatch(M, Dribbles(M))
                ELSE [M EXCEPT !.char = Nothing]
           P == IF N.char = Nothing THEN ReadConsole(N) ELSE N
           R == IF Dribbles(M) THEN PutcDribbleBuffer(P, <<P.char>>) ELSE P
<1>1. ReadStdin(M) = R
  BY DEF ReadStdin
<1>2. M \in Memory /\ ListOK(M) /\ BatchOK(M, opened) /\ Nothing \notin Char /\ aside \in BOOLEAN
  BY RoutersAssumption DEF Sound, Dribbles, Contains
<1>3. /\ Dribbles(M) <=> M.dribble # "off"
      /\ Contains(M.routers, "batch") <=> M.batch # << >>
  BY <1>2, DribblesIs
<1>4. M.shown \o M.echo \in Seq(Char)
  <2>1. M.shown \in Seq(Char) /\ M.echo \in Seq(Char)
    BY <1>2 DEF Memory
  <2> QED BY <2>1
<1>5. /\ Sound(N, opened) /\ (AllRead(M, opened) => AllRead(N, opened)) /\ SameElse(M, N)
      /\ N.char = Nothing => N.batch = << >> /\ \A i \in DOMAIN M.batch : M.batch[i].left = << >>
      /\ N.char # Nothing => N.char \in Char /\ (N.char \in NewLine => N.echo = << >>)
                             /\ M.batch # << >>
      /\ M.dribble = "on" =>
           /\ Copied(N) = Copied(M)
           /\ N.char = Nothing => N.shown \o N.echo = M.shown \o M.echo
           /\ N.char # Nothing => N.shown \o N.echo = (M.shown \o M.echo) \o <<N.char>>
  <2>1. CASE M.batch # << >>
    <3>1. N = LLGetcBatch(M, aside)
      BY <1>3, <2>1
    <3> HIDE DEF N, aside
    <3>2. /\ Sound(N, opened) /\ (AllRead(M, opened) => AllRead(N, opened)) /\ SameElse(M, N)
          /\ N.char = Nothing =>
               N.batch = << >> /\ \A i \in DOMAIN M.batch : M.batch[i].left = << >>
          /\ N.char # Nothing => N.char \in Char /\ (N.char \in NewLine => N.echo = << >>)
          /\ Recorded(M, N, aside)
      BY <1>2, <3>1, BatchReads
    <3>3. M.dribble = "on" => aside
      BY <1>3 DEF aside
    <3> QED BY <2>1, <3>2, <3>3 DEF Recorded
  <2>2. CASE M.batch = << >>
    <3>1. N = [M EXCEPT !.char = Nothing]
      BY <1>3, <2>2
    <3> HIDE DEF N
    <3>2. /\ Sound(N, opened) /\ (AllRead(M, opened) => AllRead(N, opened)) /\ SameElse(M, N)
          /\ N.batch = M.batch /\ N.echo = M.echo /\ N.char = Nothing
          /\ N.shown = M.shown /\ Copied(N) = Copied(M)
      BY <3>1, ClearsChar
    <3> QED BY <2>2, <3>2
  <2> QED BY <2>1, <2>2
<1> HIDE DEF N
<1>6. /\ Sound(P, opened) /\ (AllRead(M, opened) => AllRead(P, opened)) /\ SameSession(M, P)
      /\ P.char \in Char /\ (P.char \in NewLine => P.echo = << >>)
      /\ M.batch = << >> => P.batch = << >>
      /\ M.dribble = "on" =>
           Copied(P) = Copied(M) /\ P.shown \o P.echo = (M.shown \o M.echo) \o <<P.char>>
  <2>1. CASE N.char # Nothing
    <3>1. P = N
      BY <2>1
    <3> HIDE DEF P
    <3> QED BY <1>5, <2>1, <3>1 DEF SameElse, SameSession
  <2>2. CASE N.char = Nothing
    <3>1. P = ReadConsole(N)
      BY <2>2
    <3>2. N.console # << >> /\ N.batch = << >> /\ N.echo = << >>
      <4>1. M.console # << >>
        BY <1>5, <2>2 DEF HasInput
      <4>2. N.batch = << >>
        BY <1>5, <2>2
      <4> QED BY <1>5, <4>1, <4>2 DEF SameElse, Sound, BatchOK
    <3> HIDE DEF P
    <3>3. /\ Sound(P, opened) /\ (AllRead(N, opened) => AllRead(P, opened)) /\ SameSession(N, P)
          /\ P.batch = N.batch /\ P.echo = N.echo /\ P.char \in Char /\ Copied(P) = Copied(N)
          /\ N.dribble # "off" => P.shown = N.shown \o <<P.char>>
      BY <1>5, <3>1, <3>2, ConsoleReads
    <3>4. N.shown \o N.echo = N.shown /\ P.shown \o P.echo = P.shown
      <4>1. N.shown \in Seq(Char) /\ P.shown \in Seq(Char)
        BY <1>5, <3>3 DEF Sound, Memory
      <4>2. N.shown \o << >> = N.shown /\ P.shown \o << >> = P.shown
        BY <4>1, ConcatEmptySeq
      <4> QED BY <3>2, <3>3, <4>2
    <3>5. SameSession(M, P)
      BY <1>5, <3>3 DEF SameElse, SameSession
    <3>6. M.dribble = "on" =>
            Copied(P) = Copied(M) /\ P.shown \o P.echo = (M.shown \o M.echo) \o <<P.char>>
      BY <1>5, <2>2, <3>3, <3>4 DEF SameElse
    <3> QED BY <1>5, <3>2, <3>3, <3>5, <3>6
  <2> QED BY <2>1, <2>2
<1> HIDE DEF P
<1>7. CASE M.dribble = "off"
  <2>1. R = P
    BY <1>3, <1>7
  <2> HIDE DEF R
  <2> QED BY <1>1, <1>6, <1>7, <2>1
<1>8. CASE M.dribble = "on"
  <2>1. R = PutcDribbleBuffer(P, <<P.char>>)
    BY <1>3, <1>8
  <2> HIDE DEF R
  <2>2. P \in Memory /\ <<P.char>> \in Seq(Char)
    BY <1>6 DEF Sound
  <2>3. /\ R \in Memory /\ SameInput(P, R) /\ R.shown = P.shown
        /\ P.dribble # "closed" => Copied(R) = Copied(P) \o <<P.char>> /\ R.late = P.late
    <3> DEFINE s == <<P.char>>
    <3>1. s \in Seq(Char) /\ R = PutcDribbleBuffer(P, s)
      BY <2>1, <2>2
    <3> HIDE DEF s
    <3>2. /\ R \in Memory /\ SameInput(P, R) /\ R.shown = P.shown
          /\ P.dribble # "closed" => Copied(R) = Copied(P) \o s /\ R.late = P.late
      BY <2>2, <3>1, PutcCopies
    <3> QED BY <3>2 DEF s
  <2>4. Sound(R, opened) /\ (AllRead(P, opened) => AllRead(R, opened))
    BY <1>6, <2>3, SameInputSound
  <2>5. SameSession(M, R) /\ R.char = P.char /\ R.echo = P.echo /\ R.batch = P.batch
        /\ P.dribble = "on"
    BY <1>6, <1>8, <2>3 DEF SameSession, SameInput
  <2>6. Copied(M) = M.shown \o M.echo => Copied(R) = R.shown \o R.echo
    BY <1>6, <1>8, <2>3, <2>5
  <2> QED BY <1>1, <1>6, <2>4, <2>5, <2>6
<1>9. M.dribble \in {"off", "on"}
  BY <1>2 DEF Memory
<1> QED BY <1>7, <1>8, <1>9

-----------------------------------------------------------------------------
(* The steps of a session.                                                 *)

SessionRuns == {"loop", "command", "readline"}

\* What is in the dribble file and on its way there was on the screen.
Recording(M, in, apart) ==
    M.dribble = "on" /\ ~apart =>
        Copied(M) = M.shown \o (IF in = "readline" THEN M.echo ELSE << >>)

LEMMA SessionRunsIs ==
    ASSUME RoutersIInv, session \in SessionRuns
    PROVE  /\ Sound(m, used) /\ used \in SUBSET File /\ due = Nothing /\ AllRead(m, used)
           /\ m.dribble \in {"off", "on"} /\ outputs \in 0..MaxOutput /\ split \in BOOLEAN
           /\ (session = "command" => ~m.awaiting) /\ Recording(m, session, split)
<1>1. m.dribble \in {"off", "on", "closed"}
  BY DEF RoutersIInv, Sound, Memory
<1> QED BY <1>1 DEF RoutersIInv, SessionRuns, Recording, TranscriptIsSession, Copied

LEMMA StillRuns ==
    ASSUME session' \in SessionRuns, Sound(m', used'), used' \subseteq File, due' = Nothing,
           AllRead(m', used'), m'.dribble # "closed", outputs' \in 0..MaxOutput,
           split' \in BOOLEAN, session' = "command" => ~m'.awaiting,
           Recording(m', session', split')
    PROVE  RoutersIInv'
<1>1. TranscriptIsSession'
  BY DEF Recording, TranscriptIsSession, Copied
<1>2. /\ session' \in {"loop", "command", "readline", "exit", "over"}
      /\ session' \notin {"exit", "over"}
  BY DEF SessionRuns
<1>3. /\ due' \in RouterName \cup {Nothing} /\ (session' = "exit" <=> due' # Nothing)
      /\ session' = "exit" => Contains(m'.routers, due')
      /\ session' \in {"exit", "over"} => Closed'
  BY <1>2
<1>4. /\ session' \notin {"exit", "over"} => AllRead(m', used')
      /\ m'.dribble = "closed" => session' \in {"exit", "over"}
      /\ m'.dribble = "closed" /\ ~split' /\ ~m'.late => m'.copy = m'.shown
  OBVIOUS
<1> QED BY <1>1, <1>2, <1>3, <1>4 DEF RoutersIInv

LEMMA FieldsSound ==
    ASSUME NEW opened, NEW M, Sound(M, opened), NEW N \in Memory,
           N.routers = M.routers, N.batch = M.batch, N.echo = M.echo, N.console = M.console,
           N.dribble = M.dribble, N.taken = M.taken
    PROVE  Sound(N, opened) /\ (AllRead(M, opened) => AllRead(N, opened))
<1>1. ListOK(M) /\ BatchOK(M, opened) /\ TakenOK(M, opened)
  BY DEF Sound
<1>2. ListOK(N)
  BY <1>1 DEF ListOK
<1>3. BatchOK(N, opened)
  BY <1>1 DEF BatchOK
<1>4. TakenOK(N, opened)
  BY <1>1 DEF TakenOK
<1>5. AllRead(M, opened) => AllRead(N, opened)
  BY DEF AllRead
<1> QED BY <1>2, <1>3, <1>4, <1>5 DEF Sound

LEMMA AwaitingChanges ==
    ASSUME NEW opened, NEW M, Sound(M, opened), NEW b \in BOOLEAN
    PROVE  LET N == [M EXCEPT !.awaiting = b] IN
           /\ Sound(N, opened) /\ (AllRead(M, opened) => AllRead(N, opened))
           /\ N.awaiting = b /\ N.dribble = M.dribble /\ N.batch = M.batch /\ N.echo = M.echo
           /\ N.console = M.console /\ N.shown = M.shown /\ Copied(N) = Copied(M)
           /\ N.char = M.char
<1> DEFINE N == [M EXCEPT !.awaiting = b]
<1>1. M \in Memory
  BY DEF Sound
<1>2. N \in Memory
  BY <1>1 DEF Memory
<1>3. /\ N.routers = M.routers /\ N.awaiting = b
      /\ N.batch = M.batch /\ N.echo = M.echo /\ N.console = M.console /\ N.dribble = M.dribble
      /\ N.copy = M.copy /\ N.buffer = M.buffer
      /\ N.taken = M.taken /\ N.shown = M.shown /\ N.char = M.char
  BY <1>1 DEF Memory
<1> HIDE DEF N
<1>4. Sound(N, opened) /\ (AllRead(M, opened) => AllRead(N, opened))
  BY <1>2, <1>3, FieldsSound
<1>5. Copied(N) = Copied(M)
  BY <1>3 DEF Copied
<1> QED BY <1>3, <1>4, <1>5 DEF N

LEMMA ShownIs ==
    ASSUME NEW M \in Memory
    PROVE  M.shown \in Seq(Char) /\ M.shown \o << >> = M.shown
<1>1. M.shown \in Seq(Char)
  BY DEF Memory
<1> QED BY <1>1, ConcatEmptySeq

LEMMA LoopReadKeeps ==
    ASSUME RoutersIInv, LoopRead
    PROVE  RoutersIInv'
<1> DEFINE N == IF m.batch = << >> THEN [m EXCEPT !.char = Nothing] ELSE LLGetcBatch(m, FALSE)
           R == IF N.char = Nothing THEN ReadStdin(N) ELSE N
           complete == R.char \in NewLine
<1>1. /\ session = "loop" /\ HasInput(m) /\ m' = [R EXCEPT !.awaiting = ~complete]
      /\ session' = IF complete THEN "command" ELSE "loop"
      /\ UNCHANGED <<due, outputs, used, split>>
  BY DEF LoopRead
<1>2. /\ Sound(m, used) /\ used \in SUBSET File /\ due = Nothing /\ AllRead(m, used)
      /\ m.dribble \in {"off", "on"} /\ outputs \in 0..MaxOutput /\ split \in BOOLEAN
      /\ Recording(m, "loop", split)
  BY <1>1, SessionRunsIs DEF SessionRuns
<1>3. /\ Sound(N, used) /\ AllRead(N, used) /\ SameElse(m, N)
      /\ N.char = Nothing => N.batch = << >> /\ \A i \in DOMAIN m.batch : m.batch[i].left = << >>
      /\ m.dribble = "on" /\ Copied(m) = m.shown => Copied(N) = N.shown
  <2>1. CASE m.batch # << >>
    <3>1. N = LLGetcBatch(m, FALSE)
      BY <2>1
    <3> HIDE DEF N
    <3>2. /\ Sound(N, used) /\ (AllRead(m, used) => AllRead(N, used)) /\ SameElse(m, N)
          /\ N.char = Nothing =>
               N.batch = << >> /\ \A i \in DOMAIN m.batch : m.batch[i].left = << >>
          /\ Recorded(m, N, FALSE)
      BY <1>2, <3>1, BatchReads
    <3> QED BY <1>2, <3>2 DEF Recorded
  <2>2. CASE m.batch = << >>
    <3>1. N = [m EXCEPT !.char = Nothing]
      BY <2>2
    <3> HIDE DEF N
    <3>2. /\ Sound(N, used) /\ (AllRead(m, used) => AllRead(N, used)) /\ SameElse(m, N)
          /\ N.batch = m.batch /\ N.shown = m.shown /\ Copied(N) = Copied(m)
      BY <1>2, <3>1, ClearsChar
    <3> QED BY <1>2, <2>2, <3>2
  <2> QED BY <2>1, <2>2
<1> HIDE DEF N
<1>4. /\ Sound(R, used) /\ AllRead(R, used) /\ R.dribble = m.dribble
      /\ m.dribble = "on" /\ Copied(m) = m.shown => Copied(R) = R.shown
  <2>1. CASE N.char # Nothing
    <3>1. R = N
      BY <2>1
    <3> HIDE DEF R
    <3> QED BY <1>3, <3>1 DEF SameElse
  <2>2. CASE N.char = Nothing
    <3>1. R = ReadStdin(N)
      BY <2>2
    <3> HIDE DEF R
    <3>2. N.batch = << >> /\ HasInput(N) /\ N.dribble # "closed" /\ N.dribble = m.dribble
      BY <1>1, <1>2, <1>3, <2>2 DEF HasInput, SameElse
    <3>3. /\ Sound(R, used) /\ (AllRead(N, used) => AllRead(R, used)) /\ SameSession(N, R)
          /\ N.batch = << >> => R.batch = << >>
          /\ N.dribble = "on" /\ Copied(N) = N.shown \o N.echo => Copied(R) = R.shown \o R.echo
      BY <1>2, <1>3, <3>1, <3>2, StdinReads
    <3>4. N.echo = << >> /\ R.echo = << >> /\ N \in Memory /\ R \in Memory
      BY <1>3, <3>2, <3>3 DEF Sound, BatchOK
    <3>5. N.shown \o << >> = N.shown /\ R.shown \o << >> = R.shown
      BY <3>4, ShownIs
    <3> QED BY <1>3, <3>2, <3>3, <3>4, <3>5 DEF SameSession
  <2> QED BY <2>1, <2>2
<1>5. /\ Sound(m', used) /\ AllRead(m', used) /\ m'.dribble = R.dribble
      /\ m'.awaiting = ~complete /\ m'.shown = R.shown /\ Copied(m') = Copied(R)
  <2> DEFINE b == ~complete
  <2>1. b \in BOOLEAN /\ m' = [R EXCEPT !.awaiting = b]
    BY <1>1
  <2> HIDE DEF R, b
  <2>2. /\ Sound(m', used) /\ (AllRead(R, used) => AllRead(m', used))
        /\ m'.dribble = R.dribble
        /\ m'.awaiting = b /\ m'.shown = R.shown /\ Copied(m') = Copied(R)
    BY <1>4, <2>1, AwaitingChanges
  <2> QED BY <1>4, <2>2 DEF b
<1> HIDE DEF R
<1>6. Recording(m', session', split)
  <2>1. m.shown \o << >> = m.shown /\ m'.shown \o << >> = m'.shown
    BY <1>2, <1>5, ShownIs DEF Sound
  <2> QED BY <1>1, <1>2, <1>4, <1>5, <2>1 DEF Recording
<1>7. m'.dribble # "closed" /\ session' \in SessionRuns /\ (session' = "command" => ~m'.awaiting)
  BY <1>1, <1>2, <1>4, <1>5 DEF SessionRuns
<1> QED BY <1>1, <1>2, <1>5, <1>6, <1>7, StillRuns

LEMMA EndOfCommandKeeps ==
    ASSUME RoutersIInv, EndOfCommand
    PROVE  RoutersIInv'
<1>1. /\ session = "command" /\ session' = "loop" /\ m' = [m EXCEPT !.awaiting = TRUE]
      /\ UNCHANGED <<due, outputs, used, split>>
  BY DEF EndOfCommand
<1>2. /\ Sound(m, used) /\ used \in SUBSET File /\ due = Nothing /\ AllRead(m, used)
      /\ m.dribble \in {"off", "on"} /\ outputs \in 0..MaxOutput /\ split \in BOOLEAN
      /\ Recording(m, "command", split)
  BY <1>1, SessionRunsIs DEF SessionRuns
<1>3. /\ Sound(m', used) /\ AllRead(m', used)
      /\ m'.dribble = m.dribble /\ m'.shown = m.shown /\ Copied(m') = Copied(m)
  BY <1>1, <1>2, AwaitingChanges
<1>4. Recording(m', session', split)
  BY <1>1, <1>2, <1>3 DEF Recording
<1> QED BY <1>1, <1>2, <1>3, <1>4, StillRuns DEF SessionRuns

LEMMA PrintlnKeeps ==
    ASSUME RoutersIInv, Println
    PROVE  RoutersIInv'
<1> DEFINE s == <<Output[outputs']>>
<1>1. /\ session = "command" /\ session' = session /\ outputs < MaxOutput
      /\ outputs' = outputs + 1 /\ m' = WriteString(m, s, FALSE)
      /\ UNCHANGED <<due, used, split>>
  BY DEF Println
<1>2. /\ Sound(m, used) /\ used \in SUBSET File /\ due = Nothing /\ AllRead(m, used)
      /\ m.dribble \in {"off", "on"} /\ outputs \in 0..MaxOutput /\ split \in BOOLEAN
      /\ ~m.awaiting /\ Recording(m, "command", split)
  BY <1>1, SessionRunsIs DEF SessionRuns
<1>3. outputs' \in 1..MaxOutput /\ s \in Seq(Char)
  <2>1. outputs' \in 1..MaxOutput
    BY <1>1, <1>2, RoutersAssumption
  <2>2. Output[outputs'] \in Char
    BY <2>1, RoutersAssumption
  <2> QED BY <2>1, <2>2
<1> HIDE DEF s
<1>4. /\ m' \in Memory /\ SameInput(m, m')
      /\ m'.shown = IF m.dribble = "off" THEN m.shown ELSE m.shown \o s
      /\ m.dribble = "on" => Copied(m') = Copied(m) \o s
  <2>1. m \in Memory /\ ListOK(m)
    BY <1>2 DEF Sound
  <2> QED BY <1>1, <1>3, <2>1, WriteStringShows
<1>5. Sound(m', used) /\ AllRead(m', used) /\ m'.dribble = m.dribble /\ m'.awaiting = m.awaiting
  <2>1. m'.dribble = m.dribble /\ m'.awaiting = m.awaiting
    BY <1>4 DEF SameInput
  <2> QED BY <1>2, <1>4, <2>1, SameInputSound
<1>6. Recording(m', session', split)
  <2>1. m.shown \o << >> = m.shown /\ m'.shown \o << >> = m'.shown
    BY <1>2, <1>4, ShownIs DEF Sound
  <2> QED BY <1>1, <1>2, <1>4, <1>5, <2>1 DEF Recording
<1>7. outputs' \in 0..MaxOutput /\ session' \in SessionRuns
  BY <1>1, <1>3 DEF SessionRuns
<1> QED BY <1>1, <1>2, <1>5, <1>6, <1>7, StillRuns

LEMMA PrintoutKeeps ==
    ASSUME RoutersIInv, NEW name, Printout(name)
    PROVE  RoutersIInv'
<1>1. UNCHANGED <<m, session, due, outputs, used, split>>
  BY DEF Printout
<1> QED BY <1>1 DEF RoutersIInv, Closed, TranscriptIsSession

\* Files and sockets come and go.
Named(M, openFiles, sockets) == [M EXCEPT !.files = openFiles, !.sockets = sockets]

LEMMA NamesChange ==
    ASSUME NEW M \in Memory, NEW opened, Sound(M, opened),
           NEW openFiles \in SUBSET Name, NEW sockets \in SUBSET Name
    PROVE  LET N == Named(M, openFiles, sockets) IN
           /\ Sound(N, opened) /\ (AllRead(M, opened) => AllRead(N, opened))
           /\ N.files = openFiles /\ N.sockets = sockets /\ N.dribble = M.dribble
           /\ N.awaiting = M.awaiting /\ N.batch = M.batch /\ N.echo = M.echo /\ N.late = M.late
           /\ N.copy = M.copy /\ N.shown = M.shown /\ Copied(N) = Copied(M)
           /\ N.routers = M.routers
<1> DEFINE N == Named(M, openFiles, sockets)
<1> USE DEF Named
<1>1. N \in Memory
  BY DEF Memory
<1>2. /\ N.routers = M.routers /\ N.files = openFiles /\ N.sockets = sockets
      /\ N.batch = M.batch /\ N.echo = M.echo /\ N.console = M.console /\ N.dribble = M.dribble
      /\ N.copy = M.copy /\ N.buffer = M.buffer /\ N.awaiting = M.awaiting
      /\ N.taken = M.taken /\ N.shown = M.shown /\ N.late = M.late
  BY DEF Memory
<1> HIDE DEF N
<1>3. Sound(N, opened) /\ (AllRead(M, opened) => AllRead(N, opened))
  BY <1>1, <1>2, FieldsSound
<1>4. Copied(N) = Copied(M)
  BY <1>2 DEF Copied
<1> QED BY <1>2, <1>3, <1>4 DEF N

LEMMA NamesKeep ==
    ASSUME RoutersIInv, NEW name \in Name, OpenFile(name) \/ CloseFile(name) \/ Socket(name)
    PROVE  RoutersIInv'
<1>1. session = "command" /\ session' = session /\ UNCHANGED <<due, outputs, used, split>>
  BY DEF OpenFile, CloseFile, Socket
<1>2. /\ Sound(m, used) /\ used \in SUBSET File /\ due = Nothing /\ AllRead(m, used)
      /\ m.dribble \in {"off", "on"} /\ outputs \in 0..MaxOutput /\ split \in BOOLEAN
      /\ ~m.awaiting /\ Recording(m, "command", split)
  BY <1>1, SessionRunsIs DEF SessionRuns
<1>3. m \in Memory /\ m.files \in SUBSET Name /\ m.sockets \in SUBSET Name
  BY <1>2 DEF Sound, Memory
<1>4. PICK openFiles \in SUBSET Name, sockets \in SUBSET Name :
        m' = Named(m, openFiles, sockets)
  <2> USE DEF Named
  <2>1. CASE OpenFile(name)
    <3>1. m' = [m EXCEPT !.files = m.files \cup {name}, !.sockets = m.sockets]
      BY <1>3, <2>1 DEF OpenFile, Memory
    <3> QED BY <1>3, <3>1
  <2>2. CASE CloseFile(name)
    <3>1. m' = [m EXCEPT !.files = m.files \ {name}, !.sockets = m.sockets]
      BY <1>3, <2>2 DEF CloseFile, Memory
    <3> QED BY <1>3, <3>1
  <2>3. CASE Socket(name)
    <3> DEFINE sockets == (m.sockets \ {name}) \cup ({name} \ m.sockets)
    <3>1. sockets \in SUBSET Name
      BY <1>3
    <3>2. m' = [m EXCEPT !.files = m.files, !.sockets = sockets]
      BY <1>3, <2>3 DEF Socket, Memory
    <3> HIDE DEF sockets
    <3> QED BY <1>3, <3>1, <3>2
  <2> QED BY <2>1, <2>2, <2>3
<1>5. /\ Sound(m', used) /\ AllRead(m', used) /\ m'.dribble = m.dribble
      /\ m'.awaiting = m.awaiting /\ m'.shown = m.shown /\ Copied(m') = Copied(m)
  BY <1>2, <1>3, <1>4, NamesChange
<1>6. Recording(m', session', split)
  BY <1>1, <1>2, <1>5 DEF Recording
<1>7. session' \in SessionRuns
  BY <1>1 DEF SessionRuns
<1> QED BY <1>1, <1>2, <1>5, <1>6, <1>7, StillRuns

LEMMA GetCharKeeps ==
    ASSUME RoutersIInv, GetChar
    PROVE  RoutersIInv'
<1> DEFINE A == [m EXCEPT !.awaiting = TRUE]
           R == ReadStdin(A)
<1>1. /\ session = "command" /\ session' = session /\ HasInput(m)
      /\ m' = [R EXCEPT !.awaiting = FALSE] /\ split' = (split \/ m'.echo # << >> \/ m.echo # << >>)
      /\ UNCHANGED <<due, outputs, used>>
  BY DEF GetChar
<1>2. /\ Sound(m, used) /\ used \in SUBSET File /\ due = Nothing /\ AllRead(m, used)
      /\ m.dribble \in {"off", "on"} /\ outputs \in 0..MaxOutput /\ split \in BOOLEAN
      /\ Recording(m, "command", split)
  BY <1>1, SessionRunsIs DEF SessionRuns
<1>3. /\ Sound(A, used) /\ (AllRead(m, used) => AllRead(A, used))
      /\ A.dribble = m.dribble /\ A.batch = m.batch /\ A.echo = m.echo
      /\ A.console = m.console /\ A.shown = m.shown /\ Copied(A) = Copied(m)
  BY <1>2, AwaitingChanges
<1> HIDE DEF A
<1>4. HasInput(A)
  BY <1>1, <1>3 DEF HasInput
<1>5. /\ Sound(R, used) /\ (AllRead(A, used) => AllRead(R, used)) /\ SameSession(A, R)
      /\ A.dribble = "on" /\ Copied(A) = A.shown \o A.echo => Copied(R) = R.shown \o R.echo
  BY <1>2, <1>3, <1>4, StdinReads
<1> HIDE DEF R
<1>6. /\ Sound(m', used) /\ (AllRead(R, used) => AllRead(m', used))
      /\ m'.dribble = R.dribble /\ m'.echo = R.echo
      /\ m'.awaiting = FALSE /\ m'.shown = R.shown /\ Copied(m') = Copied(R)
  BY <1>1, <1>5, AwaitingChanges
<1>7. m'.dribble = m.dribble
  BY <1>3, <1>5, <1>6 DEF SameSession
<1>8. Recording(m', session', split')
  BY <1>1, <1>2, <1>3, <1>5, <1>6, <1>7 DEF Recording
<1>9. session' \in SessionRuns /\ split' \in BOOLEAN /\ due' = Nothing /\ used' \subseteq File
      /\ AllRead(m', used') /\ Sound(m', used') /\ m'.dribble # "closed" /\ outputs' \in 0..MaxOutput
  BY <1>1, <1>2, <1>3, <1>5, <1>6, <1>7 DEF SessionRuns
<1> QED BY <1>6, <1>8, <1>9, StillRuns

LEMMA ReadlineKeeps ==
    ASSUME RoutersIInv, Readline
    PROVE  RoutersIInv'
<1>1. /\ session = "command" /\ session' = "readline" /\ m' = [m EXCEPT !.awaiting = TRUE]
      /\ split' = (split \/ m.echo # << >>) /\ UNCHANGED <<due, outputs, used>>
  BY DEF Readline
<1>2. /\ Sound(m, used) /\ used \in SUBSET File /\ due = Nothing /\ AllRead(m, used)
      /\ m.dribble \in {"off", "on"} /\ outputs \in 0..MaxOutput /\ split \in BOOLEAN
      /\ Recording(m, "command", split)
  BY <1>1, SessionRunsIs DEF SessionRuns
<1>3. /\ Sound(m', used) /\ AllRead(m', used) /\ m'.echo = m.echo
      /\ m'.dribble = m.dribble /\ m'.shown = m.shown /\ Copied(m') = Copied(m)
  BY <1>1, <1>2, AwaitingChanges
<1>4. Recording(m', session', split')
  BY <1>1, <1>2, <1>3 DEF Recording
<1>5. split' \in BOOLEAN /\ session' \in SessionRuns
  BY <1>1, <1>2 DEF SessionRuns
<1> QED BY <1>1, <1>2, <1>3, <1>4, <1>5, StillRuns

LEMMA FillBufferKeeps ==
    ASSUME RoutersIInv, FillBuffer
    PROVE  RoutersIInv'
<1> DEFINE R == ReadStdin(m)
           complete == R.char \in NewLine
<1>1. /\ session = "readline" /\ HasInput(m) /\ m' = [R EXCEPT !.awaiting = ~complete]
      /\ session' = IF complete THEN "command" ELSE "readline"
      /\ UNCHANGED <<due, outputs, used, split>>
  BY DEF FillBuffer
<1>2. /\ Sound(m, used) /\ used \in SUBSET File /\ due = Nothing /\ AllRead(m, used)
      /\ m.dribble \in {"off", "on"} /\ outputs \in 0..MaxOutput /\ split \in BOOLEAN
      /\ Recording(m, "readline", split)
  BY <1>1, SessionRunsIs DEF SessionRuns
<1>3. /\ Sound(R, used) /\ (AllRead(m, used) => AllRead(R, used)) /\ SameSession(m, R)
      /\ (R.char \in NewLine => R.echo = << >>)
      /\ m.dribble = "on" /\ Copied(m) = m.shown \o m.echo => Copied(R) = R.shown \o R.echo
  <2>1. m.dribble # "closed"
    BY <1>2
  <2> QED BY <1>1, <1>2, <2>1, StdinReads
<1>4. /\ Sound(m', used) /\ (AllRead(R, used) => AllRead(m', used)) /\ m'.dribble = R.dribble
      /\ m'.awaiting = ~complete /\ m'.shown = R.shown /\ Copied(m') = Copied(R) /\ m'.echo = R.echo
  <2> DEFINE b == ~complete
  <2>1. b \in BOOLEAN /\ m' = [R EXCEPT !.awaiting = b]
    BY <1>1
  <2> HIDE DEF R, b
  <2>2. /\ Sound(m', used) /\ (AllRead(R, used) => AllRead(m', used))
        /\ m'.dribble = R.dribble /\ m'.echo = R.echo
        /\ m'.awaiting = b /\ m'.shown = R.shown /\ Copied(m') = Copied(R)
    BY <1>3, <2>1, AwaitingChanges
  <2> QED BY <2>2 DEF b
<1>5. complete => R.echo = << >>
  BY <1>3
<1> HIDE DEF R, complete
<1>6. m'.dribble = m.dribble
  BY <1>3, <1>4 DEF SameSession
<1>7. Recording(m', session', split)
  BY <1>1, <1>2, <1>3, <1>4, <1>5, <1>6 DEF Recording
<1>8. m'.dribble # "closed" /\ session' \in SessionRuns /\ (session' = "command" => ~m'.awaiting)
  BY <1>1, <1>2, <1>4, <1>6 DEF SessionRuns
<1> QED BY <1>1, <1>2, <1>3, <1>4, <1>7, <1>8, StillRuns

\* Another batch file, in front of the others or, from the command line, behind them.
LEMMA BatchOpens ==
    ASSUME NEW opened \in SUBSET File, NEW M, Sound(M, opened),
           AllRead(M, opened), NEW f \in File, f \notin opened, NEW placeAtEnd \in BOOLEAN
    PROVE  LET N == AddBatch(M, f, placeAtEnd) IN
           /\ Sound(N, opened \cup {f}) /\ AllRead(N, opened \cup {f})
           /\ N.dribble = M.dribble /\ N.awaiting = M.awaiting
           /\ N.shown = M.shown /\ Copied(N) = Copied(M)
<1> DEFINE e == [file |-> f, left |-> Text[f]]
           N == AddBatch(M, f, placeAtEnd)
           n == Len(M.batch)
           routers == IF M.batch = << >> THEN AddRouter(M.routers, "batch") ELSE M.routers
           batch == IF placeAtEnd THEN M.batch \o <<e>> ELSE <<e>> \o M.batch
           echo == IF placeAtEnd /\ M.batch # << >> THEN M.echo ELSE << >>
           at == IF placeAtEnd THEN n + 1 ELSE 1
           old(j) == IF placeAtEnd THEN j ELSE j - 1
<1>1. M \in Memory /\ ListOK(M) /\ BatchOK(M, opened) /\ TakenOK(M, opened)
  BY DEF Sound
<1>2. /\ M.batch \in Seq(BatchEntry) /\ n \in Nat /\ M.echo \in Seq(Char)
      /\ M.taken \in [File \cup {Nothing} -> Seq(Char)] /\ M.routers \in Seq(RouterName)
  BY <1>1 DEF Memory
<1>3. e \in BatchEntry /\ e.file = f /\ e.left = Text[f] /\ Text[f] \in Seq(Char)
  BY RoutersAssumption DEF BatchEntry
<1>4. N = [M EXCEPT !.routers = routers, !.batch = batch, !.echo = echo]
  BY <1>1 DEF AddBatch, Memory
<1>5. echo \in Seq(Char)
  BY <1>2
<1> HIDE DEF e, N, echo
<1>6. /\ batch \in Seq(BatchEntry) /\ Len(batch) = n + 1 /\ at \in 1..(n + 1) /\ batch[at] = e
      /\ \A j \in 1..(n + 1) : j # at => old(j) \in 1..n /\ batch[j] = M.batch[old(j)]
      /\ \A i \in 1..n : \E j \in 1..(n + 1) : j # at /\ old(j) = i
      /\ \A i, j \in 1..(n + 1) : old(i) = old(j) => i = j
  <2>1. CASE ~placeAtEnd
    <3>1. /\ <<e>> \o M.batch \in Seq(BatchEntry) /\ Len(<<e>> \o M.batch) = n + 1
          /\ \A j \in 1..(n + 1) : (<<e>> \o M.batch)[j] = IF j = 1 THEN e ELSE M.batch[j - 1]
      BY <1>2, <1>3, PushProperties
    <3>2. batch = <<e>> \o M.batch /\ at = 1 /\ \A j \in 1..(n + 1) : old(j) = j - 1
      BY <2>1
    <3> HIDE DEF batch, at, old, n
    <3>3. at \in 1..(n + 1) /\ \A j \in 1..(n + 1) : j # at => old(j) \in 1..n
      BY <1>2, <3>2
    <3>4. ASSUME NEW i \in 1..n PROVE \E j \in 1..(n + 1) : j # at /\ old(j) = i
      <4>1. i + 1 \in 1..(n + 1) /\ i + 1 # 1 /\ (i + 1) - 1 = i
        BY <1>2
      <4> QED BY <3>2, <4>1
    <3>5. \A i, j \in 1..(n + 1) : old(i) = old(j) => i = j
      BY <3>2
    <3> QED BY <3>1, <3>2, <3>3, <3>4, <3>5
  <2>2. CASE placeAtEnd
    <3>1. /\ <<e>> \in Seq(BatchEntry) /\ Len(<<e>>) = 1 /\ <<e>>[1] = e
      BY <1>3
    <3>2. /\ M.batch \o <<e>> \in Seq(BatchEntry) /\ Len(M.batch \o <<e>>) = n + 1
          /\ \A j \in 1..(n + 1) :
               (M.batch \o <<e>>)[j] = IF j <= n THEN M.batch[j] ELSE <<e>>[j - n]
      BY <1>2, <3>1, ConcatProperties
    <3>3. batch = M.batch \o <<e>> /\ at = n + 1 /\ \A j \in 1..(n + 1) : old(j) = j
      BY <2>2
    <3> HIDE DEF batch, at, old, n
    <3>4. /\ at \in 1..(n + 1) /\ (n + 1) - n = 1 /\ ~(n + 1 <= n)
          /\ \A j \in 1..(n + 1) : j # at => old(j) \in 1..n /\ j <= n
      BY <1>2, <3>3
    <3>5. ASSUME NEW i \in 1..n PROVE \E j \in 1..(n + 1) : j # at /\ old(j) = i
      <4>1. i \in 1..(n + 1) /\ i # n + 1
        BY <1>2
      <4> QED BY <3>3, <4>1
    <3>6. \A i, j \in 1..(n + 1) : old(i) = old(j) => i = j
      BY <3>3
    <3>7. batch[at] = e
      BY <3>1, <3>2, <3>3, <3>4
    <3>8. \A j \in 1..(n + 1) : j # at => batch[j] = M.batch[old(j)]
      BY <3>2, <3>3, <3>4
    <3> QED BY <3>2, <3>3, <3>4, <3>5, <3>6, <3>7, <3>8
  <2> QED BY <2>1, <2>2
<1>7. batch # << >> /\ DOMAIN batch = 1..(n + 1) /\ DOMAIN M.batch = 1..n
  BY <1>2, <1>6
<1>8. routers = Listed(M.dribble # "off", TRUE) /\ routers \in Seq(RouterName)
  <2>1. routers = Listed(M.dribble # "off", TRUE)
    BY <1>1, BatchJoins DEF ListOK
  <2> QED BY <2>1, ListedIs
<1> HIDE DEF routers, batch, at, old, n
<1>9. N \in Memory
  BY <1>1, <1>4, <1>5, <1>6, <1>8 DEF Memory
<1>10. /\ N.routers = routers /\ N.batch = batch /\ N.echo = echo /\ N.console = M.console
       /\ N.dribble = M.dribble /\ N.copy = M.copy /\ N.buffer = M.buffer
       /\ N.awaiting = M.awaiting /\ N.taken = M.taken /\ N.shown = M.shown
  BY <1>1, <1>4 DEF Memory
<1>11. ListOK(N)
  BY <1>7, <1>8, <1>10 DEF ListOK
<1>12. \A j \in 1..(n + 1) : j # at =>
          /\ M.batch[old(j)].file \in opened /\ M.batch[old(j)].file # f
          /\ batch[j].file = M.batch[old(j)].file /\ batch[j].left = M.batch[old(j)].left
  BY <1>1, <1>6, <1>7 DEF BatchOK
<1>13. BatchOK(N, opened \cup {f})
  <2>1. \A j \in 1..(n + 1) : batch[j].file \in opened \cup {f}
    BY <1>3, <1>6, <1>12
  <2>2. ASSUME NEW i \in 1..(n + 1), NEW j \in 1..(n + 1), batch[i].file = batch[j].file
        PROVE  i = j
    <3>1. CASE i # at /\ j # at
      <4>1. old(i) = old(j)
        <5>1. old(i) \in DOMAIN M.batch /\ old(j) \in DOMAIN M.batch
              /\ M.batch[old(i)].file = M.batch[old(j)].file
          BY <1>6, <1>7, <1>12, <2>2, <3>1
        <5> QED BY <1>1, <5>1 DEF BatchOK
      <4> QED BY <1>6, <4>1
    <3>2. CASE i = at /\ j # at
      BY <1>3, <1>6, <1>12, <2>2, <3>2
    <3>3. CASE i # at /\ j = at
      BY <1>3, <1>6, <1>12, <2>2, <3>3
    <3> QED BY <3>1, <3>2, <3>3
  <2> QED BY <1>7, <1>10, <2>1, <2>2 DEF BatchOK
<1>14. M.taken[f] = << >> /\ << >> \o Text[f] = Text[f]
  <2>1. M.taken[f] = << >>
    BY <1>1 DEF TakenOK
  <2> QED BY <1>3, <2>1, ConcatEmptySeq
<1>15. TakenOK(N, opened \cup {f})
  <2>1. ASSUME NEW j \in 1..(n + 1)
        PROVE  M.taken[batch[j].file] \o batch[j].left = Text[batch[j].file]
    <3>1. CASE j = at
      BY <1>3, <1>6, <1>14, <3>1
    <3>2. CASE j # at
      <4>1. old(j) \in DOMAIN M.batch
        BY <1>6, <1>7, <3>2
      <4> QED BY <1>1, <1>12, <3>2, <4>1 DEF TakenOK
    <3> QED BY <3>1, <3>2
  <2>2. \A g \in File \ (opened \cup {f}) : M.taken[g] = << >>
    BY <1>1 DEF TakenOK
  <2>3. M.taken[Nothing] \o M.console = Console
    BY <1>1 DEF TakenOK
  <2> QED BY <1>7, <1>10, <2>1, <2>2, <2>3 DEF TakenOK
<1>16. AllRead(N, opened \cup {f})
  <2> SUFFICES ASSUME NEW g \in opened \cup {f}, \A j \in 1..(n + 1) : batch[j].file # g
               PROVE  M.taken[g] = Text[g]
    BY <1>7, <1>10 DEF AllRead
  <2>1. g # f
    BY <1>3, <1>6
  <2>2. \A i \in 1..n : M.batch[i].file # g
    BY <1>6, <1>12
  <2> QED BY <1>7, <2>1, <2>2 DEF AllRead
<1>17. Copied(N) = Copied(M)
  BY <1>10 DEF Copied
<1> QED BY <1>9, <1>10, <1>11, <1>13, <1>15, <1>16, <1>17 DEF Sound, N

LEMMA OpenBatchKeeps ==
    ASSUME RoutersIInv, NEW f \in File, OpenBatch(f) \/ BatchOption(f)
    PROVE  RoutersIInv'
<1>1. /\ session \in {"loop", "command"} /\ session' = session /\ f \notin used
      /\ used' = used \cup {f} /\ UNCHANGED <<due, outputs, split>>
      /\ \E atEnd \in BOOLEAN : m' = AddBatch(m, f, atEnd)
  BY DEF OpenBatch, BatchOption
<1>2. PICK atEnd \in BOOLEAN : m' = AddBatch(m, f, atEnd)
  BY <1>1
<1>3. /\ Sound(m, used) /\ used \in SUBSET File /\ due = Nothing /\ AllRead(m, used)
      /\ m.dribble \in {"off", "on"} /\ outputs \in 0..MaxOutput /\ split \in BOOLEAN
      /\ (session = "command" => ~m.awaiting) /\ Recording(m, session, split)
  BY <1>1, SessionRunsIs DEF SessionRuns
<1>4. /\ Sound(m', used') /\ AllRead(m', used') /\ m'.dribble = m.dribble
      /\ m'.awaiting = m.awaiting /\ m'.shown = m.shown /\ Copied(m') = Copied(m)
  <2> DEFINE N == AddBatch(m, f, atEnd)
  <2>1. /\ Sound(N, used \cup {f}) /\ AllRead(N, used \cup {f}) /\ N.dribble = m.dribble
        /\ N.awaiting = m.awaiting /\ N.shown = m.shown /\ Copied(N) = Copied(m)
    BY <1>1, <1>3, BatchOpens
  <2> HIDE DEF N
  <2>2. m' = N /\ used' = used \cup {f}
    BY <1>1, <1>2 DEF N
  <2> QED BY <2>1, <2>2
<1>5. Recording(m', session', split')
  BY <1>1, <1>3, <1>4 DEF Recording
<1>6. used' \subseteq File /\ session' \in SessionRuns /\ m'.dribble # "closed"
  BY <1>1, <1>3, <1>4 DEF SessionRuns
<1> QED BY <1>1, <1>3, <1>4, <1>5, <1>6, StillRuns

\* With dribble-off, what was kept back goes to the file, and the router goes.
LEMMA OffEnds ==
    ASSUME NEW opened, NEW M, Sound(M, opened)
    PROVE  LET N == Off(M) IN
           /\ Sound(N, opened) /\ (AllRead(M, opened) => AllRead(N, opened))
           /\ N.dribble = "off" /\ N.awaiting = M.awaiting /\ N.buffer = << >>
           /\ N.routers = Listed(FALSE, N.batch # << >>)
<1> DEFINE routers == DeleteRouter(M.routers, "dribble")
           copy == M.copy \o M.buffer
           N == Off(M)
<1>1. M \in Memory /\ ListOK(M) /\ BatchOK(M, opened) /\ TakenOK(M, opened)
  BY DEF Sound
<1>2. routers = Listed(FALSE, M.batch # << >>) /\ routers \in Seq(RouterName)
  <2>1. routers = Listed(FALSE, M.batch # << >>)
    BY <1>1, DribbleLeaves DEF ListOK
  <2> QED BY <2>1, ListedIs
<1>3. copy \in Seq(Char) /\ << >> \in Seq(Char)
  BY <1>1 DEF Memory
<1>4. N = [M EXCEPT !.copy = copy, !.buffer = << >>, !.dribble = "off", !.routers = routers]
  BY <1>1 DEF Off, Memory
<1> HIDE DEF routers, copy, N
<1>5. N \in Memory
  BY <1>1, <1>2, <1>3, <1>4 DEF Memory
<1>6. /\ N.routers = routers /\ N.batch = M.batch /\ N.echo = M.echo /\ N.console = M.console
      /\ N.dribble = "off" /\ N.buffer = << >> /\ N.awaiting = M.awaiting /\ N.taken = M.taken
  BY <1>1, <1>4 DEF Memory
<1>7. ListOK(N) /\ BatchOK(N, opened) /\ TakenOK(N, opened)
  BY <1>1, <1>2, <1>6 DEF ListOK, BatchOK, TakenOK
<1>8. AllRead(M, opened) => AllRead(N, opened)
  BY <1>6 DEF AllRead
<1> QED BY <1>2, <1>5, <1>6, <1>7, <1>8 DEF Sound, N

LEMMA DribbleKeeps ==
    ASSUME RoutersIInv, DribbleOff \/ DribbleOn
    PROVE  RoutersIInv'
<1> DEFINE N == Off(m)
           routers == AddRouter(N.routers, "dribble")
           On == [N EXCEPT !.copy = << >>, !.dribble = "on", !.shown = << >>, !.routers = routers]
<1>1. session = "command" /\ session' = session /\ UNCHANGED <<due, outputs, used>>
  BY DEF DribbleOff, DribbleOn
<1>2. /\ Sound(m, used) /\ used \in SUBSET File /\ due = Nothing /\ AllRead(m, used)
      /\ m.dribble \in {"off", "on"} /\ outputs \in 0..MaxOutput /\ split \in BOOLEAN
      /\ ~m.awaiting
  BY <1>1, SessionRunsIs DEF SessionRuns
<1>3. /\ Sound(N, used) /\ AllRead(N, used)
      /\ N.dribble = "off" /\ N.awaiting = m.awaiting /\ N.buffer = << >>
      /\ N.routers = Listed(FALSE, N.batch # << >>)
  BY <1>2, OffEnds
<1>4. \/ m' = N /\ split' = split
      \/ m' = On /\ split' = (m.echo # << >>)
  <2>1. N \in Memory
    BY <1>3 DEF Sound
  <2> HIDE DEF N
  <2>2. On = [N EXCEPT !.copy = << >>, !.dribble = "on", !.shown = << >>,
                       !.routers = AddRouter(@, "dribble")]
    BY <2>1 DEF Memory
  <2> HIDE DEF On
  <2> QED BY <2>2 DEF DribbleOff, DribbleOn, N
<1> HIDE DEF N
<1>5. CASE m' = N /\ split' = split
  <2>1. Recording(m', session', split') /\ m'.dribble # "closed"
    BY <1>3, <1>5 DEF Recording
  <2>2. session' \in SessionRuns /\ ~m'.awaiting /\ split' \in BOOLEAN
    BY <1>1, <1>2, <1>3, <1>5 DEF SessionRuns
  <2> QED BY <1>1, <1>2, <1>3, <1>5, <2>1, <2>2, StillRuns
<1>6. CASE m' = On /\ split' = (m.echo # << >>)
  <2>1. N \in Memory /\ BatchOK(N, used) /\ TakenOK(N, used)
    BY <1>3 DEF Sound
  <2>2. routers = Listed(TRUE, N.batch # << >>) /\ routers \in Seq(RouterName)
    <3>1. routers = Listed(TRUE, N.batch # << >>)
      BY <1>3, DribbleJoins
    <3> QED BY <3>1, ListedIs
  <2> HIDE DEF routers
  <2>3. On \in Memory
    <3>1. << >> \in Seq(Char)
      OBVIOUS
    <3> QED BY <2>1, <2>2, <3>1 DEF Memory
  <2>4. /\ On.routers = routers /\ On.batch = N.batch /\ On.echo = N.echo
        /\ On.console = N.console /\ On.dribble = "on" /\ On.copy = << >>
        /\ On.buffer = << >> /\ On.awaiting = N.awaiting /\ On.taken = N.taken
        /\ On.shown = << >>
    BY <1>3, <2>1 DEF Memory
  <2> HIDE DEF On
  <2>5. Sound(On, used) /\ AllRead(On, used)
    <3>1. ListOK(On)
      BY <2>2, <2>4 DEF ListOK
    <3>2. BatchOK(On, used) /\ TakenOK(On, used) /\ AllRead(On, used)
      <4>1. BatchOK(On, used)
        BY <2>1, <2>4 DEF BatchOK
      <4>2. TakenOK(On, used)
        BY <2>1, <2>4 DEF TakenOK
      <4>3. AllRead(On, used)
        BY <1>3, <2>4 DEF AllRead
      <4> QED BY <4>1, <4>2, <4>3
    <3> QED BY <2>3, <3>1, <3>2 DEF Sound
  <2>6. Recording(m', session', split')
    BY <1>1, <1>6, <2>4 DEF Recording, Copied
  <2>7. session' \in SessionRuns /\ ~m'.awaiting /\ split' \in BOOLEAN /\ m'.dribble # "closed"
    BY <1>1, <1>2, <1>3, <1>6, <2>4 DEF SessionRuns
  <2> QED BY <1>1, <1>2, <1>6, <2>5, <2>6, <2>7, StillRuns
<1> QED BY <1>4, <1>5, <1>6

-----------------------------------------------------------------------------
(* The way out.                                                            *)

\* The text of a dribble file that was closed, when nothing came after it.
ClosedCopy(M, apart) == M.dribble = "closed" /\ ~apart /\ ~M.late => M.copy = M.shown

LEMMA StillLeaves ==
    ASSUME session' \in {"exit", "over"}, Sound(m', used'), used' \subseteq File,
           due' \in RouterName \cup {Nothing}, session' = "exit" <=> due' # Nothing,
           session' = "exit" => Contains(m'.routers, due'), outputs' \in 0..MaxOutput,
           split' \in BOOLEAN, Recording(m', session', split'), Closed', ClosedCopy(m', split')
    PROVE  RoutersIInv'
<1>1. TranscriptIsSession'
  BY DEF Recording, TranscriptIsSession, Copied
<1> QED BY <1>1 DEF RoutersIInv, ClosedCopy

LEMMA ExitRouterKeeps ==
    ASSUME RoutersIInv, ExitRouter
    PROVE  RoutersIInv'
<1>1. /\ session = "command" /\ session' = "exit" /\ due' = m.routers[1]
      /\ UNCHANGED <<m, outputs, used, split>>
  BY DEF ExitRouter
<1>2. /\ Sound(m, used) /\ used \in SUBSET File
      /\ m.dribble \in {"off", "on"} /\ outputs \in 0..MaxOutput /\ split \in BOOLEAN
      /\ Recording(m, "command", split)
  BY <1>1, SessionRunsIs DEF SessionRuns
<1> DEFINE d == m.dribble # "off"
           b == m.batch # << >>
<1>3. m.routers = Listed(d, b)
  BY <1>2 DEF Sound, ListOK
<1>4. /\ due' = IF d THEN "dribble" ELSE IF b THEN "batch" ELSE "socketio"
      /\ Contains(m.routers, due')
  <2>1. Listed(d, b)[1] = IF d THEN "dribble" ELSE IF b THEN "batch" ELSE "socketio"
    BY DEF Listed
  <2> HIDE DEF d, b
  <2>2. due' = IF d THEN "dribble" ELSE IF b THEN "batch" ELSE "socketio"
    BY <1>1, <1>3, <2>1
  <2>3. d \in BOOLEAN /\ b \in BOOLEAN
    BY DEF d, b
  <2> QED BY <1>3, <2>2, <2>3, ListedIs DEF Standing
<1>5. due' \in RouterName /\ due' # Nothing
  BY <1>4, RoutersAssumption DEF RouterName
<1>6. Closed'
  BY <1>1, <1>2, <1>4 DEF Closed
<1>7. Recording(m', session', split') /\ ClosedCopy(m', split')
  BY <1>1, <1>2 DEF Recording, ClosedCopy
<1> QED BY <1>1, <1>2, <1>4, <1>5, <1>6, <1>7, StillLeaves

LEMMA LeavingIs ==
    ASSUME RoutersIInv, session = "exit"
    PROVE  /\ Sound(m, used) /\ used \in SUBSET File /\ due \in RouterName
           /\ Contains(m.routers, due) /\ outputs \in 0..MaxOutput /\ split \in BOOLEAN
           /\ Recording(m, "exit", split) /\ Closed /\ ClosedCopy(m, split)
BY DEF RoutersIInv, Recording, TranscriptIsSession, Copied, ClosedCopy

\* The dribble file is closed with what was kept back.
LEMMA DribbleCloses ==
    ASSUME NEW opened, NEW M, Sound(M, opened), M.dribble = "on"
    PROVE  LET N == ExitCallback(M, "dribble") IN
           /\ Sound(N, opened) /\ N.dribble = "closed" /\ N.copy = Copied(M) /\ N.shown = M.shown
           /\ N.batch = M.batch /\ N.routers = M.routers
<1> DEFINE N == ExitCallback(M, "dribble")
           copy == M.copy \o M.buffer
<1>1. M \in Memory
  BY DEF Sound
<1>2. copy \in Seq(Char) /\ copy = Copied(M)
  BY <1>1 DEF Memory, Copied
<1>3. N = [M EXCEPT !.copy = copy, !.dribble = "closed"]
  BY <1>1 DEF ExitCallback, Memory
<1> HIDE DEF N, copy
<1>4. N \in Memory
  BY <1>1, <1>2, <1>3 DEF Memory
<1>5. /\ N.routers = M.routers /\ N.batch = M.batch /\ N.echo = M.echo /\ N.console = M.console
      /\ N.dribble = "closed" /\ N.copy = copy /\ N.taken = M.taken /\ N.shown = M.shown
  BY <1>1, <1>3 DEF Memory
<1>6. ListOK(N) /\ BatchOK(N, opened) /\ TakenOK(N, opened)
  BY <1>5 DEF Sound, ListOK, BatchOK, TakenOK
<1> QED BY <1>2, <1>4, <1>5, <1>6 DEF Sound, N

\* CloseAllBatchSources shows the line it leaves unfinished.
LEMMA BatchCloses ==
    ASSUME NEW opened, NEW M, Sound(M, opened), M.dribble # "on"
    PROVE  LET N == ExitCallback(M, "batch") IN
           /\ Sound(N, opened) /\ N.dribble = M.dribble /\ N.batch = << >>
           /\ N.routers = Listed(M.dribble # "off", FALSE)
           /\ N.copy = M.copy /\ (N.late \/ (N.late = M.late /\ N.shown = M.shown)
                                         \/ M.dribble = "off")
<1> DEFINE P == IF M.echo = << >> THEN M ELSE WriteString(M, M.echo, FALSE)
           routers == DeleteRouter(P.routers, "batch")
           N == ExitCallback(M, "batch")
<1>1. M \in Memory /\ ListOK(M) /\ M.echo \in Seq(Char) /\ M.dribble \in {"off", "closed"}
  BY DEF Sound, Memory
<1>2. /\ P \in Memory /\ SameInput(M, P) /\ P.copy = M.copy
      /\ P.late \/ (P.late = M.late /\ P.shown = M.shown) \/ M.dribble = "off"
  <2>1. CASE M.echo = << >>
    <3>1. P = M
      BY <2>1
    <3> HIDE DEF P
    <3> QED BY <1>1, <3>1 DEF SameInput
  <2>2. CASE M.echo # << >>
    <3> DEFINE s == M.echo
    <3>1. s \in Seq(Char) /\ P = WriteString(M, s, FALSE)
      BY <1>1, <2>2
    <3> HIDE DEF P, s
    <3>2. /\ P \in Memory /\ SameInput(M, P)
          /\ M.dribble = "off" => P.copy = M.copy
          /\ M.dribble = "closed" => P.copy = M.copy /\ P.late
      BY <1>1, <3>1, WriteStringShows
    <3> QED BY <1>1, <3>2
  <2> QED BY <2>1, <2>2
<1>3. N = [P EXCEPT !.batch = << >>, !.echo = << >>, !.routers = DeleteRouter(@, "batch")]
  BY DEF ExitCallback
<1> HIDE DEF P, N
<1>4. /\ P.routers = M.routers /\ P.batch = M.batch /\ P.console = M.console
      /\ P.dribble = M.dribble /\ P.taken = M.taken
  BY <1>2 DEF SameInput
<1>5. routers = Listed(M.dribble # "off", FALSE) /\ routers \in Seq(RouterName)
  <2>1. routers = Listed(M.dribble # "off", FALSE)
    BY <1>1, <1>4, BatchLeaves DEF ListOK
  <2> QED BY <2>1, ListedIs
<1>6. N = [P EXCEPT !.batch = << >>, !.echo = << >>, !.routers = routers]
  BY <1>2, <1>3 DEF Memory
<1>7. << >> \in Seq(BatchEntry) /\ << >> \in Seq(Char)
  OBVIOUS
<1> HIDE DEF routers
<1>8. N \in Memory
  BY <1>2, <1>5, <1>6, <1>7 DEF Memory
<1>9. /\ N.routers = routers /\ N.batch = << >> /\ N.echo = << >> /\ N.console = P.console
      /\ N.dribble = P.dribble /\ N.copy = P.copy /\ N.taken = P.taken /\ N.shown = P.shown
      /\ N.late = P.late
  BY <1>2, <1>6 DEF Memory
<1>10. Sound(N, opened)
  <2>1. DOMAIN N.batch = {}
    BY <1>9
  <2>2. ListOK(N)
    BY <1>4, <1>5, <1>9 DEF ListOK
  <2>3. BatchOK(N, opened)
    BY <1>9, <2>1 DEF BatchOK
  <2>4. TakenOK(N, opened)
    BY <1>4, <1>9, <2>1 DEF Sound, TakenOK
  <2> QED BY <1>8, <2>2, <2>3, <2>4 DEF Sound
<1> QED BY <1>2, <1>4, <1>5, <1>9, <1>10 DEF N

LEMMA ExitGoesOnKeeps ==
    ASSUME RoutersIInv, ExitGoesOn
    PROVE  RoutersIInv'
<1> DEFINE d == m.dribble # "off"
           b == m.batch # << >>
<1>1. /\ session = "exit" /\ m' = ExitCallback(m, due) /\ due' = NextRouter(m.routers, due)
      /\ session' = IF due' = Nothing THEN "over" ELSE "exit"
      /\ UNCHANGED <<outputs, used, split>>
  BY DEF ExitGoesOn
<1>2. /\ Sound(m, used) /\ used \in SUBSET File /\ due \in RouterName
      /\ Contains(m.routers, due) /\ outputs \in 0..MaxOutput /\ split \in BOOLEAN
      /\ Recording(m, "exit", split) /\ Closed /\ ClosedCopy(m, split)
  BY <1>1, LeavingIs
<1>3. /\ m \in Memory /\ m.routers = Listed(d, b) /\ d \in BOOLEAN /\ b \in BOOLEAN
      /\ m.files \in SUBSET Name /\ m.sockets \in SUBSET Name
  BY <1>2 DEF Sound, ListOK, Memory
<1>4. due \in {"dribble", "batch", "socketio", "stringBuilder", "string", "fileio"}
  BY <1>2 DEF RouterName
<1>5. \A r \in RouterName : r # Nothing
  BY RoutersAssumption
<1> HIDE DEF d, b
<1>6. /\ Contains(m.routers, "dribble") <=> d
      /\ Contains(m.routers, "batch") <=> b
  BY <1>3, ListedIs
<1>7. /\ d => NextRouter(m.routers, "dribble") = IF b THEN "batch" ELSE "socketio"
      /\ b => NextRouter(m.routers, "batch") = "socketio"
      /\ NextRouter(m.routers, "socketio") = "stringBuilder"
      /\ NextRouter(m.routers, "stringBuilder") = "string"
      /\ NextRouter(m.routers, "string") = "fileio" /\ NextRouter(m.routers, "fileio") = Nothing
  BY <1>3, NextIs
<1>8. ASSUME Sound(m', used), due' \in RouterName,
             due' \in Standing \/ (due' = "batch" /\ m'.batch # << >>),
             m'.dribble # "on", Closed', ClosedCopy(m', split)
      PROVE  RoutersIInv'
  <2>1. m'.routers = Listed(m'.dribble # "off", m'.batch # << >>)
    BY <1>8 DEF Sound, ListOK
  <2>2. Contains(m'.routers, due')
    BY <1>8, <2>1, ListedIs
  <2>3. session' = "exit" /\ due' # Nothing
    BY <1>1, <1>5, <1>8
  <2>4. Recording(m', session', split')
    BY <1>8 DEF Recording
  <2> QED BY <1>1, <1>2, <1>8, <2>2, <2>3, <2>4, StillLeaves
<1>9. CASE due = "dribble"
  <2>1. m.dribble = "on" /\ d
    BY <1>2, <1>9 DEF Closed, d
  <2>2. /\ Sound(m', used) /\ m'.dribble = "closed" /\ m'.copy = Copied(m) /\ m'.shown = m.shown
        /\ m'.batch = m.batch
    BY <1>1, <1>2, <1>9, <2>1, DribbleCloses
  <2>3. due' = IF b THEN "batch" ELSE "socketio"
    BY <1>1, <1>7, <1>9, <2>1
  <2>4. due' \in RouterName /\ (due' \in Standing \/ (due' = "batch" /\ m'.batch # << >>))
    BY <2>2, <2>3 DEF RouterName, Standing, b
  <2>5. session' = "exit"
    BY <1>1, <1>5, <2>4
  <2>6. Closed'
    BY <2>2, <2>3, <2>5 DEF Closed, b
  <2>7. ClosedCopy(m', split)
    <3>1. m.shown \o << >> = m.shown
      BY <1>3, ShownIs
    <3> QED BY <1>2, <2>1, <2>2, <3>1 DEF ClosedCopy, Recording
  <2> QED BY <1>8, <2>2, <2>4, <2>6, <2>7
<1>10. CASE due = "batch"
  <2>1. m.dribble # "on" /\ b
    BY <1>2, <1>6, <1>10 DEF Closed
  <2>2. /\ Sound(m', used) /\ m'.dribble = m.dribble /\ m'.batch = << >>
        /\ m'.copy = m.copy /\ (m'.late \/ (m'.late = m.late /\ m'.shown = m.shown)
                                         \/ m.dribble = "off")
    BY <1>1, <1>2, <1>10, <2>1, BatchCloses
  <2>3. due' = "socketio" /\ due' \in RouterName /\ due' \in Standing
    BY <1>1, <1>7, <1>10, <2>1 DEF RouterName, Standing
  <2>4. session' = "exit"
    BY <1>1, <1>5, <2>3
  <2>5. Closed'
    BY <2>1, <2>2, <2>3, <2>4 DEF Closed
  <2>6. ClosedCopy(m', split)
    BY <1>2, <2>2 DEF ClosedCopy
  <2> QED BY <1>8, <2>1, <2>2, <2>3, <2>5, <2>6
<1>11. CASE due \in {"socketio", "stringBuilder", "string", "fileio"}
  <2>1. m.dribble # "on" /\ m.batch = << >> /\ (due # "socketio" => m.sockets = {})
    BY <1>2, <1>11 DEF Closed
  <2>2. PICK openFiles \in SUBSET Name, sockets \in SUBSET Name :
          /\ m' = Named(m, openFiles, sockets)
          /\ openFiles = IF due = "fileio" THEN {} ELSE m.files
          /\ sockets = IF due = "socketio" THEN {} ELSE m.sockets
    <3>1. [m EXCEPT !.files = m.files, !.sockets = m.sockets] = m
      BY <1>3 DEF Memory
    <3>2. due = "socketio" => m' = [m EXCEPT !.files = m.files, !.sockets = {}]
      BY <1>1, <1>3 DEF ExitCallback, Memory
    <3>3. due = "fileio" => m' = [m EXCEPT !.files = {}, !.sockets = m.sockets]
      BY <1>1, <1>3 DEF ExitCallback, Memory
    <3>4. due \in {"stringBuilder", "string"} =>
            m' = [m EXCEPT !.files = m.files, !.sockets = m.sockets]
      BY <1>1, <3>1 DEF ExitCallback
    <3>5. {} \in SUBSET Name
      OBVIOUS
    <3> QED BY <1>3, <1>11, <3>2, <3>3, <3>4, <3>5 DEF Named
  <2>3. /\ Sound(m', used) /\ m'.files = openFiles /\ m'.sockets = sockets /\ m'.dribble = m.dribble
        /\ m'.batch = m.batch /\ m'.late = m.late /\ m'.copy = m.copy /\ m'.shown = m.shown
    BY <1>2, <1>3, <2>2, NamesChange
  <2>4. ClosedCopy(m', split)
    BY <1>2, <2>3 DEF ClosedCopy
  <2>5. CASE due # "fileio"
    <3>1. due' \in {"stringBuilder", "string", "fileio"}
      BY <1>1, <1>7, <1>11, <2>5
    <3>2. due' \in RouterName /\ due' \in Standing
      BY <3>1 DEF RouterName, Standing
    <3>3. session' = "exit"
      BY <1>1, <1>5, <3>2
    <3>4. Closed'
      BY <2>1, <2>2, <2>3, <3>1, <3>3 DEF Closed
    <3> QED BY <1>8, <2>1, <2>3, <2>4, <3>2, <3>4
  <2>6. CASE due = "fileio"
    <3>1. due' = Nothing /\ session' = "over"
      BY <1>1, <1>7, <2>6
    <3>2. Nothing # "dribble"
      BY <1>5 DEF RouterName
    <3>3. Closed'
      BY <2>1, <2>2, <2>3, <2>6, <3>1, <3>2 DEF Closed
    <3>4. Recording(m', session', split')
      BY <2>1, <2>3 DEF Recording
    <3> QED BY <1>1, <1>2, <2>3, <2>4, <3>1, <3>3, <3>4, StillLeaves
  <2> QED BY <2>5, <2>6
<1> QED BY <1>4, <1>9, <1>10, <1>11

-----------------------------------------------------------------------------
(* Together.                                                               *)

LEMMA RoutersStart == RoutersInit => RoutersIInv
<1> SUFFICES ASSUME RoutersInit PROVE RoutersIInv
  OBVIOUS
<1>1. /\ m.routers = DefaultRouters /\ m.files = {} /\ m.sockets = {} /\ m.batch = << >>
      /\ m.echo = << >> /\ m.console = Console /\ m.dribble = "off"
      /\ m.taken = [f \in File \cup {Nothing} |-> << >>]
  BY DEF RoutersInit
<1>2. session = "loop" /\ due = Nothing /\ outputs = 0 /\ used = {} /\ split = FALSE
  BY DEF RoutersInit
<1>3. ListOK(m) /\ m.routers \in Seq(RouterName)
  <2>1. m.routers = Listed(FALSE, FALSE)
    BY <1>1, DefaultIs
  <2>2. m.routers \in Seq(RouterName)
    BY <2>1, ListedIs
  <2> QED BY <1>1, <2>1, <2>2 DEF ListOK
<1>4. m \in Memory
  <2>1. << >> \in Seq(Char) /\ << >> \in Seq(BatchEntry) /\ Console \in Seq(Char)
    BY RoutersAssumption
  <2>2. [f \in File \cup {Nothing} |-> << >>] \in [File \cup {Nothing} -> Seq(Char)]
    BY <2>1
  <2>3. DefaultRouters \in Seq(RouterName)
    BY <1>1, <1>3
  <2> QED BY <2>1, <2>2, <2>3 DEF RoutersInit, Memory
<1>5. BatchOK(m, used) /\ AllRead(m, used)
  BY <1>1, <1>2 DEF BatchOK, AllRead
<1>6. TakenOK(m, used)
  <2>1. m.taken[Nothing] = << >> /\ \A f \in File : m.taken[f] = << >>
    BY <1>1
  <2>2. << >> \o Console = Console
    BY RoutersAssumption, ConcatEmptySeq
  <2> QED BY <1>1, <2>1, <2>2 DEF TakenOK
<1>7. Recording(m, session, split)
  BY <1>1 DEF Recording
<1>8. TranscriptIsSession
  BY <1>7 DEF Recording, TranscriptIsSession, Copied
<1>9. 0 \in 0..MaxOutput
  BY RoutersAssumption
<1> QED BY <1>1, <1>2, <1>3, <1>4, <1>5, <1>6, <1>8, <1>9 DEF RoutersIInv, Sound

LEMMA RoutersStep == RoutersIInv /\ [RoutersNext]_routerVars => RoutersIInv'
<1> SUFFICES ASSUME RoutersIInv, [RoutersNext]_routerVars PROVE RoutersIInv'
  OBVIOUS
<1>1. CASE LoopRead
  BY <1>1, LoopReadKeeps
<1>2. CASE EndOfCommand
  BY <1>2, EndOfCommandKeeps
<1>3. CASE Println
  BY <1>3, PrintlnKeeps
<1>4. CASE GetChar
  BY <1>4, GetCharKeeps
<1>5. CASE Readline
  BY <1>5, ReadlineKeeps
<1>6. CASE FillBuffer
  BY <1>6, FillBufferKeeps
<1>7. CASE \E n \in Name : Printout(n) \/ OpenFile(n) \/ CloseFile(n) \/ Socket(n)
  BY <1>7, PrintoutKeeps, NamesKeep
<1>8. CASE \E f \in File : OpenBatch(f) \/ BatchOption(f)
  BY <1>8, OpenBatchKeeps
<1>9. CASE DribbleOff \/ DribbleOn
  BY <1>9, DribbleKeeps
<1>10. CASE ExitRouter
  BY <1>10, ExitRouterKeeps
<1>11. CASE ExitGoesOn
  BY <1>11, ExitGoesOnKeeps
<1>12. CASE UNCHANGED routerVars
  BY <1>12 DEF routerVars, RoutersIInv, Closed, TranscriptIsSession
<1> QED BY <1>1, <1>2, <1>3, <1>4, <1>5, <1>6, <1>7, <1>8, <1>9, <1>10, <1>11, <1>12
        DEF RoutersNext

LEMMA IInvSuffices == RoutersIInv => RoutersInv
<1> SUFFICES ASSUME RoutersIInv PROVE RoutersInv
  OBVIOUS
<1> DEFINE d == m.dribble # "off"
           b == m.batch # << >>
<1>1. m \in Memory /\ m.routers = Listed(d, b) /\ d \in BOOLEAN /\ b \in BOOLEAN
  BY DEF RoutersIInv, Sound, ListOK
<1>2. RoutersTypeOK
  <2>1. ASSUME NEW i \in DOMAIN m.routers, NEW j \in DOMAIN m.routers, i < j
        PROVE  Priority(m.routers[i]) >= Priority(m.routers[j]) /\ m.routers[i] # m.routers[j]
    BY <1>1, <2>1 DEF Listed, Priority
  <2>2. (Contains(m.routers, "batch") <=> m.batch # << >>) /\ (Dribbles(m) <=> m.dribble # "off")
    BY DribblesIs DEF RoutersIInv, Sound
  <2>3. m.files \cup m.sockets \subseteq Name
    BY <1>1 DEF Memory
  <2> QED BY <2>1, <2>2, <2>3 DEF RoutersIInv, RoutersTypeOK
<1>3. InputOnce
  <2>1. session \notin {"exit", "over"} => AllRead(m, used)
    BY DEF RoutersIInv
  <2>2. /\ m.taken[Nothing] \o m.console = Console
        /\ \A i \in DOMAIN m.batch : m.taken[m.batch[i].file] \o m.batch[i].left = Text[m.batch[i].file]
    BY DEF RoutersIInv, Sound, TakenOK
  <2> QED BY <2>1, <2>2 DEF InputOnce, AllRead
<1>4. TranscriptIsSession
  BY DEF RoutersIInv
<1>5. ExitClosesAll
  <2>1. SUFFICES ASSUME session = "over"
                 PROVE  /\ m.files = {} /\ m.sockets = {} /\ m.batch = << >> /\ m.dribble # "on"
                        /\ m.dribble = "closed" /\ ~split /\ ~m.late => m.copy = m.shown
    BY DEF ExitClosesAll
  <2>2. due = Nothing /\ Closed
    BY <2>1 DEF RoutersIInv
  <2>3. due \notin {"dribble", "batch", "socketio"}
    BY <2>2, RoutersAssumption DEF RouterName
  <2> QED BY <2>1, <2>2, <2>3 DEF RoutersIInv, Closed
<1> QED BY <1>2, <1>3, <1>4, <1>5 DEF RoutersInv

\* What comes in is read once, what goes by is copied, and exit closes all:
\* RoutersInv, in every reachable state.
THEOREM RoutersHold == RoutersSpec => []RoutersInv
<1>1. RoutersInit => RoutersIInv
  BY RoutersStart
<1>2. RoutersIInv /\ [RoutersNext]_routerVars => RoutersIInv'
  BY RoutersStep
<1>3. RoutersIInv => RoutersInv
  BY IInvSuffices
<1> QED BY <1>1, <1>2, <1>3, PTL DEF RoutersSpec

-----------------------------------------------------------------------------
(* Where a name leads.                                                     *)

\* The socket router stands in front of that of the files.
LEMMA PrintoutLeads ==
    ASSUME NEW d \in BOOLEAN, NEW b \in BOOLEAN, m.routers = Listed(d, b),
           NEW name, Printout(name), printed' # Nothing
    PROVE  printed' = <<name, IF name \in m.sockets THEN "socketio" ELSE "fileio">>
<1> DEFINE list == m.routers
           knows(r) == (r = "socketio" /\ name \in m.sockets) \/ (r = "fileio" /\ name \in m.files)
           They == {i \in 1..Len(list) : knows(list[i])}
           i == SelectInSeq(list, knows)
<1>1. printed' = IF i = 0 THEN Nothing ELSE <<name, list[i]>>
  BY DEF Printout
<1>2. i = IF They # {} THEN Min(They) ELSE 0
  BY DEF SelectInSeq
<1>3. i # 0 /\ They # {}
  BY <1>1, <1>2
<1>4. i \in They /\ \A j \in They : i <= j
  <2>1. They \subseteq Nat
    <3>1. Len(list) \in Nat
      BY ListedIs
    <3> QED BY <3>1
  <2> QED BY <1>2, <1>3, <2>1, MinIs
<1>5. i \in 1..Len(list) /\ knows(list[i])
  BY <1>4
<1>6. CASE name \in m.sockets
  <2>1. PICK k \in 1..Len(list) :
          list[k] = "socketio" /\ \A j \in 1..Len(list) : list[j] = "fileio" => k < j
    BY DEF Listed
  <2>2. i <= k
    BY <1>4, <1>6, <2>1
  <2>3. list[i] # "fileio"
    BY <1>5, <2>1, <2>2
  <2> QED BY <1>1, <1>3, <1>5, <1>6, <2>3
<1>7. CASE name \notin m.sockets
  BY <1>1, <1>3, <1>5, <1>7
<1> QED BY <1>6, <1>7

LEMMA StepPrints ==
    ASSUME RoutersIInv, [RoutersNext]_routerVars, printed' # printed, printed' # Nothing
    PROVE  printed'[2] = IF printed'[1] \in m.sockets THEN "socketio" ELSE "fileio"
<1>1. ~UNCHANGED printed
  OBVIOUS
<1>2. \E n \in Name : Printout(n)
  BY <1>1 DEF RoutersNext, routerVars, LoopRead, EndOfCommand, Println, GetChar, Readline,
     FillBuffer, OpenFile, CloseFile, Socket, OpenBatch, BatchOption, DribbleOff, DribbleOn,
     ExitRouter, ExitGoesOn
<1>3. PICK n \in Name : Printout(n)
  BY <1>2
<1>4. m.routers = Listed(m.dribble # "off", m.batch # << >>)
  BY DEF RoutersIInv, Sound, ListOK
<1>5. printed' = <<n, IF n \in m.sockets THEN "socketio" ELSE "fileio">>
  BY <1>3, <1>4, PrintoutLeads
<1> QED BY <1>5

\* A name that has a socket and a file leads to the socket: SocketComesFirst,
\* in every step.
THEOREM SocketFirst == RoutersSpec => SocketComesFirst
<1>1. RoutersInit => RoutersIInv
  BY RoutersStart
<1>2. RoutersIInv /\ [RoutersNext]_routerVars => RoutersIInv'
  BY RoutersStep
<1>3. RoutersIInv /\ [RoutersNext]_routerVars
      => [printed' # printed /\ printed' # Nothing =>
            printed'[2] = IF printed'[1] \in m.sockets THEN "socketio" ELSE "fileio"]_routerVars
  BY StepPrints
<1> QED BY <1>1, <1>2, <1>3, PTL DEF RoutersSpec, SocketComesFirst
=============================================================================
