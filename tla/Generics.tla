------------------------------ MODULE Generics ------------------------------
(***************************************************************************)
(* Generic functions (src/src/genrcpsr.c, genrccom.c, genrcfun.c,          *)
(* genrcexe.c).  A generic function is an array of methods, the more       *)
(* specific before the less specific; a call runs the first method that    *)
(* is applicable to its arguments, and the method may call the next one.   *)
(*                                                                         *)
(* Arguments, queries on arguments, and methods evaluate expressions, so   *)
(* methods are defined, deleted and called while others are searched for   *)
(* and run.  Behaviours: all such nestings.                                *)
(*                                                                         *)
(* call-next-method looks on from the address of the current method to the *)
(* end of the array of the current generic function.  In an argument of a  *)
(* call of another function the two do not belong together, and what is    *)
(* found depends on where the arrays lie: any of it can happen here.  What *)
(* follows when bytes outside of the two arrays are taken for a method is  *)
(* not said: the call is lost.                                             *)
(*                                                                         *)
(* Not modelled: the implicit methods of system functions, queries that    *)
(* name other parameters or ask for the current argument, types that are   *)
(* deftemplates, instances that are deleted while they are arguments.      *)
(***************************************************************************)
EXTENDS Integers, Sequences, FiniteSets, SequencesExt

CONSTANTS
    Class,          \* the classes of arguments
    HasSuperclass,  \* pairs of them: a class, and one that it inherits from
    Generic,        \* names of generic functions
    Signature,      \* what methods of each are defined with: see Param
    Arguments,      \* what generic functions are called with: sequences of classes
    GivenIndex,     \* the indices that methods are defined with, 0 for none
    MaxMethods,     \* bound: the methods of each, and their indices
    MaxDepth,       \* bound: calls inside calls
    MaxTogether     \* bound: those and the methods of the function called

ASSUME GenericsAssumption ==
    /\ GivenIndex \subseteq Nat
    /\ Arguments \subseteq Seq(Class)
    /\ MaxMethods \in [Generic -> Nat] /\ MaxDepth \in Nat

VARIABLES
    methods,        \* of each generic function, in order
    new_index,      \* of each: the next index, 0 when it is not defined
    frames,         \* the calls that are under way, the innermost last
    current,        \* CurrentGeneric and CurrentMethod
    error           \* "error": EvaluationError and HaltExecution; "halted": only the latter

genericVars == <<methods, new_index, frames, current, error>>

\* A restriction: the classes an argument may have (none: any), and a query (0: none).
Param(types, query) == [types |-> types, query |-> query]

NoMethod == [generic |-> "none", at |-> 0]
Idle == [generic |-> "none", method |-> NoMethod]

Last1(s) == s[Len(s)]
Min2(a, b) == IF a < b THEN a ELSE b

-----------------------------------------------------------------------------
(* Which of two methods comes first.                                       *)

MinOf(m) == IF m.wild THEN Len(m.params) - 1 ELSE Len(m.params)

\* TypeListCompare: the first pair of classes of which one inherits from the
\* other decides, then the shorter list.
TypeListCompare(r1, r2) ==
    LET both == 1 .. Min2(Len(r1), Len(r2))
        related == {i \in both : \/ <<r1[i], r2[i]>> \in HasSuperclass
                                 \/ <<r2[i], r1[i]>> \in HasSuperclass}
        first == CHOOSE i \in related : \A j \in related : i <= j
    IN IF r1 = << >> \/ r2 = << >>
       THEN IF r1 = r2 THEN "identical" ELSE IF r1 = << >> THEN "lower" ELSE "higher"
       ELSE IF related # {}
       THEN IF <<r1[first], r2[first]>> \in HasSuperclass THEN "higher" ELSE "lower"
       ELSE IF Len(r1) < Len(r2) THEN "higher"
       ELSE IF r1 = r2 THEN "identical" ELSE "lower"

\* RestrictionsCompare, of what is to be defined with a method.
RestrictionsCompare(m1, m2) ==
    LET n1 == Len(m1.params)
        n2 == Len(m2.params)
        compared(i) ==
            LET p1 == m1.params[i]
                p2 == m2.params[i]
                types == TypeListCompare(p1.types, p2.types)
            IN IF i = n1 /\ m1.wild /\ ~m2.wild THEN "lower"
               ELSE IF i = n2 /\ ~m1.wild /\ m2.wild THEN "higher"
               ELSE IF types # "identical" THEN types
               ELSE IF p1.query = 0 /\ p2.query # 0 THEN "lower"
               ELSE IF p1.query # 0 /\ p2.query = 0 THEN "higher"
               ELSE "identical"
        decided == {i \in 1 .. Min2(n1, n2) : compared(i) # "identical"}
        first == CHOOSE i \in decided : \A j \in decided : i <= j
        diff == \E i \in 1 .. Min2(n1, n2) : m1.params[i].query # m2.params[i].query
    IN IF decided # {} THEN compared(first)
       ELSE IF n1 = n2 THEN (IF diff THEN "lower" ELSE "identical")
       ELSE IF MinOf(m1) > MinOf(m2) THEN "higher"
       ELSE IF MinOf(m2) < MinOf(m1) THEN "lower"
       ELSE IF m1.wild THEN "lower" ELSE "higher"

\* Slip: the two methods compared are swapped.
FindMethodByRestrictionsSlip(g, sig) ==
    LET place == SelectInSeq(methods[g], LAMBDA m : RestrictionsCompare(m, sig) # "lower")
        found == place # 0 /\ RestrictionsCompare(methods[g][place], sig) = "identical"
    IN [found |-> found, at |-> IF place = 0 THEN Len(methods[g]) + 1 ELSE place]

\* FindMethodByRestrictions: the method itself, or the place for it.
FindMethodByRestrictions(g, sig) ==
    LET place == SelectInSeq(methods[g], LAMBDA m : RestrictionsCompare(sig, m) # "lower")
        found == place # 0 /\ RestrictionsCompare(sig, methods[g][place]) = "identical"
    IN [found |-> found, at |-> IF place = 0 THEN Len(methods[g]) + 1 ELSE place]

FindMethodByIndex(g, index) == SelectInSeq(methods[g], LAMBDA m : m.index = index)

-----------------------------------------------------------------------------
(* Where expressions are evaluated: commands, arguments, queries, methods. *)

Top == Last1(frames)
Phase == IF frames = << >> THEN "command" ELSE Top.phase
\* An error ends the arguments, and no query or method after it is kept from
\* being evaluated; but what it calls returns at once.
Evaluating == Phase \in {"query", "run"} \cup (IF error = "none" THEN {"command"} ELSE {})
                                       \cup (IF error = "error" THEN {} ELSE {"arguments"})
Calling == Evaluating /\ error = "none"

\* The frame whose arguments are in ProcParamArray.
Pushed == SelectLastInSeq(frames, LAMBDA f : f.phase # "arguments")

Busy(g, p, by) == [methods EXCEPT ![g][p].busy = @ + by]
\* Slip: a method that is held once is not executing.
MethodsExecutingSlip(g) == \E p \in DOMAIN methods[g] : methods[g][p].busy > 1
MethodsExecuting(g) == \E p \in DOMAIN methods[g] : methods[g][p].busy > 0

-----------------------------------------------------------------------------
(* Definitions.                                                            *)

\* EvaluationError is cleared, what is halted stays so.
Forgotten == IF error = "error" THEN "halted" ELSE error

\* The index of the next method: behind one that was given.
IndexAfter(next, given) == IF given >= next THEN given + 1 ELSE next

\* defmethod, with an index or (0) without.
Defmethod(g, sig, index) ==
    LET place == FindMethodByRestrictions(g, sig)
        old == FindMethodByIndex(g, index)
        \* AddGenericMethod, or the method of this index in another place
        kept == IF old # 0 THEN RemoveAt(methods[g], old) ELSE methods[g]
        at == IF old # 0 /\ old < place.at THEN place.at - 1 ELSE place.at
        given == IF index # 0 THEN index ELSE IF new_index[g] = 0 THEN 1 ELSE new_index[g]
        meth == [params |-> sig.params, wild |-> sig.wild, index |-> given, busy |-> 0]
    IN /\ Evaluating
       /\ ~MethodsExecuting(g)                                \* ValidGenericName
       /\ ~place.found /\ Len(kept) < MaxMethods[g] /\ given <= MaxMethods[g]
       /\ Len(kept) + Len(frames) < MaxTogether
       /\ methods' = [methods EXCEPT ![g] = InsertAt(kept, at, meth)]
       /\ new_index' = [new_index EXCEPT ![g] = IndexAfter(@, given)]
       /\ error' = Forgotten                                 \* ParseConstruct
       /\ UNCHANGED <<frames, current>>

\* A method with these restrictions is there: its actions are replaced, or
\* the index is another one's and nothing is.
RedefineMethod(g, sig) ==
    /\ Evaluating
    /\ ~MethodsExecuting(g)
    /\ FindMethodByRestrictions(g, sig).found
    /\ error' = Forgotten
    /\ UNCHANGED <<methods, new_index, frames, current>>

\* undefmethod: of one index, or (0) all.
Undefmethod(g, index) ==
    LET at == FindMethodByIndex(g, index)
    IN /\ Evaluating /\ new_index[g] # 0
       /\ ~MethodsExecuting(g)
       /\ index = 0 \/ at # 0
       /\ methods' = [methods EXCEPT ![g] = IF index = 0 THEN << >> ELSE RemoveAt(@, at)]
       /\ UNCHANGED <<new_index, frames, current, error>>

\* undefgeneric: not while it is called.
Undefgeneric(g) ==
    /\ Evaluating /\ new_index[g] # 0
    /\ \A i \in DOMAIN frames : ~(frames[i].kind = "dispatch" /\ frames[i].generic = g)
    /\ methods' = [methods EXCEPT ![g] = << >>]
    /\ new_index' = [new_index EXCEPT ![g] = 0]
    /\ UNCHANGED <<frames, current, error>>

-----------------------------------------------------------------------------
(* Calls.                                                                  *)

\* array: the generic function in whose methods the call looks, behind the one
\* at from.
Frame(kind, phase, array, from, specific, args) ==
    [kind |-> kind, generic |-> current.generic, phase |-> phase, array |-> array, from |-> from,
     specific |-> specific, args |-> args, at |-> 0, param |-> 0, saved |-> current]

Room(g) == Len(frames) < MaxDepth /\ Len(frames) + Len(methods[g]) < MaxTogether

\* GenericDispatch: the generic function is current before its arguments are
\* evaluated.
Dispatch(g, array, from, specific, args) ==
    /\ Room(g)
    /\ frames' = Append(frames, [Frame("dispatch", "arguments", array, from, specific, args)
                                    EXCEPT !.generic = g])
    /\ current' = [current EXCEPT !.generic = g]
    /\ UNCHANGED <<new_index, error>>

Call(g, args) ==
    /\ Calling /\ new_index[g] # 0
    /\ Dispatch(g, g, 0, 0, args)
    /\ UNCHANGED methods

\* call-specific-method holds the method while its arguments are evaluated.
CallSpecificMethod(g, index, args) ==
    LET at == FindMethodByIndex(g, index)
    IN /\ Calling /\ at # 0
       /\ Dispatch(g, g, 0, at, args)
       /\ methods' = Busy(g, at, 1)

OverrideNextMethod(args) ==
    /\ Calling /\ current.method # NoMethod
    /\ Dispatch(current.generic, current.method.generic, current.method.at, 0, args)
    /\ UNCHANGED methods

\* call-next-method and next-methodp look for the next method for the same
\* arguments.
Next1(kind) ==
    /\ current.method # NoMethod /\ Room(current.generic)
    /\ frames' = Append(frames, Frame(kind, "scan", current.method.generic, current.method.at, 0,
                                      frames[Pushed].args))
    /\ UNCHANGED <<methods, new_index, current, error>>

CallNextMethod == Calling /\ Next1("next")
NextMethodP == Evaluating /\ Next1("probe")

\* Not inside a method: an evaluation error.
NoNextMethod ==
    /\ Calling /\ current.method = NoMethod
    /\ error' = "error"
    /\ UNCHANGED <<methods, new_index, frames, current>>

\* A function that is called after an error: it returns, and the error is gone.
CalledWhileHalted ==
    /\ Evaluating /\ error = "error"
    /\ error' = Forgotten
    /\ UNCHANGED <<methods, new_index, frames, current>>

\* A halt with no error: the user interrupts (CatchCtrlC), or a value violates
\* the constraint of a slot (CheckTemplateFact).
Interrupted ==
    /\ Calling /\ frames # << >>
    /\ error' = "halted"
    /\ UNCHANGED <<methods, new_index, frames, current>>

\* The arguments are evaluated and pushed.
ArgumentsDone ==
    /\ error # "error" /\ Phase = "arguments"
    /\ frames' = [frames EXCEPT ![Len(frames)].phase = "scan"]
    /\ UNCHANGED <<methods, new_index, current, error>>

-----------------------------------------------------------------------------
(* IsMethodApplicable and FindApplicableMethod, from query to query.       *)

IsClassApplicable(types, class) ==
    \E t \in ToSet(types) : class = t \/ <<class, t>> \in HasSuperclass

\* What becomes of the method at p when its arguments are tested from the
\* one with this number on: it fits, or fails, or a query is to be evaluated.
Tested(g, p, args, from) ==
    LET m == methods[g][p]
        param(i) == m.params[Min2(i, Len(m.params))]
        arity == Len(args) >= MinOf(m) /\ (Len(args) > MinOf(m) => m.wild)
        fails(i) == param(i).types # << >> /\ ~IsClassApplicable(param(i).types, args[i])
        stops == {i \in from .. Len(args) : fails(i) \/ param(i).query # 0}
        first == CHOOSE i \in stops : \A j \in stops : i <= j
    IN IF ~arity \/ (stops # {} /\ fails(first)) THEN [what |-> "fails", param |-> 0]
       ELSE IF stops = {} THEN [what |-> "fits", param |-> 0]
       ELSE [what |-> "query", param |-> first]

Nothing == [at |-> 0, what |-> "none", param |-> 0]

\* The next method from p on, in the array the call looks in, that does not fail;
\* the one at p is tested from the argument with this number on.
Search(F, p, from) ==
    LET test(q) == Tested(F.array, q, F.args, IF q = p THEN from ELSE 1)
        last == IF F.specific # 0 THEN F.specific ELSE Len(methods[F.array])
        left == {q \in p .. last : test(q).what # "fails"}
        q == CHOOSE r \in left : \A s \in left : r <= s
    IN IF left = {} THEN Nothing
       ELSE [at |-> q, what |-> test(q).what, param |-> test(q).param]

\* Where it may stop.  The array of the current generic function bounds the search:
\* when it is another one, it lies before the method, and nothing is left; or behind,
\* and the rest of this array is gone through, and then what lies between them.
Stops(F, p, from) ==
    LET found == Search(F, p, from)
        behind == IF found.at # 0 THEN {found}
                  ELSE {[Nothing EXCEPT !.what = what] : what \in {"scan", "lost"}}
    IN IF F.array = F.generic \/ (found.at # 0 /\ found.at = F.at) THEN {found}
       ELSE {Nothing} \cup (IF methods[F.generic] = << >> THEN {} ELSE behind)

\* Slip: the current method is left as it is.
ReturnSlip ==
    /\ frames' = Front(frames)
    /\ current' = [current EXCEPT !.generic = Top.saved.generic]

\* Without its innermost frame: current is what it was before the call.
Return ==
    /\ frames' = Front(frames)
    /\ current' = Top.saved

\* Where a search stops: busy says what it is busy with.
Stop(found, busy) ==
    LET F == Top
        n == Len(frames)
        held == [busy EXCEPT ![F.array][found.at].busy = @ + 1]
        meth == [generic |-> F.array, at |-> found.at]
    IN \/ /\ found.what = "query"                             \* counted already when it was picked
          /\ methods' = IF F.specific # 0 THEN busy ELSE held
          /\ frames' = [frames EXCEPT ![n].phase = "query", ![n].at = found.at,
                                      ![n].param = found.param]
          /\ UNCHANGED <<current, error>>
       \/ /\ found.what = "fits" /\ F.kind # "probe"
          /\ methods' = held
          /\ frames' = [frames EXCEPT ![n].phase = "run", ![n].at = found.at]
          /\ current' = [current EXCEPT !.method = meth]
          /\ UNCHANGED error
       \/ /\ found.what \in {"scan", "lost"}                 \* behind the end of the array
          /\ methods' = busy
          /\ frames' = [frames EXCEPT ![n].phase = found.what, ![n].array = F.generic,
                                      ![n].from = 0, ![n].at = 0]
          /\ UNCHANGED <<current, error>>
       \/ /\ found.what \in {"fits", "none"} /\ F.kind = "probe"    \* next-methodp answers
          /\ methods' = busy
          /\ Return
          /\ UNCHANGED error
       \/ /\ found.what = "none" /\ F.kind # "probe"         \* not applicable: an evaluation error
          /\ methods' = IF F.specific # 0
                        THEN [busy EXCEPT ![F.generic][F.specific].busy = @ - 1] ELSE busy
          /\ Return
          /\ error' = "error"

FindApplicableMethod ==
    /\ Phase = "scan"
    /\ \E found \in Stops(Top, IF Top.specific # 0 THEN Top.specific ELSE Top.from + 1, 1) :
          Stop(found, methods)
    /\ UNCHANGED new_index

\* A query has answered, after an error too: the search goes on.
QueryDone(answer) ==
    LET F == Top
    IN /\ Phase = "query"
       /\ \E found \in IF answer THEN Stops(F, F.at, F.param + 1) ELSE Stops(F, F.at + 1, 1) :
             Stop(found, Busy(F.array, F.at, IF F.specific # 0 THEN 0 ELSE -1))
       /\ UNCHANGED new_index

\* A method has returned, or was ended by an error.
MethodDone ==
    /\ Phase = "run"
    /\ methods' = Busy(Top.array, Top.at, IF Top.specific # 0 THEN -2 ELSE -1)
    /\ Return
    /\ UNCHANGED <<new_index, error>>

\* An error in the arguments ends the call.
ArgumentsFail ==
    /\ error = "error" /\ Phase = "arguments"
    /\ methods' = IF Top.specific # 0 THEN Busy(Top.generic, Top.specific, -1) ELSE methods
    /\ Return
    /\ UNCHANGED <<new_index, error>>

\* try ends an error wherever it is evaluated; the next command, a halt as well.
ErrorEnds ==
    /\ Phase \notin {"scan", "lost"}
    /\ error = "error" \/ (error = "halted" /\ frames = << >>)
    /\ error' = "none"
    /\ UNCHANGED <<methods, new_index, frames, current>>

GenericsInit ==
    /\ methods = [g \in Generic |-> << >>]
    /\ new_index = [g \in Generic |-> 0]
    /\ frames = << >>
    /\ current = Idle
    /\ error = "none"

DefinitionsNext(g) ==
    \/ \E sig \in Signature[g] :
          \/ RedefineMethod(g, sig)
          \/ \E index \in GivenIndex : Defmethod(g, sig, index)
    \/ \E index \in 0 .. MaxMethods[g] : Undefmethod(g, index)
    \/ Undefgeneric(g)

GenericsNext ==
    \/ \E g \in Generic :
          \/ DefinitionsNext(g)
          \/ \E args \in Arguments :
                Call(g, args) \/ \E index \in 1 .. MaxMethods[g] : CallSpecificMethod(g, index, args)
    \/ \E args \in Arguments : OverrideNextMethod(args)
    \/ CallNextMethod \/ NextMethodP \/ NoNextMethod
    \/ CalledWhileHalted \/ Interrupted
    \/ ArgumentsDone \/ FindApplicableMethod \/ MethodDone \/ ArgumentsFail \/ ErrorEnds
    \/ \E answer \in BOOLEAN : QueryDone(answer)

GenericsSpec == GenericsInit /\ [][GenericsNext]_genericVars

-----------------------------------------------------------------------------
(* Properties.                                                             *)

\* The places of the frames, the methods and what is current fit together.
GenericsTypeOK ==
    /\ \A g \in Generic :
          /\ new_index[g] \in 0 .. MaxMethods[g] + 1 /\ Len(methods[g]) <= MaxMethods[g]
          /\ \A p \in DOMAIN methods[g] :
                methods[g][p].busy \in 0 .. 2 * MaxDepth /\ methods[g][p].index \in 1 .. MaxMethods[g]
    /\ \A i \in DOMAIN frames :
          LET F == frames[i]
          IN /\ F.kind \in {"dispatch", "next", "probe"}
             /\ F.phase \in {"arguments", "scan", "query", "run", "lost"}
             /\ {F.at, F.specific} \subseteq 0 .. Len(methods[F.array])
             /\ F.phase \in {"query", "run"} => F.at # 0
    /\ error \in {"none", "halted", "error"}

\* What a call keeps from changing: the method it runs, or evaluates a query of; and
\* the one that call-specific-method has picked, which its queries do not count again.
Occupies(F, g, p) ==
    /\ F.array = g /\ F.at = p
    /\ F.phase = "run" \/ (F.phase = "query" /\ F.specific = 0)
Picks(F, g, p) == F.array = g /\ F.specific = p

\* A method's busy count is the number of calls that hold it and of those that have
\* picked it: 0 again when they are over, however they ended.
BusyCountsFrames ==
    \A g \in Generic : \A p \in DOMAIN methods[g] :
        methods[g][p].busy =
            Cardinality({i \in DOMAIN frames : Occupies(frames[i], g, p)})
          + Cardinality({i \in DOMAIN frames : Picks(frames[i], g, p)})

\* While a method is held by a call, one call-specific-method has picked included,
\* the array of methods it is in stays as it is: calls keep places in it.
MethodsStay ==
    [][\A g \in Generic :
          (\E i \in DOMAIN frames : \E p \in DOMAIN methods[g] :
              Occupies(frames[i], g, p) \/ Picks(frames[i], g, p))
             => /\ Len(methods'[g]) = Len(methods[g])
                /\ \A p \in DOMAIN methods[g] :
                      [methods'[g][p] EXCEPT !.busy = 0] = [methods[g][p] EXCEPT !.busy = 0]]_genericVars

Runs(i) == frames[i].phase = "run"

\* Whatever was called and however it ended, the current method is that of the
\* innermost call that runs one, and the generic function the one that was called,
\* be the method its own or not.
CurrentIsRunning ==
    LET i == SelectLastInSeq(frames, LAMBDA f : f.phase = "run")
    IN /\ current.method = IF i = 0 THEN NoMethod
                           ELSE [generic |-> frames[i].array, at |-> frames[i].at]
       /\ frames # << >> /\ Runs(Len(frames)) => current.generic = Top.generic

\* The method that call-next-method, next-methodp or override-next-method
\* reaches in a method of the generic function called is another one of that
\* function, and behind it: the chain of shadowed methods ends.
ShadowsComeLater ==
    \A i, j \in DOMAIN frames :
        /\ i < j /\ Runs(i) /\ \A k \in i + 1 .. j - 1 : ~Runs(k)
        /\ frames[j].from # 0 \/ frames[j].kind # "dispatch"
        /\ frames[i].array = frames[j].generic /\ frames[j].at # 0
        => frames[j].array = frames[i].array /\ frames[j].at > frames[i].at

\* Method indices are not given twice, and the next one is free.
IndicesDistinct ==
    \A g \in Generic : \A p, q \in DOMAIN methods[g] :
        /\ p # q => methods[g][p].index # methods[g][q].index
        /\ methods[g][p].index < new_index[g]

\* What a method is applicable to where its queries are true.
Accepts(m) ==
    {args \in UNION {[1 .. n -> Class] : n \in 0 .. 2} :
        /\ Len(args) >= MinOf(m) /\ (Len(args) > MinOf(m) => m.wild)
        /\ \A i \in DOMAIN args :
              LET types == m.params[Min2(i, Len(m.params))].types
              IN types = << >> \/ IsClassApplicable(types, args[i])}

\* The methods of a generic function take as many arguments each, and each of their
\* parameters is restricted to one class or none.
Comparable(g) ==
    \A m, n \in ToSet(methods[g]) :
        /\ Len(m.params) = Len(n.params) /\ m.wild = n.wild
        /\ \A i \in DOMAIN m.params : Len(m.params[i].types) <= 1

\* m accepts strictly less than n, and nothing that a query of n alone keeps out.
Narrower(m, n) ==
    /\ Accepts(m) # {} /\ Accepts(m) # Accepts(n) /\ Accepts(m) \subseteq Accepts(n)
    /\ \A i \in DOMAIN n.params : n.params[i].query \in {0, m.params[i].query}

\* Of methods that can be compared, whatever the order they are defined in, indexed and
\* deleted, one that is narrower than another comes before it and is not hidden by it;
\* and no two have the same restrictions: one that is defined again takes the place of
\* the old one (genrcpsr.c:FindMethodByRestrictions, RestrictionsCompare).
MethodsInOrder ==
    \A g \in Generic : \A p, q \in DOMAIN methods[g] :
        Comparable(g) /\ p # q
          => /\ methods[g][p].params # methods[g][q].params
             /\ Narrower(methods[g][p], methods[g][q]) => p < q

\* genrcpsr.c:1619: "The method with the greater number of regular parameters has
\* precedence", when those that both have are restricted alike.
MoreParametersFirst ==
    \A g \in Generic : \A p, q \in DOMAIN methods[g] :
        LET m == methods[g][p]
            n == methods[g][q]
        IN ~m.wild /\ ~n.wild /\ IsStrictPrefix(n.params, m.params) => p < q

\* Calls and methods fit together, however they nest and end.
GenericsInv ==
    /\ GenericsTypeOK
    /\ BusyCountsFrames
    /\ CurrentIsRunning
    /\ ShadowsComeLater
    /\ IndicesDistinct
=============================================================================
