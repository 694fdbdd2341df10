----------------------------- MODULE FactQueries -----------------------------
(***************************************************************************)
(* Queries on facts (src/src/factqury.c): any-factp, find-fact, find-all-  *)
(* facts, do-for-fact, do-for-all-facts and delayed-do-for-all-facts, over *)
(* the facts of one template, while queries and actions assert and retract *)
(* facts, collect garbage and ask further queries.                         *)
(*                                                                         *)
(* A query is a loop for each of its variables, each in a garbage frame of *)
(* its own, that stands on a fact while inner loops and expressions run.   *)
(* A retracted fact keeps its link to the next one (factmngr.c) and is     *)
(* freed once nobody holds it.  What an expression answers is left open.   *)
(*                                                                         *)
(* Orderly behaviours keep two rules the code relies on and does not       *)
(* enforce: a query's condition retracts nothing, and while a loop stands  *)
(* on a fact that is gone, no other is retracted.  Not modelled: templates *)
(* and their hierarchy, slots, and (return).                               *)
(***************************************************************************)
EXTENDS Naturals, Integers, Sequences, FiniteSets, SequencesExt

CONSTANTS
    Variables,      \* how many variables queries have
    MaxFacts,       \* bound: facts ever asserted
    MaxLoops        \* bound: variables of the queries inside each other

VARIABLES
    heap,     \* facts, the list of the template, garbage frames
    queries,    \* queries under way, the innermost last
    halted,     \* HaltExecution, after an error
    tidy        \* whether behaviours are orderly

queryVars == <<heap, queries, halted, tidy>>

NoMore == 0             \* the end of a list of facts

\* any-factp is find-fact, for us.
FirstKind == {"find-fact", "do-for-fact"}
EntireKind == {"find-all-facts", "do-for-all-facts", "delayed-do-for-all-facts"}

-----------------------------------------------------------------------------
(* Facts and garbage.                                                      *)

Live(S, f) == S.facts[f].state = "live"
HoldFact(S, f, by) == [S EXCEPT !.facts[f].busy = @ + by]
HoldAll(S, found, by) ==
    LET held(f) == Cardinality({<<k, i>> \in (DOMAIN found) \X (1 .. 2) :
                                   i \in DOMAIN found[k] /\ found[k][i] = f})
    IN [S EXCEPT !.facts = [f \in DOMAIN @ |-> [@[f] EXCEPT !.busy = @ + by * held(f)]]]

Successor(list, f) ==
    LET at == SelectInSeq(list, LAMBDA g : g = f)
    IN IF at = Len(list) THEN NoMore ELSE list[at + 1]
NextTemplateFact(S, f) == IF Live(S, f) THEN Successor(S.list, f) ELSE S.facts[f].next

\* RemoveGarbageFacts, of the current garbage frame.
Collect(S) ==
    LET free == {f \in Last(S.frames) : S.facts[f].busy = 0}
    IN [S EXCEPT !.frames[Len(S.frames)] = @ \ free,
                 !.facts = [f \in DOMAIN @ |->
                     IF f \in free THEN [@[f] EXCEPT !.state = "freed"] ELSE @[f]]]

OpenFrame(S) == [S EXCEPT !.frames = Append(@, {})]
CloseFrame(S) ==
    LET C == Collect(S)
        n == Len(C.frames)
    IN [C EXCEPT !.frames = [Front(C.frames) EXCEPT ![n - 1] = @ \cup C.frames[n]]]

\* The next fact that has not been retracted; a link may lead to memory that
\* was given back.
RECURSIVE PastRetracted(_, _)
PastRetracted(S, f) ==
    IF f = NoMore \/ S.facts[f].state # "garbage" THEN f
    ELSE PastRetracted(S, S.facts[f].next)

-----------------------------------------------------------------------------
(* The loops.  A step of a query takes the memory S and the query q to the *)
(* next expression that is evaluated, or to the end of the query.          *)

At(S, q, phase) == [mem |-> S, query |-> [q EXCEPT !.phase = phase, !.fit = TRUE]]
Acts(S, q, soln) ==
    [mem |-> S, query |-> [q EXCEPT !.phase = "action",
                                    !.fit = \A k \in DOMAIN soln : Live(S, soln[k])]]

\* delayed-do-for-all-facts: the solutions that are whole still, in turn.
RECURSIVE ActOnFound(_, _)
ActOnFound(S, q) ==
    IF q.todo = << >> THEN At(CloseFrame(HoldAll(S, q.found, -1)), q, "over")
    ELSE LET rest == [q EXCEPT !.todo = Tail(@)]
         IN IF \E k \in DOMAIN Head(q.todo) : ~Live(S, Head(q.todo)[k]) THEN ActOnFound(S, rest)
            ELSE Acts(S, rest, Head(q.todo))

\* The loops are done.
LoopsDone(S, q) ==
    CASE q.kind = "do-for-fact" /\ q.found # << >> ->
            IF \E k \in DOMAIN q.found[1] : S.facts[q.found[1][k]].state = "freed"
            THEN At([S EXCEPT !.astray = TRUE], q, "over")
            ELSE Acts(HoldAll(S, q.found, 1), q, q.found[1])
      [] q.kind = "delayed-do-for-all-facts" ->
            IF \E k \in DOMAIN q.found : \E i \in DOMAIN q.found[k] :
                   S.facts[q.found[k][i]].state = "freed"
            THEN At([S EXCEPT !.astray = TRUE], q, "over")
            ELSE ActOnFound(HoldAll(OpenFrame(S), q.found, 1), [q EXCEPT !.todo = q.found])
      [] OTHER -> At(S, q, "over")

RECURSIVE Visit(_, _), Leave(_, _, _)

\* The innermost loop of TestEntireTemplate, or TestForFirstFactInTemplate, stands
\* on a fact.
Visit(S, q) ==
    LET f == Last(q.at)
    IN IF f = NoMore THEN Leave(S, q, FALSE)
       ELSE IF Len(q.at) < q.size
       THEN Visit(OpenFrame(HoldFact(S, f, 1)),
                  [q EXCEPT !.at = Append(@, IF S.list = << >> THEN NoMore ELSE Head(S.list))])
       ELSE IF \E k \in 1 .. Len(q.at) - 1 : ~Live(S, q.at[k]) THEN Leave(S, q, FALSE)
       ELSE At(HoldFact(S, f, 1), q, "query")

GoOnSlip(S, q) ==           \* the garbage goes before the link is read
    LET C == IF q.kind \in EntireKind THEN Collect(S) ELSE S
        f == Last(q.at)
        next == IF C.facts[f].state = "freed" THEN f
                ELSE PastRetracted(C, NextTemplateFact(C, f))
    IN IF next # NoMore /\ ~Live(C, next) THEN At([C EXCEPT !.astray = TRUE], q, "over")
       ELSE Visit(C, [q EXCEPT !.at[Len(q.at)] = next])
GoOn(S, q) ==
    LET next == PastRetracted(S, NextTemplateFact(S, Last(q.at)))
    IN IF next # NoMore /\ ~Live(S, next) THEN At([S EXCEPT !.astray = TRUE], q, "over")
       ELSE Visit(IF q.kind \in EntireKind THEN Collect(S) ELSE S,
                  [q EXCEPT !.at[Len(q.at)] = next])

\* A loop ends; when the query stops, so do those around it.
Leave(S, q, stops) ==
    LET outer == [q EXCEPT !.at = Front(@)]
        C == CloseFrame(S)
        R == HoldFact(C, Last(outer.at), -1)
    IN IF outer.at = << >> THEN LoopsDone(C, outer)
       ELSE IF stops THEN Leave(R, outer, TRUE) ELSE GoOn(R, outer)

-----------------------------------------------------------------------------
Runs == ~halted /\ ~heap.astray
Asked == Last(queries)

\* The innermost query goes on to where R says; at its end the one around it does.
Step(R) ==
    /\ heap' = R.mem
    /\ queries' = IF R.query.phase = "over" THEN Front(queries)
                  ELSE [queries EXCEPT ![Len(queries)] = R.query]

LoopsAsked == FoldSeq(LAMBDA q, n : q.size + n, 0, queries)

Ask(kind, size) ==
    LET q == [kind |-> kind, size |-> size, phase |-> "query", fit |-> TRUE,
              at |-> <<IF heap.list = << >> THEN NoMore ELSE Head(heap.list)>>,
              found |-> << >>, todo |-> << >>]
        R == Visit(OpenFrame(heap), q)
    IN /\ Runs /\ size + LoopsAsked <= MaxLoops
       /\ heap' = R.mem
       /\ queries' = IF R.query.phase = "over" THEN queries ELSE Append(queries, R.query)
       /\ UNCHANGED <<halted, tidy>>

\* The condition has been evaluated.
AnswerQuery(holds) ==
    LET q == Asked
        S == HoldFact(IF q.kind \in FirstKind THEN Collect(heap) ELSE heap, Last(q.at), -1)
        adds == [q EXCEPT !.found = Append(@, q.at)]
    IN /\ queries # << >> /\ q.phase = "query" /\ ~heap.astray
       /\ halted => ~holds
       /\ Step(IF halted THEN Leave(S, q, TRUE)
               ELSE IF ~holds THEN GoOn(S, q)
               ELSE IF q.kind \in FirstKind THEN Leave(S, adds, TRUE)
               ELSE IF q.kind = "do-for-all-facts" THEN Acts(HoldFact(S, Last(q.at), 1), q, q.at)
               ELSE GoOn(S, adds))
       /\ UNCHANGED <<halted, tidy>>

\* The action has been evaluated, to its end, or to a (break).
ReturnAction(break) ==
    LET q == Asked
        S == HoldFact(heap, Last(q.at), -1)
    IN /\ queries # << >> /\ q.phase = "action" /\ ~heap.astray
       /\ halted => ~break
       /\ Step(CASE q.kind = "do-for-fact" -> At(HoldAll(heap, q.found, -1), q, "over")
                 [] q.kind = "do-for-all-facts" ->
                        IF halted \/ break THEN Leave(S, q, TRUE) ELSE GoOn(S, q)
                 [] OTHER -> IF halted \/ break THEN ActOnFound(heap, [q EXCEPT !.todo = << >>])
                             ELSE ActOnFound(Collect(heap), q))
       /\ UNCHANGED <<halted, tidy>>

AddFact ==
    /\ Runs /\ Len(heap.facts) < MaxFacts
    /\ heap' = [heap EXCEPT !.facts = @ @@ (Len(@) + 1 :> [state |-> "live", busy |-> 0, next |-> NoMore]),
                                !.list = Append(@, Len(heap.facts) + 1)]
    /\ UNCHANGED <<queries, halted, tidy>>

RetractFact(f) ==
    /\ Runs /\ Live(heap, f)
    /\ tidy => \A k \in DOMAIN queries :
                  /\ queries[k].phase = "action"
                  /\ \A i \in DOMAIN queries[k].at : Live(heap, queries[k].at[i])
    /\ heap' = [heap EXCEPT !.facts[f].state = "garbage", !.facts[f].next = Successor(heap.list, f),
                                !.list = Remove(@, f),
                                !.frames[Len(heap.frames)] = @ \cup {f}]
    /\ UNCHANGED <<queries, halted, tidy>>

\* A loop in an expression, or the next command.
CollectGarbage ==
    /\ Runs
    /\ heap' = Collect(heap)
    /\ UNCHANGED <<queries, halted, tidy>>

HaltEvaluation ==
    /\ Runs /\ queries # << >>
    /\ halted' = TRUE
    /\ UNCHANGED <<heap, queries, tidy>>

NextPrompt ==
    /\ halted /\ queries = << >>
    /\ halted' = FALSE
    /\ UNCHANGED <<heap, queries, tidy>>

-----------------------------------------------------------------------------
QueriesInit ==
    /\ heap = [facts |-> << >>, list |-> << >>, frames |-> <<{}>>, astray |-> FALSE]
    /\ queries = << >>
    /\ halted = FALSE
    /\ tidy \in BOOLEAN

QueriesNext ==
    \/ \E kind \in FirstKind \cup EntireKind, size \in Variables : Ask(kind, size)
    \/ \E holds \in BOOLEAN : AnswerQuery(holds)
    \/ \E break \in BOOLEAN : ReturnAction(break)
    \/ AddFact
    \/ \E f \in DOMAIN heap.facts : RetractFact(f)
    \/ CollectGarbage \/ HaltEvaluation \/ NextPrompt

-----------------------------------------------------------------------------
(* Properties.                                                             *)

\* A fact is held by the loops that stand on it while something inside runs, and
\* by the solutions do-for-fact and delayed-do-for-all-facts act on.
BusyCounts ==
    \A f \in DOMAIN heap.facts :
        heap.facts[f].busy =
            Cardinality({<<k, i>> \in (DOMAIN queries) \X (1 .. 2) :
                             i \in DOMAIN queries[k].at /\ queries[k].at[i] = f})
          + Cardinality({<<k, n, i>> \in (DOMAIN queries) \X (1 .. MaxFacts ^ 2) \X (1 .. 2) :
                             /\ queries[k].at = << >>
                             /\ n \in DOMAIN queries[k].found
                             /\ i \in DOMAIN queries[k].found[n]
                             /\ queries[k].found[n][i] = f})

\* What is retracted waits in one garbage frame until nobody holds it.
GarbageWaits ==
    /\ UNION ToSet(heap.frames) = {f \in DOMAIN heap.facts : heap.facts[f].state = "garbage"}
    /\ \A f \in DOMAIN heap.facts : heap.facts[f].state = "freed" => heap.facts[f].busy = 0
    /\ queries = << >> => Len(heap.frames) = 1

\* Each loop of an orderly behaviour comes to every fact behind the one it stands on,
\* whatever is retracted on the way and even its own.  (But a loop whose own fact is
\* retracted while it is the last one misses what is asserted afterwards.)
LoopsSeeTheRest ==
    tidy =>
        \A k \in DOMAIN queries : \A i \in DOMAIN queries[k].at :
            LET RECURSIVE Ahead(_)
                Ahead(f) == IF f = NoMore \/ heap.facts[f].state = "freed" THEN {}
                            ELSE {f} \cup Ahead(NextTemplateFact(heap, f))
                here == queries[k].at[i]
            IN here # NoMore /\ (Live(heap, here) \/ heap.facts[here].next # NoMore)
               => {f \in ToSet(heap.list) : here < f} \subseteq Ahead(here)

\* Actions begin with facts that are there, delayed ones whatever the actions
\* before them retracted, and solutions are found in the order of the facts.
ActionsGetFacts ==
    \A k \in DOMAIN queries :
        LET q == queries[k] IN
        /\ tidy \/ q.kind = "delayed-do-for-all-facts" => q.fit
        /\ \A n \in 1 .. Len(q.found) - 1 :
              \E i \in DOMAIN q.found[n] :
                  /\ q.found[n][i] < q.found[n + 1][i]
                  /\ \A j \in 1 .. i - 1 : q.found[n][j] = q.found[n + 1][j]

\* Orderly behaviours use no memory that was given back.
NothingFreedIsUsed == tidy => ~heap.astray

\* After memory that was given back has been used, nothing can be said.
QueriesInv ==
    /\ NothingFreedIsUsed
    /\ ~heap.astray => BusyCounts /\ GarbageWaits /\ LoopsSeeTheRest /\ ActionsGetFacts
=============================================================================
