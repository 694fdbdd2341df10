------------------------------- MODULE Agenda -------------------------------
(***************************************************************************)
(* The agenda of one module of rules (src/src/agenda.c) and the conflict   *)
(* resolution strategies that order it (src/src/crstrtgy.c).               *)
(*                                                                         *)
(* An agenda is a doubly linked list of activations and, over it, a list   *)
(* of salience groups, each with pointers to the first and last activation *)
(* of its salience.  A new activation is placed by walking its group only, *)
(* and where the group is new, behind the last of the group before it: if  *)
(* a pointer of a group were stale, everything placed later would be, too. *)
(*                                                                         *)
(* Operators only; Engine holds the state.  Each completed match of a rule *)
(* has at most one activation (the marker of the partial match), so an     *)
(* activation goes by the name of its match.                               *)
(***************************************************************************)
EXTENDS Integers, Sequences, FiniteSets, SequencesExt

CONSTANTS
    Module,      \* modules of constructs
    Rule, Match, \* rules and their completed matches
    NoMatch,
    ModuleOf,    \* rule -> module
    RuleOf,      \* match -> rule
    Basis,       \* match -> time tags of its facts, pattern by pattern; 0 if negated
    Complexity   \* rule -> number of tests on its left-hand side

ASSUME ModuleAssumption == ModuleOf \in [Rule -> Module]
ASSUME RuleAssumption == RuleOf \in [Match -> Rule]
ASSUME BasisAssumption == Basis \in [Match -> Seq(Nat)] /\ \A m \in Match : Basis[m] # << >>
ASSUME ComplexityAssumption == Complexity \in [Rule -> Nat]
ASSUME NoMatchAssumption == NoMatch \notin Match

Strategies == {"depth", "breadth", "lex", "mea", "complexity", "simplicity", "random"}

\* An agenda: the list, and the groups in falling order of salience.
NoAgenda == [list |-> << >>, groups |-> << >>]

-----------------------------------------------------------------------------
(* Which of two activations goes first.  act gives an activation's tag,    *)
(* salience and random number.                                             *)

Precedes(s, t) ==     \* s is the smaller, entry by entry, or a shorter beginning
    \/ \E i \in DOMAIN s \cap DOMAIN t :
          s[i] < t[i] /\ \A j \in 1..(i - 1) : s[j] = t[j]
    \/ Len(s) < Len(t) /\ IsPrefix(s, t)

\* The time tags, the latest first: at i stands the one with fewer than i later.
SortPartialMatch(m) ==
    LET b == Basis[m]
        later(v) == {j \in DOMAIN b : b[j] > v}
    IN [i \in DOMAIN b |-> Min({v \in ToSet(b) : Cardinality(later(v)) < i})]

Recency == [m \in Match |-> SortPartialMatch(m)]

Tests(m) == Complexity[RuleOf[m]]

LessRecent(m, x) == \/ Precedes(Recency[m], Recency[x])
                    \/ Recency[m] = Recency[x] /\ Tests(m) < Tests(x)
AsRecent(m, x) == Recency[m] = Recency[x] /\ Tests(m) = Tests(x)

\* m, which is to be placed, goes behind x.
GoesAfter(strategy, act, m, x) ==
    LET later == act[m].tag > act[x].tag IN
    CASE strategy = "depth" -> act[m].tag < act[x].tag
      [] strategy = "breadth" -> act[m].tag >= act[x].tag
      [] strategy = "lex" -> LessRecent(m, x) \/ (AsRecent(m, x) /\ later)
      [] strategy = "mea" ->
            \/ Basis[m][1] < Basis[x][1]
            \/ /\ Basis[m][1] = Basis[x][1]
               /\ LessRecent(m, x) \/ (AsRecent(m, x) /\ later)
      [] strategy = "complexity" -> Tests(m) < Tests(x) \/ (Tests(m) = Tests(x) /\ later)
      [] strategy = "simplicity" -> Tests(m) > Tests(x) \/ (Tests(m) = Tests(x) /\ later)
      [] strategy = "random" ->
            \/ act[m].random > act[x].random
            \/ act[m].random = act[x].random /\ later

-----------------------------------------------------------------------------
(* Groups.                                                                 *)

Group(sal) == [salience |-> sal, first |-> NoMatch, last |-> NoMatch]

At(list, m) == SelectInSeq(list, LAMBDA y : y = m)

\* Searches for a group end at a salience that is not higher.
NotHigher(groups, sal) == SelectInSeq(groups, LAMBDA g : g.salience <= sal)

\* FindSalienceGroup: the place of the group in the list, or 0.
FindSalienceGroup(groups, sal) ==
    LET k == NotHigher(groups, sal)
    IN IF k # 0 /\ groups[k].salience = sal THEN k ELSE 0

ReuseOrCreateSalienceGroup(groups, sal) ==
    LET k == NotHigher(groups, sal) IN
    IF k = 0 THEN Append(groups, Group(sal))
    ELSE IF groups[k].salience = sal THEN groups ELSE InsertAt(groups, k, Group(sal))

\* The place in the list behind which m goes, 0 for the front.
PlaceOf(strategy, act, A, k, m) ==
    LET g == A.groups[k]
        at(x) == At(A.list, x)
        before == IF k = 1 THEN 0 ELSE at(A.groups[k - 1].last)
        goesAfter(i) == GoesAfter(strategy, act, m, A.list[i])
        members == at(g.first)..at(g.last)
    IN
    IF g.first = NoMatch THEN before
    ELSE IF strategy = "breadth"     \* from the end of the group
    THEN LET ahead == {i \in members : goesAfter(i)}
         IN IF ahead = {} THEN before ELSE Max(ahead)
    ELSE IF strategy \in {"lex", "mea"} /\ goesAfter(at(g.last)) THEN at(g.last)
    ELSE LET behind == {i \in members : ~goesAfter(i)}
             stop == IF behind = {} THEN at(g.last) + 1 ELSE Min(behind)
         IN IF stop = at(g.first) THEN before ELSE stop - 1

\* Group g with m, placed behind after; before is the end of the group ahead.
Joins(g, before, after, m) ==
    [g EXCEPT !.first = IF after \in {NoMatch, before} THEN m ELSE @,
              !.last = IF g.last \in {NoMatch, after} THEN m ELSE @]

\* The last two calls of AddActivation and of ReorderAgenda's loop: the group
\* of the activation, made if there is none, and the place.
PlaceActivation(strategy, act, A, m) ==
    LET groups == ReuseOrCreateSalienceGroup(A.groups, act[m].salience)
        k == FindSalienceGroup(groups, act[m].salience)
        p == PlaceOf(strategy, act, [A EXCEPT !.groups = groups], k, m)
        before == IF k = 1 THEN NoMatch ELSE groups[k - 1].last
        after == IF p = 0 THEN NoMatch ELSE A.list[p]
    IN [list |-> InsertAt(A.list, p + 1, m),
        groups |-> [groups EXCEPT ![k] = Joins(@, before, after, m)]]

\* RemoveActivationFromGroup: the last one takes the group with it.
LeavesSlip(groups, k, list, i) ==     \* keeps the group's first
    LET g == groups[k] IN
    IF g.first = g.last THEN RemoveAt(groups, k)
    ELSE [groups EXCEPT ![k].last = IF @ = list[i] THEN list[i - 1] ELSE @]

Leaves(groups, k, list, i) ==
    LET g == groups[k] IN
    IF g.first = g.last THEN RemoveAt(groups, k)
    ELSE [groups EXCEPT ![k].first = IF @ = list[i] THEN list[i + 1] ELSE @,
                        ![k].last = IF @ = list[i] THEN list[i - 1] ELSE @]

\* DetachActivation, and what RemoveActivation does to the agenda.
DetachActivation(act, A, m) ==
    LET k == FindSalienceGroup(A.groups, act[m].salience)
        i == At(A.list, m)
    IN [list |-> RemoveAt(A.list, i),
        groups |-> IF k = 0 THEN A.groups ELSE Leaves(A.groups, k, A.list, i)]

\* ReorderAgenda: take the list apart and place its activations one by one.
ReorderAgenda(strategy, act, A) ==
    LET placed[n \in 0 .. Len(A.list)] ==
          IF n = 0 THEN NoAgenda ELSE PlaceActivation(strategy, act, placed[n - 1], A.list[n])
    IN placed[Len(A.list)]

\* ClearRuleFromAgenda: go over the list and detach what belongs to the rule.
ClearRuleFromAgenda(act, A, gone) ==
    LET left[n \in 0 .. Len(A.list)] ==
          IF n = 0 THEN A
          ELSE IF A.list[n] \in gone THEN DetachActivation(act, left[n - 1], A.list[n])
          ELSE left[n - 1]
    IN left[Len(A.list)]

-----------------------------------------------------------------------------
(* What an agenda must be.                                                 *)

\* The list is in the order of salience and strategy, pair by pair.
InOrder(strategy, act, A) ==
    \A i, j \in DOMAIN A.list :
        i < j => LET m == A.list[i]  n == A.list[j] IN
                 \/ act[m].salience > act[n].salience
                 \/ act[m].salience = act[n].salience /\ GoesAfter(strategy, act, n, m)

\* The groups are the saliences on the list, each with its first and last.
GroupsFit(act, A) ==
    /\ \A j, k \in DOMAIN A.groups : j < k => A.groups[j].salience > A.groups[k].salience
    /\ {g.salience : g \in ToSet(A.groups)} = {act[m].salience : m \in ToSet(A.list)}
    /\ \A g \in ToSet(A.groups) :
          LET members == {i \in DOMAIN A.list : act[A.list[i]].salience = g.salience}
          IN g.first = A.list[Min(members)] /\ g.last = A.list[Max(members)]

\* The activations of ms, with tags in the order they are made.
Activations(order, sal, random) ==
    [m \in ToSet(order) |-> [tag |-> At(order, m), salience |-> sal[m], random |-> random[m]]]

\* Whatever order the activations of a module are made in, with whatever
\* saliences and random numbers, the agenda is in order under every strategy,
\* and ReorderAgenda puts it in order under every other (SetStrategy).
EveryStrategyOrders(ms) ==
    \A s \in Strategies, t \in Strategies, order \in SetToSeqs(ms),
       sal \in [ms -> {0, 10}], random \in [ms -> {1, 2}] :
       LET act == Activations(order, sal, random)
           A == ReorderAgenda(s, act, [list |-> order, groups |-> << >>])
           B == ReorderAgenda(t, act, A)
       IN /\ InOrder(s, act, A) /\ GroupsFit(act, A)
          /\ InOrder(t, act, B) /\ GroupsFit(act, B)
=============================================================================
