---------------------------- MODULE RuleCompiler ----------------------------
(***************************************************************************)
(* The left-hand side of a rule on its way into the join network           *)
(* (src/src/reorder.c, rulebld.c): nested and, or and not conditions are   *)
(* rewritten into disjuncts, each a flat list of patterns and tests whose  *)
(* nand depths tell where a negated group begins and ends; tests are       *)
(* attached to patterns; joins are built from what is left.                *)
(*                                                                         *)
(* A pattern is an atom, and what a test or a join lets through is the set *)
(* of situations (the sets of atoms that hold) in which it does.           *)
(* Behaviours: left-hand sides, written one pattern or test at a time; the *)
(* invariants say what the compiler makes of each.                         *)
(* Not modelled: variables, hence external tests and hashing; goals.       *)
(***************************************************************************)
EXTENDS Integers, Sequences, FiniteSets, SequencesExt

CONSTANTS
    Atom,           \* what patterns match and tests look at: 1, 2, ...
    MaxLeaves       \* bound: patterns and tests of a left-hand side

VARIABLES
    lhs,            \* the condition that has been written
    leaves          \* patterns and tests in it

ruleVars == <<lhs, leaves>>

Situation == SUBSET Atom
Holds(atom) == {s \in Situation : atom \in s}

Leaf(type, atom, test) ==
    [type |-> type, atom |-> atom, args |-> << >>, test |-> test, secondary |-> Situation,
     negated |-> FALSE, exists |-> FALSE, existsNand |-> FALSE, begin |-> 1, end |-> 1]

Initial == 0                            \* no atom: the initial pattern
Pattern(atom) == Leaf("pattern", atom, Situation)
Test(atom) == Leaf("test", Initial, Holds(atom))

\* A condition that holds others (GetLHSParseNode).
Node(type, args) == [Leaf(type, Initial, Situation) EXCEPT !.args = args]
Not(N) == Node("not", <<N>>)

IsGroup(N) == N.type \in {"and", "or", "not"}
FirstIn(s, P(_)) == SelectInSeq(s, P)
Splice(s, i, t) == SubSeq(s, 1, i - 1) \o t \o SubSeq(s, i + 1, Len(s))

-----------------------------------------------------------------------------
(* ReorderPatterns.                                                        *)

\* PerformReorder1: or moves out, through and and through not.
RECURSIVE PerformReorder1(_)
PerformReorder1(N) ==
    LET moves(A) == \/ A.type = "or"
                    \/ N.type = "and" /\ A.type = "and"
        i == FirstIn(N.args, moves)
        A == N.args[i]
    IN IF N.type \notin {"and", "or", "not"} \/ i = 0 THEN N
       ELSE IF N.type = A.type THEN PerformReorder1([N EXCEPT !.args = Splice(@, i, A.args)])
       ELSE IF N.type = "and"
       THEN PerformReorder1(Node("or",                                   \* ReverseAndOr
                [k \in DOMAIN A.args |-> [N EXCEPT !.args[i] = A.args[k]]]))
       ELSE PerformReorder1([N EXCEPT !.type = "and",
                                      !.args = [k \in DOMAIN A.args |-> Not(A.args[k])]])

\* IncrementNandDepth: a group opens in front of these, and closes behind the last.
RECURSIVE IncrementNandDepth(_, _)
IncrementNandDepth(args, lastCE) ==
    [k \in DOMAIN args |->
        LET last == lastCE /\ k = Len(args) IN
        IF IsGroup(args[k]) THEN [args[k] EXCEPT !.args = IncrementNandDepth(@, last)]
        ELSE [args[k] EXCEPT !.begin = @ + 1, !.end = IF last THEN @ ELSE @ + 1]]

\* PerformReorder2: not moves into patterns and nand depths.
RECURSIVE PerformReorder2(_)
PerformReorder2(N) ==
    LET A == N.args[1]
        B == A.args[1]
        negate(P, ex) == [P EXCEPT !.negated = TRUE, !.exists = ex, !.existsNand = FALSE]
    IN IF N.type # "not" THEN N
       ELSE IF A.type = "pattern" THEN negate(A, FALSE)
       ELSE IF A.type = "not" /\ B.type = "not" THEN PerformReorder2([N EXCEPT !.args = B.args])
       ELSE IF A.type = "not" /\ B.type = "pattern" THEN negate(B, TRUE)
       ELSE IF A.type \in {"and", "not"}
       THEN PerformReorder2([N EXCEPT !.type = A.type, !.args = IncrementNandDepth(A.args, TRUE)])
       ELSE N

\* The condition behind the i-th is a test in the same group.
JoinsNext(N, i) ==
    /\ N.type = "and" /\ i < Len(N.args) /\ N.args[i + 1].type = "test"
    /\ N.args[i].begin = N.args[i].end /\ N.args[i].end = N.args[i + 1].begin

Compresses(N, i, A, depth) ==
    \/ N.type \in {"and", "or"} /\ A.type = N.type
    \/ N.type = "not" /\ A.type = "test"
    \/ /\ A.type = "test" \/ (A.type = "pattern" /\ ~A.negated /\ ~A.exists)
       /\ JoinsNext(N, i)
    \/ N.type = "and" /\ Len(N.args) = 1 /\ A.type = "test"
    \/ N.type = "and" /\ Len(N.args) = 1 /\ A.type = "pattern" /\ depth > 1

\* A test joins what is in front of it; one that ends the group which a
\* pattern begins makes a negated pattern of both.
Joined(A, T, i) ==
    [A EXCEPT !.test = @ \cap T.test,
              !.negated = @ \/ (A.type = "pattern" /\ i = 1 /\ A.begin - 1 = T.end)]

\* CompressCEs: groups of one, groups in groups of their kind, tests that can join.
RECURSIVE CompressCEs(_, _)
RECURSIVE CompressAt(_, _, _, _)
CompressAt(N, i, A, depth) ==
    IF A.type = N.type THEN CompressCEs([N EXCEPT !.args = Splice(@, i, A.args)], depth)
    ELSE IF N.type = "not" THEN [A EXCEPT !.test = Situation \ @]
    ELSE IF JoinsNext(N, i)
    THEN CompressCEs([N EXCEPT !.args = SubSeq(@, 1, i - 1) \o <<Joined(A, @[i + 1], i)>>
                                          \o SubSeq(@, i + 2, Len(@))], depth)
    ELSE A
CompressCEs(N, depth) ==
    IF ~IsGroup(N) \/ \A k \in DOMAIN N.args : ~Compresses(N, k, N.args[k], depth) THEN N
    ELSE LET i == SelectInSeq([k \in DOMAIN N.args |-> k],
                              LAMBDA k : Compresses(N, k, N.args[k], depth))
         IN CompressAt(N, i, N.args[i], depth)

\* ReorderDriver, from the top down until nothing changes.
RECURSIVE ReorderDriver(_, _, _)
RECURSIVE ReorderAgain(_, _, _, _)
ReorderInside(R, pass, depth) ==
    [R EXCEPT !.args = [k \in DOMAIN R.args |->
        IF IsGroup(R.args[k]) THEN ReorderDriver(R.args[k], pass, depth + 1) ELSE R.args[k]]]
ReorderAgain(N, S, pass, depth) ==
    IF ~IsGroup(N) \/ S = N THEN S ELSE ReorderDriver(S, pass, depth)
ReorderDriver(N, pass, depth) ==
    ReorderAgain(N, ReorderInside(
        CompressCEs(IF pass = 1 THEN PerformReorder1(N) ELSE PerformReorder2(N), depth),
        pass, depth), pass, depth)

\* IsExistsSubjoin: two groups open in front of this, and close behind the same.
IsExistsSubjoin(list, i, depth) ==
    LET out == SelectInSubSeq(list, i, Len(list), LAMBDA C : C.end < list[i].begin)
    IN list[i].begin - depth = 2 /\ list[out].end <= depth

RECURSIVE MarkExistsNands(_, _, _)
MarkExistsNands(list, i, depth) ==
    IF i > Len(list) THEN list
    ELSE LET out == SelectInSubSeq(list, i, Len(list), LAMBDA C : C.end <= depth)
             marked == [k \in DOMAIN list |->
                 IF k \notin i .. out THEN list[k]
                 ELSE [list[k] EXCEPT !.begin = @ - 1, !.existsNand = @ \/ k = i,
                                      !.end = IF k = out THEN @ ELSE @ - 1]]
             L == IF IsExistsSubjoin(list, i, depth) THEN marked ELSE list
         IN MarkExistsNands(L, i + 1, L[i].end)

\* AddRemainingInitialPatterns: a group does not begin with a test.
AddInitialPatterns(list) ==
    FlattenSeq([i \in DOMAIN list |->
        IF list[i].type = "test" /\ list[i].begin > (IF i = 1 THEN 1 ELSE list[i - 1].end)
        THEN <<[Pattern(Initial) EXCEPT !.begin = list[i].begin, !.end = list[i].begin,
                                        !.existsNand = list[i].existsNand],
               [list[i] EXCEPT !.existsNand = FALSE]>>
        ELSE <<list[i]>>])

\* ReorderPatterns: the disjuncts.
Disjuncts(R) == IF R.type = "or" THEN R.args ELSE <<R>>
Flattened(D) == IF D.type = "and" THEN D.args ELSE <<D>>
ReorderPatterns(form) ==
    LET disjuncts == Disjuncts(ReorderDriver(ReorderDriver(Node("and", form), 1, 1), 2, 1))
    IN [k \in DOMAIN disjuncts |->
           AddInitialPatterns(MarkExistsNands(Flattened(disjuncts[k]), 1, 1))]

-----------------------------------------------------------------------------
(* AttachTestCEsToPatternCEs.                                              *)

RECURSIVE AttachTestCEsToPatternCEs(_, _)
AttachTestCEsToPatternCEs(list, i) ==
    LET T == list[i]
        L == list[i - 1]
        before == IF i = 2 THEN 0 ELSE list[i - 2].end      \* 0: none
        collapsed == IF before > T.end THEN before ELSE T.end
        further == IF L.negated THEN [L EXCEPT !.secondary = @ \cap T.test]
                   ELSE [L EXCEPT !.test = @ \cap T.test]
        attached ==
            IF T.begin = T.end \/ before = T.begin THEN further
            ELSE IF ~L.negated /\ ~L.existsNand
            THEN [further EXCEPT !.begin = collapsed, !.negated = TRUE]
            ELSE IF ~L.negated
            THEN [further EXCEPT !.begin = collapsed, !.negated = TRUE, !.exists = TRUE,
                                 !.existsNand = FALSE]
            ELSE IF L.exists /\ L.existsNand /\ i = 2
            THEN [further EXCEPT !.begin = collapsed, !.existsNand = FALSE]
            ELSE further
    IN IF i > Len(list) THEN list
       ELSE IF T.type # "test" \/ T.begin > L.end \/ L.begin > L.end
       THEN AttachTestCEsToPatternCEs(list, i + 1)
       ELSE AttachTestCEsToPatternCEs(
                Splice(Splice(list, i, << >>), i - 1, <<[attached EXCEPT !.end = T.end]>>), i)

-----------------------------------------------------------------------------
(* ConstructJoins: what comes through the joins for the conditions from i  *)
(* on, at this depth, behind a join that lets left through.                *)

RECURSIVE ConstructJoins(_, _, _, _)
ConstructJoins(list, i, depth, left) ==
    LET C == list[i]
        n == Len(list)
        \* the last of the group that begins here
        out == IF C.end > depth THEN SelectInSubSeq(list, i + 1, n, LAMBDA D : D.end <= depth)
               ELSE i
        over == out # 0 /\ list[out].end < depth
        external == ~over /\ C.end > depth /\ out # 0 /\ out < n /\ list[out + 1].type = "test"
                          /\ list[out + 1].begin >= depth
        next == IF external THEN out + 2 ELSE out + 1
        lastIteration ==
            \/ over \/ out = 0 \/ next > n
            \/ external /\ list[out + 1].end < depth
            \/ C.end = depth /\ list[i + 1].type = "test" /\ list[i + 1].end < depth
        right == IF C.begin > depth THEN ConstructJoins(list, i, depth + 1, left)
                 ELSE IF C.atom = Initial THEN C.test
                 ELSE Holds(C.atom) \cap C.test
        exists == IF C.begin > depth THEN C.existsNand ELSE C.exists
        negated == IF C.begin > depth THEN TRUE ELSE C.negated
        secondary == IF C.begin > depth THEN (IF external THEN list[out + 1].test ELSE Situation)
                     ELSE C.secondary
        through == (IF negated /\ ~exists THEN left \ right ELSE left \cap right) \cap secondary
    IN IF lastIteration THEN through ELSE ConstructJoins(list, next, depth, through)

\* Slip: a test keeps what it closes, and joins by itself.
AttachedSlip(list) == AttachTestCEsToPatternCEs(list, 3)
Attached(list) == AttachTestCEsToPatternCEs(list, 2)

-----------------------------------------------------------------------------
(* What the rule says, what is left of it on the way, and what its joins   *)
(* let through.                                                            *)

\* The rule matches in the situations that pass the joins of one of its disjuncts.
Matches(form) ==
    UNION {ConstructJoins(Attached(list), 1, 1, Situation) : list \in ToSet(ReorderPatterns(form))}

RECURSIVE Meaning(_)
Meaning(N) ==
    CASE N.type = "pattern" -> Holds(N.atom)
      [] N.type = "test" -> N.test
      [] N.type = "not" -> Situation \ Meaning(N.args[1])
      [] N.type = "or" -> UNION {Meaning(N.args[k]) : k \in DOMAIN N.args}
      [] N.type = "and" -> {s \in Situation : \A k \in DOMAIN N.args : s \in Meaning(N.args[k])}

\* What a list of conditions and nand depths says: a group is refuted, or exists.
RECURSIVE ListMeaning(_, _)
ListMeaning(list, depth) ==
    LET C == list[1]
        out == SelectInSeq(list, LAMBDA D : D.end <= depth)
        group == ListMeaning(SubSeq(list, 1, out), depth + 1)
        itself == IF C.atom = Initial THEN C.test ELSE Holds(C.atom) \cap C.test
        unless(truth, refuted) == IF refuted THEN Situation \ truth ELSE truth
    IN IF list = << >> THEN Situation
       ELSE IF C.begin > depth
       THEN unless(group, ~C.existsNand) \cap ListMeaning(SubSeq(list, out + 1, Len(list)), depth)
       ELSE unless(itself, C.negated /\ ~C.exists) \cap ListMeaning(Tail(list), depth)

\* A test that closes a group, behind a group of one condition.
ClosingTestBehindGroup(list) ==
    \E i \in 1 .. Len(list) - 1 :
        /\ i = 1 \/ list[i - 1].end <= list[i].end
        /\ list[i].end < list[i].begin
        /\ list[i + 1].type = "test"
        /\ list[i + 1].begin = list[i].end
        /\ list[i + 1].end < list[i + 1].begin

-----------------------------------------------------------------------------
(* Left-hand sides: conditions around conditions, to the right and left.   *)

LeafOf(i) ==
    {Pattern(i), Test(i), Not(Pattern(i)), Not(Test(i)), Not(Not(Pattern(i)))}

RulesInit == leaves = 0 /\ lhs = Pattern(1)

RulesNext ==
    /\ leaves < MaxLeaves
    /\ leaves' = leaves + 1
    /\ \E leaf \in LeafOf(leaves + 1) :
          IF leaves = 0 THEN lhs' = leaf
          ELSE \E inner \in IF IsGroup(lhs) /\ lhs.type # "not"
                            THEN {lhs, Not(lhs), Not(Not(lhs))} ELSE {lhs},
                  op \in {"and", "or"} :
                    lhs' \in {Node(op, <<inner, leaf>>), Node(op, <<leaf, inner>>)}

\* A rule may hold the condition, refute it, or ask that it exists.
Forms == IF leaves = 0 THEN {} ELSE {<<lhs>>, <<Not(lhs)>>, <<Not(Not(lhs))>>}

(* Every group that a disjunct opens it closes, within the group it is in:
   reorder.c:104-111 lays beginNandDepth and endNandDepth out so.          *)
GroupsNest ==
    LET nests(list) ==
            /\ list # << >> /\ list[Len(list)].end = 1
            /\ \A i \in DOMAIN list :
                   list[i].end >= 1 /\ list[i].begin >= (IF i = 1 THEN 1 ELSE list[i - 1].end)
    IN \A form \in Forms : \A list \in ToSet(ReorderPatterns(form)) : nests(list)

(* Rewriting keeps the meaning of the left-hand side, however deep its ands,
   ors and nots, tests that are folded into patterns or negated included.  *)
ReorderingKeepsMeaning ==
    \A form \in Forms :
        UNION {ListMeaning(list, 1) : list \in ToSet(ReorderPatterns(form))}
            = Meaning(Node("and", form))

(* The joins let through what the conditions say: a rule matches in a
   situation when its left-hand side is true there.  Except where a test
   closes a group behind a group of one condition: ConstructJoins drops it. *)
JoinsMatchMeaning ==
    \A form \in Forms :
        (\A list \in ToSet(ReorderPatterns(form)) : ~ClosingTestBehindGroup(Attached(list)))
            => Matches(form) = Meaning(Node("and", form))

(* From its conditions to its joins, a rule keeps its meaning.             *)
CompilerKeepsMeaning == GroupsNest /\ ReorderingKeepsMeaning /\ JoinsMatchMeaning
=============================================================================
