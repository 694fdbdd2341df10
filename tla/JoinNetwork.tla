---------------------------- MODULE JoinNetwork ----------------------------
(***************************************************************************)
(* The join network (src/src/drive.c, retract.c, reteutil.c): what an      *)
(* alpha match that comes or goes does to the partial matches of every     *)
(* join below, to the activations of completed matches and to the facts    *)
(* they support (lgcldpnd.c).                                              *)
(*                                                                         *)
(* A partial match stands in the left or right memory of a join and is     *)
(* named by its place and parents.  Of its links, the list of its children *)
(* and the list of what it blocks are read off the memories and markers.   *)
(* Hash buckets only save tests, so a memory is one list here, and Test    *)
(* is network test and hash together.                                      *)
(*                                                                         *)
(* Operators on a network N, a record; TruthMaintenance holds the state.   *)
(* Not modelled: goals, certainty factors, (test) conditions of their own  *)
(* behind a pattern, and patterns on objects.                              *)
(***************************************************************************)
EXTENDS Integers, Sequences, FiniteSets, SequencesExt

CONSTANTS
    Join, Pattern, Fact,
    None,          \* no fact, no partial match, no right input
    Cut, Unlinked, \* a discarded match that is garbage still, see Discard
    Right,         \* join -> the pattern or the join on its right; None: end of a rule
    Sense,         \* join -> "positive", "negated" or "exists"
    Links,         \* join -> the memories its results go to: <<join, "LHS" or "RHS">>
    FirstJoins,    \* joins with nothing on their left
    Entry,         \* pattern -> the joins it enters, in order
    Matches(_),    \* fact -> the patterns it satisfies, in order
    Test(_, _, _)  \* join, facts on the left, facts on the right

ASSUME JoinNetworkAssumption ==
    /\ Right \in [Join -> Join \cup Pattern \cup {None}]
    /\ Sense \in [Join -> {"positive", "negated", "exists"}]
    /\ Links \in [Join -> Seq(Join \X {"LHS", "RHS"})]
    /\ FirstJoins \subseteq Join /\ Entry \in [Pattern -> Seq(Join)]
    /\ \A f \in Fact : Matches(f) \in Seq(Pattern)

FromTheRight == {j \in Join : Right[j] \in Join}
RuleEnds == {j \in Join : Right[j] = None}

Alpha(p, f) == [place |-> <<p, "alpha">>, facts |-> <<f>>, left |-> None, right |-> None]

\* The empty match on the left of a first join that is negated or exists.
Root(j) == [place |-> <<j, "LHS">>, facts |-> << >>, left |-> None, right |-> None]

JoinOf(pm) == pm.place[1]

EmptyNetwork ==
    [alpha |-> [p \in Pattern |-> << >>],
     lhs |-> [j \in Join |-> IF j \in FirstJoins /\ Sense[j] # "positive" THEN <<Root(j)>>
                             ELSE << >>],
     rhs |-> [j \in Join |-> << >>],
     marker |-> << >>,                  \* blocked match -> what blocks it
     acts |-> {},                       \* completed matches with an activation
     support |-> [f \in Fact |-> {}],   \* dependents: matches a fact depends on
     lost |-> << >>,                    \* UnsupportedDataEntities
     gone |-> None,                     \* the fact being retracted
     bind |-> None]                     \* TheLogicalBind, see Discard

-----------------------------------------------------------------------------
(* Memories and lineage.                                                   *)

RightMemory(N, j) == IF j \in FromTheRight THEN N.rhs[j] ELSE N.alpha[Right[j]]

\* UpdateBetaPMLinks: a new match goes to the front on the left, where it is
\* found first, and to the end on the right, behind what was searched already.
Enter(N, pm) ==
    IF pm.place[2] = "LHS"
    THEN [N EXCEPT !.lhs[JoinOf(pm)] = <<pm>> \o @]
    ELSE [N EXCEPT !.rhs[JoinOf(pm)] = Append(@, pm)]

Memory(N, link) == IF link[2] = "LHS" THEN N.lhs[link[1]] ELSE Reverse(N.rhs[link[1]])

Beta(N) == UNION {ToSet(N.lhs[j]) \cup ToSet(N.rhs[j]) : j \in Join}

ChildrenAt(N, links, Of(_)) ==
    FoldLeft(LAMBDA s, link : SelectSeq(Memory(N, link), Of) \o s, << >>, links)

\* Children of a match of join j, or of an alpha match.
Children(N, pm) == ChildrenAt(N, Links[JoinOf(pm)], LAMBDA c : c.left = pm)
AlphaChildren(N, a) ==
    FoldLeft(LAMBDA s, j : ChildrenAt(N, Links[j], LAMBDA c : c.right = a) \o s,
             << >>, Entry[a.place[1]])

Blocked(N, pm) == pm \in DOMAIN N.marker
BlockList(N, b) == {x \in DOMAIN N.marker : N.marker[x] = b}
AddBlockedLink(N, x, b) ==
    [N EXCEPT !.marker = [y \in DOMAIN @ \cup {x} |-> IF y = x THEN b ELSE @[y]]]
RemoveBlockedLink(N, x) == [N EXCEPT !.marker = [y \in DOMAIN @ \ {x} |-> @[y]]]

\* PartialMatchWillBeDeleted: the match holds the fact being retracted.
WillBeDeleted(N, pm) == N.gone # None /\ N.gone \in ToSet(pm.facts)

\* RemoveLogicalSupport: what depended on this match alone is queued.
RemoveLogicalSupport(N, pm) ==
    LET held == {f \in Fact : pm \in N.support[f]} IN
    [N EXCEPT !.support = [f \in Fact |-> @[f] \ {pm}],
              !.lost = SetToSeq({f \in held : N.support[f] = {pm}}) \o @]

DiscardSlip(N, pm, how) ==              \* leaves the activation
    RemoveLogicalSupport(
        [RemoveBlockedLink(N, pm) EXCEPT
            !.lhs[JoinOf(pm)] = IF pm.place[2] = "LHS" THEN Remove(@, pm) ELSE @,
            !.rhs[JoinOf(pm)] = IF pm.place[2] = "RHS" THEN Remove(@, pm) ELSE @,
            !.bind = IF @ = pm THEN how ELSE @],
        pm)

\* The match leaves its memory.  Where it is the bind of the rule that is firing
\* it is kept as garbage: Cut has lost its place but not its left parent.
Discard(N, pm, how) ==
    RemoveLogicalSupport(
        [RemoveBlockedLink(N, pm) EXCEPT
            !.lhs[JoinOf(pm)] = IF pm.place[2] = "LHS" THEN Remove(@, pm) ELSE @,
            !.rhs[JoinOf(pm)] = IF pm.place[2] = "RHS" THEN Remove(@, pm) ELSE @,
            !.acts = @ \ {pm},
            !.bind = IF @ = pm THEN how ELSE @],
        pm)

-----------------------------------------------------------------------------
(* A match comes.                                                          *)

RECURSIVE AssertLeft(_, _, _), AssertRight(_, _, _), Unblock(_, _), RetractBeta(_, _)

\* PPDrive, and the end of EmptyDrive: a result of join j into every memory it
\* is linked to.
Drive(N, j, left, right, facts) ==
    FoldLeft(LAMBDA M, link :
                LET pm == [place |-> link, facts |-> facts, left |-> left, right |-> right]
                IN IF link[2] = "LHS" THEN AssertLeft(Enter(M, pm), link[1], pm)
                   ELSE AssertRight(Enter(M, pm), link[1], pm),
             N, Links[j])

\* MergePartialMatches; with no fact for a negated pattern.
PPDrive(N, j, l, r) ==
    Drive(N, j, l, r, Append(l.facts, IF r = None THEN None ELSE r.facts[1]))

AssertRightSlip(N, j, r) ==         \* blocks, but leaves the results
    FoldLeft(LAMBDA M, l :
                IF Blocked(M, l) \/ ~Test(j, l.facts, r.facts) THEN M
                ELSE CASE Sense[j] = "exists" -> PPDrive(AddBlockedLink(M, l, r), j, l, None)
                       [] Sense[j] = "negated" -> AddBlockedLink(M, l, r)
                       [] Sense[j] = "positive" -> PPDrive(M, j, l, r),
             N, N.lhs[j])

\* NetworkAssertRight.  A left match that is blocked stays so.
AssertRight(N, j, r) ==
    FoldLeft(LAMBDA M, l :
                IF Blocked(M, l) \/ ~Test(j, l.facts, r.facts) THEN M
                ELSE CASE Sense[j] = "exists" -> PPDrive(AddBlockedLink(M, l, r), j, l, None)
                       [] Sense[j] = "negated" -> RetractBeta(AddBlockedLink(M, l, r), l)
                       [] Sense[j] = "positive" -> PPDrive(M, j, l, r),
             N, N.lhs[j])

\* NetworkAssertLeft.
AssertLeft(N, j, l) ==
    LET fits == SelectSeq(RightMemory(N, j),
                          LAMBDA r : ~WillBeDeleted(N, r) /\ Test(j, l.facts, r.facts))
    IN
    IF WillBeDeleted(N, l) THEN N
    ELSE IF j \in RuleEnds THEN [N EXCEPT !.acts = @ \cup {l}]
    ELSE CASE Sense[j] = "positive" -> FoldLeft(LAMBDA M, r : PPDrive(M, j, l, r), N, fits)
           [] Sense[j] = "exists" ->
                 IF fits = << >> THEN N ELSE PPDrive(AddBlockedLink(N, l, fits[1]), j, l, None)
           [] Sense[j] = "negated" ->
                 IF fits = << >> THEN PPDrive(N, j, l, None) ELSE AddBlockedLink(N, l, fits[1])

\* EmptyDrive: a match for the right of a first join.
EmptyDrive(N, j, r) ==
    IF ~Test(j, << >>, r.facts) THEN N
    ELSE IF Sense[j] = "positive" THEN Drive(N, j, None, r, r.facts)
    ELSE IF Blocked(N, Root(j)) THEN N
    ELSE IF Sense[j] = "negated" THEN RetractBeta(AddBlockedLink(N, Root(j), r), Root(j))
    ELSE PPDrive(AddBlockedLink(N, Root(j), r), j, Root(j), None)

NetworkAssert(N, j, r) == IF j \in FirstJoins THEN EmptyDrive(N, j, r) ELSE AssertRight(N, j, r)

\* FactPatternMatch and ProcessFactAlphaMatch: pattern by pattern.
AssertInNetwork(N, f) ==
    FoldLeft(LAMBDA M, p :
                FoldLeft(LAMBDA L, j : NetworkAssert(L, j, Alpha(p, f)),
                         [M EXCEPT !.alpha[p] = Append(@, Alpha(p, f))], Entry[p]),
             N, Matches(f))

-----------------------------------------------------------------------------
(* A match goes.                                                           *)

After(s, x) == SubSeq(s, SelectInSeq(s, LAMBDA y : y = x) + 1, Len(s))

\* FindNextConflictingMatch: the search goes on behind what blocked x so far.
FindNextConflict(N, x, b) ==
    LET j == JoinOf(x) IN
    SelectSeq(After(RightMemory(N, j), b),
              LAMBDA r : ~WillBeDeleted(N, r) /\ Test(j, x.facts, r.facts))

\* NegEntryRetractBeta: x is no longer blocked by b, which is going.
Release(N, x, b) ==
    LET j == JoinOf(x)
        M == RemoveBlockedLink(N, x)
        next == FindNextConflict(M, x, b)
    IN IF next # << >> THEN AddBlockedLink(M, x, next[1])
       ELSE IF Sense[j] = "exists" THEN RetractBeta(M, x)
       ELSE IF WillBeDeleted(M, x) THEN M
       ELSE PPDrive(M, j, x, None)

\* NegEntryRetractAlpha: everything b blocks.
Unblock(N, b) ==
    LET xs == BlockList(N, b) IN
    IF xs = {} THEN N ELSE Unblock(Release(N, CHOOSE x \in xs : TRUE, b), b)

\* PosEntryRetractBeta: the descendants of pm, the lowest first.
RetractBeta(N, pm) ==
    FoldLeft(LAMBDA M, c : Discard(Unblock(RetractBeta(M, c), c), c, Cut),
             N, Children(N, pm))

\* PosEntryRetractAlpha
RetractChildren(N, a) ==
    FoldLeft(LAMBDA M, c : Discard(Unblock(RetractBeta(M, c), c), c, Unlinked),
             N, AlphaChildren(N, a))

\* NetworkRetract: the alpha matches of a fact, the last made first.
RetractFromNetwork(N, f) ==
    LET after ==
          FoldLeft(LAMBDA M, p :
                      LET L == Unblock(RetractChildren(M, Alpha(p, f)), Alpha(p, f))
                      IN [L EXCEPT !.alpha[p] = Remove(@, Alpha(p, f))],
                   [N EXCEPT !.gone = f], Reverse(Matches(f)))
    IN [after EXCEPT !.gone = None]

-----------------------------------------------------------------------------
(* What the network must hold, computed from the facts alone.              *)

RECURSIVE Results(_, _)

\* The combinations of facts that satisfy the conditions up to join j.
Results(facts, j) ==
    LET before == {i \in Join : <<j, "LHS">> \in ToSet(Links[i])}
        lefts == IF j \in FirstJoins THEN {<< >>} ELSE UNION {Results(facts, i) : i \in before}
        rights == IF j \in FromTheRight THEN Results(facts, Right[j])
                  ELSE {<<f>> : f \in {g \in facts : Right[j] \in ToSet(Matches(g))}}
        hit(l) == {r \in rights : Test(j, l, r)}
    IN CASE Sense[j] = "positive" -> UNION {{Append(l, r[1]) : r \in hit(l)} : l \in lefts}
         [] Sense[j] = "negated" -> {Append(l, None) : l \in {k \in lefts : hit(k) = {}}}
         [] Sense[j] = "exists" -> {Append(l, None) : l \in {k \in lefts : hit(k) # {}}}

FactsIn(memory) == {pm.facts : pm \in ToSet(memory)}
=============================================================================
