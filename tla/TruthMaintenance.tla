-------------------------- MODULE TruthMaintenance --------------------------
(***************************************************************************)
(* Facts come and go (src/src/factmngr.c), by command or by the actions of *)
(* a rule that fires (engine.c); the join network follows, and facts that  *)
(* were asserted on logical support go with it (lgcldpnd.c).               *)
(***************************************************************************)
EXTENDS JoinNetwork

CONSTANT LogicalEnds    \* ends of rules whose conditions are all (logical ...)

ASSUME LogicalAssumption == LogicalEnds \subseteq RuleEnds

VARIABLES
    facts,      \* the fact-list
    net,        \* the join network
    firing,     \* the end of the rule that fires, or None
    ground      \* history: how a fact came, "stated", "supported" or "late"

vars == <<facts, net, firing, ground>>

\* PrimeJoinFromLeftMemory and PrimeJoinFromRightMemory, when the rules have been
\* defined and there is no fact: a negated first join is satisfied by nothing.
PrimedNetwork ==
    FoldLeft(LAMBDA N, j : PPDrive(N, j, Root(j), None), EmptyNetwork,
             SetToSeq({j \in FirstJoins : Sense[j] = "negated"}))

Init ==
    /\ facts = {} /\ net = PrimedNetwork
    /\ firing = None
    /\ ground = [f \in Fact |-> "stated"]

-----------------------------------------------------------------------------
Conditional == firing \in LogicalEnds

\* AddLogicalDependencies refuses where both parents of the bind are gone.
Refuses == Conditional /\ net.bind = Unlinked

Depend(N, f) == IF Conditional THEN [N EXCEPT !.support[f] = @ \cup {net.bind}] ELSE N

\* RemoveEntityDependencies, then out of the fact-list and the network.
RetractDriver(st, f) ==
    [facts |-> st.facts \ {f},
     net |-> RetractFromNetwork([st.net EXCEPT !.support[f] = {}], f)]

RECURSIVE ForceLogicalRetractions(_)

ForceLogicalRetractionsSlip(st) ==      \* the first one only
    IF st.net.lost = << >> THEN st
    ELSE LET f == Head(st.net.lost)
             next == [st EXCEPT !.net.lost = << >>]
         IN IF f \in st.facts THEN RetractDriver(next, f) ELSE next

\* The queue of facts without support is retracted, which may add to it.
ForceLogicalRetractions(st) ==
    IF st.net.lost = << >> THEN st
    ELSE LET f == Head(st.net.lost)
             next == [st EXCEPT !.net.lost = Tail(@)]
         IN ForceLogicalRetractions(IF f \in st.facts THEN RetractDriver(next, f) ELSE next)

\* The state after st once the queue is empty; grounds of the facts that are left.
Settle(st, grounds) ==
    LET end == ForceLogicalRetractions(st)
    IN /\ facts' = end.facts /\ net' = end.net
       /\ ground' = [f \in Fact |-> IF f \in end.facts THEN grounds[f] ELSE "stated"]

\* What AddLogicalDependencies finds for a new fact: no logical condition, a
\* bind that is garbage, or a bind to depend on.
How == IF ~Conditional THEN "stated" ELSE IF net.bind = Cut THEN "late" ELSE "supported"

AssertFact(f) ==
    /\ f \notin facts /\ ~Refuses
    /\ Settle([facts |-> facts \cup {f}, net |-> AssertInNetwork(Depend(net, f), f)],
              [ground EXCEPT ![f] = How])
    /\ UNCHANGED firing

AssertAgainSlip(f) ==                   \* a statement leaves the dependence
    /\ f \in facts /\ ~Refuses
    /\ net' = IF ~Conditional \/ net.support[f] = {} THEN net ELSE Depend(net, f)
    /\ ground' = [ground EXCEPT ![f] = IF ~Conditional THEN "stated" ELSE @]
    /\ UNCHANGED <<facts, firing>>

\* HandleFactDuplication: the fact is there already.  A statement ends its
\* dependence; support does not make a stated fact depend.
AssertAgain(f) ==
    /\ f \in facts /\ ~Refuses
    /\ net' = IF ~Conditional THEN [net EXCEPT !.support[f] = {}]
              ELSE IF net.support[f] = {} THEN net
              ELSE Depend(net, f)
    /\ ground' = [ground EXCEPT ![f] = IF Conditional /\ net.support[f] = {} THEN @
                                       ELSE IF @ = "supported" /\ How = "late" THEN "late"
                                       ELSE IF How = "stated" THEN "stated" ELSE @]
    /\ UNCHANGED <<facts, firing>>

Retract(f) ==
    /\ f \in facts
    /\ Settle(RetractDriver([facts |-> facts, net |-> net], f), ground)
    /\ UNCHANGED firing

\* Run takes an activation and marks its match, and the logical bind, busy.
Fire(m) ==
    /\ firing = None /\ m \in net.acts
    /\ firing' = JoinOf(m)
    /\ net' = [net EXCEPT !.acts = @ \ {m}, !.bind = m]
    /\ UNCHANGED <<facts, ground>>

\* The actions are done; FlushGarbagePartialMatches takes a discarded bind out
\* of the facts that depend on it (RemovePMDependencies).
Finish ==
    /\ firing # None
    /\ firing' = None
    /\ net' = [net EXCEPT !.bind = None, !.support = [f \in Fact |-> @[f] \ {Cut}]]
    /\ UNCHANGED <<facts, ground>>

Next ==
    \/ \E f \in Fact : AssertFact(f) \/ AssertAgain(f) \/ Retract(f)
    \/ \E m \in net.acts : Fire(m)
    \/ Finish

Spec == Init /\ [][Next]_vars

-----------------------------------------------------------------------------
(* Properties.                                                             *)

TypeOK ==
    /\ facts \subseteq Fact
    /\ firing \in RuleEnds \cup {None}
    /\ ground \in [Fact -> {"stated", "supported", "late"}]
    /\ DOMAIN net.marker \subseteq Beta(net)
    /\ net.acts \subseteq UNION {ToSet(net.lhs[j]) : j \in RuleEnds}
    /\ net.lost = << >> /\ net.gone = None

\* Whatever came and went in whatever order, each memory holds what would be
\* found by matching the facts from scratch, each combination once.
MemoriesAreMatches ==
    /\ \A p \in Pattern :
          FactsIn(net.alpha[p]) = {<<f>> : f \in {g \in facts : p \in ToSet(Matches(g))}}
    /\ \A i \in Join : \A link \in ToSet(Links[i]) :
          LET memory == IF link[2] = "LHS" THEN net.lhs[link[1]] ELSE net.rhs[link[1]]
          IN /\ FactsIn(memory) = Results(facts, i)
             /\ Len(memory) = Cardinality(Results(facts, i))

\* A left match of a negated or exists join is marked exactly if something on
\* its right conflicts, and then by a match that is there and conflicts.
MarkersBlock ==
    \A j \in Join \ RuleEnds : Sense[j] # "positive" =>
        \A l \in ToSet(net.lhs[j]) :
            LET conflicts == {r \in ToSet(RightMemory(net, j)) : Test(j, l.facts, r.facts)} IN
            IF conflicts = {} THEN ~Blocked(net, l)
            ELSE Blocked(net, l) /\ net.marker[l] \in conflicts

\* The facts on a match's list of dependents depend on a match that is in the
\* network still, or on the garbage the firing rule leaves.
DependentsAreLive ==
    \A f \in Fact :
        /\ net.support[f] # {} => f \in facts
        /\ net.support[f] \subseteq Beta(net) \cup {Cut}
        /\ Cut \in net.support[f] => net.bind = Cut

\* A fact that is there by logical support alone has support: when the last
\* match goes, so does the fact, and what depended on it in turn.
SupportedFactsHaveSupport ==
    \A f \in facts : ground[f] = "supported" => net.support[f] # {}

\* A fact that was stated stays until it is retracted.
StatedFactsStay ==
    [][\A f \in facts \ facts' : ground[f] = "stated" \/ net.support[f] = {} => Retract(f)]_vars

\* A combination that becomes complete activates its rule, once, and one that
\* no longer holds takes its activation with it.
CompletionActivates ==
    [][LET done(N) == UNION {ToSet(N.lhs[j]) : j \in RuleEnds} IN
       net.bind = net'.bind =>
          /\ net'.acts \subseteq done(net')
          /\ (net.acts \cap done(net')) \cup (done(net') \ done(net)) \subseteq net'.acts]_vars

\* "the partial match must have been deleted by a previous RHS action and the
\* dependency link should not be added" (lgcldpnd.c:110).
DeadMatchesSupportNothing == \A f \in Fact : Cut \notin net.support[f]

\* The network holds what the facts match, and blocks what they refute.
NetworkInv == TypeOK /\ MemoriesAreMatches /\ MarkersBlock

\* Support is live, and what has none is gone (lgcldpnd.c).
SupportIsLive == SupportedFactsHaveSupport /\ DependentsAreLive
=============================================================================
