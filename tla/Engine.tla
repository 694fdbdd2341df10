------------------------------- MODULE Engine -------------------------------
(***************************************************************************)
(* The rule engine's cycle (src/src/engine.c): agendas, the focus stack    *)
(* and (run).                                                              *)
(*                                                                         *)
(* What is on an agenda changes from three sides: the join network makes   *)
(* and withdraws completed matches; a command, or an action of the rule    *)
(* that is firing, changes strategy, salience or focus; and (run) itself   *)
(* takes activations off.  Commands and actions of rules are the same      *)
(* functions, so both phases share their actions here.                     *)
(*                                                                         *)
(* Not modelled: the current module, which (run) saves and restores around *)
(* the actions of a rule, statistics, and functions a C program hooks in.  *)
(***************************************************************************)
EXTENDS Agenda

CONSTANTS
    MAIN,
    AutoFocus,   \* rules declared (auto-focus TRUE)
    Dynamic,     \* rules whose salience is an expression
    Breaks,      \* rules with a breakpoint
    Salience,    \* what such an expression may yield, or
    Failure,     \* where it fails
    Random,      \* random numbers an activation may draw
    Limits,      \* arguments of (run); -1 is none
    Allowed,     \* strategies in use
    MaxTag,      \* bound: activations ever made
    MaxFocus     \* bound: depth of the focus stack

ASSUME EngineAssumption ==
    /\ MAIN \in Module /\ AutoFocus \subseteq Rule /\ Dynamic \subseteq Rule
    /\ Breaks \subseteq Rule /\ Salience \subseteq Int /\ 0 \in Salience /\ Failure \notin Salience
    /\ Random \subseteq Nat /\ Random # {} /\ Limits \subseteq Nat \cup {-1}
    /\ Allowed \subseteq Strategies /\ Allowed # {} /\ MaxTag \in Nat /\ MaxFocus \in Nat \ {0}

VARIABLES
    agenda,      \* module -> its agenda
    act,         \* match -> its activation, or NoActivation
    matched,     \* completed matches in the join network
    tag,         \* CurrentTimetag
    total,       \* NumberOfActivations
    strategy, evaluation,  \* conflict resolution; when salience is evaluated
    salience,    \* rule -> its salience
    expression,  \* rule -> what its salience expression would yield now
    focus,       \* the focus stack, top first
    phase,       \* "idle"; in (run): "ready" to fire, or "acting"
    executing,   \* the match that is firing
    limit,       \* runLimit
    haltRules, haltExecution, returned

agendas == <<agenda, act, total>>
settings == <<strategy, evaluation, expression>>
cycle == <<phase, executing, limit>>
vars == <<agendas, matched, tag, settings, salience, focus, cycle,
          haltRules, haltExecution, returned>>

NoActivation == [tag |-> 0, salience |-> 0, random |-> 0]
Evaluations == {"when-defined", "when-activated", "every-cycle"}
ModuleFor(m) == ModuleOf[RuleOf[m]]
Activated == {m \in matched : act[m] # NoActivation}

Init ==
    /\ agenda = [d \in Module |-> NoAgenda]
    /\ act = [m \in Match |-> NoActivation]
    /\ matched = {} /\ tag = 1 /\ total = 0
    /\ strategy \in Allowed /\ evaluation = "when-defined"
    /\ salience = [r \in Rule |-> 0] /\ expression = [r \in Rule |-> 0]
    /\ focus = <<MAIN>>
    /\ phase = "idle" /\ executing = NoMatch /\ limit = 0
    /\ haltRules = FALSE /\ haltExecution = FALSE /\ returned = FALSE

-----------------------------------------------------------------------------
(* Salience and focus.                                                     *)

\* EvaluateSalience: an expression that fails leaves the salience and halts.
EvaluatesSlip(r, how) == how = "every-cycle" /\ r \in Dynamic
Evaluates(r, how) == how # "when-defined" /\ r \in Dynamic
Fails(r, how) == Evaluates(r, how) /\ expression[r] = Failure
EvaluateSalience(r, how) ==
    IF Evaluates(r, how) /\ expression[r] # Failure THEN expression[r] ELSE salience[r]

FocusOn(d, stack) == IF stack # << >> /\ Head(stack) = d THEN stack ELSE <<d>> \o stack

RemoveFocus(d, stack) == RemoveFirst(stack, d)

\* NextActivationToFire: pop the stack to a module with activations.
NextFocus(stack, ag) ==
    LET s == IF stack = << >> THEN <<MAIN>> ELSE stack
        k == SelectInSeq(s, LAMBDA d : ag[d].list # << >>)
    IN IF k = 0 THEN << >> ELSE SubSeq(s, k, Len(s))

Upcoming == IF focus = << >> THEN NoMatch ELSE Head(agenda[Head(focus)].list)

-----------------------------------------------------------------------------
(* What commands and actions of rules do.  The actions of a rule are the   *)
(* arguments of one progn, which goes on to the next one only if there was *)
(* no error and no (return) in the one before.                             *)

Commanded ==
    /\ phase = "idle" \/ (phase = "acting" /\ ~haltExecution /\ ~returned)
    /\ UNCHANGED <<cycle>>

\* AddActivation for a match of the network, or for one whose rule fired, if
\* the rule is refreshed.
AddActivation(m) ==
    LET r == RuleOf[m]  d == ModuleOf[r] IN
    /\ tag <= MaxTag /\ (r \in AutoFocus => Len(focus) < MaxFocus)
    /\ focus' = IF r \in AutoFocus THEN FocusOn(d, focus) ELSE focus
    /\ salience' = [salience EXCEPT ![r] = EvaluateSalience(r, evaluation)]
    /\ haltExecution' = Fails(r, evaluation)
    /\ \E n \in Random :
         act' = [act EXCEPT ![m] = [tag |-> tag, salience |-> salience'[r], random |-> n]]
    /\ agenda' = [agenda EXCEPT ![d] = PlaceActivation(strategy, act', @, m)]
    /\ tag' = tag + 1 /\ total' = total + 1

Complete(m) ==
    /\ Commanded /\ m \notin matched
    /\ matched' = matched \cup {m} /\ AddActivation(m)
    /\ UNCHANGED <<settings, haltRules, returned>>

\* Refresh, one match of the rule at a time.
Refresh(m) ==
    /\ Commanded /\ m \in matched /\ act[m] = NoActivation
    /\ AddActivation(m)
    /\ UNCHANGED <<matched, settings, haltRules, returned>>

\* RemoveActivation, with its links.
RemoveActivation(m) ==
    /\ agenda' = [agenda EXCEPT ![ModuleFor(m)] = DetachActivation(act, @, m)]
    /\ act' = [act EXCEPT ![m] = NoActivation]
    /\ total' = total - 1

\* The network retracts a match (RemovePMActivation).
Withdraw(m) ==
    /\ Commanded /\ m \in matched
    /\ matched' = matched \ {m}
    /\ IF act[m] # NoActivation THEN RemoveActivation(m) ELSE UNCHANGED agendas
    /\ haltExecution' = FALSE
    /\ UNCHANGED <<tag, settings, salience, focus, haltRules, returned>>

\* ClearRuleFromAgenda counts down for what it meets.
ActivationsOf(ms) == Cardinality(ms \cap Activated)

\* The rule is defined anew: its activations and matches go, its salience is
\* evaluated.  A rule that is firing cannot be.
Defrule(r) ==
    LET gone == {m \in matched : RuleOf[m] = r} IN
    /\ Commanded /\ (executing # NoMatch => RuleOf[executing] # r)
    /\ expression[r] # Failure
    /\ matched' = matched \ gone
    /\ agenda' = [agenda EXCEPT ![ModuleOf[r]] = ClearRuleFromAgenda(act, @, gone)]
    /\ act' = [m \in Match |-> IF m \in gone THEN NoActivation ELSE act[m]]
    /\ total' = total - ActivationsOf(gone)
    /\ salience' = [salience EXCEPT ![r] = IF r \in Dynamic THEN expression[r] ELSE @]
    /\ haltExecution' = FALSE
    /\ UNCHANGED <<tag, settings, focus, haltRules, returned>>

\* RefreshAgenda of the modules ds: salience anew, then order.
RefreshAgenda(ds) ==
    LET due == {m \in Activated : ModuleFor(m) \in ds}
        rules == {RuleOf[m] : m \in due}
    IN
    /\ salience' = [r \in Rule |-> IF r \in rules THEN EvaluateSalience(r, "when-activated")
                                   ELSE salience[r]]
    /\ act' = [m \in Match |-> IF m \in due THEN [act[m] EXCEPT !.salience = salience'[RuleOf[m]]]
                               ELSE act[m]]
    /\ agenda' = [d \in Module |-> IF d \in ds THEN ReorderAgenda(strategy, act', agenda[d])
                                   ELSE agenda[d]]
    /\ haltExecution' = (haltExecution \/ \E r \in rules : Fails(r, "when-activated"))

RefreshAgendaCommand ==
    /\ Commanded
    /\ \E ds \in {{d} : d \in Module} \cup {Module} : RefreshAgenda(ds)
    /\ UNCHANGED <<total, matched, tag, settings, focus, haltRules, returned>>

SetStrategySlip(s) ==          \* leaves the agendas as they are
    /\ Commanded /\ s # strategy
    /\ strategy' = s
    /\ haltExecution' = FALSE
    /\ UNCHANGED <<agenda, act, total, matched, tag, evaluation, expression, salience, focus,
                   haltRules, returned>>

\* SetStrategy: every agenda is ordered anew.
SetStrategy(s) ==
    /\ Commanded /\ s # strategy
    /\ strategy' = s
    /\ agenda' = [d \in Module |-> ReorderAgenda(s, act, agenda[d])]
    /\ haltExecution' = FALSE
    /\ UNCHANGED <<act, total, matched, tag, evaluation, expression, salience, focus,
                   haltRules, returned>>

SetSalienceEvaluation(how) ==
    /\ Commanded /\ how # evaluation
    /\ evaluation' = how
    /\ haltExecution' = FALSE
    /\ UNCHANGED <<agendas, matched, tag, strategy, expression, salience, focus,
                   haltRules, returned>>

\* The global variable the expression reads is bound to another value.
ExpressionChanges(r, v) ==
    /\ Commanded /\ r \in Dynamic /\ v # expression[r]
    /\ expression' = [expression EXCEPT ![r] = v]
    /\ haltExecution' = FALSE
    /\ UNCHANGED <<agendas, matched, tag, strategy, evaluation, salience, focus,
                   haltRules, returned>>

\* (focus), (pop-focus), (clear-focus-stack), and what (reset) does to it.
FocusStack ==
    /\ Commanded
    /\ \/ \E d \in Module : Len(focus) < MaxFocus /\ focus' = FocusOn(d, focus)
       \/ focus # << >> /\ focus' = RemoveFocus(Head(focus), focus)
       \/ focus' = << >>
       \/ phase = "idle" /\ focus' = <<MAIN>>
    /\ haltExecution' = FALSE
    /\ UNCHANGED <<agendas, matched, tag, settings, salience, haltRules, returned>>

\* (halt), (return), or an error, among the actions of a rule.
Interrupts ==
    /\ Commanded /\ phase = "acting"
    /\ \/ haltRules' = TRUE /\ UNCHANGED <<haltExecution, returned>>
       \/ returned' = TRUE /\ UNCHANGED <<haltExecution, haltRules>>
       \/ haltExecution' = TRUE /\ UNCHANGED <<haltRules, returned>>
    /\ UNCHANGED <<agendas, matched, tag, settings, salience, focus>>

-----------------------------------------------------------------------------
(* (run)                                                                   *)

RunCommand(n) ==
    /\ phase = "idle"
    /\ phase' = "ready" /\ limit' = n
    /\ haltRules' = FALSE /\ haltExecution' = FALSE
    /\ focus' = NextFocus(focus, agenda)
    /\ UNCHANGED <<agendas, matched, tag, settings, salience, executing, returned>>

MayFire == Upcoming # NoMatch /\ limit # 0 /\ ~haltExecution /\ ~haltRules

\* Detach the activation and start on the actions of its rule.
Fire ==
    LET m == Upcoming IN
    /\ phase = "ready" /\ MayFire
    /\ phase' = "acting" /\ executing' = m
    /\ agenda' = [agenda EXCEPT ![ModuleFor(m)] = DetachActivation(act, @, m)]
    /\ act' = [act EXCEPT ![m] = NoActivation]
    /\ limit' = (IF limit > 0 THEN limit - 1 ELSE limit)
    /\ UNCHANGED <<total, matched, tag, settings, salience, focus,
                   haltRules, haltExecution, returned>>

\* RemoveActivation of an activation that is off its agenda.
ReturnActivation == total' = total - 1

BreaksNext(stack, ag) == stack # << >> /\ RuleOf[ag[Head(stack)].list[1]] \in Breaks

\* The actions are done: return the activation, refresh salience if it is due
\* every cycle, leave the module after a (return), and look for what is next.
Finish ==
    /\ phase = "acting"
    /\ phase' = "ready" /\ executing' = NoMatch
    /\ ReturnActivation
    /\ IF evaluation = "every-cycle" THEN RefreshAgenda(Module)
       ELSE UNCHANGED <<agenda, act, salience, haltExecution>>
    /\ focus' = NextFocus(IF returned THEN RemoveFocus(ModuleFor(executing), focus) ELSE focus,
                          agenda')
    /\ haltRules' = (haltRules \/ BreaksNext(focus', agenda'))
    /\ returned' = FALSE
    /\ UNCHANGED <<matched, tag, settings, limit>>

RunReturns ==
    /\ phase = "ready" /\ ~MayFire
    /\ phase' = "idle" /\ limit' = 0
    /\ haltRules' = FALSE
    /\ UNCHANGED <<agendas, matched, tag, settings, salience, focus, executing,
                   haltExecution, returned>>

-----------------------------------------------------------------------------
Commands ==
    \/ \E m \in Match : Complete(m) \/ Withdraw(m) \/ Refresh(m)
    \/ \E r \in Rule : Defrule(r)
    \/ RefreshAgendaCommand
    \/ \E s \in Allowed : SetStrategy(s)
    \/ \E how \in Evaluations : SetSalienceEvaluation(how)
    \/ \E r \in Dynamic, v \in Salience \cup {Failure} : ExpressionChanges(r, v)
    \/ FocusStack
    \/ Interrupts

Run == Fire \/ Finish \/ RunReturns

Next == Commands \/ Run \/ \E n \in Limits : RunCommand(n)

Spec == Init /\ [][Next]_vars
-----------------------------------------------------------------------------
(* Properties.                                                             *)

TypeOK ==
    /\ agenda \in [Module -> [list : Seq(Match),
                             groups : Seq([salience : Salience, first : Match, last : Match])]]
    /\ act \in [Match -> [tag : 0..MaxTag, salience : Salience, random : Random \cup {0}]]
    /\ matched \subseteq Match /\ tag \in 1..(MaxTag + 1) /\ total \in Nat
    /\ strategy \in Allowed /\ evaluation \in Evaluations
    /\ salience \in [Rule -> Salience] /\ expression \in [Rule -> Salience \cup {Failure}]
    /\ focus \in Seq(Module) /\ Len(focus) <= MaxFocus
    /\ phase \in {"idle", "ready", "acting"} /\ executing \in Match \cup {NoMatch}
    /\ phase = "acting" <=> executing # NoMatch
    /\ limit \in Int
    /\ haltRules \in BOOLEAN /\ haltExecution \in BOOLEAN /\ returned \in BOOLEAN

\* However activations came, went and were ordered anew (AddActivation,
\* RemoveActivation, ReorderAgenda, SetStrategy), every agenda is in the order
\* of salience and of the strategy in force, though each was placed by walking
\* its own group alone.
AgendasInOrder == \A d \in Module : InOrder(strategy, act, agenda[d])

\* The salience groups cut each agenda into its saliences, no group empty, each
\* pointing at its ends: what PlaceActivation relies on without looking.
GroupsCutAgendas == \A d \in Module : GroupsFit(act, agenda[d])

\* The markers of the partial matches and the agendas agree: an activation is on
\* one agenda, its module's, once, and its match is still there.  A withdrawn or
\* redefined match that left its activation behind would fire a rule on facts
\* that are gone.
MarkersFit ==
    /\ {m \in Match : act[m] # NoActivation} \subseteq matched
    /\ \A d \in Module :
          /\ IsInjective(agenda[d].list)
          /\ ToSet(agenda[d].list) = {m \in Activated : ModuleFor(m) = d}

\* Of two activations one is older: each has the tag that CurrentTimetag was when
\* it was made, and no other has it, or the strategies could not tell them apart.
TagsDiffer ==
    /\ \A m \in Activated : act[m].tag \in 1 .. tag - 1 /\ act[m].random \in Random
    /\ \A m, n \in Activated : act[m].tag = act[n].tag => m = n

\* NumberOfActivations counts the activations on all agendas and the one that
\* is firing, which RemoveActivation returns only after its actions.
CountIsRight == total = Cardinality(Activated) + (IF phase = "acting" THEN 1 ELSE 0)

\* (run) with a focus has something to fire: NextActivationToFire stops at the
\* first module of the stack that has activations, and empties the stack if
\* none has.
FocusHasWork == phase = "ready" /\ focus # << >> => agenda[Head(focus)].list # << >>

\* Run fires the activation of the focus that goes before every other by
\* salience and strategy.
FiresTheBest ==
    [][phase = "ready" /\ phase' = "acting" =>
         \A m \in Activated \ {executing'} :
            ModuleFor(m) = ModuleFor(executing') =>
               \/ act[executing'].salience > act[m].salience
               \/ /\ act[executing'].salience = act[m].salience
                  /\ GoesAfter(strategy, act, m, executing')]_vars

\* With salience evaluated every cycle, whatever the actions of a rule did to
\* what saliences are computed from, the next rule is chosen by what the
\* expressions yield now, in every module.
SalienceIsCurrent ==
    [][phase = "acting" /\ phase' = "ready" /\ evaluation = "every-cycle" =>
         \A m \in Activated :
            RuleOf[m] \in Dynamic /\ expression[RuleOf[m]] # Failure =>
               act'[m].salience = expression[RuleOf[m]]]_vars

\* The agendas are as AddActivation and RemoveActivation need them to be.
AgendaInv ==
    /\ TypeOK
    /\ AgendasInOrder
    /\ GroupsCutAgendas
    /\ MarkersFit
    /\ TagsDiffer
    /\ CountIsRight
    /\ FocusHasWork
=============================================================================
