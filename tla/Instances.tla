----------------------------- MODULE Instances ------------------------------
(***************************************************************************)
(* Instances come and go (src/src/insmngr.c, insfun.c, inscom.c).  Each is *)
(* on the list of all instances and on the chain of its name; make-        *)
(* instance, unmake-instance and initialize-instance send it messages,     *)
(* whose handlers may do any of these again, to it or to others.           *)
(*                                                                         *)
(* What was deleted while somebody holds it is garbage: it waits in the    *)
(* garbage frame of the innermost message or command (utility.c) and moves *)
(* outwards until nobody does.  Unlinked, it keeps its link to the next    *)
(* instance, for the loops that stand on it.                               *)
(*                                                                         *)
(* Behaviours: any nesting of the calls below, errors and try.  Orderly    *)
(* ones keep two rules the code relies on and does not enforce.  Not       *)
(* modelled: slots and classes (one class, so no name is in use by         *)
(* another one's instance), pattern matching, and instances made or        *)
(* deleted by C programs.                                                  *)
(***************************************************************************)
EXTENDS Naturals, Sequences, FiniteSets, SequencesExt

CONSTANTS
    InstanceName,   \* names of instances
    HashInstance,   \* the chain of each in InstanceTable
    MaxInstances,   \* bound: instances ever made
    MaxCallers      \* bound: calls inside each other

ASSUME InstancesAssumption ==
    /\ DOMAIN HashInstance = InstanceName
    /\ MaxInstances \in Nat /\ MaxCallers \in Nat

VARIABLES
    store,      \* instances and the lists they are on
    callers,    \* messages and functions under way, the innermost last
    raised,     \* EvaluationError with HaltExecution, HaltExecution alone, or none
    orderly     \* whether handlers keep the rules

instanceVars == <<store, callers, raised, orderly>>

None0 == 0              \* no instance

-----------------------------------------------------------------------------
(* Lists and garbage.                                                      *)

Instance(S, i) == S.instances[i]
NextIn(list, i) ==
    LET at == SelectInSeq(list, LAMBDA j : j = i)
    IN IF at = Len(list) THEN None0 ELSE list[at + 1]
\* nxtList, which is left as it is when the instance goes.
NxtList(S, i) ==
    IF Contains(S.list, i) THEN NextIn(S.list, i) ELSE Instance(S, i).next

FindInstanceBySymbol(S, name) ==
    LET chain == S.table[HashInstance[name]]
        at == SelectInSeq(chain, LAMBDA i : Instance(S, i).name = name)
    IN IF at = 0 THEN None0 ELSE chain[at]

\* InstanceLocationInfo: behind which one of the chain a new one goes.
Predecessor(S, name) ==
    LET chain == S.table[HashInstance[name]]
        at == SelectInSeq(chain, LAMBDA i : Instance(S, i).name = name)
    IN IF at = 0 THEN (IF chain = << >> THEN None0 ELSE Last(chain))
       ELSE IF at = 1 THEN None0 ELSE chain[at - 1]

\* What is left of an instance that was given back: nothing but its name, for us.
Freed(name) ==
    [name |-> name, state |-> "freed", installed |-> FALSE, busy |-> 0,
     initSlotsCalled |-> FALSE, next |-> None0]
Hold(S, i, by) == [S EXCEPT !.instances[i].busy = @ + by]

\* CleanupInstances: what nobody holds in the current garbage frame is freed.
CleanupInstances(S) ==
    LET free == {i \in Last(S.garbage) : Instance(S, i).busy = 0}
    IN IF S.maintain THEN S
       ELSE [S EXCEPT !.garbage[Len(S.garbage)] = @ \ free,
                      !.instances = [i \in DOMAIN @ |->
                          IF i \in free THEN Freed(@[i].name) ELSE @[i]]]

GCBlockStart(S) == [S EXCEPT !.garbage = Append(@, {})]

GCBlockEndSlip(S) ==         \* what waits in the frame is left to nobody
    LET C == CleanupInstances(S)
    IN [C EXCEPT !.garbage = Front(C.garbage)]

\* RestorePriorGarbageFrame: what is left moves to the frame around.
GCBlockEnd(S) ==
    LET C == CleanupInstances(S)
        n == Len(C.garbage)
    IN [C EXCEPT !.garbage = [Front(C.garbage) EXCEPT ![n - 1] = @ \cup C.garbage[n]]]

\* QuashInstance: not what is garbage or being initialized.
MayQuash(S, i) == Instance(S, i).state = "live" /\ Instance(S, i).installed
QuashInstance(S, i) ==
    LET I == Instance(S, i)
        waits == I.busy > 0 \/ S.maintain
        gone == IF waits THEN [I EXCEPT !.next = NextIn(S.list, i), !.installed = FALSE,
                                        !.state = "garbage"]
                ELSE Freed(I.name)
    IN IF ~MayQuash(S, i) THEN S
       ELSE [S EXCEPT !.instances[i] = gone,
                      !.list = RemoveFirst(@, i),
                      !.table[HashInstance[I.name]] = RemoveFirst(@, i),
                      !.garbage[Len(S.garbage)] = IF waits THEN @ \cup {i} ELSE @]

\* A new instance goes to the end of the list, and on its chain behind prev; that
\* one may have left the chain, or the process, since it was looked up.
NewInstance(S, name, prev) ==
    LET bucket == HashInstance[name]
        at == SelectInSeq(S.table[bucket], LAMBDA i : i = prev)
        i == Len(S.instances) + 1
        new == [name |-> name, state |-> "live", installed |-> TRUE, busy |-> 0,
                initSlotsCalled |-> FALSE, next |-> None0]
    IN [S EXCEPT !.instances = Append(@, new),
                 !.list = Append(@, i),
                 !.table[bucket] = InsertAt(@, at + 1, i),
                 !.stray = prev # None0 /\ at = 0]

-----------------------------------------------------------------------------
(* Calls.  A caller's phase says what comes next when what it called has   *)
(* returned.                                                               *)

Call(kind, phase, id) ==
    [kind |-> kind, phase |-> phase, id |-> id, old |-> None0, prev |-> None0,
     name |-> "", maintain |-> store.maintain, due |-> {}]
Here == Last(callers)
InHandler == callers # << >> /\ Here.kind = "message"
Evaluates == ~store.stray /\ raised = "none" /\ (callers = << >> \/ InHandler)
Resumes(kind, phase) ==
    ~store.stray /\ callers # << >> /\ Here.kind = kind /\ Here.phase = phase
Fits(n) == Len(callers) + n <= MaxCallers
\* The rules: handlers of create and delete make and delete no instances, but
\* that handlers of delete delete their own.
Allowed == orderly => \A k \in DOMAIN callers :
                          ~(callers[k].kind = "message" /\ callers[k].phase \in {"create", "delete"})

\* PerformMessage, under what is on the stack already: it is not sent when
\* execution is halted, and an error is forgotten then.
Send(stack, S, message, i) ==
    IF raised # "none"
    THEN callers' = stack /\ store' = S /\ raised' = "halted"
    ELSE /\ callers' = Append(stack, Call("message", message, i))
         /\ store' = Hold(GCBlockStart(S), i, 1)
         /\ raised' = "none"

MessageReturns ==
    /\ ~store.stray /\ InHandler
    /\ callers' = Front(callers)
    /\ store' = GCBlockEnd(Hold(store, Here.id, -1))
    /\ UNCHANGED <<raised, orderly>>

\* (send ... delete) in a handler or command.
SendDelete(name) ==
    LET i == FindInstanceBySymbol(store, name)
    IN /\ Evaluates /\ Fits(1) /\ i # None0
       /\ Allowed
       /\ Send(callers, store, "delete", i)
       /\ UNCHANGED orderly

\* delete-instance, in a handler of any message to the instance.
DeleteInstance ==
    /\ Evaluates /\ InHandler
    /\ orderly => Here.phase # "create"
    /\ store' = QuashInstance(store, Here.id)
    /\ raised' = IF Instance(store, Here.id).state = "live" /\ ~Instance(store, Here.id).installed
                 THEN "error" ELSE raised
    /\ UNCHANGED <<callers, orderly>>

\* init-slots, in a handler of init.
InitSlots ==
    /\ Evaluates /\ InHandler /\ Here.phase = "init"
    /\ store' = [store EXCEPT !.instances[Here.id].initSlotsCalled = TRUE]
    /\ UNCHANGED <<callers, raised, orderly>>

Fail ==
    /\ Evaluates /\ InHandler
    /\ raised' = "error"
    /\ UNCHANGED <<store, callers, orderly>>

\* try in a handler, or the next command.
Recover ==
    /\ \/ raised = "error" /\ InHandler
       \/ raised # "none" /\ callers = << >>
    /\ raised' = "none"
    /\ UNCHANGED <<store, callers, orderly>>

\* CleanCurrentGarbageFrame: at the next command, and in loops everywhere.
Clean ==
    /\ Evaluates /\ store.garbage # << >>
    /\ store' = CleanupInstances(store)
    /\ UNCHANGED <<callers, raised, orderly>>

-----------------------------------------------------------------------------
(* make-instance and initialize-instance.                                  *)

\* BuildInstance behind the deletion of the old instance of this name.
Create(stack, S, name, prev) ==
    LET N == NewInstance(S, name, prev)
        i == Len(N.instances)
    IN /\ Len(S.instances) < MaxInstances
       /\ Send(Append(stack, Call("make", "created", i)), N, "create", i)

MakeInstance(name) ==
    LET i == FindInstanceBySymbol(store, name)
        prev == Predecessor(store, name)
    IN /\ Evaluates /\ Fits(2) /\ Len(store.instances) < MaxInstances
       /\ Allowed
       /\ IF i = None0 THEN Create(callers, store, name, prev)
          ELSE IF ~Instance(store, i).installed
          THEN raised' = "error" /\ UNCHANGED <<store, callers>>
          ELSE Send(Append(callers, [Call("make", "replaced", None0) EXCEPT
                                        !.old = i, !.prev = prev, !.name = name]),
                    Hold(store, i, 1), "delete", i)
       /\ UNCHANGED orderly

MakeReplaces ==
    LET S == Hold(store, Here.old, -1)
    IN /\ Resumes("make", "replaced")
       /\ IF Instance(S, Here.old).state = "live"      \* unable to delete old instance
          THEN callers' = Front(callers) /\ store' = S /\ raised' = "error"
          ELSE Create(Front(callers), S, Here.name, Here.prev)
       /\ UNCHANGED orderly

\* CoreInitializeInstance: an instance that is being initialized, or gone, is not.
Initialize(C, S) ==
    LET open == [S EXCEPT !.instances[C.id].busy = @ + 1,
                          !.instances[C.id].installed = FALSE,
                          !.instances[C.id].initSlotsCalled = FALSE]
    IN Send(Append(Front(callers), [C EXCEPT !.phase = "initialized"]), open, "init", C.id)

\* The instance that was created may be gone for good: BuildInstance reads it
\* all the same.
MakeInitializes ==
    LET I == Instance(store, Here.id)
    IN /\ Resumes("make", "created")
       /\ CASE I.state = "freed" -> store' = [store EXCEPT !.stray = TRUE]
                                    /\ UNCHANGED <<callers, raised>>
            [] I.state # "freed" /\ ~I.installed ->
                  callers' = Front(callers) /\ raised' = "error" /\ UNCHANGED store
            [] OTHER -> Initialize(Here, store)
       /\ UNCHANGED orderly

\* CoreInitializeInstance when init has returned: make-instance deletes what
\* was not initialized well.
Initialized ==
    LET i == Here.id
        S == [store EXCEPT !.instances[i].busy = @ - 1, !.instances[i].installed = TRUE,
                            !.instances[i].initSlotsCalled = FALSE]
        well == raised # "error" /\ Instance(store, i).initSlotsCalled
    IN /\ Resumes("make", "initialized") \/ Resumes("initialize", "initialized")
       /\ store' = IF Here.kind = "make" /\ ~well THEN QuashInstance(S, i) ELSE S
       /\ callers' = Front(callers)
       /\ UNCHANGED <<raised, orderly>>

InitializeInstance(name) ==
    LET i == FindInstanceBySymbol(store, name)
    IN /\ Evaluates /\ Fits(2) /\ i # None0
       /\ IF ~Instance(store, i).installed
          THEN raised' = "error" /\ UNCHANGED <<store, callers>>
          ELSE LET open == [store EXCEPT !.instances[i].busy = @ + 1,
                                         !.instances[i].installed = FALSE,
                                         !.instances[i].initSlotsCalled = FALSE]
               IN Send(Append(callers, Call("initialize", "initialized", i)), open, "init", i)
       /\ UNCHANGED orderly

-----------------------------------------------------------------------------
(* unmake-instance, of one and of all.                                     *)

Maintained(S) == [GCBlockStart(S) EXCEPT !.maintain = TRUE]
\* CleanupInstances and GCBlockEnd, as garbage was kept before.
Released(S, maintain) == GCBlockEnd(CleanupInstances([S EXCEPT !.maintain = maintain]))

UnmakeInstance(name) ==
    LET i == FindInstanceBySymbol(store, name)
    IN /\ Evaluates /\ Fits(2) /\ i # None0
       /\ Allowed
       /\ Send(Append(callers, Call("unmake", "sent", i)), Maintained(store), "delete", i)
       /\ UNCHANGED orderly

UnmakeReturns ==
    /\ Resumes("unmake", "sent")
    /\ store' = Released(store, Here.maintain)
    /\ callers' = Front(callers)
    /\ UNCHANGED <<raised, orderly>>

\* UnmakeAllInstances: along the list, past what is garbage by then.
PastGarbage(S, i) ==
    LET past[j \in 0 .. Len(S.instances)] ==
            IF j = None0 THEN None0
            ELSE IF Instance(S, j).state = "live" THEN j ELSE past[NxtList(S, j)]
    IN past[i]

UnmakeAllInstances ==
    /\ Evaluates /\ Fits(2) /\ store.list # << >>
    /\ Allowed
    /\ Send(Append(callers, [Call("all", "sent", Head(store.list)) EXCEPT
                                !.due = ToSet(Tail(store.list))]),
            Maintained(store), "delete", Head(store.list))
    /\ UNCHANGED orderly

UnmakeAllGoesOn ==
    LET next == PastGarbage(store, NxtList(store, Here.id))
    IN /\ Resumes("all", "sent")
       /\ IF next = None0
          THEN /\ store' = Released(store, Here.maintain)
               /\ callers' = Front(callers)
               /\ UNCHANGED raised
          ELSE Send(Append(Front(callers), [Here EXCEPT !.id = next, !.due = @ \ {next}]),
                    store, "delete", next)
       /\ UNCHANGED orderly

-----------------------------------------------------------------------------
InstancesInit ==
    /\ store = [instances |-> << >>, list |-> << >>,
                table |-> [b \in {HashInstance[n] : n \in InstanceName} |-> << >>],
                garbage |-> <<{}>>, maintain |-> FALSE, stray |-> FALSE]
    /\ callers = << >>
    /\ raised = "none"
    /\ orderly \in BOOLEAN

InstancesNext ==
    \/ \E name \in InstanceName :
          \/ MakeInstance(name) \/ InitializeInstance(name) \/ UnmakeInstance(name)
          \/ SendDelete(name)
    \/ MakeReplaces \/ MakeInitializes \/ Initialized
    \/ UnmakeReturns \/ UnmakeAllInstances \/ UnmakeAllGoesOn
    \/ MessageReturns \/ DeleteInstance \/ InitSlots \/ Fail \/ Recover \/ Clean

InstancesSpec == InstancesInit /\ [][InstancesNext]_instanceVars

-----------------------------------------------------------------------------
(* Properties.                                                             *)

Made == DOMAIN store.instances
InState(state) == {i \in Made : Instance(store, i).state = state}

\* The list and the chains hold the instances that live, each once, on the
\* chain of its name.
ListsHoldTheLiving ==
    ~store.stray =>
        /\ ToSet(store.list) = InState("live") /\ IsInjective(store.list)
        /\ \A b \in DOMAIN store.table :
              /\ IsInjective(store.table[b])
              /\ ToSet(store.table[b]) = {i \in InState("live") : HashInstance[Instance(store, i).name] = b}

\* An instance is held by the messages sent to it, by its initialization, and
\* while another one of its name takes its place.
BusyCountsHolders ==
    \A i \in Made :
        Instance(store, i).busy =
            Cardinality({k \in DOMAIN callers :
                \/ callers[k].kind = "message" /\ callers[k].id = i
                \/ callers[k].phase = "initialized" /\ callers[k].id = i
                \/ callers[k].phase = "replaced" /\ callers[k].old = i})

\* What is garbage waits in one garbage frame and will be freed from there; what
\* is held is not freed, however messages and garbage frames end.
GarbageIsKept ==
    /\ UNION ToSet(store.garbage) = InState("garbage")
    /\ \A k, n \in DOMAIN store.garbage : k # n => store.garbage[k] \cap store.garbage[n] = {}
    /\ \A i \in InState("freed") : Instance(store, i).busy = 0
    /\ callers = << >> => ~store.maintain

\* (unmake-instance *) comes to every instance there was when it began, whatever
\* handlers delete or make on the way: whoever goes on along nxtList from where it
\* is, meets them all.
UnmakeAllReaches ==
    \A k \in DOMAIN callers : callers[k].kind = "all" =>
        \A reached \in SUBSET Made :
            /\ callers[k].id \in reached
            /\ \A j \in reached : NxtList(store, j) \in reached \cup {None0}
            => callers[k].due \cap InState("live") \subseteq reached

\* Where handlers keep the rules, whatever those of init do, a name has one
\* instance at most (insmngr.c:813-816) and no memory is used that was given back.
NamesAreUnique ==
    orderly =>
        /\ ~store.stray
        /\ \A i, j \in InState("live") : Instance(store, i).name = Instance(store, j).name => i = j

InstancesInv ==
    /\ ListsHoldTheLiving
    /\ BusyCountsHolders
    /\ GarbageIsKept
    /\ UnmakeAllReaches
    /\ NamesAreUnique
=============================================================================
