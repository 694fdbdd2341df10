----------------------------- MODULE MCLanguage -----------------------------
(* Small instances of what works on its own: the rule compiler, the        *)
(* functions on multifields, sort, class precedence lists, generic         *)
(* functions, the methods of one, the tables of message-handlers, and      *)
(* messages.  A behaviour is one of one of them; the others stay idle.     *)
EXTENDS RuleCompiler, Multifields, MergeSort, ClassPrecedence, Generics, Messages

VARIABLE part

allVars == <<part, ruleVars, fieldVars, sortVars, classVars, genericVars, messageVars>>

MCSymbol == {"a", "b"}
MCAtom == 1 .. 3
MCKey == 1 .. 2

MCClass == {"INTEGER", "NUMBER", "SYMBOL"}
MCHasSuperclass == {<<"INTEGER", "NUMBER">>}
Anything == Param(<< >>, 0)
Typed(class) == Param(<<class>>, 0)
Queried(class) == Param(<<class>>, 1)
Takes(params) == [params |-> params, wild |-> FALSE]
MCGeneric == {"f", "g", "h"}
MCSignature ==
    [f |-> {Takes(<<Typed("INTEGER")>>), Takes(<<Typed("SYMBOL")>>), Takes(<<Queried("NUMBER")>>)},
     g |-> {[params |-> <<Anything>>, wild |-> TRUE]},
     h |-> {Takes(<<Typed("INTEGER"), Typed("NUMBER")>>), Takes(<<Typed("NUMBER"), Typed("INTEGER")>>),
            Takes(<<Typed("NUMBER"), Typed("NUMBER")>>), Takes(<<Typed("NUMBER"), Anything>>),
            Takes(<<Queried("NUMBER"), Anything>>), Takes(<<Anything, Typed("INTEGER")>>)}]
MCArguments == {<<"INTEGER">>}
MCMaxMethods == [f |-> 3, g |-> 1, h |-> 4]

MCHandlerClass == {"sub", "super", "wide"}
MCMessageName == {"m", "n", "o", "p"}
MCBucket == [m |-> 1, n |-> 2, o |-> 2, p |-> 3]
MCMaxHandlers == [sub |-> 3, super |-> 1, wide |-> 5]
MCReceiver == {"object"}
MCPrecedence == [object |-> <<"sub", "super">>]

MCInit ==
    /\ part \in {"rules", "fields", "sort", "classes", "generics", "methods", "handlers",
               "messages"}
    /\ RulesInit /\ ClassesInit /\ GenericsInit /\ MessagesInit
    /\ IF part = "fields" THEN FieldsInit ELSE value = Fresh(<< >>) /\ status = "void"
    /\ IF part = "sort" THEN SortInit ELSE arguments = << >> /\ swap = {}

MCNext ==
    \/ part = "rules" /\ RulesNext
       /\ UNCHANGED <<part, fieldVars, sortVars, classVars, genericVars, messageVars>>
    \/ part = "fields" /\ FieldsNext
       /\ UNCHANGED <<part, ruleVars, sortVars, classVars, genericVars, messageVars>>
    \/ part = "sort" /\ SortNext
       /\ UNCHANGED <<part, ruleVars, fieldVars, classVars, genericVars, messageVars>>
    \/ part = "classes" /\ ClassesNext
       /\ UNCHANGED <<part, ruleVars, fieldVars, sortVars, genericVars, messageVars>>
    \/ part = "generics" /\ GenericsNext /\ new_index'["h"] = 0
       /\ UNCHANGED <<part, ruleVars, fieldVars, sortVars, classVars, messageVars>>
    \/ part = "methods" /\ DefinitionsNext("h")
       /\ UNCHANGED <<part, ruleVars, fieldVars, sortVars, classVars, messageVars>>
    \/ part = "handlers" /\ HandlersNext({"wide"}, MessageName, {"before", "primary"})
       /\ UNCHANGED <<part, ruleVars, fieldVars, sortVars, classVars, genericVars,
                      core, calls, flags, outcome, dangling>>
    \/ part = "messages" /\ MessagesNext({"sub", "super"}, {"m"}, HandlerType)
       /\ UNCHANGED <<part, ruleVars, fieldVars, sortVars, classVars, genericVars>>

(* What is computed is what was meant: what the compiler makes of a rule matches *)
(* as the rule reads, functions on multifields answer what they promise, and the *)
(* methods of a generic function that can be compared come in the order of what  *)
(* they accept.                                                                  *)
AnswersInv == CompilerKeepsMeaning /\ FieldsInv /\ MethodsInOrder

MCSpec == MCInit /\ [][MCNext]_allVars
=============================================================================
