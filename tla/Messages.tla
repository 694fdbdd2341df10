------------------------------ MODULE Messages ------------------------------
(***************************************************************************)
(* Sending messages (src/src/msgpass.c).  A message to an instance runs    *)
(* the handlers of its name of the instance's class and superclasses: the  *)
(* first around handler, in which call-next-handler goes on to the next or *)
(* to the rest; then all before handlers, the first primary handler, in    *)
(* which call-next-handler goes on to those it shadows, and all after      *)
(* handlers.                                                               *)
(*                                                                         *)
(* Where a message is, is two global pointers into its list of handlers;   *)
(* every message sent and handler called in between changes and restores   *)
(* them.  Behaviours: any nesting of messages, calls of shadowed handlers, *)
(* definitions and deletions of handlers, errors, halts and try.  A        *)
(* handler called with a wrong number of arguments is one that fails.      *)
(* Not modelled: arguments, slots, return values and tracing; what becomes *)
(* of the instance is in module Instances.                                 *)
(***************************************************************************)
EXTENDS MessageHandlers

CONSTANTS
    Receiver,       \* what messages are sent to
    Precedence,     \* of each: the classes it is of, the most specific first
    MaxSends        \* bound: messages and calls inside each other

\* A class precedence list has each class once.
ASSUME MessagesAssumption ==
    /\ Precedence \in [Receiver -> Seq(HandlerClass)]
    /\ \A r \in Receiver : IsInjective(Precedence[r])
    /\ MaxSends \in Nat

VARIABLES
    core,       \* CurrentCore and NextInCore
    calls,      \* PerformMessage and CallNextHandler under way, the innermost last
    flags,      \* EvaluationError with HaltExecution, HaltExecution alone, or none
    outcome,    \* history: whether the last message to end ran what it had to
    dangling    \* history: a message's handlers were moved or freed under it

messageVars == <<handlers, handlerOrderMap, core, calls, flags, outcome, dangling>>

\* A pointer: a place in the list of handlers of the message that is a call.
Nowhere == [call |-> 0, at |-> 0]
Place(call, at) == [call |-> call, at |-> at]

-----------------------------------------------------------------------------
(* The list of handlers of a message.                                      *)

\* The handlers of a type among these groups, each of one class, in their order.
LinksOfType(classes, group, type) ==
    LET link(p) == [cls |-> classes[p[1]], at |-> group[p[1]][p[2]]]
        found == {p \in UNION {{i} \X DOMAIN group[i] : i \in DOMAIN classes} :
                     handlers[link(p).cls][link(p).at].type = type}
        order == {q \in found \X found : \/ q[1][1] < q[2][1]
                                         \/ q[1][1] = q[2][1] /\ q[1][2] < q[2][2]}
        all == InOrder(found, order)
    IN [k \in DOMAIN all |-> link(all[k])]

\* FindApplicableOfName, in one class after the other, as class and place.
FindApplicableOfName(classes, mname, type) ==
    LinksOfType(classes, [i \in DOMAIN classes |-> NameGroup(classes[i], mname)], type)

\* FindApplicableHandlers and JoinHandlerLinks: << >> when none is primary.
FindApplicableHandlers(classes, mname) ==
    LET of(type) == FindApplicableOfName(classes, mname, type)
    IN IF of("primary") = << >> THEN << >>
       ELSE of("around") \o of("before") \o of("primary") \o Reverse(of("after"))

\* Every link of a list holds its handler.
Hold(list, by) ==
    [c \in HandlerClass |-> [i \in DOMAIN handlers[c] |->
        [handlers[c][i] EXCEPT !.busy =
            @ + by * Cardinality({k \in DOMAIN list : list[k] = [cls |-> c, at |-> i]})]]]

TypeIn(list, k) == handlers[list[k].cls][list[k].at].type

\* The handler behind a pointer.
Behind(list, pointer) ==
    IF pointer.at < Len(list) THEN Place(pointer.call, pointer.at + 1) ELSE Nowhere

\* What CallHandlers runs of a list.
Whole(list) ==
    {k \in DOMAIN list : \/ TypeIn(list, k) \in {"before", "after"}
                         \/ /\ TypeIn(list, k) = "primary"
                            /\ k = 1 \/ TypeIn(list, k - 1) # "primary"}

-----------------------------------------------------------------------------
(* Where expressions are evaluated: commands, arguments, handlers.         *)

Depth == Len(calls)
Innermost == calls[Depth]
Mode == IF Depth = 0 THEN "command" ELSE Innermost.mode
\* An error ends the arguments; a handler that is entered after one is not kept
\* from being evaluated, but what it calls returns at once.
Evaluates == Mode \in {"one", "all"} \cup (IF flags = "none" THEN {"command"} ELSE {})
                                    \cup (IF flags = "error" THEN {} ELSE {"arguments"})
MayCall == Evaluates /\ flags = "none"

\* Something evaluated fails, or halts.
Fail(as) ==
    /\ MayCall /\ Depth > 0
    /\ flags' = as
    /\ UNCHANGED <<handlers, handlerOrderMap, core, calls, outcome, dangling>>

\* What is called after an error forgets it, and returns as it is halted.
CalledAfterError ==
    /\ Evaluates /\ flags = "error"
    /\ flags' = "halted"
    /\ UNCHANGED <<handlers, handlerOrderMap, core, calls, outcome, dangling>>

\* try, wherever it is evaluated; the next command.
Recover ==
    /\ flags = "error" \/ (flags = "halted" /\ Depth = 0)
    /\ flags' = "none"
    /\ UNCHANGED <<handlers, handlerOrderMap, core, calls, outcome, dangling>>

\* Handlers are defined and deleted.
Define(classes, names, types) ==
    /\ MayCall
    /\ HandlersNext(classes, names, types)
    /\ dangling' = (dangling \/ \E i \in DOMAIN calls : \E k \in DOMAIN calls[i].list :
                        LET c == calls[i].list[k].cls
                        IN Len(handlers[c]) # Len(handlers'[c]))
    /\ UNCHANGED <<core, calls, flags, outcome>>

-----------------------------------------------------------------------------
(* Calls begin: messages and shadowed handlers.                            *)

\* A call: what it has begun (at, done), and the core it restores.
Enclose(kind, mode, receiver, mname) ==
    calls' = Append(calls, [kind |-> kind, mode |-> mode, receiver |-> receiver, name |-> mname,
                            list |-> << >>, core |-> core, at |-> Nowhere, done |-> {}])

\* PerformMessage: the arguments come first, while the core is still what it was.
Send(receiver, mname) ==
    /\ MayCall /\ Depth < MaxSends
    /\ Enclose("send", "arguments", receiver, mname)
    /\ UNCHANGED <<handlers, handlerOrderMap, core, flags, outcome, dangling>>

NextHandlerAvailable ==
    /\ core.current # Nowhere /\ core.next # Nowhere
    /\ LET list == calls[core.current.call].list
           current == TypeIn(list, core.current.at)
       IN current = "around" \/ (current = "primary" /\ TypeIn(list, core.next.at) = "primary")

\* call-next-handler, and override-next-handler with arguments of its own.
CallNextHandler(mode) ==
    /\ MayCall /\ Depth < MaxSends
    /\ NextHandlerAvailable
    /\ Enclose("next", mode, "none", "none")
    /\ UNCHANGED <<handlers, handlerOrderMap, core, flags, outcome, dangling>>

NoNextHandler == ~NextHandlerAvailable /\ Fail("error")

\* The arguments failed, or are of no use: nothing was changed.
ArgumentsFailed ==
    /\ Mode = "arguments"
    /\ flags = "error" \/ Innermost.kind = "send"        \* no such instance (any more)
    /\ calls' = Front(calls)
    /\ flags' = "error"
    /\ UNCHANGED <<handlers, handlerOrderMap, core, outcome, dangling>>

ArgumentsArePushed ==
    LET C == Innermost
        list == IF C.kind = "send" THEN FindApplicableHandlers(Precedence[C.receiver], C.name)
                ELSE << >>
    IN /\ Mode = "arguments" /\ flags # "error"
       /\ IF C.kind = "send" /\ list = << >>
          THEN calls' = Front(calls) /\ flags' = "error" /\ UNCHANGED handlers
          ELSE /\ calls' = [calls EXCEPT ![Depth] = [C EXCEPT !.mode = "ready", !.list = list]]
               /\ handlers' = IF C.kind = "send" THEN Hold(list, 1) ELSE handlers
               /\ UNCHANGED flags
       /\ UNCHANGED <<handlerOrderMap, core, outcome, dangling>>

-----------------------------------------------------------------------------
(* Calls go on and return.                                                 *)

\* Slip: only the current handler is restored, not the next one.
ReturnCallSlip(C, list) ==
    /\ calls' = Front(calls)
    /\ core' = [core EXCEPT !.current = C.core.current]
    /\ handlers' = IF C.kind = "send" THEN Hold(list, -1) ELSE handlers
    /\ outcome' = (C.mode # "all" \/ flags # "none" \/ C.done = Whole(list))
    /\ UNCHANGED <<handlerOrderMap, flags, dangling>>

\* A call restores the core it found, and a message lets go of its handlers.
ReturnCall(C, list) ==
    /\ calls' = Front(calls)
    /\ core' = C.core
    /\ handlers' = IF C.kind = "send" THEN Hold(list, -1) ELSE handlers
    /\ outcome' = (C.mode # "all" \/ flags # "none" \/ C.done = Whole(list))
    /\ UNCHANGED <<handlerOrderMap, flags, dangling>>

\* The handler at a pointer becomes current, and begins.
Begin(C, list, pointer) ==
    /\ calls' = [calls EXCEPT ![Depth] =
                     [C EXCEPT !.at = pointer, !.done = @ \cup {pointer.at}]]
    /\ core' = [current |-> pointer, next |-> Behind(list, pointer)]
    /\ UNCHANGED <<handlers, handlerOrderMap, flags, outcome, dangling>>

\* CallHandlers: the next handler, if it is of these types and nothing has halted.
CallHandlers(C, list, next, types) ==
    IF flags = "none" /\ next # Nowhere /\ TypeIn(list, next.at) \in types
    THEN Begin(C, list, next)
    ELSE ReturnCall(C, list)

\* Where a message begins, and where call-next-handler goes on: an around
\* handler or a shadowed primary one is called alone, else CallHandlers begins.
Enter ==
    LET C == Innermost
        next == IF C.kind = "send" THEN Place(Depth, 1) ELSE core.next
        list == IF C.kind = "send" THEN C.list ELSE calls[next.call].list
    IN /\ Mode = "ready"
       /\ IF \/ TypeIn(list, next.at) = "around"
             \/ C.kind = "next" /\ TypeIn(list, core.current.at) = "primary"
          THEN Begin([C EXCEPT !.mode = "one"], list, next)
          ELSE CallHandlers([C EXCEPT !.mode = "all"], list, next, {"before", "primary"})

\* A handler has returned, or was cut short.
HandlerReturns ==
    LET C == Innermost
        list == calls[C.at.call].list
        ended == TypeIn(list, C.at.at)
        \* behind the primary handlers that are shadowed
        others == {k \in DOMAIN list : k >= core.next.at /\ TypeIn(list, k) # "primary"}
        behind == IF core.next = Nowhere \/ others = {} THEN Nowhere
                  ELSE Place(core.next.call, Lowest(others))
    IN CASE Mode = "one" -> ReturnCall(C, list)
         [] Mode = "all" /\ ended = "before" -> CallHandlers(C, list, core.next, {"before", "primary"})
         [] Mode = "all" /\ ended = "primary" -> CallHandlers(C, list, behind, {"after"})
         [] Mode = "all" /\ ended = "after" -> CallHandlers(C, list, core.next, {"after"})
         [] OTHER -> FALSE

MessagesInit ==
    /\ HandlersInit
    /\ core = [current |-> Nowhere, next |-> Nowhere]
    /\ calls = << >>
    /\ flags = "none"
    /\ outcome = TRUE
    /\ dangling = FALSE

MessagesNext(classes, names, types) ==
    \/ Define(classes, names, types)
    \/ \E r \in Receiver, name \in names : Send(r, name)
    \/ CallNextHandler("ready") \/ CallNextHandler("arguments") \/ NoNextHandler
    \/ Fail("error") \/ Fail("halted") \/ CalledAfterError \/ Recover
    \/ ArgumentsFailed \/ ArgumentsArePushed
    \/ Enter \/ HandlerReturns

MessagesSpec ==
    MessagesInit /\ [][MessagesNext(HandlerClass, MessageName, HandlerType)]_messageVars

-----------------------------------------------------------------------------
(* Properties.                                                             *)

Running(C) == C.mode \in {"one", "all"}
Messages == {i \in DOMAIN calls : calls[i].kind = "send" /\ calls[i].mode # "arguments"}

\* A handler's busy count is the number of messages under way whose list it is
\* in: 0 when they are over, however they ended.
BusyCountsMessages ==
    \A c \in HandlerClass : \A i \in DOMAIN handlers[c] :
        handlers[c][i].busy =
            Cardinality({j \in Messages : [cls |-> c, at |-> i] \in ToSet(calls[j].list)})

\* The list of a message is never left pointing at handlers that moved: no
\* handler of a class it goes through is defined or deleted during it.
HandlersStay == ~dangling

\* The core is the running handler's: after all messages, shadowed handlers,
\* errors and halts inside it, call-next-handler goes on from where it is.
CoreIsRunning ==
    LET i == SelectLastInSeq(calls, Running)
    IN core = IF i = 0 THEN [current |-> Nowhere, next |-> Nowhere]
              ELSE [current |-> calls[i].at, next |-> Behind(calls[calls[i].at.call].list, calls[i].at)]

\* Around, before and primary handlers go from the most specific class to the
\* most general one, after handlers back, in this order (msgpass.c:1192-1199).
MostSpecificFirst ==
    \A i \in Messages :
        LET list == calls[i].list
            rank == [around |-> 1, before |-> 2, primary |-> 3, after |-> 4]
            place(k) == SelectInSeq(Precedence[calls[i].receiver], LAMBDA c : c = list[k].cls)
        IN \A j, k \in DOMAIN list : j < k =>
              \/ rank[TypeIn(list, j)] < rank[TypeIn(list, k)]
              \/ /\ TypeIn(list, j) = TypeIn(list, k)
                 /\ IF TypeIn(list, j) = "after" THEN place(k) < place(j) ELSE place(j) < place(k)

\* Handlers begin in the order of the list and none is left out; a message that
\* no error or halt has ended ran all that it had to.
NoHandlerIsSkipped ==
    /\ outcome
    /\ \A i \in DOMAIN calls : calls[i].mode = "all" =>
          LET list == calls[calls[i].at.call].list
          IN calls[i].done = {k \in Whole(list) : k <= calls[i].at.at}

\* What call-next-handler enters lies behind the handler that called it.
ShadowsLieBehind ==
    \A i \in DOMAIN calls : calls[i].kind = "next" /\ Running(calls[i]) =>
        LET j == SelectLastInSeq(SubSeq(calls, 1, i - 1), Running)
        IN j # 0 /\ calls[i].at.call = calls[j].at.call /\ calls[i].at.at > calls[j].at.at

\* Messages keep to their handlers, however they nest and end.
MessagesInv ==
    /\ BusyCountsMessages
    /\ HandlersStay
    /\ CoreIsRunning
    /\ MostSpecificFirst
    /\ NoHandlerIsSkipped
    /\ ShadowsLieBehind

\* Messages find their handlers, in the tables and on the way.
MessagingInv == HandlersInv /\ MessagesInv
=============================================================================
