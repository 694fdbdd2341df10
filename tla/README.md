# CLIPSockets in TLA+

CLIPSockets is the CLIPS 6.4x rule engine with one component of its own: an I/O router
for sockets (`src/src/socketrtr.c`), registered with the engine as a set of
user-defined functions, and a set of example programs written in CLIPS rules on top of
it (`src/examples/`). This directory models the socket component, its two rule-based
users, and the parts of the engine whose own logic is hard: agendas, the join network,
truth maintenance, the rule compiler, generic functions, messages, instances, queries,
multifields, and who reads which text and where output goes. TLC checks the models on
small instances; TLAPS proves what matters most about twelve of them for every value of
their constants.

All of it is one thread. What makes it hard is not threads but the other parties of
every step. For the socket component these are the kernel, which completes
connections, reuses descriptors and refuses calls; the peer, which sends, stops and
leaves when it likes; the C library, whose `FILE` has one buffer for two directions;
and the agenda, which fires any rule that matches, on facts that record what `poll`
said some rules ago. For the engine it is the program in CLIPS itself: wherever C code
evaluates an expression (an argument, a query, the body of a handler, the action of a
rule, a line of a file that is being loaded), any function may be called, the one that
is under way included, and whatever the C code holds in a global, a pointer or a place
in an array may have changed when it goes on.

## 1. Inventory

### 1.1 Components of this repository's own

| component | state it keeps | operations |
|---|---|---|
| list of sockets (`socketrtr.c`) | `ListOfSocketRouters`: a singly linked list of `socketRouter` (`FILE *`, domain, `logicalName`), newest first | create-socket, bind-socket, listen, accept, connect, get-socket-logical-name, close-connection by descriptor and by name, `CloseAllSockets` at exit and at deallocation, the walks by descriptor and by name |
| stream I/O on a connection (`socketrtr.c`, `sysdep.c`) | the `FILE` opened `"r+"` over the descriptor, its buffer and its mode | the router callbacks read, unread, write; flush-, empty-, shutdown-connection; set-fully-, set-line-, set-not-buffered; rcvfrom, sendto |
| options and status (`socketrtr.c`) | none (kernel options) | getsockopt, setsockopt, get-timeout, set-timeout, fcntl-add/remove-status-flags, poll |
| name resolution (`socketrtr.c`) | none | resolve-domain-name |
| registration (`userfunctions.c`) | the function table | argument counts and types of each user-defined function |
| concurrent example server (`server-complex.clp`) | one `socket` fact, one `client` fact per connection | eighteen rules |
| load generator (`ab-clone.clp`) | counters, `current-time` facts, one `request` fact per request and what is noted of it | its eleven rules |
| file server (`server-http-file.clp`) | as the concurrent server | one more rule |
| one-shot scripts (`*.bat`) | none | straight lines of calls |

### 1.2 Components taken over from CLIPS

| component | state it keeps | operations |
|---|---|---|
| agenda and conflict resolution (`agenda.c`, `crstrtgy.c`) | per module a list of activations and the salience groups over it | add, remove, move and clear activations, reorder, refresh, set-strategy, set-salience-evaluation |
| run (`engine.c`) | focus stack, run limit, halt flags, the rule that fires | run, focus, pop-focus, halt, return, breakpoints |
| join network (`drive.c`, `retract.c`, `reteutil.c`) | alpha and beta memories, markers of blocked matches | assert and retract an alpha match |
| facts and truth maintenance (`factmngr.c`, `lgcldpnd.c`) | fact-list, dependents, queue of unsupported facts | assert, assert again, retract, forced retractions |
| rule compiler (`reorder.c`, `rulebld.c`) | none | from a left-hand side to joins |
| queries on facts (`factqury.c`) | the loops under way, busy counts | the six query functions |
| generic functions (`genrcpsr.c`, `genrccom.c`, `genrcfun.c`, `genrcexe.c`) | methods in order of precedence, busy counts, `CurrentGeneric`, `CurrentMethod` | defmethod, undefmethod, undefgeneric, calls, call-next-method and its kin |
| messages and handlers (`msgpsr.c`, `msgfun.c`, `msgcom.c`, `msgpass.c`) | handlers of each class and the order map; `CurrentCore`, `NextInCore` | defmessage-handler, undefmessage-handler, send, call-next-handler, override-next-handler |
| instances (`insmngr.c`, `insfun.c`, `inscom.c`) | list of instances, chains by name, busy counts, garbage | make-, initialize-, unmake-instance, delete-instance |
| class precedence lists (`inherpsr.c`), sort (`sortfun.c`), multifields (`multifun.c`) | none | pure algorithms |
| router dispatch (`router.c`), files (`filertr.c`, `iofun.c`), batch and dribble (`fileutil.c`), command loop (`commline.c`) | list of routers by priority, batch stack, dribble buffer, the command line | print, read, open, close, batch, batch*, dribble-on, dribble-off, exit |
| string sources, load (`strngrtr.c`, `strngfun.c`, `cstrcpsr.c`) | `ListOfStringRouters`, `FastLoadFilePtr` | eval, build, load |
| memory and garbage (`memalloc.c`, `utility.c`), symbols (`symbol.c`), the parser, classes and slots, deffunctions, globals, modules | their tables | not modelled but where another module meets them |

### 1.3 How they interact

- A script reaches the socket component by **calls** of user-defined functions; it
  names a socket by the descriptor it was given or by the logical name.
- `printout`, `get-char`, `readline` and `read` go to the **router dispatch**, which
  asks each router in turn whether it knows the logical name (`FindSocket`) and then
  calls its **callbacks**. Among routers of one priority the one added last is asked
  first; sockets and files share a priority.
- The list and the kernel's descriptor table are **shared state**: every function
  changes the two in several steps and can fail between them.
- The logical name is **copied** into facts. A rename (a second `connect`, or
  `connect` after `bind-socket`) does not reach the copies.
- The environment calls `CloseAllSockets` at exit; it and close-connection **give
  memory back** by the length of the name.
- The example server holds **answers of `poll`** in facts (`client-waiting`,
  `ready-to-read`, `ready-to-write`) and acts on them in later rules; it keeps its own
  clock (`current-time`), which only some rules set. All sockets of the load generator
  have **one name**.
- Facts go through the pattern network into the **join network**, whose completed
  matches are the **activations** of the agenda; a rule that fires asserts and
  retracts facts, sets focus, strategy and salience, and so changes the agenda it was
  taken from. Facts it asserts on logical support hang on its match.
- The command loop, eval, build, load and batch* start **readers inside readers**;
  each finds its text through a logical name, so two must not share one.
- Calls of generic functions and messages keep their place in **globals** that every
  nested call saves and restores; methods, handlers, instances and facts carry **busy
  counts** that keep them from being moved or freed meanwhile.

### 1.4 What is hard about it, and what makes each part correct

| part | hard because | correct when |
|---|---|---|
| list of sockets | fields left unassigned by `get_struct`; every failure path leaves the kernel and the list at different points; descriptors are reused at once; names are not unique and go stale; a non-blocking `connect` goes on after FALSE | the list is exactly the open descriptors, one entry each; a name spells the address the last successful call gave its socket; no script that closes by descriptor loses a socket; memory is given back once |
| stream | one buffer for two directions, no seek on a socket, `poll` below the buffer and reads above it, SIGPIPE, short writes | nothing is delivered twice; what flush answers TRUE for has left; `poll` and a read agree; empty-connection ends once the peer stops sending |
| concurrent server | rule order is open; facts are cached answers; counters kept by hand in seven rules; limits compared in two places; liveness hangs on which rules advance the clock | counters match connections; capacity holds; accept does not block while clients wait; every client is answered, and truthfully; the agenda never runs dry |
| load generator | all sockets share one name; the clock is a set of facts; an error ends the run in the middle of a rule | its counters add up while rules fire; no answer is counted twice; one at a time, all are reported |
| agenda and run | an activation is placed by walking its own salience group; a tie is broken by time tags; the rule that fires changes what fires next | agendas are in order, groups point at their ends, the best activation fires |
| join network | one assert enters a rule from several sides; markers and unblocking; garbage of the firing rule | memories hold what the facts match, each once; what is blocked is blocked by something that is there |
| truth maintenance | retractions queue further retractions | a stated fact stays, an unsupported one goes |
| readers | sources are found by name; a depth counter makes the names | each reads its own text, all of it |
| routers | callbacks change the list that is being walked; batch files give way in the middle of a line | input is read once, the transcript is the session, exit closes all |
| generic functions, messages | definitions and deletions inside arguments, queries and bodies; globals to restore on every way out | no method or handler moves under a call; the next one is a later one; busy counts are exact |
| instances, queries on facts | loops stand on what their bodies delete | nothing is freed that is held; loops reach what is left |
| rule compiler, multifields, sort, class precedence | index arithmetic | each agrees with a definition of what it should answer |

`PROJECT.json` lists the hazards one by one, each at its line, with the property that
would notice it.

## 2. Modules

A module of proofs extends the module it is about; an `MC` module gives constants to
one TLC run or several.

| module | models | proofs in |
|---|---|---|
| `SocketRouter` | the list of sockets, with the kernel's sockets around it; instantiates `SocketDirectory` | `SocketRouterProofs` |
| `SocketDirectory` | what the list promises: a map from open sockets to names, where one operation touches one socket | |
| `SocketStream` | one connection through its `FILE`; instantiates `Conversation` | `SocketStreamProofs` |
| `Conversation` | what a connection promises: two first-in first-out channels | |
| `ComplexServer` | the rules of `server-complex.clp`, its clients and the clock | `ExamplesProofs` |
| `AbClone` | the rules of `ab-clone.clp`, its sockets of one name, servers | `ExamplesProofs` |
| `Agenda` | one module's agenda and the seven strategies (operators) | `EngineProofs` |
| `Engine` | agendas, focus stack and (run); extends `Agenda` | `EngineProofs` |
| `JoinNetwork` | partial matches made and withdrawn (operators on a network) | |
| `TruthMaintenance` | facts and logical support over the network; extends `JoinNetwork` | |
| `Readers` | command lines, eval, build, load and batch* in one another | `InputOutputProofs` |
| `Routers` | the list of routers: files, sockets, batch, dribble, exit | `InputOutputProofs` |
| `RuleCompiler` | from the conditions of a rule to joins | |
| `Generics` | methods and calls of generic functions | `DispatchProofs` |
| `MessageHandlers` | tables of handlers of classes | `DispatchProofs` |
| `Messages` | messages and call-next-handler; extends `MessageHandlers` | `DispatchProofs` |
| `Instances` | instances made and deleted in each other's handlers | `InstancesProofs` |
| `FactQueries` | query functions whose actions assert and retract | |
| `Multifields` | the functions on multifields | |
| `MergeSort` | sort | `EngineProofs` |
| `ClassPrecedence` | precedence lists, of new classes and of classes defined again | `InstancesProofs` |
| `SequenceFacts` | lemmas on sequences and numbers used by several proofs | |
| `MCSocketRouter`, `MCSocketStream`, `MCComplexServer`, `MCEngine`, `MCTruthMaintenance`, `MCMethodOrder` | constants of runs on one component | |
| `MCExamples`, `MCWorkingMemory`, `MCInputOutput`, `MCLanguage` | constants of runs that hold several components, see 3.1 | |

`ComplexServer` stands on `SocketRouter` and `SocketStream` through what it assumes of
them: it calls `set-not-buffered` before the first read, the discipline under which
`SocketStream` implements `Conversation`; and it closes by logical name, which
`SocketRouter` shows to be safe only while names differ (an IPv4 server's clients do:
`Arrive`). `AbClone` is the program for which they do not. Both take from `Engine`
only that (run) fires some rule that matches until none does, so what is shown of them
holds under every strategy.

Everywhere a behaviour may nest calls, a model keeps a stack of frames (`stack`,
`frames`, `calls`, `callers`, `queries`), one for each C function that is waiting for
an evaluation to return, and an action for each stretch of C code between two such
points. What the evaluation does is any sequence of the module's own actions. Names
ending in `Slip` are plausible slips in the operator they are named after; no action
uses them, only the mutants listed in `PROJECT.json`.

### 2.1 SocketRouter

| variable | code |
|---|---|
| `routers` | `SocketRouterData(env)->ListOfSocketRouters`, head first; `dom` and `name` are `Unset` where the code never assigns the field |
| `kernel`, `binding`, `pending` | the kernel's sockets, who owns which address, connections not yet accepted (external) |
| `lost` | descriptors the component opened and forgot (`fdopen` failed) |
| `heap` | blocks of this file not given back: structures, names, string builders |
| `proc` | running; `poisoned` after a block was given back under a wrong size; exited; or what it died of |
| `held` | the script's memory: for each socket, the name it last got for it |

One action per function and outcome. Where C keeps going with a value it never wrote,
the model has every outcome: a lookup that meets an unassigned name may fault or
compare unequal; giving back such a name may fault or corrupt a pool, which may fault
later. A garbage name is taken never to equal a name a script asks for. `manner` says
whether a script closes by descriptor, by name, or by either, and is fixed at the start;
the last two break a property the first keeps (`HandlesStayOpen`).

What `bind(2)` and `connect(2)` accept is Linux's rule, external in the map. `CanBind`: a
UNIX socket without an address also when it is connected, which the bind then renames
after its own path; an ip socket that is fresh, or whose connection was reset.
`CanConnect`: a stream socket once, a datagram socket at any time; and a stream socket
that completed a connect behind an answer of FALSE (`established`) takes one more
`connect`, of any address, as the report of that. The kernel answers 0, its peer stays
who it is, and `ConnectFunction` renames the router after the argument
(`socketrtr.c:1444-1449`). `last` and `via` remember which call gave the socket what it
has, for `NamesTellTheTruth`.

### 2.2 SocketStream

The read, unread and write callbacks and every function that touches the stream of one
connection. `file` is the C library's `FILE`: what it has read ahead, what it has not
written, which way it last went, and whether that turn began over unread input
(`stale`), for then a write needs a seek that a socket refuses. These rules are the C
library's, marked external in the map; they were compared with glibc 2.36 on 12 000
random sequences of calls over a socket pair. `habit` is fixed at the start: any order
of calls, or the habit of the example server, which calls `set-not-buffered` before
anything else. `set-fully-buffered` and `set-line-buffered` are modelled only before
the first printed text. `empty-connection` is a loop, one `fgetc` a step, for peers
act while it runs. The bytes of the peer are numbered up to `InMax`; one that sends on
after that keeps the loop reading (`PeerSendsMore`, `EmptyConnectionMore`: `doing` is
`flooded`), for the code bounds neither.

### 2.3 ComplexServer

Each rule is an action and its left-hand side a named guard; `Activated` is their
disjunction. `RunReturns` is the end of `(run)` when nothing matches, after which
`server-complex.bat` exits. Salience is not used by the rules and conflict resolution
is left open, so the properties hold for every strategy. Time is one clock; a rule
that reads it may read any value up to `Lag` later than the last one, and a sleep in
`poll` ends when the sleeper is due, up to `Lag` late, or early when somebody
connects. Characters are `text`, `newline` or `high` (128 to 255). Whether a
connection takes more text is the kernel's choice at each `poll`.
`could-not-accept-client` cannot match and has no action; accept is taken to find a
free descriptor. `Departures` says what peers may do before they are answered: finish
sending, or go altogether.

### 2.4 AbClone

Each rule is an action. `counts` are the four counting facts, `times` the
`current-time` facts (a set, because one rule asserts a second one), `request` the
request facts and `noted` what later rules add about a request (`ready-to-write`,
`written-at`, `has-data-to-read`, the answer). `sockets` are the routers that carry
the one name, the newest first, which is the one every call by name reaches. `doing`
is what (run) is at: choosing a rule, waiting in `readline`, or at one of its ends. Where
a server leaves without an answer, `readline` gives EOF, `explode$` refuses it in the
middle of the `assert` of `read-from-server` (`ab-clone.clp:271-275`), and the run ends
there: `current-time` and the message with no words are asserted, the counters of running
and of finished requests, retracted before, are not. `counts.running` and
`counts.finished` are the sets of values there are facts for.
`world` fixes how many requests may be under way at once and whether servers keep up
their end (each answers its connection once); where they do not, they may also leave.

### 2.5 Agenda and Engine

| variable | code |
|---|---|
| `agenda`, `act`, `total` | each module's `agenda` and `groupings`; the activation of each completed match (its marker): tag, salience, random number; `NumberOfActivations` |
| `matched` | completed matches at the ends of rules |
| `tag` | `CurrentTimetag` |
| `strategy`, `evaluation` | `AgendaData(env)->Strategy`, `SalienceEvaluation` |
| `salience`, `expression` | `defrule->salience`; what a dynamic salience would evaluate to now, or that it fails |
| `focus` | `CurrentFocus` and the stack under it |
| `phase`, `executing`, `limit` | where (run) is, `ExecutingRule`'s match, `runLimit` |
| `haltRules`, `haltExecution`, `returned` | the flags that end a rule or the run |

The join network appears as `Complete` and `Withdraw`; commands and actions of the
firing rule share their actions, since they are the same C functions. `Agenda` models
`PlaceActivation`, the seven placement functions, the removal of an activation from
its group and list, and `ReorderAgenda`, with an activation named by its match.

### 2.6 JoinNetwork and TruthMaintenance

A partial match is named by its place in the network and its parents, so children and
blocked lists are read off the memories; memories are lists in the code's order. One
fact asserted or retracted is one step, in which `NetworkAssert`, `RetractBeta` and
`Unblock` follow the code's recursion join by join. `Cut` and `Unlinked` stand for a
match that is garbage while the rule that fires still points at it. `facts` is the
fact-list, `net` the network with the dependents of facts and the queue of unsupported
ones, `firing` the rule that fires, `ground` a history of how each fact came.

### 2.7 Readers and Routers

`Readers`: `stack` are the readers, the running one first; `sources` is
`ListOfStringRouters`, `fast` is `FastLoadFilePtr`, `files` the load files that are
open. A text is a number of parts; a call can be made at each, at once if the text is
a construct (its parser evaluates), after the last part if it is a command. `calls`
only bounds the behaviours.

`Routers`: `m` is one record, because callbacks work on it within one call: the list
of routers, open files and sockets, the batch stack, the console, the dribble state
and buffer, whether input is awaited, and histories: what was read of each file and of
the console (`taken`), what the screen showed (`shown`), a write to the closed dribble
file (`late`). `session` says who runs: the command loop, a command, a `readline`
inside a command (`FillBuffer` is its loop, one character a step), or exit, which
calls one callback a step and knows the router behind before it calls (`due`,
`NextRouter`). `outputs` and `used` bound; `split` and `printed` are histories for two
properties.

### 2.8 Generics, MessageHandlers and Messages

`Generics`: `methods` and `new_index` are the `methods` array and `new_index` of each
generic function; `frames` the calls under way, each at its arguments, in a query
while `FindApplicableMethod` searches, or in a method; `current` is `CurrentGeneric`
and `CurrentMethod`, which each call saves and restores; `error` the two flags that
end calls early. A busy count goes up for a method whose query is being evaluated, for
one that runs, and, once more, for the one `call-specific-method` has picked, whose
queries are evaluated before it is counted as running (`genrcexe.c:199-204`).

`FindApplicableMethod` looks for the next method from the address of the current one to
the end of the array of the current generic function (`genrcexe.c:673-690`). In an
argument of a call of another function the two are of different arrays, and how these
lie in memory decides: `Stops` has all outcomes. The search ends at once; or goes through
the rest of the current method's array, and may run one of its methods as a method of
the other function (`array` says in whose array a frame is); or passes the end of that
array (`scan`), and goes on in the other one, or takes what lies between for a method:
then the call is `lost`, and nothing more is said.

`MessageHandlers`: `handlers` and `handlerOrderMap` as in a `defclass`. `Messages`:
`core` is `CurrentCore` and `NextInCore`, `calls` the invocations of `PerformMessage`
and `CallNextHandler`, `flags` as above, `outcome` and `dangling` histories of whether
messages ran what they had to and whether their list ever pointed at handlers that
moved.

### 2.9 Instances and FactQueries

`Instances`: `store` holds the instances, `InstanceList`, the chains of
`InstanceTable`, the garbage frames and `MaintainGarbageInstances`; `callers` the C
functions waiting for a message to return. `orderly` says whether handlers keep two
rules the code relies on and does not enforce (handlers of create make and delete no
instances; handlers of delete none but their own, which they delete); where it is
false, memory that was freed may be used (`store.stray`) and nothing more is claimed.

`FactQueries`: `heap` holds the facts, the template's list and the garbage frames;
`queries` the queries under way with where each of their loops stands; `tidy` plays
the part of `orderly` (conditions retract nothing; while a loop stands on a fact that
is gone, no other is retracted).

### 2.10 RuleCompiler, Multifields, MergeSort, ClassPrecedence

Pure algorithms. Their behaviours build an input step by step (a left-hand side
written condition by condition, a multifield function applied to the answer of
another, one more argument of sort, one more class), and invariants compare what the
algorithm makes of it with a definition of what it should be: the situations in which
the conditions hold, the fields a function should answer, a stable permutation, the
rules of precedence.

`MergeSort` and `ClassPrecedence` write the loops of the code as functions of how often
the loop was run, with what the loop's variables hold then as a record: what the merge
has taken, what is left of the table of classes, where the scan goes on. The number of
turns is bounded (`Len(one) + Len(two)`, the number of classes); after the last one the
function stays where it is.

## 3. What TLC checks

Every property of a passing run has a mutant in `PROJECT.json`: a plausible slip in a
mapped definition, under which TLC finds that property violated.

### 3.1 Passing runs

| run | question | result |
|---|---|---|
| `router` | do list, kernel, names and heap agree on every path, failing ones included? does a script that closes by descriptor ever lose a socket? | two descriptors, two addresses, streams and datagrams of the three families: `IInv` (types, one router per descriptor, open means listed, families, reports), `HeldNamesCurrent`, `HeapCoversList`; each name is the one the last successful call gave its socket, but for a connect that only reports (`NamesTellTheTruth`); such a script never does (`HandlesStayOpen`); and the list implements `SocketDirectory` (`ImplementsDirectory`) |
| `stream` | what survives any order of calls, and is `set-not-buffered` first a sound discipline? | `IInv`: nothing is read or delivered twice; text printed over unread buffered input is stuck for good (`WedgedForGood`); `empty-connection` returns on a descriptor that does not wait, unless the peer never stops sending (`EmptyReturns`). Under the discipline flush keeps its promise and `poll` sees what a read would (`UnbufferedTellsTheTruth`), and the stream implements `Conversation` (`ImplementsConversation`) |
| `server_full` | with more clients than places, and clients that leave half-way or altogether? | `IInv`: the number of clients is the number of their facts, capacity holds, `accept` never blocks on a stale `poll`, and a polled read finds input or its end; and no answer misreads its client (`AnswersAreTrue`) |
| `examples` | with room for all and clients that stay, does the server go on? does the load generator keep count? | the agenda never runs dry (`KeepsServing`), every client is answered (`EveryClientAnswered`). The load generator's counters add up until an error ends the run, no answer counts twice, the time is known (`LoadInv`); one request at a time, all are reported (`AllIsReported`) |
| `engine` | do agendas stay in order whatever changes them? | `AgendaInv`: order, groups, markers, time tags, counts, focus; (run) fires the best (`FiresTheBest`), by saliences as they are now where they are evaluated every cycle (`SalienceIsCurrent`). An assumption of `MCEngine` evaluates that each strategy puts the matches of a module in one order |
| `working_memory` | does the network hold what the facts match? do supports, instances and loops survive what deletes them? | `NetworkInv` (memories, markers), `CompletionActivates`, `SupportIsLive`, `StatedFactsStay`; `InstancesInv` (lists hold the living, busy counts, garbage, one instance of a name); `QueriesInv` (busy counts, garbage, loops reach the rest) |
| `input_output` | does each reader read its own text, and what becomes of input and output? | `ReadersInv`, `EvalReadsAll`, `CommandsEnd`; `RoutersInv` (input once, the transcript is the session, exit closes all), `SocketComesFirst`, `SessionInputIsRead` |
| `language` | are the algorithms right, and do calls survive definitions inside them? | `AnswersInv`: what the joins let through is what the conditions say, functions on multifields answer what they promise, and of methods that can be compared a narrower one comes first and none is there twice, in whatever order they were defined. `SortInv` (a stable permutation), `PrecedenceInv` (the rules are kept, refusals have a cause, redefinition changes nothing), `GenericsInv`, `MethodsStay`, `MessagingInv` (tables, order, busy counts, the core) |

The last four (and `examples`) hold several components: a variable `part` is chosen at
the start and only that component moves. Their invariants are conjunctions of named
parts, one for each component or one for each kind of promise; the definitions carry a
comment each.

### 3.2 Runs that end in a violation

Each shows where the code and a statement of the repository part; the statement and
the lines are quoted under `findings`.

| run | property | what happens |
|---|---|---|
| `router_name_reaches_its_socket` | `NameReachesItsSocket` | two connections to one address share a name; operations on it reach the newer one |
| `stream_flush_promise` | `FlushKeepsPromise` | flush-connection answers TRUE for text that never leaves the process |
| `dead_matches` | `DeadMatchesSupportNothing` | a rule retracts what its logical conditions rest on and then asserts a fact: the fact depends on garbage, and stays |
| `method_order` | `MoreParametersFirst` | `(f (INTEGER) (SYMBOL))` is defined, then `(f (INTEGER))`: the shorter one is placed first |

More came to light while the models were written. The models have what is said here;
no run is spent on it. Sockets and examples:

- Memory is left behind by an `accept` that fails (`socketrtr.c:1189`), by a `connect`
  on a descriptor no router has (`:1377-1381`), and by every second name (`:1446`);
  the environment reports it when it ends (`envrnbld.c:237`).
- A non-blocking `connect` answers FALSE and may complete later (`:1433`). A further
  `connect`, to any address, then answers TRUE and names the router after that address,
  although its peer is the first one (`:1444-1449`).
- `bind-socket` on a connected UNIX socket succeeds and renames its router (`:1064`).
- `empty-connection` reads as long as the peer sends (`:744`).
- A lookup by name, which every `printout` makes, reads the unassigned name of a
  socket that is neither bound nor connected (`:183`).
- `set-timeout` puts all its microseconds in `tv_usec`; from one second on the kernel
  refuses, and the answer is -1 instead of FALSE (`:1342`).
- `poll` on a buffered stream answers FALSE with characters already read ahead
  (`:351`); `PollSeesInput` holds only for the unbuffered habit.
- The server stops when it is full, a client waits and all others sleep: no rule
  matches (`server-complex.clp:116`). It stops when a client hangs up (`:366`), or
  ends in the middle of a line, unless that is answered as too long. An answer to a
  client that left kills it by SIGPIPE (`:287`).
- In the load generator a name reaches the newest of its sockets, so two requests at a
  time read each other's answers, and may leave a `readline` that waits for ever.
  `retry-checking-for-data` asserts a second `current-time`; from then on rules may
  use the older one and sleep too long. `(not (ready-to-write ?id ?))` never matches,
  for the facts have three fields. Readiness to write is polled for, after a delay,
  with POLLIN and data with POLLOUT. A `connect` that fails leaves a request that
  blocks all others. An answer that is only an end of file ends the run, with two of the
  counters retracted. Under the default strategy no two requests are ever under way.

Engine and facts:

- `(run 2)` reports that its limit was reached also where the second rule was the last
  one there was (`engine.c:592-598`).
- `DeleteAllActivations` takes the current module's agenda and not its argument's;
  `MoveActivationToTop` leaves the salience groups as they were. `ResetDefrulesPrime`
  (`rulebsc.c:218-250`) clears the marker of an empty left match and drives it on
  without looking at what stands on its right.
- A test that closes a negated group is dropped where the group's last pattern closed
  one itself (`rulebld.c:456-457`): `(not (and (not (and (not (b)) (test (= 1 1))))
  (test (= 1 2))))`.
- find-fact and do-for-fact whose condition retracts answer facts that were freed
  (`factqury.c:1217`, `:1232`).

Reading and printing:

- A command that is begun while a construct is parsed (by batch* in the value of a
  defglobal) finds the name `command` taken, does not look whether its source was
  opened, and reads on in the outer command (`commline.c:913`, `:917`). A load inside
  a load sets `FastLoadFilePtr` to NULL for the outer one (`cstrcpsr.c:144`).
- At exit the dribble file is closed, and not forgotten, before the batch files are,
  whose buffer is then printed through the dribble router into the closed file
  (`fileutil.c:275-288`, `:860-888`).

Generic functions, messages, instances, multifields:

- `genrcpsr.c:1628` repeats the test of `:1626` with its sides exchanged. So of two
  methods restricted alike where both have parameters, the one defined last comes first
  (`method_order`); and a method of fewer parameters that is there already, and not the
  first, may not be found again: `(f (INTEGER))`, `(f (INTEGER) (SYMBOL))` and again
  `(f (INTEGER))` are three methods.
- While arguments are evaluated `CurrentGeneric` is the function called and
  `CurrentMethod` still the caller's (`genrcexe.c:180`), so call-next-method in an
  argument of another generic function searches from one array to the end of another
  (`:673-690`, see 2.8): it answers that there is no next method, or runs the caller's
  next method as the other function's, or takes memory between the arrays for a method.
  `GenericCurrentArgument` is not saved (`:360`). `(undefgeneric *)` inside an
  argument deletes what is being called, for `ClearDefgenerics` asks for methods that
  run and not for calls (`genrcfun.c:398-425`).
- The comments on the search for handlers name a second key, the type (`msgfun.c:709`,
  `:745`); the map is ordered by bucket alone.
- A delete handler that makes its instance anew leaves two living instances of one
  name (against `insmngr.c:813-816`); a create handler that deletes its own instance
  leaves the caller with freed memory; a failed initialize-instance leaves
  `initializeInProgress` set.
- The object pattern matcher turns a queued modification into a retraction in place
  (`objrtmch.c:502-511`), behind later ones, against the comment at `:549-551`: inside
  `object-pattern-match-delay`, two modifications that join and the deletion of one of
  the two end in a null pointer (`objrtfnx.c:1115`). (This part is not modelled.)
- delete-member$ goes on in a view with places of the old value
  (`multifun.c:409-412`); insert$ at an index below 1 prints an error, raises none and
  answers nothing (`:564-569`).

### 3.3 Bounds, and why they are enough

- *Router.* Two descriptors are two sockets at one address, or a listener and what it
  accepts; each is closed and its number used again by another socket, of another family
  or type. Two addresses are the least for which a name can be wrong; one pending
  connection (`Backlog`) is one more than none, and `accept` looks only at the first.
  `MaxHeap` = 6 is two sockets with their names, and two blocks more, which failing
  calls and second names leave behind.
- *Stream.* `BufSize` = 2 tells a buffer that holds everything from one that does not
  with `InMax` = 3; `OutMax` = 2 and `SendBuf` = 1 make the second text wait, or be
  cut short. `InMax` bounds the bytes that are told apart, not what a peer sends.
- *Server.* Two clients, because the rules compare a client with the first in line and
  with nobody else; `MaxMessage` and `SentMax` have messages below, at and above the
  limit; `MaxTimeouts` = 2 and `Life` = 2 let a client be late once and be dismissed
  by either limit; `Lag` = 1 lets a deadline pass inside a rule. Nothing bounds the
  clock: rules read it only a bounded number of times per client.
- *Load generator.* `Requests` = 2 with one and with two at a time (`Worlds`), for
  only two can be confused; the clock goes on by itself to `Horizon` = 1, and a poll
  may fail until `MaxDelay` = 1, so each wait is once too short.
- *Engine.* Two modules; three rules, one of two matches, one of computed salience,
  one with auto-focus and a breakpoint; two saliences; depth and mea (the assumption
  covers all seven). `MaxTag` = 3 activations are ever made: two make a group of which
  either end can leave, the third is placed after it. `MaxFocus` = 3 lets a module be
  on the stack twice.
- *Working memory.* Three rules over four facts have a negated and an exists join, a
  join from the right, shared joins, and a fact that enters one join from both sides.
  Two names on one chain, `MaxInstances` = 3, `MaxCallers` = 3; two query variables,
  `MaxFacts` = 3, `MaxLoops` = 2: an outer and an inner loop with a fact before, on
  and behind each.
- *Input and output.* `MaxReaders` = 5 and `MaxCalls` = 5 allow every reader inside
  every other; two batch files, one of two lines and one that ends inside its line; a
  console of two lines; one name for file and socket, one piece
  of output. A file that ends inside a line, below another or above the console, is
  where input and echo can go wrong.
- *Language.* `MaxLeaves` = 3 patterns and tests with all nestings of three;
  `MaxLength` = 4 fields; lists of `MaxList` = 9, with merges of unequal slices at
  three levels; `MaxClasses` = 7 with two superclasses each. For calls, two generic
  functions of four signatures, indices given or not (`GivenIndex`), `MaxDepth` = 3 calls
  inside calls and `MaxTogether` = 5 with the methods: two are the least for which one
  function's method can run as the other's. For the order of methods a third one, of six
  signatures of two parameters, narrower in one, in both, in different ones or by a query,
  of which four may be there. Five handlers in one table with two
  names in one bucket; two classes and `MaxSends` = 3 messages inside each other.

The proofs of section 4 hold for every value of these constants.

Deadlock is checked except in `input_output`, `language` and `method_order`, whose
behaviours end: a
session is over after exit, and an input of an algorithm is complete at its bound.
Elsewhere a stuttering disjunct stands where the system really stops (after exit, in
an `accept` that waits).

### 3.4 Fairness

- `SocketStream!FairSpec` (`stream`): weak fairness of `EmptyConnectionByte`, or the
  SIGPIPE that ends it. It is a C loop; whenever its `fgetc` can return, it does. No
  fairness of the peer or the kernel is assumed.
- `MCExamples!MCSpec` (`examples`): weak fairness of the server's `Fire` and the load
  generator's `GetsOn`. `(run)` fires rules until the agenda is empty; it says nothing
  of *which* rule fires, and nothing about clients: that a silent client is dismissed
  and that those behind it in line are served follows from the rules' own clock and
  delays. `Answered` is fair for the servers the load generator talks to, in the
  worlds where they keep up their end; `AllIsReported` speaks of those only.
- `MCInputOutput!MCSpec` (`input_output`): weak fairness of `Go` (a reader that runs
  goes on), of `LoopRead` (the command loop reads), of `EndOfCommand` (a command ends)
  and of `FillBuffer` (a `readline` reads on while there is input: a C loop). Nothing
  makes a command call exit, or anything else.

## 4. What is proved

All theorems hold for every value of the constants that the named `ASSUME`s of the
module allow, and for behaviours of any length.

| theorem | says |
|---|---|
| `SocketRouterProofs` | |
| `Invariance`, `TypeCorrect` | `Spec => []IInv`, `Spec => []TypeOK` |
| `OneRouterPerDescriptor`, `ListMatchesKernel` | `Spec => []DescriptorsDistinct`, `Spec => []OpenMeansListed` |
| `NamesAreTrue`, `FamiliesAgree` | `Spec => []NamesTellTheTruth`, `Spec => []DomainsMatch` |
| `DescriptorDiscipline` | `Spec => []HandlesStayOpen`, which speaks of scripts that close by descriptor only |
| `HeldNamesStay`, `HeapCovers` | `Spec => []HeldNamesCurrent`, `Spec => []HeapCoversList` |
| `ListIsDirectory` | `Spec => ImplementsDirectory` |
| `SocketStreamProofs` | |
| `Invariance`, `TypeCorrect` | `Spec => []IInv`, `Spec => []TypeOK` |
| `UnbufferedIsHonest` | `Spec => []UnbufferedTellsTheTruth` |
| `StaleTextStays` | `Spec => WedgedForGood` |
| `StreamConverses` | `Spec => ImplementsConversation` |
| `ExamplesProofs`: `ComplexServer` | |
| `Invariance`, `TypeCorrect` | `Spec => []IInv`, `Spec => []TypeOK` |
| `ClientsCounted`, `CapacityHolds` | `Spec => []CountsClients`, `Spec => []WithinCapacity` |
| `WaitingIsTrue`, `ReadyIsTrue` | `Spec => []WaitingMeansQueued`, `Spec => []ReadyMeansInput` |
| `AnswersTrue` | `Spec => []AnswersAreTrue` |
| `ServerKeepsServing` | `Spec => []KeepsServing`, if peers stay until answered and there is a place for each |
| `ExamplesProofs`: `AbClone` | |
| `LoadHolds` | `LoadSpec => []LoadInv` |
| `EngineProofs` | |
| `AgendasHold` | `Spec => []AgendaInv` |
| `BestFires`, `CurrentSalience` | `Spec => FiresTheBest`, `Spec => SalienceIsCurrent` |
| `EngineProofs`: `MergeSort` | |
| `SortHolds` | `SortSpec => []SortInv` |
| `InputOutputProofs`: `Readers` | |
| `ReadersHold`, `AllIsRead` | `ReadersSpec => []ReadersInv`, `ReadersSpec => EvalReadsAll` |
| `InputOutputProofs`: `Routers` | |
| `RoutersHold`, `SocketFirst` | `RoutersSpec => []RoutersInv`, `RoutersSpec => SocketComesFirst` |
| `DispatchProofs`: `Generics` | |
| `GenericsHold`, `PlacesStayGood` | `GenericsSpec => []GenericsInv`, `GenericsSpec => MethodsStay` |
| `DispatchProofs`: `Messages` | |
| `MessagesKeepTheInvariant` | `MessagesSpec => []MessagesIInv` |
| `MessagingHolds` | `MessagesSpec => []MessagingInv` |
| `InstancesProofs` | |
| `InstancesHold` | `InstancesSpec => []InstancesInv` |
| `InstancesProofs`: `ClassPrecedence` | |
| `PrecedenceHolds` | `ClassesSpec => []PrecedenceInv` |

A theorem about behaviours has the same form everywhere: `InitInv` (the initial states
satisfy `IInv`), one lemma for each action or family of actions that it keeps `IInv`,
and a last step in which temporal logic puts them together. Where a module proves two
components, each has an `IInv` with its own name in front.

### 4.1 The socket router

**Assumptions.** Descriptors are naturals, families and types come from their
enumerations, bounds are naturals, and the tokens for "unassigned", "anonymous" and
"no handle" are none of the real values.

**Argument.** The inductive invariant is

    IInv == TypeOK /\ DescriptorsDistinct /\ OpenMeansListed /\ DomainsMatch /\ ReportsFit
    Sound == IInv /\ NamesTellTheTruth

None of their parts but the first is inductive alone. A new router takes the lowest free
descriptor, so that it is new to the *list* needs `OpenMeansListed`; that a close,
which unlinks one entry, leaves the descriptor off the list needs
`DescriptorsDistinct`; that a rename spells the right layout needs the recorded family
to be the socket's, `DomainsMatch`, or, for an accepted router, which records none, that
the kernel takes an address of the socket's own family alone. `ReportsFit` says which
calls can have been the last to succeed in each state of a socket: an accepted one never
connects, an ip one with a connection is not bound anew, a connect that is still going
has reported nothing. `NamesTellTheTruth` leaves one rename open, that of a connect that
reports the end of an earlier one, and rests on `ReportsFit` for the others. There is one
lemma per family of actions: the
list only pushed, only renamed, one entry removed, emptied, or left alone while the
kernel moves. `RemoveAt` and the lemmas on pushing and renaming say what each edit
does to the indices of the list.

The other three results look at the list as a function, `titleOf`, from the
descriptors listed to their names, and at each action as one that opens, retitles or
closes one of them (`ListStep`). That is the refinement: each step is a step of
`SocketDirectory` or leaves it alone. `HeldNamesCurrent` follows from it because what
retitles a socket also tells the script. `HeapCoversList` is a count: each structure
and each name on the list is one block, and only the close that takes one off the list
gives it back. `HandlesStayOpen` needs that a script's descriptor leaves the list only
through a close of that descriptor, or at exit.

### 4.2 The stream

**Assumptions.** The sizes are naturals, buffer and send buffer not empty, `Habit` and
`Impatience` within their enumerations.

**Argument.** What the script has read, what the `FILE` has read ahead and what the
kernel holds are three sequences that share no byte and never did, each rising, and so
are what has arrived, what the kernel holds for the peer and what the `FILE` has not
written (`Orderly`; texts and bytes are numbered). Each call moves a beginning of one
to the end of another, drops some, or pushes one back; lemmas on `Orderly` say what
these do. That is `NothingTwice`; it needs that every number was sent or printed
(`KnownBytes`, `KnownTexts`). `WedgedForGood` needs that a stale stream is one that
writes (`StaleWhilePutting`): no step out of that state exists but through a flush
that fails. Under the habit of `set-not-buffered` first, `IInv` says further that the
`FILE` holds nothing (`HoldsNothing`) and that all that was printed left the process
in order (`SaidInOrder`), from which `UnbufferedTellsTheTruth` and the refinement of
`Conversation` follow: reading is receiving, and printing is sending, one text at a
time.

### 4.3 The concurrent server

**Assumptions.** Limits and bounds are naturals, the limits on connections and on a
message positive; finitely many clients, so that they can be counted; `Departures`
within its enumeration; the token for "no fact" is no client fact.

**Argument.** The inductive invariant is

    IInv == TypeOK /\ QueueHoldsWaiting /\ CountsClients /\ socket.connected <= MaxClients
            /\ WaitingMeansQueued /\ ReadyMeansInput

`CountsClients` needs `QueueHoldsWaiting`: an accept counts one client more, and that
is right only if the head of the queue has no fact yet. The queue holds exactly the
peers that wait, each once, and `CountsClients` itself says that a peer with a fact is
open and so does not wait. `WithinCapacity` follows from `CountsClients` and the bound
on the counter, which holds because a first client needs no client to be there and
`MaxClients` is at least 1. `ReadyMeansInput` needs that no peer can take input back,
and that each rule which reads polls again. One lemma per family of rules: those that
set the socket up, poll, accept, check, fail a check, read, and answer; one each for
peers that connect, and that send or leave. `SameClients`, `OneClientMore` and
`OneClientLess` say what is left to show of each.

`AnswersTrue` is proved on top: `HeardInOrder` splits what a client sent into what its
fact holds and what is still in the kernel, in order, with at most a last character
that ends the message; each answer is then a statement on a beginning of what was
sent. It is here that the two comparisons with the limit have to fit together.

`ServerKeepsServing` has two hypotheses, `Departures = {}` and as many places as
clients, and is false without either (3.2). Under them the rules' guards leave no gap:
whoever is first in line can be polled, read or answered, and if nobody is, the
listening socket can be polled.

### 4.4 The load generator

**Assumptions.** The bounds are naturals; a world is a number of requests and whether
servers keep up their end.

**Argument.** `LoadInv` is inductive as it stands, because its last part,
`RequestsFit`, is there for that: requests are started in the order of their numbers,
a request whose connection did not come about goes no further, and a socket is
somebody's who has no answer yet. The counters need that a rule takes away exactly one
fact of the kind it counts, and asserts one; a run that an EOF ends lacks two, and no rule
fires after it. An answer is counted once because the socket that gave it
leaves the list in the same step, and no two sockets are of one request.

### 4.5 Agendas and run

**Assumptions.** Each rule has a module and each match a rule and a sequence of time
tags that is not empty; saliences are integers, 0 among them; the sets of dynamic,
auto-focus and breakpoint rules are any.

**Argument.** First, each of the seven strategies, with salience and with time tags to
break ties, is a strict total order on the activations of an agenda (depth and breadth
by tag, simplicity and complexity by number of tests, lex and mea by the order of
sorted sequences, random by a number). Ties are broken by tag, so the order is total
only because no two activations share one: `TagsDiffer` is part of the invariant. Then
the operators: `PlaceActivation`, which walks one salience group, `DetachActivation`,
which mends the ends of a group, `ReorderAgenda` and `ClearRuleFromAgenda` keep an
agenda ranked by that order and cut into groups that point at their ends; a list is
ranked if each of its members goes before those behind it, and inserting at the place
found keeps it so. Last, the state: the agendas post exactly the activations there are
(`Board`), markers point at matches that are there (`Markers`), the count is right
(`Counted`), and the focused module has work whenever (run) is ready to fire
(`FocusHasWork`). `FiresTheBest` is then the head of a ranked list.
`SalienceIsCurrent` is what `RefreshAgenda` does to every module in the step that ends
the actions of a rule.

The invariant found an error in the model as it was: with a module twice on the focus
stack, `RemoveFocus` removes the first only. The run has `MaxFocus` = 3 for it.

### 4.6 Readers

**Assumptions.** `ReadersAssumption`: constructs are commands, texts are not empty, a
batch file consists of commands.

**Argument.** Names follow from places on the stack: an eval's name is the number of
evals it is in, a load's number that of the frames below it, and only one command and
one build read at a time. So each source has a reader that has not closed it
(`Backed`), and each eval and build has a source that is read as far as itself is
(`Served`): nobody else can have read from it. `Type` says which kinds may stand on
which. Opening, reading and closing keep these by lemmas on the stack pushed, replaced
at the top, and popped. `EvalReadsAll` is what `Served` says at the end of the text.

### 4.7 Routers

**Assumptions.** `RoutersAssumption`: texts, console and output are sequences over one
set of characters, in which `Nothing` is not, as it is no file and no router.

**Argument.** The list of routers is a function of two facts, whether there is a
dribble file and whether there are batch files (`Listed`, `ListOK`): `AddRouter` and
`DeleteRouter` take one such list to another, so order, distinctness, and who is asked
before whom can be read off four lists. That a socket comes before a file of the same
name (`SocketFirst`) is one of them. For the input, what was taken of each source and
what is left of it make up its text (`TakenOK`), a batch file no longer on the stack
was taken whole (`AllRead`), and each is on the stack once (`BatchOK`). Reading is
split as the code is: dropping the files that are read out (`BatchEnds`), taking the
next character (`TakesNext`), echoing a line (`EchoGoes`), copying what passes
(`PutcCopies`), each with what it leaves alone (`SameElse`, `SameInput`).

For the transcript, `Recording` says what is copied or on its way, and how far a
`readline` may be ahead of the screen: by the batch line it has taken and not yet
echoed. That line is why `split` is in the property. In exit, those routers in front
of `due` are done (`Closed`); the dribble file is closed first, and what the batch
router then echoes is the observation in 3.2 (`late`). The proof asked for one fact
that no property states: in exit, dribble is on as long as its router is due, and no
longer.

### 4.8 Generic functions

**Assumptions.** `GenericsAssumption`: indices and bounds are naturals, calls have
sequences of classes as arguments. Restrictions and queries are arbitrary.

**Argument.** `GenericsIInv` has five parts. Methods are within their bounds and no two
of one function share an index (`MethodsOK`). Each frame occupies or has picked a method
that is there, in the array it looks in, and is shaped by its phase (`FrameOK`). A
method's busy count is the number of frames that occupy it and of those that have picked
it (`Counted`): the two overlap where a picked method runs, and do not where one of its
queries is evaluated. The method each frame saved is the one that was current below it
(`Within`), whichever function it belongs to. Some frame below, or the frame itself, is a
call of its function, and some is one of the function in whose array it looks
(`Nested`): that keeps both arrays in place while a search may pass from one to the
other. A search for the next method begins behind the method that is running where that
is one of the function called (`SearchesBehind`), which is why it ends. `StopFits` has
one case for each way a search stops, in whichever array; `FindApplicableMethod` and
`QueryDone` are reduced to it. A function in which no frame holds a method can be
redefined, and one in which a frame does is left alone by every definition and deletion:
that is `MethodsStay`. Sums over frames are counts of index sets; where an argument goes
up or down the stack it takes a least index (`LeastNumber`, `UpTo` in `SequenceFacts`),
as there is no induction principle to cite with a predicate of our own.

### 4.9 Messages

**Assumptions.** `HandlersAssumption`: each name has a hash bucket, a natural, and
several may share one; bounds are naturals; `"*"` is no name. `MessagesAssumption`:
each instance has a sequence of classes, in which none is twice; bounds are naturals.

**Argument.** `MessagesIInv` has three parts. Of each class, `TableOK`: the map is a
permutation of the places of the array, by bucket, and the places of one name lie next
to each other, although several names may share a bucket. The last is what the walk
down and up from where the binary search lands needs, and what inserting in front of
the own name or of a larger bucket keeps; deletion keeps it because it takes the map
through an order-preserving renumbering (`InOrderIs`). The search is a recursive
function over pairs of bounds. What it returns is proved by the least pair, by length,
on which it would be wrong.

Of the stack, `StackOK`: the list of each message is in calling order (`ListOK`), a
handler that runs is one of its message's list (`RunsOK`), and the core, the pair of
current and next handler, is at each call the one of the innermost handler that runs
below it (`CoreAt`). The last is what makes `call-next-handler` from arguments, and
after an error in them, go on in the right list. A shadowed handler was called from
the one before it, and what was begun of a message's own list is all of it up to the
handler that runs.

Of both, `BusyOK`: a handler is busy once for each message whose list it is in. So a
class with a handler in a list has a handler that executes, is left alone by
definitions and deletions, and the places in the list stay good: `dangling` stays
FALSE. The parts of `MessagingInv` are read off these three.

### 4.10 Instances

**Assumptions.** `InstancesAssumption`: every name has a chain, and bounds are
naturals. Which names share a chain is open, as is what handlers do.

**Argument.** `IInv` is `Good(store, callers, orderly)`, which has three parts.

`StoreOK`, of the store alone. The list ascends, since a new instance goes to its end,
and holds what lives; so does the chain of each name, in an order of its own. `nxtList`
leads up the list, from an instance that has left it too (`NextOK`): that is why the
loop of `UnmakeAllGoesOn` ends. Garbage is in one frame, and not installed.

Of store and stack: an instance is busy once for each caller that `Holds` it, there is
a frame for each caller that `Owns` one and one more, and garbage is maintained as
long as some caller `Keeps` it; each of those came to what those below it left, which
is what it puts back when it returns.

`StackOK`, of the callers one by one (`CallerOK`), of any two (`Under`) and of two that
are next to each other (`Calls`). An instance that is being initialized lives, is not
installed, and is initialized by one caller: that it is not installed is what keeps
`QuashInstance` off it. What stands on an instance whose message has not returned
calls that message. Where handlers keep the rules, nothing is made or deleted above a
message of create or delete, so that an instance just created lives, and one that is
being replaced has the only place of its name, behind a predecessor that is still on
the chain (`ReplacesOK`): those two give `NamesAreUnique` and no use of freed memory.

For `(unmake-instance *)`, `AllOK`: what is due and lives lies above the instance the
loop stands on, all that lives between the two is due, and the link of garbage between
them leads to something due, no further than that. What is due was there when the loop
began, and as garbage is kept while it runs, none of it is freed: what was deleted under
the loop leads on. From there `UnmakeAllReaches` takes the least instance that is due,
lives, and is missing, and finds the one before it, whose link leads past it: nothing
does. `PastGarbage` is a recursive function on the instances; that it is one, and where
it leads, is proved from links that lead up (`LinksEnd`).

The model asked for the invariant, not the other way round, but for two things that had
to be said differently to be reasoned about: instances are a sequence, and "reaches"
is said of every set closed under `nxtList`.

### 4.11 Sort

**Assumptions.** `SortAssumption`: `MaxList` is a natural. Keys are arbitrary, and the
comparison function is any relation on them; that the answer is in order is claimed
where the relation orders the keys, that it is a permutation always.

**Argument.** There is no induction over lists to cite, so each loop is taken apart
into its turns: `MergeRuns` and `SortRuns` show that the recursive functions are
defined, and hold what their bodies say, up to every number of turns, by `UpTo` on the
set of numbers for which they are. `MergeSteps` carries through the merge that what was
taken is the beginnings of the two slices, each value once, and `MergeKeepsOrder` that
it stays in order: a value that is taken is not to come behind any that is left of
either slice, and among equal ones the first slice's goes first. A slice holds the
arguments of its own range of places (`SlicesAre`, by the length of the slice); as
those of the first slice were all given before those of the second, a merge that
prefers the first is stable.

### 4.12 Class precedence lists

**Assumptions.** `ClassesAssumption`: the bounds are naturals. Classes have any
superclasses defined before them, each once.

**Argument.** Three loops. The table (`TableHoldsAncestors`): after each turn it holds
every class once, and with what is still to be looked at all superclasses of what it
holds, and lies within every set that is closed under superclasses. A table of as many
different classes as there are holds them all (`HoldsAll`, by the pigeonhole
principle), so the turns suffice, and what it holds is the least closed set: what is
inherited. The scan (`ScanIs`): nothing that is left precedes anything taken, and what
was taken is in order. It ends with an empty table, and a list as the rules ask for
(`ListIs`), or with one each of whose classes has another of them before it: this is
the circle. A circle, on the other hand, leaves no list, for in a list one of its
classes comes first (`RefusedIs`). Defined again (`AgainIs`): nothing precedes the
class itself, so it is taken in the first turn, and from there the two scans go on
alike, turn for turn (`TakeInFront`). A later class changes no list (`ListStays`):
the invariant is that each list is what `FindPrecedenceList` gives now, not only what
it gave when the class was defined.

### 4.13 What is only model-checked

- Liveness (`EmptyReturns`, `EveryClientAnswered`, `AllIsReported`, `CommandsEnd`,
  `SessionInputIsRead`) and anything with ENABLED: beyond the prover.
- `NetworkInv`, `SupportIsLive`, `StatedFactsStay`, `CompletionActivates`: the join
  network is driven by RECURSIVE operators that call each other from join to join, in
  a module of which no theorem can be proved.
- `QueriesInv`: likewise, the loops of a query call each other (`Visit`, `GoOn`,
  `Leave`).
- `CompilerKeepsMeaning`, `FieldsInv` (in `AnswersInv`): what recursive operators and
  folds over data of any length compute.
- `MethodsInOrder` (in `AnswersInv`), the order of methods by precedence. It speaks of
  functions whose methods have as many parameters and at most one class for each
  (`Comparable`); on all methods the comparison of restrictions is no order, and the run
  `method_order` shows what comes of it (3.2).
- The four properties of 3.2, which are false.

## 5. What is not modelled, and why

- `getsockopt`, `setsockopt`, `get-timeout`, the other status and poll flags: they
  hand one value to the kernel and keep no state here.
- Datagrams as messages: sockets of that type are in `SocketRouter`; their loss and
  reordering are not modelled.
- Failure of a `write` for other reasons than a peer that left or a full buffer.
- Rounding of the server's delays to milliseconds for `poll`.
- The file server: the concurrent server with one more rule. The one-shot scripts:
  each is a path through `SocketRouter` and `SocketStream`.
- The parser, the string functions, the construct tables, binary images: text and
  tables with no control of their own to speak of.
- Classes and slots, templates, deffunctions, globals and modules: upstream code the
  socket component does not use. Patterns on objects: only the observation in 3.2.
- Memory pools and symbol counts (`memalloc.c`, `symbol.c`): the models say when
  memory is given back, not what the allocator makes of it.
- In each modelled part of the engine, what the head of its module lists.

## 6. Plan

In place: everything in section 2. Next, in this order:

1. `FactQueries` with its recursive operators as functions, then a theorem on
   `QueriesInv`.
2. `ObjectMatching`: the queue of delayed object matches, for the observation in 3.2.
3. Symbols and their counts, garbage frames as one component under `Instances`,
   `FactQueries` and `TruthMaintenance`.
4. Templates: modify and duplicate over the fact-list; modules and their imports.
5. `SocketOptions` (argument tables, answers, timeouts); the file server as a
   variation of `ComplexServer`; datagrams lost and reordered under `rcvfrom` and
   `sendto`.
