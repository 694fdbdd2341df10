------------------------------- MODULE AbClone -------------------------------
(***************************************************************************)
(* The load generator of the examples (src/examples/ab-clone.clp): a rule  *)
(* based client that means to keep several requests under way at once.     *)
(*                                                                         *)
(* All its sockets are connected to one address, and so they have one      *)
(* logical name: what a rule does by name it does to the socket connected  *)
(* last (socketrtr.c, LogicalNameToSocketRouter).  current-time is a fact  *)
(* each rule is to replace by a later one; they are a set here, because    *)
(* one rule asserts and does not retract.  So are running- and             *)
(* finished-requests, which read-from-server takes away and may fail to    *)
(* put back.  Which rule fires first is left open, as in ComplexServer.    *)
(*                                                                         *)
(* A condition of check-if-server-ready-to-receive-data names a fact of    *)
(* two fields, (not (ready-to-write ?id ?)); the facts have three, and it  *)
(* stops nothing.  Not modelled: the report's figures, and the text of     *)
(* answers.                                                                *)
(***************************************************************************)
EXTENDS Naturals, Sequences, FiniteSets, SequencesExt

CONSTANTS
    Requests,       \* unstarted-requests, at the start
    Worlds,         \* max-simultaneous-requests, and whether servers keep up their end
    Horizon,        \* bound: how far the clock goes on its own
    MaxDelay        \* bound: the delay after which polls of a request succeed

ASSUME LoadAssumption ==
    /\ Requests \in Nat /\ Horizon \in Nat /\ MaxDelay \in Nat
    /\ Worlds \subseteq [most : Nat, sound : BOOLEAN]

VARIABLES
    counts,     \* unstarted- and started-requests; the facts running- and finished-requests
    times,      \* the current-time facts
    request,    \* id -> its request fact
    noted,      \* id -> ready-to-write, written-at, has-data-to-read, message-from-server
    sockets,    \* the routers that carry the name, the newest first
    clock,
    doing,      \* what (run) is at: rules, a readline, or the end
    world       \* max-simultaneous-requests; whether the server keeps up its end

loadVars == <<counts, times, request, noted, sockets, clock, doing, world>>

Id == 1 .. Requests
NoRequest == [until |-> 0, name |-> FALSE, prev |-> 0, retry |-> 0]
NothingNoted ==
    [begun |-> FALSE, ready |-> FALSE, unready |-> {}, written |-> FALSE, data |-> "none",
     over |-> FALSE, message |-> 0]
UnderWay == {id \in Id : noted[id].begun /\ ~noted[id].over}
Rules == [at |-> "rules", id |-> 0, t |-> 0]

Later == {n \in clock .. clock + 1 : n <= Horizon \/ n = clock}

\* (not (request ? ? ? ? ? ?d&:(< ?d ?delayUntil)))
Earliest(id) == \A j \in UnderWay : request[id].until <= request[j].until
Due(id, t) == request[id].until <= t
Concerns(id) == doing = Rules /\ id \in UnderWay /\ Earliest(id)

\* poll of the newest socket: it takes text, unless its peer does not read; it has
\* text when the peer has answered, or left.
TakesText(id) ==
    {TRUE} \cup (IF Head(sockets).writes > 0 /\ request[id].prev < MaxDelay THEN {FALSE} ELSE {})
HasText(id) == IF Head(sockets).end # "open" THEN {TRUE}
               ELSE IF request[id].prev < MaxDelay THEN {FALSE} ELSE {}

\* A rule replaces the time it matched.
Tick(t, n) == times' = (times \ {t}) \cup {n} /\ clock' = n
\* A FALSE is waited off, by the next Fibonacci number.
Retried(id, n) ==
    [request EXCEPT ![id] = [@ EXCEPT !.prev = request[id].retry, !.retry = request[id].prev + request[id].retry,
                                      !.until = n + request[id].retry]]

-----------------------------------------------------------------------------
(* The rules.                                                              *)

StartRequest ==
    /\ doing = Rules /\ counts.unstarted > 0 /\ counts.finished # {}
    /\ \E running \in counts.running, t \in times, n \in Later, connected \in {TRUE, world.sound} :
          LET id == counts.started + 1 IN
          /\ running < world.most /\ Tick(t, n)
          /\ counts' = [counts EXCEPT !.unstarted = @ - 1, !.started = id, !.running = {running + 1}]
          /\ request' = [request EXCEPT ![id] = [until |-> n, name |-> connected, prev |-> 0, retry |-> 1]]
          /\ noted' = [noted EXCEPT ![id].begun = TRUE]
          /\ sockets' = IF connected THEN <<[of |-> id, writes |-> 0, end |-> "open"]>> \o sockets
                        ELSE sockets
    /\ UNCHANGED <<doing, world>>

BackoffAndSleep(id) ==
    /\ Concerns(id) /\ request[id].name
    /\ \E t \in times :
          /\ ~Due(id, t)
          /\ Tick(t, clock + request[id].until - t)
    /\ UNCHANGED <<counts, request, noted, sockets, doing, world>>

\* Three rules ask poll; an answer of FALSE is noted with its time.
NoteReady(id, t, n, answer) ==
    /\ Tick(t, n)
    /\ noted' = IF answer THEN [noted EXCEPT ![id].ready = TRUE]
                ELSE [noted EXCEPT ![id].unready = @ \cup {n}]
    /\ UNCHANGED <<counts, request, sockets, doing, world>>
NoteData(id, t, n, answer) ==
    /\ Tick(t, n)
    /\ noted' = [noted EXCEPT ![id].data = IF answer THEN "TRUE" ELSE "FALSE"]
    /\ UNCHANGED <<counts, request, sockets, doing, world>>

CheckIfServerReadyToReceiveData(id) ==
    /\ Concerns(id) /\ request[id].name
    /\ \E t \in times, n \in Later, answer \in TakesText(id) :
          Due(id, t) /\ NoteReady(id, t, n, answer)

CheckIfServerReadyToReceiveDataAfterDelay(id) ==
    /\ Concerns(id) /\ request[id].name
    /\ ~noted[id].ready /\ noted[id].unready = {}
    /\ \E t \in times, n \in Later, answer \in HasText(id) :
          ~Due(id, t) /\ NoteReady(id, t, n, answer)

RetryCheckingForReadyToReceive(id) ==
    /\ Concerns(id)
    /\ \E t \in times, n \in Later, at \in noted[id].unready :
          /\ Tick(t, n)
          /\ noted' = [noted EXCEPT ![id].unready = @ \ {at}]
          /\ request' = Retried(id, n)
    /\ UNCHANGED <<counts, sockets, doing, world>>

SendMessageToSuccessfulRequest(id) ==
    /\ Concerns(id) /\ noted[id].ready /\ ~noted[id].written
    /\ \E t \in times, n \in Later :
          /\ Due(id, t) /\ Tick(t, n)
          /\ noted' = [noted EXCEPT ![id].written = TRUE]
          /\ request' = [request EXCEPT ![id].until = n]
    /\ sockets' = [sockets EXCEPT ![1].writes = @ + 1]
    /\ UNCHANGED <<counts, doing, world>>

CheckIfServerHasSentUsData(id) ==
    /\ Concerns(id) /\ noted[id].ready /\ noted[id].written /\ noted[id].data = "none"
    /\ \E t \in times, n \in Later, answer \in TakesText(id) :
          Due(id, t) /\ NoteData(id, t, n, answer)

CheckIfServerHasSentUsDataAfterDelay(id) ==
    /\ Concerns(id) /\ request[id].name /\ noted[id].written /\ noted[id].data = "none"
    /\ \E t \in times, n \in Later, answer \in TakesText(id) :
          ~Due(id, t) /\ NoteData(id, t, n, answer)

RetryCheckingForData(id) ==
    /\ Concerns(id) /\ noted[id].written /\ noted[id].data = "FALSE"
    /\ \E n \in Later :
          /\ times' = times \cup {n} /\ clock' = n
          /\ noted' = [noted EXCEPT ![id].data = "none"]
          /\ request' = Retried(id, n)
    /\ UNCHANGED <<counts, sockets, doing, world>>

\* read-from-server, until readline and empty-connection have what they wait for.
ReadFromServer(id) ==
    /\ Concerns(id) /\ noted[id].ready /\ noted[id].written /\ noted[id].data = "TRUE"
    /\ counts.running # {} /\ counts.finished # {}
    /\ \E t \in times :
          /\ Due(id, t)
          /\ doing' = [at |-> "reads", id |-> id, t |-> t]
    /\ UNCHANGED <<counts, times, request, noted, sockets, clock, world>>

\* The facts are taken away, and asserted anew in their order: current-time, the
\* message, then the counters.  A server that left without an answer leaves readline
\* with EOF, which explode$ refuses at the message: (run) ends before the counters.
EndOfAnswer(closed, ended) ==
    LET id == doing.id
        answered == Head(sockets).end = "answered"
    IN /\ doing.at = "reads" /\ Head(sockets).end # "open"
       /\ \E n \in Later : Tick(doing.t, n)
       /\ sockets' = closed
       /\ request' = [request EXCEPT ![id] = NoRequest]
       /\ noted' = [noted EXCEPT ![id].over = TRUE,
                                 ![id].message = IF answered THEN Head(sockets).of ELSE 0]
       /\ counts' = [counts EXCEPT
              !.running = IF answered THEN {running - ended : running \in @} ELSE {},
              !.finished = IF answered THEN {finished + 1 : finished \in @} ELSE {}]
       /\ doing' = [Rules EXCEPT !.at = IF answered THEN "rules" ELSE "stopped"]
       /\ UNCHANGED world
AnswerIsReadSlip == EndOfAnswer(sockets, 1)
AnswerIsReadUncounted == EndOfAnswer(Tail(sockets), 0)
AnswerIsRead == EndOfAnswer(Tail(sockets), 1)

Report ==
    /\ doing = Rules /\ counts.unstarted = 0 /\ 0 \in counts.running /\ counts.finished # {}
    /\ \E id \in Id : noted[id].message # 0
    /\ doing' = [Rules EXCEPT !.at = "reported"]
    /\ UNCHANGED <<counts, times, request, noted, sockets, clock, world>>

-----------------------------------------------------------------------------
Rule ==
    \/ StartRequest
    \/ \E id \in Id :
          \/ BackoffAndSleep(id)
          \/ CheckIfServerReadyToReceiveData(id) \/ CheckIfServerReadyToReceiveDataAfterDelay(id)
          \/ RetryCheckingForReadyToReceive(id) \/ SendMessageToSuccessfulRequest(id)
          \/ CheckIfServerHasSentUsData(id) \/ CheckIfServerHasSentUsDataAfterDelay(id)
          \/ RetryCheckingForData(id) \/ ReadFromServer(id)
    \/ Report

\* No rule matches: (run) returns, and (exit) follows.
AgendaEmpty ==
    /\ doing = Rules /\ ~ENABLED Rule
    /\ doing' = [Rules EXCEPT !.at = "over"]
    /\ UNCHANGED <<counts, times, request, noted, sockets, clock, world>>

\* A server answers each connection once, when it has a request, and closes it.
ServerAnswers(k) ==
    /\ k \in DOMAIN sockets /\ sockets[k].end = "open" /\ sockets[k].writes > 0
    /\ sockets' = [sockets EXCEPT ![k].end = "answered"]
    /\ UNCHANGED <<counts, times, request, noted, clock, doing, world>>

Answered == \E k \in Id : ServerAnswers(k)

ServerLeaves(k) ==
    /\ ~world.sound
    /\ k \in DOMAIN sockets /\ sockets[k].end = "open"
    /\ sockets' = [sockets EXCEPT ![k].end = "left"]
    /\ UNCHANGED <<counts, times, request, noted, clock, doing, world>>

LoadInit ==
    /\ counts = [unstarted |-> Requests, started |-> 0, running |-> {0}, finished |-> {0}]
    /\ times = {0} /\ clock = 0
    /\ request = [id \in Id |-> NoRequest]
    /\ noted = [id \in Id |-> NothingNoted]
    /\ sockets = << >>
    /\ doing = Rules
    /\ world \in Worlds

LoadNext == Rule \/ AnswerIsRead \/ AgendaEmpty \/ Answered \/ \E k \in Id : ServerLeaves(k)

\* check-if-server-ready-to-receive-data can fire for ever: what it asserts does not
\* stop it.  The agenda does not prefer it for ever to a rule that gets on, and a
\* server answers in the end.
GetsOn ==
    \/ StartRequest \/ AnswerIsRead \/ Report
    \/ \E id \in Id :
          \/ BackoffAndSleep(id)
          \/ ~noted[id].ready /\ CheckIfServerReadyToReceiveData(id)
          \/ RetryCheckingForReadyToReceive(id) \/ SendMessageToSuccessfulRequest(id)
          \/ CheckIfServerHasSentUsData(id) \/ RetryCheckingForData(id) \/ ReadFromServer(id)

LoadSpec == LoadInit /\ [][LoadNext]_loadVars

LoadFairness == WF_loadVars(GetsOn) /\ WF_loadVars(Answered)

-----------------------------------------------------------------------------
(* Properties.                                                             *)

Counts == [unstarted : Nat, started : Nat, running : SUBSET Nat, finished : SUBSET Nat]
Request == [until : Nat, name : BOOLEAN, prev : Nat, retry : Nat]
Note == [begun : BOOLEAN, ready : BOOLEAN, unready : SUBSET Nat, written : BOOLEAN,
         data : {"none", "TRUE", "FALSE"}, over : BOOLEAN, message : Id \cup {0}]
Router == [of : Id, writes : Nat, end : {"open", "answered", "left"}]
Doing == [at : {"rules", "reads", "stopped", "reported", "over"}, id : Id \cup {0}, t : Nat]

LoadTypeOK ==
    /\ counts \in Counts /\ times \subseteq Nat /\ clock \in Nat
    /\ request \in [Id -> Request] /\ noted \in [Id -> Note]
    /\ sockets \in Seq(Router) /\ doing \in Doing /\ world \in Worlds

\* The four counters, each kept by several rules, agree with the facts, as long as
\* rules fire: a run that an error ends is left without two of them.
RequestsAddUp ==
    /\ counts.unstarted + counts.started = Requests
    /\ Cardinality(UnderWay) <= world.most
    /\ IF doing.at = "stopped" THEN counts.running = {} /\ counts.finished = {}
       ELSE /\ counts.running = {Cardinality(UnderWay)}
            /\ counts.finished = {counts.started - Cardinality(UnderWay)}

\* However the one name is shared, there is a socket of that name for each request
\* that is to use it.
NameHasASocket == Cardinality({id \in UnderWay : request[id].name}) = Len(sockets)

\* No answer is taken for two requests; one at a time, each request gets its own.
AnswersAreRead ==
    \A id \in Id : noted[id].message # 0 =>
        /\ \A other \in Id \ {id} : noted[other].message # noted[id].message
        /\ world.most = 1 => noted[id].message = id

\* The time is always known, although rules take it away and stale ones are left.
TimeIsKnown == clock \in times /\ \A t \in times : t <= clock

\* Requests are started in the order of their numbers; only one whose connection
\* came about is polled, written and read; and a socket is somebody's, who has no
\* answer yet, although it may go to another request of that name.
RequestsFit ==
    /\ \A id \in Id :
          /\ noted[id].begun <=> id <= counts.started
          /\ ~noted[id].begun => noted[id] = NothingNoted
          /\ noted[id].message <= counts.started
    /\ \A id \in UnderWay :
          noted[id].ready \/ noted[id].unready # {} \/ noted[id].written => request[id].name
    /\ doing.at = "reads" => doing.id \in UnderWay /\ request[doing.id].name /\ doing.t \in times
    /\ \A k \in DOMAIN sockets :
          /\ sockets[k].of <= counts.started
          /\ \A j \in DOMAIN sockets : sockets[j].of = sockets[k].of => j = k
          /\ \A id \in Id : noted[id].message # sockets[k].of
          /\ world.most = 1 => sockets[k].of \in UnderWay

\* The counters, the shared name, the answers and the time are right together.
LoadInv ==
    /\ LoadTypeOK
    /\ RequestsAddUp
    /\ NameHasASocket
    /\ AnswersAreRead
    /\ TimeIsKnown
    /\ RequestsFit

\* One request at a time, with a server that answers, all of them are reported.
AllIsReported == world.most = 1 /\ world.sound ~> doing.at = "reported"
=============================================================================
