---------------------------- MODULE ComplexServer ----------------------------
(***************************************************************************)
(* The example server that serves many clients at once                     *)
(* (src/examples/server-complex.clp), the most demanding user of the       *)
(* socket router in the repository.                                        *)
(*                                                                         *)
(* It is one thread and no loop: CLIPS fires rules over a socket fact and  *)
(* one fact per client until no rule matches, and then (run) returns and   *)
(* the program exits.  A rule is an action, its left-hand side a named     *)
(* guard.  Which of several matching rules fires first is left open: it is *)
(* the agenda's choice, which the user may change.                         *)
(*                                                                         *)
(* could-not-accept-client has no action: it matches a client whose fd is  *)
(* FALSE, and get-socket-logical-name halts the run before one is made.    *)
(* The descriptor table is taken to hold max-clients connections.          *)
(***************************************************************************)
EXTENDS Integers, Sequences, FiniteSets, SequencesExt

CONSTANTS
    Client,      \* the peers that may connect
    NoFact,      \* no client fact stands for this peer
    MaxClients,  \* slot max-clients of socket
    MaxTimeouts, \* slots max-timeouts, max-life-time and max-message-length of
    Life,        \* client; times are in units of the first
    MaxMessage,  \* delayed-until-increment
    SentMax,     \* bound: characters one peer sends
    Lag,         \* bound: time that passes while a rule fires
    Departures   \* how peers leave before they are answered: "finished", "gone"

ASSUME LimitsAssumption ==
    /\ MaxClients \in Nat \ {0} /\ MaxMessage \in Nat \ {0}
    /\ MaxTimeouts \in Nat /\ Life \in Nat /\ SentMax \in Nat /\ Lag \in Nat
ASSUME ClientAssumption == IsFiniteSet(Client)
ASSUME DeparturesAssumption == Departures \subseteq {"finished", "gone"}

Char == {"text", "newline", "high"}   \* 0..127 but 10; 10; 128..255
Code == Char \cup {"eof"}             \* what get-char returns; -1 at the end

VARIABLES
    socket,  \* the socket fact
    client,  \* peer -> its client fact
    peer,    \* peer -> the connection, seen from its end
    queue,   \* peers connected and not yet accepted
    now,     \* the wall clock
    phase    \* "running"; "over", when (run) has returned; "killed" by SIGPIPE

vars == <<socket, client, peer, queue, now, phase>>

(* A definition with "Slip" in its name is a plausible slip in the code its *)
(* neighbour models; no action uses it.                                    *)

Symbol == {"nil", "TRUE", "FALSE"}
Answer(b) == IF b THEN "TRUE" ELSE "FALSE"

SocketFact ==
    [created : BOOLEAN, bound : Symbol, listening : Symbol, waiting : Symbol,
     connected : Int, current : Nat]

ClientFact ==
    [reads : Symbol, writes : Symbol,       \* ready-to-read, ready-to-write
     created : Nat, until : Nat,            \* created-at, delayed-until
     increment : Nat, timeouts : Nat, codes : Seq(Code)]

ASSUME NoFactAssumption == NoFact \notin ClientFact

Connection ==
    [at    : {"away", "queued", "open", "closed"},
     state : {"here", "finished", "gone"},
     sent  : Seq(Char),     \* all it sent
     inbox : Seq(Char),     \* ... that the server has not read
     told  : {"nothing", "hello", "late", "long", "notUTF8"},
     echo  : Seq(Code)]     \* what the hello repeats

Connected == {c \in Client : client[c] # NoFact}
Clock == now..(now + Lag)
Readable(p) == p.inbox # << >> \/ p.state # "here"

-----------------------------------------------------------------------------
(* Left-hand sides.                                                        *)

Listening == socket.listening = "TRUE"

Pending == Listening /\ socket.waiting = "nil"
Quiet == Listening /\ socket.waiting = "FALSE" /\ socket.connected = 0
RoomSlip == Listening /\ socket.waiting = "TRUE" /\ socket.connected <= MaxClients
Room == Listening /\ socket.waiting = "TRUE" /\ socket.connected < MaxClients

FirstInLine(c) == \A d \in Connected : client[c].until <= client[d].until

Asleep(c) ==
    /\ Listening /\ socket.waiting = "FALSE"
    /\ c \in Connected /\ client[c].until > socket.current /\ FirstInLine(c)

\* What most client rules ask for: the client is due, young and first, and
\* nobody waits who could be accepted.
Turn(c) ==
    /\ Listening
    /\ c \in Connected
    /\ client[c].until <= socket.current
    /\ socket.current - client[c].created <= Life
    /\ FirstInLine(c)
    /\ \/ socket.waiting = "FALSE"
       \/ socket.waiting = "TRUE" /\ socket.connected = MaxClients

Ends(c, code) == client[c].codes # << >> /\ Last(client[c].codes) = code

Unasked(c) == Turn(c) /\ client[c].reads = "nil"
SilentSlip(c) ==       \* forgets the client that has not sent anything yet
    /\ Turn(c) /\ client[c].reads = "FALSE"
    /\ client[c].timeouts < MaxTimeouts
    /\ client[c].codes # << >> /\ ~Ends(c, "newline")
Silent(c) ==
    /\ Turn(c) /\ client[c].reads = "FALSE"
    /\ client[c].timeouts < MaxTimeouts
    /\ ~Ends(c, "newline")
Speaks(c) == Turn(c) /\ client[c].reads = "TRUE"

Unprobed(c) == Speaks(c) /\ client[c].writes = "nil"
Clogged(c) == Speaks(c) /\ client[c].writes = "FALSE"
Fresh(c) == Speaks(c) /\ client[c].writes = "TRUE" /\ client[c].codes = << >>
Midway(c) == Speaks(c) /\ Ends(c, "text") /\ Len(client[c].codes) < MaxMessage
TooLongSlip(c) == Speaks(c) /\ Len(client[c].codes) + 1 = MaxMessage /\ ~Ends(c, "newline")
TooLong(c) == Speaks(c) /\ Len(client[c].codes) = MaxMessage /\ ~Ends(c, "newline")
NotText(c) == Speaks(c) /\ Ends(c, "high")

Complete(c) == c \in Connected /\ Ends(c, "newline")
OverdueSlip(c) ==      \* forgets the client's age
    /\ Listening /\ c \in Connected
    /\ client[c].timeouts >= MaxTimeouts
Overdue(c) ==
    /\ Listening /\ c \in Connected
    /\ \/ client[c].timeouts >= MaxTimeouts
       \/ socket.current - client[c].created > Life

\* Some rule is on the agenda.
Activated ==
    \/ ~socket.created \/ socket.bound = "nil"
    \/ socket.bound = "TRUE" /\ socket.listening = "nil"
    \/ Pending \/ Quiet \/ Room
    \/ \E c \in Client :
         \/ Asleep(c) \/ Unasked(c) \/ Silent(c)
         \/ Unprobed(c) \/ Clogged(c) \/ Fresh(c) \/ Midway(c)
         \/ TooLong(c) \/ NotText(c) \/ Complete(c) \/ Overdue(c)

-----------------------------------------------------------------------------
Init ==
    /\ socket = [created |-> FALSE, bound |-> "nil", listening |-> "nil",
                 waiting |-> "nil", connected |-> 0, current |-> 0]
    /\ client = [c \in Client |-> NoFact]
    /\ peer = [c \in Client |-> [at |-> "away", state |-> "here", sent |-> << >>,
                                 inbox |-> << >>, told |-> "nothing", echo |-> << >>]]
    /\ queue = << >> /\ now = 0 /\ phase = "running"

Always ==
    /\ ~socket.created
    /\ socket' = [socket EXCEPT !.created = TRUE]
    /\ UNCHANGED <<client, peer, queue, now>>

BindSock ==
    /\ socket.created /\ socket.bound = "nil"
    /\ \E done \in BOOLEAN : socket' = [socket EXCEPT !.bound = Answer(done)]
    /\ UNCHANGED <<client, peer, queue, now>>

ListenSock ==
    /\ socket.bound = "TRUE" /\ socket.listening = "nil"
    /\ \E done \in BOOLEAN : socket' = [socket EXCEPT !.listening = Answer(done)]
    /\ UNCHANGED <<client, peer, queue, now>>

CheckForPendingClient ==
    /\ Pending
    /\ socket' = [socket EXCEPT !.waiting = Answer(queue # << >>)]
    /\ UNCHANGED <<client, peer, queue, now>>

\* accept, O_NONBLOCK, and a client fact with a poll due at once.
Admit(t) ==
    LET c == Head(queue) IN
    /\ queue' = Tail(queue)
    /\ peer' = [peer EXCEPT ![c].at = "open"]
    /\ client' = [client EXCEPT ![c] =
                     [reads |-> "nil", writes |-> "nil", created |-> t, until |-> t,
                      increment |-> 1, timeouts |-> 0, codes |-> << >>]]
    /\ now' = t

\* accept waits for somebody to connect.
BlockAndWaitIndefinitely ==
    /\ Quiet /\ queue # << >>
    /\ \E t \in Clock :
         /\ Admit(t)
         /\ socket' = [socket EXCEPT !.waiting = "nil", !.connected = 1, !.current = t]

AcceptPendingClient ==
    /\ Room /\ queue # << >>
    /\ \E t \in Clock :
         /\ Admit(t)
         /\ socket' = [socket EXCEPT !.waiting = "nil", !.connected = @ + 1, !.current = t]

\* Sleep in poll until the first client is due or somebody connects.
BlockAndPollMilliseconds(c) ==
    LET delay == client[c].until - socket.current IN
    /\ Asleep(c)
    /\ \E t \in IF queue # << >> THEN now..(now + delay)
                ELSE (now + delay)..(now + delay + Lag) :
         /\ now' = t
         /\ socket' = [socket EXCEPT !.current = t, !.waiting = Answer(queue # << >>)]
    /\ UNCHANGED <<client, peer, queue>>

CheckClientReadyToRead(c) ==
    /\ Unasked(c)
    /\ client' = [client EXCEPT ![c].reads = Answer(Readable(peer[c]))]
    /\ UNCHANGED <<socket, peer, queue, now>>

FailedReadyToRead(c) ==
    /\ Silent(c)
    /\ \E t \in Clock :
         /\ now' = t
         /\ socket' = [socket EXCEPT !.waiting = "nil", !.current = t]
         /\ client' = [client EXCEPT ![c].reads = "nil", ![c].timeouts = @ + 1,
                                     ![c].until = t + client[c].increment,
                                     ![c].increment = @ + 1]
    /\ UNCHANGED <<peer, queue>>

\* Whether the connection takes more text is the kernel's to say.
CheckClientReadyToWrite(c) ==
    /\ Unprobed(c)
    /\ \E room \in BOOLEAN : client' = [client EXCEPT ![c].writes = Answer(room)]
    /\ UNCHANGED <<socket, peer, queue, now>>

FailedReadyToWriteCheck(c) ==
    /\ Clogged(c)
    /\ \E t \in Clock :
         /\ now' = t
         /\ socket' = [socket EXCEPT !.waiting = "nil", !.current = t]
         /\ client' = [client EXCEPT ![c].writes = "nil", ![c].timeouts = @ + 1,
                                     ![c].until = t + client[c].increment,
                                     ![c].increment = 2 * @]
    /\ UNCHANGED <<peer, queue>>

GetCharSlip(c, until) ==       \* takes it that there is more
    LET p == peer[c]
        code == IF p.inbox = << >> THEN "eof" ELSE Head(p.inbox)
    IN
    /\ peer' = [peer EXCEPT ![c].inbox = IF @ = << >> THEN @ ELSE Tail(@)]
    /\ client' = [client EXCEPT ![c].until = until, ![c].codes = Append(@, code)]

\* get-char, then poll again.
GetChar(c, until) ==
    LET p == peer[c]
        code == IF p.inbox = << >> THEN "eof" ELSE Head(p.inbox)
    IN
    /\ peer' = [peer EXCEPT ![c].inbox = IF @ = << >> THEN @ ELSE Tail(@)]
    /\ client' = [client EXCEPT ![c].until = until, ![c].codes = Append(@, code),
                                ![c].reads = Answer(Readable(peer'[c]))]

\* set-not-buffered comes first, so poll and get-char see the same input.
GetFirstCharOfMessage(c) ==
    /\ Fresh(c)
    /\ GetChar(c, socket.current)
    /\ UNCHANGED <<socket, queue, now>>

GetNextCharWhileMessageNotDone(c) ==
    /\ Midway(c)
    /\ GetChar(c, client[c].until)
    /\ UNCHANGED <<socket, queue, now>>

DismissSlip(c, what, echo) ==  \* does not count the client out
    \E t \in Clock :
       /\ now' = t
       /\ client' = [client EXCEPT ![c] = NoFact]
       /\ peer' = [peer EXCEPT ![c].at = "closed", ![c].inbox = << >>,
                               ![c].told = what, ![c].echo = echo]
       /\ socket' = [socket EXCEPT !.waiting = "nil", !.current = t]

\* Print the answer, flush, empty, shut down and close the connection, and
\* retract the client.
Dismiss(c, what, echo) ==
    \E t \in Clock :
       /\ now' = t
       /\ client' = [client EXCEPT ![c] = NoFact]
       /\ peer' = [peer EXCEPT ![c].at = "closed", ![c].inbox = << >>,
                               ![c].told = what, ![c].echo = echo]
       /\ socket' = [socket EXCEPT !.waiting = "nil", !.connected = @ - 1, !.current = t]

EndOfMessageReceivedRespondToClient(c) ==
    /\ Complete(c)
    /\ Dismiss(c, "hello", Front(client[c].codes))
    /\ UNCHANGED queue

TimeoutClient(c) == Overdue(c) /\ Dismiss(c, "late", << >>) /\ UNCHANGED queue

MessageTooLong(c) == TooLong(c) /\ Dismiss(c, "long", << >>) /\ UNCHANGED queue

NextCharNotUTF8(c) == NotText(c) /\ Dismiss(c, "notUTF8", << >>) /\ UNCHANGED queue

\* An answer to a peer that is gone raises SIGPIPE at its second piece; a
\* connection nothing was read from is still buffered, and sends one piece.
BrokenPipe(c) ==
    /\ phase = "running"
    /\ Complete(c) \/ Overdue(c) \/ TooLong(c) \/ NotText(c)
    /\ client[c].codes # << >> /\ peer[c].state = "gone"
    /\ phase' = "killed"
    /\ UNCHANGED <<socket, client, peer, queue, now>>

\* The agenda is empty: (run) returns, and the batch file goes on to (exit).
RunReturns ==
    /\ phase = "running" /\ ~Activated
    /\ phase' = "over"
    /\ UNCHANGED <<socket, client, peer, queue, now>>

-----------------------------------------------------------------------------
(* The peers.                                                              *)

Connect(c) ==
    /\ phase = "running" /\ Listening /\ peer[c].at = "away"
    /\ peer' = [peer EXCEPT ![c].at = "queued"]
    /\ queue' = Append(queue, c)
    /\ UNCHANGED <<socket, client, now, phase>>

Talking(c) == phase = "running" /\ peer[c].at \in {"queued", "open"} /\ peer[c].state = "here"

Send(c, x) ==
    /\ Talking(c) /\ Len(peer[c].sent) < SentMax
    /\ peer' = [peer EXCEPT ![c].sent = Append(@, x), ![c].inbox = Append(@, x)]
    /\ UNCHANGED <<socket, client, queue, now, phase>>

Depart(c, how) ==
    /\ Talking(c)
    /\ peer' = [peer EXCEPT ![c].state = how]
    /\ UNCHANGED <<socket, client, queue, now, phase>>

\* accept waits for a client, or the program has ended.
Waits == (phase # "running" \/ Quiet) /\ UNCHANGED vars

-----------------------------------------------------------------------------
SocketRule == \/ Always \/ BindSock \/ ListenSock \/ CheckForPendingClient
              \/ BlockAndWaitIndefinitely \/ AcceptPendingClient

ClientRule(c) ==
    \/ BlockAndPollMilliseconds(c)
    \/ CheckClientReadyToRead(c) \/ FailedReadyToRead(c)
    \/ CheckClientReadyToWrite(c) \/ FailedReadyToWriteCheck(c)
    \/ GetFirstCharOfMessage(c) \/ GetNextCharWhileMessageNotDone(c)
    \/ EndOfMessageReceivedRespondToClient(c) \/ TimeoutClient(c)
    \/ MessageTooLong(c) \/ NextCharNotUTF8(c)

\* One rule fires.
Fire == /\ phase = "running"
        /\ SocketRule \/ \E c \in Client : ClientRule(c)
        /\ UNCHANGED phase

Peers == \E c \in Client :
            \/ Connect(c)
            \/ \E x \in Char : Send(c, x)
            \/ \E how \in Departures : Depart(c, how)

Next == Fire \/ (\E c \in Client : BrokenPipe(c)) \/ RunReturns \/ Peers \/ Waits

Spec == Init /\ [][Next]_vars

\* (run) fires rules as long as there is one to fire.
FairSpec == Spec /\ WF_vars(Fire)

-----------------------------------------------------------------------------
(* Properties.                                                             *)

TypeOK ==
    /\ socket \in SocketFact
    /\ client \in [Client -> ClientFact \cup {NoFact}]
    /\ peer \in [Client -> Connection]
    /\ queue \in Seq(Client)
    /\ now \in Nat
    /\ phase \in {"running", "over", "killed"}

\* clients-connected, which admits clients and decides whether accept may
\* block, is the number of client facts, and those are the open connections.
CountsClients ==
    /\ socket.connected = Cardinality(Connected)
    /\ \A c \in Client : c \in Connected <=> peer[c].at = "open"

\* max-clients is never exceeded.
WithinCapacity == Cardinality({c \in Client : peer[c].at = "open"}) <= MaxClients

\* The server only calls accept with a timeout when somebody waits: what poll
\* said about the listening socket is still true when a rule acts on it.
WaitingMeansQueued == socket.waiting = "TRUE" => queue # << >>

\* get-char on a non-blocking connection would find input, or its end.
ReadyMeansInput ==
    \A c \in Connected : client[c].reads = "TRUE" => Readable(peer[c])

\* What the rules hold of a message is what the peer sent so far, in order, and
\* the rest is still in the connection; only the last code may end a message.
HeardInOrder(c) ==
    LET codes == client[c].codes
        heard == IF Ends(c, "eof") THEN Front(codes) ELSE codes
    IN
    /\ peer[c].sent = heard \o peer[c].inbox
    /\ \A i \in 1..(Len(codes) - 1) : codes[i] = "text"
    /\ Len(codes) <= MaxMessage
    /\ Ends(c, "eof") => peer[c].inbox = << >> /\ peer[c].state # "here"

\* A hello repeats the first line of its client, of at most MaxMessage
\* characters; who is told that a message is too long sent that many characters,
\* or all it will ever send, without a newline; and who is told that it is not
\* UTF-8 sent such a character before any newline.
Truthful(p) ==
    LET upto(n) == {p.sent[i] : i \in 1..n} IN
    /\ p.told = "hello" =>
          /\ Append(p.echo, "newline") = SubSeq(p.sent, 1, Len(p.echo) + 1)
          /\ Len(p.echo) < MaxMessage
          /\ "newline" \notin ToSet(p.echo)
    /\ p.told = "long" =>
          \/ Len(p.sent) >= MaxMessage /\ "newline" \notin upto(MaxMessage)
          \/ p.state # "here" /\ "newline" \notin ToSet(p.sent)
    /\ p.told = "notUTF8" =>
          \E n \in DOMAIN p.sent :
              n <= MaxMessage /\ p.sent[n] = "high" /\ "newline" \notin upto(n)

\* No answer misreads its client, because nothing of what it sent is lost,
\* doubled or read twice on the way from its connection to its fact.
AnswersAreTrue ==
    \A c \in Client :
        /\ peer[c].at \in {"away", "queued"} =>
              peer[c].inbox = peer[c].sent /\ peer[c].told = "nothing"
        /\ c \in Connected => HeardInOrder(c) /\ peer[c].told = "nothing"
        /\ Truthful(peer[c])

\* The server serves until it is killed: once it listens, some rule is always
\* on the agenda.
KeepsServing == phase = "over" => ~Listening

\* Whoever connects is answered, and the connection closed.
EveryClientAnswered ==
    \A c \in Client : peer[c].at = "queued" ~> peer[c].at = "closed"

\* The queue holds each peer that waits to be accepted, once.
QueueHoldsWaiting ==
    /\ \A i, j \in 1..Len(queue) : queue[i] = queue[j] => i = j
    /\ \A c \in Client : peer[c].at = "queued" <=> \E i \in 1..Len(queue) : queue[i] = c

\* What the rules have written down is so: the count of clients (seven rules
\* keep it), the answers of poll that later rules act on, and room for each.
IInv ==
    /\ TypeOK
    /\ QueueHoldsWaiting
    /\ CountsClients
    /\ socket.connected <= MaxClients
    /\ WaitingMeansQueued
    /\ ReadyMeansInput
=============================================================================
