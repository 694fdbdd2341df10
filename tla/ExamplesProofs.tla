--------------------------- MODULE ExamplesProofs ---------------------------
(***************************************************************************)
(* Proofs about the rule-based programs of the examples: ComplexServer, for *)
(* any finite set of clients and any limits, and AbClone, for any number of *)
(* requests, any limit on requests at once and any clock.                  *)
(***************************************************************************)
EXTENDS ComplexServer, AbClone, FiniteSetTheorems, WellFoundedInduction, TLAPS

-----------------------------------------------------------------------------
(* Types.                                                                  *)

\* What poll answers is a symbol.
LEMMA AnswerIsSymbol == \A b \in BOOLEAN : Answer(b) \in Symbol
BY DEF Answer, Symbol

\* The clock a rule reads is a time no earlier than the last one read.
LEMMA ClockIsTime == TypeOK => \A t \in Clock : t \in Nat /\ t >= now
BY LimitsAssumption DEF TypeOK, Clock

\* The facts of connected clients.
LEMMA ConnectedFacts ==
    TypeOK => \A c \in Connected : c \in Client /\ client[c] \in ClientFact
BY DEF TypeOK, Connected

\* A rule that modifies the fact of one client leaves a fact of it.
LEMMA EditedFact ==
    ASSUME TypeOK, NEW c \in Connected, NEW e \in ClientFact,
           client' = [client EXCEPT ![c] = e]
    PROVE  /\ client' \in [Client -> ClientFact \cup {NoFact}]
           /\ Connected' = Connected
           /\ client'[c] = e
           /\ \A d \in Client \ {c} : client'[d] = client[d]
BY NoFactAssumption DEF TypeOK, Connected

\* A change of one connection leaves a connection.
LEMMA EditedPeer ==
    ASSUME TypeOK, NEW c \in Client, NEW p \in Connection,
           peer' = [peer EXCEPT ![c] = p]
    PROVE  /\ peer' \in [Client -> Connection]
           /\ peer'[c] = p
           /\ \A d \in Client \ {c} : peer'[d] = peer[d]
BY DEF TypeOK

\* A rule that modifies the socket fact leaves a socket fact.
LEMMA EditedSocket ==
    ASSUME TypeOK, NEW w \in Symbol, NEW n \in Int, NEW t \in Nat,
           socket' = [socket EXCEPT !.waiting = w, !.connected = n, !.current = t]
    PROVE  socket' \in SocketFact /\ socket'.waiting = w /\ socket'.connected = n
BY DEF TypeOK, SocketFact

\* What accept-pending-client and block-and-wait-indefinitely share.
LEMMA AdmitTypes ==
    ASSUME TypeOK, queue # << >>, NEW t \in Clock, Admit(t)
    PROVE  /\ Head(queue) \in Client
           /\ client' \in [Client -> ClientFact \cup {NoFact}]
           /\ client'[Head(queue)] \in ClientFact
           /\ client'[Head(queue)].reads = "nil"
           /\ \A d \in Client \ {Head(queue)} : client'[d] = client[d]
           /\ peer' \in [Client -> Connection]
           /\ peer'[Head(queue)].at = "open"
           /\ \A d \in Client \ {Head(queue)} : peer'[d] = peer[d]
           /\ queue' = Tail(queue) /\ queue' \in Seq(Client)
           /\ now' \in Nat /\ now' = t
<1> DEFINE c == Head(queue)
           e == [reads |-> "nil", writes |-> "nil", created |-> t, until |-> t,
                 increment |-> 1, timeouts |-> 0, codes |-> << >>]
           p == [peer[c] EXCEPT !.at = "open"]
<1>1. c \in Client /\ Tail(queue) \in Seq(Client)
  BY DEF TypeOK
<1>2. t \in Nat
  BY ClockIsTime
<1>3. e \in ClientFact /\ e.reads = "nil"
  BY <1>2 DEF ClientFact, Symbol, Code
<1>4. p \in Connection /\ p.at = "open"
  BY <1>1 DEF TypeOK, Connection
<1>5. client' = [client EXCEPT ![c] = e] /\ queue' = Tail(queue) /\ now' = t
  BY DEF Admit
<1>6. peer' = [peer EXCEPT ![c] = p]
  BY DEF Admit
<1> HIDE DEF e, p
<1>7. /\ client' \in [Client -> ClientFact \cup {NoFact}]
      /\ client'[c] = e
      /\ \A d \in Client \ {c} : client'[d] = client[d]
  BY <1>1, <1>3, <1>5 DEF TypeOK
<1>8. /\ peer' \in [Client -> Connection]
      /\ peer'[c] = p
      /\ \A d \in Client \ {c} : peer'[d] = peer[d]
  BY <1>1, <1>4, <1>6, EditedPeer
<1> QED BY <1>1, <1>2, <1>3, <1>4, <1>5, <1>7, <1>8

\* Changing four fields of one connection changes that connection.
LEMMA AnsweredPeer ==
    ASSUME NEW c \in Client, NEW what, NEW echo, peer \in [Client -> Connection],
           peer' = [peer EXCEPT ![c].at = "closed", ![c].inbox = << >>,
                                ![c].told = what, ![c].echo = echo]
    PROVE  peer' = [peer EXCEPT ![c] = [peer[c] EXCEPT !.at = "closed", !.inbox = << >>,
                                                       !.told = what, !.echo = echo]]
BY Zenon

\* What the four rules that answer a client share.
LEMMA DismissTypes ==
    ASSUME TypeOK, NEW c \in Client,
           NEW what \in {"hello", "late", "long", "notUTF8"}, NEW echo \in Seq(Code),
           Dismiss(c, what, echo)
    PROVE  /\ client' = [client EXCEPT ![c] = NoFact]
           /\ client' \in [Client -> ClientFact \cup {NoFact}]
           /\ peer' \in [Client -> Connection]
           /\ peer'[c].at = "closed"
           /\ \A d \in Client \ {c} : peer'[d] = peer[d]
           /\ socket' \in SocketFact
           /\ socket'.connected = socket.connected - 1
           /\ socket'.waiting = "nil"
           /\ now' \in Nat
<1>1. PICK t \in Clock :
        /\ now' = t
        /\ client' = [client EXCEPT ![c] = NoFact]
        /\ peer' = [peer EXCEPT ![c].at = "closed", ![c].inbox = << >>,
                                ![c].told = what, ![c].echo = echo]
        /\ socket' = [socket EXCEPT !.waiting = "nil", !.connected = @ - 1,
                                    !.current = t]
  BY DEF Dismiss
<1> DEFINE p == [peer[c] EXCEPT !.at = "closed", !.inbox = << >>,
                                !.told = what, !.echo = echo]
<1>2. t \in Nat
  BY ClockIsTime
<1>3. peer[c] \in Connection
  BY DEF TypeOK
<1>4. p \in Connection /\ p.at = "closed"
  <2>1. /\ << >> \in Seq(Char)
        /\ "closed" \in {"away", "queued", "open", "closed"}
        /\ what \in {"nothing", "hello", "late", "long", "notUTF8"}
    OBVIOUS
  <2> QED BY <1>3, <2>1 DEF Connection
<1>5. peer' = [peer EXCEPT ![c] = p]
  <2>1. peer \in [Client -> Connection]
    BY DEF TypeOK
  <2>2. peer' = [peer EXCEPT ![c].at = "closed", ![c].inbox = << >>,
                             ![c].told = what, ![c].echo = echo]
    BY <1>1
  <2> QED BY <2>1, <2>2, AnsweredPeer
<1> HIDE DEF p
<1>6. /\ peer' \in [Client -> Connection]
      /\ peer'[c] = p
      /\ \A d \in Client \ {c} : peer'[d] = peer[d]
  BY <1>4, <1>5, EditedPeer
<1>7. /\ socket' \in SocketFact
      /\ socket'.connected = socket.connected - 1
      /\ socket'.waiting = "nil"
  <2>1. socket \in SocketFact
    BY DEF TypeOK
  <2>2. socket.connected - 1 \in Int
    BY <2>1 DEF SocketFact
  <2>3. socket' = [socket EXCEPT !.waiting = "nil",
                                 !.connected = socket.connected - 1, !.current = t]
    BY <1>1
  <2>4. "nil" \in Symbol
    BY DEF Symbol
  <2> QED BY <1>2, <2>2, <2>3, <2>4, EditedSocket
<1>8. client' \in [Client -> ClientFact \cup {NoFact}]
  BY <1>1 DEF TypeOK
<1> QED BY <1>1, <1>2, <1>4, <1>6, <1>7, <1>8

-----------------------------------------------------------------------------
(* IInv is inductive.                                                      *)

\* A step that makes and retracts no client fact and moves nobody in or out of
\* the queue: all rules but accepting and answering, and a peer that sends or
\* leaves.
LEMMA SameClients ==
    ASSUME IInv, TypeOK', Connected' = Connected, queue' = queue,
           \A d \in Client : peer'[d].at = peer[d].at,
           socket'.connected = socket.connected,
           socket'.waiting = "TRUE" => queue # << >>,
           \A d \in Connected : client'[d].reads = "TRUE" => Readable(peer'[d])
    PROVE  IInv'
<1>1. QueueHoldsWaiting'
  BY DEF IInv, QueueHoldsWaiting
<1>2. CountsClients'
  BY DEF IInv, CountsClients
<1>3. (socket.connected <= MaxClients)'
  BY DEF IInv
<1>4. WaitingMeansQueued'
  BY DEF WaitingMeansQueued
<1>5. ReadyMeansInput'
  BY DEF ReadyMeansInput, Readable
<1> QED BY <1>1, <1>2, <1>3, <1>4, <1>5 DEF IInv

\* A step that answers client c and retracts its fact.
LEMMA OneClientLess ==
    ASSUME IInv, TypeOK', NEW c \in Connected, queue' = queue,
           client' = [client EXCEPT ![c] = NoFact],
           peer'[c].at = "closed",
           \A d \in Client \ {c} : peer'[d] = peer[d],
           socket'.connected = socket.connected - 1,
           socket'.waiting = "nil"
    PROVE  IInv'
<1>1. /\ c \in Client /\ peer[c].at = "open"
      /\ socket.connected = Cardinality(Connected) /\ socket.connected <= MaxClients
      /\ socket.connected \in Int
  BY DEF IInv, CountsClients, Connected, TypeOK, SocketFact
<1>2. /\ client'[c] = NoFact
      /\ \A d \in Client \ {c} : client'[d] = client[d]
  BY <1>1 DEF IInv, TypeOK
<1>3. Connected' = Connected \ {c}
  BY <1>2 DEF Connected
<1>4. IsFiniteSet(Connected)
  BY ClientAssumption, FS_Subset DEF Connected
<1>5. QueueHoldsWaiting'
  BY <1>1 DEF IInv, QueueHoldsWaiting
<1>6. CountsClients'
  <2>1. Cardinality(Connected') = Cardinality(Connected) - 1
    BY <1>3, <1>4, FS_RemoveElement
  <2>2. \A d \in Client : d \in Connected' <=> peer'[d].at = "open"
    BY <1>1, <1>3 DEF IInv, CountsClients
  <2> QED BY <1>1, <2>1, <2>2 DEF CountsClients
<1>7. (socket.connected <= MaxClients)'
  BY <1>1, LimitsAssumption
<1>8. WaitingMeansQueued'
  BY DEF WaitingMeansQueued
<1>9. ReadyMeansInput'
  BY <1>2, <1>3 DEF IInv, ReadyMeansInput, Readable, Connected
<1> QED BY <1>5, <1>6, <1>7, <1>8, <1>9 DEF IInv

\* A step that accepts the first in the queue.
LEMMA OneClientMore ==
    ASSUME IInv, TypeOK', queue # << >>, NEW c, c = Head(queue),
           queue' = Tail(queue),
           client'[c] \in ClientFact, client'[c].reads = "nil",
           peer'[c].at = "open",
           \A d \in Client \ {c} : client'[d] = client[d] /\ peer'[d] = peer[d],
           socket.connected < MaxClients,
           socket'.connected = socket.connected + 1,
           socket'.waiting = "nil"
    PROVE  IInv'
<1>1. /\ queue \in Seq(Client) /\ Len(queue) \in Nat \ {0}
      /\ c \in Client /\ queue[1] = c
      /\ Len(queue') = Len(queue) - 1
      /\ \A i \in 1..Len(queue') : queue'[i] = queue[i + 1]
  BY DEF IInv, TypeOK
<1>2. peer[c].at = "queued" /\ c \notin Connected
  BY <1>1 DEF IInv, QueueHoldsWaiting, CountsClients
<1>3. Connected' = Connected \cup {c}
  BY <1>1, NoFactAssumption DEF Connected
<1>4. IsFiniteSet(Connected)
  BY ClientAssumption, FS_Subset DEF Connected
<1>5. QueueHoldsWaiting'
  <2>1. \A i, j \in 1..Len(queue') : queue'[i] = queue'[j] => i = j
    <3> SUFFICES ASSUME NEW i \in 1..Len(queue'), NEW j \in 1..Len(queue'),
                        queue'[i] = queue'[j]
                 PROVE  i = j
      OBVIOUS
    <3>1. i + 1 \in 1..Len(queue) /\ j + 1 \in 1..Len(queue)
      BY <1>1
    <3>2. i + 1 = j + 1
      BY <1>1, <3>1 DEF IInv, QueueHoldsWaiting
    <3> QED BY <1>1, <3>2
  <2>2. ASSUME NEW d \in Client
        PROVE  peer'[d].at = "queued" <=> \E i \in 1..Len(queue') : queue'[i] = d
    <3>1. CASE d = c
      <4>1. \A i \in 1..Len(queue') : i + 1 \in 1..Len(queue) /\ i + 1 # 1
        BY <1>1
      <4>2. 1 \in 1..Len(queue)
        BY <1>1
      <4>3. \A i \in 1..Len(queue') : queue'[i] # c
        BY <1>1, <4>1, <4>2 DEF IInv, QueueHoldsWaiting
      <4> QED BY <3>1, <4>3
    <3>2. CASE d # c
      <4>1. peer'[d].at = "queued" <=> \E i \in 1..Len(queue) : queue[i] = d
        BY <3>2 DEF IInv, QueueHoldsWaiting
      <4>2. ASSUME NEW i \in 1..Len(queue), queue[i] = d
            PROVE  i - 1 \in 1..Len(queue') /\ queue'[i - 1] = d
        <5>1. i # 1
          BY <1>1, <3>2, <4>2
        <5>2. i - 1 \in 1..Len(queue')
          BY <1>1, <5>1
        <5>3. queue'[i - 1] = queue[(i - 1) + 1]
          BY <1>1, <5>2
        <5> QED BY <4>2, <5>2, <5>3
      <4>3. ASSUME NEW i \in 1..Len(queue'), queue'[i] = d
            PROVE  i + 1 \in 1..Len(queue) /\ queue[i + 1] = d
        BY <1>1, <4>3
      <4> QED BY <4>1, <4>2, <4>3
    <3> QED BY <3>1, <3>2
  <2> QED BY <2>1, <2>2 DEF QueueHoldsWaiting
<1>6. CountsClients'
  <2>1. Cardinality(Connected') = Cardinality(Connected) + 1
    BY <1>2, <1>3, <1>4, FS_AddElement
  <2>2. \A d \in Client : d \in Connected' <=> peer'[d].at = "open"
    BY <1>3 DEF IInv, CountsClients
  <2> QED BY <2>1, <2>2 DEF IInv, CountsClients
<1>7. (socket.connected <= MaxClients)'
  BY LimitsAssumption DEF IInv, TypeOK, SocketFact
<1>8. WaitingMeansQueued'
  BY DEF WaitingMeansQueued
<1>9. ReadyMeansInput'
  BY <1>3 DEF IInv, ReadyMeansInput, Readable, Connected
<1> QED BY <1>5, <1>6, <1>7, <1>8, <1>9 DEF IInv

-----------------------------------------------------------------------------
(* One lemma per rule.                                                     *)

\* A rule that touches the socket fact and the clock alone.
LEMMA SocketOnly ==
    ASSUME IInv, socket' \in SocketFact, now' \in Nat,
           socket'.connected = socket.connected,
           socket'.waiting = "TRUE" => queue # << >>,
           UNCHANGED <<client, peer, queue, phase>>
    PROVE  IInv'
<1>1. TypeOK'
  BY DEF IInv, TypeOK
<1>2. Connected' = Connected
  BY DEF Connected
<1>3. \A d \in Connected : client'[d].reads = "TRUE" => Readable(peer'[d])
  BY DEF IInv, ReadyMeansInput
<1> QED BY <1>1, <1>2, <1>3, SameClients

\* Creating, binding and listening.
LEMMA SetUpIInv ==
    ASSUME IInv, Always \/ BindSock \/ ListenSock, UNCHANGED phase
    PROVE  IInv'
<1>1. socket \in SocketFact /\ now \in Nat
  BY DEF IInv, TypeOK
<1>2. /\ socket' \in SocketFact
      /\ socket'.connected = socket.connected /\ socket'.waiting = socket.waiting
      /\ UNCHANGED <<client, peer, queue, now>>
  <2>1. CASE Always
    BY <1>1, <2>1 DEF Always, SocketFact
  <2>2. CASE BindSock
    <3>1. PICK done \in BOOLEAN : socket' = [socket EXCEPT !.bound = Answer(done)]
      BY <2>2 DEF BindSock
    <3> QED BY <1>1, <2>2, <3>1, AnswerIsSymbol DEF BindSock, SocketFact
  <2>3. CASE ListenSock
    <3>1. PICK done \in BOOLEAN : socket' = [socket EXCEPT !.listening = Answer(done)]
      BY <2>3 DEF ListenSock
    <3> QED BY <1>1, <2>3, <3>1, AnswerIsSymbol DEF ListenSock, SocketFact
  <2> QED BY <2>1, <2>2, <2>3
<1>3. socket'.waiting = "TRUE" => queue # << >>
  BY <1>2 DEF IInv, WaitingMeansQueued
<1> QED BY <1>1, <1>2, <1>3, SocketOnly

\* check-for-pending-client records what poll says of the listening socket.
LEMMA CheckForPendingClientIInv ==
    ASSUME IInv, CheckForPendingClient, UNCHANGED phase
    PROVE  IInv'
<1>1. socket \in SocketFact /\ now \in Nat
  BY DEF IInv, TypeOK
<1>2. /\ socket' = [socket EXCEPT !.waiting = Answer(queue # << >>)]
      /\ UNCHANGED <<client, peer, queue, now>>
  BY DEF CheckForPendingClient
<1>3. Answer(queue # << >>) \in Symbol
  BY AnswerIsSymbol
<1>4. Answer(queue # << >>) = "TRUE" => queue # << >>
  BY DEF Answer
<1>5. /\ socket' \in SocketFact
      /\ socket'.connected = socket.connected /\ socket'.waiting = Answer(queue # << >>)
  BY <1>1, <1>2, <1>3 DEF SocketFact
<1> QED BY <1>1, <1>2, <1>4, <1>5, SocketOnly

\* The sleep in poll reads the clock and records who waits.
LEMMA BlockAndPollMillisecondsIInv ==
    ASSUME IInv, NEW c \in Client, BlockAndPollMilliseconds(c), UNCHANGED phase
    PROVE  IInv'
<1> DEFINE delay == client[c].until - socket.current
<1>1. /\ socket \in SocketFact /\ now \in Nat /\ socket.current \in Nat
      /\ socket.connected \in Int
  BY DEF IInv, TypeOK, SocketFact
<1>2. c \in Connected /\ client[c].until > socket.current
  BY DEF BlockAndPollMilliseconds, Asleep
<1>3. delay \in Nat
  <2>1. client[c].until \in Nat
    BY <1>2, ConnectedFacts DEF IInv, ClientFact
  <2> QED BY <1>1, <1>2, <2>1
<1> HIDE DEF delay
<1>4. PICK t \in (IF queue # << >> THEN now..(now + delay)
                  ELSE (now + delay)..(now + delay + Lag)) :
        /\ now' = t
        /\ socket' = [socket EXCEPT !.current = t, !.waiting = Answer(queue # << >>)]
  BY DEF BlockAndPollMilliseconds, delay
<1>5. t \in Nat
  BY <1>1, <1>3, <1>4, LimitsAssumption
<1>6. Answer(queue # << >>) \in Symbol
  BY AnswerIsSymbol
<1>7. /\ socket' \in SocketFact
      /\ socket'.connected = socket.connected /\ socket'.waiting = Answer(queue # << >>)
  BY <1>1, <1>4, <1>5, <1>6 DEF SocketFact
<1>8. UNCHANGED <<client, peer, queue>>
  BY DEF BlockAndPollMilliseconds
<1>9. Answer(queue # << >>) = "TRUE" => queue # << >>
  BY DEF Answer
<1> QED BY <1>4, <1>5, <1>7, <1>8, <1>9, SocketOnly

\* accept, with or without somebody known to wait.
LEMMA AcceptIInv ==
    ASSUME IInv, BlockAndWaitIndefinitely \/ AcceptPendingClient, UNCHANGED phase
    PROVE  IInv'
<1>1. socket \in SocketFact /\ socket.connected \in Int /\ queue # << >>
  BY DEF IInv, TypeOK, SocketFact, BlockAndWaitIndefinitely, AcceptPendingClient
<1>2. socket.connected < MaxClients
  <2>1. socket.connected = 0 \/ socket.connected < MaxClients
    BY DEF BlockAndWaitIndefinitely, AcceptPendingClient, Quiet, Room
  <2> QED BY <1>1, <2>1, LimitsAssumption
<1>3. PICK t \in Clock :
        /\ Admit(t)
        /\ socket' \in SocketFact /\ socket'.waiting = "nil"
        /\ socket'.connected = socket.connected + 1
  <2> TypeOK /\ "nil" \in Symbol /\ socket.connected + 1 \in Int /\ 1 \in Int
    BY <1>1 DEF Symbol, IInv
  <2>1. CASE BlockAndWaitIndefinitely
    <3>1. PICK t \in Clock :
            /\ Admit(t)
            /\ socket' = [socket EXCEPT !.waiting = "nil", !.connected = 1, !.current = t]
      BY <2>1 DEF BlockAndWaitIndefinitely
    <3>2. socket.connected = 0
      BY <2>1 DEF BlockAndWaitIndefinitely, Quiet
    <3>3. t \in Nat
      BY ClockIsTime DEF IInv
    <3>4. socket' \in SocketFact /\ socket'.waiting = "nil" /\ socket'.connected = 1
      BY <3>1, <3>3, EditedSocket
    <3> QED BY <3>1, <3>2, <3>4
  <2>2. CASE AcceptPendingClient
    <3>1. PICK t \in Clock :
            /\ Admit(t)
            /\ socket' = [socket EXCEPT !.waiting = "nil", !.connected = @ + 1,
                                        !.current = t]
      BY <2>2 DEF AcceptPendingClient
    <3>2. t \in Nat
      BY ClockIsTime DEF IInv
    <3>3. socket' = [socket EXCEPT !.waiting = "nil",
                                   !.connected = socket.connected + 1, !.current = t]
      BY <3>1
    <3>4. /\ socket' \in SocketFact /\ socket'.waiting = "nil"
          /\ socket'.connected = socket.connected + 1
      BY <3>2, <3>3, EditedSocket
    <3> QED BY <3>1, <3>4
  <2> QED BY <2>1, <2>2
<1> DEFINE c == Head(queue)
<1>7. /\ client' \in [Client -> ClientFact \cup {NoFact}]
      /\ client'[c] \in ClientFact
      /\ client'[c].reads = "nil"
      /\ peer' \in [Client -> Connection]
      /\ peer'[c].at = "open"
      /\ \A d \in Client \ {c} : client'[d] = client[d] /\ peer'[d] = peer[d]
      /\ queue' = Tail(queue) /\ queue' \in Seq(Client)
      /\ now' \in Nat
  BY <1>1, <1>3, AdmitTypes DEF IInv
<1> HIDE DEF c
<1>8. TypeOK'
  BY <1>3, <1>7 DEF IInv, TypeOK
<1> QED BY <1>1, <1>2, <1>3, <1>7, <1>8, OneClientMore DEF c

\* A rule that modifies the fact of one client, the socket fact and the clock.
LEMMA FactOnly ==
    ASSUME IInv, NEW c \in Connected, NEW e \in ClientFact,
           client' = [client EXCEPT ![c] = e],
           e.reads = "TRUE" => Readable(peer[c]),
           socket' \in SocketFact, now' \in Nat,
           socket'.connected = socket.connected,
           socket'.waiting = "TRUE" => queue # << >>,
           UNCHANGED <<peer, queue, phase>>
    PROVE  IInv'
<1>1. /\ client' \in [Client -> ClientFact \cup {NoFact}]
      /\ Connected' = Connected
      /\ client'[c] = e
      /\ \A d \in Client \ {c} : client'[d] = client[d]
  BY EditedFact DEF IInv
<1>2. TypeOK'
  BY <1>1 DEF IInv, TypeOK
<1>3. \A d \in Connected : client'[d].reads = "TRUE" => Readable(peer'[d])
  BY <1>1 DEF IInv, ReadyMeansInput, Connected
<1> QED BY <1>1, <1>2, <1>3, SameClients

\* poll on the connection of a client, for reading and for writing.
LEMMA CheckIInv ==
    ASSUME IInv, NEW c \in Client,
           CheckClientReadyToRead(c) \/ CheckClientReadyToWrite(c), UNCHANGED phase
    PROVE  IInv'
<1>1. /\ c \in Connected /\ client[c] \in ClientFact
      /\ client \in [Client -> ClientFact \cup {NoFact}]
      /\ UNCHANGED <<socket, peer, queue, now>>
      /\ socket \in SocketFact /\ now \in Nat
      /\ socket.waiting = "TRUE" => queue # << >>
  BY ConnectedFacts
     DEF IInv, TypeOK, CheckClientReadyToRead, CheckClientReadyToWrite, Unasked,
         Unprobed, Speaks, Turn, WaitingMeansQueued
<1>2. CASE CheckClientReadyToRead(c)
  <2> DEFINE a == Answer(Readable(peer[c]))
             e == [client[c] EXCEPT !.reads = a]
  <2>1. a \in Symbol /\ (a = "TRUE" => Readable(peer[c]))
    BY AnswerIsSymbol DEF Answer, Readable
  <2>2. client' = [client EXCEPT ![c] = e]
    BY <1>1, <1>2 DEF CheckClientReadyToRead
  <2> HIDE DEF a
  <2>3. e \in ClientFact /\ e.reads = a
    BY <1>1, <2>1 DEF ClientFact
  <2> HIDE DEF e
  <2> QED BY <1>1, <2>1, <2>2, <2>3, FactOnly
<1>3. CASE CheckClientReadyToWrite(c)
  <2>1. PICK room \in BOOLEAN : client' = [client EXCEPT ![c].writes = Answer(room)]
    BY <1>3 DEF CheckClientReadyToWrite
  <2> DEFINE e == [client[c] EXCEPT !.writes = Answer(room)]
  <2>2. client' = [client EXCEPT ![c] = e]
    BY <1>1, <2>1
  <2>3. e \in ClientFact /\ e.reads = client[c].reads
    BY <1>1, AnswerIsSymbol DEF ClientFact
  <2>4. e.reads = "TRUE" => Readable(peer[c])
    BY <1>1, <2>3 DEF IInv, ReadyMeansInput
  <2> HIDE DEF e
  <2> QED BY <1>1, <2>2, <2>3, <2>4, FactOnly
<1> QED BY <1>2, <1>3

\* A client that is not ready is put back in line, and counted late.
LEMMA FailedIInv ==
    ASSUME IInv, NEW c \in Client,
           FailedReadyToRead(c) \/ FailedReadyToWriteCheck(c), UNCHANGED phase
    PROVE  IInv'
<1>1. /\ c \in Connected /\ client[c] \in ClientFact
      /\ client \in [Client -> ClientFact \cup {NoFact}]
      /\ socket \in SocketFact
      /\ UNCHANGED <<peer, queue>>
  BY ConnectedFacts
     DEF IInv, TypeOK, FailedReadyToRead, FailedReadyToWriteCheck, Silent, Clogged,
         Speaks, Turn
<1>2. PICK t \in Clock :
        /\ now' = t
        /\ socket' = [socket EXCEPT !.waiting = "nil", !.current = t]
        /\ \/ client' = [client EXCEPT ![c].reads = "nil", ![c].timeouts = @ + 1,
                                       ![c].until = t + client[c].increment,
                                       ![c].increment = @ + 1]
           \/ client' = [client EXCEPT ![c].writes = "nil", ![c].timeouts = @ + 1,
                                       ![c].until = t + client[c].increment,
                                       ![c].increment = 2 * @]
  BY DEF FailedReadyToRead, FailedReadyToWriteCheck
<1>3. t \in Nat
  BY ClockIsTime DEF IInv
<1>4. /\ socket' \in SocketFact /\ socket'.waiting = "nil"
      /\ socket'.connected = socket.connected
  BY <1>1, <1>2, <1>3 DEF SocketFact, Symbol
<1>5. PICK e \in ClientFact :
        client' = [client EXCEPT ![c] = e] /\ e.reads \in {"nil", client[c].reads}
  <2>1. /\ client[c].increment \in Nat /\ client[c].timeouts \in Nat
    BY <1>1 DEF ClientFact
  <2>2. /\ t + client[c].increment \in Nat /\ client[c].timeouts + 1 \in Nat
        /\ client[c].increment + 1 \in Nat /\ 2 * client[c].increment \in Nat
    BY <1>3, <2>1
  <2>3. "nil" \in Symbol
    BY DEF Symbol
  <2>4. CASE client' = [client EXCEPT ![c].reads = "nil", ![c].timeouts = @ + 1,
                                      ![c].until = t + client[c].increment,
                                      ![c].increment = @ + 1]
    <3> DEFINE e == [client[c] EXCEPT !.reads = "nil", !.timeouts = @ + 1,
                                      !.until = t + client[c].increment,
                                      !.increment = @ + 1]
    <3>1. client' = [client EXCEPT ![c] = e]
      BY <1>1, <2>4, Zenon
    <3>2. e \in ClientFact /\ e.reads = "nil"
      BY <1>1, <2>2, <2>3 DEF ClientFact
    <3> HIDE DEF e
    <3> QED BY <3>1, <3>2
  <2>5. CASE client' = [client EXCEPT ![c].writes = "nil", ![c].timeouts = @ + 1,
                                      ![c].until = t + client[c].increment,
                                      ![c].increment = 2 * @]
    <3> DEFINE e == [client[c] EXCEPT !.writes = "nil", !.timeouts = @ + 1,
                                      !.until = t + client[c].increment,
                                      !.increment = 2 * @]
    <3>1. client' = [client EXCEPT ![c] = e]
      BY <1>1, <2>5, Zenon
    <3>2. e \in ClientFact /\ e.reads = client[c].reads
      BY <1>1, <2>2, <2>3 DEF ClientFact
    <3> HIDE DEF e
    <3> QED BY <3>1, <3>2
  <2> QED BY <1>2, <2>4, <2>5
<1>6. e.reads = "TRUE" => Readable(peer[c])
  BY <1>1, <1>5 DEF IInv, ReadyMeansInput
<1> QED BY <1>1, <1>2, <1>3, <1>4, <1>5, <1>6, FactOnly

\* One character read, and the connection polled again.
LEMMA ReadIInv ==
    ASSUME IInv, NEW c \in Client,
           GetFirstCharOfMessage(c) \/ GetNextCharWhileMessageNotDone(c),
           UNCHANGED phase
    PROVE  IInv'
<1>1. /\ c \in Connected /\ client[c] \in ClientFact
      /\ client \in [Client -> ClientFact \cup {NoFact}]
      /\ peer \in [Client -> Connection] /\ peer[c] \in Connection
      /\ socket \in SocketFact /\ socket.current \in Nat
      /\ UNCHANGED <<socket, queue, now>>
  BY ConnectedFacts
     DEF IInv, TypeOK, SocketFact, GetFirstCharOfMessage,
         GetNextCharWhileMessageNotDone, Fresh, Midway, Speaks, Turn
<1>2. PICK until \in Nat : GetChar(c, until)
  <2>1. client[c].until \in Nat
    BY <1>1 DEF ClientFact
  <2> QED BY <1>1, <2>1 DEF GetFirstCharOfMessage, GetNextCharWhileMessageNotDone
<1> DEFINE inbox == peer[c].inbox
           rest == IF inbox = << >> THEN inbox ELSE Tail(inbox)
           code == IF inbox = << >> THEN "eof" ELSE Head(inbox)
           p == [peer[c] EXCEPT !.inbox = rest]
           a == Answer(Readable(peer'[c]))
           e == [client[c] EXCEPT !.until = until, !.codes = Append(client[c].codes, code),
                                  !.reads = a]
<1>3. peer' = [peer EXCEPT ![c] = p] /\ client' = [client EXCEPT ![c] = e]
  BY <1>1, <1>2, Zenon DEF GetChar
<1>4. inbox \in Seq(Char) /\ Char \subseteq Code /\ "eof" \in Code
  BY <1>1 DEF Connection, Code
<1>5. rest \in Seq(Char) /\ code \in Code
  BY <1>4
<1> HIDE DEF inbox, rest, code
<1>6. p \in Connection /\ p.at = peer[c].at
  BY <1>1, <1>5 DEF Connection
<1> HIDE DEF p
<1>7. /\ peer' \in [Client -> Connection]
      /\ \A d \in Client : peer'[d].at = peer[d].at
      /\ \A d \in Client \ {c} : peer'[d] = peer[d]
  BY <1>1, <1>3, <1>6
<1>8. a \in Symbol /\ (a = "TRUE" => Readable(peer'[c]))
  BY AnswerIsSymbol DEF Answer, Readable
<1> HIDE DEF a
<1>9. e \in ClientFact /\ e.reads = a
  <2>1. Append(client[c].codes, code) \in Seq(Code)
    BY <1>1, <1>5 DEF ClientFact
  <2> QED BY <1>1, <1>8, <2>1 DEF ClientFact
<1> HIDE DEF e
<1>10. /\ client' \in [Client -> ClientFact \cup {NoFact}]
       /\ Connected' = Connected
       /\ client'[c] = e
       /\ \A d \in Client \ {c} : client'[d] = client[d]
  BY <1>1, <1>3, <1>9, EditedFact DEF IInv
<1>11. TypeOK'
  BY <1>1, <1>7, <1>10 DEF IInv, TypeOK
<1>12. \A d \in Connected : client'[d].reads = "TRUE" => Readable(peer'[d])
  BY <1>7, <1>8, <1>9, <1>10 DEF IInv, ReadyMeansInput, Connected
<1>13. socket'.waiting = "TRUE" => queue # << >>
  BY <1>1 DEF IInv, WaitingMeansQueued
<1> QED BY <1>1, <1>7, <1>10, <1>11, <1>12, <1>13, SameClients

\* An answer, whichever of the four it is.
LEMMA AnswerIInv ==
    ASSUME IInv, NEW c \in Client, UNCHANGED phase,
           \/ EndOfMessageReceivedRespondToClient(c) \/ TimeoutClient(c)
           \/ MessageTooLong(c) \/ NextCharNotUTF8(c)
    PROVE  IInv'
<1>1. c \in Connected /\ UNCHANGED queue
  BY DEF EndOfMessageReceivedRespondToClient, TimeoutClient, MessageTooLong,
         NextCharNotUTF8, Complete, Overdue, TooLong, NotText, Speaks, Turn
<1>2. PICK what \in {"hello", "late", "long", "notUTF8"}, echo \in Seq(Code) :
        Dismiss(c, what, echo)
  <2>1. CASE EndOfMessageReceivedRespondToClient(c)
    <3>1. client[c].codes \in Seq(Code) /\ client[c].codes # << >>
      BY <1>1, <2>1, ConnectedFacts
         DEF IInv, ClientFact, EndOfMessageReceivedRespondToClient, Complete, Ends
    <3>2. Front(client[c].codes) \in Seq(Code)
      BY <3>1 DEF Front
    <3> QED BY <2>1, <3>2 DEF EndOfMessageReceivedRespondToClient
  <2>2. CASE ~EndOfMessageReceivedRespondToClient(c)
    <3>1. << >> \in Seq(Code)
      OBVIOUS
    <3> QED BY <2>2, <3>1 DEF TimeoutClient, MessageTooLong, NextCharNotUTF8
  <2> QED BY <2>1, <2>2
<1>3. /\ client' = [client EXCEPT ![c] = NoFact]
      /\ client' \in [Client -> ClientFact \cup {NoFact}]
      /\ peer' \in [Client -> Connection]
      /\ peer'[c].at = "closed"
      /\ \A d \in Client \ {c} : peer'[d] = peer[d]
      /\ socket' \in SocketFact
      /\ socket'.connected = socket.connected - 1
      /\ socket'.waiting = "nil"
      /\ now' \in Nat
  BY <1>2, DismissTypes DEF IInv
<1>4. TypeOK'
  BY <1>1, <1>3 DEF IInv, TypeOK
<1> QED BY <1>1, <1>3, <1>4, OneClientLess

-----------------------------------------------------------------------------
(* The peers, and the end.                                                 *)

\* A peer that connects joins the queue.
LEMMA ConnectIInv ==
    ASSUME IInv, NEW c \in Client, Connect(c)
    PROVE  IInv'
<1> DEFINE p == [peer[c] EXCEPT !.at = "queued"]
<1>1. /\ queue' = Append(queue, c) /\ queue \in Seq(Client)
      /\ peer' = [peer EXCEPT ![c] = p] /\ peer[c] \in Connection
      /\ peer[c].at = "away"
      /\ UNCHANGED <<socket, client, now, phase>>
  BY DEF Connect, IInv, TypeOK
<1>2. p \in Connection /\ p.at = "queued" /\ p.state = peer[c].state
      /\ p.inbox = peer[c].inbox
  BY <1>1 DEF Connection
<1> HIDE DEF p
<1>3. /\ peer' \in [Client -> Connection] /\ peer'[c] = p
      /\ \A d \in Client \ {c} : peer'[d] = peer[d]
  BY <1>1, <1>2, EditedPeer DEF IInv
<1>4. /\ queue' \in Seq(Client) /\ Len(queue') = Len(queue) + 1
      /\ \A i \in 1..Len(queue) : queue'[i] = queue[i]
      /\ queue'[Len(queue) + 1] = c
      /\ Len(queue) \in Nat
  BY <1>1
<1>5. TypeOK'
  BY <1>1, <1>3, <1>4 DEF IInv, TypeOK
<1>6. QueueHoldsWaiting'
  <2>1. \A i \in 1..Len(queue) : queue[i] # c
    BY <1>1 DEF IInv, QueueHoldsWaiting
  <2>2. \A i \in 1..Len(queue') : i \in 1..Len(queue) \/ i = Len(queue) + 1
    BY <1>4
  <2>3. \A i, j \in 1..Len(queue') : queue'[i] = queue'[j] => i = j
    BY <1>4, <2>1, <2>2 DEF IInv, QueueHoldsWaiting
  <2>4. ASSUME NEW d \in Client
        PROVE  peer'[d].at = "queued" <=> \E i \in 1..Len(queue') : queue'[i] = d
    <3>1. CASE d = c
      BY <1>2, <1>3, <1>4, <3>1
    <3>2. CASE d # c
      <4>1. peer'[d].at = "queued" <=> \E i \in 1..Len(queue) : queue[i] = d
        BY <1>3, <3>2 DEF IInv, QueueHoldsWaiting
      <4>2. \A i \in 1..Len(queue) : i \in 1..Len(queue')
        BY <1>4
      <4> QED BY <1>4, <2>2, <3>2, <4>1, <4>2
    <3> QED BY <3>1, <3>2
  <2> QED BY <2>3, <2>4 DEF QueueHoldsWaiting
<1>7. Connected' = Connected
  BY <1>1 DEF Connected
<1>8. CountsClients'
  BY <1>1, <1>2, <1>3, <1>7 DEF IInv, CountsClients
<1>9. (socket.connected <= MaxClients)'
  BY <1>1 DEF IInv
<1>10. WaitingMeansQueued'
  BY <1>4 DEF WaitingMeansQueued
<1>11. ReadyMeansInput'
  BY <1>1, <1>2, <1>3, <1>7 DEF IInv, ReadyMeansInput, Readable, Connected
<1> QED BY <1>5, <1>6, <1>8, <1>9, <1>10, <1>11 DEF IInv

\* A peer that sends or leaves makes its connection no less readable.
LEMMA PeerIInv ==
    ASSUME IInv, NEW c \in Client,
           \/ \E x \in Char : Send(c, x)
           \/ \E how \in Departures : Depart(c, how)
    PROVE  IInv'
<1>1. /\ peer \in [Client -> Connection] /\ peer[c] \in Connection
      /\ UNCHANGED <<socket, client, queue, now, phase>>
  BY DEF IInv, TypeOK, Send, Depart
<1>2. PICK p \in Connection :
        /\ peer' = [peer EXCEPT ![c] = p]
        /\ p.at = peer[c].at
        /\ Readable(peer[c]) => Readable(p)
  <2>1. CASE \E x \in Char : Send(c, x)
    <3>1. PICK x \in Char :
            peer' = [peer EXCEPT ![c].sent = Append(@, x), ![c].inbox = Append(@, x)]
      BY <2>1 DEF Send
    <3> DEFINE p == [peer[c] EXCEPT !.sent = Append(peer[c].sent, x),
                                    !.inbox = Append(peer[c].inbox, x)]
    <3>2. peer' = [peer EXCEPT ![c] = p]
      BY <1>1, <3>1
    <3>3. /\ Append(peer[c].sent, x) \in Seq(Char)
          /\ Append(peer[c].inbox, x) \in Seq(Char)
          /\ Append(peer[c].inbox, x) # << >>
      <4>1. peer[c].sent \in Seq(Char) /\ peer[c].inbox \in Seq(Char)
        BY <1>1 DEF Connection
      <4>2. ASSUME NEW s \in Seq(Char)
            PROVE  Append(s, x) \in Seq(Char) /\ Append(s, x) # << >>
        <5>1. Append(s, x) \in Seq(Char) /\ Len(Append(s, x)) = Len(s) + 1
          OBVIOUS
        <5>2. Len(s) \in Nat /\ Len(<< >>) = 0
          OBVIOUS
        <5> QED BY <5>1, <5>2
      <4> QED BY <4>1, <4>2
    <3>4. p \in Connection /\ p.at = peer[c].at /\ p.inbox # << >>
      BY <1>1, <3>3 DEF Connection
    <3> HIDE DEF p
    <3> QED BY <3>2, <3>4 DEF Readable
  <2>2. CASE \E how \in Departures : Depart(c, how)
    <3>1. PICK how \in Departures : peer' = [peer EXCEPT ![c].state = how]
      BY <2>2 DEF Depart
    <3> DEFINE p == [peer[c] EXCEPT !.state = how]
    <3>2. peer' = [peer EXCEPT ![c] = p]
      BY <1>1, <3>1
    <3>3. how \in {"finished", "gone"}
      BY DeparturesAssumption
    <3>4. p \in Connection /\ p.at = peer[c].at /\ p.state # "here"
      BY <1>1, <3>3 DEF Connection
    <3> HIDE DEF p
    <3> QED BY <3>2, <3>4 DEF Readable
  <2> QED BY <2>1, <2>2
<1>3. /\ peer' \in [Client -> Connection] /\ peer'[c] = p
      /\ \A d \in Client \ {c} : peer'[d] = peer[d]
  BY <1>2, EditedPeer DEF IInv
<1>4. TypeOK' /\ Connected' = Connected
  BY <1>1, <1>3 DEF IInv, TypeOK, Connected
<1>5. \A d \in Client : peer'[d].at = peer[d].at
  BY <1>2, <1>3
<1>6. \A d \in Connected : client'[d].reads = "TRUE" => Readable(peer'[d])
  <2> SUFFICES ASSUME NEW d \in Connected, client[d].reads = "TRUE"
               PROVE  Readable(peer'[d])
    BY <1>1
  <2>1. d \in Client /\ Readable(peer[d])
    BY DEF IInv, ReadyMeansInput, Connected
  <2> QED BY <1>2, <1>3, <2>1
<1>7. socket'.waiting = "TRUE" => queue # << >>
  BY <1>1 DEF IInv, WaitingMeansQueued
<1> QED BY <1>1, <1>4, <1>5, <1>6, <1>7, SameClients

\* Dying of SIGPIPE, returning from (run), and stuttering leave the facts alone.
LEMMA StillIInv ==
    ASSUME IInv, UNCHANGED <<socket, client, peer, queue, now>>,
           phase' \in {phase, "over", "killed"}
    PROVE  IInv'
<1>1. TypeOK' /\ Connected' = Connected
  BY DEF IInv, TypeOK, Connected
<1>2. \A d \in Connected : client'[d].reads = "TRUE" => Readable(peer'[d])
  BY DEF IInv, ReadyMeansInput
<1>3. socket'.waiting = "TRUE" => queue # << >>
  BY DEF IInv, WaitingMeansQueued
<1> QED BY <1>1, <1>2, <1>3, SameClients

-----------------------------------------------------------------------------
(* The theorems.                                                           *)

\* Before the first rule fires there is no client and nobody waits.
LEMMA InitIInv == Init => IInv
<1> SUFFICES ASSUME Init PROVE IInv
  OBVIOUS
<1>1. TypeOK
  <2>1. socket \in SocketFact
    BY DEF Init, SocketFact, Symbol
  <2>2. peer \in [Client -> Connection]
    BY DEF Init, Connection
  <2> QED BY <2>1, <2>2 DEF Init, TypeOK
<1>2. Connected = {} /\ Cardinality({}) = 0
  BY FS_EmptySet DEF Init, Connected
<1>3. CountsClients
  BY <1>2 DEF Init, CountsClients
<1>4. QueueHoldsWaiting
  BY DEF Init, QueueHoldsWaiting
<1>5. socket.connected <= MaxClients
  BY LimitsAssumption DEF Init
<1>6. WaitingMeansQueued /\ ReadyMeansInput
  BY <1>2 DEF Init, WaitingMeansQueued, ReadyMeansInput
<1> QED BY <1>1, <1>3, <1>4, <1>5, <1>6 DEF IInv

\* Every step of the server and of its peers keeps the invariant.
LEMMA NextIInv == IInv /\ [Next]_vars => IInv'
<1> SUFFICES ASSUME IInv, [Next]_vars PROVE IInv'
  OBVIOUS
<1>1. CASE Fire
  <2>1. CASE SocketRule
    BY <1>1, <2>1, SetUpIInv, CheckForPendingClientIInv, AcceptIInv
       DEF Fire, SocketRule
  <2>2. CASE \E c \in Client : ClientRule(c)
    <3>1. PICK c \in Client : ClientRule(c)
      BY <2>2
    <3>2. UNCHANGED phase
      BY <1>1 DEF Fire
    <3> QED BY <3>1, <3>2, BlockAndPollMillisecondsIInv, CheckIInv, FailedIInv,
               ReadIInv, AnswerIInv DEF ClientRule
  <2> QED BY <1>1, <2>1, <2>2 DEF Fire
<1>2. CASE \E c \in Client : BrokenPipe(c)
  BY <1>2, StillIInv DEF BrokenPipe
<1>3. CASE RunReturns
  BY <1>3, StillIInv DEF RunReturns
<1>4. CASE Peers
  BY <1>4, ConnectIInv, PeerIInv DEF Peers
<1>5. CASE Waits \/ UNCHANGED vars
  BY <1>5, StillIInv DEF Waits, vars
<1> QED BY <1>1, <1>2, <1>3, <1>4, <1>5 DEF Next

\* The inductive invariant holds in every reachable state.
THEOREM Invariance == Spec => []IInv
BY InitIInv, NextIInv, PTL DEF Spec

\* The facts and the connections keep their types: no counter of the socket
\* fact or of a client fact leaves its range, and no slot holds anything but
\* the symbols the rules match.
THEOREM TypeCorrect == Spec => []TypeOK
<1>1. IInv => TypeOK
  BY DEF IInv
<1> QED BY <1>1, Invariance, PTL

\* clients-connected is the number of client facts, and each of them stands
\* for one open connection: no rule loses or doubles a client.
THEOREM ClientsCounted == Spec => []CountsClients
<1>1. IInv => CountsClients
  BY DEF IInv
<1> QED BY <1>1, Invariance, PTL

\* The server never holds more connections than max-clients.
THEOREM CapacityHolds == Spec => []WithinCapacity
<1>1. IInv => WithinCapacity
  <2> SUFFICES ASSUME IInv PROVE WithinCapacity
    OBVIOUS
  <2>1. {c \in Client : peer[c].at = "open"} = Connected
    BY DEF IInv, CountsClients, Connected
  <2> QED BY <2>1 DEF IInv, CountsClients, WithinCapacity
<1> QED BY <1>1, Invariance, PTL

\* When a rule accepts because poll saw a client waiting, one is still waiting:
\* that accept never blocks the other clients.
THEOREM WaitingIsTrue == Spec => []WaitingMeansQueued
<1>1. IInv => WaitingMeansQueued
  BY DEF IInv
<1> QED BY <1>1, Invariance, PTL

\* When a rule reads because poll saw input, there still is input, or its end.
THEOREM ReadyIsTrue == Spec => []ReadyMeansInput
<1>1. IInv => ReadyMeansInput
  BY DEF IInv
<1> QED BY <1>1, Invariance, PTL

-----------------------------------------------------------------------------
(* Sequences.                                                              *)

LEMMA FrontOfAppend ==
    ASSUME NEW S, NEW s \in Seq(S), NEW x \in S
    PROVE  /\ Append(s, x) \in Seq(S) /\ Append(s, x) # << >>
           /\ Front(Append(s, x)) = s /\ Last(Append(s, x)) = x
<1>1. /\ Append(s, x) \in Seq(S) /\ Len(Append(s, x)) = Len(s) + 1
      /\ Append(s, x)[Len(s) + 1] = x
      /\ \A i \in 1..Len(s) : Append(s, x)[i] = s[i]
      /\ Len(s) \in Nat /\ Len(<< >>) = 0
  OBVIOUS
<1>2. Append(s, x) # << >> /\ Last(Append(s, x)) = x
  BY <1>1 DEF Last
<1>3. /\ Front(Append(s, x)) \in Seq(S) /\ Len(Front(Append(s, x))) = Len(s)
      /\ \A i \in 1..Len(s) : Front(Append(s, x))[i] = s[i]
  BY <1>1 DEF Front
<1> QED BY <1>1, <1>2, <1>3

LEMMA FrontIs ==
    ASSUME NEW S, NEW s \in Seq(S), s # << >>
    PROVE  /\ Front(s) \in Seq(S) /\ Len(Front(s)) = Len(s) - 1
           /\ \A i \in 1..(Len(s) - 1) : Front(s)[i] = s[i]
<1> DEFINE n == Len(s) - 1
<1>1. n \in Nat /\ n <= Len(s) /\ Len(s) \in Nat
  OBVIOUS
<1> HIDE DEF n
<1>2. /\ SubSeq(s, 1, n) \in Seq(S) /\ Len(SubSeq(s, 1, n)) = n
      /\ \A i \in 1..n : SubSeq(s, 1, n)[i] = s[i]
  BY <1>1
<1> QED BY <1>2 DEF n, Front

LEMMA ConcatIs ==
    ASSUME NEW S, NEW s \in Seq(S), NEW t \in Seq(S)
    PROVE  /\ s \o t \in Seq(S) /\ Len(s \o t) = Len(s) + Len(t) /\ Len(s) \in Nat
           /\ \A i \in 1..Len(s) : (s \o t)[i] = s[i]
           /\ \A i \in 1..Len(s \o t) : i > Len(s) => (s \o t)[i] = t[i - Len(s)]
OBVIOUS

\* Taking the first of the rest and putting it after what was taken before
\* keeps the order of the whole.
LEMMA TakeOne ==
    ASSUME NEW S, NEW s \in Seq(S), NEW t \in Seq(S), t # << >>
    PROVE  /\ Head(t) \in S /\ Tail(t) \in Seq(S)
           /\ s \o t = Append(s, Head(t)) \o Tail(t)
<1>1. /\ Head(t) \in S /\ Tail(t) \in Seq(S) /\ Len(t) \in Nat /\ Len(t) # 0
      /\ Len(Tail(t)) = Len(t) - 1 /\ Head(t) = t[1]
      /\ \A i \in 1..Len(Tail(t)) : Tail(t)[i] = t[i + 1]
  OBVIOUS
<1> DEFINE u == s \o t
           h == Append(s, Head(t))
           w == h \o Tail(t)
<1>2. /\ u \in Seq(S) /\ Len(u) = Len(s) + Len(t) /\ Len(s) \in Nat
      /\ \A i \in 1..Len(s) : u[i] = s[i]
      /\ \A i \in 1..Len(u) : i > Len(s) => u[i] = t[i - Len(s)]
  BY ConcatIs
<1>3. /\ h \in Seq(S) /\ Len(h) = Len(s) + 1 /\ h[Len(s) + 1] = t[1]
      /\ \A i \in 1..Len(s) : h[i] = s[i]
  BY <1>1
<1> HIDE DEF h
<1>4. /\ w \in Seq(S) /\ Len(w) = Len(s) + Len(t)
      /\ \A i \in 1..(Len(s) + 1) : w[i] = h[i]
      /\ \A i \in 1..Len(w) : i > Len(s) + 1 => w[i] = Tail(t)[i - (Len(s) + 1)]
  <2>1. Len(h) = Len(s) + 1 /\ h \in Seq(S) /\ Tail(t) \in Seq(S)
    BY <1>1, <1>3
  <2>2. /\ w \in Seq(S) /\ Len(w) = Len(h) + Len(Tail(t))
        /\ \A i \in 1..Len(h) : w[i] = h[i]
        /\ \A i \in 1..Len(w) : i > Len(h) => w[i] = Tail(t)[i - Len(h)]
    BY <2>1, ConcatIs
  <2> HIDE DEF w
  <2> QED BY <1>1, <1>2, <2>1, <2>2
<1> HIDE DEF u, w
<1>5. \A i \in 1..Len(u) : u[i] = w[i]
  <2> SUFFICES ASSUME NEW i \in 1..Len(u) PROVE u[i] = w[i]
    OBVIOUS
  <2>1. CASE i <= Len(s)
    BY <1>2, <1>3, <1>4, <2>1
  <2>2. CASE i = Len(s) + 1
    BY SMTT(60), <1>2, <1>3, <1>4, <2>2
  <2>3. CASE i > Len(s) + 1
    <3>1. i - (Len(s) + 1) \in 1..Len(Tail(t))
      BY <1>1, <1>2, <2>3
    <3>2. w[i] = t[(i - (Len(s) + 1)) + 1]
      BY <1>1, <1>2, <1>4, <2>3, <3>1
    <3>3. (i - (Len(s) + 1)) + 1 = i - Len(s)
      BY <1>2
    <3> QED BY <1>2, <2>3, <3>2, <3>3
  <2> QED BY <1>2, <2>1, <2>2, <2>3
<1>6. u = w
  BY <1>2, <1>4, <1>5
<1> QED BY <1>1, <1>6 DEF u, w, h

\* What arrives last stands last.
LEMMA PutOne ==
    ASSUME NEW s \in Seq(Code), NEW t \in Seq(Code), NEW x \in Code
    PROVE  Append(s \o t, x) = s \o Append(t, x)
<1> DEFINE u == Append(s \o t, x)
           w == s \o Append(t, x)
<1>1. /\ u \in Seq(Code) /\ w \in Seq(Code) /\ Len(s) \in Nat /\ Len(t) \in Nat
      /\ Len(u) = Len(s) + Len(t) + 1 /\ Len(w) = Len(s) + Len(t) + 1
  OBVIOUS
<1>2. ASSUME NEW i \in 1..Len(u) PROVE u[i] = w[i]
  <2>1. CASE i <= Len(s)
    BY <1>1, <2>1
  <2>2. CASE i > Len(s) /\ i <= Len(s) + Len(t)
    <3>1. u[i] = t[i - Len(s)]
      BY <1>1, <2>2
    <3>2. w[i] = Append(t, x)[i - Len(s)]
      BY <1>1, <2>2
    <3>3. i - Len(s) \in 1..Len(t)
      BY <1>1, <2>2
    <3> QED BY <3>1, <3>2, <3>3
  <2>3. CASE i = Len(s) + Len(t) + 1
    <3>1. u[i] = x
      BY <1>1, <2>3
    <3>2. w[i] = Append(t, x)[Len(t) + 1]
      BY <1>1, <2>3
    <3> QED BY <3>1, <3>2
  <2> QED BY <1>1, <2>1, <2>2, <2>3
<1> HIDE DEF u, w
<1>3. u = w
  BY <1>1, <1>2
<1> QED BY <1>3 DEF u, w

-----------------------------------------------------------------------------
(* What the server heard, and what it answers.                             *)

\* AnswersAreTrue, of one client.
Honest(c) ==
    /\ peer[c].at \in {"away", "queued"} =>
          peer[c].inbox = peer[c].sent /\ peer[c].told = "nothing"
    /\ c \in Connected => HeardInOrder(c) /\ peer[c].told = "nothing"
    /\ Truthful(peer[c])

LEMMA HonestyIsOfEach == AnswersAreTrue <=> \A c \in Client : Honest(c)
BY DEF AnswersAreTrue, Honest

\* What touches neither the connection of a client nor what its fact holds of
\* the message leaves the server as honest to it as it was.
LEMMA HonestStays ==
    ASSUME NEW c \in Client, Honest(c), peer'[c] = peer[c],
           \/ client'[c] = client[c]
           \/ c \in Connected /\ client'[c] # NoFact /\ client'[c].codes = client[c].codes
    PROVE  Honest(c)'
<1>1. (c \in Connected)' => c \in Connected /\ client'[c].codes = client[c].codes
  BY DEF Connected
<1>2. Truthful(peer[c])'
  BY DEF Honest, Truthful
<1>3. HeardInOrder(c) /\ (c \in Connected)' => HeardInOrder(c)'
  BY <1>1 DEF HeardInOrder, Ends
<1> QED BY <1>1, <1>2, <1>3 DEF Honest

\* Who was told nothing was told nothing wrong.
LEMMA SilenceIsTrue == ASSUME NEW p, p.told \in {"nothing", "late"} PROVE Truthful(p)
BY DEF Truthful

-----------------------------------------------------------------------------
(* Reading.                                                                *)

\* A character goes from the connection to the end of the message; the end of
\* input is written down once, when there is nothing left and no more to come.
LEMMA ReadHonest ==
    ASSUME IInv, IInv', AnswersAreTrue, NEW c \in Client,
           GetFirstCharOfMessage(c) \/ GetNextCharWhileMessageNotDone(c)
    PROVE  AnswersAreTrue'
<1> DEFINE codes == client[c].codes
           inbox == peer[c].inbox
           sent == peer[c].sent
           code == IF inbox = << >> THEN "eof" ELSE Head(inbox)
           rest == IF inbox = << >> THEN inbox ELSE Tail(inbox)
<1>1. /\ c \in Connected /\ client[c] \in ClientFact /\ peer[c] \in Connection
      /\ client \in [Client -> ClientFact \cup {NoFact}]
      /\ peer \in [Client -> Connection]
      /\ HeardInOrder(c) /\ peer[c].told = "nothing" /\ peer[c].at = "open"
      /\ Readable(peer[c])
  BY ConnectedFacts
     DEF IInv, TypeOK, CountsClients, ReadyMeansInput, AnswersAreTrue,
         GetFirstCharOfMessage, GetNextCharWhileMessageNotDone, Fresh, Midway,
         Speaks, Turn
<1>2. PICK until : GetChar(c, until)
  BY DEF GetFirstCharOfMessage, GetNextCharWhileMessageNotDone
<1>3. /\ codes = << >> \/ (Ends(c, "text") /\ Len(codes) < MaxMessage)
      /\ ~Ends(c, "eof")
  BY DEF GetFirstCharOfMessage, GetNextCharWhileMessageNotDone, Fresh, Midway, Ends
<1>4. /\ codes \in Seq(Code) /\ inbox \in Seq(Char) /\ sent \in Seq(Char)
      /\ Char \subseteq Code /\ inbox \in Seq(Code) /\ "eof" \in Code
  <2>1. codes \in Seq(Code) /\ inbox \in Seq(Char) /\ sent \in Seq(Char)
    BY <1>1 DEF ClientFact, Connection
  <2>2. Char \subseteq Code /\ "eof" \in Code /\ "eof" \notin Char
    BY DEF Char, Code
  <2>3. inbox \in Seq(Code)
    BY <2>1, <2>2
  <2> QED BY <2>1, <2>2, <2>3
<1>5. /\ sent = codes \o inbox
      /\ \A i \in 1..(Len(codes) - 1) : codes[i] = "text"
      /\ Len(codes) <= MaxMessage
  BY <1>1, <1>3 DEF HeardInOrder
<1>6. /\ \A i \in 1..Len(codes) : codes[i] = "text"
      /\ Len(codes) < MaxMessage /\ Len(codes) \in Nat
  <2>1. Len(codes) \in Nat /\ (codes # << >> => Len(codes) # 0) /\ Len(<< >>) = 0
    BY <1>4
  <2>2. CASE codes = << >>
    BY <2>1, <2>2, LimitsAssumption
  <2>3. CASE Ends(c, "text") /\ Len(codes) < MaxMessage
    BY <1>5, <2>1, <2>3 DEF Ends, Last
  <2> QED BY <1>3, <2>1, <2>2, <2>3
<1>7. /\ \A d \in Client \ {c} : client'[d] = client[d] /\ peer'[d] = peer[d]
      /\ peer'[c] = [peer[c] EXCEPT !.inbox = rest]
      /\ client'[c].codes = Append(codes, code)
  <2>1. peer' = [peer EXCEPT ![c].inbox = rest]
    BY <1>2 DEF GetChar
  <2>2. client' = [client EXCEPT ![c].until = until, ![c].codes = Append(@, code),
                                 ![c].reads = Answer(Readable(peer'[c]))]
    BY <1>2 DEF GetChar
  <2>3. client'[c].codes = Append(codes, code)
    BY <1>1, <2>2 DEF ClientFact
  <2> QED BY <1>1, <2>1, <2>2, <2>3
<1>8. /\ peer'[c].inbox = rest /\ peer'[c].sent = sent /\ peer'[c].state = peer[c].state
      /\ peer'[c].told = "nothing" /\ peer'[c].at = "open"
  BY <1>1, <1>7 DEF Connection
<1> HIDE DEF codes, inbox, sent, code, rest
<1>9. /\ Len(Append(codes, code)) <= MaxMessage
      /\ \A i \in 1..(Len(Append(codes, code)) - 1) : Append(codes, code)[i] = "text"
      /\ Append(codes, code) # << >> /\ Last(Append(codes, code)) = code
      /\ Front(Append(codes, code)) = codes
  <2>1. code \in Code
    BY <1>4 DEF code
  <2>2. /\ Len(Append(codes, code)) = Len(codes) + 1
        /\ \A i \in 1..Len(codes) : Append(codes, code)[i] = codes[i]
    BY <1>4, <2>1
  <2>3. Len(Append(codes, code)) <= MaxMessage
    BY <1>6, <2>2, LimitsAssumption
  <2> QED BY <1>4, <1>6, <2>1, <2>2, <2>3, FrontOfAppend
<1>10. (code = "eof" <=> inbox = << >>) /\ (inbox = << >> => peer[c].state # "here")
  <2>1. inbox # << >> => Head(inbox) \in Char
    BY <1>4
  <2>2. "eof" \notin Char
    BY DEF Char
  <2> QED BY <1>1, <2>1, <2>2 DEF Readable, code, inbox
<1>11. HeardInOrder(c)'
  <2>1. Ends(c, "eof")' <=> code = "eof"
    BY <1>7, <1>9 DEF Ends
  <2>2. CASE inbox = << >>
    <3>1. sent = codes \o << >> /\ rest = << >>
      BY <1>5, <2>2 DEF rest
    <3> QED BY <1>7, <1>8, <1>9, <1>10, <2>1, <2>2, <3>1 DEF HeardInOrder
  <2>3. CASE inbox # << >>
    <3>1. sent = Append(codes, code) \o rest
      BY <1>4, <1>5, <2>3, TakeOne DEF rest, code
    <3> QED BY <1>7, <1>8, <1>9, <1>10, <2>1, <2>3, <3>1 DEF HeardInOrder
  <2> QED BY <2>2, <2>3
<1>12. Honest(c)'
  BY <1>8, <1>11, SilenceIsTrue DEF Honest
<1>13. \A d \in Client \ {c} : Honest(d)'
  BY <1>7, HonestyIsOfEach, HonestStays
<1> QED BY <1>12, <1>13 DEF AnswersAreTrue, Honest

-----------------------------------------------------------------------------
(* Answering.                                                              *)

\* The connection of a client that was answered.
LEMMA DismissPeer ==
    ASSUME TypeOK, NEW c \in Client, NEW what, NEW echo, Dismiss(c, what, echo)
    PROVE  /\ c \notin Connected'
           /\ \A d \in Client \ {c} : client'[d] = client[d] /\ peer'[d] = peer[d]
           /\ peer'[c].at = "closed" /\ peer'[c].told = what /\ peer'[c].echo = echo
           /\ peer'[c].sent = peer[c].sent /\ peer'[c].state = peer[c].state
<1>1. /\ client' = [client EXCEPT ![c] = NoFact]
      /\ peer' = [peer EXCEPT ![c].at = "closed", ![c].inbox = << >>,
                              ![c].told = what, ![c].echo = echo]
  BY DEF Dismiss
<1>2. /\ client \in [Client -> ClientFact \cup {NoFact}]
      /\ peer \in [Client -> Connection] /\ peer[c] \in Connection
  BY DEF TypeOK
<1>3. peer' = [peer EXCEPT ![c] = [peer[c] EXCEPT !.at = "closed", !.inbox = << >>,
                                                  !.told = what, !.echo = echo]]
  <2>1. peer \in [Client -> Connection]
    BY <1>2
  <2>2. peer' = [peer EXCEPT ![c].at = "closed", ![c].inbox = << >>,
                             ![c].told = what, ![c].echo = echo]
    BY <1>1
  <2> QED BY <2>1, <2>2, Zenon
<1>4. client'[c] = NoFact /\ \A d \in Client \ {c} : client'[d] = client[d]
  BY <1>1, <1>2
<1>5. \A d \in Client \ {c} : peer'[d] = peer[d]
  BY <1>2, <1>3
<1>6. peer'[c] = [peer[c] EXCEPT !.at = "closed", !.inbox = << >>,
                                 !.told = what, !.echo = echo]
  BY <1>2, <1>3
<1>7. /\ peer'[c].at = "closed" /\ peer'[c].told = what /\ peer'[c].echo = echo
      /\ peer'[c].sent = peer[c].sent /\ peer'[c].state = peer[c].state
  BY <1>2, <1>6 DEF Connection
<1> QED BY <1>4, <1>5, <1>7 DEF Connected

\* An answer that is true is the last word on a connection.
LEMMA AnswerKeepsHonest ==
    ASSUME TypeOK, AnswersAreTrue, NEW c \in Client, NEW what, NEW echo,
           Dismiss(c, what, echo), Truthful(peer'[c])
    PROVE  AnswersAreTrue'
<1>1. Honest(c)'
  BY DismissPeer DEF Honest
<1>2. \A d \in Client \ {c} : Honest(d)'
  BY DismissPeer, HonestyIsOfEach, HonestStays
<1> QED BY <1>1, <1>2 DEF AnswersAreTrue, Honest

\* The characters of a message are the first of what its client sent.
LEMMA MessageIsPrefix ==
    ASSUME TypeOK, NEW c \in Connected, HeardInOrder(c), client[c].codes # << >>
    PROVE  LET codes == client[c].codes
               sent == peer[c].sent
           IN
           /\ codes \in Seq(Code) /\ sent \in Seq(Char) /\ Len(codes) \in 1..MaxMessage
           /\ \A i \in 1..(Len(codes) - 1) :
                 i \in 1..Len(sent) /\ codes[i] = "text" /\ sent[i] = "text"
           /\ ~Ends(c, "eof") => /\ Len(codes) \in 1..Len(sent)
                                 /\ sent[Len(codes)] = codes[Len(codes)]
           /\ Ends(c, "eof") => /\ peer[c].state # "here"
                                /\ Len(sent) = Len(codes) - 1
<1> DEFINE codes == client[c].codes
           sent == peer[c].sent
           inbox == peer[c].inbox
<1>1. codes \in Seq(Code) /\ sent \in Seq(Char) /\ inbox \in Seq(Char)
  <2>1. c \in Client /\ client[c] \in ClientFact /\ peer[c] \in Connection
    BY ConnectedFacts DEF TypeOK, Connected
  <2> QED BY <2>1 DEF ClientFact, Connection
<1>2. Len(codes) \in Nat /\ Len(codes) # 0 /\ Len(sent) \in Nat
  BY <1>1
<1>3. /\ \A i \in 1..(Len(codes) - 1) : codes[i] = "text"
      /\ Len(codes) <= MaxMessage
      /\ Ends(c, "eof") => inbox = << >> /\ peer[c].state # "here"
      /\ ~Ends(c, "eof") => sent = codes \o inbox
      /\ Ends(c, "eof") => sent = Front(codes) \o inbox
  BY DEF HeardInOrder
<1> HIDE DEF codes, sent, inbox
<1>4. CASE Ends(c, "eof")
  <2>1. /\ Front(codes) \in Seq(Code) /\ Len(Front(codes)) = Len(codes) - 1
        /\ \A i \in 1..(Len(codes) - 1) : Front(codes)[i] = codes[i]
    BY <1>1, <1>2, FrontIs
  <2>2. sent = Front(codes)
    BY <1>3, <1>4, <2>1
  <2>3. Len(sent) = Len(codes) - 1
    BY <2>1, <2>2
  <2>4. \A i \in 1..(Len(codes) - 1) :
           i \in 1..Len(sent) /\ codes[i] = "text" /\ sent[i] = "text"
    BY <1>3, <2>1, <2>2, <2>3
  <2>5. peer[c].state # "here"
    BY <1>3, <1>4
  <2>6. Len(codes) \in 1..MaxMessage
    BY <1>2, <1>3, LimitsAssumption
  <2> QED BY <1>1, <1>4, <2>3, <2>4, <2>5, <2>6 DEF codes, sent
<1>5. CASE ~Ends(c, "eof")
  <2>1. inbox \in Seq(Code)
    BY <1>1 DEF Code
  <2>2. /\ Len(sent) = Len(codes) + Len(inbox) /\ Len(inbox) \in Nat
        /\ \A i \in 1..Len(codes) : sent[i] = codes[i]
    BY <1>1, <1>3, <1>5, <2>1, ConcatIs
  <2>3. Len(codes) \in 1..MaxMessage /\ Len(codes) \in 1..Len(sent)
    BY <1>2, <1>3, <2>2, LimitsAssumption
  <2>4. sent[Len(codes)] = codes[Len(codes)]
    BY <1>2, <2>2
  <2>5. \A i \in 1..(Len(codes) - 1) :
           i \in 1..Len(sent) /\ codes[i] = "text" /\ sent[i] = "text"
    <3> SUFFICES ASSUME NEW i \in 1..(Len(codes) - 1)
                 PROVE  i \in 1..Len(sent) /\ codes[i] = "text" /\ sent[i] = "text"
      OBVIOUS
    <3>1. i \in 1..Len(codes) /\ codes[i] = "text"
      BY <1>2, <1>3
    <3>2. i \in 1..Len(sent) /\ sent[i] = codes[i]
      BY <1>2, <2>2, <3>1
    <3> QED BY <3>1, <3>2
  <2> QED BY <1>1, <1>5, <2>3, <2>4, <2>5 DEF codes, sent
<1> QED BY <1>4, <1>5

\* Each of the four answers is true when it is given.
LEMMA AnswerHonest ==
    ASSUME TypeOK, AnswersAreTrue, NEW c \in Client,
           \/ EndOfMessageReceivedRespondToClient(c) \/ TimeoutClient(c)
           \/ MessageTooLong(c) \/ NextCharNotUTF8(c)
    PROVE  AnswersAreTrue'
<1> DEFINE codes == client[c].codes
           sent == peer[c].sent
<1>1. c \in Connected /\ HeardInOrder(c)
  BY DEF EndOfMessageReceivedRespondToClient, TimeoutClient, MessageTooLong,
         NextCharNotUTF8, Complete, Overdue, TooLong, NotText, Speaks, Turn,
         AnswersAreTrue
<1>2. ASSUME codes # << >>
      PROVE  /\ codes \in Seq(Code) /\ sent \in Seq(Char) /\ Len(codes) \in 1..MaxMessage
             /\ \A i \in 1..(Len(codes) - 1) :
                   i \in 1..Len(sent) /\ codes[i] = "text" /\ sent[i] = "text"
             /\ ~Ends(c, "eof") => /\ Len(codes) \in 1..Len(sent)
                                   /\ sent[Len(codes)] = codes[Len(codes)]
             /\ Ends(c, "eof") => /\ peer[c].state # "here"
                                  /\ Len(sent) = Len(codes) - 1
  BY <1>1, <1>2, MessageIsPrefix
<1>3. CASE EndOfMessageReceivedRespondToClient(c)
  <2> DEFINE echo == Front(codes)
  <2>1. /\ Dismiss(c, "hello", echo) /\ codes # << >>
        /\ codes[Len(codes)] = "newline"
    BY <1>3 DEF EndOfMessageReceivedRespondToClient, Complete, Ends, Last
  <2>2. ~Ends(c, "eof")
    BY <2>1 DEF Ends, Last
  <2>3. /\ echo \in Seq(Code) /\ Len(echo) = Len(codes) - 1
        /\ \A i \in 1..(Len(codes) - 1) : echo[i] = codes[i]
    BY <1>2, <2>1, FrontIs
  <2>4. Len(codes) \in 1..Len(sent) /\ sent[Len(codes)] = "newline"
    BY <1>2, <2>1, <2>2
  <2> HIDE DEF echo
  <2>5. Append(echo, "newline") = SubSeq(sent, 1, Len(echo) + 1)
    <3> DEFINE w == Append(echo, "newline")
               v == SubSeq(sent, 1, Len(echo) + 1)
    <3>1. /\ w \in Seq(Code) /\ Len(w) = Len(echo) + 1 /\ w[Len(echo) + 1] = "newline"
          /\ \A i \in 1..Len(echo) : w[i] = echo[i]
      BY <2>3 DEF Code, Char
    <3>2. /\ v \in Seq(Char) /\ Len(v) = Len(echo) + 1
          /\ \A i \in 1..(Len(echo) + 1) : v[i] = sent[i]
      BY <1>2, <2>1, <2>3, <2>4
    <3>3. \A i \in 1..(Len(echo) + 1) : w[i] = v[i]
      BY <1>2, <2>1, <2>3, <2>4, <3>1, <3>2
    <3>4. v \in Seq(Code)
      BY <3>2 DEF Code
    <3> HIDE DEF w, v
    <3>5. w = v
      BY <3>1, <3>2, <3>3, <3>4
    <3> QED BY <3>5 DEF w, v
  <2>6. Len(echo) < MaxMessage /\ "newline" \notin ToSet(echo)
    <3>1. Len(echo) < MaxMessage
      BY <1>2, <2>1, <2>3, LimitsAssumption
    <3>2. \A i \in DOMAIN echo : echo[i] = "text"
      BY <1>2, <2>1, <2>3
    <3> QED BY <3>1, <3>2 DEF ToSet
  <2>7. /\ peer'[c].told = "hello" /\ peer'[c].echo = echo /\ peer'[c].sent = sent
    BY <2>1, DismissPeer
  <2>8. Truthful(peer'[c])
    BY <2>5, <2>6, <2>7 DEF Truthful
  <2> QED BY <2>1, <2>8, AnswerKeepsHonest
<1>4. CASE TimeoutClient(c)
  <2>1. Dismiss(c, "late", << >>)
    BY <1>4 DEF TimeoutClient
  <2>2. Truthful(peer'[c])
    BY <2>1, DismissPeer, SilenceIsTrue
  <2> QED BY <2>1, <2>2, AnswerKeepsHonest
<1>5. CASE MessageTooLong(c)
  <2>1. /\ Dismiss(c, "long", << >>) /\ Len(codes) = MaxMessage /\ ~Ends(c, "newline")
    BY <1>5 DEF MessageTooLong, TooLong
  <2>2. codes # << >>
    BY <2>1, LimitsAssumption
  <2>3. /\ peer'[c].told = "long" /\ peer'[c].sent = sent
        /\ peer'[c].state = peer[c].state
    BY <2>1, DismissPeer
  <2>4. CASE Ends(c, "eof")
    <3>1. \A i \in DOMAIN sent : sent[i] = "text"
      BY <1>2, <2>2, <2>4
    <3>2. peer[c].state # "here" /\ "newline" \notin ToSet(sent)
      BY <1>2, <2>2, <2>4, <3>1 DEF ToSet
    <3> QED BY <2>1, <2>3, <3>2, AnswerKeepsHonest DEF Truthful
  <2>5. CASE ~Ends(c, "eof")
    <3>1. codes[Len(codes)] # "newline" /\ sent[MaxMessage] # "newline"
      BY <1>2, <2>1, <2>2, <2>5 DEF Ends, Last
    <3>2. \A i \in 1..MaxMessage : sent[i] # "newline"
      BY <1>2, <2>1, <2>2, <3>1, LimitsAssumption
    <3>3. Len(sent) >= MaxMessage
      BY <1>2, <2>1, <2>2, <2>5
    <3>4. Truthful(peer'[c])
      BY <2>3, <3>2, <3>3 DEF Truthful
    <3> QED BY <2>1, <3>4, AnswerKeepsHonest
  <2> QED BY <2>4, <2>5
<1>6. CASE NextCharNotUTF8(c)
  <2>1. /\ Dismiss(c, "notUTF8", << >>) /\ codes # << >> /\ codes[Len(codes)] = "high"
    BY <1>6 DEF NextCharNotUTF8, NotText, Ends, Last
  <2>2. ~Ends(c, "eof")
    BY <2>1 DEF Ends, Last
  <2>3. Len(codes) \in DOMAIN sent /\ sent[Len(codes)] = "high" /\ Len(codes) <= MaxMessage
    BY <1>2, <2>1, <2>2, LimitsAssumption
  <2>4. \A i \in 1..Len(codes) : sent[i] # "newline"
    <3> SUFFICES ASSUME NEW i \in 1..Len(codes) PROVE sent[i] # "newline"
      OBVIOUS
    <3>1. i \in 1..(Len(codes) - 1) \/ i = Len(codes)
      BY <1>2, <2>1
    <3> QED BY <1>2, <2>1, <2>3, <3>1
  <2>5. peer'[c].told = "notUTF8" /\ peer'[c].sent = sent
    BY <2>1, DismissPeer
  <2>6. Truthful(peer'[c])
    BY <2>3, <2>4, <2>5 DEF Truthful
  <2> QED BY <2>1, <2>6, AnswerKeepsHonest
<1> QED BY <1>3, <1>4, <1>5, <1>6

-----------------------------------------------------------------------------
(* The other steps.                                                        *)

\* A client that is admitted has sent what its connection holds, and its
\* message is empty.
LEMMA AdmitHonest ==
    ASSUME IInv, IInv', AnswersAreTrue, AcceptPendingClient \/ BlockAndWaitIndefinitely
    PROVE  AnswersAreTrue'
<1>1. PICK t \in Clock : Admit(t) /\ queue # << >>
  BY DEF AcceptPendingClient, BlockAndWaitIndefinitely
<1>2. PICK c \in Client :
      /\ c = Head(queue) /\ peer[c] \in Connection /\ peer[c].at = "queued"
      /\ client \in [Client -> ClientFact \cup {NoFact}]
      /\ peer \in [Client -> Connection]
  <2>1. /\ queue \in Seq(Client) /\ 1 \in 1..Len(queue)
        /\ Head(queue) \in Client /\ Head(queue) = queue[1]
    BY <1>1 DEF IInv, TypeOK
  <2> QED BY <2>1 DEF IInv, TypeOK, QueueHoldsWaiting
<1>3. /\ client' = [client EXCEPT ![c] =
                       [reads |-> "nil", writes |-> "nil", created |-> t, until |-> t,
                        increment |-> 1, timeouts |-> 0, codes |-> << >>]]
      /\ peer' = [peer EXCEPT ![c].at = "open"]
  BY <1>1, <1>2 DEF Admit
<1>4. /\ client'[c].codes = << >>
      /\ peer'[c] = [peer[c] EXCEPT !.at = "open"]
      /\ \A d \in Client \ {c} : client'[d] = client[d] /\ peer'[d] = peer[d]
  BY <1>2, <1>3
<1>5. /\ peer[c].sent \in Seq(Char) /\ peer[c].inbox = peer[c].sent
      /\ peer[c].told = "nothing"
  BY <1>2 DEF AnswersAreTrue, Connection
<1>6. /\ peer'[c].at = "open" /\ peer'[c].told = "nothing"
      /\ peer'[c].inbox = peer[c].sent /\ peer'[c].sent = peer[c].sent
  BY <1>2, <1>4, <1>5 DEF Connection
<1>7. HeardInOrder(c)'
  <2>1. ~Ends(c, "eof")'
    BY <1>4 DEF Ends
  <2>2. << >> \o peer[c].sent = peer[c].sent /\ Len(<< >>) = 0
    BY <1>5
  <2>3. \A i \in 1..(Len(<< >>) - 1) : FALSE
    BY <2>2
  <2>4. peer'[c].sent = client'[c].codes \o peer'[c].inbox
    BY <1>4, <1>6, <2>2
  <2>5. Len(client'[c].codes) <= MaxMessage
    BY <1>4, <2>2, LimitsAssumption
  <2>6. \A i \in 1..(Len(client'[c].codes) - 1) : client'[c].codes[i] = "text"
    BY <1>4, <2>3
  <2> QED BY <2>1, <2>4, <2>5, <2>6 DEF HeardInOrder
<1>8. Honest(c)'
  BY <1>6, <1>7, SilenceIsTrue DEF Honest
<1>9. \A d \in Client \ {c} : Honest(d)'
  BY <1>4, HonestyIsOfEach, HonestStays
<1> QED BY <1>8, <1>9 DEF AnswersAreTrue, Honest

\* A peer that connects was told nothing, and keeps what it sent.
LEMMA ConnectHonest ==
    ASSUME IInv, AnswersAreTrue, NEW c \in Client, Connect(c)
    PROVE  AnswersAreTrue'
<1>1. /\ peer' = [peer EXCEPT ![c].at = "queued"] /\ client' = client
      /\ peer \in [Client -> Connection] /\ peer[c] \in Connection
      /\ peer[c].at = "away" /\ c \notin Connected
  BY DEF Connect, IInv, TypeOK, CountsClients
<1>2. /\ peer'[c] = [peer[c] EXCEPT !.at = "queued"]
      /\ \A d \in Client \ {c} : client'[d] = client[d] /\ peer'[d] = peer[d]
  BY <1>1
<1>3. peer[c].inbox = peer[c].sent /\ peer[c].told = "nothing"
  BY <1>1 DEF AnswersAreTrue
<1>4. peer'[c].inbox = peer'[c].sent /\ peer'[c].told = "nothing"
  BY <1>1, <1>2, <1>3 DEF Connection
<1>5. c \notin Connected'
  BY <1>1 DEF Connected
<1>6. Honest(c)'
  BY <1>4, <1>5, SilenceIsTrue DEF Honest
<1>7. \A d \in Client \ {c} : Honest(d)'
  BY <1>2, HonestyIsOfEach, HonestStays
<1> QED BY <1>6, <1>7 DEF AnswersAreTrue, Honest

\* What a peer sends waits in its connection; once it is done it sends no more.
LEMMA SendHonest ==
    ASSUME IInv, AnswersAreTrue, NEW c \in Client, NEW x \in Char, Send(c, x)
    PROVE  AnswersAreTrue'
<1>1. /\ peer' = [peer EXCEPT ![c].sent = Append(@, x), ![c].inbox = Append(@, x)]
      /\ client' = client /\ client \in [Client -> ClientFact \cup {NoFact}]
      /\ peer \in [Client -> Connection] /\ peer[c] \in Connection
      /\ peer[c].at \in {"queued", "open"} /\ peer[c].state = "here"
  BY DEF Send, Talking, IInv, TypeOK
<1> DEFINE sent == peer[c].sent
           inbox == peer[c].inbox
<1>2. sent \in Seq(Char) /\ inbox \in Seq(Char)
  BY <1>1 DEF Connection
<1>3. /\ peer'[c].sent = Append(sent, x) /\ peer'[c].inbox = Append(inbox, x)
      /\ peer'[c].at = peer[c].at /\ peer'[c].told = peer[c].told
      /\ \A d \in Client \ {c} : client'[d] = client[d] /\ peer'[d] = peer[d]
  <2>1. peer' = [peer EXCEPT ![c] = [peer[c] EXCEPT !.sent = Append(sent, x),
                                                    !.inbox = Append(inbox, x)]]
    BY <1>1
  <2>2. peer'[c] = [peer[c] EXCEPT !.sent = Append(sent, x), !.inbox = Append(inbox, x)]
    BY <1>1, <2>1
  <2>3. /\ peer'[c].sent = Append(sent, x) /\ peer'[c].inbox = Append(inbox, x)
        /\ peer'[c].at = peer[c].at /\ peer'[c].told = peer[c].told
    BY <1>1, <2>2 DEF Connection
  <2> QED BY <1>1, <2>1, <2>3
<1>4. peer[c].told = "nothing"
  BY <1>1 DEF IInv, CountsClients, AnswersAreTrue
<1>5. peer[c].at = "queued" => peer'[c].inbox = peer'[c].sent
  BY <1>3 DEF AnswersAreTrue
<1>6. (c \in Connected)' => c \in Connected
  BY <1>1 DEF Connected
<1>7. ASSUME c \in Connected PROVE HeardInOrder(c)'
  <2>1. HeardInOrder(c) /\ ~Ends(c, "eof") /\ client'[c] = client[c]
    BY <1>1, <1>7 DEF AnswersAreTrue, HeardInOrder
  <2>2. client[c].codes \in Seq(Code) /\ inbox \in Seq(Code) /\ x \in Code
    BY <1>2, <1>7, ConnectedFacts DEF IInv, ClientFact, Code
  <2>3. ~Ends(c, "eof")' /\ sent = client[c].codes \o inbox
    BY <2>1 DEF HeardInOrder, Ends
  <2>4. Append(sent, x) = client[c].codes \o Append(inbox, x)
    <3>1. Append(client[c].codes \o inbox, x) = client[c].codes \o Append(inbox, x)
      <4> DEFINE codes == client[c].codes
      <4>1. codes \in Seq(Code) /\ inbox \in Seq(Code) /\ x \in Code
        BY <2>2
      <4> HIDE DEF codes, inbox
      <4>2. Append(codes \o inbox, x) = codes \o Append(inbox, x)
        BY <4>1, PutOne
      <4> QED BY <4>2 DEF codes, inbox
    <3> QED BY <2>3, <3>1
  <2> QED BY <1>3, <2>1, <2>3, <2>4 DEF HeardInOrder
<1>8. Honest(c)'
  <2>1. peer'[c].told = "nothing"
    BY <1>3, <1>4
  <2>2. Truthful(peer'[c])
    BY <2>1, SilenceIsTrue
  <2>3. peer'[c].at \in {"away", "queued"} => peer'[c].inbox = peer'[c].sent
    BY <1>1, <1>3, <1>5
  <2> QED BY <1>6, <1>7, <2>1, <2>2, <2>3 DEF Honest
<1>9. \A d \in Client \ {c} : Honest(d)'
  BY <1>3, HonestyIsOfEach, HonestStays
<1> QED BY <1>8, <1>9 DEF AnswersAreTrue, Honest

\* A peer that leaves takes back nothing.
LEMMA DepartHonest ==
    ASSUME IInv, AnswersAreTrue, NEW c \in Client, NEW how \in Departures, Depart(c, how)
    PROVE  AnswersAreTrue'
<1>1. /\ peer' = [peer EXCEPT ![c].state = how]
      /\ client' = client /\ client \in [Client -> ClientFact \cup {NoFact}]
      /\ peer \in [Client -> Connection] /\ peer[c] \in Connection
      /\ peer[c].at \in {"queued", "open"} /\ how # "here"
  BY DeparturesAssumption DEF Depart, Talking, IInv, TypeOK
<1>2. /\ peer'[c] = [peer[c] EXCEPT !.state = how]
      /\ \A d \in Client \ {c} : client'[d] = client[d] /\ peer'[d] = peer[d]
  BY <1>1
<1>3. /\ peer'[c].sent = peer[c].sent /\ peer'[c].inbox = peer[c].inbox
      /\ peer'[c].at = peer[c].at /\ peer'[c].told = peer[c].told
      /\ peer'[c].state # "here"
  BY <1>1, <1>2 DEF Connection
<1>4. peer[c].told = "nothing"
  BY <1>1 DEF IInv, CountsClients, AnswersAreTrue
<1>5. (c \in Connected)' => c \in Connected /\ HeardInOrder(c)
  BY <1>1 DEF Connected, AnswersAreTrue
<1>6. HeardInOrder(c) => HeardInOrder(c)'
  BY <1>1, <1>3 DEF HeardInOrder, Ends
<1>7. Honest(c)'
  BY <1>3, <1>4, <1>5, <1>6, SilenceIsTrue DEF Honest, AnswersAreTrue
<1>8. \A d \in Client \ {c} : Honest(d)'
  BY <1>2, HonestyIsOfEach, HonestStays
<1> QED BY <1>7, <1>8 DEF AnswersAreTrue, Honest

\* The rules that ask poll, or put a client back in line, and those about the
\* listening socket, hear nothing and say nothing.
LEMMA OthersHonest ==
    ASSUME IInv, IInv', AnswersAreTrue, UNCHANGED peer,
           \/ UNCHANGED client
           \/ \E c \in Client : \/ CheckClientReadyToRead(c) \/ CheckClientReadyToWrite(c)
                                \/ FailedReadyToRead(c) \/ FailedReadyToWriteCheck(c)
    PROVE  AnswersAreTrue'
<1>1. CASE UNCHANGED client
  BY <1>1, HonestyIsOfEach, HonestStays DEF AnswersAreTrue, Honest
<1>2. ASSUME NEW c \in Client,
             \/ CheckClientReadyToRead(c) \/ CheckClientReadyToWrite(c)
             \/ FailedReadyToRead(c) \/ FailedReadyToWriteCheck(c)
      PROVE  AnswersAreTrue'
  <2>1. /\ c \in Connected /\ client[c] \in ClientFact
        /\ client \in [Client -> ClientFact \cup {NoFact}]
    BY <1>2, ConnectedFacts
       DEF IInv, TypeOK, CheckClientReadyToRead, CheckClientReadyToWrite,
           FailedReadyToRead, FailedReadyToWriteCheck, Unasked, Unprobed, Silent,
           Clogged, Speaks, Turn
  <2>2. /\ client'[c].codes = client[c].codes
        /\ \A d \in Client \ {c} : client'[d] = client[d]
    <3>1. CASE CheckClientReadyToRead(c)
      BY <2>1, <3>1 DEF CheckClientReadyToRead, ClientFact
    <3>2. CASE CheckClientReadyToWrite(c)
      <4>1. PICK room \in BOOLEAN : client' = [client EXCEPT ![c].writes = Answer(room)]
        BY <3>2 DEF CheckClientReadyToWrite
      <4> QED BY <2>1, <4>1 DEF ClientFact
    <3>3. CASE FailedReadyToRead(c)
      <4>1. PICK t \in Clock :
              client' = [client EXCEPT ![c].reads = "nil", ![c].timeouts = @ + 1,
                                       ![c].until = t + client[c].increment,
                                       ![c].increment = @ + 1]
        BY <3>3 DEF FailedReadyToRead
      <4> QED BY <2>1, <4>1 DEF ClientFact
    <3>4. CASE FailedReadyToWriteCheck(c)
      <4>1. PICK t \in Clock :
              client' = [client EXCEPT ![c].writes = "nil", ![c].timeouts = @ + 1,
                                       ![c].until = t + client[c].increment,
                                       ![c].increment = 2 * @]
        BY <3>4 DEF FailedReadyToWriteCheck
      <4> QED BY <2>1, <4>1 DEF ClientFact
    <3> QED BY <1>2, <3>1, <3>2, <3>3, <3>4
  <2>3. client'[c] # NoFact
    BY <2>1 DEF IInv, CountsClients, Connected
  <2>4. \A d \in Client : Honest(d)'
    BY <2>1, <2>2, <2>3, HonestyIsOfEach, HonestStays
  <2> QED BY <2>4 DEF AnswersAreTrue, Honest
<1> QED BY <1>1, <1>2

\* Before the first rule fires nobody has said or heard anything.
LEMMA InitHonest == Init => AnswersAreTrue
BY DEF Init, AnswersAreTrue, Connected, Truthful

\* Every step keeps the answers true.
LEMMA NextHonest == IInv /\ IInv' /\ AnswersAreTrue /\ [Next]_vars => AnswersAreTrue'
<1> SUFFICES ASSUME IInv, IInv', AnswersAreTrue, [Next]_vars PROVE AnswersAreTrue'
  OBVIOUS
<1>1. CASE SocketRule
  <2>1. CASE AcceptPendingClient \/ BlockAndWaitIndefinitely
    BY <2>1, AdmitHonest
  <2>2. CASE Always \/ BindSock \/ ListenSock \/ CheckForPendingClient
    <3>1. UNCHANGED <<client, peer>>
      BY <2>2 DEF Always, BindSock, ListenSock, CheckForPendingClient
    <3> QED BY <3>1, OthersHonest
  <2> QED BY <1>1, <2>1, <2>2 DEF SocketRule
<1>2. ASSUME NEW c \in Client, ClientRule(c) PROVE AnswersAreTrue'
  <2>1. CASE BlockAndPollMilliseconds(c)
    BY <2>1, OthersHonest DEF BlockAndPollMilliseconds
  <2>2. CASE \/ CheckClientReadyToRead(c) \/ CheckClientReadyToWrite(c)
             \/ FailedReadyToRead(c) \/ FailedReadyToWriteCheck(c)
    <3>1. UNCHANGED peer
      BY <2>2 DEF CheckClientReadyToRead, CheckClientReadyToWrite,
                  FailedReadyToRead, FailedReadyToWriteCheck
    <3> QED BY <2>2, <3>1, OthersHonest
  <2>3. CASE GetFirstCharOfMessage(c) \/ GetNextCharWhileMessageNotDone(c)
    BY <2>3, ReadHonest
  <2>4. CASE \/ EndOfMessageReceivedRespondToClient(c) \/ TimeoutClient(c)
             \/ MessageTooLong(c) \/ NextCharNotUTF8(c)
    BY <2>4, AnswerHonest DEF IInv
  <2> QED BY <1>2, <2>1, <2>2, <2>3, <2>4 DEF ClientRule
<1>3. CASE Peers
  BY <1>3, ConnectHonest, SendHonest, DepartHonest DEF Peers
<1>4. CASE UNCHANGED <<client, peer>>
  BY <1>4, OthersHonest
<1>5. /\ (\E c \in Client : BrokenPipe(c)) => UNCHANGED <<client, peer>>
      /\ RunReturns \/ Waits \/ UNCHANGED vars => UNCHANGED <<client, peer>>
  BY DEF BrokenPipe, RunReturns, Waits, vars
<1> QED BY <1>1, <1>2, <1>3, <1>4, <1>5 DEF Next, Fire

\* No answer misreads its client: through polls, rests in line and reads of one
\* character at a time, the message a rule matches is what the peer sent, in
\* order, and each of the answers says of it what is so.
THEOREM AnswersTrue == Spec => []AnswersAreTrue
BY Invariance, InitHonest, NextHonest, PTL DEF Spec

-----------------------------------------------------------------------------
(* The agenda does not run dry.                                            *)

\* Peers that stay are here.
AllHere == \A c \in Client : peer[c].state = "here"

\* No rule and no peer makes another peer leave.
LEMMA StaysHere ==
    ASSUME TypeOK, AllHere, [Next]_vars, Departures = {}
    PROVE  AllHere'
<1>1. peer \in [Client -> Connection]
  BY DEF TypeOK
<1>2. CASE UNCHANGED peer
  BY <1>2 DEF AllHere
<1>3. ASSUME NEW c \in Client, NEW p \in Connection, p.state = peer[c].state,
             peer' = [peer EXCEPT ![c] = p]
      PROVE  AllHere'
  BY <1>1, <1>3 DEF AllHere
<1>4. ASSUME NEW c \in Client, NEW at \in {"queued", "open"},
             peer' = [peer EXCEPT ![c].at = at]
      PROVE  AllHere'
  <2> DEFINE p == [peer[c] EXCEPT !.at = at]
  <2>1. p \in Connection /\ p.state = peer[c].state
    BY <1>1 DEF Connection
  <2>2. peer' = [peer EXCEPT ![c] = p]
    BY <1>1, <1>4
  <2> HIDE DEF p
  <2> QED BY <1>3, <2>1, <2>2
<1>5. ASSUME NEW c \in Client, NEW what, NEW echo, Dismiss(c, what, echo)
      PROVE  AllHere'
  BY <1>5, DismissPeer DEF AllHere
<1>6. ASSUME NEW c \in Client, ClientRule(c) PROVE AllHere'
  <2>1. CASE GetFirstCharOfMessage(c) \/ GetNextCharWhileMessageNotDone(c)
    <3> DEFINE rest == IF peer[c].inbox = << >> THEN peer[c].inbox ELSE Tail(peer[c].inbox)
               p == [peer[c] EXCEPT !.inbox = rest]
    <3>1. peer' = [peer EXCEPT ![c] = p]
      BY <1>1, <2>1
         DEF GetFirstCharOfMessage, GetNextCharWhileMessageNotDone, GetChar
    <3>2. peer[c].inbox \in Seq(Char)
      BY <1>1 DEF Connection
    <3>3. rest \in Seq(Char)
      BY <3>2
    <3> HIDE DEF rest
    <3>4. p \in Connection /\ p.state = peer[c].state
      BY <1>1, <3>3 DEF Connection
    <3> HIDE DEF p
    <3> QED BY <1>3, <3>1, <3>4
  <2>2. CASE \/ EndOfMessageReceivedRespondToClient(c) \/ TimeoutClient(c)
             \/ MessageTooLong(c) \/ NextCharNotUTF8(c)
    BY <1>5, <2>2 DEF EndOfMessageReceivedRespondToClient, TimeoutClient,
                      MessageTooLong, NextCharNotUTF8
  <2>3. CASE ~(\/ GetFirstCharOfMessage(c) \/ GetNextCharWhileMessageNotDone(c)
               \/ EndOfMessageReceivedRespondToClient(c) \/ TimeoutClient(c)
               \/ MessageTooLong(c) \/ NextCharNotUTF8(c))
    BY <1>2, <1>6, <2>3
       DEF ClientRule, BlockAndPollMilliseconds, CheckClientReadyToRead,
           FailedReadyToRead, CheckClientReadyToWrite, FailedReadyToWriteCheck
  <2> QED BY <2>1, <2>2, <2>3
<1>7. CASE SocketRule
  <2>1. CASE AcceptPendingClient \/ BlockAndWaitIndefinitely
    <3>1. PICK t \in Clock : Admit(t) /\ queue # << >>
      BY <2>1 DEF AcceptPendingClient, BlockAndWaitIndefinitely
    <3>2. Head(queue) \in Client
      BY <3>1 DEF TypeOK
    <3> QED BY <1>4, <3>1, <3>2 DEF Admit
  <2>2. CASE Always \/ BindSock \/ ListenSock \/ CheckForPendingClient
    BY <1>2, <2>2 DEF Always, BindSock, ListenSock, CheckForPendingClient
  <2> QED BY <1>7, <2>1, <2>2 DEF SocketRule
<1>8. CASE Peers
  <2>1. PICK c \in Client : Connect(c) \/ \E x \in Char : Send(c, x)
    BY <1>8 DEF Peers
  <2>2. CASE Connect(c)
    BY <1>4, <2>2 DEF Connect
  <2>3. CASE \E x \in Char : Send(c, x)
    <3>1. PICK x \in Char :
            peer' = [peer EXCEPT ![c].sent = Append(@, x), ![c].inbox = Append(@, x)]
      BY <2>3 DEF Send
    <3> DEFINE p == [peer[c] EXCEPT !.sent = Append(peer[c].sent, x),
                                    !.inbox = Append(peer[c].inbox, x)]
    <3>2. peer' = [peer EXCEPT ![c] = p]
      BY <1>1, <3>1
    <3>3. Append(peer[c].sent, x) \in Seq(Char) /\ Append(peer[c].inbox, x) \in Seq(Char)
      BY <1>1 DEF Connection
    <3>4. p \in Connection /\ p.state = peer[c].state
      BY <1>1, <3>3 DEF Connection
    <3> HIDE DEF p
    <3> QED BY <1>3, <3>2, <3>4
  <2> QED BY <2>1, <2>2, <2>3
<1>9. (\E c \in Client : BrokenPipe(c)) \/ RunReturns \/ Waits \/ UNCHANGED vars
        => UNCHANGED peer
  BY DEF BrokenPipe, RunReturns, Waits, vars
<1> QED BY <1>2, <1>6, <1>7, <1>8, <1>9 DEF Next, Fire

\* Among the clients there is one that is first in line.
LEMMA SomebodyIsFirst ==
    ASSUME TypeOK, Connected # {}
    PROVE  \E c \in Connected : FirstInLine(c)
<1> DEFINE T == {client[c].until : c \in Connected}
<1>1. \A c \in Connected : client[c].until \in Nat
  BY ConnectedFacts DEF ClientFact
<1>2. T \subseteq Nat /\ T # {}
  BY <1>1
<1>3. PICK t \in T : \A u \in T : t <= u
  <2>1. \E t \in T : \A u \in T : <<u, t>> \notin OpToRel(<, Nat)
    BY <1>2, WFMin, NatLessThanWellFounded
  <2>2. \A u, t \in Nat : u < t => <<u, t>> \in OpToRel(<, Nat)
    BY DEF OpToRel
  <2>3. \A u, t \in Nat : ~(u < t) => t <= u
    OBVIOUS
  <2> QED BY <1>2, <2>1, <2>2, <2>3
<1>4. PICK c \in Connected : client[c].until = t
  OBVIOUS
<1> QED BY <1>3, <1>4 DEF FirstInLine

\* A client that is due and first in line is matched by some rule, if its peer
\* is here: no combination of what poll said, of what was heard and of how often
\* it was late falls between the rules.
LEMMA SomeRuleMatches ==
    ASSUME TypeOK, Listening, NEW c \in Connected, FirstInLine(c), HeardInOrder(c),
           peer[c].state = "here", client[c].until <= socket.current,
           \/ socket.waiting = "FALSE"
           \/ socket.waiting = "TRUE" /\ socket.connected = MaxClients
    PROVE  \/ Unasked(c) \/ Silent(c) \/ Unprobed(c) \/ Clogged(c) \/ Fresh(c)
           \/ Midway(c) \/ TooLong(c) \/ NotText(c) \/ Complete(c) \/ Overdue(c)
<1>1. /\ client[c] \in ClientFact /\ socket \in SocketFact
      /\ client[c].timeouts \in Nat /\ client[c].codes \in Seq(Code)
      /\ client[c].reads \in Symbol /\ client[c].writes \in Symbol
      /\ client[c].created \in Nat /\ socket.current \in Nat
  BY ConnectedFacts DEF TypeOK, ClientFact, SocketFact
<1>2. CASE \/ client[c].timeouts >= MaxTimeouts
           \/ socket.current - client[c].created > Life
  BY <1>2 DEF Overdue
<1>3. CASE /\ client[c].timeouts < MaxTimeouts
           /\ socket.current - client[c].created <= Life
  <2>1. Turn(c)
    BY <1>3 DEF Turn
  <2>2. CASE client[c].reads = "nil"
    BY <2>1, <2>2 DEF Unasked
  <2>3. CASE client[c].reads = "FALSE"
    BY <1>3, <2>1, <2>3 DEF Silent, Complete
  <2>4. CASE client[c].reads = "TRUE"
    <3>1. Speaks(c)
      BY <2>1, <2>4 DEF Speaks
    <3>2. CASE client[c].codes = << >>
      BY <1>1, <3>1, <3>2 DEF Unprobed, Clogged, Fresh, Symbol
    <3>3. CASE client[c].codes # << >>
      <4>1. Last(client[c].codes) \in Code /\ Len(client[c].codes) \in Nat
        BY <1>1, <3>3 DEF Last
      <4>2. \E code \in Code : Ends(c, code)
        BY <3>3, <4>1 DEF Ends
      <4>3. ~Ends(c, "eof") /\ Len(client[c].codes) <= MaxMessage
        BY DEF HeardInOrder
      <4>4. CASE Ends(c, "text")
        <5>1. ~Ends(c, "newline")
          BY <4>4 DEF Ends
        <5> QED BY <3>1, <4>1, <4>3, <4>4, <5>1, LimitsAssumption DEF Midway, TooLong
      <4>5. CASE Ends(c, "newline")
        BY <4>5 DEF Complete
      <4>6. CASE Ends(c, "high")
        BY <3>1, <4>6 DEF NotText
      <4> QED BY <4>2, <4>3, <4>4, <4>5, <4>6 DEF Code, Char
    <3> QED BY <3>2, <3>3
  <2> QED BY <1>1, <2>2, <2>3, <2>4 DEF Symbol
<1>4. /\ client[c].timeouts >= MaxTimeouts \/ client[c].timeouts < MaxTimeouts
      /\ \/ socket.current - client[c].created > Life
         \/ socket.current - client[c].created <= Life
  BY <1>1, LimitsAssumption
<1> QED BY <1>2, <1>3, <1>4

\* As long as peers stay until they are answered and there is a place for each
\* of them, some rule is on the agenda of a server that listens, so (run) does
\* not return: whatever poll answered, however late everybody is, and whoever is
\* at the head of the line.  (Without either, it may return: no rule matches a
\* client that hung up in the middle of a message, and none polls for clients that
\* sleep while somebody waits for one of their places.)
THEOREM ServerKeepsServing ==
    ASSUME Departures = {}, Cardinality(Client) <= MaxClients
    PROVE  Spec => []KeepsServing
<1> DEFINE Inv == IInv /\ AnswersAreTrue /\ AllHere
<1>1. Inv /\ phase = "running" /\ Listening => Activated
  <2> SUFFICES ASSUME Inv, Listening PROVE Activated
    OBVIOUS
  <2>1. /\ socket \in SocketFact /\ socket.waiting \in Symbol /\ socket.connected \in Int
        /\ socket.connected = Cardinality(Connected) /\ socket.connected <= MaxClients
    BY DEF IInv, TypeOK, SocketFact, CountsClients
  <2>2. CASE socket.waiting = "nil"
    BY <2>2 DEF Activated, Pending
  <2>3. ASSUME socket.waiting = "TRUE", socket.connected = MaxClients PROVE FALSE
    <3>1. Connected \subseteq Client /\ IsFiniteSet(Connected)
      BY ClientAssumption, FS_Subset DEF Connected
    <3>2. Cardinality(Connected) \in Nat /\ Cardinality(Client) \in Nat
      BY <3>1, ClientAssumption, FS_CardinalityType
    <3>3. Cardinality(Connected) <= Cardinality(Client)
      BY <3>1, ClientAssumption, FS_Subset
    <3>4. Cardinality(Connected) = Cardinality(Client)
      BY <2>1, <2>3, <3>2, <3>3, LimitsAssumption
    <3>5. Connected = Client
      BY <3>1, <3>4, ClientAssumption, FS_Subset
    <3>6. queue \in Seq(Client) /\ queue # << >>
      BY <2>3 DEF IInv, TypeOK, WaitingMeansQueued
    <3>7. 1 \in 1..Len(queue) /\ queue[1] \in Client
      BY <3>6
    <3> QED BY <3>5, <3>7 DEF IInv, QueueHoldsWaiting, CountsClients
  <2>4. CASE socket.waiting = "TRUE"
    BY <2>1, <2>3, <2>4, LimitsAssumption DEF Activated, Room
  <2>5. CASE socket.waiting = "FALSE" /\ socket.connected = 0
    BY <2>5 DEF Activated, Quiet
  <2>6. CASE socket.waiting = "FALSE" /\ socket.connected # 0
    <3>1. Connected # {}
      BY <2>1, <2>6, FS_EmptySet
    <3>2. PICK c \in Connected : FirstInLine(c)
      BY <3>1, SomebodyIsFirst DEF IInv
    <3>3. c \in Client /\ client[c].until \in Nat /\ socket.current \in Nat
      BY <2>1, ConnectedFacts DEF IInv, ClientFact, SocketFact
    <3>4. CASE client[c].until > socket.current
      BY <2>6, <3>2, <3>3, <3>4 DEF Activated, Asleep
    <3>5. CASE client[c].until <= socket.current
      <4>1. HeardInOrder(c) /\ peer[c].state = "here"
        BY <3>2, <3>3 DEF AnswersAreTrue, AllHere
      <4>2. \/ Unasked(c) \/ Silent(c) \/ Unprobed(c) \/ Clogged(c) \/ Fresh(c)
            \/ Midway(c) \/ TooLong(c) \/ NotText(c) \/ Complete(c) \/ Overdue(c)
        BY <2>6, <3>2, <3>5, <4>1, SomeRuleMatches DEF IInv
      <4> QED BY <3>3, <4>2 DEF Activated
    <3> QED BY <3>3, <3>4, <3>5
  <2> QED BY <2>1, <2>2, <2>4, <2>5, <2>6 DEF Symbol
<1>2. Init => Inv /\ KeepsServing
  BY InitIInv, InitHonest DEF Init, AllHere, KeepsServing
<1>3. Inv /\ [Next]_vars => Inv'
  BY NextIInv, NextHonest, StaysHere DEF IInv
<1>4. Inv /\ KeepsServing /\ [Next]_vars => KeepsServing'
  <2> SUFFICES ASSUME Inv, KeepsServing, [Next]_vars, phase' = "over" PROVE ~Listening'
    BY DEF KeepsServing
  <2>1. CASE phase = "over"
    <3>1. UNCHANGED socket
      BY <2>1 DEF Next, Fire, BrokenPipe, RunReturns, Peers, Connect, Send, Talking,
                  Depart, Waits, vars
    <3> QED BY <2>1, <3>1 DEF KeepsServing, Listening
  <2>2. CASE phase # "over"
    <3>1. RunReturns
      BY <2>2 DEF Next, Fire, BrokenPipe, RunReturns, Peers, Connect, Send, Talking,
                  Depart, Waits, vars
    <3> QED BY <1>1, <3>1 DEF RunReturns, Listening
  <2> QED BY <2>1, <2>2
<1> HIDE DEF Inv
<1> QED BY <1>2, <1>3, <1>4, PTL DEF Spec

(***************************************************************************)
(* The load generator.                                                     *)
(***************************************************************************)

-----------------------------------------------------------------------------
(* Facts, and the sets of requests that are counted.                       *)

\* The requests whose connection came about.
Named == {id \in UnderWay : request[id].name}

LEMMA RulesAreDoing ==
    /\ Rules \in Doing /\ Rules.at = "rules"
    /\ \A at \in {"rules", "stopped", "reported", "over"} :
          [Rules EXCEPT !.at = at] \in Doing /\ [Rules EXCEPT !.at = at].at = at
BY DEF Rules, Doing

LEMMA IdsAreFinite ==
    /\ IsFiniteSet(Id) /\ Id \subseteq Nat \ {0}
    /\ IsFiniteSet(UnderWay) /\ UnderWay \subseteq Id
    /\ IsFiniteSet(Named) /\ Named \subseteq UnderWay
<1>1. IsFiniteSet(Id) /\ Id \subseteq Nat \ {0}
  BY LoadAssumption, FS_Interval DEF Id
<1>2. UnderWay \subseteq Id /\ Named \subseteq UnderWay
  BY DEF UnderWay, Named
<1> QED BY <1>1, <1>2, FS_Subset

\* A rule that replaces the time it matched leaves the time known.
LEMMA TickKnown ==
    ASSUME LoadTypeOK, TimeIsKnown, NEW t \in times, NEW n \in Nat, n >= clock, Tick(t, n)
    PROVE  times' \subseteq Nat /\ clock' \in Nat /\ TimeIsKnown'
BY DEF LoadTypeOK, TimeIsKnown, Tick

LEMMA LaterIsLater == LoadTypeOK => \A n \in Later : n \in Nat /\ n >= clock
BY DEF LoadTypeOK, Later

\* A rule changes what is noted of one request.
LEMMA NotedOne ==
    ASSUME LoadTypeOK, NEW id \in Id, NEW e \in Note, noted' = [noted EXCEPT ![id] = e]
    PROVE  /\ noted' \in [Id -> Note] /\ noted'[id] = e
           /\ \A j \in Id \ {id} : noted'[j] = noted[j]
BY DEF LoadTypeOK

\* ... and the request fact of one.
LEMMA RequestedOne ==
    ASSUME LoadTypeOK, NEW id \in Id, NEW e \in Request, request' = [request EXCEPT ![id] = e]
    PROVE  /\ request' \in [Id -> Request] /\ request'[id] = e
           /\ \A j \in Id \ {id} : request'[j] = request[j]
BY DEF LoadTypeOK

-----------------------------------------------------------------------------
(* Steps that neither start a request nor end one.                         *)

\* They leave the counters and the owners of sockets alone, and poll and write
\* for requests with a connection only.
LEMMA QuietStep ==
    ASSUME LoadInv, LoadTypeOK', TimeIsKnown', UNCHANGED <<counts, world>>,
           \A id \in Id :
              /\ noted'[id].begun = noted[id].begun /\ noted'[id].over = noted[id].over
              /\ noted'[id].message = noted[id].message
              /\ request'[id].name = request[id].name
              /\ noted'[id] = noted[id] \/ id \in Named,
           DOMAIN sockets' = DOMAIN sockets,
           \A k \in DOMAIN sockets : sockets'[k].of = sockets[k].of,
           doing'.at = "reads" => doing'.id \in Named /\ doing'.t \in times',
           (doing'.at = "stopped") <=> (doing.at = "stopped")
    PROVE  LoadInv'
<1>1. UnderWay' = UnderWay
  BY DEF UnderWay
<1>2. Named' = Named /\ Named \subseteq UnderWay
  BY <1>1 DEF Named, UnderWay
<1>3. RequestsAddUp'
  BY <1>1 DEF LoadInv, RequestsAddUp
<1>4. NameHasASocket'
  <2>1. sockets \in Seq(Router) /\ sockets' \in Seq(Router)
    BY DEF LoadInv, LoadTypeOK
  <2>2. Len(sockets') = Len(sockets)
    BY <2>1
  <2>3. Cardinality(Named) = Len(sockets)
    BY DEF LoadInv, NameHasASocket, Named
  <2>4. Cardinality(Named') = Len(sockets')
    BY <1>2, <2>2, <2>3
  <2> QED BY <2>4 DEF NameHasASocket, Named
<1>5. AnswersAreRead'
  BY DEF LoadInv, AnswersAreRead
<1>6. RequestsFit'
  <2>1. \A id \in Id :
          /\ noted'[id].begun <=> id <= counts'.started
          /\ ~noted'[id].begun => noted'[id] = NothingNoted
          /\ noted'[id].message <= counts'.started
    BY DEF LoadInv, RequestsFit, Named, UnderWay
  <2>2. \A id \in UnderWay :
          noted'[id].ready \/ noted'[id].unready # {} \/ noted'[id].written => request'[id].name
    BY DEF LoadInv, RequestsFit, Named, UnderWay
  <2>3. doing'.at = "reads" =>
          doing'.id \in UnderWay /\ request'[doing'.id].name /\ doing'.t \in times'
    BY DEF Named, UnderWay
  <2>4. \A k \in DOMAIN sockets' :
          /\ sockets'[k].of <= counts'.started
          /\ \A j \in DOMAIN sockets' : sockets'[j].of = sockets'[k].of => j = k
          /\ \A id \in Id : noted'[id].message # sockets'[k].of
          /\ world'.most = 1 => sockets'[k].of \in UnderWay
    BY DEF LoadInv, RequestsFit
  <2> QED BY <1>1, <2>1, <2>2, <2>3, <2>4 DEF RequestsFit
<1> QED BY <1>3, <1>4, <1>5, <1>6 DEF LoadInv

\* A rule about a request matches while rules fire.
LEMMA ConcernsOne ==
    ASSUME LoadInv, NEW id, Concerns(id)
    PROVE  /\ id \in Id /\ id \in UnderWay /\ doing = Rules /\ doing.at = "rules"
           /\ noted[id] \in Note /\ request[id] \in Request
           /\ noted[id].begun /\ ~noted[id].over
BY RulesAreDoing DEF Concerns, UnderWay, LoadInv, LoadTypeOK

\* The steps that note something of a request, and put it off, or not.
LEMMA NotingStep ==
    ASSUME LoadInv, NEW id \in Named, doing = Rules, times' \subseteq Nat, clock' \in Nat,
           TimeIsKnown', NEW e \in Note, noted' = [noted EXCEPT ![id] = e],
           e.begun = noted[id].begun, e.over = noted[id].over, e.message = noted[id].message,
           NEW q \in Request, request' = [request EXCEPT ![id] = q], q.name = request[id].name,
           sockets' \in Seq(Router), DOMAIN sockets' = DOMAIN sockets,
           \A k \in DOMAIN sockets : sockets'[k].of = sockets[k].of,
           UNCHANGED <<counts, doing, world>>
    PROVE  LoadInv'
<1>1. id \in Id /\ LoadTypeOK
  BY DEF Named, UnderWay, LoadInv
<1>2. /\ noted' \in [Id -> Note] /\ noted'[id] = e
      /\ \A j \in Id \ {id} : noted'[j] = noted[j]
  BY <1>1, NotedOne
<1>3. /\ request' \in [Id -> Request] /\ request'[id] = q
      /\ \A j \in Id \ {id} : request'[j] = request[j]
  BY <1>1, RequestedOne
<1>4. LoadTypeOK'
  BY <1>1, <1>2, <1>3 DEF LoadTypeOK
<1>5. doing'.at # "reads"
  BY RulesAreDoing
<1> QED BY <1>1, <1>2, <1>3, <1>4, <1>5, QuietStep

\* Sleeping until the request is due.
LEMMA BackoffInv ==
    ASSUME LoadInv, NEW id, BackoffAndSleep(id) PROVE LoadInv'
<1>1. /\ id \in Id /\ doing.at = "rules" /\ request[id] \in Request
      /\ UNCHANGED <<counts, request, noted, sockets, doing, world>>
  BY ConcernsOne DEF BackoffAndSleep
<1>2. PICK t \in times : ~Due(id, t) /\ Tick(t, clock + request[id].until - t)
  BY DEF BackoffAndSleep
<1>3. LoadTypeOK /\ TimeIsKnown /\ t \in Nat /\ clock \in Nat /\ request[id].until \in Nat
  BY <1>1 DEF LoadInv, LoadTypeOK, Request
<1>4. clock + request[id].until - t \in Nat /\ clock + request[id].until - t >= clock
  BY <1>2, <1>3 DEF Due
<1>5. times' \subseteq Nat /\ clock' \in Nat /\ TimeIsKnown'
  BY <1>2, <1>3, <1>4, TickKnown
<1>6. LoadTypeOK'
  BY <1>1, <1>3, <1>5 DEF LoadTypeOK
<1> QED BY <1>1, <1>5, <1>6, QuietStep

\* A poll, and its answer noted.
LEMMA NoteInv ==
    ASSUME LoadInv, NEW id \in Named, doing = Rules, NEW t \in times, NEW n \in Later,
           NEW answer \in BOOLEAN, NoteReady(id, t, n, answer) \/ NoteData(id, t, n, answer)
    PROVE  LoadInv'
<1>1. /\ LoadTypeOK /\ TimeIsKnown /\ n \in Nat /\ n >= clock /\ Tick(t, n)
      /\ id \in Id /\ noted[id] \in Note /\ request[id] \in Request
      /\ noted \in [Id -> Note] /\ request \in [Id -> Request] /\ sockets \in Seq(Router)
      /\ UNCHANGED <<counts, request, sockets, doing, world>>
  BY LaterIsLater DEF LoadInv, LoadTypeOK, Named, UnderWay, NoteReady, NoteData
<1>2. times' \subseteq Nat /\ clock' \in Nat /\ TimeIsKnown'
  BY <1>1, TickKnown
<1>3. PICK e \in Note : /\ noted' = [noted EXCEPT ![id] = e]
                        /\ e.begun = noted[id].begun /\ e.over = noted[id].over
                        /\ e.message = noted[id].message
  <2>1. CASE NoteReady(id, t, n, answer) /\ answer
    <3> DEFINE e == [noted[id] EXCEPT !.ready = TRUE]
    <3>1. noted' = [noted EXCEPT ![id] = e]
      BY <1>1, <2>1 DEF NoteReady
    <3>2. /\ e \in Note /\ e.begun = noted[id].begun /\ e.over = noted[id].over
          /\ e.message = noted[id].message
      BY <1>1 DEF Note
    <3> QED BY <3>1, <3>2
  <2>2. CASE NoteReady(id, t, n, answer) /\ ~answer
    <3> DEFINE e == [noted[id] EXCEPT !.unready = @ \cup {n}]
    <3>1. noted' = [noted EXCEPT ![id] = e]
      BY <1>1, <2>2 DEF NoteReady
    <3>2. /\ e \in Note /\ e.begun = noted[id].begun /\ e.over = noted[id].over
          /\ e.message = noted[id].message
      BY <1>1 DEF Note
    <3> QED BY <3>1, <3>2
  <2>3. CASE NoteData(id, t, n, answer)
    <3> DEFINE d == IF answer THEN "TRUE" ELSE "FALSE"
               e == [noted[id] EXCEPT !.data = d]
    <3>1. noted' = [noted EXCEPT ![id] = e]
      BY <1>1, <2>3 DEF NoteData
    <3>2. /\ e \in Note /\ e.begun = noted[id].begun /\ e.over = noted[id].over
          /\ e.message = noted[id].message
      BY <1>1 DEF Note
    <3> QED BY <3>1, <3>2
  <2> QED BY <2>1, <2>2, <2>3
<1>4. request' = [request EXCEPT ![id] = request[id]]
  BY <1>1
<1> QED BY <1>1, <1>2, <1>3, <1>4, NotingStep

\* A rule about a request that was polled is about one with a connection.
LEMMA PolledIsNamed ==
    ASSUME LoadInv, NEW id, Concerns(id),
           \/ request[id].name \/ noted[id].ready \/ noted[id].written
           \/ noted[id].unready # {}
    PROVE  id \in Named /\ doing = Rules
BY ConcernsOne DEF LoadInv, RequestsFit, Named

LEMMA PollInv ==
    ASSUME LoadInv, NEW id,
           \/ CheckIfServerReadyToReceiveData(id)
           \/ CheckIfServerReadyToReceiveDataAfterDelay(id)
           \/ CheckIfServerHasSentUsData(id) \/ CheckIfServerHasSentUsDataAfterDelay(id)
    PROVE  LoadInv'
<1>1. id \in Named /\ doing = Rules
  BY PolledIsNamed
     DEF CheckIfServerReadyToReceiveData, CheckIfServerReadyToReceiveDataAfterDelay,
         CheckIfServerHasSentUsData, CheckIfServerHasSentUsDataAfterDelay
<1>2. TakesText(id) \subseteq BOOLEAN /\ HasText(id) \subseteq BOOLEAN
  BY DEF TakesText, HasText
<1>3. \E t \in times, n \in Later, answer \in BOOLEAN :
         NoteReady(id, t, n, answer) \/ NoteData(id, t, n, answer)
  BY <1>2
     DEF CheckIfServerReadyToReceiveData, CheckIfServerReadyToReceiveDataAfterDelay,
         CheckIfServerHasSentUsData, CheckIfServerHasSentUsDataAfterDelay
<1> QED BY <1>1, <1>3, NoteInv

\* The next delay is a Fibonacci number.
LEMMA RetriedFact ==
    ASSUME LoadTypeOK, NEW id \in Id, NEW n \in Nat, request' = Retried(id, n)
    PROVE  \E q \in Request : /\ request' = [request EXCEPT ![id] = q]
                              /\ q.name = request[id].name
<1> DEFINE q == [request[id] EXCEPT !.prev = request[id].retry,
                                    !.retry = request[id].prev + request[id].retry,
                                    !.until = n + request[id].retry]
<1>1. request \in [Id -> Request] /\ request[id] \in Request
  BY DEF LoadTypeOK
<1>2. request' = [request EXCEPT ![id] = q]
  BY <1>1 DEF Retried
<1>3. q \in Request /\ q.name = request[id].name
  <2>1. request[id].prev \in Nat /\ request[id].retry \in Nat
    BY <1>1 DEF Request
  <2> DEFINE retry == request[id].prev + request[id].retry
             until == n + request[id].retry
  <2>2. retry \in Nat /\ until \in Nat
    BY <2>1
  <2> HIDE DEF retry, until
  <2>3. q = [request[id] EXCEPT !.prev = request[id].retry, !.retry = retry, !.until = until]
    BY DEF retry, until
  <2> QED BY <1>1, <2>1, <2>2, <2>3 DEF Request
<1> HIDE DEF q
<1> QED BY <1>2, <1>3

LEMMA RetryInv ==
    ASSUME LoadInv, NEW id,
           RetryCheckingForReadyToReceive(id) \/ RetryCheckingForData(id)
    PROVE  LoadInv'
<1>1. id \in Named /\ doing = Rules
  BY PolledIsNamed DEF RetryCheckingForReadyToReceive, RetryCheckingForData
<1>2. /\ LoadTypeOK /\ TimeIsKnown /\ id \in Id /\ noted[id] \in Note
      /\ noted \in [Id -> Note] /\ sockets \in Seq(Router)
      /\ UNCHANGED <<counts, sockets, doing, world>>
  BY <1>1 DEF LoadInv, LoadTypeOK, Named, UnderWay, RetryCheckingForReadyToReceive,
              RetryCheckingForData
<1>3. CASE RetryCheckingForReadyToReceive(id)
  <2>1. PICK t \in times, n \in Later, at \in noted[id].unready :
          /\ Tick(t, n)
          /\ noted' = [noted EXCEPT ![id].unready = @ \ {at}]
          /\ request' = Retried(id, n)
    BY <1>3 DEF RetryCheckingForReadyToReceive
  <2> DEFINE e == [noted[id] EXCEPT !.unready = @ \ {at}]
  <2>2. noted' = [noted EXCEPT ![id] = e]
    BY <1>2, <2>1
  <2>3. /\ e \in Note /\ e.begun = noted[id].begun /\ e.over = noted[id].over
        /\ e.message = noted[id].message
    BY <1>2 DEF Note
  <2> HIDE DEF e
  <2>4. n \in Nat /\ n >= clock
    BY <1>2, LaterIsLater
  <2>5. times' \subseteq Nat /\ clock' \in Nat /\ TimeIsKnown'
    BY <1>2, <2>1, <2>4, TickKnown
  <2>6. PICK q \in Request :
          request' = [request EXCEPT ![id] = q] /\ q.name = request[id].name
    BY <1>2, <2>1, <2>4, RetriedFact
  <2> QED BY <1>1, <1>2, <2>2, <2>3, <2>5, <2>6, NotingStep
<1>4. CASE RetryCheckingForData(id)
  <2>1. PICK n \in Later :
          /\ times' = times \cup {n} /\ clock' = n
          /\ noted' = [noted EXCEPT ![id].data = "none"]
          /\ request' = Retried(id, n)
    BY <1>4 DEF RetryCheckingForData
  <2> DEFINE e == [noted[id] EXCEPT !.data = "none"]
  <2>2. noted' = [noted EXCEPT ![id] = e]
    BY <1>2, <2>1
  <2>3. /\ e \in Note /\ e.begun = noted[id].begun /\ e.over = noted[id].over
        /\ e.message = noted[id].message
    BY <1>2 DEF Note
  <2> HIDE DEF e
  <2>4. n \in Nat /\ n >= clock
    BY <1>2, LaterIsLater
  <2>5. times' \subseteq Nat /\ clock' \in Nat /\ TimeIsKnown'
    BY <1>2, <2>1, <2>4 DEF TimeIsKnown, LoadTypeOK
  <2>6. PICK q \in Request :
          request' = [request EXCEPT ![id] = q] /\ q.name = request[id].name
    BY <1>2, <2>1, <2>4, RetriedFact
  <2> QED BY <1>1, <1>2, <2>2, <2>3, <2>5, <2>6, NotingStep
<1> QED BY <1>3, <1>4

\* A request with a connection has a socket to write to, its own or not.
LEMMA NamedHasASocket ==
    ASSUME LoadInv, NEW id \in Named
    PROVE  /\ sockets \in Seq(Router) /\ sockets # << >> /\ 1 \in DOMAIN sockets
           /\ Head(sockets) = sockets[1]
<1>1. Cardinality(Named) # 0 /\ Cardinality(Named) \in Nat
  BY IdsAreFinite, FS_EmptySet, FS_CardinalityType
<1>2. sockets \in Seq(Router) /\ Len(sockets) = Cardinality(Named)
  BY DEF LoadInv, LoadTypeOK, NameHasASocket, Named
<1> QED BY <1>1, <1>2

LEMMA SendInv ==
    ASSUME LoadInv, NEW id, SendMessageToSuccessfulRequest(id) PROVE LoadInv'
<1>1. id \in Named /\ doing = Rules
  BY PolledIsNamed DEF SendMessageToSuccessfulRequest
<1>2. /\ LoadTypeOK /\ TimeIsKnown /\ id \in Id /\ noted[id] \in Note /\ request[id] \in Request
      /\ noted \in [Id -> Note] /\ request \in [Id -> Request]
      /\ UNCHANGED <<counts, doing, world>>
  BY <1>1 DEF LoadInv, LoadTypeOK, Named, UnderWay, SendMessageToSuccessfulRequest
<1>3. PICK t \in times, n \in Later :
        /\ Tick(t, n)
        /\ noted' = [noted EXCEPT ![id].written = TRUE]
        /\ request' = [request EXCEPT ![id].until = n]
  BY DEF SendMessageToSuccessfulRequest
<1>4. n \in Nat /\ n >= clock
  BY <1>2, LaterIsLater
<1> DEFINE e == [noted[id] EXCEPT !.written = TRUE]
           q == [request[id] EXCEPT !.until = n]
           r == [sockets[1] EXCEPT !.writes = @ + 1]
<1>5. noted' = [noted EXCEPT ![id] = e] /\ request' = [request EXCEPT ![id] = q]
  BY <1>2, <1>3
<1>6. /\ e \in Note /\ e.begun = noted[id].begun /\ e.over = noted[id].over
      /\ e.message = noted[id].message
  BY <1>2 DEF Note
<1>7. q \in Request /\ q.name = request[id].name
  BY <1>2, <1>4 DEF Request
<1>8. sockets \in Seq(Router) /\ 1 \in DOMAIN sockets
  BY <1>1, NamedHasASocket
<1>9. sockets' = [sockets EXCEPT ![1] = r]
  BY <1>8 DEF SendMessageToSuccessfulRequest
<1>10. sockets[1] \in Router
  BY <1>8
<1>11. r \in Router /\ r.of = sockets[1].of
  BY <1>10 DEF Router
<1> HIDE DEF e, q, r
<1>12. /\ sockets' \in Seq(Router) /\ DOMAIN sockets' = DOMAIN sockets
       /\ \A k \in DOMAIN sockets : sockets'[k].of = sockets[k].of
  BY <1>8, <1>9, <1>11
<1>13. times' \subseteq Nat /\ clock' \in Nat /\ TimeIsKnown'
  BY <1>2, <1>3, <1>4, TickKnown
<1> QED BY <1>1, <1>2, <1>5, <1>6, <1>7, <1>12, <1>13, NotingStep

\* Nothing but the server's end of a connection, or what (run) is at.
LEMMA StillInv ==
    ASSUME LoadInv, UNCHANGED <<counts, times, request, noted, clock, world>>,
           sockets' \in Seq(Router), DOMAIN sockets' = DOMAIN sockets,
           \A k \in DOMAIN sockets : sockets'[k].of = sockets[k].of,
           doing' \in Doing,
           doing' = doing \/ doing'.at # "reads" \/ (doing'.id \in Named /\ doing'.t \in times),
           doing' = doing \/ (doing.at # "stopped" /\ doing'.at # "stopped")
    PROVE  LoadInv'
<1>1. LoadTypeOK' /\ TimeIsKnown'
  BY DEF LoadInv, LoadTypeOK, TimeIsKnown
<1>2. doing'.at = "reads" => doing'.id \in Named /\ doing'.t \in times'
  BY DEF LoadInv, RequestsFit, Named
<1> QED BY <1>1, <1>2, QuietStep

LEMMA ReadFromServerInv ==
    ASSUME LoadInv, NEW id, ReadFromServer(id) PROVE LoadInv'
<1>1. id \in Named /\ doing = Rules /\ id \in Id
  BY PolledIsNamed DEF ReadFromServer, Named, UnderWay
<1>2. PICK t \in times : doing' = [at |-> "reads", id |-> id, t |-> t]
  BY DEF ReadFromServer
<1>3. /\ doing' \in Doing /\ doing'.id = id /\ doing'.t = t
      /\ doing.at # "stopped" /\ doing'.at # "stopped"
  BY <1>1, <1>2, RulesAreDoing DEF Doing, LoadInv, LoadTypeOK
<1>4. UNCHANGED <<counts, times, request, noted, sockets, clock, world>>
  BY DEF ReadFromServer
<1>5. sockets \in Seq(Router)
  BY DEF LoadInv, LoadTypeOK
<1> QED BY <1>1, <1>3, <1>4, <1>5, StillInv

LEMMA ServerInv ==
    ASSUME LoadInv, NEW k, ServerAnswers(k) \/ ServerLeaves(k) PROVE LoadInv'
<1>1. /\ k \in DOMAIN sockets /\ sockets \in Seq(Router) /\ doing \in Doing
      /\ UNCHANGED <<counts, times, request, noted, clock, doing, world>>
  BY DEF ServerAnswers, ServerLeaves, LoadInv, LoadTypeOK
<1>2. PICK end \in {"answered", "left"} : sockets' = [sockets EXCEPT ![k].end = end]
  BY DEF ServerAnswers, ServerLeaves
<1> DEFINE r == [sockets[k] EXCEPT !.end = end]
<1>3. sockets' = [sockets EXCEPT ![k] = r]
  BY <1>1, <1>2
<1>4. sockets[k] \in Router
  BY <1>1
<1>5. r \in Router /\ r.of = sockets[k].of
  BY <1>4 DEF Router
<1> HIDE DEF r
<1>6. /\ sockets' \in Seq(Router) /\ DOMAIN sockets' = DOMAIN sockets
      /\ \A j \in DOMAIN sockets : sockets'[j].of = sockets[j].of
  BY <1>1, <1>3, <1>5
<1> QED BY <1>1, <1>6, StillInv

\* The report, an empty agenda, and nothing at all.
LEMMA EndInv ==
    ASSUME LoadInv, UNCHANGED <<counts, times, request, noted, sockets, clock, world>>,
           \/ doing' = doing
           \/ /\ doing = Rules
              /\ doing' \in {[Rules EXCEPT !.at = "reported"], [Rules EXCEPT !.at = "over"]}
    PROVE  LoadInv'
<1>1. doing \in Doing /\ sockets \in Seq(Router)
  BY DEF LoadInv, LoadTypeOK
<1>2. /\ doing' \in Doing
      /\ \/ doing' = doing
         \/ doing.at # "stopped" /\ doing'.at # "stopped" /\ doing'.at # "reads"
  BY <1>1, RulesAreDoing
<1> QED BY <1>1, <1>2, StillInv

-----------------------------------------------------------------------------
(* A request starts.                                                       *)

LEMMA StartInv ==
    ASSUME LoadInv, StartRequest PROVE LoadInv'
<1> DEFINE id == counts.started + 1
<1>1. /\ LoadTypeOK /\ TimeIsKnown /\ counts \in Counts /\ world \in Worlds
      /\ noted \in [Id -> Note] /\ request \in [Id -> Request] /\ sockets \in Seq(Router)
      /\ doing \in Doing /\ doing.at = "rules" /\ doing' = doing /\ world' = world
      /\ counts.unstarted > 0
  BY RulesAreDoing DEF StartRequest, LoadInv, LoadTypeOK
<1> DEFINE running == Cardinality(UnderWay)
<1>2. /\ counts.unstarted \in Nat /\ counts.started \in Nat /\ running \in Nat
      /\ world.most \in Nat
      /\ counts.unstarted + counts.started = Requests
      /\ counts.running = {running} /\ counts.finished = {counts.started - running}
  BY <1>1, LoadAssumption, IdsAreFinite, FS_CardinalityType DEF Counts, LoadInv, RequestsAddUp
<1>3. id \in Id /\ id \in Nat /\ id # 0
  BY <1>1, <1>2, LoadAssumption DEF Id
<1> HIDE DEF running
<1>4. PICK t \in times, n \in Later, connected \in {TRUE, world.sound} :
        /\ Tick(t, n) /\ running < world.most
        /\ counts' = [counts EXCEPT !.unstarted = @ - 1, !.started = id,
                                    !.running = {running + 1}]
        /\ request' = [request EXCEPT ![id] =
                          [until |-> n, name |-> connected, prev |-> 0, retry |-> 1]]
        /\ noted' = [noted EXCEPT ![id].begun = TRUE]
        /\ sockets' = IF connected
                      THEN <<[of |-> id, writes |-> 0, end |-> "open"]>> \o sockets
                      ELSE sockets
  BY <1>2 DEF StartRequest
<1>5. connected \in BOOLEAN /\ n \in Nat /\ n >= clock
  BY <1>1, LaterIsLater, LoadAssumption
<1>6. times' \subseteq Nat /\ clock' \in Nat /\ TimeIsKnown'
  BY <1>1, <1>4, <1>5, TickKnown
<1>7. /\ counts' \in Counts /\ counts'.unstarted = counts.unstarted - 1
      /\ counts'.started = id /\ counts'.running = {running + 1}
      /\ counts'.finished = counts.finished
  <2> DEFINE u == counts.unstarted - 1
             r == {running + 1}
  <2>1. u \in Nat /\ r \in SUBSET Nat /\ id \in Nat
    BY <1>1, <1>2, <1>3
  <2>2. counts' = [counts EXCEPT !.unstarted = u, !.started = id, !.running = r]
    BY <1>4
  <2> HIDE DEF u, r, id
  <2>3. /\ counts' \in Counts /\ counts'.unstarted = u /\ counts'.started = id
        /\ counts'.running = r /\ counts'.finished = counts.finished
    BY <1>1, <2>1, <2>2 DEF Counts
  <2> QED BY <2>3 DEF u, r
<1> HIDE DEF id
<1>8. id = counts.started + 1
  BY DEF id
<1>9. noted[id] = NothingNoted /\ \A j \in Id : noted[j].begun => j # id
  BY <1>2, <1>3, <1>8, IdsAreFinite DEF LoadInv, RequestsFit
<1> DEFINE e == [NothingNoted EXCEPT !.begun = TRUE]
           q == [until |-> n, name |-> connected, prev |-> 0, retry |-> 1]
           s == [of |-> id, writes |-> 0, end |-> "open"]
<1>10. /\ e \in Note /\ e.begun /\ ~e.over /\ e.message = 0 /\ ~e.ready /\ ~e.written
       /\ e.unready = {}
  BY DEF NothingNoted, Note
<1>11. q \in Request /\ q.name = connected
  BY <1>5 DEF Request
<1>12. s \in Router /\ s.of = id
  BY <1>3 DEF Router
<1>13. /\ noted' = [noted EXCEPT ![id] = e]
       /\ request' = [request EXCEPT ![id] = q]
       /\ sockets' = IF connected THEN <<s>> \o sockets ELSE sockets
  BY <1>1, <1>3, <1>4, <1>9
<1> HIDE DEF e, q, s
<1>14. /\ noted' \in [Id -> Note] /\ noted'[id] = e
       /\ \A j \in Id \ {id} : noted'[j] = noted[j]
  BY <1>1, <1>3, <1>10, <1>13, NotedOne
<1>15. /\ request' \in [Id -> Request] /\ request'[id] = q
       /\ \A j \in Id \ {id} : request'[j] = request[j]
  BY <1>1, <1>3, <1>11, <1>13, RequestedOne
<1>16. /\ sockets' \in Seq(Router)
       /\ Len(sockets') = Len(sockets) + (IF connected THEN 1 ELSE 0)
       /\ \A k \in DOMAIN sockets' :
             \/ connected /\ k = 1 /\ sockets'[k].of = id
             \/ connected /\ k - 1 \in DOMAIN sockets /\ sockets'[k] = sockets[k - 1]
             \/ ~connected /\ k \in DOMAIN sockets /\ sockets'[k] = sockets[k]
  <2>1. CASE connected
    <3>1. <<s>> \in Seq(Router) /\ Len(<<s>>) = 1 /\ <<s>>[1] = s
      BY <1>12
    <3>2. /\ sockets' \in Seq(Router) /\ Len(sockets') = 1 + Len(sockets)
          /\ Len(sockets) \in Nat /\ sockets'[1] = s
          /\ \A k \in 1..Len(sockets') : k # 1 => sockets'[k] = sockets[k - 1]
      BY <1>1, <1>13, <2>1, <3>1
    <3>3. DOMAIN sockets' = 1..(Len(sockets) + 1) /\ DOMAIN sockets = 1..Len(sockets)
      BY <1>1, <3>2
    <3> QED BY <1>12, <2>1, <3>2, <3>3
  <2>2. CASE ~connected
    <3>1. sockets' = sockets /\ Len(sockets) \in Nat
      BY <1>1, <1>13, <2>2
    <3> QED BY <1>1, <2>2, <3>1
  <2> QED BY <1>5, <2>1, <2>2
<1>17. LoadTypeOK'
  BY <1>1, <1>6, <1>7, <1>14, <1>15, <1>16 DEF LoadTypeOK
<1>18. /\ UnderWay' = UnderWay \cup {id} /\ id \notin UnderWay
       /\ Named' = (IF connected THEN Named \cup {id} ELSE Named) /\ id \notin Named
  <2>1. UnderWay' = UnderWay \cup {id} /\ id \notin UnderWay
    BY <1>3, <1>9, <1>10, <1>14 DEF UnderWay
  <2>2. \A j \in Id \ {id} : j \in Named' <=> j \in Named
    BY <1>15, <2>1 DEF Named, UnderWay
  <2>3. (id \in Named' <=> connected) /\ id \notin Named
    BY <1>11, <1>15, <2>1 DEF Named
  <2>4. Named' \subseteq Id /\ Named \subseteq Id
    BY DEF Named, UnderWay
  <2>5. Named' = (IF connected THEN Named \cup {id} ELSE Named)
    <3>1. CASE connected
      <4>1. Named' = Named \cup {id}
        BY <1>3, <2>2, <2>3, <2>4, <3>1
      <4> QED BY <3>1, <4>1
    <3>2. CASE ~connected
      <4>1. Named' = Named
        BY <2>2, <2>3, <2>4, <3>2
      <4> QED BY <3>2, <4>1
    <3> QED BY <3>1, <3>2
  <2> QED BY <2>1, <2>3, <2>5
<1>19. RequestsAddUp'
  <2>1. Cardinality(UnderWay') = running + 1
    BY <1>18, IdsAreFinite, FS_AddElement DEF running
  <2>2. counts'.running = {Cardinality(UnderWay')}
    BY <1>7, <2>1
  <2>3. counts'.unstarted + counts'.started = Requests
    BY <1>2, <1>7, <1>8
  <2>4. id - (running + 1) = counts.started - running
    BY <1>2, <1>8
  <2>5. counts'.finished = {counts'.started - Cardinality(UnderWay')}
    BY <1>2, <1>7, <2>1, <2>4
  <2>6. running + 1 <= world.most
    BY <1>2, <1>4
  <2>7. Cardinality(UnderWay') <= world'.most
    BY <1>1, <2>1, <2>6
  <2>8. doing'.at # "stopped"
    BY <1>1
  <2> QED BY <2>2, <2>3, <2>5, <2>7, <2>8 DEF RequestsAddUp
<1>20. NameHasASocket'
  <2>1. Cardinality(Named) = Len(sockets)
    BY DEF LoadInv, NameHasASocket, Named
  <2>2. connected => Cardinality(Named') = Cardinality(Named) + 1
    BY <1>18, IdsAreFinite, FS_AddElement
  <2>3. ~connected => Named' = Named
    BY <1>18
  <2>4. Len(sockets) \in Nat
    BY <1>1
  <2>5. Cardinality(Named') = Len(sockets')
    BY <1>5, <1>16, <2>1, <2>2, <2>3, <2>4
  <2> QED BY <2>5 DEF NameHasASocket, Named
<1>21. AnswersAreRead'
  <2>1. \A j \in Id : noted'[j].message # 0 => j # id /\ noted'[j].message = noted[j].message
    BY <1>10, <1>14
  <2>2. \A j \in Id \ {id} : noted'[j].message = noted[j].message
    BY <1>14
  <2>3. noted'[id].message = 0
    BY <1>10, <1>14
  <2> QED BY <1>1, <2>1, <2>2, <2>3 DEF LoadInv, AnswersAreRead
<1>22. RequestsFit'
  <2>1. ASSUME NEW j \in Id
        PROVE  /\ noted'[j].begun <=> j <= counts'.started
               /\ ~noted'[j].begun => noted'[j] = NothingNoted
               /\ noted'[j].message <= counts'.started
    <3>1. CASE j = id
      BY <1>3, <1>7, <1>10, <1>14, <3>1
    <3>2. CASE j # id
      <4>1. noted'[j] = noted[j] /\ noted[j] \in Note
        BY <1>1, <1>14, <3>2
      <4>2. j \in Nat
        BY LoadAssumption DEF Id
      <4>3. noted[j].message \in Nat
        <5>1. noted[j].message \in Id \cup {0}
          BY <4>1 DEF Note
        <5> QED BY <5>1, LoadAssumption DEF Id
      <4> QED BY <1>2, <1>7, <1>8, <3>2, <4>1, <4>2, <4>3 DEF LoadInv, RequestsFit
    <3> QED BY <3>1, <3>2
  <2>2. ASSUME NEW j \in UnderWay'
        PROVE  noted'[j].ready \/ noted'[j].unready # {} \/ noted'[j].written
                 => request'[j].name
    <3>1. CASE j = id
      BY <1>10, <1>14, <3>1
    <3>2. CASE j # id
      BY <1>14, <1>15, <1>18, <3>2 DEF LoadInv, RequestsFit, UnderWay
    <3> QED BY <3>1, <3>2
  <2>3. ASSUME NEW k \in DOMAIN sockets'
        PROVE  /\ sockets'[k].of <= counts'.started
               /\ \A j \in DOMAIN sockets' : sockets'[j].of = sockets'[k].of => j = k
               /\ \A i \in Id : noted'[i].message # sockets'[k].of
               /\ world'.most = 1 => sockets'[k].of \in UnderWay'
    <3>1. /\ \A j \in DOMAIN sockets : /\ sockets[j].of <= counts.started
                                       /\ sockets[j].of \in Nat /\ sockets[j].of # 0
          /\ \A i \in Id : noted[i].message <= counts.started /\ noted[i].message \in Nat
          /\ DOMAIN sockets' = 1..Len(sockets') /\ DOMAIN sockets = 1..Len(sockets)
      <4>1. \A j \in DOMAIN sockets : sockets[j] \in Router
        BY <1>1
      <4>2. \A i \in Id : noted[i] \in Note
        BY <1>1
      <4>3. DOMAIN sockets' = 1..Len(sockets') /\ DOMAIN sockets = 1..Len(sockets)
        BY <1>1, <1>16
      <4>4. \A j \in DOMAIN sockets : /\ sockets[j].of <= counts.started
                                      /\ sockets[j].of \in Nat /\ sockets[j].of # 0
        BY <4>1, IdsAreFinite DEF LoadInv, RequestsFit, Router
      <4>5. \A i \in Id : noted[i].message <= counts.started /\ noted[i].message \in Nat
        <5>1. \A i \in Id : noted[i].message \in Nat
          <6>1. \A i \in Id : noted[i].message \in Id \cup {0}
            BY <4>2 DEF Note
          <6>2. \A x \in Id \cup {0} : x \in Nat
            BY IdsAreFinite
          <6> HIDE DEF Id
          <6> QED BY <6>1, <6>2
        <5>2. \A i \in Id : noted[i].message <= counts.started
          BY DEF LoadInv, RequestsFit
        <5> QED BY <5>1, <5>2
      <4> QED BY <4>3, <4>4, <4>5
    <3>2. sockets'[k].of <= counts'.started
      <4>1. \A j \in DOMAIN sockets : sockets[j].of <= id
        BY <1>2, <1>8, <3>1
      <4>2. sockets'[k].of <= id
        BY <1>3, <1>16, <4>1
      <4> QED BY <1>7, <4>2
    <3>3. ASSUME NEW j \in DOMAIN sockets', sockets'[j].of = sockets'[k].of PROVE j = k
      <4>1. CASE sockets'[k].of = id
        <5>1. \A i \in DOMAIN sockets : sockets[i].of # id
          BY <1>2, <1>8, <3>1
        <5> QED BY <1>16, <3>3, <4>1, <5>1
      <4>2. CASE sockets'[k].of # id
        <5>1. \A a, b \in DOMAIN sockets : sockets[a].of = sockets[b].of => a = b
          BY DEF LoadInv, RequestsFit
        <5>2. CASE connected
          <6>1. j - 1 \in DOMAIN sockets /\ sockets'[j] = sockets[j - 1]
            BY <1>16, <3>3, <4>2, <5>2
          <6>2. k - 1 \in DOMAIN sockets /\ sockets'[k] = sockets[k - 1]
            BY <1>16, <4>2, <5>2
          <6>3. j - 1 = k - 1
            BY <3>3, <5>1, <6>1, <6>2
          <6> QED BY <3>1, <6>3
        <5>3. CASE ~connected
          BY <1>16, <3>3, <5>1, <5>3
        <5> QED BY <1>5, <5>2, <5>3
      <4> QED BY <4>1, <4>2
    <3>4. ASSUME NEW i \in Id PROVE noted'[i].message # sockets'[k].of
      <4>1. noted'[i].message = 0 \/ noted'[i].message = noted[i].message
        BY <1>10, <1>14
      <4>2. \A j \in DOMAIN sockets : noted[i].message # sockets[j].of
        BY DEF LoadInv, RequestsFit
      <4>3. noted'[i].message < id /\ noted'[i].message \in Nat
        <5>1. CASE noted'[i].message = 0
          BY <1>3, IdsAreFinite, <5>1
        <5>2. CASE noted'[i].message = noted[i].message
          BY <1>2, <1>8, <3>1, <5>2
        <5> QED BY <4>1, <5>1, <5>2
      <4>4. \A j \in DOMAIN sockets : noted'[i].message # sockets[j].of
        BY <3>1, <4>1, <4>2
      <4> QED BY <1>3, <1>16, <4>3, <4>4
    <3>5. world'.most = 1 => sockets'[k].of \in UnderWay'
      BY <1>1, <1>16, <1>18 DEF LoadInv, RequestsFit
    <3> QED BY <3>2, <3>3, <3>4, <3>5
  <2>4. doing'.at # "reads"
    BY <1>1
  <2> QED BY <2>1, <2>2, <2>3, <2>4 DEF RequestsFit
<1> QED BY <1>6, <1>17, <1>19, <1>20, <1>21, <1>22 DEF LoadInv

-----------------------------------------------------------------------------
(* A request ends.                                                         *)

\* The rest of the list of sockets.
LEMMA TailIs ==
    ASSUME NEW s \in Seq(Router), s # << >>
    PROVE  /\ Tail(s) \in Seq(Router) /\ Len(s) \in Nat /\ Len(Tail(s)) = Len(s) - 1
           /\ DOMAIN s = 1..Len(s) /\ DOMAIN Tail(s) = 1..Len(Tail(s))
           /\ \A k \in DOMAIN Tail(s) : k + 1 \in DOMAIN s /\ Tail(s)[k] = s[k + 1]
           /\ 1 \in DOMAIN s /\ Head(s) = s[1] /\ s[1] \in Router
<1>1. Tail(s) \in Seq(Router) /\ Len(s) \in Nat /\ Len(s) # 0
  OBVIOUS
<1>2. Len(Tail(s)) = Len(s) - 1 /\ DOMAIN s = 1..Len(s) /\ DOMAIN Tail(s) = 1..Len(Tail(s))
  BY <1>1
<1>3. \A k \in 1..(Len(s) - 1) : Tail(s)[k] = s[k + 1]
  BY <1>1
<1>4. 1 \in DOMAIN s /\ Head(s) = s[1] /\ s[1] \in Router
  BY <1>1, <1>2
<1> QED BY <1>1, <1>2, <1>3, <1>4

LEMMA AnswerInv ==
    ASSUME LoadInv, AnswerIsRead PROVE LoadInv'
<1> DEFINE id == doing.id
           answered == Head(sockets).end = "answered"
           m == IF answered THEN Head(sockets).of ELSE 0
<1>1. /\ LoadTypeOK /\ TimeIsKnown /\ counts \in Counts /\ world \in Worlds
      /\ noted \in [Id -> Note] /\ request \in [Id -> Request] /\ sockets \in Seq(Router)
      /\ doing \in Doing /\ doing.at = "reads" /\ world' = world
  BY DEF AnswerIsRead, EndOfAnswer, LoadInv, LoadTypeOK
<1> DEFINE running == Cardinality(UnderWay)
<1>2. /\ counts.unstarted \in Nat /\ counts.started \in Nat /\ running \in Nat
      /\ world.most \in Nat /\ running <= world.most
      /\ counts.unstarted + counts.started = Requests
      /\ counts.running = {running} /\ counts.finished = {counts.started - running}
      /\ counts.started - running \in Nat
  BY <1>1, LoadAssumption, IdsAreFinite, FS_CardinalityType DEF Counts, LoadInv, RequestsAddUp
<1> HIDE DEF running
<1>3. id \in UnderWay /\ id \in Id /\ id \in Named /\ doing.t \in times
  BY <1>1 DEF LoadInv, RequestsFit, UnderWay, Named
<1>4. PICK n \in Later : Tick(doing.t, n)
  BY DEF AnswerIsRead, EndOfAnswer
<1>5. /\ sockets' = Tail(sockets) /\ request' = [request EXCEPT ![id] = NoRequest]
      /\ noted' = [noted EXCEPT ![id].over = TRUE, ![id].message = m]
      /\ counts' = [counts EXCEPT !.running = IF answered THEN {running - 1} ELSE {},
                                  !.finished = IF answered
                                               THEN {counts.started - running + 1} ELSE {}]
      /\ doing' = [Rules EXCEPT !.at = IF answered THEN "rules" ELSE "stopped"]
  <2>1. /\ {r - 1 : r \in counts.running} = {running - 1}
        /\ {f + 1 : f \in counts.finished} = {counts.started - running + 1}
    BY <1>2
  <2> QED BY <2>1 DEF AnswerIsRead, EndOfAnswer
<1>6. n \in Nat /\ n >= clock
  BY <1>1, LaterIsLater
<1>7. times' \subseteq Nat /\ clock' \in Nat /\ TimeIsKnown'
  BY <1>1, <1>3, <1>4, <1>6, TickKnown
<1>8. doing' \in Doing /\ doing'.at # "reads"
  BY <1>5, RulesAreDoing
<1>9. sockets # << >>
  BY <1>3, NamedHasASocket
<1>10. /\ sockets' \in Seq(Router) /\ Len(sockets) \in Nat /\ Len(sockets') = Len(sockets) - 1
       /\ DOMAIN sockets = 1..Len(sockets) /\ DOMAIN sockets' = 1..Len(sockets')
       /\ \A k \in DOMAIN sockets' : k + 1 \in DOMAIN sockets /\ sockets'[k] = sockets[k + 1]
       /\ 1 \in DOMAIN sockets /\ Head(sockets) = sockets[1] /\ sockets[1] \in Router
  BY <1>1, <1>5, <1>9, TailIs
<1>11. m \in Id \cup {0} /\ (m # 0 => m = sockets[1].of)
  BY <1>10 DEF Router
<1> HIDE DEF m
<1> DEFINE e == [[noted[id] EXCEPT !.over = TRUE] EXCEPT !.message = m]
<1>12. noted[id] \in Note /\ noted[id].begun
  BY <1>1, <1>3 DEF UnderWay
<1>13. e \in Note /\ e.begun /\ e.over /\ e.message = m
  BY <1>11, <1>12 DEF Note
<1>14. noted' = [noted EXCEPT ![id] = e]
  BY <1>1, <1>3, <1>5
<1> HIDE DEF e
<1>15. /\ noted' \in [Id -> Note] /\ noted'[id] = e
       /\ \A j \in Id \ {id} : noted'[j] = noted[j]
  BY <1>1, <1>3, <1>13, <1>14, NotedOne
<1>16. /\ request' \in [Id -> Request]
       /\ \A j \in Id \ {id} : request'[j] = request[j]
  <2>1. NoRequest \in Request
    BY DEF NoRequest, Request
  <2> QED BY <1>1, <1>3, <1>5, <2>1, RequestedOne
<1>17. running > 0
  <2>1. Cardinality(UnderWay) # 0 /\ Cardinality(UnderWay) \in Nat
    BY <1>3, IdsAreFinite, FS_EmptySet, FS_CardinalityType
  <2> QED BY <2>1 DEF running
<1>18. /\ counts' \in Counts /\ counts'.unstarted = counts.unstarted
       /\ counts'.started = counts.started
       /\ counts'.running = IF answered THEN {running - 1} ELSE {}
       /\ counts'.finished = IF answered THEN {counts.started - running + 1} ELSE {}
  <2> DEFINE r == IF answered THEN {running - 1} ELSE {}
             f == IF answered THEN {counts.started - running + 1} ELSE {}
  <2>1. running - 1 \in Nat /\ counts.started - running + 1 \in Nat
    BY <1>2, <1>17
  <2>2. r \in SUBSET Nat /\ f \in SUBSET Nat
    BY <2>1
  <2>3. counts' = [counts EXCEPT !.running = r, !.finished = f]
    BY <1>5
  <2> HIDE DEF r, f
  <2>4. /\ counts' \in Counts /\ counts'.unstarted = counts.unstarted
        /\ counts'.started = counts.started /\ counts'.running = r /\ counts'.finished = f
    BY <1>1, <2>2, <2>3 DEF Counts
  <2> QED BY <2>4 DEF r, f
<1>19. LoadTypeOK'
  BY <1>1, <1>7, <1>8, <1>10, <1>15, <1>16, <1>18 DEF LoadTypeOK
<1> HIDE DEF id
<1>20. UnderWay' = UnderWay \ {id} /\ Named' = Named \ {id}
  <2>1. UnderWay' = UnderWay \ {id}
    BY <1>3, <1>13, <1>15 DEF UnderWay
  <2>2. \A j \in UnderWay' : j \in Named' <=> j \in Named
    BY <1>16, <2>1 DEF Named, UnderWay
  <2> QED BY <2>1, <2>2 DEF Named
<1>21. RequestsAddUp'
  <2>1. Cardinality(UnderWay') = running - 1
    BY <1>3, <1>20, IdsAreFinite, FS_RemoveElement DEF running
  <2>2. counts'.unstarted + counts'.started = Requests
    BY <1>2, <1>18
  <2>3. counts.started - (running - 1) = counts.started - running + 1 /\ running - 1 <= world.most
    BY <1>2
  <2>4. Cardinality(UnderWay') <= world'.most
    BY <1>1, <2>1, <2>3
  <2>5. CASE answered
    <3>1. doing'.at # "stopped"
      BY <1>5, <2>5, RulesAreDoing
    <3>2. /\ counts'.running = {Cardinality(UnderWay')}
          /\ counts'.finished = {counts'.started - Cardinality(UnderWay')}
      BY <1>18, <2>1, <2>3, <2>5
    <3> QED BY <2>2, <2>4, <3>1, <3>2 DEF RequestsAddUp
  <2>6. CASE ~answered
    <3>1. doing'.at = "stopped"
      BY <1>5, <2>6, RulesAreDoing
    <3>2. counts'.running = {} /\ counts'.finished = {}
      BY <1>18, <2>6
    <3> QED BY <2>2, <2>4, <3>1, <3>2 DEF RequestsAddUp
  <2> QED BY <2>5, <2>6
<1>22. NameHasASocket'
  <2>1. Cardinality(Named) = Len(sockets)
    BY DEF LoadInv, NameHasASocket, Named
  <2>2. Cardinality(Named') = Cardinality(Named) - 1
    BY <1>3, <1>20, IdsAreFinite, FS_RemoveElement
  <2>3. Cardinality(Named') = Len(sockets')
    BY <1>10, <2>1, <2>2
  <2> QED BY <2>3 DEF NameHasASocket, Named
<1>23. /\ \A k \in DOMAIN sockets :
             /\ sockets[k].of <= counts.started
             /\ \A j \in DOMAIN sockets : sockets[j].of = sockets[k].of => j = k
             /\ \A i \in Id : noted[i].message # sockets[k].of
             /\ world.most = 1 => sockets[k].of \in UnderWay
             /\ sockets[k].of \in Id
       /\ \A i \in Id : noted[i].message <= counts.started
  <2>1. \A k \in DOMAIN sockets : sockets[k] \in Router
    BY <1>1
  <2> QED BY <2>1 DEF LoadInv, RequestsFit, Router
<1>24. world.most = 1 => UnderWay = {id}
  <2>1. ASSUME world.most = 1 PROVE UnderWay = {id}
    <3>1. /\ Cardinality(UnderWay \ {id}) = Cardinality(UnderWay) - 1
          /\ IsFiniteSet(UnderWay \ {id})
      BY <1>3, IdsAreFinite, FS_RemoveElement
    <3>2. Cardinality(UnderWay) = 1
      BY <1>2, <1>17, <2>1 DEF running
    <3>3. UnderWay \ {id} = {}
      BY <3>1, <3>2, FS_EmptySet
    <3> QED BY <1>3, <3>3
  <2> QED BY <2>1
<1>25. AnswersAreRead'
  <2>1. ASSUME NEW i \in Id, noted'[i].message # 0, NEW other \in Id \ {i}
        PROVE  noted'[other].message # noted'[i].message
    <3>1. CASE i = id
      BY <1>10, <1>11, <1>13, <1>15, <1>23, <2>1, <3>1
    <3>2. CASE other = id
      BY <1>10, <1>11, <1>13, <1>15, <1>23, <2>1, <3>2
    <3>3. CASE i # id /\ other # id
      BY <1>15, <2>1, <3>3 DEF LoadInv, AnswersAreRead
    <3> QED BY <3>1, <3>2, <3>3
  <2>2. ASSUME NEW i \in Id, noted'[i].message # 0, world'.most = 1
        PROVE  noted'[i].message = i
    <3>1. CASE i = id
      BY <1>1, <1>10, <1>11, <1>13, <1>15, <1>23, <1>24, <2>2, <3>1
    <3>2. CASE i # id
      BY <1>1, <1>15, <2>2, <3>2 DEF LoadInv, AnswersAreRead
    <3> QED BY <3>1, <3>2
  <2> QED BY <2>1, <2>2 DEF AnswersAreRead
<1>26. RequestsFit'
  <2>1. ASSUME NEW j \in Id
        PROVE  /\ noted'[j].begun <=> j <= counts'.started
               /\ ~noted'[j].begun => noted'[j] = NothingNoted
               /\ noted'[j].message <= counts'.started
    <3>1. CASE j = id
      <4>1. j <= counts.started
        BY <1>12, <2>1, <3>1 DEF LoadInv, RequestsFit
      <4>2. m <= counts.started
        BY <1>2, <1>10, <1>11, <1>23
      <4> QED BY <1>13, <1>15, <1>18, <3>1, <4>1, <4>2
    <3>2. CASE j # id
      BY <1>15, <1>18, <3>2 DEF LoadInv, RequestsFit
    <3> QED BY <3>1, <3>2
  <2>2. ASSUME NEW j \in UnderWay'
        PROVE  noted'[j].ready \/ noted'[j].unready # {} \/ noted'[j].written
                 => request'[j].name
    BY <1>15, <1>16, <1>20, <2>2 DEF LoadInv, RequestsFit, UnderWay
  <2>3. ASSUME NEW k \in DOMAIN sockets'
        PROVE  /\ sockets'[k].of <= counts'.started
               /\ \A j \in DOMAIN sockets' : sockets'[j].of = sockets'[k].of => j = k
               /\ \A i \in Id : noted'[i].message # sockets'[k].of
               /\ world'.most = 1 => sockets'[k].of \in UnderWay'
    <3>1. k + 1 \in DOMAIN sockets /\ sockets'[k] = sockets[k + 1] /\ k \in Nat /\ k # 0
      BY <1>10
    <3>2. sockets'[k].of <= counts'.started
      BY <1>18, <1>23, <3>1
    <3>3. ASSUME NEW j \in DOMAIN sockets', sockets'[j].of = sockets'[k].of PROVE j = k
      <4>1. j + 1 \in DOMAIN sockets /\ sockets'[j] = sockets[j + 1] /\ j \in Nat
        BY <1>10
      <4>2. j + 1 = k + 1
        BY <1>23, <3>1, <3>3, <4>1
      <4> QED BY <3>1, <4>1, <4>2
    <3>4. sockets'[k].of # sockets[1].of
      <4>1. k + 1 # 1
        BY <3>1
      <4> QED BY <1>10, <1>23, <3>1, <4>1
    <3>5. ASSUME NEW i \in Id PROVE noted'[i].message # sockets'[k].of
      <4>1. CASE i = id
        <5>1. sockets'[k].of # 0
          BY <1>23, <3>1, IdsAreFinite
        <5> QED BY <1>11, <1>13, <1>15, <3>4, <4>1, <5>1
      <4>2. CASE i # id
        BY <1>15, <1>23, <3>1, <4>2
      <4> QED BY <4>1, <4>2
    <3>6. world'.most # 1
      BY <1>1, <1>10, <1>23, <1>24, <3>1, <3>4
    <3> QED BY <3>2, <3>3, <3>5, <3>6
  <2> QED BY <1>8, <2>1, <2>2, <2>3 DEF RequestsFit
<1> QED BY <1>7, <1>19, <1>21, <1>22, <1>25, <1>26 DEF LoadInv

-----------------------------------------------------------------------------
(* Every behaviour.                                                        *)

LEMMA LoadInitInv ==
    ASSUME LoadInit PROVE LoadInv
<1>1. /\ counts.unstarted = Requests /\ counts.started = 0 /\ counts.running = {0}
      /\ counts.finished = {0} /\ counts \in Counts /\ doing.at = "rules"
  BY LoadAssumption, RulesAreDoing DEF LoadInit, Counts
<1>2. \A id \in Id : noted[id] = NothingNoted /\ request[id] = NoRequest
  BY DEF LoadInit
<1>3. NothingNoted \in Note /\ NoRequest \in Request
  BY DEF NothingNoted, Note, NoRequest, Request
<1>4. LoadTypeOK
  <2>1. noted \in [Id -> Note] /\ request \in [Id -> Request]
    BY <1>3 DEF LoadInit
  <2>2. sockets \in Seq(Router)
    BY DEF LoadInit
  <2> QED BY <1>1, <2>1, <2>2, RulesAreDoing DEF LoadInit, LoadTypeOK
<1>5. UnderWay = {} /\ Named = {}
  BY <1>2 DEF UnderWay, Named, NothingNoted
<1>6. Cardinality({}) = 0
  BY FS_EmptySet
<1>7. world.most \in Nat
  BY LoadAssumption DEF LoadInit
<1>8. RequestsAddUp
  BY <1>1, <1>5, <1>6, <1>7, LoadAssumption DEF RequestsAddUp
<1>9. NameHasASocket
  <2>1. Len(sockets) = 0
    BY DEF LoadInit
  <2> QED BY <1>5, <1>6, <2>1 DEF NameHasASocket, Named
<1>10. AnswersAreRead
  BY <1>2 DEF AnswersAreRead, NothingNoted
<1>11. TimeIsKnown
  BY DEF LoadInit, TimeIsKnown
<1>12. RequestsFit
  <2>1. \A id \in Id : /\ ~noted[id].begun /\ noted[id] = NothingNoted
                       /\ ~(id <= counts.started) /\ noted[id].message <= counts.started
    BY <1>1, <1>2, IdsAreFinite DEF NothingNoted
  <2>2. DOMAIN sockets = {}
    BY DEF LoadInit
  <2>3. doing.at # "reads"
    BY RulesAreDoing DEF LoadInit
  <2> QED BY <1>5, <2>1, <2>2, <2>3 DEF RequestsFit
<1> QED BY <1>4, <1>8, <1>9, <1>10, <1>11, <1>12 DEF LoadInv

LEMMA LoadNextInv ==
    ASSUME LoadInv, LoadNext PROVE LoadInv'
<1>1. CASE StartRequest
  BY <1>1, StartInv
<1>2. ASSUME NEW id \in Id, BackoffAndSleep(id) PROVE LoadInv'
  BY <1>2, BackoffInv
<1>3. ASSUME NEW id \in Id,
             \/ CheckIfServerReadyToReceiveData(id)
             \/ CheckIfServerReadyToReceiveDataAfterDelay(id)
             \/ CheckIfServerHasSentUsData(id) \/ CheckIfServerHasSentUsDataAfterDelay(id)
      PROVE  LoadInv'
  BY <1>3, PollInv
<1>4. ASSUME NEW id \in Id, RetryCheckingForReadyToReceive(id) \/ RetryCheckingForData(id)
      PROVE  LoadInv'
  BY <1>4, RetryInv
<1>5. ASSUME NEW id \in Id, SendMessageToSuccessfulRequest(id) PROVE LoadInv'
  BY <1>5, SendInv
<1>6. ASSUME NEW id \in Id, ReadFromServer(id) PROVE LoadInv'
  BY <1>6, ReadFromServerInv
<1>7. CASE AnswerIsRead
  BY <1>7, AnswerInv
<1>8. CASE Report \/ AgendaEmpty
  <2>1. /\ UNCHANGED <<counts, times, request, noted, sockets, clock, world>>
        /\ doing = Rules
        /\ \/ doing' = [Rules EXCEPT !.at = "reported"]
           \/ doing' = [Rules EXCEPT !.at = "over"]
    <3>1. CASE Report
      BY <3>1 DEF Report
    <3>2. CASE AgendaEmpty
      BY <3>2 DEF AgendaEmpty
    <3> QED BY <1>8, <3>1, <3>2
  <2> QED BY <2>1, EndInv
<1>9. CASE Answered \/ \E k \in Id : ServerLeaves(k)
  BY <1>9, ServerInv DEF Answered
<1>10. CASE Rule
  BY <1>1, <1>2, <1>3, <1>4, <1>5, <1>6, <1>8, <1>10 DEF Rule
<1> QED BY <1>7, <1>8, <1>9, <1>10 DEF LoadNext

\* Whatever the order in which rules fire, the clock goes and servers answer or leave:
\* the four counters of the facts agree with the requests there are, there is a socket
\* of the shared name for each request that is to use it, no answer is taken for two
\* requests (and, one request at a time, each request gets its own), and the time is
\* always known.
THEOREM LoadHolds == LoadSpec => []LoadInv
<1>1. LoadInit => LoadInv
  BY LoadInitInv
<1>2. LoadInv /\ [LoadNext]_loadVars => LoadInv'
  <2>1. LoadInv /\ LoadNext => LoadInv'
    BY LoadNextInv
  <2>2. LoadInv /\ UNCHANGED loadVars => LoadInv'
    BY EndInv DEF loadVars
  <2> QED BY <2>1, <2>2
<1> QED BY <1>1, <1>2, PTL DEF LoadSpec
=============================================================================
