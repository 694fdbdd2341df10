------------------------------ MODULE Routers ------------------------------
(***************************************************************************)
(* I/O by logical name (src/src/router.c, filertr.c, fileutil.c, iofun.c,  *)
(* commline.c): the list of routers decides where a name leads.  A dribble *)
(* router puts itself in front of the console to copy what passes, a batch *)
(* router answers for stdin while there are batch files, and the socket    *)
(* router stands beside that of the files.                                 *)
(*                                                                         *)
(* The command loop reads a line, from the batch files or the console, and *)
(* executes it; it may do anything here.  Strings as sources are the       *)
(* subject of Readers.                                                     *)
(* Not modelled: unget-char, prompts and messages (output like any other), *)
(* the error-capture router of embedding programs.                         *)
(***************************************************************************)
EXTENDS Integers, Sequences, FiniteSets, SequencesExt

CONSTANTS
    Name,           \* logical names that files and sockets may have
    File,           \* batch files, each used once
    Char,           \* characters, or pieces of output
    Console,        \* what the user types
    Text,           \* file -> what it holds
    NewLine,        \* the characters that end a line
    Output,         \* number -> a piece of output
    Nothing,        \* no character, no router; as a source, the console
    MaxOutput       \* bound on the pieces of output

RouterName == {"dribble", "batch", "socketio", "stringBuilder", "string", "fileio"}

ASSUME RoutersAssumption ==
    /\ Console \in Seq(Char) /\ Text \in [File -> Seq(Char)] /\ NewLine \subseteq Char
    /\ MaxOutput \in Nat /\ Output \in [1 .. MaxOutput -> Char]
    /\ Nothing \notin Char /\ Nothing \notin File /\ Nothing \notin RouterName

VARIABLES
    m,          \* what the router callbacks work on, see RoutersInit
    session,    \* "loop", "command", "readline" inside one, "exit", or "over"
    due,        \* in exit: the router whose callback comes next
    outputs,    \* pieces of output so far, for MaxOutput
    used,       \* batch files opened so far
    split,      \* history: since dribble-on get-char took part of a batch line
    printed     \* history: the last name printed to and where that went

routerVars == <<m, session, due, outputs, used, split, printed>>

Priority(r) == IF r = "dribble" THEN 40 ELSE IF r = "batch" THEN 20 ELSE 0

AddRouterSlip(list, r) ==               \* behind its equals
    LET after == Cardinality({i \in DOMAIN list : Priority(r) <= Priority(list[i])})
    IN InsertAt(list, after + 1, r)

\* AddRouter: in front of the first whose priority is no higher.
AddRouter(list, r) ==
    LET after == Cardinality({i \in DOMAIN list : Priority(r) < Priority(list[i])})
    IN IF Contains(list, r) THEN list ELSE InsertAt(list, after + 1, r)

PlaceOf(list, r) == SelectInSeq(list, LAMBDA x : x = r)

DeleteRouter(list, r) ==
    IF Contains(list, r) THEN RemoveAt(list, PlaceOf(list, r)) ELSE list

\* The link to the router behind r.
NextRouter(list, r) ==
    IF PlaceOf(list, r) < Len(list) THEN list[PlaceOf(list, r) + 1] ELSE Nothing

\* InitializeDefaultRouters, each by itself.
DefaultRouters ==
    AddRouter(AddRouter(AddRouter(AddRouter(<< >>, "fileio"), "string"), "stringBuilder"), "socketio")

RoutersInit ==
    /\ m = [routers |-> DefaultRouters,     \* ListOfRouters, in the order they are asked
            files |-> {}, sockets |-> {},   \* the logical names in use
            batch |-> << >>,                \* TopOfBatchList: files and what is left of them
            echo |-> << >>,                 \* BatchBuffer
            console |-> Console,            \* what the user has still to type
            dribble |-> "off",              \* DribbleFP; "closed" on the way out
            copy |-> << >>,                 \* the dribble file
            buffer |-> << >>,               \* DribbleBuffer
            awaiting |-> TRUE,              \* AwaitingInput
            char |-> Nothing,               \* the character last read
            taken |-> [f \in File \cup {Nothing} |-> << >>],    \* history: what was read of each
            shown |-> << >>,                \* history: what the screen showed while dribble was on
            late |-> FALSE]                 \* history: a write to the closed dribble file
    /\ session = "loop" /\ due = Nothing /\ outputs = 0 /\ used = {}
    /\ split = FALSE /\ printed = Nothing

-----------------------------------------------------------------------------
(* Standard input and output.                                              *)

Dribbles(M) == Contains(M.routers, "dribble")

\* PutcDribbleBuffer: what passes while input is awaited is kept back.
PutcDribbleBuffer(M, chars) ==
    IF M.dribble = "closed" THEN [M EXCEPT !.late = TRUE]
    ELSE IF M.awaiting THEN [M EXCEPT !.buffer = @ \o chars]
    ELSE [M EXCEPT !.copy = @ \o M.buffer \o chars, !.buffer = << >>]

\* WriteString to stdout; aside: from within the dribble router, which has
\* deactivated itself.
WriteString(M, chars, aside) ==
    LET N == IF Dribbles(M) /\ ~aside THEN PutcDribbleBuffer(M, chars) ELSE M
    IN [N EXCEPT !.shown = IF M.dribble = "off" THEN @ ELSE @ \o chars]

LLGetcBatchSlip(M, aside) ==            \* drops the files below, too
    LET b == M.batch[1]
        N == IF M.echo = << >> \/ b.left # << >> THEN M ELSE WriteString(M, M.echo, aside)
        line == Append(M.echo, Head(b.left))
    IN IF b.left = << >>
       THEN [N EXCEPT !.batch = << >>, !.echo = << >>, !.char = Nothing,
                      !.routers = DeleteRouter(@, "batch")]
       ELSE LET R == [M EXCEPT !.batch[1].left = Tail(@), !.char = Head(b.left),
                               !.taken[b.file] = Append(@, Head(b.left)), !.echo = line]
            IN IF Head(b.left) \in NewLine
               THEN [WriteString(R, line, aside) EXCEPT !.echo = << >>] ELSE R

\* LLGetcBatch and RemoveBatch: the next character of the batch files, echoed
\* by the line.  Files that are read out are dropped; with the last, the router.
LLGetcBatch(M, aside) ==
    LET live == SelectInSeq(M.batch, LAMBDA b : b.left # << >>)
        N == IF live = 1 \/ M.echo = << >> THEN M
             ELSE [WriteString(M, M.echo, aside) EXCEPT !.echo = << >>]
        rest == SubSeq(M.batch, live, Len(M.batch))
        c == Head(rest[1].left)
        line == Append(N.echo, c)
        R == [N EXCEPT !.batch = [rest EXCEPT ![1].left = Tail(@)],
                       !.taken[rest[1].file] = Append(@, c), !.char = c, !.echo = line]
    IN IF live = 0
       THEN [N EXCEPT !.batch = << >>, !.routers = DeleteRouter(@, "batch"), !.char = Nothing]
       ELSE IF c \in NewLine THEN [WriteString(R, line, aside) EXCEPT !.echo = << >>]
       ELSE R

\* The file router reads the console.  The terminal shows what is typed.
ReadConsole(M) ==
    LET c == Head(M.console) IN
    [M EXCEPT !.console = Tail(@), !.taken[Nothing] = Append(@, c), !.char = c,
              !.shown = IF M.dribble = "off" THEN @ ELSE Append(@, c)]

\* ReadRouter for stdin: dribble, then batch, then the console.
ReadStdin(M) ==
    LET N == IF Contains(M.routers, "batch") THEN LLGetcBatch(M, Dribbles(M))
             ELSE [M EXCEPT !.char = Nothing]
        R == IF N.char = Nothing THEN ReadConsole(N) ELSE N
    IN IF Dribbles(M) THEN PutcDribbleBuffer(R, <<R.char>>) ELSE R

\* Elsewhere a reader waits for the user.
HasInput(M) == M.console # << >> \/ \E i \in DOMAIN M.batch : M.batch[i].left # << >>

-----------------------------------------------------------------------------
(* The command loop.                                                       *)

LoopReadSlip ==                         \* waits for the console while a batch file has input
    LET N == IF m.batch = << >> THEN [m EXCEPT !.char = Nothing] ELSE LLGetcBatch(m, FALSE)
        R == IF N.char = Nothing THEN ReadStdin(N) ELSE N
        complete == R.char \in NewLine
    IN
    /\ session = "loop" /\ m.console # << >>
    /\ m' = [R EXCEPT !.awaiting = ~complete]
    /\ session' = IF complete THEN "command" ELSE "loop"
    /\ UNCHANGED <<due, outputs, used, split, printed>>

\* CommandLoop reads the batch files itself and turns to stdin at their end.
\* ExecuteIfCommandComplete at the end of a line.
LoopRead ==
    LET N == IF m.batch = << >> THEN [m EXCEPT !.char = Nothing] ELSE LLGetcBatch(m, FALSE)
        R == IF N.char = Nothing THEN ReadStdin(N) ELSE N
        complete == R.char \in NewLine
    IN
    /\ session = "loop" /\ HasInput(m)
    /\ m' = [R EXCEPT !.awaiting = ~complete]
    /\ session' = IF complete THEN "command" ELSE "loop"
    /\ UNCHANGED <<due, outputs, used, split, printed>>

EndOfCommand ==
    /\ session = "command"
    /\ session' = "loop" /\ m' = [m EXCEPT !.awaiting = TRUE]
    /\ printed' = Nothing
    /\ UNCHANGED <<due, outputs, used, split>>

-----------------------------------------------------------------------------
(* What a command may do.                                                  *)

Println ==
    /\ session = "command" /\ outputs < MaxOutput
    /\ outputs' = outputs + 1
    /\ m' = WriteString(m, <<Output[outputs']>>, FALSE)
    /\ UNCHANGED <<session, due, used, split, printed>>

\* printout: the first router that knows the name.
Printout(name) ==
    LET knows(r) == (r = "socketio" /\ name \in m.sockets) \/ (r = "fileio" /\ name \in m.files)
        i == SelectInSeq(m.routers, knows)
    IN
    /\ session = "command"
    /\ printed' = IF i = 0 THEN Nothing ELSE <<name, m.routers[i]>>
    /\ UNCHANGED <<m, session, due, outputs, used, split>>

\* open asks the file router alone whether the name is in use.
OpenFile(name) ==
    /\ session = "command" /\ name \notin m.files
    /\ m' = [m EXCEPT !.files = @ \cup {name}]
    /\ UNCHANGED <<session, due, outputs, used, split, printed>>

CloseFile(name) ==
    /\ session = "command" /\ name \in m.files
    /\ m' = [m EXCEPT !.files = @ \ {name}]
    /\ UNCHANGED <<session, due, outputs, used, split, printed>>

\* The socket router (see SocketRouter): a name comes or goes with its socket.
Socket(name) ==
    /\ session = "command"
    /\ m' = [m EXCEPT !.sockets = (@ \ {name}) \cup ({name} \ @)]
    /\ UNCHANGED <<session, due, outputs, used, split, printed>>

GetChar ==
    /\ session = "command" /\ HasInput(m)
    /\ m' = [ReadStdin([m EXCEPT !.awaiting = TRUE]) EXCEPT !.awaiting = FALSE]
    /\ split' = (split \/ m'.echo # << >> \/ m.echo # << >>)
    /\ UNCHANGED <<session, due, outputs, used, printed>>

\* readline from stdin begins, and FillBuffer goes on to the end of a line.
Readline ==
    /\ session = "command" /\ HasInput(m)
    /\ session' = "readline" /\ m' = [m EXCEPT !.awaiting = TRUE]
    /\ split' = (split \/ m.echo # << >>)
    /\ UNCHANGED <<due, outputs, used, printed>>

FillBuffer ==
    LET R == ReadStdin(m)
        complete == R.char \in NewLine
    IN
    /\ session = "readline" /\ HasInput(m)
    /\ m' = [R EXCEPT !.awaiting = ~complete]
    /\ session' = IF complete THEN "command" ELSE "readline"
    /\ UNCHANGED <<due, outputs, used, split, printed>>

\* OpenBatch
AddBatch(M, f, placeAtEnd) ==
    LET entry == <<[file |-> f, left |-> Text[f]]>> IN
    [M EXCEPT !.routers = IF M.batch = << >> THEN AddRouter(@, "batch") ELSE @,
              !.batch = IF placeAtEnd THEN @ \o entry ELSE entry \o @,
              !.echo = IF placeAtEnd /\ M.batch # << >> THEN @ ELSE << >>]

OpenBatch(f) ==
    /\ session = "command" /\ f \notin used
    /\ m' = AddBatch(m, f, FALSE)
    /\ used' = used \cup {f}
    /\ UNCHANGED <<session, due, outputs, split, printed>>

\* The option -f, before the command loop starts.
BatchOption(f) ==
    /\ session = "loop" /\ \A g \in DOMAIN m.taken : m.taken[g] = << >>
    /\ f \notin used
    /\ m' = AddBatch(m, f, TRUE)
    /\ used' = used \cup {f}
    /\ UNCHANGED <<session, due, outputs, split, printed>>

Off(M) == [M EXCEPT !.copy = @ \o M.buffer, !.buffer = << >>, !.dribble = "off",
                    !.routers = DeleteRouter(@, "dribble")]

DribbleOff ==
    /\ session = "command" /\ m.dribble = "on"
    /\ m' = Off(m)
    /\ UNCHANGED <<session, due, outputs, used, split, printed>>

\* DribbleOn ends the one that is on; the file may fail to open.
DribbleOn ==
    /\ session = "command"
    /\ \/ m' = Off(m) /\ UNCHANGED split
       \/ /\ m' = [Off(m) EXCEPT !.copy = << >>, !.dribble = "on", !.shown = << >>,
                                 !.routers = AddRouter(@, "dribble")]
          /\ split' = (m.echo # << >>)
    /\ UNCHANGED <<session, due, outputs, used, printed>>

\* The exit callback of a router.
ExitCallback(M, r) ==
    CASE r = "dribble" -> [M EXCEPT !.copy = @ \o M.buffer, !.dribble = "closed"]
      [] r = "batch" ->     \* CloseAllBatchSources
            [(IF M.echo = << >> THEN M ELSE WriteString(M, M.echo, FALSE))
                EXCEPT !.batch = << >>, !.echo = << >>, !.routers = DeleteRouter(@, "batch")]
      [] r = "socketio" -> [M EXCEPT !.sockets = {}]
      [] r = "fileio" -> [M EXCEPT !.files = {}]
      [] OTHER -> M

\* exit walks down the list; the next router is known before the callback.
ExitRouter ==
    /\ session = "command"
    /\ session' = "exit" /\ due' = m.routers[1]
    /\ UNCHANGED <<m, outputs, used, split, printed>>

ExitGoesOn ==
    /\ session = "exit"
    /\ m' = ExitCallback(m, due) /\ due' = NextRouter(m.routers, due)
    /\ session' = IF due' = Nothing THEN "over" ELSE "exit"
    /\ UNCHANGED <<outputs, used, split, printed>>

RoutersNext ==
    \/ LoopRead \/ EndOfCommand \/ Println \/ GetChar \/ Readline \/ FillBuffer
    \/ \E n \in Name : Printout(n) \/ OpenFile(n) \/ CloseFile(n) \/ Socket(n)
    \/ \E f \in File : OpenBatch(f) \/ BatchOption(f)
    \/ DribbleOff \/ DribbleOn \/ ExitRouter \/ ExitGoesOn

RoutersSpec == RoutersInit /\ [][RoutersNext]_routerVars

\* The loop goes on, a command comes to its end, and so does readline.
RoutersFairness ==
    WF_routerVars(LoopRead) /\ WF_routerVars(EndOfCommand) /\ WF_routerVars(FillBuffer)

-----------------------------------------------------------------------------
(* Properties.                                                             *)

\* The list is in the order of priorities, each router in it once; those of
\* batch and dribble are there while they have work.
RoutersTypeOK ==
    /\ \A i, j \in DOMAIN m.routers :
          i < j => Priority(m.routers[i]) >= Priority(m.routers[j]) /\ m.routers[i] # m.routers[j]
    /\ Contains(m.routers, "batch") <=> m.batch # << >>
    /\ Dribbles(m) <=> m.dribble # "off"
    /\ m.files \cup m.sockets \subseteq Name
    /\ session = "command" => ~m.awaiting
    /\ session = "exit" <=> due # Nothing
    /\ session = "exit" => Contains(m.routers, due)

\* Every character of the batch files and the console is read once, in order,
\* however they interrupt each other.
InputOnce ==
    LET under == {m.batch[i].file : i \in DOMAIN m.batch} IN
    /\ m.taken[Nothing] \o m.console = Console
    /\ \A i \in DOMAIN m.batch :
          m.taken[m.batch[i].file] \o m.batch[i].left = Text[m.batch[i].file]
    /\ session \notin {"exit", "over"} => \A f \in used \ under : m.taken[f] = Text[f]

\* The dribble file and its buffer hold what was on the screen, in that order:
\* nothing twice, nothing missing, whatever reads from whatever.  A character
\* that get-char takes out of a batch line is copied with the line again; one
\* that readline takes is copied before the line is shown.
TranscriptIsSession ==
    m.dribble = "on" /\ ~split =>
        m.copy \o m.buffer = m.shown \o (IF session = "readline" THEN m.echo ELSE << >>)

\* A name that has a socket and a file leads to the socket: a file opened under
\* the name of a connection does not take what is sent to it.
SocketComesFirst ==
    [][printed' # printed /\ printed' # Nothing =>
        printed'[2] = IF printed'[1] \in m.sockets THEN "socketio" ELSE "fileio"]_routerVars

\* exit leaves no file, socket or batch file open, nor output kept back.
ExitClosesAll ==
    session = "over" =>
        /\ m.files = {} /\ m.sockets = {} /\ m.batch = << >> /\ m.dribble # "on"
        /\ m.dribble = "closed" /\ ~split /\ ~m.late => m.copy = m.shown

\* What comes in is read once, what goes by is copied, and exit closes all.
RoutersInv == RoutersTypeOK /\ InputOnce /\ TranscriptIsSession /\ ExitClosesAll
=============================================================================
