------------------------------ MODULE Readers ------------------------------
(***************************************************************************)
(* Who reads what (src/src/strngrtr.c, router.c, commline.c, cstrcpsr.c,   *)
(* fileutil.c, strngfun.c): a command, the argument of eval or build, and  *)
(* the file of load or batch* are read token by token through a logical    *)
(* name, and a call met on the way may start another reader.               *)
(*                                                                         *)
(* A text is a number of parts; the last one closes its parenthesis.  Any  *)
(* part may hold a call, which is made while the text is parsed where the  *)
(* text is a construct (the value of a defglobal), and when the expression *)
(* is evaluated otherwise.                                                 *)
(*                                                                         *)
(* Not modelled: load-facts and the other loaders that set FastLoadFilePtr *)
(* as load does; what the parts mean to the parser, and its errors.        *)
(***************************************************************************)
EXTENDS Integers, Sequences, FiniteSets, SequencesExt

CONSTANTS
    Command, Construct, Expression, LoadFile, BatchFile,   \* texts
    Size,           \* text -> its parts; of a batch file, its commands
    CommandOf(_, _),\* batch file, number -> the command
    NoSource,       \* no source
    MaxReaders,     \* bound: readers at once, but for the commands of a batch file;
                    \* a file opened beyond fails (EMFILE)
    MaxCalls        \* bound on the calls made from within one line typed

Parsed == Command \cup Construct \cup Expression \cup LoadFile
AnyText == Parsed \cup BatchFile

\* The logical names readers read by.
SourceName == {"command", "build", "Eval", "file"} \X Nat

ASSUME ReadersAssumption ==
    /\ Construct \subseteq Command
    /\ Size \in [AnyText -> Nat \ {0}]
    /\ \A b \in BatchFile : \A i \in 1 .. Size[b] : CommandOf(b, i) \in Command
    /\ NoSource \notin SourceName
    /\ MaxReaders \in Nat \ {0} /\ MaxCalls \in Nat

VARIABLES
    sources,    \* ListOfStringRouters: name, text, parts read
    fast,       \* FastLoadFilePtr
    files,      \* file open for load -> its text and the parts read
    stack,      \* the readers, the running one first
    calls       \* calls made from within the line, for MaxCalls

readerVars == <<sources, fast, files, stack, calls>>

ReadersInit == sources = << >> /\ fast = NoSource /\ files = << >> /\ stack = << >> /\ calls = 0

Depth == Len(stack)
Running == Head(stack)

\* What a part may call.
Calls == ({"eval"} \X Expression) \cup ({"build"} \X Construct)
            \cup ({"load"} \X LoadFile) \cup ({"batch*"} \X BatchFile)

Reader(kind, name, text) ==
    [kind |-> kind, name |-> name, text |-> text,
     got |-> << >>,             \* what it has read
     now |-> << >>,             \* a call to be made before it reads on
     later |-> << >>,           \* calls that wait for the evaluation
     phase |-> "reading"]

-----------------------------------------------------------------------------
(* The string router.                                                      *)

FindStringRouter(name) == SelectInSeq(sources, LAMBDA s : s.name = name)

OpenStringSource(name, text) ==
    IF FindStringRouter(name) # 0 THEN sources
    ELSE <<[name |-> name, text |-> text, read |-> 0]>> \o sources

CloseStringSource(name) ==
    IF FindStringRouter(name) = 0 THEN sources ELSE RemoveAt(sources, FindStringRouter(name))

\* ReadRouter: FastLoadFilePtr is asked first, then the routers.  A name that
\* none of them knows reads as the end of the text.
Known(name) == name = fast \/ FindStringRouter(name) # 0
Source(name) == IF name = fast THEN files[name] ELSE sources[FindStringRouter(name)]
AtEnd(name) == Known(name) => Source(name).read = Size[Source(name).text]
NextPart(name) == <<Source(name).text, Source(name).read + 1>>

Advance(name) ==
    IF name = fast
    THEN files' = [files EXCEPT ![name].read = @ + 1] /\ UNCHANGED sources
    ELSE sources' = [sources EXCEPT ![FindStringRouter(name)].read = @ + 1] /\ UNCHANGED files

-----------------------------------------------------------------------------
(* A reader starts, above the readers below.                               *)

\* RouteCommand does not ask whether the source could be opened.
RouteCommand(text, below) ==
    LET name == <<"command", 0>> IN
    /\ sources' = OpenStringSource(name, text)
    /\ stack' = <<Reader("command", name, text)>> \o below
    /\ UNCHANGED <<fast, files>>

\* Eval has a name for each depth.
EvalSlip(text, below) ==                \* one name for all
    /\ sources' = OpenStringSource(<<"Eval", 1>>, text)
    /\ stack' = <<Reader("eval", <<"Eval", 1>>, text)>> \o below
    /\ UNCHANGED <<fast, files>>

Eval(text, below) ==
    LET depth == Cardinality({i \in 1 .. Depth : stack[i].kind = "eval"}) + 1 IN
    /\ sources' = OpenStringSource(<<"Eval", depth>>, text)
    /\ stack' = <<Reader("eval", <<"Eval", depth>>, text)>> \o below
    /\ UNCHANGED <<fast, files>>

BuildSlip(text, below) ==               \* does not ask
    /\ sources' = OpenStringSource(<<"build", 0>>, text)
    /\ stack' = <<Reader("build", <<"build", 0>>, text)>> \o below
    /\ UNCHANGED <<fast, files>>

\* Build is refused while another one reads.
Build(text, below) ==
    LET name == <<"build", 0>> IN
    /\ sources' = OpenStringSource(name, text)
    /\ stack' = IF FindStringRouter(name) # 0 THEN below
                ELSE <<Reader("build", name, text)>> \o below
    /\ UNCHANGED <<fast, files>>

Load(text, below) ==
    LET file == <<"file", Len(below)>> IN
    /\ fast' = file
    /\ files' = [f \in DOMAIN files \cup {file} |->
                   IF f = file THEN [text |-> text, read |-> 0] ELSE files[f]]
    /\ stack' = <<Reader("load", file, text)>> \o below
    /\ UNCHANGED sources

\* BatchStar reads its file by itself, through no name.
BatchStar(text, below) ==
    /\ stack' = <<Reader("batch*", NoSource, text)>> \o below
    /\ UNCHANGED <<sources, fast, files>>

Start(call, below) ==
    \/ call[1] = "eval" /\ Eval(call[2], below)
    \/ call[1] = "build" /\ Build(call[2], below)
    \/ call[1] = "load" /\ Load(call[2], below)
    \/ call[1] = "batch*" /\ BatchStar(call[2], below)

-----------------------------------------------------------------------------
(* Steps.                                                                  *)

\* The user types a line.
Type ==
    /\ stack = << >>
    /\ \E text \in Command : RouteCommand(text, stack)
    /\ calls' = 0

Become(frame) == stack' = <<frame>> \o Tail(stack)
Reading == stack # << >> /\ Running.phase = "reading" /\ Running.now = << >>

\* A part is read; with call, the one it holds.
ReadPart(call) ==
    LET f == Running
        part == NextPart(f.name)
        atOnce == part[1] \in Construct \cup LoadFile
    IN
    /\ Reading /\ f.kind # "batch*" /\ ~AtEnd(f.name)
    /\ Become([f EXCEPT
            !.got = Append(@, part),
            !.now = IF atOnce THEN call ELSE << >>,
            !.later = IF atOnce \/ call = << >> THEN @ ELSE Append(@, call),
            !.phase = IF f.kind # "load" /\ part[2] = Size[part[1]] THEN "parsed" ELSE @])
    /\ Advance(f.name)
    /\ calls' = calls + (IF call = << >> THEN 0 ELSE 1)
    /\ UNCHANGED fast

EndOfText ==
    /\ Reading /\ Running.kind # "batch*" /\ AtEnd(Running.name)
    /\ Become([Running EXCEPT !.phase = "parsed"])
    /\ UNCHANGED <<sources, fast, files, calls>>

NextCommandSlip ==                      \* starts over
    /\ Reading /\ Running.kind = "batch*"
    /\ RouteCommand(CommandOf(Running.text, 1), stack)
    /\ UNCHANGED calls

\* The next command of a batch* file.
NextCommand ==
    LET f == Running
        i == Len(f.got) + 1
    IN
    /\ Reading /\ f.kind = "batch*"
    /\ IF i <= Size[f.text]
       THEN RouteCommand(CommandOf(f.text, i),
                         <<[f EXCEPT !.got = Append(@, <<f.text, i>>)]>> \o Tail(stack))
       ELSE Become([f EXCEPT !.phase = "parsed"]) /\ UNCHANGED <<sources, fast, files>>
    /\ UNCHANGED calls

\* A call met while parsing is made; the reader goes on when it is over.
CallNow ==
    /\ stack # << >> /\ Running.now # << >>
    /\ LET below == <<[Running EXCEPT !.now = << >>]>> \o Tail(stack) IN
       \/ Depth < MaxReaders /\ Start(Running.now, below)
       \/ Depth >= MaxReaders /\ stack' = below /\ UNCHANGED <<sources, fast, files>>
    /\ UNCHANGED calls

\* The text is parsed.  A command and build close their source before they go
\* on, eval when it has been evaluated.
EndOfParse ==
    LET f == Running IN
    /\ stack # << >> /\ f.phase = "parsed" /\ f.now = << >>
    /\ Become([f EXCEPT !.phase = "evaluating"])
    /\ sources' = IF f.kind \in {"command", "build"} THEN CloseStringSource(f.name) ELSE sources
    /\ UNCHANGED <<fast, files, calls>>

CallLater ==
    LET f == Running
        below == <<[f EXCEPT !.later = Tail(@)]>> \o Tail(stack)
    IN
    /\ stack # << >> /\ f.phase = "evaluating" /\ f.later # << >>
    /\ \/ Depth < MaxReaders /\ Start(Head(f.later), below)
       \/ Depth >= MaxReaders /\ stack' = below /\ UNCHANGED <<sources, fast, files>>
    /\ UNCHANGED calls

Finish ==
    LET f == Running IN
    /\ stack # << >> /\ f.phase = "evaluating" /\ f.later = << >>
    /\ stack' = Tail(stack)
    /\ sources' = IF f.kind = "eval" THEN CloseStringSource(f.name) ELSE sources
    /\ fast' = IF f.kind = "load" THEN NoSource ELSE fast
    /\ files' = [g \in DOMAIN files \ {f.name} |-> files[g]]
    /\ UNCHANGED calls

Go == \/ ReadPart(<< >>) \/ EndOfText \/ NextCommand
      \/ CallNow \/ EndOfParse \/ CallLater \/ Finish

ReadersNext ==
    \/ Type \/ Go
    \/ calls < MaxCalls /\ \E call \in Calls : ReadPart(call)

\* The program goes on with what it has begun.
ReadersSpec == ReadersInit /\ [][ReadersNext]_readerVars /\ WF_readerVars(Go)

-----------------------------------------------------------------------------
(* Properties.                                                             *)

ReadersTypeOK ==
    /\ \A i \in DOMAIN sources :
          sources[i].text \in Parsed /\ sources[i].read \in 0 .. Size[sources[i].text]
    /\ fast \in DOMAIN files \cup {NoSource}
    /\ Depth <= MaxReaders + 1 /\ calls <= MaxCalls

Own(f, n) == [i \in 1 .. n |-> <<f.text, i>>]

\* However readers nest, eval and build read their own text and nothing else.
EvalReadsItsOwn ==
    \A i \in 1 .. Depth : stack[i].kind \in {"eval", "build"} =>
        IsPrefix(stack[i].got, Own(stack[i], Size[stack[i].text]))

\* ... and all of it: none is ever cut short by another one's end.
EvalReadsAll ==
    [][Reading /\ Running.kind \in {"eval", "build"} /\ stack'[1].phase = "parsed"
       /\ Depth = Len(stack') => stack'[1].got = Own(Running, Size[Running.text])]_readerVars

\* A string source belongs to a reader that has not closed it; when the
\* commands are done nothing is left of any.
SourcesHaveReaders ==
    /\ \A i \in DOMAIN sources : \E j \in 1 .. Depth :
          stack[j].name = sources[i].name /\ stack[j].text = sources[i].text
    /\ \A i, j \in DOMAIN sources : sources[i].name = sources[j].name => i = j
    /\ stack = << >> => fast = NoSource /\ DOMAIN files = {}

\* Every command comes to its end.
CommandsEnd == stack # << >> ~> stack = << >>

\* Readers, their sources and what they have read fit together.
ReadersInv == ReadersTypeOK /\ EvalReadsItsOwn /\ SourcesHaveReaders
=============================================================================
