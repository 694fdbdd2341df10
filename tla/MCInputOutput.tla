--------------------------- MODULE MCInputOutput ---------------------------
(* Small instances of Readers (a defglobal dg, a function call fc, an      *)
(* expression ex, load and batch* files) and of Routers.  A behaviour is    *)
(* one of one of them; the other stays idle.                               *)
EXTENDS Readers, Routers

CONSTANTS dg, fc, ex, lf, bf, n, b1, b2

VARIABLE part

MCSize == (dg :> 2) @@ (fc :> 1) @@ (ex :> 1) @@ (lf :> 2) @@ (bf :> 2)
MCCommandOf(b, i) == IF i = 1 THEN fc ELSE dg

\* Characters are numbered; those divisible by ten end a line.
MCConsole == <<1, 10, 20>>
MCChar == 1 .. 51 \cup {101}
MCText == (b1 :> <<30, 31, 40>>) @@ (b2 :> <<51>>)
MCNewLine == {10 * i : i \in 1 .. 5}
MCOutput == <<101>>

MCInit == part \in {"readers", "routers"} /\ ReadersInit /\ RoutersInit

MCNext ==
    \/ part = "readers" /\ ReadersNext /\ UNCHANGED <<part, routerVars>>
    \/ part = "routers" /\ RoutersNext /\ UNCHANGED <<part, readerVars>>

MCSpec ==
    /\ MCInit /\ [][MCNext]_<<part, readerVars, routerVars>>
    /\ WF_readerVars(part = "readers" /\ Go /\ UNCHANGED <<part, routerVars>>)
    /\ WF_routerVars(part = "routers" /\ LoopRead /\ UNCHANGED <<part, readerVars>>)
    /\ WF_routerVars(part = "routers" /\ EndOfCommand /\ UNCHANGED <<part, readerVars>>)
    /\ WF_routerVars(part = "routers" /\ FillBuffer /\ UNCHANGED <<part, readerVars>>)

\* router.c:233, commline.c:645: in a session, all input is read in the end,
\* unless exit comes first.
SessionInputIsRead ==
    <>[](part = "routers" => session \in {"exit", "over"} \/ ~HasInput(m))
=============================================================================
