------------------------------ MODULE MCExamples ------------------------------
(* The rule-based programs of the examples: the concurrent server and the    *)
(* load generator.  A behaviour is one of one of them; the other is idle.    *)
EXTENDS MCComplexServer, AbClone

VARIABLE part

allVars == <<part, vars, loadVars>>

MCWorlds ==
    {[most |-> 1, sound |-> TRUE], [most |-> 2, sound |-> TRUE], [most |-> 1, sound |-> FALSE]}

MCInit ==
    /\ part \in {"server", "load"} /\ Init /\ LoadInit
    /\ part = "server" => world = [most |-> 1, sound |-> FALSE]

MCNext ==
    \/ part = "server" /\ Next /\ UNCHANGED <<part, loadVars>>
    \/ part = "load" /\ LoadNext /\ UNCHANGED <<part, vars>>
    \/ part = "load" /\ doing # Rules /\ UNCHANGED allVars           \* waits, or is over

MCSpec ==
    /\ MCInit /\ [][MCNext]_allVars
    /\ WF_allVars(part = "server" /\ Fire /\ UNCHANGED <<part, loadVars>>)
    /\ WF_allVars(part = "load" /\ GetsOn /\ UNCHANGED <<part, vars>>)
    /\ WF_allVars(part = "load" /\ Answered /\ UNCHANGED <<part, vars>>)
=============================================================================
