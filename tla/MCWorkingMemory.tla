--------------------------- MODULE MCWorkingMemory ---------------------------
(* What the facts and the instances are kept in: truth maintenance over the  *)
(* network of MCTruthMaintenance, instances of two names that share a chain, *)
(* and queries on the facts of a template.  A behaviour is one of one of     *)
(* them; the others stay idle.                                               *)
EXTENDS MCTruthMaintenance, Instances, FactQueries

VARIABLE part

MCInstanceName == {"x", "y"}
MCHashInstance == [x |-> 1, y |-> 1]

MCInit ==
    /\ part \in {"facts", "instances", "queries"}
    /\ Init /\ InstancesInit /\ QueriesInit
    /\ part # "instances" => orderly
    /\ part # "queries" => tidy

MCNext ==
    \/ part = "facts" /\ Next /\ UNCHANGED <<part, instanceVars, queryVars>>
    \/ part = "instances" /\ InstancesNext /\ UNCHANGED <<part, vars, queryVars>>
    \/ /\ part = "queries" /\ QueriesNext /\ UNCHANGED <<part, vars, instanceVars>>
       /\ tidy \/ Len(heap'.facts) < MaxFacts                       \* bound
    \/ /\ store.stray \/ heap.astray                               \* anything may follow
       /\ UNCHANGED <<part, vars, instanceVars, queryVars>>

MCSpec == MCInit /\ [][MCNext]_<<part, vars, instanceVars, queryVars>>
=============================================================================
