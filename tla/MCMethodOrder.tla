---------------------------- MODULE MCMethodOrder ----------------------------
(* One generic function, and methods of it that differ in the number of their *)
(* parameters.                                                                *)
EXTENDS Generics

MCClass == {"INTEGER", "SYMBOL"}
MCGeneric == {"f"}
Takes(classes) ==
    [params |-> [i \in DOMAIN classes |-> Param(<<classes[i]>>, 0)], wild |-> FALSE]
MCSignature == [f |-> {Takes(<<"INTEGER">>), Takes(<<"INTEGER", "SYMBOL">>)}]
MCArguments == {<<"INTEGER">>}
MCMaxMethods == [f |-> 2]
=============================================================================
