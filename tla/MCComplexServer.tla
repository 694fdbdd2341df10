--------------------------- MODULE MCComplexServer ---------------------------
(* Small instances of ComplexServer for TLC.                               *)
EXTENDS ComplexServer

CONSTANTS a, b

MCClient == {a, b}
MCStay == {}
MCEither == {"finished", "gone"}
Symmetry == Permutations(MCClient)
=============================================================================
