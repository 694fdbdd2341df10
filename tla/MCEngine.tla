------------------------------ MODULE MCEngine ------------------------------
(* Two rules of MAIN, the first with two matches and a salience that is     *)
(* computed, and an auto-focus rule of module AUX with a breakpoint.          *)
EXTENDS Engine

CONSTANTS AUX, r1, r2, r3, m1, m2, m3, m4

MCModule == {MAIN, AUX}
MCRule == {r1, r2, r3}
MCMatch == {m1, m2, m3, m4}
MCModuleOf == r1 :> MAIN @@ r2 :> MAIN @@ r3 :> AUX
MCRuleOf == m1 :> r1 @@ m2 :> r1 @@ m3 :> r2 @@ m4 :> r3
MCBasis == m1 :> <<1, 4>> @@ m2 :> <<2, 3>> @@ m3 :> <<2, 0>> @@ m4 :> <<5>>
MCComplexity == r1 :> 1 @@ r2 :> 2 @@ r3 :> 1
MCLimits == {-1, 2}

\* Under every strategy the activations of MAIN are in one order, whichever came first.
ASSUME StrategiesOrder == EveryStrategyOrders({m1, m2, m3})
=============================================================================
