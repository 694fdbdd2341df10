------------------------- MODULE MCTruthMaintenance -------------------------
(* Three rules on the facts (a 1) (a 2) (b 1) (b 2), joined as ConstructJoins *)
(* does, with its sharing and its order of links.                             *)
(*   T1: (logical (a ?x) (not (b ?x)))        T3: (logical (a))                *)
(*   T2: (not (and (a ?x) (b ?x))) (exists (b))                                *)
EXTENDS TruthMaintenance

CONSTANTS A, B, a1, a2, b1, b2

MCJoin == {"A1", "N1", "T1", "T3", "K2", "O", "T2", "X"}
MCRight == [j \in MCJoin |->
    CASE j = "A1" -> A [] j \in {"N1", "K2", "X"} -> B [] j = "O" -> "K2" [] OTHER -> None]
MCSense == [j \in MCJoin |-> IF j \in {"N1", "O"} THEN "negated"
                             ELSE IF j = "X" THEN "exists" ELSE "positive"]
L(j) == <<j, "LHS">>
MCLinks == [j \in MCJoin |->
    CASE j = "A1" -> <<L("T3"), L("K2"), L("N1")>> [] j = "N1" -> <<L("T1")>>
      [] j = "K2" -> <<<<"O", "RHS">>>> [] j = "O" -> <<L("X")>>
      [] j = "X" -> <<L("T2")>> [] OTHER -> << >>]
MCFirst == {"A1", "O"}
MCEntry == A :> <<"A1">> @@ B :> <<"X", "K2", "N1">>
MCMatches(f) == IF f \in {a1, a2} THEN <<A>> ELSE <<B>>

Value(f) == IF f \in {a1, b1} THEN 1 ELSE 2
MCTest(j, l, r) == j \in {"N1", "K2"} => Value(Last(l)) = Value(r[1])
=============================================================================
