---------------------------- MODULE TokenUnits ----------------------------
(***************************************************************************)
(* Sums of token amounts.  An amount f[x] stands for the units <<x, 1>>,   *)
(* ..., <<x, f[x]>>, so the sum of f over S is the number of its units.    *)
(* Written as a cardinality, a sum needs no recursion, and facts about it  *)
(* follow from facts about finite sets (module TokenUnitsProofs).          *)
(***************************************************************************)
EXTENDS Naturals, FiniteSets

Units(f, S) == UNION {{x} \X (1..f[x]) : x \in S}

Total(f, S) == Cardinality(Units(f, S))

(* cosmwasm_std::Uint128::saturating_sub *)
SaturatingSub(x, y) == IF x >= y THEN x - y ELSE 0
============================================================================
