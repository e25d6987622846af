------------------------------ MODULE MCStake ------------------------------
(* Instances of Stake small enough for TLC *)
EXTENDS Stake, TLC

(* two LP tokens for each account *)
TwoEach == [a \in Account |-> 2]

(* two for the accounts other than the unbonder, who can stake them for it *)
TwoOutside == [a \in Account |-> IF a = Unbonder THEN 0 ELSE 2]

NoMultipliers == {}

(* one and a half power per token, so powers are rounded *)
OneAndAHalf == {[p \in Periods |-> DecimalOne + DecimalOne \div 2]}

(* the accounts are interchangeable when none of them has a role *)
Symmetry == Permutations(Account)
============================================================================
