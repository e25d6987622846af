------------------------------ MODULE FeeFlow ------------------------------
(***************************************************************************)
(* Where protocol fees go: the nominated trader turns them into PALOMA,    *)
(* its owner transfers PALOMA to the splitter, anybody has the splitter    *)
(* pay it out.  Native tokens reach the splitter directly.                 *)
(***************************************************************************)
EXTENDS NominatedTrader, Splitter

CONSTANT MaxShared  \* bound: how much of each token the splitter ever gets

ASSUME FlowAssumption == Paloma \in Cw20s /\ MaxShared \in [Denoms \cup Cw20s -> Nat]

vars == <<traderVars, splitterVars>>

(* The splitter takes in amount more of a token *)
Take(t, amount) ==
  /\ held[t] + PaidOut(t) + amount <= MaxShared[t]
  /\ held' = [held EXCEPT ![t] = @ + amount]
  /\ UNCHANGED paid

(* The owner's Transfer, to the splitter or to anybody else *)
Spend(amount) == Transfer(amount) /\ (Take(Paloma, amount) \/ UNCHANGED splitterVars)

(* Anybody sends native coins to the splitter *)
Deposit(denom) == ~running /\ Take(denom, 1) /\ UNCHANGED traderVars

Split == ~running /\ SplitterNext /\ UNCHANGED traderVars

Init == TraderInit /\ SplitterInit

Next ==
  \/ TraderNext /\ UNCHANGED splitterVars
  \/ \E amount \in 1..MaxHeld : Spend(amount)
  \/ \E denom \in Denoms : Deposit(denom)
  \/ Split

Spec == Init /\ [][Next]_vars

(* TraderTypeOK and SplitterTypeOK *)
TypeOK == TraderTypeOK /\ SplitterTypeOK
============================================================================
