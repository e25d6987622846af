----------------------------- MODULE Periphery -----------------------------
(***************************************************************************)
(* The two contracts that stand in front of the pairs, for anyone to call: *)
(* the router and the LP converter.  Both hold nothing between             *)
(* transactions but what was left or sent there, and a route may name      *)
(* either of them as its receiver.                                         *)
(***************************************************************************)
EXTENDS MultiHop, LpConverter

CONSTANTS
  Traded,  \* coins that users come by and spend
  Gifts    \* coins that are sent to the converter by plain transfer

ASSUME TradeAssumption == Traded \cup Gifts \subseteq Coins

Balances == [Accounts -> [Coins -> Nat]]
Stakes == [Pairs -> [Users -> Nat]]
TmpDatas == [owner : Users, to : Pairs, coins : SUBSET Coins]

(* what a transaction goes back to if it fails, and what it is asked to do *)
Snapshots == [balance : Balances, staked : Stakes, stored : TmpDatas \cup {NONE}]
RouteJobs == [kind : {"route"}, sender : Traders, sent : UNION {[{c} -> Nat] : c \in Coins},
              operations : Routes, receiver : Traders \cup Contracts, minimum : Minimums]
ConvertJobs == [kind : {"convert"}, owner : Users, to : Pairs]

ASSUME NoneAssumption == NONE \notin TmpDatas \cup Snapshots \cup RouteJobs \cup ConvertJobs \cup Nat

Init ==
  /\ balance = [a \in Accounts |-> [c \in Coins |-> 0]]
  /\ staked = [p \in Pairs |-> [u \in Users |-> 0]]
  /\ stored = NONE
  /\ running = FALSE
  /\ queue = <<>>
  /\ before = NONE
  /\ job = NONE
  /\ undone = FALSE
  /\ begun = 0

(* A user spends what it has and comes by something else *)
Trade(u, c, amount) == Outside(Credit([balance EXCEPT ![u] = [coin \in Coins |-> 0]], u, Of(c, amount)))

Give(c) == Holds(c) < MaxHeld /\ Outside([balance EXCEPT ![Converter][c] = @ + 1])

(* The steps of a transaction that has begun *)
Transact == RouterRuns \/ ConverterRuns \/ Commit \/ Abort

Next ==
  \/ RouterBegins
  \/ ConverterBegins
  \/ Transact
  \/ \E u \in Traders, c \in Traded, amount \in 0..MaxHeld : Trade(u, c, amount)
  \/ \E c \in Gifts : Give(c)

(* The chain runs the messages of a transaction to the last, or undoes them; *)
(* nobody has to begin one                                                   *)
Fairness == WF_vars(Transact)

Spec == Init /\ [][Next]_vars /\ Fairness
----------------------------------------------------------------------------
(* The types of the state.  No balance goes below zero although no message  *)
(* of the contracts is checked against it: what a handler has read to send  *)
(* is still there when the message runs.                                    *)
TypeOK ==
  /\ balance \in Balances
  /\ staked \in Stakes
  /\ stored \in TmpDatas \cup {NONE}
  /\ \A i \in DOMAIN queue : queue[i].kind \in {"swap", "assert", "withdraw", "bond", "provide", "stake"}
  /\ running <=> before # NONE
  /\ running <=> job # NONE
  /\ begun <= MaxBegun
  /\ ~running => queue = <<>>
=============================================================================
