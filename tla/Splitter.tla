------------------------------ MODULE Splitter ------------------------------
(***************************************************************************)
(* The splitter, contracts/splitter/src: whatever it holds of the tokens a *)
(* message lists is paid out to fixed recipients by weight.  Anyone may    *)
(* send SendTokens, at any time.  What rounding leaves stays for the next  *)
(* split.                                                                  *)
(***************************************************************************)
EXTENDS Integers, FiniteSets, TokenUnits

CONSTANTS
  Denoms,      \* native denoms it may hold
  Cw20s,       \* cw20 tokens it may hold
  Recipients,  \* Config.addresses
  Weight,      \* their weights
  WeightOne,   \* the denominator of a weight (Decimal)
  MaxListed    \* bound: how often a message lists the same cw20 token

(* validate_addresses: the weights add up to one *)
ValidWeights == Weight \in [Recipients -> Nat] /\ Total(Weight, Recipients) = WeightOne

ASSUME WeightAssumption == IsFiniteSet(Recipients) /\ WeightOne \in Nat \ {0} /\ ValidWeights
ASSUME TokenAssumption == Denoms \cap Cw20s = {} /\ MaxListed \in Nat

VARIABLES
  held,  \* what the contract holds of each token
  paid   \* what each recipient has received of it

splitterVars == <<held, paid>>

Splittable == Denoms \cup Cw20s

(* Uint128 * Decimal rounds down *)
Share(r, amount) == (amount * Weight[r]) \div WeightOne

(* Mutant: shares of zero of a cw20 token are left out like native ones *)
SendTokensSkipZero(denoms, listed) ==
  LET times == [t \in Splittable |-> IF t \in Denoms THEN IF t \in denoms THEN 1 ELSE 0 ELSE listed[t]]
      pays == [r \in Recipients |-> [t \in Splittable |-> times[t] * Share(r, held[t])]]
      total == [t \in Splittable |-> Total([r \in Recipients |-> pays[r][t]], Recipients)]
  IN /\ \A t \in Splittable : total[t] <= held[t]
     /\ held' = [t \in Splittable |-> held[t] - total[t]]
     /\ paid' = [r \in Recipients |-> [t \in Splittable |-> paid[r][t] + pays[r][t]]]

(* Mutant: only the messages for one recipient are kept *)
SendTokensLastOnly(denoms, listed) ==
  LET listedTokens == denoms \cup {t \in Cw20s : listed[t] > 0}
      r == CHOOSE r \in Recipients : \A other \in Recipients : Weight[r] <= Weight[other]
      pays == [t \in Splittable |-> IF t \in listedTokens THEN Share(r, held[t]) ELSE 0]
  IN /\ held' = [t \in Splittable |-> held[t] - pays[t]]
     /\ paid' = [paid EXCEPT ![r] = [t \in Splittable |-> @[t] + pays[t]]]

(* SendTokens: a native denom is listed once, since the bank takes no coins *)
(* that repeat a denom, and shares of zero are left out.  A cw20 token may  *)
(* be listed any number of times; it is left out when nothing is held of    *)
(* it, but a share of zero fails the message, as does paying more than is   *)
(* held.  The shares all come from the balances read at the start.          *)
SendTokens(denoms, listed) ==
  LET times == [t \in Splittable |-> IF t \in Denoms THEN IF t \in denoms THEN 1 ELSE 0 ELSE listed[t]]
      pays == [r \in Recipients |-> [t \in Splittable |-> times[t] * Share(r, held[t])]]
      total == [t \in Splittable |-> Total([r \in Recipients |-> pays[r][t]], Recipients)]
  IN /\ \A t \in Cw20s : listed[t] > 0 /\ held[t] > 0 => \A r \in Recipients : Share(r, held[t]) > 0
     /\ \A t \in Splittable : total[t] <= held[t]
     /\ held' = [t \in Splittable |-> held[t] - total[t]]
     /\ paid' = [r \in Recipients |-> [t \in Splittable |-> paid[r][t] + pays[r][t]]]

SplitterInit ==
  /\ held = [t \in Splittable |-> 0]
  /\ paid = [r \in Recipients |-> [t \in Splittable |-> 0]]

SplitterNext == \E denoms \in SUBSET Denoms, listed \in [Cw20s -> 0..MaxListed] : SendTokens(denoms, listed)
----------------------------------------------------------------------------
SplitterTypeOK ==
  /\ held \in [Splittable -> Nat]
  /\ paid \in [Recipients -> [Splittable -> Nat]]

(* Everything paid out of a token *)
PaidOut(t) == Total([r \in Recipients |-> paid[r][t]], Recipients)

(* A split pays every recipient exactly its share of what was held, once:   *)
(* listing a token several times never pays it several times, and no        *)
(* recipient of a cw20 token is passed over (contract.rs 106-157).           *)
SharesPaidOnce ==
  [][\A t \in Splittable : PaidOut(t)' # PaidOut(t) =>
       \A r \in Recipients : /\ paid'[r][t] = paid[r][t] + Share(r, held[t])
                             /\ t \in Cw20s => paid'[r][t] > paid[r][t]]_splitterVars

(* What a split leaves of a token is rounding: less than one unit for each  *)
(* recipient (contract.rs 55 and 106-157: the weights add up to one).     *)
OnlyDustLeft ==
  [][\A t \in Splittable : PaidOut(t)' # PaidOut(t) => held'[t] < Cardinality(Recipients)]_splitterVars
=============================================================================
