---------------------------- MODULE LpConverter ----------------------------
(***************************************************************************)
(* The LP converter, contracts/lp-converter/src/contract.rs: LP tokens of  *)
(* a pair of a coin become staked LP tokens of the pair of its liquid      *)
(* staking derivative.  Convert withdraws the liquidity; the reply bonds   *)
(* the coin at the hub; the reply to that provides what there is now to    *)
(* the other pair; and the reply to that stakes the LP tokens.             *)
(*                                                                         *)
(* Each reply runs right after its message and looks at whole balances.    *)
(* The chosen pairs are real pairs with their own staking contracts.       *)
(***************************************************************************)
EXTENDS Transactions

CONSTANTS
  Converter,  \* this contract
  BaseDenom,  \* Config.base_denom, which the hub bonds
  Derivative  \* Config.token_contract, which the hub mints

ASSUME ConverterAssumption == /\ Converter \in Contracts
                              /\ {BaseDenom, Derivative} \subseteq Coins /\ BaseDenom # Derivative

Holds(coin) == balance[Converter][coin]

(* the assets to provide: the derivative instead of its coin *)
Replaced(from) == {IF c = BaseDenom THEN Derivative ELSE c : c \in from}

(* A bug: an older TMP_DATA is kept *)
StoredOnce(owner, from, to) ==
  IF stored # NONE THEN stored ELSE [owner |-> owner, to |-> to, coins |-> Replaced(from)]

(* TMP_DATA of a conversion *)
TmpData(owner, from, to) == [owner |-> owner, to |-> to, coins |-> Replaced(from)]

(* Convert, of LP tokens that a staking contract releases and transfers in  *)
(* the same transaction (MigrateStake), or, released being zero, by anybody *)
Convert(owner, released, amount, from, to) ==
  /\ Begin([kind |-> "convert", owner |-> owner, to |-> to],
           <<[kind |-> "withdraw", pair |-> from, amount |-> amount]>>)
  /\ balance' = Credit(balance, Converter, Of(LpOf[from], released))
  /\ stored' = TmpData(owner, from, to)
  /\ UNCHANGED staked

(* A bug: as much is bonded as there were LP tokens *)
ToBondOfLp(amount, held) == amount

(* what the reply to the withdrawal bonds: all there is of the coin *)
ToBond(amount, held) == held[BaseDenom]

(* The pair takes the LP tokens and pays both assets; the reply (reply 1)   *)
(* bonds the coin                                                           *)
RunWithdraw ==
  /\ Running("withdraw")
  /\ LET m == Head(queue) IN
     /\ m.amount <= Holds(LpOf[m.pair])
     /\ \E paid \in [m.pair -> Paid] :
          balance' = Credit(Debit(balance, Converter, LpOf[m.pair], m.amount), Converter, paid)
  /\ Run(<<[kind |-> "bond", amount |-> ToBond(Head(queue).amount, balance'[Converter])]>>)
  /\ UNCHANGED <<staked, stored>>

(* what the reply to the bonding provides: all there is of the assets *)
Provision(held) == [c \in stored.coins |-> held[c]]

(* The hub bonds the coin, which cannot be nothing; the reply (reply 2)     *)
(* provides liquidity                                                       *)
RunBond ==
  /\ Running("bond")
  /\ LET m == Head(queue) IN
     /\ m.amount > 0
     /\ \E paid \in Paid :
          balance' = Credit(Debit(balance, Converter, BaseDenom, m.amount), Converter, Of(Derivative, paid))
  /\ Run(<<[kind |-> "provide", pair |-> stored.to, amounts |-> Provision(balance'[Converter])]>>)
  /\ UNCHANGED <<staked, stored>>

(* The pair takes the assets if they are its own; the reply (reply 3) sends *)
(* all there is of its LP token to its staking contract                     *)
RunProvide ==
  /\ Running("provide")
  /\ LET m == Head(queue) IN
     /\ DOMAIN m.amounts = m.pair
     /\ \A c \in m.pair : m.amounts[c] > 0
     /\ \E minted \in Paid :
          balance' = Credit([balance EXCEPT ![Converter] =
                               [c \in Coins |-> @[c] - (IF c \in m.pair THEN m.amounts[c] ELSE 0)]],
                            Converter, Of(LpOf[m.pair], minted))
  /\ Run(<<[kind |-> "stake", pair |-> stored.to, owner |-> stored.owner,
            amount |-> balance'[Converter][LpOf[stored.to]]]>>)
  /\ UNCHANGED <<staked, stored>>

(* The staking contract delegates as the owner *)
RunStake ==
  /\ Running("stake")
  /\ LET m == Head(queue) IN
     /\ balance' = Debit(balance, Converter, LpOf[m.pair], m.amount)
     /\ staked' = [staked EXCEPT ![m.pair][m.owner] = @ + m.amount]
  /\ Run(<<>>)
  /\ UNCHANGED stored

ConverterBegins ==
  \E owner \in Users, amount \in Paid, from, to \in Pairs :
    \E released \in {0, amount} : Convert(owner, released, amount, from, to)

ConverterRuns == RunWithdraw \/ RunBond \/ RunProvide \/ RunStake
----------------------------------------------------------------------------
Converting(owner, to) == running /\ job = [kind |-> "convert", owner |-> owner, to |-> to]

(* the stake of the owner, and of nobody else, has grown, and the converter *)
(* has nothing left of what it went through                                 *)
Converted(owner, to) ==
  /\ \A p \in Pairs, u \in Users :
       IF p = to /\ u = owner THEN staked[p][u] > before.staked[p][u]
                              ELSE staked[p][u] = before.staked[p][u]
  /\ \A c \in to \cup {BaseDenom, LpOf[to]} : Holds(c) = 0

(* Every conversion that is accepted ends, with stake for its own owner and *)
(* all that was bought on the way and lay there from before in it, or else  *)
(* it is undone (contract.rs 87-290).                                       *)
ConversionEnds ==
  \A owner \in Users, to \in Pairs :
    Converting(owner, to) ~> undone \/ (Converting(owner, to) /\ queue = <<>> /\ Converted(owner, to))
=============================================================================
