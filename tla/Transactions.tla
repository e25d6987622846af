---------------------------- MODULE Transactions ----------------------------
(***************************************************************************)
(* What the multi-hop router and the LP converter stand on: balances, and  *)
(* transactions of several messages.  A handler answers with messages that *)
(* run after it, in order; the first that fails undoes everything since    *)
(* the transaction began.  Nothing else happens on the chain meanwhile.    *)
(*                                                                         *)
(* What a pair or the hub pays is left open, as long as it is something:   *)
(* both refuse to pay nothing.                                             *)
(***************************************************************************)
EXTENDS Integers, SequencesExt

CONSTANTS
  NONE,      \* no value
  Users,     \* accounts of users
  Contracts, \* accounts of the contracts modelled
  Coins,     \* native coins and cw20 tokens
  Pairs,     \* the pairs the factory has registered, each a set of two coins
  LpOf,      \* the LP token of a pair
  MaxPaid,   \* bound: what a pair or the hub pays at once
  MaxHeld,   \* bound: what a user holds of a coin before a transaction
  MaxBegun   \* bound: transactions

ASSUME AccountAssumption == Users \cap Contracts = {}
ASSUME PairAssumption ==
  /\ \A p \in Pairs : \E a, b \in Coins : a # b /\ p = {a, b}
  /\ LpOf \in [Pairs -> Coins] /\ IsInjective(LpOf)
ASSUME BoundAssumption == MaxPaid \in Nat \ {0} /\ MaxHeld \in Nat /\ MaxBegun \in Nat

Accounts == Users \cup Contracts

VARIABLES
  balance,  \* what each account holds of each coin
  staked,   \* LP tokens of a pair staked on behalf of an account
  stored,   \* what the converter stores between its messages (TMP_DATA)
  running,  \* whether a transaction is being executed
  queue,    \* its messages still to run
  before,   \* balance, staked and stored when it began, or NONE
  job,      \* what it was asked to do, or NONE (read by the properties only)
  undone,   \* whether the last transaction failed (read by the properties only)
  begun     \* how many transactions have begun (for the bound only)

vars == <<balance, staked, stored, running, queue, before, job, undone, begun>>

Paid == 1..MaxPaid

(* balances once an account has paid or received amounts of coins *)
Credit(b, account, amounts) ==
  [b EXCEPT ![account] = [c \in Coins |-> @[c] + (IF c \in DOMAIN amounts THEN amounts[c] ELSE 0)]]
Debit(b, account, coin, amount) == [b EXCEPT ![account][coin] = @ - amount]
Of(coin, amount) == [c \in {coin} |-> amount]

(* The handler that a transaction calls has answered with its messages *)
Begin(request, messages) ==
  /\ ~running
  /\ begun < MaxBegun /\ begun' = begun + 1
  /\ running' = TRUE
  /\ queue' = messages
  /\ before' = [balance |-> balance, staked |-> staked, stored |-> stored]
  /\ job' = request
  /\ undone' = FALSE

(* A message has run, and answers with messages of its own *)
Run(messages) ==
  /\ queue' = messages \o Tail(queue)
  /\ UNCHANGED <<running, before, job, undone, begun>>

Running(kind) == queue # <<>> /\ Head(queue).kind = kind

(* The transaction is over, and has failed or not *)
End(failed) ==
  /\ running' = FALSE
  /\ queue' = <<>>
  /\ before' = NONE
  /\ job' = NONE
  /\ undone' = failed
  /\ UNCHANGED begun

(* The last message has run *)
Commit ==
  /\ running /\ queue = <<>>
  /\ End(FALSE)
  /\ UNCHANGED <<balance, staked, stored>>

(* A message fails: a pair, the hub or the staking contract refuses it, or  *)
(* there is not enough to send                                              *)
Abort ==
  /\ queue # <<>>
  /\ End(TRUE)
  /\ balance' = before.balance
  /\ staked' = before.staked
  /\ stored' = before.stored

(* Coins move between transactions *)
Outside(balances) ==
  /\ ~running
  /\ balance' = balances
  /\ UNCHANGED <<staked, stored, running, queue, before, job, undone, begun>>
=============================================================================
