------------------------------ MODULE MultiHop ------------------------------
(***************************************************************************)
(* The multi-hop router, contracts/multi-hop/src/contract.rs: a route is a *)
(* list of swaps, each of them a message the router sends to itself, and   *)
(* at the end, if asked for, a check of what the receiver got.             *)
(*                                                                         *)
(* Referral commissions, paid on the first swap only, and the limit on the *)
(* spread, which only a route of one swap has, are part of what a pair     *)
(* pays or refuses.  Messages of the router to itself that others send     *)
(* change nothing and are left out.                                        *)
(***************************************************************************)
EXTENDS Transactions

CONSTANTS
  Router,            \* this contract
  MaxSwapOperations, \* MAX_SWAP_OPERATIONS
  Traders,           \* users that send in routes, and receive what they pay
  Routes,            \* the operations users submit: sequences of [offer, ask]
  Minimums           \* minimum_receive of users, or NONE

ASSUME RouterAssumption == /\ Router \in Contracts /\ Traders \subseteq Users /\ MaxSwapOperations \in Nat
                           /\ Routes \subseteq Seq([offer : Coins, ask : Coins])
                           /\ Minimums \subseteq Nat \cup {NONE}

(* the assets that assert_operations finds asked for in the end *)
Outputs(operations) ==
  FoldLeft(LAMBDA asked, operation : (asked \ {operation.offer}) \cup {operation.ask}, {}, operations)

Target(operations) == Last(operations).ask

(* The messages of a route: only the last swap pays the receiver.  What the *)
(* receiver held is read when the messages are made.                        *)
RouteMessages(operations, receiver, minimum, held) ==
  [i \in DOMAIN operations |->
     [kind |-> "swap", offer |-> operations[i].offer, ask |-> operations[i].ask,
      to |-> IF i = Len(operations) THEN receiver ELSE Router]]
  \o (IF minimum = NONE THEN <<>>
      ELSE <<[kind |-> "assert", coin |-> Target(operations), prev |-> held,
              minimum |-> minimum, receiver |-> receiver]>>)

(* ExecuteSwapOperations, with coins attached or sent through the hook of a *)
(* cw20 token, whatever they are.  They arrive before the handler runs.     *)
ExecuteSwapOperations(sender, coin, amount, operations, receiver, minimum) ==
  LET arrived == Credit(Debit(balance, sender, coin, amount), Router, Of(coin, amount)) IN
  /\ amount \in 1..balance[sender][coin]
  /\ operations # <<>> /\ Len(operations) <= MaxSwapOperations
  /\ \E c \in Coins : Outputs(operations) = {c}
  /\ Begin([kind |-> "route", sender |-> sender, sent |-> Of(coin, amount), operations |-> operations,
            receiver |-> receiver, minimum |-> minimum],
           RouteMessages(operations, receiver, minimum, arrived[receiver][Target(operations)]))
  /\ balance' = arrived
  /\ UNCHANGED <<staked, stored>>

(* A bug: a hop offers one unit, not what there is *)
OfferedOne(coin) == IF balance[Router][coin] > 0 THEN 1 ELSE 0

(* a swap offers all that the router holds of the asset *)
Offered(coin) == balance[Router][coin]

(* ExecuteSwapOperation and the pair's swap *)
RunSwap ==
  /\ Running("swap")
  /\ LET m == Head(queue) IN
     /\ {m.offer, m.ask} \in Pairs
     /\ Offered(m.offer) > 0
     /\ \E paid \in Paid :
          balance' = Credit(Debit(balance, Router, m.offer, Offered(m.offer)), m.to, Of(m.ask, paid))
  /\ Run(<<>>)
  /\ UNCHANGED <<staked, stored>>

(* A bug: what the receiver held before counts *)
EnoughInAll(m) == balance[m.receiver][m.coin] >= m.minimum

Enough(m) ==
  LET now == balance[m.receiver][m.coin] IN now >= m.prev /\ now - m.prev >= m.minimum

(* AssertMinimumReceive *)
RunAssert ==
  /\ Running("assert")
  /\ Enough(Head(queue))
  /\ Run(<<>>)
  /\ UNCHANGED <<balance, staked, stored>>

RouterBegins ==
  \E sender \in Traders, coin \in Coins, amount \in 1..MaxHeld, operations \in Routes,
     receiver \in Traders \cup Contracts, minimum \in Minimums :
    ExecuteSwapOperations(sender, coin, amount, operations, receiver, minimum)

RouterRuns == RunSwap \/ RunAssert
----------------------------------------------------------------------------
(* every swap offers what the one before it asked for *)
Chained(operations) == \A i \in 2..Len(operations) : operations[i].offer = operations[i - 1].ask

(* what the sender attached of a coin *)
SentOf(coin) == IF coin \in DOMAIN job.sent THEN job.sent[coin] ELSE 0

(* A route that goes through gave its receiver at least the minimum, over   *)
(* what it had when the route began and not counting what it put in.  If    *)
(* its swaps are chained it left nothing of the way in the router, neither  *)
(* of its own nor what others left before.  The converter, say, only ever   *)
(* gets what is sent to it (contract.rs 130-188 and 245-345).               *)
RouteDelivered ==
  running /\ queue = <<>> /\ job.kind = "route" =>
    LET target == Target(job.operations)
        put == IF job.receiver = job.sender THEN SentOf(target)
               ELSE IF job.receiver = Router THEN -SentOf(target) ELSE 0
    IN /\ job.minimum # NONE =>
            balance[job.receiver][target] >= before.balance[job.receiver][target] - put + job.minimum
       /\ Chained(job.operations) /\ job.receiver # Router =>
            \A i \in DOMAIN job.operations : balance[Router][job.operations[i].offer] = 0
       /\ \A a \in Accounts \ {Router, job.sender, job.receiver} : balance[a] = before.balance[a]
=============================================================================
