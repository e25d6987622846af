-------------------------- MODULE PeripheryProofs --------------------------
(***************************************************************************)
(* Theorems about the router and the LP converter, for any users, coins,   *)
(* pairs, routes and amounts paid: no balance goes below zero, a route     *)
(* that goes through delivers, and so does a conversion.                   *)
(***************************************************************************)
EXTENDS Periphery, TLAPS

USE AccountAssumption, BoundAssumption, RouterAssumption, ConverterAssumption, TradeAssumption

----------------------------------------------------------------------------
(* Balances *)

LEMMA TwoCoins ==
  ASSUME NEW p \in Pairs
  PROVE  p \subseteq Coins /\ \A a, b : p = {a, b} => a \in Coins /\ b \in Coins /\ a # b
BY PairAssumption

LEMMA LpTokens ==
  ASSUME NEW p \in Pairs
  PROVE  LpOf[p] \in Coins
BY PairAssumption

LEMMA Parties ==
  /\ Router \in Accounts /\ Converter \in Accounts
  /\ Users \subseteq Accounts /\ Traders \subseteq Accounts
  /\ Router \notin Users /\ Converter \notin Users
BY DEF Accounts

(* how much of a coin there is among some amounts *)
In(amounts, c) == IF c \in DOMAIN amounts THEN amounts[c] ELSE 0

LEMMA CreditEffect ==
  ASSUME NEW b \in Balances, NEW account \in Accounts, NEW amounts,
         \A c \in Coins : In(amounts, c) \in Nat
  PROVE  LET after == Credit(b, account, amounts) IN
         /\ after \in Balances
         /\ \A a \in Accounts : a # account => after[a] = b[a]
         /\ \A c \in Coins : after[account][c] = b[account][c] + In(amounts, c)
<1> DEFINE row == [c \in Coins |-> b[account][c] + In(amounts, c)]
           after == Credit(b, account, amounts)
<1>1. b \in [Accounts -> [Coins -> Nat]] /\ b[account] \in [Coins -> Nat]
  BY DEF Balances
<1>2. row \in [Coins -> Nat]
  BY <1>1
<1>3. after = [b EXCEPT ![account] = row]
  BY <1>1 DEF Credit, In
<1> HIDE DEF after
<1>4. after[account] = row /\ \A a \in Accounts : a # account => after[a] = b[a]
  BY <1>1, <1>3
<1>5. after \in Balances
  <2> HIDE DEF row
  <2> QED BY <1>1, <1>2, <1>3 DEF Balances
<1> QED
  BY <1>4, <1>5 DEF after

LEMMA DebitEffect ==
  ASSUME NEW b \in Balances, NEW account \in Accounts, NEW coin \in Coins,
         NEW amount \in 0..b[account][coin]
  PROVE  LET after == Debit(b, account, coin, amount) IN
         /\ after \in Balances
         /\ \A a \in Accounts : a # account => after[a] = b[a]
         /\ after[account][coin] = b[account][coin] - amount
         /\ \A c \in Coins : c # coin => after[account][c] = b[account][c]
<1> DEFINE row == [b[account] EXCEPT ![coin] = @ - amount]
           after == Debit(b, account, coin, amount)
<1>1. b \in [Accounts -> [Coins -> Nat]] /\ b[account] \in [Coins -> Nat] /\ b[account][coin] \in Nat
  BY DEF Balances
<1>2. b[account][coin] - amount \in Nat
  BY <1>1
<1>3. row \in [Coins -> Nat]
  BY <1>1, <1>2
<1>4. after = [b EXCEPT ![account] = row]
  BY <1>1 DEF Debit
<1> HIDE DEF after
<1>5. after[account] = row /\ \A a \in Accounts : a # account => after[a] = b[a]
  BY <1>1, <1>4
<1>6. /\ row[coin] = b[account][coin] - amount
      /\ \A c \in Coins : c # coin => row[c] = b[account][c]
  BY <1>1
<1> HIDE DEF row
<1>7. after \in Balances
  BY <1>1, <1>3, <1>4 DEF Balances
<1> QED
  BY <1>5, <1>6, <1>7 DEF after

(* An account pays a coin, and another, or the same, comes by another coin. *)
LEMMA ExchangeEffect ==
  ASSUME NEW b \in Balances, NEW from \in Accounts, NEW to \in Accounts,
         NEW coin \in Coins, NEW amount \in 0..b[from][coin],
         NEW other \in Coins, other # coin, NEW paid \in Nat
  PROVE  LET after == Credit(Debit(b, from, coin, amount), to, Of(other, paid)) IN
         /\ after \in Balances
         /\ \A a \in Accounts : a # from /\ a # to => after[a] = b[a]
         /\ after[from][coin] = b[from][coin] - amount
         /\ after[to][other] = b[to][other] + paid
         /\ \A c \in Coins : c # coin /\ c # other => after[from][c] = b[from][c]
         /\ from # to => after[from][other] = b[from][other]
<1> DEFINE less == Debit(b, from, coin, amount)
           got == Of(other, paid)
           after == Credit(less, to, got)
<1>1. /\ less \in Balances
      /\ \A a \in Accounts : a # from => less[a] = b[a]
      /\ less[from][coin] = b[from][coin] - amount
      /\ \A c \in Coins : c # coin => less[from][c] = b[from][c]
  BY DebitEffect
<1>2. In(got, other) = paid /\ \A c : c # other => In(got, c) = 0
  BY DEF In, Of
<1> HIDE DEF less, got
<1>3. /\ after \in Balances
      /\ \A a \in Accounts : a # to => after[a] = less[a]
      /\ \A c \in Coins : after[to][c] = less[to][c] + In(got, c)
  <2>1. \A c \in Coins : In(got, c) \in Nat
    <3> SUFFICES ASSUME NEW c \in Coins PROVE In(got, c) \in Nat
      OBVIOUS
    <3> QED BY <1>2
  <2> QED BY <1>1, <2>1, CreditEffect
<1> HIDE DEF after
<1>4. \A c \in Coins : less[to][c] \in Nat
  BY <1>1 DEF Balances
<1>5. \A c \in Coins : c # other => after[to][c] = less[to][c]
  <2> SUFFICES ASSUME NEW c \in Coins, c # other PROVE after[to][c] = less[to][c]
    OBVIOUS
  <2>1. after[to][c] = less[to][c] + 0 /\ less[to][c] \in Nat
    BY <1>2, <1>3, <1>4
  <2> QED BY <2>1
<1>6. after[to][other] = less[to][other] + paid
  BY <1>2, <1>3
<1>7. less[to][other] = b[to][other]
  BY <1>1
<1>8. after[from][coin] = b[from][coin] - amount
  <2>1. CASE from = to
    BY <1>1, <1>5, <2>1
  <2>2. CASE from # to
    BY <1>1, <1>3, <2>2
  <2> QED BY <2>1, <2>2
<1>9. \A c \in Coins : c # coin /\ c # other => after[from][c] = b[from][c]
  <2>1. CASE from = to
    BY <1>1, <1>5, <2>1
  <2>2. CASE from # to
    BY <1>1, <1>3, <2>2
  <2> QED BY <2>1, <2>2
<1>10. from # to => after[from][other] = b[from][other]
  BY <1>1, <1>3
<1>11. \A a \in Accounts : a # from /\ a # to => after[a] = b[a]
  BY <1>1, <1>3
<1> QED
  BY <1>3, <1>6, <1>7, <1>8, <1>9, <1>10, <1>11 DEF after, less, got


----------------------------------------------------------------------------
(* A running route: how far it is, from its job j and the balances b0 it   *)
(* started from                                                            *)

(* how many messages it has in all *)
Steps(j) == Len(j.operations) + (IF j.minimum = NONE THEN 0 ELSE 1)

(* what the receiver had, without what it put in *)
HadBefore(j, b0) ==
  LET target == Target(j.operations)
      put == IF j.receiver = j.sender THEN In(j.sent, target)
             ELSE IF j.receiver = Router THEN -In(j.sent, target) ELSE 0
  IN b0[j.receiver][target] - put

(* its i-th message *)
MessageOf(j, b0, i) ==
  IF i <= Len(j.operations)
  THEN [kind |-> "swap", offer |-> j.operations[i].offer, ask |-> j.operations[i].ask,
        to |-> IF i = Len(j.operations) THEN j.receiver ELSE Router]
  ELSE [kind |-> "assert", coin |-> Target(j.operations), prev |-> HadBefore(j, b0),
        minimum |-> j.minimum, receiver |-> j.receiver]

(* the messages left once k of them have run *)
Rest(j, b0, k) == [i \in 1..(Steps(j) - k) |-> MessageOf(j, b0, k + i)]

(* Only those concerned have been paid. *)
OthersKept(j, b0, b) == \A a \in Accounts \ {Router, j.sender, j.receiver} : b[a] = b0[a]

(* The assertion has run only if it held. *)
MinimumMet(j, b0, k, b) ==
  k > Len(j.operations) => b[j.receiver][Target(j.operations)] >= HadBefore(j, b0) + j.minimum

(* Nothing is left of what the k swaps offered, but for the next to offer. *)
WayCleared(j, k, b) ==
  Chained(j.operations) /\ j.receiver # Router =>
    \A i \in 1..Len(j.operations) : i <= k =>
      \/ b[Router][j.operations[i].offer] = 0
      \/ k < Len(j.operations) /\ j.operations[i].offer = j.operations[k + 1].offer

RouteAt(j, b0, k, q, b) ==
  /\ q = Rest(j, b0, k)
  /\ OthersKept(j, b0, b) /\ MinimumMet(j, b0, k, b) /\ WayCleared(j, k, b)

RouteOn ==
  /\ job \in RouteJobs /\ job.operations # <<>>
  /\ \E k \in 0..Steps(job) : RouteAt(job, before.balance, k, queue, balance)

----------------------------------------------------------------------------
(* A running conversion: its one message, and what it knows *)

ConvertStep(owner, to) ==
  \/ /\ \E pair \in Pairs, amount \in Paid : queue = <<[kind |-> "withdraw", pair |-> pair, amount |-> amount]>>
     /\ staked = before.staked
  \/ /\ queue = <<[kind |-> "bond", amount |-> Holds(BaseDenom)]>>
     /\ staked = before.staked
  \/ /\ queue = <<[kind |-> "provide", pair |-> to, amounts |-> Provision(balance[Converter])]>>
     /\ staked = before.staked
     /\ Holds(BaseDenom) = 0
  \/ /\ queue = <<[kind |-> "stake", pair |-> to, owner |-> owner, amount |-> Holds(LpOf[to])]>>
     /\ staked = before.staked
     /\ Holds(LpOf[to]) > 0
     /\ \A c \in to \cup {BaseDenom} : c # LpOf[to] => Holds(c) = 0
  \/ queue = <<>> /\ Converted(owner, to)

ConvertOn ==
  /\ job \in ConvertJobs
  /\ stored \in TmpDatas /\ BaseDenom \notin stored.coins
  /\ stored.owner = job.owner /\ stored.to = job.to
  /\ ConvertStep(job.owner, job.to)

(* The inductive invariant *)
PeripheryInv ==
  /\ balance \in Balances /\ staked \in Stakes /\ stored \in TmpDatas \cup {NONE}
  /\ begun \in 0..MaxBegun /\ running \in BOOLEAN
  /\ ~running => queue = <<>> /\ before = NONE /\ job = NONE
  /\ running => before \in Snapshots /\ (RouteOn \/ ConvertOn)


----------------------------------------------------------------------------
(* Routes *)

LEMMA NoneApart ==
  NONE \notin Nat /\ NONE \notin Snapshots /\ NONE \notin RouteJobs /\ NONE \notin ConvertJobs
BY NoneAssumption

LEMMA AttachedCoin ==
  ASSUME NEW coin \in Coins, NEW amount \in Nat
  PROVE  Of(coin, amount) \in UNION {[{c} -> Nat] : c \in Coins}
<1>1. Of(coin, amount) \in [{coin} -> Nat]
  BY DEF Of
<1> QED
  BY <1>1

LEMMA JobTypes ==
  ASSUME NEW j \in RouteJobs, j.operations # <<>>
  PROVE  /\ j.operations \in Seq([offer : Coins, ask : Coins]) /\ Len(j.operations) \in Nat \ {0}
         /\ \A i \in 1..Len(j.operations) :
              j.operations[i].offer \in Coins /\ j.operations[i].ask \in Coins
         /\ Target(j.operations) \in Coins
         /\ j.receiver \in Accounts /\ j.sender \in Users /\ j.kind = "route"
         /\ (j.minimum = NONE \/ j.minimum \in Nat)
         /\ Steps(j) \in Nat
         /\ Steps(j) = IF j.minimum = NONE THEN Len(j.operations) ELSE Len(j.operations) + 1
         /\ \A c \in Coins : In(j.sent, c) \in Nat
<1>1. /\ j.operations \in Routes /\ j.receiver \in Traders \cup Contracts /\ j.sender \in Traders
      /\ j.minimum \in Minimums /\ j.sent \in UNION {[{c} -> Nat] : c \in Coins} /\ j.kind = "route"
  BY DEF RouteJobs
<1>2. j.operations \in Seq([offer : Coins, ask : Coins])
  BY <1>1
<1>3. Len(j.operations) \in Nat \ {0}
  BY <1>2
<1>4. \A i \in 1..Len(j.operations) :
        j.operations[i].offer \in Coins /\ j.operations[i].ask \in Coins
  <2> SUFFICES ASSUME NEW i \in 1..Len(j.operations)
               PROVE  j.operations[i].offer \in Coins /\ j.operations[i].ask \in Coins
    OBVIOUS
  <2> DEFINE Swap == [offer : Coins, ask : Coins]
             operations == j.operations
  <2>1. operations \in Seq(Swap) /\ i \in 1..Len(operations)
    BY <1>2
  <2> HIDE DEF Swap, operations
  <2>2. operations[i] \in Swap
    BY <2>1
  <2> QED BY <2>2 DEF Swap, operations
<1>5. Target(j.operations) \in Coins
  BY <1>3, <1>4 DEF Target, Last
<1>6. j.receiver \in Accounts /\ j.sender \in Users
  BY <1>1 DEF Accounts
<1>7. j.minimum = NONE \/ j.minimum \in Nat
  BY <1>1
<1>8. Steps(j) = IF j.minimum = NONE THEN Len(j.operations) ELSE Len(j.operations) + 1
  <2> DEFINE n == Len(j.operations)
  <2>1. n \in Nat /\ Steps(j) = n + (IF j.minimum = NONE THEN 0 ELSE 1)
    BY <1>3 DEF Steps
  <2> HIDE DEF n
  <2>2. Steps(j) = IF j.minimum = NONE THEN n ELSE n + 1
    BY <2>1
  <2> QED BY <2>2 DEF n
<1>9. \A c \in Coins : In(j.sent, c) \in Nat
  <2>1. PICK d \in Coins : j.sent \in [{d} -> Nat]
    BY <1>1
  <2> QED BY <2>1 DEF In
<1> QED
  BY <1>1, <1>2, <1>3, <1>4, <1>5, <1>6, <1>7, <1>8, <1>9

LEMMA HadBeforeInteger ==
  ASSUME NEW j \in RouteJobs, j.operations # <<>>, NEW b \in Balances
  PROVE  HadBefore(j, b) \in Int
<1>1. Target(j.operations) \in Coins /\ j.receiver \in Accounts /\ \A c \in Coins : In(j.sent, c) \in Nat
  BY JobTypes
<1>2. b[j.receiver][Target(j.operations)] \in Nat /\ In(j.sent, Target(j.operations)) \in Nat
  BY <1>1 DEF Balances
<1> QED
  BY <1>2 DEF HadBefore

(* The messages of a route, one after the other *)
LEMMA RestOfRoute ==
  ASSUME NEW j, NEW b0, NEW k \in Nat, Steps(j) \in Nat, k <= Steps(j)
  PROVE  /\ Len(Rest(j, b0, k)) = Steps(j) - k /\ DOMAIN Rest(j, b0, k) = 1..(Steps(j) - k)
         /\ Rest(j, b0, k) = <<>> <=> k = Steps(j)
         /\ k < Steps(j) => /\ Head(Rest(j, b0, k)) = MessageOf(j, b0, k + 1)
                            /\ <<>> \o Tail(Rest(j, b0, k)) = Rest(j, b0, k + 1)
<1> DEFINE S == {MessageOf(j, b0, i) : i \in 1..Steps(j)}
           q == Rest(j, b0, k)
<1>1. /\ q = [i \in 1..(Steps(j) - k) |-> MessageOf(j, b0, k + i)]
      /\ Rest(j, b0, k + 1) = [i \in 1..(Steps(j) - (k + 1)) |-> MessageOf(j, b0, (k + 1) + i)]
  BY DEF Rest
<1>2. q \in Seq(S) /\ Len(q) = Steps(j) - k
  <2>1. \A i \in 1..(Steps(j) - k) : MessageOf(j, b0, k + i) \in S
    <3> SUFFICES ASSUME NEW i \in 1..(Steps(j) - k) PROVE MessageOf(j, b0, k + i) \in S
      OBVIOUS
    <3>1. k + i \in 1..Steps(j)
      OBVIOUS
    <3> QED BY <3>1
  <2> HIDE DEF S
  <2>2. Steps(j) - k \in Nat
    OBVIOUS
  <2> DEFINE left == Steps(j) - k
             message(i) == MessageOf(j, b0, k + i)
  <2>3. q = [i \in 1..left |-> message(i)] /\ left \in Nat /\ \A i \in 1..left : message(i) \in S
    BY <1>1, <2>1, <2>2
  <2> HIDE DEF left, message, q
  <2>4. q \in Seq(S) /\ Len(q) = left
    BY <2>3
  <2> QED BY <2>4 DEF left
<1> HIDE DEF S, q
<1>3. q = <<>> <=> k = Steps(j)
  BY <1>2
<1>4. ASSUME k < Steps(j)
      PROVE  Head(q) = MessageOf(j, b0, k + 1) /\ <<>> \o Tail(q) = Rest(j, b0, k + 1)
  <2>1. Head(q) = MessageOf(j, b0, k + 1)
    BY <1>1, <1>2, <1>4
  <2>2. Tail(q) \in Seq(S) /\ Len(Tail(q)) = Steps(j) - (k + 1)
    BY <1>2, <1>3, <1>4
  <2>3. \A i \in 1..(Steps(j) - (k + 1)) : Tail(q)[i] = MessageOf(j, b0, (k + 1) + i)
    <3> SUFFICES ASSUME NEW i \in 1..(Steps(j) - (k + 1))
                 PROVE  Tail(q)[i] = MessageOf(j, b0, (k + 1) + i)
      OBVIOUS
    <3>1. Tail(q)[i] = q[i + 1]
      BY <1>2, <1>3, <1>4
    <3>2. i + 1 \in 1..(Steps(j) - k) /\ k + (i + 1) = (k + 1) + i
      OBVIOUS
    <3> QED BY <1>1, <3>1, <3>2
  <2>4. Tail(q) = Rest(j, b0, k + 1)
    BY <1>1, <2>2, <2>3
  <2>5. <<>> \o Tail(q) = Tail(q)
    BY <2>2
  <2> QED BY <2>1, <2>4, <2>5
<1> QED
  BY <1>1, <1>2, <1>3, <1>4 DEF q

(* The messages a route begins with *)
LEMMA RouteBegun ==
  ASSUME NEW j \in RouteJobs, j.operations # <<>>, NEW b0
  PROVE  RouteMessages(j.operations, j.receiver, j.minimum, HadBefore(j, b0)) = Rest(j, b0, 0)
<1> DEFINE n == Len(j.operations)
           swap(i) == [kind |-> "swap", offer |-> j.operations[i].offer, ask |-> j.operations[i].ask,
                       to |-> IF i = n THEN j.receiver ELSE Router]
           assert == [kind |-> "assert", coin |-> Target(j.operations), prev |-> HadBefore(j, b0),
                      minimum |-> j.minimum, receiver |-> j.receiver]
           swaps == [i \in 1..n |-> swap(i)]
           S == {swap(i) : i \in 1..n} \cup {assert}
<1>1. /\ n \in Nat /\ DOMAIN j.operations = 1..n
      /\ Steps(j) = IF j.minimum = NONE THEN n ELSE n + 1
  BY JobTypes
<1>2. \A i \in Nat : MessageOf(j, b0, i) = IF i <= n THEN swap(i) ELSE assert
  BY DEF MessageOf
<1>3. Rest(j, b0, 0) = [i \in 1..Steps(j) |-> IF i <= n THEN swap(i) ELSE assert]
  <2>1. Rest(j, b0, 0) = [i \in 1..(Steps(j) - 0) |-> MessageOf(j, b0, 0 + i)]
    BY DEF Rest
  <2>2. Steps(j) - 0 = Steps(j)
    BY <1>1
  <2>3. \A i \in 1..Steps(j) : MessageOf(j, b0, 0 + i) = IF i <= n THEN swap(i) ELSE assert
    <3> SUFFICES ASSUME NEW i \in 1..Steps(j)
                 PROVE  MessageOf(j, b0, 0 + i) = IF i <= n THEN swap(i) ELSE assert
      OBVIOUS
    <3>1. i \in Nat /\ 0 + i = i
      BY <1>1
    <3> QED BY <1>2, <3>1
  <2> HIDE DEF swap, assert
  <2> QED BY <2>1, <2>2, <2>3
<1>4. RouteMessages(j.operations, j.receiver, j.minimum, HadBefore(j, b0))
        = swaps \o (IF j.minimum = NONE THEN <<>> ELSE <<assert>>)
  BY <1>1 DEF RouteMessages
<1>5. swaps \in Seq(S) /\ Len(swaps) = n /\ assert \in S
  <2> HIDE DEF swap, assert
  <2> QED BY <1>1
<1>6. \A i \in 1..n : swaps[i] = swap(i)
  <2> HIDE DEF swap
  <2> QED OBVIOUS
<1> HIDE DEF swap, assert, S, n, swaps
<1>7. CASE j.minimum = NONE
  <2>1. swaps \o <<>> = swaps
    BY <1>5
  <2>2. swaps = [i \in 1..n |-> IF i <= n THEN swap(i) ELSE assert]
    <3>1. \A i \in 1..n : i <= n
      BY <1>1
    <3> QED BY <1>1, <1>5, <1>6, <3>1
  <2> QED BY <1>1, <1>3, <1>4, <1>7, <2>1, <2>2
<1>8. CASE j.minimum # NONE
  <2>1. /\ swaps \o <<assert>> \in Seq(S)
        /\ Len(swaps \o <<assert>>) = n + 1
        /\ \A i \in 1..n : (swaps \o <<assert>>)[i] = swap(i)
        /\ (swaps \o <<assert>>)[n + 1] = assert
    BY <1>1, <1>5, <1>6
  <2>2. \A i \in 1..(n + 1) : (swaps \o <<assert>>)[i] = IF i <= n THEN swap(i) ELSE assert
    <3> SUFFICES ASSUME NEW i \in 1..(n + 1)
                 PROVE  (swaps \o <<assert>>)[i] = IF i <= n THEN swap(i) ELSE assert
      OBVIOUS
    <3>1. (i \in 1..n /\ i <= n) \/ (i = n + 1 /\ ~(i <= n))
      BY <1>1
    <3> QED BY <2>1, <3>1
  <2>3. swaps \o <<assert>> = [i \in 1..(n + 1) |-> IF i <= n THEN swap(i) ELSE assert]
    <3> DEFINE whole == swaps \o <<assert>>
    <3>1. whole \in Seq(S) /\ Len(whole) = n + 1
      BY <2>1
    <3> HIDE DEF whole
    <3>2. whole = [i \in 1..(n + 1) |-> whole[i]]
      BY <3>1
    <3>3. \A i \in 1..(n + 1) : whole[i] = IF i <= n THEN swap(i) ELSE assert
      BY <2>2 DEF whole
    <3>4. whole = [i \in 1..(n + 1) |-> IF i <= n THEN swap(i) ELSE assert]
      BY <3>2, <3>3
    <3> QED BY <3>4 DEF whole
  <2> QED BY <1>1, <1>3, <1>4, <1>8, <2>3
<1> QED
  BY <1>7, <1>8


(* A swap of a route leaves nothing of what it offers, but for the next.   *)
LEMMA SwapAdvances ==
  ASSUME NEW j \in RouteJobs, j.operations # <<>>, NEW b0, NEW b \in Balances,
         NEW k \in Nat, k < Len(j.operations),
         {j.operations[k + 1].offer, j.operations[k + 1].ask} \in Pairs, NEW paid \in Paid,
         NEW to, to = IF k + 1 = Len(j.operations) THEN j.receiver ELSE Router,
         NEW after,
         after = Credit(Debit(b, Router, j.operations[k + 1].offer, b[Router][j.operations[k + 1].offer]),
                        to, Of(j.operations[k + 1].ask, paid)),
         OthersKept(j, b0, b), WayCleared(j, k, b)
  PROVE  /\ after \in Balances /\ OthersKept(j, b0, after)
         /\ MinimumMet(j, b0, k + 1, after) /\ WayCleared(j, k + 1, after)
<1> DEFINE n == Len(j.operations)
           offer == j.operations[k + 1].offer
           ask == j.operations[k + 1].ask
<1>1. /\ n \in Nat \ {0} /\ j.receiver \in Accounts
      /\ \A i \in 1..n : j.operations[i].offer \in Coins /\ j.operations[i].ask \in Coins
  BY JobTypes
<1>2. k + 1 \in 1..n
  BY <1>1
<1>3. offer \in Coins /\ ask \in Coins /\ ask # offer
  BY <1>1, <1>2, TwoCoins
<1>4. Router \in Accounts /\ to \in Accounts /\ paid \in Nat
  BY <1>1, Parties DEF Paid
<1>5. b[Router][offer] \in Nat
  BY <1>3, <1>4 DEF Balances
<1>6. /\ after \in Balances
      /\ \A a \in Accounts : a # Router /\ a # to => after[a] = b[a]
      /\ after[Router][offer] = b[Router][offer] - b[Router][offer]
      /\ \A c \in Coins : c # offer /\ c # ask => after[Router][c] = b[Router][c]
      /\ Router # to => after[Router][ask] = b[Router][ask]
  <2> DEFINE amount == b[Router][offer]
  <2>1. amount \in 0..b[Router][offer]
    BY <1>5
  <2> HIDE DEF offer, ask, amount
  <2>2. after = Credit(Debit(b, Router, offer, amount), to, Of(ask, paid))
    BY DEF offer, ask, amount
  <2>3. /\ after \in Balances
        /\ \A a \in Accounts : a # Router /\ a # to => after[a] = b[a]
        /\ after[Router][offer] = b[Router][offer] - amount
        /\ \A c \in Coins : c # offer /\ c # ask => after[Router][c] = b[Router][c]
        /\ Router # to => after[Router][ask] = b[Router][ask]
    <3>1. b \in Balances
      OBVIOUS
    <3> QED BY ONLY <1>3, <1>4, <2>1, <2>2, <3>1, ExchangeEffect
  <2> QED BY <2>3 DEF amount
<1>7. after[Router][offer] = 0
  <2> DEFINE had == b[Router][offer]
             has == after[Router][offer]
  <2>1. had \in Nat /\ has = had - had
    BY <1>5, <1>6
  <2> HIDE DEF had, has
  <2>2. has = 0
    BY <2>1
  <2> QED BY <2>2 DEF has
<1>8. OthersKept(j, b0, after)
  BY <1>6 DEF OthersKept
<1>9. MinimumMet(j, b0, k + 1, after)
  BY <1>1, <1>2 DEF MinimumMet
<1>10. WayCleared(j, k + 1, after)
  <2> SUFFICES ASSUME Chained(j.operations), j.receiver # Router, NEW i \in 1..n, i <= k + 1
               PROVE  \/ after[Router][j.operations[i].offer] = 0
                      \/ k + 1 < n /\ j.operations[i].offer = j.operations[(k + 1) + 1].offer
    BY DEF WayCleared
  <2> DEFINE mine == j.operations[i].offer
  <2>1. mine \in Coins
    BY <1>1
  <2>2. mine = offer \/ b[Router][mine] = 0
    <3>1. CASE i = k + 1
      BY <3>1
    <3>2. CASE i # k + 1
      <4>1. i <= k
        BY <3>2
      <4> QED BY <4>1 DEF WayCleared
    <3> QED BY <3>1, <3>2
  <2>3. mine = ask /\ Router = to => k + 1 < n /\ mine = j.operations[(k + 1) + 1].offer
    <3> SUFFICES ASSUME mine = ask, Router = to
                 PROVE  k + 1 < n /\ mine = j.operations[(k + 1) + 1].offer
      OBVIOUS
    <3>1. k + 1 < n
      BY <1>1, <1>2
    <3>2. (k + 1) + 1 \in 2..n /\ ((k + 1) + 1) - 1 = k + 1
      BY <1>1, <3>1
    <3>3. j.operations[(k + 1) + 1].offer = j.operations[((k + 1) + 1) - 1].ask
      BY <3>2 DEF Chained
    <3> QED BY <3>1, <3>2, <3>3
  <2>4. mine = offer => after[Router][mine] = 0
    BY <1>7
  <2>5. mine # offer /\ ~(mine = ask /\ Router = to) => after[Router][mine] = b[Router][mine]
    BY <1>6, <2>1
  <2> QED BY <2>2, <2>3, <2>4, <2>5
<1> QED
  BY <1>6, <1>8, <1>9, <1>10

----------------------------------------------------------------------------
(* The steps of a transaction *)

LEMMA InitInv == Init => PeripheryInv
<1> SUFFICES ASSUME Init PROVE PeripheryInv
  OBVIOUS
<1>1. balance \in Balances
  BY DEF Init, Balances
<1>2. staked \in Stakes
  BY DEF Init, Stakes
<1>3. begun \in 0..MaxBegun
  BY DEF Init
<1> QED
  BY <1>1, <1>2, <1>3 DEF Init, PeripheryInv

(* Every queue of a transaction that runs has messages of one kind or       *)
(* another, and who reads its first message knows what it stands for.       *)
LEMMA RouteHead ==
  ASSUME PeripheryInv, queue # <<>>, Head(queue).kind \in {"swap", "assert"}
  PROVE  /\ running /\ before \in Snapshots /\ job \in RouteJobs /\ job.operations # <<>>
         /\ \E k \in Nat :
              /\ k < Steps(job) /\ Head(queue) = MessageOf(job, before.balance, k + 1)
              /\ RouteAt(job, before.balance, k, queue, balance)
<1>1. running /\ before \in Snapshots
  BY DEF PeripheryInv
<1>2. ~ConvertOn
  BY DEF ConvertOn, ConvertStep
<1>3. RouteOn
  BY <1>1, <1>2 DEF PeripheryInv
<1>4. PICK k \in 0..Steps(job) : RouteAt(job, before.balance, k, queue, balance)
  BY <1>3 DEF RouteOn
<1>5. job \in RouteJobs /\ job.operations # <<>> /\ Steps(job) \in Nat
  BY <1>3, JobTypes DEF RouteOn
<1>6. k \in Nat /\ k <= Steps(job)
  BY <1>5
<1>7. k < Steps(job) /\ Head(queue) = MessageOf(job, before.balance, k + 1)
  <2>1. queue = Rest(job, before.balance, k)
    BY <1>4 DEF RouteAt
  <2>2. k # Steps(job)
    BY <1>5, <1>6, <2>1, RestOfRoute
  <2> QED BY <1>5, <1>6, <2>1, <2>2, RestOfRoute
<1> QED
  BY <1>1, <1>4, <1>5, <1>6, <1>7

LEMMA ConvertHead ==
  ASSUME PeripheryInv, queue # <<>>, Head(queue).kind \in {"withdraw", "bond", "provide", "stake"}
  PROVE  running /\ before \in Snapshots /\ ConvertOn
<1>1. running /\ before \in Snapshots
  BY DEF PeripheryInv
<1>2. ~RouteOn
  <2> SUFFICES ASSUME RouteOn PROVE FALSE
    OBVIOUS
  <2>1. PICK k \in 0..Steps(job) : RouteAt(job, before.balance, k, queue, balance)
    BY DEF RouteOn
  <2>2. job \in RouteJobs /\ job.operations # <<>> /\ Steps(job) \in Nat
    BY JobTypes DEF RouteOn
  <2>3. queue = Rest(job, before.balance, k)
    BY <2>1 DEF RouteAt
  <2>4. k < Steps(job)
    BY <2>2, <2>3, RestOfRoute
  <2>5. Head(queue) = MessageOf(job, before.balance, k + 1)
    BY <2>2, <2>3, <2>4, RestOfRoute
  <2> QED BY <2>5 DEF MessageOf
<1> QED
  BY <1>1, <1>2 DEF PeripheryInv

(* A message of a route has run: the route is one further. *)
LEMMA RouteGoesOn ==
  ASSUME PeripheryInv, NEW k \in Nat, k < Steps(job), job \in RouteJobs, job.operations # <<>>,
         before \in Snapshots, running,
         queue = Rest(job, before.balance, k), Run(<<>>), UNCHANGED <<staked, stored>>,
         balance' \in Balances,
         OthersKept(job, before.balance, balance'), MinimumMet(job, before.balance, k + 1, balance'),
         WayCleared(job, k + 1, balance')
  PROVE  PeripheryInv'
<1>1. /\ queue' = <<>> \o Tail(queue) /\ job' = job /\ before' = before /\ running' = running
      /\ begun' = begun /\ staked' = staked /\ stored' = stored
  BY DEF Run
<1>2. Steps(job) \in Nat
  BY JobTypes
<1>3. queue' = Rest(job, before.balance, k + 1)
  BY <1>1, <1>2, RestOfRoute
<1>4. k + 1 \in 0..Steps(job)
  BY <1>2
<1>5. RouteAt(job, before.balance, k + 1, queue', balance')
  BY <1>3 DEF RouteAt
<1>6. RouteOn'
  <2>1. \E i \in 0..Steps(job) : RouteAt(job, before.balance, i, queue', balance')
    BY <1>4, <1>5
  <2> QED BY <1>1, <2>1 DEF RouteOn
<1> QED
  BY <1>1, <1>6 DEF PeripheryInv

LEMMA RunSwapStep == PeripheryInv /\ RunSwap => PeripheryInv'
<1> SUFFICES ASSUME PeripheryInv, RunSwap PROVE PeripheryInv'
  OBVIOUS
<1>1. queue # <<>> /\ Head(queue).kind = "swap" /\ Run(<<>>) /\ UNCHANGED <<staked, stored>>
  BY DEF RunSwap, Running
<1>2. running /\ before \in Snapshots /\ job \in RouteJobs /\ job.operations # <<>>
  BY <1>1, RouteHead
<1>3. PICK k \in Nat : /\ k < Steps(job) /\ Head(queue) = MessageOf(job, before.balance, k + 1)
                       /\ RouteAt(job, before.balance, k, queue, balance)
  BY <1>1, RouteHead
<1>4. k + 1 <= Len(job.operations)
  BY <1>1, <1>3 DEF MessageOf
<1>5. k < Len(job.operations)
  BY <1>2, <1>4, JobTypes
<1> DEFINE m == Head(queue)
<1>6. /\ m.offer = job.operations[k + 1].offer /\ m.ask = job.operations[k + 1].ask
      /\ m.to = IF k + 1 = Len(job.operations) THEN job.receiver ELSE Router
  BY <1>3, <1>4 DEF MessageOf
<1>7. /\ {m.offer, m.ask} \in Pairs
      /\ \E paid \in Paid :
           balance' = Credit(Debit(balance, Router, m.offer, balance[Router][m.offer]), m.to, Of(m.ask, paid))
  BY DEF RunSwap, Offered
<1>8. PICK paid \in Paid :
        balance' = Credit(Debit(balance, Router, m.offer, balance[Router][m.offer]), m.to, Of(m.ask, paid))
  BY <1>7
<1> HIDE DEF m
<1>9. /\ queue = Rest(job, before.balance, k)
      /\ OthersKept(job, before.balance, balance) /\ WayCleared(job, k, balance)
  BY <1>3 DEF RouteAt
<1>10. /\ balance' \in Balances /\ OthersKept(job, before.balance, balance')
       /\ MinimumMet(job, before.balance, k + 1, balance') /\ WayCleared(job, k + 1, balance')
  <2>1. balance \in Balances
    BY DEF PeripheryInv
  <2>2. {job.operations[k + 1].offer, job.operations[k + 1].ask} \in Pairs
    BY <1>6, <1>7
  <2>3. balance' = Credit(Debit(balance, Router, job.operations[k + 1].offer,
                                balance[Router][job.operations[k + 1].offer]),
                          m.to, Of(job.operations[k + 1].ask, paid))
    BY <1>6, <1>8
  <2> QED BY <1>2, <1>5, <1>6, <1>9, <2>1, <2>2, <2>3, SwapAdvances
<1> QED
  BY <1>1, <1>2, <1>3, <1>9, <1>10, RouteGoesOn

LEMMA RunAssertStep == PeripheryInv /\ RunAssert => PeripheryInv'
<1> SUFFICES ASSUME PeripheryInv, RunAssert PROVE PeripheryInv'
  OBVIOUS
<1>1. /\ queue # <<>> /\ Head(queue).kind = "assert" /\ Run(<<>>) /\ UNCHANGED <<staked, stored>>
      /\ balance' = balance /\ Enough(Head(queue))
  BY DEF RunAssert, Running
<1>2. running /\ before \in Snapshots /\ job \in RouteJobs /\ job.operations # <<>>
  BY <1>1, RouteHead
<1>3. PICK k \in Nat : /\ k < Steps(job) /\ Head(queue) = MessageOf(job, before.balance, k + 1)
                       /\ RouteAt(job, before.balance, k, queue, balance)
  BY <1>1, RouteHead
<1> DEFINE n == Len(job.operations)
           prev == HadBefore(job, before.balance)
           now == balance[job.receiver][Target(job.operations)]
<1>4. ~(k + 1 <= n)
  BY <1>1, <1>3 DEF MessageOf
<1>5. /\ n \in Nat /\ (job.minimum = NONE \/ job.minimum \in Nat)
      /\ Steps(job) = IF job.minimum = NONE THEN n ELSE n + 1
      /\ Target(job.operations) \in Coins /\ job.receiver \in Accounts
  BY <1>2, JobTypes
<1>6. k = n /\ job.minimum \in Nat
  BY <1>3, <1>4, <1>5
<1>7. Head(queue) = [kind |-> "assert", coin |-> Target(job.operations), prev |-> prev,
                     minimum |-> job.minimum, receiver |-> job.receiver]
  BY <1>3, <1>4 DEF MessageOf
<1>8. now - prev >= job.minimum
  BY <1>1, <1>7 DEF Enough
<1>9. now \in Nat /\ prev \in Int
  <2>1. balance \in Balances /\ before.balance \in Balances
    BY <1>2 DEF PeripheryInv, Snapshots
  <2>2. prev \in Int
    BY <1>2, <2>1, HadBeforeInteger
  <2> QED BY <1>5, <2>1, <2>2 DEF Balances
<1>10. now >= prev + job.minimum
  <2> HIDE DEF now, prev
  <2> QED BY <1>6, <1>8, <1>9
<1>11. /\ queue = Rest(job, before.balance, k)
       /\ OthersKept(job, before.balance, balance) /\ WayCleared(job, k, balance)
  BY <1>3 DEF RouteAt
<1>12. MinimumMet(job, before.balance, k + 1, balance')
  BY <1>1, <1>10 DEF MinimumMet
<1>13. WayCleared(job, k + 1, balance')
  <2> SUFFICES ASSUME Chained(job.operations), job.receiver # Router, NEW i \in 1..n, i <= k + 1
               PROVE  balance[Router][job.operations[i].offer] = 0
    BY <1>1 DEF WayCleared
  <2>1. i <= k /\ ~(k < n)
    BY <1>5, <1>6
  <2> QED BY <1>11, <2>1 DEF WayCleared
<1>14. OthersKept(job, before.balance, balance') /\ balance' \in Balances
  BY <1>1, <1>11 DEF PeripheryInv
<1> QED
  BY <1>1, <1>2, <1>3, <1>11, <1>12, <1>13, <1>14, RouteGoesOn


(* A user pays the router, and its route begins. *)
LEMMA RouterBeginsStep == PeripheryInv /\ RouterBegins => PeripheryInv'
<1> SUFFICES ASSUME PeripheryInv,
                    NEW sender \in Traders, NEW coin \in Coins, NEW amount \in 1..MaxHeld,
                    NEW operations \in Routes, NEW receiver \in Traders \cup Contracts,
                    NEW minimum \in Minimums,
                    ExecuteSwapOperations(sender, coin, amount, operations, receiver, minimum)
             PROVE  PeripheryInv'
  BY DEF RouterBegins
<1> DEFINE j == [kind |-> "route", sender |-> sender, sent |-> Of(coin, amount), operations |-> operations,
                 receiver |-> receiver, minimum |-> minimum]
           b == balance
           less == Debit(b, sender, coin, amount)
           got == Of(coin, amount)
           arrived == Credit(less, Router, got)
           target == Target(operations)
<1>1. /\ amount \in 1..b[sender][coin] /\ operations # <<>>
      /\ Begin(j, RouteMessages(operations, receiver, minimum, arrived[receiver][target]))
      /\ balance' = arrived /\ staked' = staked /\ stored' = stored
  BY DEF ExecuteSwapOperations
<1>2. /\ running' = TRUE /\ begun' \in 0..MaxBegun
      /\ queue' = RouteMessages(operations, receiver, minimum, arrived[receiver][target])
      /\ before' = [balance |-> balance, staked |-> staked, stored |-> stored] /\ job' = j
  BY <1>1 DEF Begin, PeripheryInv
<1>3. amount \in Nat /\ amount \in 0..b[sender][coin]
  BY <1>1
<1>4. j \in RouteJobs
  BY <1>3, AttachedCoin DEF RouteJobs
<1>5. sender \in Accounts /\ Router \in Accounts /\ sender # Router /\ receiver \in Accounts
  BY Parties DEF Accounts
<1>6. b \in Balances
  BY DEF PeripheryInv
<1>7. /\ j.operations = operations /\ j.receiver = receiver /\ j.sender = sender
      /\ j.minimum = minimum /\ j.sent = got
  OBVIOUS
<1>8. target \in Coins
  BY <1>1, <1>4, <1>7, JobTypes
<1> HIDE DEF b
<1>9. /\ less \in Balances /\ \A a \in Accounts : a # sender => less[a] = b[a]
      /\ \A c \in Coins : less[sender][c] = b[sender][c] - In(got, c)
  <2>1. /\ less \in Balances /\ \A a \in Accounts : a # sender => less[a] = b[a]
        /\ less[sender][coin] = b[sender][coin] - amount
        /\ \A c \in Coins : c # coin => less[sender][c] = b[sender][c]
    BY ONLY <1>3, <1>5, <1>6, coin \in Coins, DebitEffect
  <2>2. In(got, coin) = amount /\ \A c : c # coin => In(got, c) = 0
    BY DEF In, Of
  <2>3. \A c \in Coins : b[sender][c] \in Nat
    BY <1>5, <1>6 DEF Balances
  <2> HIDE DEF less, got
  <2>4. \A c \in Coins : less[sender][c] = b[sender][c] - In(got, c)
    BY <2>1, <2>2, <2>3
  <2> QED BY <2>1, <2>4
<1>10. \A c \in Coins : In(got, c) \in Nat
  <2>1. In(got, coin) = amount /\ \A c : c # coin => In(got, c) = 0
    BY DEF In, Of
  <2> QED BY <1>3, <2>1
<1>11. /\ arrived \in Balances /\ \A a \in Accounts : a # Router => arrived[a] = less[a]
       /\ \A c \in Coins : arrived[Router][c] = less[Router][c] + In(got, c)
  <2> HIDE DEF less, got
  <2> QED BY ONLY <1>5, <1>9, <1>10, CreditEffect
<1> HIDE DEF arrived, less, target
<1>12. arrived[receiver][target] = HadBefore(j, b)
  <2> DEFINE put == IF receiver = sender THEN In(got, target)
                    ELSE IF receiver = Router THEN -In(got, target) ELSE 0
             paid == In(got, target)
  <2>1. HadBefore(j, b) = b[receiver][target] - put
    BY <1>7 DEF HadBefore, target
  <2>2. b[receiver][target] \in Nat /\ paid \in Nat
    BY <1>5, <1>6, <1>8, <1>10 DEF Balances
  <2>3. CASE receiver = sender
    <3>1. arrived[receiver][target] = b[receiver][target] - paid
      BY <1>5, <1>8, <1>9, <1>11, <2>3
    <3> QED BY <2>1, <2>3, <3>1
  <2>4. CASE receiver = Router
    <3>1. arrived[receiver][target] = b[receiver][target] + paid
      BY <1>5, <1>8, <1>9, <1>11, <2>4
    <3>2. put = -paid
      BY <1>5, <2>4
    <3> HIDE DEF put, paid
    <3> QED BY <2>1, <2>2, <3>1, <3>2
  <2>5. CASE receiver # sender /\ receiver # Router
    <3>1. arrived[receiver][target] = b[receiver][target]
      BY <1>5, <1>8, <1>9, <1>11, <2>5
    <3> QED BY <2>1, <2>2, <2>5, <3>1
  <2> QED BY <2>3, <2>4, <2>5
<1> HIDE DEF j
<1>13. queue' = Rest(j, b, 0)
  BY <1>1, <1>2, <1>4, <1>7, <1>12, RouteBegun DEF target
<1>14. OthersKept(j, b, arrived)
  BY <1>7, <1>9, <1>11 DEF OthersKept
<1>15. MinimumMet(j, b, 0, arrived) /\ WayCleared(j, 0, arrived)
  <2>1. Len(j.operations) \in Nat
    BY <1>1, <1>4, <1>7, JobTypes
  <2>2. MinimumMet(j, b, 0, arrived)
    BY <2>1 DEF MinimumMet
  <2> QED BY <2>1, <2>2 DEF WayCleared
<1>16. before'.balance = b /\ before' \in Snapshots
  BY <1>2 DEF PeripheryInv, Snapshots, b
<1>17. RouteOn'
  <2>1. RouteAt(j, b, 0, queue', balance')
    BY <1>1, <1>13, <1>14, <1>15 DEF RouteAt
  <2>2. 0 \in 0..Steps(j)
    BY <1>1, <1>4, <1>7, JobTypes
  <2>3. \E k \in 0..Steps(j) : RouteAt(j, b, k, queue', balance')
    BY <2>1, <2>2
  <2>4. job'.operations # <<>> /\ job' \in RouteJobs
    BY <1>1, <1>2, <1>4, <1>7
  <2> QED BY <1>2, <1>16, <2>3, <2>4 DEF RouteOn
<1> QED
  BY <1>1, <1>2, <1>11, <1>16, <1>17 DEF PeripheryInv

(* LP tokens come to the converter, or do not, and it begins. *)
LEMMA ConverterBeginsStep == PeripheryInv /\ ConverterBegins => PeripheryInv'
<1> SUFFICES ASSUME PeripheryInv,
                    NEW owner \in Users, NEW amount \in Paid, NEW from \in Pairs, NEW to \in Pairs,
                    NEW released \in {0, amount}, Convert(owner, released, amount, from, to)
             PROVE  PeripheryInv'
  BY DEF ConverterBegins
<1> DEFINE got == Of(LpOf[from], released)
<1>1. /\ balance' = Credit(balance, Converter, got)
      /\ stored' = TmpData(owner, from, to) /\ staked' = staked
      /\ running' = TRUE /\ begun' \in 0..MaxBegun
      /\ queue' = <<[kind |-> "withdraw", pair |-> from, amount |-> amount]>>
      /\ before' = [balance |-> balance, staked |-> staked, stored |-> stored]
      /\ job' = [kind |-> "convert", owner |-> owner, to |-> to]
  BY DEF Convert, Begin, PeripheryInv
<1>2. before' \in Snapshots
  BY <1>1 DEF PeripheryInv, Snapshots
<1>3. balance' \in Balances
  <2>1. In(got, LpOf[from]) = released /\ \A c : c # LpOf[from] => In(got, c) = 0
    BY DEF In, Of
  <2>2. released \in Nat
    BY DEF Paid
  <2>3. \A c \in Coins : In(got, c) \in Nat
    BY <2>1, <2>2
  <2>4. balance \in Balances /\ Converter \in Accounts
    BY Parties DEF PeripheryInv
  <2> HIDE DEF got
  <2> QED BY <1>1, <2>3, <2>4, CreditEffect
<1>4. Replaced(from) \in SUBSET Coins /\ BaseDenom \notin Replaced(from)
  <2>1. from \subseteq Coins
    BY TwoCoins
  <2> QED BY <2>1 DEF Replaced
<1>5. /\ stored' \in TmpDatas /\ BaseDenom \notin stored'.coins
      /\ stored'.owner = owner /\ stored'.to = to
  BY <1>1, <1>4 DEF TmpDatas, TmpData
<1>6. job' \in ConvertJobs /\ job'.owner = owner /\ job'.to = to
  BY <1>1 DEF ConvertJobs
<1>7. ConvertStep(job.owner, job.to)'
  <2>1. staked' = before'.staked
    BY <1>1
  <2> QED BY <1>1, <2>1 DEF ConvertStep
<1>8. ConvertOn'
  BY <1>5, <1>6, <1>7 DEF ConvertOn
<1>9. staked' \in Stakes /\ stored' \in TmpDatas \cup {NONE}
  BY <1>1, <1>5 DEF PeripheryInv
<1> QED
  BY <1>1, <1>2, <1>3, <1>8, <1>9 DEF PeripheryInv

(* A message of a conversion has run, and what is stored is as it was. *)
LEMMA ConversionGoesOn ==
  ASSUME PeripheryInv, running, before \in Snapshots, ConvertOn,
         UNCHANGED <<stored, running, before, job, begun>>,
         balance' \in Balances, staked' \in Stakes, ConvertStep(job.owner, job.to)'
  PROVE  PeripheryInv'
<1>1. ConvertOn'
  BY DEF ConvertOn
<1> QED
  BY <1>1 DEF PeripheryInv

LEMMA OneMessage ==
  ASSUME NEW m, NEW n, NEW q, q = <<m>>
  PROVE  Head(q) = m /\ <<n>> \o Tail(q) = <<n>> /\ <<>> \o Tail(q) = <<>>
OBVIOUS

LEMMA RunWithdrawStep == PeripheryInv /\ RunWithdraw => PeripheryInv'
<1> SUFFICES ASSUME PeripheryInv, RunWithdraw PROVE PeripheryInv'
  OBVIOUS
<1> DEFINE m == Head(queue)
           bond == [kind |-> "bond", amount |-> ToBond(m.amount, balance'[Converter])]
<1>1. /\ queue # <<>> /\ m.kind = "withdraw" /\ staked' = staked
      /\ UNCHANGED <<stored, running, before, job, begun>> /\ queue' = <<bond>> \o Tail(queue)
      /\ m.amount <= balance[Converter][LpOf[m.pair]]
  BY DEF RunWithdraw, Running, Run, Holds
<1>2. running /\ before \in Snapshots /\ ConvertOn
  BY <1>1, ConvertHead
<1>3. PICK pair \in Pairs, amount \in Paid : queue = <<[kind |-> "withdraw", pair |-> pair, amount |-> amount]>>
  BY <1>1, <1>2 DEF ConvertOn, ConvertStep
<1>4. staked = before.staked
  BY <1>1, <1>2, <1>3 DEF ConvertOn, ConvertStep
<1>5. m.pair = pair /\ m.amount = amount /\ queue' = <<bond>>
  BY <1>1, <1>3, OneMessage
<1> DEFINE less == Debit(balance, Converter, LpOf[pair], amount)
<1>6. PICK paid \in [pair -> Paid] : balance' = Credit(less, Converter, paid)
  BY <1>5 DEF RunWithdraw
<1>7. balance \in Balances /\ Converter \in Accounts /\ LpOf[pair] \in Coins
  BY Parties, LpTokens DEF PeripheryInv
<1>8. less \in Balances
  <2>1. balance[Converter][LpOf[pair]] \in Nat
    BY <1>7 DEF Balances
  <2>2. amount \in 0..balance[Converter][LpOf[pair]]
    BY <1>1, <1>5, <2>1 DEF Paid
  <2> QED BY ONLY <1>7, <2>2, DebitEffect
<1>9. balance' \in Balances
  <2>1. \A c \in Coins : In(paid, c) \in Nat
    BY DEF In, Paid
  <2> HIDE DEF less
  <2> QED BY ONLY <1>6, <1>7, <1>8, <2>1, CreditEffect
<1>10. ConvertStep(job.owner, job.to)'
  <2>1. queue' = <<[kind |-> "bond", amount |-> balance'[Converter][BaseDenom]]>>
    BY <1>5 DEF ToBond
  <2>2. staked' = before'.staked
    BY <1>1, <1>4
  <2> QED BY <2>1, <2>2 DEF ConvertStep, Holds
<1>11. staked' \in Stakes
  BY <1>1 DEF PeripheryInv
<1> QED
  BY <1>1, <1>2, <1>9, <1>10, <1>11, ConversionGoesOn

LEMMA RunBondStep == PeripheryInv /\ RunBond => PeripheryInv'
<1> SUFFICES ASSUME PeripheryInv, RunBond PROVE PeripheryInv'
  OBVIOUS
<1> DEFINE m == Head(queue)
           provide == [kind |-> "provide", pair |-> stored.to, amounts |-> Provision(balance'[Converter])]
<1>1. /\ queue # <<>> /\ m.kind = "bond" /\ staked' = staked
      /\ UNCHANGED <<stored, running, before, job, begun>> /\ queue' = <<provide>> \o Tail(queue)
  BY DEF RunBond, Running, Run
<1>2. running /\ before \in Snapshots /\ ConvertOn
  BY <1>1, ConvertHead
<1>3. queue = <<[kind |-> "bond", amount |-> Holds(BaseDenom)]>> /\ staked = before.staked
  BY <1>1, <1>2 DEF ConvertOn, ConvertStep
<1> DEFINE held == balance[Converter][BaseDenom]
<1>4. m.amount = held /\ queue' = <<provide>>
  BY <1>1, <1>3, OneMessage DEF Holds
<1>5. PICK paid \in Paid : balance' = Credit(Debit(balance, Converter, BaseDenom, held), Converter, Of(Derivative, paid))
  BY <1>4 DEF RunBond
<1>6. balance \in Balances /\ Converter \in Accounts /\ paid \in Nat
  BY Parties DEF PeripheryInv, Paid
<1>7. held \in Nat /\ held \in 0..held
  BY <1>6 DEF Balances
<1> HIDE DEF held
<1>8. balance' \in Balances /\ balance'[Converter][BaseDenom] = balance[Converter][BaseDenom] - held
  <2>1. held \in 0..balance[Converter][BaseDenom]
    BY <1>7 DEF held
  <2>2. BaseDenom \in Coins /\ Derivative \in Coins /\ Derivative # BaseDenom
    OBVIOUS
  <2> QED BY ONLY <1>5, <1>6, <2>1, <2>2, ExchangeEffect
<1>9. balance'[Converter][BaseDenom] = 0
  <2>1. balance'[Converter][BaseDenom] = held - held
    BY <1>8 DEF held
  <2> QED BY <1>7, <2>1
<1>10. ConvertStep(job.owner, job.to)'
  <2>1. stored.to = job.to
    BY <1>2 DEF ConvertOn
  <2>2. queue' = <<[kind |-> "provide", pair |-> job.to, amounts |-> Provision(balance'[Converter])]>>
    BY <1>4, <2>1
  <2>3. Provision(balance[Converter])' = Provision(balance'[Converter]) /\ job'.to = job.to
    BY <1>1 DEF Provision
  <2>4. staked' = before'.staked
    BY <1>1, <1>3
  <2> QED BY <1>9, <2>2, <2>3, <2>4 DEF ConvertStep, Holds
<1>11. staked' \in Stakes
  BY <1>1 DEF PeripheryInv
<1> QED
  BY <1>1, <1>2, <1>8, <1>10, <1>11, ConversionGoesOn


(* What is provided is gone, but for the LP tokens that come for it. *)
LEMMA RunProvideStep == PeripheryInv /\ RunProvide => PeripheryInv'
<1> SUFFICES ASSUME PeripheryInv, RunProvide PROVE PeripheryInv'
  OBVIOUS
<1> DEFINE m == Head(queue)
           to == job.to
           stake == [kind |-> "stake", pair |-> stored.to, owner |-> stored.owner,
                     amount |-> balance'[Converter][LpOf[stored.to]]]
<1>1. /\ queue # <<>> /\ m.kind = "provide" /\ staked' = staked
      /\ UNCHANGED <<stored, running, before, job, begun>> /\ queue' = <<stake>> \o Tail(queue)
      /\ DOMAIN m.amounts = m.pair
  BY DEF RunProvide, Running, Run
<1>2. running /\ before \in Snapshots /\ ConvertOn
  BY <1>1, ConvertHead
<1>3. /\ queue = <<[kind |-> "provide", pair |-> to, amounts |-> Provision(balance[Converter])]>>
      /\ staked = before.staked /\ balance[Converter][BaseDenom] = 0
  BY <1>1, <1>2 DEF ConvertOn, ConvertStep, Holds
<1>4. m.pair = to /\ m.amounts = Provision(balance[Converter]) /\ queue' = <<stake>>
  BY <1>1, <1>3, OneMessage
<1>5. /\ to \in Pairs /\ job.owner \in Users /\ stored.to = to /\ stored.owner = job.owner
      /\ BaseDenom \notin stored.coins
  BY <1>2 DEF ConvertOn, ConvertJobs
<1>6. stored.coins = to
  BY <1>1, <1>4 DEF Provision
<1>7. /\ BaseDenom \notin to
      /\ \A c \in to : m.amounts[c] = balance[Converter][c]
  BY <1>4, <1>5, <1>6 DEF Provision
<1> DEFINE rest == [c \in Coins |-> balance[Converter][c] - (IF c \in to THEN m.amounts[c] ELSE 0)]
           less == [balance EXCEPT ![Converter] = rest]
<1>8. balance \in Balances /\ Converter \in Accounts /\ to \subseteq Coins /\ LpOf[to] \in Coins
  BY <1>5, Parties, TwoCoins, LpTokens DEF PeripheryInv
<1>9. PICK minted \in Paid : balance' = Credit(less, Converter, Of(LpOf[to], minted))
  <2>1. \E minted \in Paid :
          balance' = Credit([balance EXCEPT ![Converter] =
                               [c \in Coins |-> balance[Converter][c] - (IF c \in to THEN m.amounts[c] ELSE 0)]],
                            Converter, Of(LpOf[to], minted))
    <3>1. balance = [a \in Accounts |-> balance[a]] /\ Converter \in DOMAIN balance
      BY <1>8 DEF Balances
    <3> QED BY <1>4, <3>1 DEF RunProvide
  <2> QED BY <2>1
<1> DEFINE got == Of(LpOf[to], minted)
<1>10. \A c \in Coins : /\ balance[Converter][c] \in Nat
                        /\ rest[c] = IF c \in to THEN 0 ELSE balance[Converter][c]
  <2> SUFFICES ASSUME NEW c \in Coins
               PROVE  /\ balance[Converter][c] \in Nat
                      /\ rest[c] = IF c \in to THEN 0 ELSE balance[Converter][c]
    OBVIOUS
  <2> DEFINE has == balance[Converter][c]
  <2>1. has \in Nat
    BY <1>8 DEF Balances
  <2>2. rest[c] = has - (IF c \in to THEN m.amounts[c] ELSE 0)
    OBVIOUS
  <2>3. c \in to => rest[c] = has - has
    BY <1>7, <2>2
  <2>4. c \notin to => rest[c] = has - 0
    BY <2>2
  <2> HIDE DEF has, rest
  <2>5. has \in Nat /\ rest[c] = IF c \in to THEN 0 ELSE has
    BY <2>1, <2>3, <2>4
  <2> QED BY <2>5 DEF has
<1>11. less \in Balances /\ less[Converter] = rest
  <2>1. rest \in [Coins -> Nat]
    <3>1. rest = [c \in Coins |-> rest[c]]
      OBVIOUS
    <3> HIDE DEF rest
    <3> QED BY <1>10, <3>1
  <2> HIDE DEF rest
  <2> QED BY <1>8, <2>1 DEF Balances
<1> HIDE DEF rest, less, m
<1>12. In(got, LpOf[to]) = minted /\ (\A c : c # LpOf[to] => In(got, c) = 0) /\ minted \in Nat /\ minted > 0
  BY DEF In, Of, Paid
<1> HIDE DEF got
<1>13. /\ balance' \in Balances
       /\ \A c \in Coins : balance'[Converter][c] = rest[c] + In(got, c)
  <2>1. \A c \in Coins : In(got, c) \in Nat
    BY <1>12
  <2>2. balance' = Credit(less, Converter, got)
    BY <1>9 DEF got
  <2> QED BY <1>8, <1>11, <2>1, <2>2, CreditEffect
<1>14. balance'[Converter][LpOf[to]] > 0
  <2>1. balance'[Converter][LpOf[to]] = rest[LpOf[to]] + minted
    BY <1>8, <1>12, <1>13
  <2>2. rest[LpOf[to]] \in Nat
    BY <1>8, <1>10
  <2> QED BY <1>12, <2>1, <2>2
<1>15. \A c \in to \cup {BaseDenom} : c # LpOf[to] => balance'[Converter][c] = 0
  <2> SUFFICES ASSUME NEW c \in to \cup {BaseDenom}, c # LpOf[to] PROVE balance'[Converter][c] = 0
    OBVIOUS
  <2>1. c \in Coins
    BY <1>8
  <2>2. rest[c] = 0
    BY <1>3, <1>10, <2>1
  <2>3. balance'[Converter][c] = 0 + 0
    BY <1>12, <1>13, <2>1, <2>2
  <2> QED BY <2>3
<1>16. ConvertStep(job.owner, job.to)'
  <2>1. queue' = <<[kind |-> "stake", pair |-> to, owner |-> job.owner,
                    amount |-> balance'[Converter][LpOf[to]]]>>
    BY <1>4, <1>5
  <2>2. staked' = before'.staked /\ job'.to = to /\ job'.owner = job.owner
    BY <1>1, <1>3
  <2> QED BY <1>14, <1>15, <2>1, <2>2 DEF ConvertStep, Holds
<1>17. staked' \in Stakes
  BY <1>1 DEF PeripheryInv
<1> QED
  BY <1>1, <1>2, <1>13, <1>16, <1>17, ConversionGoesOn

LEMMA RunStakeStep == PeripheryInv /\ RunStake => PeripheryInv'
<1> SUFFICES ASSUME PeripheryInv, RunStake PROVE PeripheryInv'
  OBVIOUS
<1> DEFINE m == Head(queue)
           to == job.to
           owner == job.owner
           held == balance[Converter][LpOf[to]]
<1>1. /\ queue # <<>> /\ m.kind = "stake"
      /\ UNCHANGED <<stored, running, before, job, begun>> /\ queue' = <<>> \o Tail(queue)
      /\ balance' = Debit(balance, Converter, LpOf[m.pair], m.amount)
      /\ staked' = [staked EXCEPT ![m.pair][m.owner] = @ + m.amount]
  BY DEF RunStake, Running, Run
<1>2. running /\ before \in Snapshots /\ ConvertOn
  BY <1>1, ConvertHead
<1>3. /\ queue = <<[kind |-> "stake", pair |-> to, owner |-> owner, amount |-> held]>>
      /\ staked = before.staked /\ held > 0
      /\ \A c \in to \cup {BaseDenom} : c # LpOf[to] => balance[Converter][c] = 0
  BY <1>1, <1>2 DEF ConvertOn, ConvertStep, Holds
<1>4. m.pair = to /\ m.owner = owner /\ m.amount = held /\ queue' = <<>>
  <2> DEFINE message == [kind |-> "stake", pair |-> to, owner |-> owner, amount |-> held]
  <2>1. message.pair = to /\ message.owner = owner /\ message.amount = held
    OBVIOUS
  <2>2. queue = <<message>>
    BY <1>3
  <2> HIDE DEF message
  <2>3. m = message /\ <<>> \o Tail(queue) = <<>>
    BY <2>2, OneMessage
  <2> QED BY <1>1, <2>1, <2>3
<1>5. to \in Pairs /\ owner \in Users
  BY <1>2 DEF ConvertOn, ConvertJobs
<1>6. /\ balance \in Balances /\ Converter \in Accounts /\ to \subseteq Coins /\ LpOf[to] \in Coins
      /\ staked \in Stakes
  BY <1>5, Parties, TwoCoins, LpTokens DEF PeripheryInv
<1>7. held \in Nat
  BY <1>6 DEF Balances
<1>8. /\ balance' \in Balances /\ balance'[Converter][LpOf[to]] = held - held
      /\ \A c \in Coins : c # LpOf[to] => balance'[Converter][c] = balance[Converter][c]
  <2>1. held \in 0..balance[Converter][LpOf[to]]
    BY <1>7
  <2>2. balance' = Debit(balance, Converter, LpOf[to], held)
    BY <1>1, <1>4
  <2>3. /\ balance' \in Balances
        /\ balance'[Converter][LpOf[to]] = balance[Converter][LpOf[to]] - held
        /\ \A c \in Coins : c # LpOf[to] => balance'[Converter][c] = balance[Converter][c]
    <3> HIDE DEF held, to
    <3> QED BY ONLY <1>6, <2>1, <2>2, DebitEffect
  <2> QED BY <2>3
<1>9. staked' = [staked EXCEPT ![to][owner] = @ + held]
  BY <1>1, <1>4
<1> HIDE DEF held, m
<1>10. balance'[Converter][LpOf[to]] = 0
  BY <1>7, <1>8
<1>11. /\ staked' \in Stakes /\ staked'[to][owner] > staked[to][owner]
       /\ \A p \in Pairs, u \in Users : p # to \/ u # owner => staked'[p][u] = staked[p][u]
  <2> HIDE DEF to, owner
  <2>1. staked \in [Pairs -> [Users -> Nat]] /\ staked[to] \in [Users -> Nat] /\ staked[to][owner] \in Nat
    BY <1>5, <1>6 DEF Stakes
  <2> DEFINE row == [staked[to] EXCEPT ![owner] = @ + held]
  <2>2. staked[to][owner] + held \in Nat /\ staked[to][owner] + held > staked[to][owner]
    BY <1>3, <1>7, <2>1
  <2>3. /\ row \in [Users -> Nat] /\ row[owner] = staked[to][owner] + held
        /\ \A u \in Users : u # owner => row[u] = staked[to][u]
    BY <1>5, <2>1, <2>2
  <2>4. staked' = [staked EXCEPT ![to] = row]
    BY <1>9, <2>1
  <2> HIDE DEF row
  <2> QED BY <1>5, <2>1, <2>2, <2>3, <2>4 DEF Stakes
<1>12. \A c \in to \cup {BaseDenom, LpOf[to]} : balance'[Converter][c] = 0
  BY <1>3, <1>6, <1>8, <1>10
<1>13. ConvertStep(job.owner, job.to)'
  <2>1. before' = before /\ job' = job
    BY <1>1
  <2>2. \A p \in Pairs, u \in Users :
          IF p = to /\ u = owner THEN staked'[p][u] > before'.staked[p][u]
                                 ELSE staked'[p][u] = before'.staked[p][u]
    BY <1>3, <1>11, <2>1
  <2>3. Converted(job.owner, job.to)'
    BY <1>12, <2>1, <2>2 DEF Converted, Holds
  <2> QED BY <1>4, <2>3 DEF ConvertStep
<1> QED
  BY <1>1, <1>2, <1>8, <1>11, <1>13, ConversionGoesOn

(* A transaction ends, or coins move between transactions. *)
LEMMA EndStep == PeripheryInv /\ (Commit \/ Abort) => PeripheryInv'
<1> SUFFICES ASSUME PeripheryInv, Commit \/ Abort PROVE PeripheryInv'
  OBVIOUS
<1>1. /\ running' = FALSE /\ queue' = <<>> /\ before' = NONE /\ job' = NONE /\ begun' = begun
  BY DEF Commit, Abort, End
<1>2. balance' \in Balances /\ staked' \in Stakes /\ stored' \in TmpDatas \cup {NONE}
  <2>1. CASE Commit
    BY <2>1 DEF Commit, PeripheryInv
  <2>2. CASE Abort
    BY <2>2 DEF Abort, PeripheryInv, Snapshots
  <2> QED BY <2>1, <2>2
<1> QED
  BY <1>1, <1>2 DEF PeripheryInv

LEMMA OutsideStep ==
  ASSUME PeripheryInv, NEW b \in Balances, Outside(b)
  PROVE  PeripheryInv'
BY DEF Outside, PeripheryInv

LEMMA TradeStep ==
  ASSUME PeripheryInv, NEW u \in Traders, NEW c \in Traded, NEW amount \in 0..MaxHeld, Trade(u, c, amount)
  PROVE  PeripheryInv'
<1> DEFINE empty == [coin \in Coins |-> 0]
           less == [balance EXCEPT ![u] = empty]
           got == Of(c, amount)
<1>1. balance \in Balances /\ u \in Accounts /\ c \in Coins /\ amount \in Nat
  BY Parties DEF PeripheryInv
<1>2. less \in Balances
  <2>1. empty \in [Coins -> Nat]
    OBVIOUS
  <2> HIDE DEF empty
  <2> QED BY <1>1, <2>1 DEF Balances
<1>3. \A d \in Coins : In(got, d) \in Nat
  BY <1>1 DEF In, Of
<1> HIDE DEF got
<1>4. Credit(less, u, got) \in Balances
  <2> HIDE DEF less
  <2> QED BY <1>1, <1>2, <1>3, CreditEffect
<1>5. Outside(Credit(less, u, got))
  BY DEF Trade, got
<1> HIDE DEF less
<1> QED
  BY <1>4, <1>5, OutsideStep

LEMMA GiveStep ==
  ASSUME PeripheryInv, NEW c \in Gifts, Give(c)
  PROVE  PeripheryInv'
<1> DEFINE more == [balance EXCEPT ![Converter][c] = @ + 1]
<1>1. balance \in Balances /\ Converter \in Accounts /\ c \in Coins
  BY Parties DEF PeripheryInv
<1>2. more \in Balances
  <2>1. balance \in [Accounts -> [Coins -> Nat]] /\ balance[Converter] \in [Coins -> Nat]
        /\ balance[Converter][c] + 1 \in Nat
    BY <1>1 DEF Balances
  <2>2. more = [balance EXCEPT ![Converter] = [balance[Converter] EXCEPT ![c] = balance[Converter][c] + 1]]
    BY <2>1
  <2> QED BY <1>1, <2>1, <2>2 DEF Balances
<1>3. Outside(more)
  BY DEF Give
<1> HIDE DEF more
<1> QED
  BY <1>2, <1>3, OutsideStep

LEMMA StutterInv == PeripheryInv /\ UNCHANGED vars => PeripheryInv'
BY DEF vars, PeripheryInv, RouteOn, ConvertOn, ConvertStep, Converted, Provision, Holds

LEMMA NextInv == PeripheryInv /\ [Next]_vars => PeripheryInv'
<1> SUFFICES ASSUME PeripheryInv, [Next]_vars PROVE PeripheryInv'
  OBVIOUS
<1>1. CASE RouterBegins
  BY <1>1, RouterBeginsStep
<1>2. CASE ConverterBegins
  BY <1>2, ConverterBeginsStep
<1>3. CASE Transact
  <2>1. CASE RouterRuns
    BY <2>1, RunSwapStep, RunAssertStep DEF RouterRuns
  <2>2. CASE ConverterRuns
    BY <2>2, RunWithdrawStep, RunBondStep, RunProvideStep, RunStakeStep DEF ConverterRuns
  <2>3. CASE Commit \/ Abort
    BY <2>3, EndStep
  <2> QED BY <1>3, <2>1, <2>2, <2>3 DEF Transact
<1>4. CASE \E u \in Traders, c \in Traded, amount \in 0..MaxHeld : Trade(u, c, amount)
  BY <1>4, TradeStep
<1>5. CASE \E c \in Gifts : Give(c)
  BY <1>5, GiveStep
<1>6. CASE UNCHANGED vars
  BY <1>6, StutterInv
<1> QED
  BY <1>1, <1>2, <1>3, <1>4, <1>5, <1>6 DEF Next

----------------------------------------------------------------------------
(* What follows from the invariant *)

LEMMA InvTypes == PeripheryInv => TypeOK
<1> SUFFICES ASSUME PeripheryInv PROVE TypeOK
  OBVIOUS
<1>1. \A i \in DOMAIN queue : queue[i].kind \in {"swap", "assert", "withdraw", "bond", "provide", "stake"}
  <2>1. CASE queue = <<>>
    BY <2>1
  <2>2. CASE running /\ ConvertOn
    <3>1. queue = <<>> \/ \E m : queue = <<m>> /\ m.kind \in {"withdraw", "bond", "provide", "stake"}
      BY <2>2 DEF ConvertOn, ConvertStep
    <3> QED BY <3>1
  <2>3. CASE running /\ RouteOn
    <3>1. PICK k \in 0..Steps(job) : queue = Rest(job, before.balance, k)
      BY <2>3 DEF RouteOn, RouteAt
    <3> QED BY <3>1 DEF Rest, MessageOf
  <2> QED BY <2>1, <2>2, <2>3 DEF PeripheryInv
<1>2. running => before # NONE /\ job # NONE
  BY NoneApart DEF PeripheryInv, RouteOn, ConvertOn
<1>3. ~running => before = NONE /\ job = NONE /\ queue = <<>>
  BY DEF PeripheryInv
<1>4. begun <= MaxBegun
  BY DEF PeripheryInv
<1> QED
  BY <1>1, <1>2, <1>3, <1>4 DEF PeripheryInv, TypeOK

LEMMA InvDelivers == PeripheryInv => RouteDelivered
<1> SUFFICES ASSUME PeripheryInv, running, queue = <<>>, job.kind = "route" PROVE RouteDelivered
  BY DEF RouteDelivered
<1>1. RouteOn
  BY DEF PeripheryInv, ConvertOn, ConvertJobs
<1>2. PICK k \in 0..Steps(job) : RouteAt(job, before.balance, k, queue, balance)
  BY <1>1 DEF RouteOn
<1> DEFINE n == Len(job.operations)
           target == Target(job.operations)
<1>3. /\ job \in RouteJobs /\ job.operations # <<>> /\ n \in Nat /\ Steps(job) \in Nat
      /\ DOMAIN job.operations = 1..n
      /\ (job.minimum = NONE \/ job.minimum \in Nat)
      /\ Steps(job) = IF job.minimum = NONE THEN n ELSE n + 1
  BY <1>1, JobTypes DEF RouteOn
<1>4. k = Steps(job)
  <2>1. Rest(job, before.balance, k) = <<>>
    BY <1>2 DEF RouteAt
  <2> QED BY <1>3, <2>1, RestOfRoute
<1>5. job.minimum # NONE => balance[job.receiver][target] >= HadBefore(job, before.balance) + job.minimum
  BY <1>2, <1>3, <1>4 DEF RouteAt, MinimumMet
<1>6. Chained(job.operations) /\ job.receiver # Router =>
        \A i \in DOMAIN job.operations : balance[Router][job.operations[i].offer] = 0
  <2> SUFFICES ASSUME Chained(job.operations), job.receiver # Router, NEW i \in 1..n
               PROVE  balance[Router][job.operations[i].offer] = 0
    BY <1>3
  <2>1. i <= k /\ ~(k < n)
    BY <1>3, <1>4
  <2> QED BY <1>2, <2>1 DEF RouteAt, WayCleared
<1>7. \A a \in Accounts \ {Router, job.sender, job.receiver} : balance[a] = before.balance[a]
  BY <1>2 DEF RouteAt, OthersKept
<1> QED
  BY <1>5, <1>6, <1>7 DEF RouteDelivered, HadBefore, In, SentOf

LEMMA InvConverts ==
  PeripheryInv /\ running /\ queue = <<>> /\ job.kind = "convert" => Converted(job.owner, job.to)
<1> SUFFICES ASSUME PeripheryInv, running, queue = <<>>, job.kind = "convert"
             PROVE  Converted(job.owner, job.to)
  OBVIOUS
<1>1. ConvertOn
  BY DEF PeripheryInv, RouteOn, RouteJobs
<1> QED
  BY <1>1 DEF ConvertOn, ConvertStep

LEMMA Invariance == Spec => []PeripheryInv
BY InitInv, NextInv, PTL DEF Spec

(* No balance of the router, the converter or a user goes below zero, the   *)
(* messages are those of the two contracts, and a snapshot to go back to is *)
(* kept exactly while a transaction runs.                                   *)
THEOREM TypesHold == Spec => []TypeOK
BY Invariance, InvTypes, PTL

(* A route of any length, over any pairs, that goes through has paid its    *)
(* receiver the minimum over what it had, leaves nothing of the way in the  *)
(* router if its swaps are chained, and moves nobody else's coins (contract.rs *)
(* 130-188 and 245-345).                                                    *)
THEOREM RoutesDeliver == Spec => []RouteDelivered
BY Invariance, InvDelivers, PTL

(* A conversion whose last message has run has raised the stake of its own  *)
(* owner and of nobody else, with all that was bought on the way and all    *)
(* that lay in the converter from before (contract.rs 87-290).              *)
THEOREM ConversionsConvert ==
  Spec => [](running /\ queue = <<>> /\ job.kind = "convert" => Converted(job.owner, job.to))
BY Invariance, InvConverts, PTL
=============================================================================
