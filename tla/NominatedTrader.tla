-------------------------- MODULE NominatedTrader --------------------------
(***************************************************************************)
(* The nominated trader, contracts/nominated-trader/src: protocol fees of  *)
(* the pairs arrive in many assets; Collect swaps them to PALOMA, directly *)
(* or along ROUTES, one hop per message the contract sends to itself.      *)
(*                                                                         *)
(* A collection is one transaction of many messages.  The queue holds the  *)
(* messages still to run; the first that fails restores the balances from  *)
(* before.  Nothing else happens on the chain meanwhile.                   *)
(*                                                                         *)
(* What a pool pays is left open, as long as it is something: a pair       *)
(* refuses to pay nothing.  Which pool of several is taken, the one with   *)
(* the best simulation, is part of what it pays.  Messages of senders that *)
(* are not allowed to send them change nothing and are left out.           *)
(***************************************************************************)
EXTENDS Integers, Sequences, Functions, TokenUnits

CONSTANTS
  Assets,          \* the assets fees may come in
  Tokens,          \* those of them that are cw20 tokens
  Paloma,          \* Config.token_contract
  RoutesMaxDepth,  \* ROUTES_MAX_DEPTH
  Markets,         \* the sets of pools there may be, each pool a set of two assets
  Requests,        \* what the nominated trader may ask to collect: sequences
                   \* of [info, limit], with a limit of zero for none
  MaxHeld          \* bound: fees the contract holds before it stops receiving

ASSUME AssetAssumption == IsFiniteSet(Assets) /\ Tokens \subseteq Assets /\ Paloma \in Tokens
ASSUME DepthAssumption == RoutesMaxDepth \in Nat
ASSUME MarketAssumption == \A m \in Markets : \A p \in m : \E a, b \in Assets : a # b /\ p = {a, b}
ASSUME RequestAssumption == \A r \in Requests : r \in Seq([info : Assets, limit : Nat])
ASSUME HeldAssumption == MaxHeld \in Nat

VARIABLES
  pools,    \* the pools the factory has a route for and that can be simulated
  routes,   \* ROUTES, for some assets the next one on the way to PALOMA
  balance,  \* what the contract holds of each asset
  running,  \* whether a collection is being executed
  queue,    \* its messages still to run
  before    \* the balances it started from

transaction == <<running, queue, before>>
traderVars == <<pools, routes, balance, transaction>>

Messages == [kind : {"swap"}, from : Assets, to : Assets, amount : Nat \ {0}]
            \cup [kind : {"hop"}, assets : SUBSET Assets]

----------------------------------------------------------------------------
(* Routes *)

(* get_pool finds a pool *)
Pool(a, b) == {a, b} \in pools

(* Mutant: a route whose next asset leads nowhere passes *)
ValidRouteOpenEnded(nexts, a, b) ==
  /\ Pool(a, b)
  /\ \E depth \in 0..RoutesMaxDepth : \E way \in [0..depth -> Assets] :
       /\ way[0] = b
       /\ \A i \in 1..depth : /\ way[i - 1] \in DOMAIN nexts /\ way[i] = nexts[way[i - 1]]
                             /\ Pool(way[i - 1], way[i])
       /\ Pool(way[depth], Paloma) \/ way[depth] \notin DOMAIN nexts

(* validate_route: the first hop has a pool, and ROUTES leads on from it by *)
(* further hops with pools, RoutesMaxDepth of them at most, to an asset     *)
(* with a pool for PALOMA                                                   *)
ValidRoute(nexts, a, b) ==
  /\ Pool(a, b)
  /\ \E depth \in 0..RoutesMaxDepth : \E way \in [0..depth -> Assets] :
       /\ way[0] = b
       /\ \A i \in 1..depth : /\ way[i - 1] \in DOMAIN nexts /\ way[i] = nexts[way[i - 1]]
                             /\ Pool(way[i - 1], way[i])
       /\ Pool(way[depth], Paloma)

(* UpdateRoutes: routes are removed, then one is added, checked against    *)
(* those that are left.  What is removed must be an address, so a native   *)
(* denom never is.  Further additions are further steps.                   *)
UpdateRoutes(remove, add) ==
  /\ ~running
  /\ remove \subseteq Tokens
  /\ LET left == [a \in DOMAIN routes \ remove |-> routes[a]] IN
     \/ add = <<>> /\ routes' = left
     \/ /\ add # <<>>
        /\ ValidRoute(left, add[1], add[2])
        /\ routes' = [a \in DOMAIN left \cup {add[1]} |-> IF a = add[1] THEN add[2] ELSE left[a]]
  /\ UNCHANGED <<pools, balance, transaction>>
----------------------------------------------------------------------------
(* Collecting *)

(* swap: an asset with a route follows it, even if it has a pool for PALOMA *)
NextAsset(a) == IF a \in DOMAIN routes THEN routes[a] ELSE Paloma

CanSwap(a) == IF a \in DOMAIN routes THEN ValidRoute(routes, a, routes[a]) ELSE Pool(a, Paloma)

(* The amount swap_assets swaps: the balance, or a smaller limit above zero *)
ToSwap(ask) == IF 0 < ask.limit /\ ask.limit < balance[ask.info] THEN ask.limit ELSE balance[ask.info]

(* Mutant: empty balances are swapped too *)
WorkWithZeros(asks) == DOMAIN asks

(* The requests swap_assets makes a message for *)
Work(asks) == {i \in DOMAIN asks : ToSwap(asks[i]) > 0}

(* swap_assets goes through: there is something to swap and a way for it *)
CanSwapAll(assets) == assets # {} /\ \A a \in assets : CanSwap(a)

SwapMessage(ask) ==
  [kind |-> "swap", from |-> ask.info, to |-> NextAsset(ask.info), amount |-> ToSwap(ask)]

(* Mutant: swap_assets forgets the assets on the way *)
SwapMessagesNoHop(asks) == [i \in DOMAIN asks |-> SwapMessage(asks[i])]

(* The messages of swap_assets: the swaps, with the balances it read, and  *)
(* then a call of SwapHopAssets for the assets they bring in on the way    *)
SwapMessages(asks) ==
  LET onTheWay == {NextAsset(asks[i].info) : i \in {k \in DOMAIN asks : asks[k].info \in DOMAIN routes}}
  IN [i \in DOMAIN asks |-> SwapMessage(asks[i])]
       \o (IF onTheWay = {} THEN <<>> ELSE <<[kind |-> "hop", assets |-> onTheWay]>>)

(* Some positions in a list of requests, in their order *)
InOrder(positions) ==
  {listed \in Bijection(1..Cardinality(positions), positions) :
     \A i, j \in DOMAIN listed : i < j => listed[i] < listed[j]}

(* swap_assets, for those of the requests that are work; `rest` runs after *)
SwapAssets(asks, work, rest) ==
  /\ CanSwapAll({asks[i].info : i \in work})
  /\ \E listed \in InOrder(work) :
       queue' = SwapMessages([k \in DOMAIN listed |-> asks[listed[k]]]) \o rest

(* Mutant: Collect without the check for duplicates *)
CollectTwice(request) ==
  /\ ~running
  /\ SwapAssets(request, {i \in Work(request) : request[i].info # Paloma}, <<>>)
  /\ running' = TRUE
  /\ before' = balance
  /\ UNCHANGED <<pools, routes, balance>>

(* Collect, by the nominated trader *)
Collect(request) ==
  /\ ~running
  /\ \A i, j \in DOMAIN request : request[i].info = request[j].info => i = j
  /\ SwapAssets(request, {i \in Work(request) : request[i].info # Paloma}, <<>>)
  /\ running' = TRUE
  /\ before' = balance
  /\ UNCHANGED <<pools, routes, balance>>

(* A pair takes the offer and pays something *)
RunSwap(received) ==
  /\ queue # <<>> /\ Head(queue).kind = "swap"
  /\ LET m == Head(queue) IN
     /\ m.amount <= balance[m.from]
     /\ received \in 1..m.amount
     /\ balance' = [balance EXCEPT ![m.from] = @ - m.amount, ![m.to] = @ + received]
  /\ queue' = Tail(queue)
  /\ UNCHANGED <<pools, routes, running, before>>

(* SwapHopAssets asks for whole balances *)
HopAsks(order) == [i \in DOMAIN order |-> [info |-> order[i], limit |-> 0]]

(* SwapHopAssets, by the contract itself; the assets come out of a hash map *)
(* in any order, and there are some.  Its depth is always 2, below          *)
(* ROUTES_EXECUTION_MAX_DEPTH, however often it is called.                  *)
RunHop ==
  /\ queue # <<>> /\ Head(queue).kind = "hop"
  /\ \E order \in Bijection(1..Cardinality(Head(queue).assets), Head(queue).assets) :
       SwapAssets(HopAsks(order), Work(HopAsks(order)), Tail(queue))
  /\ UNCHANGED <<pools, routes, balance, running, before>>

(* The last message has run *)
Commit ==
  /\ running /\ queue = <<>>
  /\ running' = FALSE
  /\ before' = [a \in Assets |-> 0]
  /\ UNCHANGED <<pools, routes, balance, queue>>

(* A message fails: a pair refuses the swap, or SwapHopAssets an asset *)
Abort ==
  /\ queue # <<>>
  /\ running' = FALSE
  /\ queue' = <<>>
  /\ balance' = before
  /\ before' = [a \in Assets |-> 0]
  /\ UNCHANGED <<pools, routes>>
----------------------------------------------------------------------------
(* Transfer (spend), by the owner: PALOMA goes to anybody *)
Transfer(amount) ==
  /\ ~running
  /\ amount \in 1..balance[Paloma]
  /\ balance' = [balance EXCEPT ![Paloma] = @ - amount]
  /\ UNCHANGED <<pools, routes, transaction>>

(* A fee arrives *)
ReceiveFee(a) ==
  /\ ~running
  /\ Total(balance, Assets) < MaxHeld
  /\ balance' = [balance EXCEPT ![a] = @ + 1]
  /\ UNCHANGED <<pools, routes, transaction>>

(* Pairs are registered and deregistered, filled and emptied *)
ChangePools ==
  /\ ~running
  /\ pools' \in Markets
  /\ UNCHANGED <<routes, balance, transaction>>

TraderInit ==
  /\ pools \in Markets
  /\ routes = <<>>
  /\ balance = [a \in Assets |-> 0]
  /\ running = FALSE
  /\ queue = <<>>
  /\ before = [a \in Assets |-> 0]

TraderNext ==
  \/ \E remove \in SUBSET Tokens, add \in (Assets \X Assets) \cup {<<>>} : UpdateRoutes(remove, add)
  \/ \E request \in Requests : Collect(request)
  \/ \E received \in 1..MaxHeld : RunSwap(received)
  \/ RunHop
  \/ Commit
  \/ Abort
  \/ \E a \in Assets : ReceiveFee(a)
  \/ ChangePools
----------------------------------------------------------------------------
TraderTypeOK ==
  /\ pools \in Markets
  /\ DOMAIN routes \subseteq Assets
  /\ \A a \in DOMAIN routes : routes[a] \in Assets
  /\ balance \in [Assets -> Nat]
  /\ before \in [Assets -> Nat]
  /\ running \in BOOLEAN
  /\ queue \in Seq(Messages)

(* Every swap waiting to run has the amount it will send: the handlers read *)
(* all balances before any of their swaps runs (contract.rs 203-223), and   *)
(* no other swap of the collection takes from the same asset meanwhile.     *)
SwapsCovered ==
  LET waiting == {i \in DOMAIN queue : queue[i].kind = "swap"} IN
  /\ \A i \in waiting : queue[i].amount <= balance[queue[i].from]
  /\ \A i, j \in waiting : queue[i].from = queue[j].from => i = j

(* A collection that went through left none of what it bought on the way in *)
(* the contract, and it brought in PALOMA unless PALOMA itself has a route  *)
(* (contract.rs 191-244: hops sell the whole balance of their assets).      *)
NothingLeftOnTheWay ==
  running /\ queue = <<>> =>
    /\ \A a \in Assets \ {Paloma} : balance[a] <= before[a]
    /\ Paloma \notin DOMAIN routes => balance[Paloma] > before[Paloma]

(* As long as every route is valid, a collection that was accepted is never *)
(* stopped half way for lack of a pool or of something to swap              *)
(* (utils.rs 127-174: validate_route looks all the way down to PALOMA).     *)
HopsGoThrough ==
  /\ queue # <<>> /\ Head(queue).kind = "hop"
  /\ \A a \in DOMAIN routes : ValidRoute(routes, a, routes[a])
  => CanSwapAll({a \in Head(queue).assets : balance[a] > 0})
============================================================================
