------------------------------ MODULE Factory ------------------------------
(***************************************************************************)
(* The factory, contracts/factory/src, with the ownership proposals of     *)
(* packages/palomadex/src/common.rs: a directory of pairs with two         *)
(* indexes, the routes between two assets and the staking contracts, and   *)
(* the list of pairs whose contract admin is still an earlier owner.       *)
(*                                                                         *)
(* An asset is its name, a sequence of bytes: native denoms and token      *)
(* addresses are told apart nowhere here.  A pair contract is the number   *)
(* of its creation; that number also stands for its staking contract,      *)
(* which the pair instantiates.  A pair instantiates, its replies come and *)
(* the factory registers it in one transaction, so they are one action.    *)
(*                                                                         *)
(* UpdatePairFees and CreateDistributionFlow change nothing here: they     *)
(* send a message that is an action of Pair and of Stake.  No message      *)
(* stores PERMISSIONLESS_DEPOSIT, so Receive always fails.                 *)
(***************************************************************************)
EXTENDS Naturals, FiniteSets, SequencesExt

CONSTANTS
  NONE,        \* no ownership proposal is stored
  Users,       \* who sends messages and may come to own the factory
  Deployer,    \* the owner that InstantiateMsg names
  Assets,      \* the names of assets that exist
  PairTypes,   \* the pair types in PAIR_CONFIGS
  MaxProposalTtl, \* MAX_PROPOSAL_TTL
  MaxPairs,    \* bound: pairs ever created
  MaxTenures,  \* bound: changes of the owner
  MaxTime      \* bound: the last block time

ASSUME UserAssumption == Deployer \in Users
ASSUME AssetAssumption == Assets \subseteq Seq(Nat)
ASSUME BoundAssumption == {MaxProposalTtl, MaxPairs, MaxTenures, MaxTime} \subseteq Nat

VARIABLES
  now,         \* env.block.time
  owner,       \* CONFIG.owner
  onlyOwner,   \* CONFIG.only_owner_can_create_pairs
  disabled,    \* the pair types with is_disabled in PAIR_CONFIGS
  proposal,    \* OWNERSHIP_PROPOSAL: the owner proposed and its ttl
  pairs,       \* PAIRS: the pair of each key
  routes,      \* ROUTE: the pairs from one asset to another
  staking,     \* STAKING_ADDRESSES
  toMigrate,   \* PAIRS_TO_MIGRATE, empty while nothing is saved there
  listSaved,   \* whether PAIRS_TO_MIGRATE was ever saved
  contracts,   \* the pair contracts on the chain: the assets of each
  tenure,      \* how often the owner changed (read by the properties only)
  proposedIn,  \* the tenure of the last proposal (read by the properties only)
  adminSince   \* for each contract, the tenure whose owner set its admin, or
               \* said so (read by the properties only)

directory == <<pairs, routes, staking, contracts>>
ownership == <<owner, proposal, tenure, proposedIn>>
settings == <<onlyOwner, disabled>>
migration == <<toMigrate, listSaved>>
vars == <<now, directory, ownership, settings, migration, adminSince>>

Registered == Range(pairs)
----------------------------------------------------------------------------
(* Keys *)

(* the order of byte strings *)
Before(s, t) ==
  \/ IsStrictPrefix(s, t)
  \/ \E i \in 1..Len(s) : /\ i <= Len(t)
                          /\ s[i] < t[i]
                          /\ \A j \in 1..(i - 1) : s[j] = t[j]

(* the names in order, one after the other: no separator, no length *)
PairKey(assets) == FlattenSeq(SetToSortSeq(assets, Before))

AllPairsOf(assets) == {r \in assets \X assets : r[1] # r[2]}

(* The routes hold each pair once; their order is left out, as the pairs of
   distinct keys never share a route. *)

(* A bug: a pair is found in one direction only *)
OneDirection(assets, p) ==
  [r \in DOMAIN routes |->
     IF r \in AllPairsOf(assets) /\ Before(r[1], r[2]) THEN routes[r] \cup {p} ELSE routes[r]]

RoutesWith(assets, p) ==
  [r \in DOMAIN routes |-> IF r \in AllPairsOf(assets) THEN routes[r] \cup {p} ELSE routes[r]]

RoutesWithout(assets, p) ==
  [r \in DOMAIN routes |-> IF r \in AllPairsOf(assets) THEN routes[r] \ {p} ELSE routes[r]]
----------------------------------------------------------------------------
Init ==
  /\ now = 0
  /\ owner = Deployer
  /\ onlyOwner = TRUE
  /\ disabled \in SUBSET PairTypes
  /\ proposal = NONE
  /\ pairs = [k \in {} |-> 0]
  /\ routes = [r \in AllPairsOf(Assets) |-> {}]
  /\ staking = {}
  /\ toMigrate = {}
  /\ listSaved = FALSE
  /\ contracts = <<>>
  /\ tenure = 0
  /\ proposedIn = 0
  /\ adminSince = <<>>

(* the part of UpdateConfig that later messages depend on *)
UpdateConfig(sender, value) ==
  /\ sender = owner
  /\ onlyOwner' = value
  /\ UNCHANGED <<now, directory, ownership, disabled, migration, adminSince>>

UpdatePairConfig(sender, type, disable) ==
  /\ sender = owner
  /\ disabled' = IF disable THEN disabled \cup {type} ELSE disabled \ {type}
  /\ UNCHANGED <<now, directory, ownership, onlyOwner, migration, adminSince>>

MayCreate(sender, depositSent) ==
  /\ onlyOwner => sender = owner
  /\ ~onlyOwner => depositSent

(* reply::instantiate_pair *)
Register(assets, p) ==
  /\ pairs' = [k \in DOMAIN pairs \cup {PairKey(assets)} |->
                 IF k = PairKey(assets) THEN p ELSE pairs[k]]
  /\ routes' = RoutesWith(assets, p)
  /\ staking' = staking \cup {p}

(* A bug: the pair is expected at the address of the contract after it *)
AddressAfter == Len(contracts') + 1

(* the address that the reply to the instantiation brings *)
NewAddress == Len(contracts')

(* CreatePair and CreatePairAndDistributionFlows, which no deposit comes with.
   The pair contract refuses any other number of assets than two. *)
CreatePair(sender, type, assets) ==
  /\ MayCreate(sender, FALSE)
  /\ PairKey(assets) \notin DOMAIN pairs
  /\ type \notin disabled
  /\ Cardinality(assets) = 2
  /\ Len(contracts) < MaxPairs
  /\ contracts' = Append(contracts, assets)
  /\ Register(assets, NewAddress)
  /\ adminSince' = Append(adminSince, tenure)
  /\ UNCHANGED <<now, ownership, settings, migration>>

(* A bug: the staking contract stays valid *)
UnregisterPairOnly(assets, p) ==
  /\ pairs' = [k \in DOMAIN pairs \ {PairKey(assets)} |-> pairs[k]]
  /\ routes' = RoutesWithout(assets, p)
  /\ staking' = staking

Unregister(assets, p) ==
  /\ pairs' = [k \in DOMAIN pairs \ {PairKey(assets)} |-> pairs[k]]
  /\ routes' = RoutesWithout(assets, p)
  /\ staking' = staking \ {p}

(* Deregister, whatever number of assets the message lists *)
Deregister(sender, assets) ==
  /\ sender = owner
  /\ PairKey(assets) \in DOMAIN pairs
  /\ Unregister(assets, pairs[PairKey(assets)])
  /\ UNCHANGED <<now, ownership, settings, migration, contracts, adminSince>>
----------------------------------------------------------------------------
(* Ownership *)

ProposeNewOwner(sender, newOwner, expiresIn) ==
  /\ sender = owner
  /\ newOwner # owner
  /\ expiresIn <= MaxProposalTtl
  /\ proposal' = [owner |-> newOwner, ttl |-> now + expiresIn]
  /\ proposedIn' = tenure
  /\ UNCHANGED <<now, directory, settings, owner, tenure, migration, adminSince>>

DropOwnershipProposal(sender) ==
  /\ sender = owner
  /\ proposal' = NONE
  /\ UNCHANGED <<now, directory, settings, owner, tenure, proposedIn, migration, adminSince>>

(* A bug: the proposal can be claimed again *)
HandOverOnly == owner' = proposal.owner /\ proposal' = proposal

HandOver == owner' = proposal.owner /\ proposal' = NONE

(* A bug: the pairs already listed are taken to be all of them *)
ListOnce == IF listSaved THEN toMigrate ELSE Registered

PairsToList == Registered

ClaimOwnership(sender) ==
  /\ proposal # NONE
  /\ sender = proposal.owner
  /\ now <= proposal.ttl
  /\ tenure < MaxTenures
  /\ toMigrate' = PairsToList
  /\ listSaved' = TRUE
  /\ HandOver
  /\ tenure' = tenure + 1
  /\ UNCHANGED <<now, directory, settings, proposedIn, adminSince>>

MarkAsMigrated(sender, migrated) ==
  /\ sender = owner
  /\ listSaved
  /\ toMigrate' = toMigrate \ migrated
  /\ adminSince' = [p \in DOMAIN adminSince |->
                      IF p \in toMigrate \cap migrated THEN tenure ELSE adminSince[p]]
  /\ UNCHANGED <<now, directory, settings, ownership, listSaved>>

Tick ==
  /\ now < MaxTime
  /\ now' = now + 1
  /\ UNCHANGED <<directory, settings, ownership, migration, adminSince>>

Next ==
  \/ Tick
  \/ \E u \in Users :
       \/ \E value \in BOOLEAN : UpdateConfig(u, value)
       \/ \E type \in PairTypes, disable \in BOOLEAN : UpdatePairConfig(u, type, disable)
       \/ \E type \in PairTypes, assets \in SUBSET Assets : CreatePair(u, type, assets)
       \/ \E assets \in (SUBSET Assets) \ {{}} : Deregister(u, assets)
       \/ \E new \in Users, expiresIn \in 0..MaxProposalTtl : ProposeNewOwner(u, new, expiresIn)
       \/ DropOwnershipProposal(u)
       \/ ClaimOwnership(u)
       \/ \E migrated \in SUBSET DOMAIN contracts : MarkAsMigrated(u, migrated)

Spec == Init /\ [][Next]_vars
----------------------------------------------------------------------------
(* Properties *)

(* Every storage item holds what its Rust type allows; contracts grow with
   the ghosts that describe them. *)
TypeOK ==
  /\ now \in Nat
  /\ owner \in Users
  /\ onlyOwner \in BOOLEAN
  /\ disabled \subseteq PairTypes
  /\ proposal \in [owner : Users, ttl : Nat] \cup {NONE}
  /\ contracts \in Seq(SUBSET Assets)
  /\ Registered \subseteq DOMAIN contracts
  /\ routes \in [AllPairsOf(Assets) -> SUBSET DOMAIN contracts]
  /\ staking \subseteq DOMAIN contracts
  /\ toMigrate \subseteq DOMAIN contracts
  /\ listSaved \in BOOLEAN
  /\ tenure \in Nat
  /\ proposedIn \in 0..tenure
  /\ adminSince \in Seq(0..tenure) /\ Len(adminSince) = Len(contracts)

(* A route leads over exactly the registered pairs of its two assets, so the
   nominated trader never trades on a pair that was deregistered: "a list of
   all pairs which are able to convert X <> Y assets". *)
RoutesMatchPairs ==
  \A a, b \in Assets :
    a # b => routes[<<a, b>>] = {p \in Registered : {a, b} \subseteq contracts[p]}

(* A staking contract is valid, and may receive what gauges vote for, exactly
   while its pair is registered. *)
StakingMatchesPairs == staking = Registered

(* A registered pair is blocked exactly while its admin is an earlier owner,
   or an earlier tenure of the same one, and nobody in this tenure has said it
   is migrated: pairs created since are never blocked, older ones always. *)
BlockedUntilMigrated ==
  \A p \in Registered : p \in toMigrate <=> adminSince[p] < tenure

(* A proposal that can still be claimed was made by the owner of today, for
   somebody else: nothing an earlier owner offered survives its tenure. *)
ProposalOfThisOwner ==
  proposal # NONE => proposal.owner # owner /\ proposedIn = tenure
============================================================================
