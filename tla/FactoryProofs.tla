--------------------------- MODULE FactoryProofs ---------------------------
(***************************************************************************)
(* What Factory keeps for any users, assets, ttl and number of pairs.      *)
(*                                                                         *)
(* The invariants of ownership and migration and the staking index hold    *)
(* whatever the keys of pairs are.  The routes match the pairs as long as  *)
(* different sets of assets have different keys, which the code leaves to  *)
(* the names of the assets: DistinctKeys is a hypothesis of that theorem,  *)
(* and without it the theorem fails.                                       *)
(***************************************************************************)
EXTENDS Factory, TLAPS

(* No two keys lead to one pair: a new pair contract has an address of its
   own.  Unregister relies on it to take one pair out of the index. *)
OneKeyForPair == \A k, l \in DOMAIN pairs : pairs[k] = pairs[l] => k = l

Inv == /\ TypeOK
       /\ OneKeyForPair
       /\ StakingMatchesPairs
       /\ BlockedUntilMigrated
       /\ ProposalOfThisOwner

LEMMA InitInv == Init => Inv
<1> SUFFICES ASSUME Init PROVE Inv
  OBVIOUS
<1>1. DOMAIN pairs = {} /\ Registered = {}
  BY DEF Init, Registered, Range
<1>2. contracts = <<>> /\ adminSince = <<>> /\ contracts \in Seq(SUBSET Assets)
      /\ adminSince \in Seq(0..tenure) /\ Len(adminSince) = Len(contracts)
  BY DEF Init
<1>3. onlyOwner \in BOOLEAN /\ listSaved \in BOOLEAN
  BY DEF Init
<1>4. routes \in [AllPairsOf(Assets) -> SUBSET DOMAIN contracts]
  BY DEF Init
<1>5. TypeOK
  <2>1. /\ now \in Nat /\ owner \in Users /\ disabled \subseteq PairTypes
        /\ proposal \in [owner : Users, ttl : Nat] \cup {NONE}
        /\ staking \subseteq DOMAIN contracts /\ toMigrate \subseteq DOMAIN contracts
        /\ tenure \in Nat /\ proposedIn \in 0..tenure
    BY UserAssumption DEF Init
  <2> QED
    BY <1>1, <1>2, <1>3, <1>4, <2>1 DEF TypeOK
<1> QED
  BY <1>1, <1>5 DEF Init, Inv, OneKeyForPair, StakingMatchesPairs, BlockedUntilMigrated,
     ProposalOfThisOwner

(* What a step that leaves the directory alone keeps of it. *)
LEMMA SameDirectory ==
  ASSUME Inv, UNCHANGED directory
  PROVE  Registered' = Registered /\ OneKeyForPair' /\ StakingMatchesPairs'
  BY DEF Inv, directory, Registered, Range, OneKeyForPair, StakingMatchesPairs

(* The pairs that are blocked stay those of earlier tenures when neither
   changes. *)
LEMMA SameBlocked ==
  ASSUME Inv, Registered' \subseteq Registered, UNCHANGED <<migration, tenure, adminSince>>
  PROVE  BlockedUntilMigrated'
  BY DEF Inv, BlockedUntilMigrated, migration

LEMMA SameProposal ==
  ASSUME Inv, UNCHANGED ownership
  PROVE  ProposalOfThisOwner'
  BY DEF Inv, ProposalOfThisOwner, ownership

(* The unregistered rest of the directory is still one to one. *)
LEMMA UnregisterInv ==
  ASSUME Inv, NEW key \in DOMAIN pairs,
         pairs' = [k \in DOMAIN pairs \ {key} |-> pairs[k]],
         staking' = staking \ {pairs[key]}
  PROVE  Registered' = Registered \ {pairs[key]} /\ OneKeyForPair' /\ StakingMatchesPairs'
<1>1. OneKeyForPair'
  BY DEF Inv, OneKeyForPair
<1>2. Registered' = Registered \ {pairs[key]}
  BY DEF Inv, OneKeyForPair, Registered, Range
<1> QED
  BY <1>1, <1>2 DEF Inv, StakingMatchesPairs

(* A new pair is registered under a key that had none. *)
LEMMA RegisterInv ==
  ASSUME Inv, NEW key, key \notin DOMAIN pairs, NEW p, p \notin DOMAIN contracts,
         pairs' = [k \in DOMAIN pairs \cup {key} |-> IF k = key THEN p ELSE pairs[k]],
         staking' = staking \cup {p}
  PROVE  Registered' = Registered \cup {p} /\ OneKeyForPair' /\ StakingMatchesPairs'
<1>1. \A k \in DOMAIN pairs : pairs[k] # p
  BY DEF Inv, TypeOK, Registered, Range
<1>2. OneKeyForPair'
  BY <1>1 DEF Inv, OneKeyForPair
<1>3. Registered' = Registered \cup {p}
  BY DEF Registered, Range
<1> QED
  BY <1>2, <1>3 DEF Inv, StakingMatchesPairs

LEMMA CreatePairInv ==
  ASSUME Inv, NEW u \in Users, NEW type \in PairTypes, NEW assets \in SUBSET Assets,
         CreatePair(u, type, assets)
  PROVE  Inv'
<1> DEFINE p == Len(contracts) + 1
<1>1. /\ contracts' = Append(contracts, assets)
      /\ adminSince' = Append(adminSince, tenure)
      /\ UNCHANGED <<now, ownership, settings, migration>>
  BY DEF CreatePair
<1>2. /\ Len(contracts) \in Nat
      /\ DOMAIN contracts = 1..Len(contracts)
      /\ contracts' \in Seq(SUBSET Assets)
      /\ DOMAIN contracts' = DOMAIN contracts \cup {p}
      /\ Len(contracts') = p
  BY <1>1 DEF Inv, TypeOK
<1>3. /\ pairs' = [k \in DOMAIN pairs \cup {PairKey(assets)} |->
                     IF k = PairKey(assets) THEN p ELSE pairs[k]]
      /\ PairKey(assets) \notin DOMAIN pairs
      /\ routes' = RoutesWith(assets, p)
      /\ staking' = staking \cup {p}
  BY <1>2 DEF CreatePair, Register, NewAddress
<1>4. p \notin DOMAIN contracts
  BY <1>2
<1>5. Registered' = Registered \cup {p} /\ OneKeyForPair' /\ StakingMatchesPairs'
  <2> HIDE DEF p
  <2> QED BY <1>3, <1>4, RegisterInv
<1>6. /\ adminSince' \in Seq(0..tenure')
      /\ Len(adminSince') = Len(contracts')
      /\ adminSince'[p] = tenure
      /\ \A q \in DOMAIN contracts : adminSince'[q] = adminSince[q]
  BY <1>1, <1>2 DEF Inv, TypeOK, ownership, migration
<1>7. routes' \in [AllPairsOf(Assets) -> SUBSET DOMAIN contracts']
  BY <1>2, <1>3 DEF Inv, TypeOK, RoutesWith
<1>8. TypeOK'
  <2>1. /\ now' \in Nat /\ owner' \in Users /\ onlyOwner' \in BOOLEAN /\ disabled' \subseteq PairTypes
        /\ proposal' \in [owner : Users, ttl : Nat] \cup {NONE}
        /\ tenure' \in Nat /\ proposedIn' \in 0..tenure'
    BY <1>1 DEF Inv, TypeOK, ownership, migration, settings
  <2>2. /\ Registered' \subseteq DOMAIN contracts' /\ staking' \subseteq DOMAIN contracts'
        /\ toMigrate' \subseteq DOMAIN contracts' /\ listSaved' \in BOOLEAN
    BY <1>1, <1>2, <1>3, <1>5 DEF Inv, TypeOK, migration
  <2> QED
    BY <1>2, <1>6, <1>7, <2>1, <2>2 DEF TypeOK
<1>9. BlockedUntilMigrated'
  <2> SUFFICES ASSUME NEW q \in Registered'
               PROVE  q \in toMigrate <=> adminSince'[q] < tenure
    BY <1>1 DEF BlockedUntilMigrated, ownership, migration
  <2>1. CASE q = p
    <3>1. q \notin toMigrate
      BY <1>4, <2>1 DEF Inv, TypeOK
    <3>2. ~(adminSince'[q] < tenure)
      BY <1>6, <2>1 DEF Inv, TypeOK
    <3> QED BY <3>1, <3>2
  <2>2. CASE q # p
    <3>1. q \in Registered /\ q \in DOMAIN contracts
      BY <1>5, <2>2 DEF Inv, TypeOK
    <3> QED BY <1>1, <1>6, <3>1 DEF Inv, BlockedUntilMigrated, migration
  <2> QED BY <2>1, <2>2
<1>10. ProposalOfThisOwner'
  BY <1>1, SameProposal
<1> QED
  BY <1>5, <1>8, <1>9, <1>10 DEF Inv

LEMMA DeregisterInv ==
  ASSUME Inv, NEW u \in Users, NEW assets \in (SUBSET Assets) \ {{}}, Deregister(u, assets)
  PROVE  Inv'
<1> DEFINE key == PairKey(assets)
<1>1. /\ key \in DOMAIN pairs
      /\ pairs' = [k \in DOMAIN pairs \ {key} |-> pairs[k]]
      /\ routes' = RoutesWithout(assets, pairs[key])
      /\ staking' = staking \ {pairs[key]}
      /\ UNCHANGED <<now, ownership, settings, migration, contracts, adminSince>>
  BY DEF Deregister, Unregister
<1>2. Registered' = Registered \ {pairs[key]} /\ OneKeyForPair' /\ StakingMatchesPairs'
  <2> HIDE DEF key
  <2> QED BY <1>1, UnregisterInv
<1>3. routes' \in [AllPairsOf(Assets) -> SUBSET DOMAIN contracts]
  BY <1>1 DEF Inv, TypeOK, RoutesWithout
<1>4. TypeOK'
  BY <1>1, <1>2, <1>3 DEF Inv, TypeOK, ownership, migration, settings
<1>5. BlockedUntilMigrated'
  BY <1>1, <1>2, SameBlocked DEF ownership
<1>6. ProposalOfThisOwner'
  BY <1>1, SameProposal
<1> QED
  BY <1>2, <1>4, <1>5, <1>6 DEF Inv

LEMMA MarkAsMigratedInv ==
  ASSUME Inv, NEW u \in Users, NEW migrated \in SUBSET DOMAIN contracts,
         MarkAsMigrated(u, migrated)
  PROVE  Inv'
<1>1. /\ toMigrate' = toMigrate \ migrated
      /\ adminSince' = [p \in DOMAIN adminSince |->
                          IF p \in toMigrate \cap migrated THEN tenure ELSE adminSince[p]]
      /\ UNCHANGED <<now, directory, settings, ownership, listSaved>>
  BY DEF MarkAsMigrated
<1>2. Registered' = Registered /\ OneKeyForPair' /\ StakingMatchesPairs'
  BY <1>1, SameDirectory
<1>3. /\ Len(adminSince) \in Nat
      /\ DOMAIN adminSince = 1..Len(adminSince)
      /\ DOMAIN contracts = DOMAIN adminSince
      /\ adminSince \in [1..Len(adminSince) -> 0..tenure]
      /\ tenure \in 0..tenure
  BY DEF Inv, TypeOK
<1>4. adminSince' \in [1..Len(adminSince) -> 0..tenure]
  BY <1>1, <1>3
<1>5. adminSince' \in Seq(0..tenure) /\ Len(adminSince') = Len(adminSince)
  BY <1>3, <1>4
<1>6. TypeOK'
  <2>1. toMigrate' \in SUBSET DOMAIN contracts
    BY <1>1 DEF Inv, TypeOK
  <2> QED
    BY <1>1, <1>2, <1>5, <2>1 DEF Inv, TypeOK, directory, migration, ownership, settings
<1>7. BlockedUntilMigrated'
  <2> SUFFICES ASSUME NEW p \in Registered
               PROVE  p \in toMigrate' <=> adminSince'[p] < tenure
    BY <1>1, <1>2 DEF BlockedUntilMigrated, ownership
  <2>1. p \in DOMAIN adminSince
    BY <1>3 DEF Inv, TypeOK
  <2>3. p \in toMigrate <=> adminSince[p] < tenure
    BY <1>1 DEF Inv, BlockedUntilMigrated
  <2>4. CASE p \in toMigrate \cap migrated
    <3>1. p \notin toMigrate' /\ adminSince'[p] = tenure
      BY <1>1, <2>1, <2>4
    <3> QED BY <3>1 DEF Inv, TypeOK
  <2>5. CASE p \notin toMigrate \cap migrated
    <3>1. adminSince'[p] = adminSince[p] /\ (p \in toMigrate' <=> p \in toMigrate)
      BY <1>1, <2>1, <2>5
    <3> QED BY <2>3, <3>1
  <2> QED BY <2>4, <2>5
<1>8. ProposalOfThisOwner'
  BY <1>1, SameProposal
<1> QED
  BY <1>2, <1>6, <1>7, <1>8 DEF Inv

LEMMA ClaimOwnershipInv ==
  ASSUME Inv, NEW u \in Users, ClaimOwnership(u)
  PROVE  Inv'
<1>1. /\ proposal # NONE /\ proposal \in [owner : Users, ttl : Nat]
      /\ toMigrate' = Registered
      /\ listSaved' = TRUE
      /\ owner' = proposal.owner /\ proposal' = NONE
      /\ tenure' = tenure + 1
      /\ UNCHANGED <<now, directory, settings, proposedIn, adminSince>>
  BY DEF Inv, TypeOK, ClaimOwnership, HandOver, PairsToList
<1>2. Registered' = Registered /\ OneKeyForPair' /\ StakingMatchesPairs'
  BY <1>1, SameDirectory
<1>3. /\ proposedIn' \in 0..tenure'
      /\ adminSince' \in Seq(0..tenure')
  BY <1>1 DEF Inv, TypeOK
<1>4. TypeOK'
  BY <1>1, <1>2, <1>3 DEF Inv, TypeOK, directory, migration, settings
<1>5. BlockedUntilMigrated'
  <2> SUFFICES ASSUME NEW p \in Registered
               PROVE  p \in toMigrate' <=> adminSince'[p] < tenure'
    BY <1>2 DEF BlockedUntilMigrated
  <2>2. p \in DOMAIN adminSince
    BY DEF Inv, TypeOK
  <2>3. adminSince[p] \in 0..tenure
    BY <2>2 DEF Inv, TypeOK
  <2>4. adminSince'[p] < tenure'
    BY <1>1, <2>3 DEF Inv, TypeOK
  <2> QED BY <1>1, <2>4
<1>6. ProposalOfThisOwner'
  BY <1>1 DEF ProposalOfThisOwner
<1> QED
  BY <1>2, <1>4, <1>5, <1>6 DEF Inv

LEMMA ProposeNewOwnerInv ==
  ASSUME Inv, NEW u \in Users, NEW new \in Users, NEW expiresIn \in 0..MaxProposalTtl,
         ProposeNewOwner(u, new, expiresIn)
  PROVE  Inv'
<1>1. /\ new # owner
      /\ proposal' = [owner |-> new, ttl |-> now + expiresIn]
      /\ proposedIn' = tenure
      /\ UNCHANGED <<now, directory, settings, owner, tenure, migration, adminSince>>
  BY DEF ProposeNewOwner
<1>2. Registered' = Registered /\ OneKeyForPair' /\ StakingMatchesPairs'
  BY <1>1, SameDirectory
<1>3. proposal' \in [owner : Users, ttl : Nat] /\ proposedIn' \in 0..tenure
  BY <1>1, BoundAssumption DEF Inv, TypeOK
<1>4. TypeOK'
  BY <1>1, <1>2, <1>3 DEF Inv, TypeOK, directory, migration, settings
<1>5. BlockedUntilMigrated'
  BY <1>1, <1>2, SameBlocked
<1>6. ProposalOfThisOwner'
  BY <1>1 DEF ProposalOfThisOwner
<1> QED
  BY <1>2, <1>4, <1>5, <1>6 DEF Inv

LEMMA DropOwnershipProposalInv ==
  ASSUME Inv, NEW u \in Users, DropOwnershipProposal(u)
  PROVE  Inv'
<1>1. /\ proposal' = NONE
      /\ UNCHANGED <<now, directory, settings, owner, tenure, proposedIn, migration, adminSince>>
  BY DEF DropOwnershipProposal
<1>2. Registered' = Registered /\ OneKeyForPair' /\ StakingMatchesPairs'
  BY <1>1, SameDirectory
<1>3. TypeOK'
  BY <1>1, <1>2 DEF Inv, TypeOK, directory, migration, settings
<1>4. BlockedUntilMigrated'
  BY <1>1, <1>2, SameBlocked
<1> QED
  BY <1>1, <1>2, <1>3, <1>4 DEF Inv, ProposalOfThisOwner

(* What a step on the settings or the clock, or none, keeps. *)
LEMMA SettingsInv ==
  ASSUME Inv, UNCHANGED <<directory, ownership, migration, adminSince>>,
         now' \in Nat, onlyOwner' \in BOOLEAN, disabled' \subseteq PairTypes
  PROVE  Inv'
<1>1. Registered' = Registered /\ OneKeyForPair' /\ StakingMatchesPairs'
  BY SameDirectory
<1>2. TypeOK'
  BY <1>1 DEF Inv, TypeOK, directory, migration, ownership
<1>3. BlockedUntilMigrated'
  BY <1>1, SameBlocked DEF ownership
<1>4. ProposalOfThisOwner'
  BY SameProposal
<1> QED
  BY <1>1, <1>2, <1>3, <1>4 DEF Inv

LEMMA NextInv == Inv /\ [Next]_vars => Inv'
<1> SUFFICES ASSUME Inv, [Next]_vars PROVE Inv'
  OBVIOUS
<1>1. CASE Tick
  BY <1>1, SettingsInv DEF Tick, settings, Inv, TypeOK
<1>2. ASSUME NEW u \in Users, NEW value \in BOOLEAN, UpdateConfig(u, value) PROVE Inv'
  BY <1>2, SettingsInv DEF UpdateConfig, Inv, TypeOK
<1>3. ASSUME NEW u \in Users, NEW type \in PairTypes, NEW disable \in BOOLEAN,
             UpdatePairConfig(u, type, disable)
      PROVE  Inv'
  BY <1>3, SettingsInv DEF UpdatePairConfig, Inv, TypeOK
<1>4. CASE UNCHANGED vars
  BY <1>4, SettingsInv DEF vars, settings, Inv, TypeOK
<1> QED
  BY <1>1, <1>2, <1>3, <1>4, CreatePairInv, DeregisterInv, ProposeNewOwnerInv,
     DropOwnershipProposalInv, ClaimOwnershipInv, MarkAsMigratedInv DEF Next

----------------------------------------------------------------------------
(* Every storage item keeps its type, and each registered pair, each route
   and each entry of a list names a contract that exists. *)
THEOREM TypeCorrect == Spec => []TypeOK
<1>1. Inv => TypeOK
  BY DEF Inv
<1> QED
  BY <1>1, InitInv, NextInv, PTL DEF Spec

(* The staking contracts that the gauges may pay are those of the registered
   pairs, whatever the names of the assets. *)
THEOREM StakingIndex == Spec => []StakingMatchesPairs
<1>1. Inv => StakingMatchesPairs
  BY DEF Inv
<1> QED
  BY <1>1, InitInv, NextInv, PTL DEF Spec

(* However often the owner changes and in whatever order pairs are created,
   deregistered and marked, the registered pairs of earlier tenures are the
   blocked ones. *)
THEOREM MigrationBlocks == Spec => []BlockedUntilMigrated
<1>1. Inv => BlockedUntilMigrated
  BY DEF Inv
<1> QED
  BY <1>1, InitInv, NextInv, PTL DEF Spec

(* No proposal outlives the tenure of the owner that made it. *)
THEOREM ProposalHonest == Spec => []ProposalOfThisOwner
<1>1. Inv => ProposalOfThisOwner
  BY DEF Inv
<1> QED
  BY <1>1, InitInv, NextInv, PTL DEF Spec

----------------------------------------------------------------------------
(* The routes *)

(* Sets of assets are told apart by their keys. *)
DistinctKeys == \A A, B \in SUBSET Assets : PairKey(A) = PairKey(B) => A = B

(* A pair is registered under the key of the assets it trades. *)
OwnKeys == \A k \in DOMAIN pairs : k = PairKey(contracts[pairs[k]])

RoutesInv == Inv /\ OwnKeys /\ RoutesMatchPairs

LEMMA CreatePairRoutes ==
  ASSUME RoutesInv, NEW u \in Users, NEW type \in PairTypes, NEW assets \in SUBSET Assets,
         CreatePair(u, type, assets)
  PROVE  OwnKeys' /\ RoutesMatchPairs'
<1> DEFINE p == Len(contracts) + 1
           key == PairKey(assets)
<1>1. contracts' = Append(contracts, assets)
  BY DEF CreatePair
<1>2. /\ p \notin DOMAIN contracts
      /\ contracts'[p] = assets
      /\ \A q \in DOMAIN contracts : contracts'[q] = contracts[q]
      /\ Len(contracts') = p
  BY <1>1 DEF RoutesInv, Inv, TypeOK
<1>3. /\ pairs' = [k \in DOMAIN pairs \cup {key} |-> IF k = key THEN p ELSE pairs[k]]
      /\ key \notin DOMAIN pairs
      /\ routes' = RoutesWith(assets, p)
      /\ staking' = staking \cup {p}
  BY <1>2 DEF CreatePair, Register, NewAddress
<1>4. Registered' = Registered \cup {p} /\ Registered \subseteq DOMAIN contracts
  <2>1. Inv
    BY DEF RoutesInv
  <2> HIDE DEF p, key
  <2> QED BY <1>2, <1>3, <2>1, RegisterInv DEF Inv, TypeOK
<1>5. OwnKeys'
  <2> SUFFICES ASSUME NEW k \in DOMAIN pairs' PROVE k = PairKey(contracts'[pairs'[k]])
    BY DEF OwnKeys
  <2>1. CASE k = key
    BY <1>2, <1>3, <2>1
  <2>2. CASE k # key
    <3>1. k \in DOMAIN pairs /\ pairs'[k] = pairs[k] /\ pairs[k] \in Registered
      BY <1>3, <2>2 DEF Registered, Range
    <3>2. contracts'[pairs'[k]] = contracts[pairs[k]]
      BY <1>2, <1>4, <3>1
    <3> QED BY <3>1, <3>2 DEF RoutesInv, OwnKeys
  <2> QED BY <2>1, <2>2
<1>6. RoutesMatchPairs'
  <2> SUFFICES ASSUME NEW a \in Assets, NEW b \in Assets, a # b
               PROVE  routes'[<<a, b>>] = {q \in Registered' : {a, b} \subseteq contracts'[q]}
    BY DEF RoutesMatchPairs
  <2>1. routes[<<a, b>>] = {q \in Registered : {a, b} \subseteq contracts[q]}
    BY DEF RoutesInv, RoutesMatchPairs
  <2>2. routes'[<<a, b>>] =
          IF {a, b} \subseteq assets THEN routes[<<a, b>>] \cup {p} ELSE routes[<<a, b>>]
    BY <1>3 DEF RoutesInv, Inv, TypeOK, RoutesWith, AllPairsOf
  <2>3. {q \in Registered' : {a, b} \subseteq contracts'[q]} =
          IF {a, b} \subseteq assets THEN routes[<<a, b>>] \cup {p} ELSE routes[<<a, b>>]
    <3> HIDE DEF p
    <3> QED BY <1>2, <1>4, <2>1
  <2> QED BY <2>2, <2>3
<1> QED
  BY <1>5, <1>6

LEMMA DeregisterRoutes ==
  ASSUME DistinctKeys, RoutesInv, NEW u \in Users, NEW assets \in (SUBSET Assets) \ {{}},
         Deregister(u, assets)
  PROVE  OwnKeys' /\ RoutesMatchPairs'
<1> DEFINE key == PairKey(assets)
           p == pairs[key]
<1>1. /\ key \in DOMAIN pairs
      /\ pairs' = [k \in DOMAIN pairs \ {key} |-> pairs[k]]
      /\ routes' = RoutesWithout(assets, p)
      /\ staking' = staking \ {p}
      /\ contracts' = contracts
  BY DEF Deregister, Unregister
<1>2. Registered' = Registered \ {p}
  <2>1. Inv
    BY DEF RoutesInv
  <2> HIDE DEF key
  <2> QED BY <1>1, <2>1, UnregisterInv
<1>3. contracts[p] = assets
  <2>1. p \in DOMAIN contracts
    BY <1>1 DEF RoutesInv, Inv, TypeOK, Registered, Range
  <2>2. contracts[p] \in SUBSET Assets
    BY <2>1 DEF RoutesInv, Inv, TypeOK
  <2>3. PairKey(contracts[p]) = key
    BY <1>1 DEF RoutesInv, OwnKeys
  <2> QED BY <2>2, <2>3 DEF DistinctKeys
<1>4. OwnKeys'
  BY <1>1 DEF RoutesInv, OwnKeys
<1>5. RoutesMatchPairs'
  <2> SUFFICES ASSUME NEW a \in Assets, NEW b \in Assets, a # b
               PROVE  routes'[<<a, b>>] = {q \in Registered' : {a, b} \subseteq contracts'[q]}
    BY DEF RoutesMatchPairs
  <2>1. routes[<<a, b>>] = {q \in Registered : {a, b} \subseteq contracts[q]}
    BY DEF RoutesInv, RoutesMatchPairs
  <2>2. routes'[<<a, b>>] =
          IF {a, b} \subseteq assets THEN routes[<<a, b>>] \ {p} ELSE routes[<<a, b>>]
    BY <1>1 DEF RoutesInv, Inv, TypeOK, RoutesWithout, AllPairsOf
  <2> QED
    <3>1. contracts' = contracts
      BY <1>1
    <3> HIDE DEF p, key
    <3> QED BY <1>2, <1>3, <2>1, <2>2, <3>1
<1> QED
  BY <1>4, <1>5

LEMMA SameRoutes ==
  ASSUME RoutesInv, UNCHANGED directory
  PROVE  OwnKeys' /\ RoutesMatchPairs'
  BY DEF RoutesInv, OwnKeys, RoutesMatchPairs, directory, Registered, Range

LEMMA NextRoutes == DistinctKeys /\ RoutesInv /\ [Next]_vars => RoutesInv'
<1> SUFFICES ASSUME DistinctKeys, RoutesInv, [Next]_vars PROVE RoutesInv'
  OBVIOUS
<1>1. Inv'
  BY NextInv DEF RoutesInv
<1>2. \/ UNCHANGED directory
      \/ \E u \in Users, type \in PairTypes, assets \in SUBSET Assets : CreatePair(u, type, assets)
      \/ \E u \in Users, assets \in (SUBSET Assets) \ {{}} : Deregister(u, assets)
  BY DEF Next, vars, Tick, UpdateConfig, UpdatePairConfig, ProposeNewOwner,
     DropOwnershipProposal, ClaimOwnership, MarkAsMigrated
<1> QED
  BY <1>1, <1>2, SameRoutes, CreatePairRoutes, DeregisterRoutes DEF RoutesInv

LEMMA InitRoutes == Init => RoutesInv
<1> SUFFICES ASSUME Init PROVE RoutesInv
  OBVIOUS
<1>1. DOMAIN pairs = {} /\ Registered = {}
  BY DEF Init, Registered, Range
<1>2. RoutesMatchPairs
  BY <1>1 DEF Init, RoutesMatchPairs, AllPairsOf
<1> QED
  BY <1>1, <1>2, InitInv DEF RoutesInv, OwnKeys

(* With distinct keys the routes that the nominated trader reads are the
   registered pairs of their assets. *)
THEOREM RoutesExact ==
  ASSUME DistinctKeys
  PROVE  Spec => []RoutesMatchPairs
<1>1. RoutesInv => RoutesMatchPairs
  BY DEF RoutesInv
<1>2. RoutesInv /\ [Next]_vars => RoutesInv'
  BY NextRoutes
<1> QED
  BY <1>1, <1>2, InitRoutes, PTL DEF Spec
============================================================================
