---------------------------- MODULE StakeEscrow ----------------------------
(***************************************************************************)
(* What the staking contract promises about LP tokens, without periods,    *)
(* locks, powers and totals: tokens are in a wallet, bonded or leaving,    *)
(* always for one account, and leave the vault only for that account.      *)
(* Tokens bonded for nobody are stranded: the remainder of a mass          *)
(* delegation stays in the vault and no message takes it out.              *)
(***************************************************************************)
EXTENDS Naturals, FiniteSets, TokenUnits

CONSTANTS Account, Holdings

VARIABLES wallet, vault, bonded, leaving, converted, stranded

escrowVars == <<wallet, vault, bonded, leaving, converted, stranded>>

Nothing == [a \in Account |-> 0]

Init ==
  /\ wallet = Holdings
  /\ vault = 0
  /\ bonded = Nothing /\ leaving = Nothing /\ converted = Nothing
  /\ stranded = 0

Bond(s, sent, shares) ==
  /\ sent <= wallet[s]
  /\ Total(shares, Account) <= sent
  /\ wallet' = [wallet EXCEPT ![s] = @ - sent]
  /\ vault' = vault + sent
  /\ bonded' = [a \in Account |-> bonded[a] + shares[a]]
  /\ stranded' = stranded + (sent - Total(shares, Account))
  /\ UNCHANGED <<leaving, converted>>

StartLeaving(a, n) ==
  /\ n <= bonded[a]
  /\ bonded' = [bonded EXCEPT ![a] = @ - n]
  /\ leaving' = [leaving EXCEPT ![a] = @ + n]
  /\ UNCHANGED <<wallet, vault, converted, stranded>>

(* b bonded tokens and l leaving ones return to the wallet *)
Return(a, b, l) ==
  /\ b <= bonded[a] /\ l <= leaving[a]
  /\ bonded' = [bonded EXCEPT ![a] = @ - b]
  /\ leaving' = [leaving EXCEPT ![a] = @ - l]
  /\ wallet' = [wallet EXCEPT ![a] = @ + b + l]
  /\ vault' = vault - (b + l)
  /\ UNCHANGED <<converted, stranded>>

(* all the tokens of the accounts A return to their wallets *)
Evict(A) ==
  LET all == [a \in Account |-> bonded[a] + leaving[a]] IN
  /\ bonded' = [a \in Account |-> IF a \in A THEN 0 ELSE bonded[a]]
  /\ leaving' = [a \in Account |-> IF a \in A THEN 0 ELSE leaving[a]]
  /\ wallet' = [a \in Account |-> IF a \in A THEN wallet[a] + all[a] ELSE wallet[a]]
  /\ vault' = vault - Total(all, A)
  /\ UNCHANGED <<converted, stranded>>

Convert(a, n) ==
  /\ n <= bonded[a]
  /\ bonded' = [bonded EXCEPT ![a] = @ - n]
  /\ converted' = [converted EXCEPT ![a] = @ + n]
  /\ vault' = vault - n
  /\ UNCHANGED <<wallet, leaving, stranded>>

Next ==
  \/ \E s \in Account : \E sent \in 1..wallet[s] :
       \E shares \in [Account -> 0..sent] : Bond(s, sent, shares)
  \/ \E a \in Account :
       \/ \E n \in 1..bonded[a] : StartLeaving(a, n) \/ Return(a, n, 0) \/ Convert(a, n)
       \/ \E n \in 1..leaving[a] : Return(a, 0, n)
  \/ \E A \in SUBSET Account : Evict(A)

Spec == Init /\ [][Next]_escrowVars
============================================================================
