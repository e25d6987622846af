---------------------------- MODULE MCPeriphery ----------------------------
(* The pairs of a coin and of its derivative with one other coin, and the   *)
(* routes along them: chained, not chained, too long, and not of one output *)
EXTENDS Periphery, TLC

CONSTANTS juno, wyjuno, atom, junoLp, wyLp, alice, bob

JunoPair == {juno, atom}
WyPair == {wyjuno, atom}
TwoPairs == {JunoPair, WyPair}
LpTokens == (JunoPair :> junoLp) @@ (WyPair :> wyLp)

Swap(offer, ask) == [offer |-> offer, ask |-> ask]
Through == <<Swap(juno, atom), Swap(atom, wyjuno)>>
SomeRoutes == {<<Swap(atom, juno)>>, Through,
               <<Swap(juno, atom), Swap(atom, juno)>>,
               <<Swap(juno, atom), Swap(wyjuno, atom)>>,
               <<Swap(juno, atom), Swap(wyjuno, juno)>>,
               Through \o <<Swap(wyjuno, atom)>>}
============================================================================
