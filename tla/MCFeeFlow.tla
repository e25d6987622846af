----------------------------- MODULE MCFeeFlow -----------------------------
(* Fees in two assets that can be chained or swapped directly, and a split  *)
(* of three to one                                                          *)
EXTENDS FeeFlow, TLC

CONSTANTS A, B, C, denom, first, second

(* C reaches PALOMA along A and B only; or A and B have pools of their own *)
SomeMarkets == {{{C, A}, {A, B}, {B, Paloma}},
                {{C, A}, {A, B}, {A, Paloma}, {B, Paloma}}}

SomeRequests == {<<[info |-> a, limit |-> 0]>> : a \in Assets}
                \cup {<<[info |-> C, limit |-> 0], [info |-> A, limit |-> 1]>>,
                      <<[info |-> B, limit |-> 0], [info |-> B, limit |-> 0]>>,
                      <<[info |-> A, limit |-> 1], [info |-> Paloma, limit |-> 0], [info |-> B, limit |-> 0]>>}

ThreeToOne == (first :> 3) @@ (second :> 1)

SmallAmounts == (Paloma :> 4) @@ (denom :> 2)
============================================================================
