------------------------------- MODULE MCPair -------------------------------
(* Pair with decimals in quarters, coarser than the pools, so every rounding *)
(* is met: a commission of a half, all of it the protocol's, and none        *)
EXTENDS Pair

SomeFees == {[total |-> 0, protocol |-> 0], [total |-> 2, protocol |-> 4]}
============================================================================
