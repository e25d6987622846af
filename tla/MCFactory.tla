----------------------------- MODULE MCFactory -----------------------------
(* Factory with three assets whose names make distinct keys *)
EXTENDS Factory

DistinctNames == {<<1>>, <<2>>, <<3>>}
============================================================================
