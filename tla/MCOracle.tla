------------------------------ MODULE MCOracle ------------------------------
(* Oracle with half-second "nanoseconds", so blocks fall between seconds,   *)
(* periods of one, two and three seconds and a buffer of three checkpoints    *)
EXTENDS Oracle
============================================================================
