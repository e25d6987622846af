----------------------------- MODULE MCPairLsd -----------------------------
(* PairLsd with ten base units to a token and decimals in hundredths *)
EXTENDS PairLsd

CONSTANTS alice, dao

NoFees == {[total |-> 0, protocol |-> 0]}
SomeFees == {[total |-> 0, protocol |-> 0], [total |-> 50, protocol |-> 50]}

OneDeposit == {<<90, 100>>}
SomeDeposits == {<<90, 100>>, <<0, 33>>}
OneWithdrawal == {<<31, 10>>}
SomeWithdrawals == {<<10, 25>>, <<31, 10>>}
============================================================================
