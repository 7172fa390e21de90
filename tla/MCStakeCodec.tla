---------------------------- MODULE MCStakeCodec ----------------------------
(* Bytes of three values: a flag has two ways to be set, a u64 carries up  *)
(* to 6560, and only a u128 holds 10000.                                   *)
EXTENDS StakeCodec

Filled(b, c) == [i \in 1 .. 32 |-> IF i = 1 THEN b ELSE c]

MCPool == Filled(1, 0)
MCVaultAuth == Filled(0, 1)
MCKeys == {Filled(2, 1), Filled(1, 2)}
MCNumbers == [u16 |-> {0, 1, 5}, u64 |-> {0, 7, 6560}, u128 |-> {0, 7, 10000}]
=============================================================================
