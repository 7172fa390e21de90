---------------------------- MODULE MCStakeMulDiv ----------------------------
(* Limbs of three bits: operands at every carry of a six-bit word, fees    *)
(* whose product with the junior weight needs more than a word.            *)
EXTENDS StakeMulDiv

MCOperands == {0, 1, 3, 7, 8, 9, 15, 31, 32, 33, 47, 56, 57, 62, 63}
=============================================================================
