-------------------------- MODULE MCStakeAuthority --------------------------
(* Three wallets that pass the pool's admin and the market's roles around.   *)
EXTENDS StakeAuthority, TLC

CONSTANTS w1, w2, w3

MCWallets == {w1, w2, w3}

WalletSymmetry == Permutations(MCWallets)
=============================================================================
