--------------------------- MODULE MCStakeAccounts ---------------------------
(* One market and two wallets, with records pre-funded with less than, as    *)
(* much as and more than rent asks for.                                      *)
EXTENDS StakeAccounts

MCMinimumBalance == [s \in {STAKE_POOL_SIZE, STAKE_DEPOSIT_SIZE} |->
                        IF s = STAKE_POOL_SIZE THEN 3 ELSE 2]
=============================================================================
