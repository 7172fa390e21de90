---------------------------- MODULE MCStakeClaims ----------------------------
(* A tranched insurance pool whose losses are settled every way the code     *)
(* allows, for the claims of StakeClaims.                                    *)
EXTENDS StakeClaims, TLC

CONSTANTS u1, u2

MCUsers == {u1, u2}

UserSymmetry == Permutations(MCUsers)

MCArgs == [n \in ArgNames |->
    CASE n = "deposit" -> {3}
      [] n = "deposit_junior" -> {3}
      [] n = "withdraw" -> {2, 3}
      [] n = "flush" -> {2, 5}
      [] n = "return" -> {2}
      [] n = "recover" -> {2}
      [] n = "tranche" -> {20000}
      [] n = "fees" -> {1, 4}
      [] OTHER -> {}]

\* One staker; what is flushed may come back in single tokens, and the market
\* may draw on its fund.
MCConsumedArgs == [n \in ArgNames |->
    CASE n = "deposit" -> {3}
      [] n = "withdraw" -> {2}
      [] n \in {"flush", "recover", "consume"} -> {1}
      [] OTHER -> {}]
=============================================================================
