--------------------------- MODULE MCStakeTranches ---------------------------
(* A tranched insurance pool with every way of moving its tokens: flushes    *)
(* settled by the admin's own tokens, by recovery from the wrapper, by the   *)
(* last junior's exit, or not at all because the market consumed the fund;   *)
(* fee pushes and both resolutions.                                          *)
EXTENDS StakeRefinement, TLC

CONSTANTS u1, u2

MCUsers == {u1, u2}

UserSymmetry == Permutations(MCUsers)

MCArgs == [n \in ArgNames |->
    CASE n = "deposit" -> {3}
      [] n = "deposit_junior" -> {2}
      [] n = "withdraw" -> {2, 3}
      [] n = "flush" -> {2}
      [] n = "return" -> {2}
      [] n = "recover" -> {1, 2}
      [] n = "consume" -> {2}
      [] n = "tranche" -> {20000}
      [] n = "fees" -> {2}
      [] OTHER -> {}]
=============================================================================
