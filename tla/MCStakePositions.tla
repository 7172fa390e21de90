-------------------------- MODULE MCStakePositions --------------------------
(* Positions, records and LP tokens of a trading pool (mode 1): both         *)
(* tranches, LP tokens changing hands, fees and a cap, while the admin       *)
(* shortens the cooldown, proposes longer ones, commits and cancels.         *)
EXTENDS StakeProperties, TLC

CONSTANTS u1, u2

MCUsers == {u1, u2}

UserSymmetry == Permutations(MCUsers)

MCArgs == [n \in ArgNames |->
    CASE n = "deposit" -> {3}
      [] n = "deposit_junior" -> {2}
      [] n = "withdraw" -> {2, 3}
      [] n = "tranche" -> {20000}
      [] n = "fees" -> {2}
      [] n = "lp_transfer" -> {1}
      [] n = "cap" -> {0}
      [] n = "cooldown" -> {1, 2}
      [] n = "propose" -> {2, 3}
      [] OTHER -> {}]
=============================================================================
