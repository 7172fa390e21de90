--------------------------- MODULE MCStakeCustody ---------------------------
(* Two wallets that pass the admin and the roles around, with the money of a *)
(* senior and a junior behind them: enough for the junior to leave after a   *)
(* flush and forfeit it.                                                     *)
EXTENDS StakeCustody

MCArgs == [n \in ArgNames |->
    CASE n = "deposit" -> {2}
      [] n \in {"deposit_junior", "withdraw", "flush", "recover", "consume"} -> {1}
      [] n = "tranche" -> {20000}
      [] OTHER -> {}]
=============================================================================
