----------------------------- MODULE MCStakeHwm -----------------------------
(* The high-water-mark floor of an untranched insurance pool over three      *)
(* epochs, with fees, flushes and returns moving the value under it, and the *)
(* admin switching the floor off and on.                                     *)
EXTENDS StakeHistory

MCArgs == [n \in ArgNames |->
    CASE n = "deposit" -> {5}
      [] n = "withdraw" -> {2}
      [] n = "flush" -> {1}
      [] n = "return" -> {1}
      [] n = "hwm" -> {6000}
      [] n = "fees" -> {2}
      [] OTHER -> {}]
=============================================================================
