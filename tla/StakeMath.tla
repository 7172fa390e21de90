------------------------------ MODULE StakeMath ------------------------------
(***************************************************************************)
(* The pure share-price, tranche and floor arithmetic of math.rs over      *)
(* unsigned integers of the width U64_MAX gives.  An Option<u64> result is *)
(* a natural number or None; results are never negative, so -1 is free.    *)
(* Products are taken in unbounded integers, as the code takes them in     *)
(* u128 where no operand of its callers can overflow.                      *)
(***************************************************************************)
EXTENDS Integers

CONSTANT U64_MAX      \* the largest value of the code's u64

ASSUME U64Assumption == U64_MAX \in Nat \ {0}

U64 == 0 .. U64_MAX

None == -1

\* Option<u64>: the narrowing at the end of every computation in a wider type.
Narrow(n) == IF n > U64_MAX THEN None ELSE n

SatSub(a, b) == IF a >= b THEN a - b ELSE 0

SatAdd(a, b) == IF a + b > U64_MAX THEN U64_MAX ELSE a + b

Lesser(a, b) == IF a <= b THEN a ELSE b

VIRTUAL_SHARES == 1
VIRTUAL_ASSETS == 1

BPS_DENOMINATOR == 10000

----------------------------------------------------------------------------
(* Share price.                                                            *)

\* Shares minted for amount; None for orphaned (supply 0, value > 0) and
\* valueless (supply > 0, value 0) pools.
calc_lp_for_deposit(supply, value, amount) ==
    IF supply = 0 THEN IF value = 0 THEN amount ELSE None
    ELSE IF value = 0 THEN None
    ELSE Narrow((amount * (supply + VIRTUAL_SHARES)) \div (value + VIRTUAL_ASSETS))

\* Mutant: the withdrawal rounds in the leaver's favour.
collateral_rounded_up(supply, value, lp) ==
    IF supply = 0 THEN None
    ELSE Narrow((lp * (value + VIRTUAL_ASSETS) + supply) \div (supply + VIRTUAL_SHARES))

\* Collateral paid for burning lp shares; None for an empty pool.
calc_collateral_for_withdraw(supply, value, lp) ==
    IF supply = 0 THEN None
    ELSE Narrow((lp * (value + VIRTUAL_ASSETS)) \div (supply + VIRTUAL_SHARES))

----------------------------------------------------------------------------
(* Tranches.                                                               *)

\* Loss waterfall: what of a loss the junior tranche absorbs, and the rest.
distribute_loss(junior, senior, loss) ==
    LET capped == Lesser(loss, SatAdd(junior, senior))
        absorbed == Lesser(capped, junior)
    IN  [junior |-> absorbed, senior |-> capped - absorbed]

\* Fee split by balance, the junior weight scaled by mult_bps / 10000.
distribute_fees(junior, senior, mult_bps, fee) ==
    IF fee = 0 \/ junior + senior = 0 \/ junior * mult_bps + senior * BPS_DENOMINATOR = 0
    THEN [junior |-> 0, senior |-> 0]
    ELSE LET junior_weight == junior * mult_bps
             j == Lesser(fee, (fee * junior_weight) \div (junior_weight + senior * BPS_DENOMINATOR))
         IN  [junior |-> j, senior |-> fee - j]

----------------------------------------------------------------------------
(* High-water-mark floor.                                                  *)

hwm_floor(tvl, floor_bps) == Narrow((tvl * floor_bps) \div BPS_DENOMINATOR)

hwm_withdrawal_allowed(post_tvl, tvl, floor_bps) ==
    LET floor == hwm_floor(tvl, floor_bps) IN floor # None /\ post_tvl >= floor
=============================================================================
