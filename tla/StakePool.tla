------------------------------ MODULE StakePool ------------------------------
(***************************************************************************)
(* The StakePool account of state.rs: its accounting fields, the accessors *)
(* every handler prices and gates with, and the two helpers that rewrite   *)
(* it on the way (refresh_hwm and accrue_fees_inner).  A pool is a record; *)
(* a handler's step takes a pool to the pool it saves.                     *)
(***************************************************************************)
EXTENDS StakeMath

\* Fields updated with checked_add / checked_sub only.
Counters == {"total_deposited", "total_withdrawn", "total_lp_supply",
             "total_flushed", "total_returned", "total_fees_earned",
             "total_recovered_from_wrapper", "realized_junior_loss",
             "junior_balance", "junior_total_lp"}

\* The accounting part of the account, with the configuration pricing reads.
Pool == [total_deposited : U64, total_withdrawn : U64, total_lp_supply : U64,
         total_flushed : U64, total_returned : U64, total_fees_earned : U64,
         total_recovered_from_wrapper : U64, realized_junior_loss : U64,
         junior_balance : U64, junior_total_lp : U64,
         tranche_enabled : BOOLEAN, junior_fee_mult_bps : Nat,
         market_resolved : BOOLEAN, pool_mode : {0, 1},
         deposit_cap : U64, cooldown_slots : U64,
         hwm_enabled : BOOLEAN, hwm_floor_bps : Nat,
         epoch_high_water_tvl : U64, hwm_last_epoch : Nat,
         pending_cooldown_slots : U64, cooldown_proposed_at_slot : U64]

\* What InitPool (mode 0) and InitTradingPool (mode 1) save.
FreshPool(mode, cooldown, cap) ==
    [total_deposited |-> 0, total_withdrawn |-> 0, total_lp_supply |-> 0,
     total_flushed |-> 0, total_returned |-> 0, total_fees_earned |-> 0,
     total_recovered_from_wrapper |-> 0, realized_junior_loss |-> 0,
     junior_balance |-> 0, junior_total_lp |-> 0,
     tranche_enabled |-> FALSE, junior_fee_mult_bps |-> 0,
     market_resolved |-> FALSE, pool_mode |-> mode,
     deposit_cap |-> cap, cooldown_slots |-> cooldown,
     hwm_enabled |-> FALSE, hwm_floor_bps |-> 0,
     epoch_high_water_tvl |-> 0, hwm_last_epoch |-> 0,
     pending_cooldown_slots |-> 0, cooldown_proposed_at_slot |-> 0]

\* Mutant: plain additions and subtractions.
Unchecked(p) == TRUE

\* A counter that would leave u64 makes checked_add / checked_sub fail, and
\* the runtime reverts the transaction.
Checked(p) == \A c \in Counters : p[c] \in U64

----------------------------------------------------------------------------
(* Derived values.                                                         *)

\* Mutant (#161 omitted): the phantom return of a forfeited loss counts.
value_with_forfeit(p) ==
    p.total_deposited - p.total_withdrawn - p.total_flushed + p.total_returned
        + p.total_fees_earned

\* The signed sum total_pool_value narrows.
signed_value(p) ==
    p.total_deposited - p.total_withdrawn - p.total_flushed + p.total_returned
        + p.total_fees_earned - p.realized_junior_loss

total_pool_value(p) ==
    IF signed_value(p) < 0 THEN None ELSE Narrow(signed_value(p))

principal_tvl(p) ==
    LET principal == signed_value(p) - p.total_fees_earned
    IN  IF principal < 0 THEN 0 ELSE Lesser(principal, U64_MAX)

net_loss(p) == SatSub(p.total_flushed, p.total_returned)

\* Mutant (before M-3): a phantom return counts as the loss repaid.
settled_net_loss(p) == SatSub(p.total_flushed, p.total_returned)

\* M-3: the loss still outstanding when phantom returns are not counted.
physical_net_loss(p) ==
    SatSub(p.total_flushed, SatSub(p.total_returned, p.realized_junior_loss))

senior_total_lp(p) == SatSub(p.total_lp_supply, p.junior_total_lp)

\* Mutant (BUG-6): the loss is spread over balances already net of it.
effective_junior_balance_net(p) ==
    LET gross_senior == SatSub(SatSub(total_pool_value(p), p.junior_balance), net_loss(p))
        total == p.junior_balance + gross_senior
    IN  SatSub(p.junior_balance, (net_loss(p) * p.junior_balance) \div (IF total = 0 THEN 1 ELSE total))

effective_junior_balance(p) ==
    LET gross_pool == SatSub(p.total_deposited, p.total_withdrawn)
        gross_senior == SatSub(gross_pool, p.junior_balance)
    IN  SatSub(p.junior_balance,
               distribute_loss(p.junior_balance, gross_senior, net_loss(p)).junior)

senior_balance(p) ==
    LET value == total_pool_value(p)
        junior == effective_junior_balance(p)
    IN  IF value = None \/ value < junior THEN None ELSE value - junior

\* Mutant: the forfeited loss is recovered too.
recoverable_gross(p) == SatSub(p.total_flushed, p.total_recovered_from_wrapper)

\* Mutant (#262): the forfeited loss is added back to the cap.
recoverable_with_forfeit(p) ==
    SatSub(p.total_flushed, p.total_returned) + p.realized_junior_loss

wrapper_recoverable(p) ==
    SatSub(SatSub(p.total_flushed, p.realized_junior_loss),
           p.total_recovered_from_wrapper)

\* Mutant (H-1): the resolve gate asks for total_returned only.
returned_in_full(p) == net_loss(p) = 0

wrapper_fully_recovered(p) == wrapper_recoverable(p) = 0

----------------------------------------------------------------------------
(* Rewrites.                                                               *)

\* Mutant: the mark follows the value down within an epoch.
refresh_hwm_following(p, epoch, tvl) ==
    [p EXCEPT !.epoch_high_water_tvl = tvl, !.hwm_last_epoch = epoch]

refresh_hwm(p, epoch, tvl) ==
    IF epoch # p.hwm_last_epoch
    THEN [p EXCEPT !.epoch_high_water_tvl = tvl, !.hwm_last_epoch = epoch]
    ELSE IF tvl > p.epoch_high_water_tvl
         THEN [p EXCEPT !.epoch_high_water_tvl = tvl]
         ELSE p

\* There is a surplus in the vault and somebody to credit it to.
HasSurplus(p, balance) == balance > total_pool_value(p) /\ p.total_lp_supply > 0

FeesToJunior(p) == p.tranche_enabled /\ p.junior_total_lp > 0

\* The junior part of a fee, from the tranche balances before the fee.
JuniorFee(p, fee) ==
    IF FeesToJunior(p)
    THEN distribute_fees(p.junior_balance, senior_balance(p),
                         p.junior_fee_mult_bps, fee).junior
    ELSE 0

\* The pool once the surplus of the vault balance is booked as fees.
Accrued(p, balance) ==
    IF HasSurplus(p, balance)
    THEN LET fee == balance - total_pool_value(p)
         IN  [p EXCEPT !.total_fees_earned = @ + fee,
                       !.junior_balance = @ + JuniorFee(p, fee)]
    ELSE p

\* accrue_fees_inner succeeds: no value is out of range, and (M-2) the
\* junior balance it leaves is within the pool value.
AccrueOk(p, balance) ==
    /\ total_pool_value(p) # None
    /\ HasSurplus(p, balance) =>
          /\ FeesToJunior(p) => senior_balance(p) # None
          /\ Checked(Accrued(p, balance))
          /\ FeesToJunior(p) =>
                LET q == Accrued(p, balance)
                IN  total_pool_value(q) # None /\ q.junior_balance <= total_pool_value(q)
=============================================================================
