--------------------------- MODULE StakeProperties ---------------------------
(***************************************************************************)
(* What makes the stake program correct, over the states and steps of      *)
(* StakeProgram.                                                           *)
(***************************************************************************)
EXTENDS StakeProgram, FiniteSets

(* The domain of every variable: the checked u64 counters of StakePool and *)
(* StakeDeposit, the token balances and the wrapper's mode.                *)
TypeOK ==
    /\ pool \in Pool
    /\ deposits \in [Users -> DepositRecord]
    /\ lp_tokens \in [Users -> U64]
    /\ vault \in U64
    /\ insurance \in U64
    /\ market \in {"Live", "Resolved"}
    /\ slot \in U64

(* The vault always holds at least the pool value the handlers price with  *)
(* (total_pool_value), which is never out of range: no sequence of         *)
(* deposits, withdrawals, flushes, returns, recoveries, phantom returns and*)
(* fee accruals leaves claims without tokens, and no withdrawal can fail   *)
(* for want of them.                                                       *)
VaultSolvent ==
    /\ total_pool_value(pool) # None
    /\ vault >= total_pool_value(pool)

(* What the admin put back with ReturnInsurance: total_returned is shared  *)
(* by three writers, and this is the part neither of the others wrote.     *)
admin_returned(p) ==
    p.total_returned - p.total_recovered_from_wrapper - p.realized_junior_loss

(* RecoverFlushedInsurance never takes out of the wrapper more than was    *)
(* flushed into it net of what exited juniors forfeited, and every token   *)
(* it took and every forfeited one is in total_returned exactly once.      *)
RecoveryBounded ==
    /\ pool.total_recovered_from_wrapper + pool.realized_junior_loss <= pool.total_flushed
    /\ admin_returned(pool) >= 0

(* H-1: once either resolution has happened, nothing the pool could still  *)
(* claim is left in the wrapper, whose tag 57 no longer pays: neither a    *)
(* later flush nor a later junior exit reopens a claim.                    *)
NothingStranded ==
    pool.market_resolved \/ market = "Resolved" =>
        pool.total_recovered_from_wrapper + pool.realized_junior_loss >= pool.total_flushed

(* A pool settles its losses either by ReturnInsurance or by recovery from *)
(* the wrapper, never by both.                                             *)
OneReturnPath(p) == p.total_recovered_from_wrapper = 0 \/ admin_returned(p) = 0

(* As long as one path settles the losses, no more is returned than was    *)
(* flushed, and the juniors' loss-adjusted balance is covered by the pool  *)
(* value: senior_balance is defined, so no senior handler reverts on it.   *)
TranchesCovered ==
    OneReturnPath(pool) =>
        /\ pool.total_returned <= pool.total_flushed
        /\ senior_balance(pool) # None

(* M-3: a loss that exited juniors forfeited is never taken for repaid.    *)
(* As long as one path settles the losses, neither can bring that part     *)
(* back, so from the first forfeit on the junior tranche stays shut,       *)
(* whatever is flushed, recovered, returned and forfeited later.  (The     *)
(* comment of #161, written before M-3, has a fully exited tranche always  *)
(* re-open.)                                                               *)
ForfeitShutsJuniors ==
    OneReturnPath(pool) /\ pool.realized_junior_loss > 0 => ~JuniorGateOpen(pool)

(* The shares a ledger of amounts stands for, one element for each: their  *)
(* number is the sum of the amounts.                                       *)
SharesOf(amount) == {s \in Users \X U64 : s[2] < amount[s[1]]}

(* The recorded positions, and those of the juniors.                       *)
lp_position == [u \in Users |-> deposits[u].lp_amount]

junior_position ==
    [u \in Users |-> IF deposits[u].junior THEN deposits[u].lp_amount ELSE 0]

(* The share ledger: total_lp_supply and junior_total_lp are the sums of   *)
(* the recorded positions, and the only shares nobody can burn are the     *)
(* MINIMUM_LIQUIDITY of the genesis deposit, locked exactly once whichever *)
(* tranche opened the pool and however LP tokens move between wallets.     *)
LpLedger ==
    /\ pool.total_lp_supply = Cardinality(SharesOf(lp_position))
    /\ pool.junior_total_lp = Cardinality(SharesOf(junior_position))
    /\ pool.total_lp_supply > 0 =>
          pool.total_lp_supply = Cardinality(SharesOf(lp_tokens)) + MINIMUM_LIQUIDITY
    /\ \A u \in Users : deposits[u].junior => deposits[u].lp_amount > 0

(* #242: a proposed cooldown stays an admissible increase for as long as   *)
(* it waits, whatever UpdateConfig does to the cooldown meanwhile, and was *)
(* never proposed in the future: committing it cannot shorten the cooldown *)
(* nor be refused by the defensive check.                                  *)
PendingRaises ==
    Proposed =>
        /\ validate_cooldown_slots(pool.pending_cooldown_slots)
        /\ pool.pending_cooldown_slots > pool.cooldown_slots
        /\ pool.cooldown_proposed_at_slot <= slot

----------------------------------------------------------------------------
(* What a step may never do.                                               *)

SeniorValue(p) == IF p.tranche_enabled THEN senior_balance(p) ELSE total_pool_value(p)

(* A share is worth (value + 1) / (supply + 1), the ratio the code prices  *)
(* with; the comparison is cross-multiplied.                               *)
PriceKept(value, supply, value_after, supply_after) ==
    supply > 0 /\ supply_after > 0 =>
        (value_after + VIRTUAL_ASSETS) * (supply + VIRTUAL_SHARES)
            >= (value + VIRTUAL_ASSETS) * (supply_after + VIRTUAL_SHARES)

(* The step relation of SharePriceNeverFalls below.                        *)
PriceStep ==
    (pool'.total_flushed = pool.total_flushed /\ OneReturnPath(pool')) =>
        /\ PriceKept(SeniorValue(pool), senior_total_lp(pool),
                     SeniorValue(pool'), senior_total_lp(pool'))
        /\ PriceKept(effective_junior_balance(pool), pool.junior_total_lp,
                     effective_junior_balance(pool'), pool'.junior_total_lp)

(* Only a flush lowers what a share redeems for, as long as one of the two *)
(* return paths settles the losses (a pool that has used both may have     *)
(* booked one loss as returned twice).  No deposit, withdrawal, junior     *)
(* exit, fee accrual, return or configuration change of anybody takes      *)
(* value out of a senior or a junior share: rounding and the split of the  *)
(* fees always favour the shares that stay.                                *)
SharePriceNeverFalls == [][PriceStep]_vars

(* The step relation of NoFeeCapture below.                                *)
CaptureStep ==
    LET settled == Accrued(pool, vault)
        settled_after == Accrued(pool', vault')
    IN  pool'.total_lp_supply # pool.total_lp_supply =>
           /\ PriceKept(SeniorValue(settled), senior_total_lp(pool),
                        SeniorValue(settled_after), senior_total_lp(pool'))
           /\ PriceKept(effective_junior_balance(settled), pool.junior_total_lp,
                        effective_junior_balance(settled_after), pool'.junior_total_lp)

(* #136: whoever mints or burns shares first pays for, or is paid, the     *)
(* fees that wait in the vault: counted with them, no share that stays     *)
(* loses value to a deposit or a withdrawal, however it is timed against   *)
(* the fee pushes and AccrueFees.                                          *)
NoFeeCapture == [][CaptureStep]_vars

(* The pool with its outstanding loss paid back in full.                   *)
Repaid(p) == [p EXCEPT !.total_returned = @ + net_loss(p)]

(* The step relation of RecoveryNotSniped below.                           *)
EntryStep ==
    (/\ pool'.total_deposited > pool.total_deposited
     /\ pool.tranche_enabled
     /\ total_pool_value(Repaid(pool')) # None) =>
       IF pool'.junior_total_lp = pool.junior_total_lp
       THEN senior_balance(Repaid(pool')) = senior_balance(pool')
       ELSE effective_junior_balance(Repaid(pool')) = effective_junior_balance(pool')

(* #150, #159: whoever enters a tranched pool between a loss and its       *)
(* repayment buys at a price the repayment will not change: the recovery   *)
(* goes to the shares that bore the loss, in whichever order flushes,      *)
(* partial and last junior exits, phantom returns and fees came before.    *)
RecoveryNotSniped == [][EntryStep]_vars

(* The step relation of JuniorsLoseFirst below.                            *)
FirstLossStep ==
    (/\ pool'.total_flushed > pool.total_flushed
     /\ pool.tranche_enabled
     /\ OneReturnPath(pool)) =>
       senior_balance(pool') =
           senior_balance(pool)
               - SatSub(pool'.total_flushed - pool.total_flushed,
                        effective_junior_balance(pool))

(* First loss: a flush costs the seniors exactly the part of it the        *)
(* juniors' remaining balance does not cover.                              *)
JuniorsLoseFirst == [][FirstLossStep]_vars

(* The step relation of HwmRateLimit below.                                *)
HwmStep ==
    pool'.total_flushed = pool.total_flushed =>
        /\ pool.hwm_last_epoch = Epoch' =>
              pool'.epoch_high_water_tvl >= pool.epoch_high_water_tvl
        /\ pool.hwm_enabled /\ vault' < vault =>
              /\ pool'.hwm_last_epoch = Epoch
              /\ pool'.epoch_high_water_tvl >= vault
              /\ vault' >= hwm_floor(pool'.epoch_high_water_tvl, pool.hwm_floor_bps)

(* PERC-313: while the floor is on, a payout in an epoch is measured       *)
(* against a mark that is at least what the vault held just before it and  *)
(* that earlier payouts, deposits and accruals of the epoch cannot have    *)
(* lowered, and leaves the floor of that mark in the vault; so the payouts *)
(* of an epoch together never take the vault below the floor of its peak.  *)
HwmRateLimit == [][HwmStep]_vars

(* The slot from which the holder of a record may withdraw.                *)
unlock_slot(d, p) == SatAdd(d.last_deposit_slot, p.cooldown_slots)

(* The step relation of ExitWindow below.                                  *)
ExitStep ==
    /\ \A u \in Users :
          /\ deposits'[u].last_deposit_slot = deposits[u].last_deposit_slot
          /\ unlock_slot(deposits'[u], pool') > unlock_slot(deposits[u], pool)
          => /\ Proposed
             /\ pool'.cooldown_slots = pool.pending_cooldown_slots
             /\ slot - pool.cooldown_proposed_at_slot >= TIMELOCK_SLOTS
             /\ /\ deposits[u].last_deposit_slot <= pool.cooldown_proposed_at_slot
                /\ pool.cooldown_slots <= TIMELOCK_SLOTS
                => slot >= unlock_slot(deposits[u], pool)
    /\ pool'.pending_cooldown_slots \notin {0, pool.pending_cooldown_slots} =>
          pool'.cooldown_proposed_at_slot = slot
    /\ pool'.cooldown_proposed_at_slot \notin {0, pool.cooldown_proposed_at_slot} =>
          pool'.cooldown_proposed_at_slot = slot

(* #242: a position becomes withdrawable later than it was going to only   *)
(* by its holder's own deposit or by a cooldown that has been public, at   *)
(* that very value, for TIMELOCK_SLOTS: the value waiting is replaced only *)
(* with its timer restarted, and the timer is never set back.  Whoever     *)
(* held the position when the value was announced could leave before it    *)
(* applies, if the cooldown is no longer than the lock: for a longer one,  *)
(* or a deposit made during the lock, the window that the comment of       *)
(* ProposeCooldownIncrease promises LP holders may pass while they are     *)
(* locked.                                                                 *)
ExitWindow == [][ExitStep]_vars
=============================================================================
