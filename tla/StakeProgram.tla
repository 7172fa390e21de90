---------------------------- MODULE StakeProgram ----------------------------
(***************************************************************************)
(* The stake program's money handlers (processor.rs) over one pool, its    *)
(* token accounts and the wrapper market it insures.  A handler is one     *)
(* transaction of the Solana runtime: it either does all of its step or    *)
(* reverts, so each is one action whose guard is the conjunction of the    *)
(* handler's checks and of the token program's.                            *)
(*                                                                         *)
(* Init is the pool as InitPool / InitTradingPool save it, with the wrapper*)
(* roles bound to the pool's PDAs.  Who may sign (the admin of the gated   *)
(* handlers, the owner of an account) and the account-identity checks are  *)
(* left out: every signer is the right one.  last_fee_accrual_slot and     *)
(* last_vault_snapshot, which no handler reads, are left out too.          *)
(***************************************************************************)
EXTENDS StakePool

CONSTANTS
    Users,              \* wallets that stake
    MINIMUM_LIQUIDITY,  \* genesis shares booked but never minted
    MAX_COOLDOWN_SLOTS,
    TIMELOCK_SLOTS,     \* slots between announcing a longer cooldown and applying it
    MAX_HWM_FLOOR_BPS,
    SLOTS_PER_EPOCH,
    MAX_SLOT,           \* bound: the last slot of a behaviour
    MAY_RESOLVE,        \* bound: whether the admin ever resolves the market
    PoolModes,          \* pool modes to start from
    InitCooldowns,      \* InitPool arguments
    InitCaps,
    Args                \* the instruction arguments the environment submits

ArgNames == {"deposit", "deposit_junior", "withdraw", "flush", "return", "recover",
             "tranche", "hwm", "cap", "cooldown", "propose",
             "fees", "lp_transfer", "consume"}

ASSUME ProgramAssumption ==
    /\ MINIMUM_LIQUIDITY \in Nat
    /\ MAX_COOLDOWN_SLOTS \in 1 .. U64_MAX
    /\ TIMELOCK_SLOTS \in Nat
    /\ MAX_HWM_FLOOR_BPS \in Nat /\ MAX_HWM_FLOOR_BPS < BPS_DENOMINATOR
    /\ SLOTS_PER_EPOCH \in Nat \ {0}
    /\ MAX_SLOT \in U64 \ {0}
    /\ MAY_RESOLVE \in BOOLEAN
    /\ PoolModes \subseteq {0, 1}
    /\ InitCooldowns \subseteq Nat
    /\ InitCaps \subseteq U64
    /\ Args \in [ArgNames -> SUBSET Nat]

VARIABLES
    pool,        \* the StakePool account
    deposits,    \* the StakeDeposit record of each user
    lp_tokens,   \* SPL balance of the LP mint of each user
    vault,       \* SPL balance of pool.vault
    insurance,   \* wrapper insurance fund available to the pool's operator
    market,      \* mode of the wrapper market
    slot         \* Clock sysvar

vars == <<pool, deposits, lp_tokens, vault, insurance, market, slot>>

Epoch == slot \div SLOTS_PER_EPOCH

NoDeposit == [is_initialized |-> FALSE, junior |-> FALSE,
              last_deposit_slot |-> 0, lp_amount |-> 0]

DepositRecord == [is_initialized : BOOLEAN, junior : BOOLEAN,
                  last_deposit_slot : U64, lp_amount : U64]

validate_cooldown_slots(c) == c \in 1 .. MAX_COOLDOWN_SLOTS

validate_hwm_floor_bps(bps) == bps \in 1 .. MAX_HWM_FLOOR_BPS

Init ==
    /\ \E mode \in PoolModes, cooldown \in InitCooldowns, cap \in InitCaps :
          /\ validate_cooldown_slots(cooldown)
          /\ pool = FreshPool(mode, cooldown, cap)
    /\ deposits = [u \in Users |-> NoDeposit]
    /\ lp_tokens = [u \in Users |-> 0]
    /\ vault = 0
    /\ insurance = 0
    /\ market = "Live"
    /\ slot = 1        \* slot 0 is the genesis block: no program runs in it

----------------------------------------------------------------------------
(* Deposit and DepositJunior.                                              *)

\* What both deposit handlers ask for whatever the price is; the sums are the
\* token program's and a checked_add.
DepositOpen(amount) ==
    /\ amount > 0
    /\ ~pool.market_resolved
    /\ pool.deposit_cap > 0 => principal_tvl(pool) + amount <= pool.deposit_cap
    /\ pool.total_deposited + amount \in U64
    /\ vault + amount \in U64
    /\ AccrueOk(pool, vault)

\* Mutant: the #136 pre-accrual is left out of the pricing.
pre_accrue_skipped(p, balance) == p

\* Every pricing path books the pending fee surplus first.
pre_accrue_fee_modes(p, balance) == Accrued(p, balance)

\* Shares for a deposit into the senior tranche, or into the whole pool when
\* there are no tranches.
SeniorShares(p, amount) ==
    IF ~p.tranche_enabled
    THEN calc_lp_for_deposit(p.total_lp_supply, total_pool_value(p), amount)
    ELSE IF senior_balance(p) = None THEN None
    ELSE calc_lp_for_deposit(senior_total_lp(p), senior_balance(p), amount)

JuniorShares(p, amount) ==
    calc_lp_for_deposit(p.junior_total_lp, effective_junior_balance(p), amount)

\* Shares minted to the depositor out of lp: the genesis deposit leaves
\* MINIMUM_LIQUIDITY unminted, and must leave something to mint.
apply_minimum_liquidity_lock(supply_before, lp) ==
    IF supply_before = 0 THEN lp - MINIMUM_LIQUIDITY ELSE lp

\* The mark follows the value a deposit leaves, when the floor is on.
MarkDeposit(p) ==
    IF p.hwm_enabled THEN refresh_hwm(p, Epoch, total_pool_value(p)) ELSE p

\* The end of both handlers: tokens in, shares out, pool and record saved.
BookDeposit(u, amount, lp, before, after, junior) ==
    LET minted == apply_minimum_liquidity_lock(before.total_lp_supply, lp)
    IN  /\ lp > 0
        /\ minted > 0
        /\ lp_tokens[u] + minted \in U64
        /\ Checked(after)
        /\ after.hwm_enabled => total_pool_value(after) # None
        /\ deposits[u].lp_amount + lp \in U64
        /\ pool' = MarkDeposit(after)
        /\ vault' = vault + amount
        /\ lp_tokens' = [lp_tokens EXCEPT ![u] = @ + minted]
        /\ deposits' = [deposits EXCEPT ![u] =
                          [is_initialized |-> TRUE, junior |-> junior,
                           last_deposit_slot |-> slot, lp_amount |-> @.lp_amount + lp]]
        /\ UNCHANGED <<insurance, market, slot>>

\* Mutant (#159 omitted): seniors may enter at the depressed price.
SeniorGateMissing(p) == TRUE

\* #159: no senior deposit while a loss has spilled past the juniors.
SeniorGateOpen(p) == p.tranche_enabled => net_loss(p) <= p.junior_balance

Deposit(u, amount) ==
    LET priced == pre_accrue_fee_modes(pool, vault)
        lp == SeniorShares(priced, amount)
    IN  /\ DepositOpen(amount)
        /\ SeniorGateOpen(priced)
        /\ ~deposits[u].junior
        /\ BookDeposit(u, amount, lp, priced,
                       [priced EXCEPT !.total_deposited = @ + amount,
                                      !.total_lp_supply = @ + lp], FALSE)

\* #150, M-3: no junior deposit while flushed insurance is still out.
JuniorGateOpen(p) == physical_net_loss(p) = 0

DepositJunior(u, amount) ==
    LET priced == pre_accrue_fee_modes(pool, vault)
        lp == JuniorShares(priced, amount)
    IN  /\ pool.tranche_enabled
        /\ DepositOpen(amount)
        /\ JuniorGateOpen(priced)
        /\ deposits[u].is_initialized => deposits[u].junior
        /\ BookDeposit(u, amount, lp, priced,
                       [priced EXCEPT !.total_deposited = @ + amount,
                                      !.total_lp_supply = @ + lp,
                                      !.junior_total_lp = @ + lp,
                                      !.junior_balance = @ + amount], TRUE)

----------------------------------------------------------------------------
(* Withdraw.                                                               *)

\* Collateral for lp shares, from the sub-pool the position belongs to.
Redemption(p, junior, lp) ==
    IF ~p.tranche_enabled
    THEN calc_collateral_for_withdraw(p.total_lp_supply, total_pool_value(p), lp)
    ELSE IF junior
    THEN calc_collateral_for_withdraw(p.junior_total_lp, effective_junior_balance(p), lp)
    ELSE IF senior_balance(p) = None THEN None
    ELSE calc_collateral_for_withdraw(senior_total_lp(p), senior_balance(p), lp)

\* Juniors a loss has wiped out may burn their shares for nothing.
WipedJuniorExit(p, junior, payout) ==
    p.tranche_enabled /\ junior /\ effective_junior_balance(p) = 0 /\ payout = 0

\* The mark a withdrawal is held against, and the check.
MarkWithdraw(p, wiped) ==
    IF p.hwm_enabled /\ ~wiped THEN refresh_hwm(p, Epoch, total_pool_value(p)) ELSE p

AboveFloor(p, wiped, payout) ==
    p.hwm_enabled /\ ~wiped =>
        /\ total_pool_value(p) >= payout
        /\ hwm_withdrawal_allowed(total_pool_value(p) - payout,
               MarkWithdraw(p, wiped).epoch_high_water_tvl, p.hwm_floor_bps)

\* #161: the loss the last junior leaves behind.
Forfeited(p) ==
    Lesser(SatSub(p.junior_balance, effective_junior_balance(p)), net_loss(p))

\* The junior sub-pool after a junior burn (p already net of the payout).
RedeemJunior(p, lp, payout) ==
    IF p.junior_total_lp = lp
    THEN [p EXCEPT !.junior_total_lp = 0,
                   !.junior_balance = 0,
                   !.total_returned = @ + Forfeited(p),
                   !.realized_junior_loss = @ + Forfeited(p)]
    ELSE [p EXCEPT !.junior_total_lp = @ - lp,
                   !.junior_balance = @ - payout]

Redeemed(p, junior, lp, payout) ==
    LET paid == [p EXCEPT !.total_withdrawn = @ + payout, !.total_lp_supply = @ - lp]
    IN  IF p.tranche_enabled /\ junior THEN RedeemJunior(paid, lp, payout) ELSE paid

\* Mutant: the tranche flag outlives the position (before #155).
RecordKeepingFlag(d, lp) == [d EXCEPT !.lp_amount = @ - lp, !.is_initialized = (d.lp_amount # lp)]

\* #155: a record whose position is gone can serve either tranche again.
RecordAfterBurn(d, lp) ==
    IF d.lp_amount = lp
    THEN [d EXCEPT !.lp_amount = 0, !.is_initialized = FALSE, !.junior = FALSE]
    ELSE [d EXCEPT !.lp_amount = @ - lp]

\* What Withdraw asks for whatever the payout is, the balance its burn needs
\* included.
WithdrawOpen(u, lp) ==
    /\ lp > 0
    /\ deposits[u].is_initialized
    /\ slot >= SatAdd(deposits[u].last_deposit_slot, pool.cooldown_slots)
    /\ lp <= deposits[u].lp_amount
    /\ lp <= lp_tokens[u]
    /\ AccrueOk(pool, vault)

Withdraw(u, lp) ==
    LET priced == pre_accrue_fee_modes(pool, vault)
        junior == deposits[u].junior
        payout == Redemption(priced, junior, lp)
        wiped == WipedJuniorExit(priced, junior, payout)
        after == Redeemed(MarkWithdraw(priced, wiped), junior, lp, payout)
    IN  /\ WithdrawOpen(u, lp)
        /\ payout # None
        /\ payout > 0 \/ wiped
        /\ AboveFloor(priced, wiped, payout)
        /\ payout <= vault
        /\ Checked(after)
        /\ pool' = after
        /\ vault' = vault - payout
        /\ lp_tokens' = [lp_tokens EXCEPT ![u] = @ - lp]
        /\ deposits' = [deposits EXCEPT ![u] = RecordAfterBurn(@, lp)]
        /\ UNCHANGED <<insurance, market, slot>>

----------------------------------------------------------------------------
(* Fees.                                                                   *)

\* The permissionless AccrueFees.
AccrueFees ==
    /\ AccrueOk(pool, vault)
    /\ pool' = Accrued(pool, vault)
    /\ UNCHANGED <<deposits, lp_tokens, vault, insurance, market, slot>>

\* External: the wrapper pushes the insurance leg of the trading fees into
\* pool.vault (its tag 87), or anybody sends tokens there.
PushFees(amount) ==
    /\ amount > 0
    /\ vault + amount \in U64
    /\ vault' = vault + amount
    /\ UNCHANGED <<pool, deposits, lp_tokens, insurance, market, slot>>

----------------------------------------------------------------------------
(* Insurance.                                                              *)

\* Admin; the wrapper's TopUpInsurance (tag 9) takes it in Live mode only.
FlushToInsurance(amount) ==
    LET after == [pool EXCEPT !.total_flushed = @ + amount,
                              !.epoch_high_water_tvl = SatSub(@, amount)]
    IN  /\ amount > 0
        /\ pool.pool_mode = 0
        /\ ~pool.market_resolved
        /\ total_pool_value(pool) # None
        /\ amount <= total_pool_value(pool)
        /\ market = "Live"
        /\ amount <= vault
        /\ insurance + amount \in U64
        /\ Checked(after)
        /\ pool' = after
        /\ vault' = vault - amount
        /\ insurance' = insurance + amount
        /\ UNCHANGED <<deposits, lp_tokens, market, slot>>

\* Admin: tokens of the admin's own wallet, against the unsettled shortfall.
ReturnInsurance(amount) ==
    LET after == [pool EXCEPT !.total_returned = @ + amount]
    IN  /\ amount > 0
        /\ amount <= net_loss(pool)
        /\ vault + amount \in U64
        /\ Checked(after)
        /\ pool' = after
        /\ vault' = vault + amount
        /\ UNCHANGED <<deposits, lp_tokens, insurance, market, slot>>

\* What a recovery leaves of the pool.
Recovered(p, amount) ==
    [p EXCEPT !.total_returned = @ + amount,
              !.total_recovered_from_wrapper = @ + amount]

\* What RecoverFlushedInsurance asks for: the wrapper's WithdrawInsuranceAsset
\* (tag 57) pays in Live mode only, and no more than the fund holds.
RecoveryOpen(amount) ==
    /\ pool.pool_mode = 0
    /\ amount > 0
    /\ amount <= wrapper_recoverable(pool)
    /\ market = "Live"
    /\ amount <= insurance
    /\ vault + amount \in U64
    /\ Checked(Recovered(pool, amount))

\* Permissionless.
RecoverFlushedInsurance(amount) ==
    /\ RecoveryOpen(amount)
    /\ pool' = Recovered(pool, amount)
    /\ vault' = vault + amount
    /\ insurance' = insurance - amount
    /\ UNCHANGED <<deposits, lp_tokens, market, slot>>

\* External: the market pays a deficit out of the insurance fund.
ConsumeInsurance(amount) ==
    /\ amount > 0
    /\ market = "Live"
    /\ amount <= insurance
    /\ insurance' = insurance - amount
    /\ UNCHANGED <<pool, deposits, lp_tokens, vault, market, slot>>

----------------------------------------------------------------------------
(* Resolution and configuration, all signed by the admin.                  *)

SetMarketResolved ==
    /\ ~pool.market_resolved
    /\ wrapper_fully_recovered(pool)
    /\ pool' = [pool EXCEPT !.market_resolved = TRUE]
    /\ UNCHANGED <<deposits, lp_tokens, vault, insurance, market, slot>>

\* The pool PDA signs the wrapper's ResolveMarket; the pool is not written.
AdminResolveMarket ==
    /\ wrapper_fully_recovered(pool)
    /\ market = "Live"
    /\ market' = "Resolved"
    /\ UNCHANGED <<pool, deposits, lp_tokens, vault, insurance, slot>>

\* Five times the senior weight.
MAX_JUNIOR_FEE_MULT_BPS == 50000

AdminSetTrancheConfig(mult) ==
    /\ mult >= BPS_DENOMINATOR
    /\ mult <= MAX_JUNIOR_FEE_MULT_BPS
    /\ pool.junior_total_lp > 0 => mult = pool.junior_fee_mult_bps
    /\ pool' = [pool EXCEPT !.tranche_enabled = TRUE, !.junior_fee_mult_bps = mult]
    /\ UNCHANGED <<deposits, lp_tokens, vault, insurance, market, slot>>

\* Disabling (#185) keeps the stored floor.
AdminSetHwmConfig(enabled, bps) ==
    /\ enabled => validate_hwm_floor_bps(bps)
    /\ pool' = [pool EXCEPT !.hwm_enabled = enabled,
                            !.hwm_floor_bps = IF enabled THEN bps ELSE @]
    /\ UNCHANGED <<deposits, lp_tokens, vault, insurance, market, slot>>

\* Mutant: the check of the days before the timelock.
AnyValidCooldown(cooldown) == validate_cooldown_slots(cooldown)

\* #242: UpdateConfig may only shorten the cooldown.
ImmediateCooldown(cooldown) ==
    validate_cooldown_slots(cooldown) /\ cooldown <= pool.cooldown_slots

\* Each argument is optional.
UpdateConfig(cooldown, cap) ==
    /\ cooldown # None => ImmediateCooldown(cooldown)
    /\ pool' = [pool EXCEPT !.cooldown_slots = IF cooldown = None THEN @ ELSE cooldown,
                            !.deposit_cap = IF cap = None THEN @ ELSE cap]
    /\ UNCHANGED <<deposits, lp_tokens, vault, insurance, market, slot>>

----------------------------------------------------------------------------
(* The timelock of a cooldown increase (#242), signed by the admin.        *)

\* A proposal is outstanding: slot 0 stands for none.
Proposed == pool.cooldown_proposed_at_slot # 0

timelock_window_elapsed(proposed_at, now) ==
    /\ proposed_at + TIMELOCK_SLOTS \in U64
    /\ now >= proposed_at + TIMELOCK_SLOTS

\* Mutant: proposing again keeps the timer of the first proposal.
TimerOfFirstProposal ==
    IF Proposed THEN pool.cooldown_proposed_at_slot ELSE slot

\* Proposing again restarts the timer.
ProposalTimer == slot

ProposeCooldownIncrease(cooldown) ==
    /\ validate_cooldown_slots(cooldown)
    /\ cooldown > pool.cooldown_slots
    /\ pool' = [pool EXCEPT !.pending_cooldown_slots = cooldown,
                            !.cooldown_proposed_at_slot = ProposalTimer]
    /\ UNCHANGED <<deposits, lp_tokens, vault, insurance, market, slot>>

CommitCooldownIncrease ==
    /\ Proposed
    /\ timelock_window_elapsed(pool.cooldown_proposed_at_slot, slot)
    /\ validate_cooldown_slots(pool.pending_cooldown_slots)
    /\ pool' = [pool EXCEPT !.cooldown_slots = pool.pending_cooldown_slots,
                            !.pending_cooldown_slots = 0,
                            !.cooldown_proposed_at_slot = 0]
    /\ UNCHANGED <<deposits, lp_tokens, vault, insurance, market, slot>>

CancelCooldownIncrease ==
    /\ Proposed
    /\ pool' = [pool EXCEPT !.pending_cooldown_slots = 0,
                            !.cooldown_proposed_at_slot = 0]
    /\ UNCHANGED <<deposits, lp_tokens, vault, insurance, market, slot>>

----------------------------------------------------------------------------
(* The environment.                                                        *)

\* External: LP tokens are ordinary SPL tokens and move between wallets.
TransferLp(u, v, n) ==
    /\ u # v
    /\ n > 0
    /\ n <= lp_tokens[u]
    /\ lp_tokens[v] + n \in U64
    /\ lp_tokens' = [lp_tokens EXCEPT ![u] = @ - n, ![v] = @ + n]
    /\ UNCHANGED <<pool, deposits, vault, insurance, market, slot>>

Tick ==
    /\ slot < MAX_SLOT
    /\ slot' = slot + 1
    /\ UNCHANGED <<pool, deposits, lp_tokens, vault, insurance, market>>

Next ==
    \/ \E u \in Users, a \in Args["deposit"] : Deposit(u, a)
    \/ \E u \in Users, a \in Args["deposit_junior"] : DepositJunior(u, a)
    \/ \E u \in Users, l \in Args["withdraw"] : Withdraw(u, l)
    \/ AccrueFees
    \/ \E a \in Args["fees"] : PushFees(a)
    \/ \E a \in Args["flush"] : FlushToInsurance(a)
    \/ \E a \in Args["return"] : ReturnInsurance(a)
    \/ \E a \in Args["recover"] : RecoverFlushedInsurance(a)
    \/ \E a \in Args["consume"] : ConsumeInsurance(a)
    \/ MAY_RESOLVE /\ SetMarketResolved
    \/ MAY_RESOLVE /\ AdminResolveMarket
    \/ \E m \in Args["tranche"] : AdminSetTrancheConfig(m)
    \/ \E e \in BOOLEAN, b \in Args["hwm"] : AdminSetHwmConfig(e, b)
    \/ \E c \in Args["cooldown"] \cup {None}, k \in (Args["cap"] \cap U64) \cup {None} :
          UpdateConfig(c, k)
    \/ \E c \in Args["propose"] : ProposeCooldownIncrease(c)
    \/ CommitCooldownIncrease
    \/ CancelCooldownIncrease
    \/ \E u, v \in Users, n \in Args["lp_transfer"] : TransferLp(u, v, n)
    \/ Tick

Spec == Init /\ [][Next]_vars
=============================================================================
