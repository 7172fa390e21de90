# A TLA+ model of percolator-stake

percolator-stake is a Solana program. Stakers put collateral into a pool and get
LP shares; the pool's admin may flush collateral into the insurance fund of a
*wrapper* market and get it back; trading fees arrive in the pool's vault and
raise the share price. Shares come in two tranches: juniors take losses first
and earn a larger part of the fees.

This directory holds TLA+ modules that model the program's accounting, its
handlers, its keys, its accounts and its byte formats, TLC configurations that
check them on small instances, and TLAPS proofs of the main safety properties for
all instances.

    cd tla
    tlc -workers 2 -config MCStakeTranches.cfg MCStakeTranches
    tlapm StakeProofs.tla      # and the other modules named *Proofs

## 1. Inventory

| Part | State | Operations | Source |
|---|---|---|---|
| Arithmetic | none | share price both ways, loss waterfall, fee split, floor | `src/src/math.rs` |
| Pool accounting | `StakePool`: lifetime counters, tranche, HWM and config fields | derived values, `refresh_hwm` | `src/src/state.rs` |
| Stakers | `StakeDeposit` per user, LP token balances | `Deposit`, `DepositJunior`, `Withdraw` | `processor.rs` 715-1485, 2855-3174 |
| Fees | vault surplus | `AccrueFees`, pre-accrual in every pricing handler | 2488-2692 |
| Insurance | `total_flushed`, `total_returned`, `total_recovered_from_wrapper`, `realized_junior_loss` | `FlushToInsurance`, `ReturnInsurance`, `RecoverFlushedInsurance` | 1491-1680, 3206-3488 |
| Resolution | `market_resolved`, the wrapper's mode | `SetMarketResolved`, `AdminResolveMarket` | 3494-3653 |
| HWM floor | mark, its epoch, the floor | refresh, enforcement, `AdminSetHwmConfig` | 1281-1299, 1673, 2699-2766 |
| Configuration | cooldown, cap, tranche switch and fee multiplier | `UpdateConfig`, `AdminSetTrancheConfig` | 1686-1743, 2773-2852 |
| Cooldown timelock | pending value and slot | propose, commit, cancel | 1860-2021 |
| Admin rotation | `admin`, `pending_admin` | `ProposeAdmin`, `AcceptAdmin` | 1754-1843 |
| Insurance authority | wrapper roles, `asset_admin_burned` | bind, rotate (two), burn | 2048-2410 |
| Fee-policy proxies | the market's fee policies, at the wrapper | four forwarded setters | 3655-3908 |
| Accounts | lamports, owner, length, header; `marketauth` | `create_or_adopt_pda`, `InitPool`, `InitTradingPool`, record creation and reuse | 33-713, `state.rs` headers |
| Account layout | the 408 bytes of a pool | the struct's fields and the hand-packed setters of `_reserved` | `state.rs` |
| Codecs | none | `StakeInstruction::unpack`, thirteen calls of the wrapper, the SPL shim | `instruction.rs`, `cpi.rs`, `spl_token.rs` |
| Wide arithmetic | loop variables | `distribute_fees`, `mul_div_floor` | `math.rs` |

**Interaction.** Every handler is one transaction. The runtime runs transactions
that write the same pool one after another, so a handler is atomic: it does its
whole step or reverts. Concurrency is the *order* of transactions of many
parties: stakers, the admin, anybody (recovery and accrual are permissionless),
the wrapper (fee pushes, consumption of the fund) and holders moving LP tokens.
The parts meet in the counters of the pool, in the token balance of the vault,
and in the wrapper's fund and mode.

**What is hard.** Values are derived, not stored: the pool value is a signed sum
of six counters, the junior and senior values are recomputed from gross balances
at each call. `total_returned` has three writers with different caps. The vault
receives tokens the counters do not know of until an accrual. The last junior's
exit books a return that moves no token. Two resolutions close the way back for
flushed insurance. The mark is only refreshed by deposits and withdrawals.
`PROJECT.json` lists each of these hazards at its line, with the property that
would catch it. Two protocols span several transactions and keys: a longer
cooldown waits out a timelock while LPs and the admin keep acting, and the
pool's admin and the wrapper's roles change hands through stake and through the
wrapper at once.

**What makes each part correct.** The vault covers what the counters promise;
shares that stay never pay for those that come or go; fees belong to those who
held shares when they arrived; juniors lose first; what comes back from the
wrapper never exceeds what went in, net of what was forfeited; resolution
strands no claim; records, counters and tokens describe the same shares; an
epoch's payouts respect the floor of its peak; nobody's exit is put off without
notice; no former admin's word counts; once sealed, the insurance custody stays
with the pool's PDA, the fund is out of every wallet's reach and comes back.
Below the accounting: an address cannot be squatted, no account passes for one of
another kind, no two fields share a byte, the wrapper finds what it reads, and a
request means to the called programs what it meant to the client.

## 2. Modules

| Module | Content |
|---|---|
| `StakeMath` | `math.rs` as operators over `0 .. U64_MAX`; an `Option<u64>` is a number or `None` |
| `StakePool` | the pool as a record; the accessors of `state.rs`; `refresh_hwm` and `accrue_fees_inner` as functions from pool to pool, with the condition under which they succeed |
| `StakeProgram` | variables, `Init`, one action per handler, the environment, `Next`, `Spec` |
| `StakeProperties` | type invariant, safety invariants, action properties |
| `StakeHistory` | `StakeProgram` with the peak and the losses of the mark's epoch as history |
| `StakeVault` | an abstract escrow: tokens held, booked, lent, closed |
| `StakeRefinement` | the mapping under which `StakeProgram` implements `StakeVault` |
| `StakeAuthority` | the pool's admin, its rotation, the wrapper's role table and the four instructions that move it, the four fee-policy proxies, with their properties |
| `StakeCustody` | composition of `StakeProgram` and `StakeAuthority`: flush and recovery need the role they sign with, a wallet with a role uses it |
| `StakeAccounts` | how pools and records come to exist, and what handlers ask of accounts |
| `StakeFields`, `StakeLayout` | a pool as independent named fields, and as the bytes of the account, which implement them |
| `StakeWire`, `StakeCodec` | the byte formats; an instruction from the client's bytes to the fields the called programs read |
| `StakeMulDiv` | the fee split and the 256-bit division at the code's word structure, one loop turn per step |
| `StakeClaims` | three statements made by comments of the source that the program does not keep |
| `StakeProofs` | the inductive invariant `LedgerInv`, the invariance theorems, the refinement of the escrow, what each handler does to the books, and what stands between a holder and leaving (the floor, the epoch and the cooldown timelock) |
| `StakeShareProofs` | shares: their number, the tranches and the price |
| `StakeAccountsProofs`, `StakeAuthorityProofs`, `StakeCodecProofs`, `StakeCustodyProofs`, `StakeLayoutProofs`, `StakeMulDivProofs` | the theorems about those modules |
| `MCStake*` | instances for TLC |

**Correspondence.** `pool`, `deposits`, `lp_tokens`, `vault` are the accounts of
the same names; `insurance` and `market` stand for the wrapper's fund and mode;
`slot` is the clock. A handler's checks and early returns are the conjuncts of
its action's guard, the failures of the token program and of the wrapper's call
included; its assignments are the primed variables. A `checked_add` or
`checked_sub` that fails reverts the transaction, which is `Checked(after)` as a
guard. Definitions carry the source's names where they exist (`Accrued` and
`AccrueOk` together are `accrue_fees_inner`: what it saves, and when it
succeeds). `PROJECT.json` maps every definition to its lines.

`StakeAuthority` is a model of its own beside `StakeProgram`: `admin`,
`pending_admin` and `asset_admin_burned` are fields of the pool, `roles` is the
asset profile of the wrapper market, `policy` its fee policies with the key that
decided each. `proposer` and `sealed` (bind and burn have both been done) are
history variables: the code does not store them. The
money handlers neither read nor write any of these, but rely on the roles being
bound: `FlushToInsurance` signs as the insurance authority and
`RecoverFlushedInsurance` as the operator. `StakeCustody` puts the two together:
a step of one leaves the other's variables alone, except that `market` is shared,
the two money handlers are guarded by the roles (`Flush`, `Recover`), and a
resolution is a step of both (`ResolveMarket`). Its history variables `consumed`
and `drained` count what the market and what wallets took out of the fund.

The escrow of `StakeVault` is read off the program's state by `held <- vault`,
`booked <- total_pool_value`, `lent <- wrapper_recoverable`, `closed <-` either
resolution. Deposits are `PayIn`, exits `PayOut`, an accrual a `PayOut` of no
tokens that books the fees, the flush `Lend`, the admin's return and the recovery
`Repay`, a fee push `Receive`, a resolution `Close`; every other handler leaves
the escrow as it is.

In `StakeAccounts` a handler is the part of it that creates and validates
accounts; in `StakeLayout` a step is one setter, of which a transaction is a run;
in `StakeCodec` a handler is the part that passes its arguments on.

**Abstractions.** In `StakeProgram` keys, signatures and account-identity checks
are left out: every transaction is signed by whom the handler asks for. In
`StakeAuthority` a key is a wallet, the PDA or the zero key; a wallet signs only
for itself and the PDA only inside stake's calls, which is why a wallet cannot
hand a role to the PDA directly. `ProposeAdmin` takes any of these keys, and only
a wallet can accept. The initial state of
`StakeProgram` is a pool as `InitPool` or `InitTradingPool` saves it with the
wrapper roles bound, at slot 1: slot 0 is the code's mark of "no proposal" and
never a live slot.
Products are taken in unbounded integers, as the code takes them in `u128`;
`StakeMulDiv` shows that the split the code computes in words is that quotient.
A byte of `StakeWire` has `Radix` values, with the code's widths; a key is 32 of
them, and a number is written and read half by half, which is `to_le_bytes` and
`from_le_bytes` without a sum over its bytes. `last_fee_accrual_slot` and
`last_vault_snapshot`, which nothing reads, are left out. Operators whose
comment starts with "Mutant" are plausible wrong versions of the definition that
follows them; nothing uses them in the specification, they serve to show that a
property can fail.

**External parts.** `PushFees` (the wrapper's tag 87, or anybody's transfer),
`ConsumeInsurance` (the market using its fund), `TransferLp`, `Tick`, and in
`FlushToInsurance`, `RecoverFlushedInsurance` and `AdminResolveMarket` the
effect of the wrapper's tags, as the handlers and their comments use them: tags
9 and 57 work in Live mode only, and tag 57 pays no more than the fund holds. In
`StakeAuthority`, `Authorized` is the rule of the wrapper's tag 65 as `cpi.rs`,
`instruction.rs` and `tests/task13_cpi_proxies_e2e.rs` describe it: Live mode
only, signed by the holder of the role or by the asset admin, never for the zero
key, and only the asset admin's own role can be given to the zero key;
`DirectUpdate` is a wallet sending it and `DirectPolicy` a wallet setting a fee
policy with the role it holds. In `StakeCustody`, `OperatorWithdraw` is tag 57
called by a wallet and `PayDeficit` the market's `ConsumeInsurance`. In
`StakeAccounts` the System program's four instructions,
`Prefund` and `HandMarket`; in `StakeLayout` the offsets at which the wrapper's
tag 87 reads the pool, the version and length it takes, and its redeployment
(`BumpWrapper`); in `StakeCodec` the client's encoding and the formats the
wrapper and the token program read.

## 3. Runs

| Run | Instance | Properties | Distinct states |
|---|---|---|---|
| `tranches` | insurance pool, two users, both tranches, flush, return, recover, consume, fees, both resolutions | `TypeOK`, `VaultSolvent`, `RecoveryBounded`, `NothingStranded`, `TranchesCovered`, `ForfeitShutsJuniors`, `SharePriceNeverFalls`, `NoFeeCapture`, `RecoveryNotSniped`, `JuniorsLoseFirst`, `ImplementsVault` | 248,193 |
| `positions` | capped trading pool, two users, both tranches, LP transfers, fees, four slots, timelock of two, cooldowns 1 to 3 | `LpLedger`, `PendingRaises`, `ExitWindow` | 347,218 |
| `hwm` | untranched pool, one user, three epochs, floor switched, flush, return, fees | `HwmRateLimit`, `EpochFloor` | 386,895 |
| `authority` | three wallets, all roles, all policies, both modes | `AuthorityTypeOK`, `ProposalCurrent`, `BurnIsFinal`, `CustodySealed`, `PolicyBehindSeal` | 149,248 |
| `custody` | a senior and a junior, two wallets, all roles, a market with deficits | `NoAdminDrain`, `SealedFundOpen`, `SealedFundReturns` | 468,288 |
| `accounts` | one market, two wallets, legacy pools, up to three lamports sent anywhere | `CreationOpen`, `AccountsSound`, `PoolHoldsMarket` | 90,112 |
| `layout` | seven fields set, two contents each, the wrapper before and after its bump | `ImplementsFields`, `PayoutReachesVault` | 4,612 |
| `codec` | every variant, `Radix` 3, clients of another build | `ExactlyWhatWasSent`, `CallsMeanWhatWasAsked`, `PricedWithVault` | 18 thousand |
| `muldiv` | limbs of three bits, operands around every carry | `LongDivision`, `FeeSplitExact` | 23 thousand |

What they show:

* `VaultSolvent`: the priced value is always in the vault, so no withdrawal fails
  for want of tokens.
* `SharePriceNeverFalls`: only a flush lowers what a share redeems for, whoever
  else deposits, exits or accrues.
* `NoFeeCapture`: counting the fees waiting in the vault, no mint or burn takes
  value from the shares that stay.
* `RecoveryNotSniped`: the two deposit gates together: whoever enters a tranched
  pool while a loss is outstanding gets no part of its repayment. A pool without
  tranches has no such gate and the property says nothing of it.
* `JuniorsLoseFirst`: a flush costs seniors exactly what juniors cannot cover.
* `ImplementsVault`: every handler is an operation of the abstract escrow. Value
  is booked only with tokens in the vault, leaves only with tokens, and a closed
  market neither borrows nor owes.
* `RecoveryBounded`, `NothingStranded`: recovery from the wrapper is bounded by
  the flushes net of forfeits; after a resolution no claim is left or reappears.
* `TranchesCovered`: `senior_balance` is defined as long as losses are settled by
  one of the two return paths.
* `ForfeitShutsJuniors`: what exited juniors forfeited is booked as returned but is
  never taken for repaid, so the junior gate stays shut from the first forfeit on.
  This is what the M-3 code of `process_deposit_junior` does; the comment of #161
  above it (`processor.rs` 2992, "so a fully-exited junior tranche always
  re-opens") is from before it and no longer holds.
* `LpLedger`: supply counters, records and tokens agree; exactly
  `MINIMUM_LIQUIDITY` shares are locked for ever. A sum over the users is stated
  as the number of shares (`SharesOf`: one element for each share of each holder),
  which is a form the prover can reason about without induction on the users.
* `HwmRateLimit`: a payout leaves the floor of the epoch's mark, which is at
  least what the vault held and which only a flush lowers within the epoch.
* `EpochFloor`: over the whole epoch, payouts leave the floor of its peak net of
  what was flushed, however deposits, fees, returns and switching are mixed in. A
  return does not lift the mark again, in the code or here, so the headroom of a
  flush returned within its epoch is conceded.
* `PendingRaises`, `ExitWindow`: a waiting proposal stays an admissible increase
  whatever `UpdateConfig` does meanwhile, and a position's unlock slot moves
  later only by its holder's own deposit or by a value public for the whole lock.
  `processor.rs` 1851 speaks of "guaranteeing LP holders a ≥48h exit window". The
  code gives it to whoever held the position at the announcement if the cooldown in
  force is no longer than the lock, and this is part of `ExitWindow`; a longer
  cooldown, which is admissible, or a deposit made during the lock leaves none.
* `ProposalCurrent`: an acceptable proposal is always the present admin's.
* `BurnIsFinal`, `CustodySealed`: the recorded burn agrees with the market, and a
  role the PDA holds at the burn never leaves it, through stake or the wrapper.
  The other direction does not hold and is not claimed: an asset admin burned at
  the wrapper directly cannot be recorded afterwards, and stake's rotations then
  stay open.
* `PolicyBehindSeal`: once bind and burn have both been done, every change of a fee
  policy is the decision of whoever is admin then; nobody else gets the insurance
  authority, and with it two of the policies, back.
* `NoAdminDrain`, `SealedFundOpen`, `SealedFundReturns`: after bind and burn no
  wallet takes a token out of the fund. If none had done so before, all that is
  missing of what the pool may recover is what the market paid its deficits with;
  any part of the rest can be recovered at once, and in the end either nothing is
  left to recover or the fund is empty and the market has used what is missing.
* `CreationOpen`, `AccountsSound`, `PoolHoldsMarket`: lamports sent ahead never
  block a creation; what the program owns is rent-exempt and of the kind its
  address says, so no record hangs off a record or a legacy pool; a pool exists
  exactly for the markets handed to it.
* `ImplementsFields`, `PayoutReachesVault`: every accessor reads what its own
  setter wrote last. The wrapper compares the version byte exactly, and the one
  deployed takes version 3 (`state.rs` 231-236): it pays no pool of this program.
  Once it is redeployed for version 4 (`BumpWrapper`) it pays exactly the
  insurance-LP pools, and what its own offsets find as the vault is the vault.
* `ExactlyWhatWasSent`, `CallsMeanWhatWasAsked`, `PricedWithVault`: an instruction
  is unpacked as encoded or refused; the called programs read the arguments asked
  for; shares are priced with the vault's own amount, never with a frozen one.
* `LongDivision`, `FeeSplitExact`: after every turn of the division the remainder
  and quotient are those of the leading bits, and every way through the fee split
  gives the exact floor.

`SharePriceNeverFalls`, `JuniorsLoseFirst`, `TranchesCovered` and
`ForfeitShutsJuniors` assume `OneReturnPath`: a pool settles its losses either by
`ReturnInsurance` or by recovery, not by both; of a pool that has used both they say
nothing any more. Without it the first claim below shows what goes wrong.

**Claims of comments the program does not keep** (`StakeClaims`, each refuted by
a run of `MCStakeClaims`):

* `ReturnedWithinFlushed`: `instruction.rs` says recovery maintains
  `total_returned <= total_flushed`. An admin return and a wrapper recovery of
  the same flush both count.
* `LossNeverBlocksWithdraw`: `processor.rs` says existing LPs withdraw freely
  during a loss. The guard at the end of `accrue_fees_inner` compares the *raw*
  junior balance with the loss-adjusted value, so a loss and a stray surplus
  make every pricing handler revert.
* `GateAlwaysReached`: `state.rs` says the amount left to recover decreases to
  zero and the resolve gate is always reachable. Once the market has consumed a
  flushed token, the recovery can never fetch it, and the gate stays shut however
  often the recovery is called. `SealedFundReturns` says what is true of a sealed
  fund: the market's own use of it is all that can keep the gate from opening.

**Bounds.** `U64_MAX` (3 to 15) is the width of every counter: small enough that
the checked arithmetic is driven to its limit, large enough for two deposits, a
flush and a settlement. Amounts are one or two values per operation, chosen so
that prices are uneven (3 and 2, with a genesis lock of 1) and rounding happens.
`MAX_SLOT` bounds the clock; a cooldown of 1 to 3 slots elapses within it, and in
`positions` so does a proposal, a replacement and its lock. `TIMELOCK_SLOTS` is 2
there against cooldowns of 1 to 3, below and above it as in the code (432,000
against at most 78,840,000).
Three wallets give a present, a former and a next admin, each of whom may hold
any role; `custody` has two, the admin and one other. Wallets and users are
symmetric where no liveness is checked. `MAY_RESOLVE` says whether the admin
resolves. Two users are enough for one position per tranche and a second holder
in one. The basis points are the code's own (a floor of 6000, a multiplier of
20000). `MAX_LAMPORTS` is 3, the rent of a pool, one above that of a record, so an
address gets less than, as much as and more than it needs. The seven fields set in
`layout` are one of each group, among them each pair packed against each other;
the theorem covers all fields. With `Radix` 3 a flag has two ways to be set and a
`u64` holds less than a `u128` argument. With limbs of three bits a word is six:
the operands include both sides of every carry and the largest word.

Deadlock checking is on except in `accounts`, where nothing is left to do in a
market whose legacy pool already administers it once the bound on lamports is
reached. Elsewhere `UpdateConfig` with no argument, the cancelling
`ProposeAdmin`, a setter or the next request is always possible.

**Fairness.** Only weak fairness of `RecoverFlushedInsurance`, in `CFairSpec`
(`StakeCustody`) and `FairSpec` (`StakeClaims`). The handler takes any caller's
signature, so nobody can keep it from being called while it would succeed.
Nothing is assumed of stakers, the admin, the wrapper or the clock: nobody is
obliged to call anything else.

## 4. Proofs

The theorems hold for every set of users, every width `U64_MAX`, every bound and
every set of arguments. They assume `U64Assumption` and `ProgramAssumption`:
constants are natural numbers, the floor's maximum is below 100 %, the longest
cooldown fits in a `u64`. Those of `StakeAuthorityProofs` and
`StakeCustodyProofs` hold for every set of wallets and assume that the PDA, the
zero key and the wallets are distinct. Those of `StakeLayoutProofs` hold for all
contents that fill their fields (`ContentsAssumption`). Those of
`StakeAccountsProofs` hold for all markets, wallets and rents and assume that no
wallet is a pool's address (`OffCurve`): a derived address is off the curve, so
nobody has a key for it. Those of `StakeMulDivProofs` hold for every width of a
limb and every balance, multiplier and fee whose weights fit a word; they assume
the laws of powers of two (`PowersOfTwo`), of which the provers know nothing.
Those of `StakeCodecProofs` hold for every number of values of a byte above one
(`WireAssumption`), so for 256, and for all keys of 32 bytes and all numbers of
their types (`CodecAssumption`).

| Theorem | Statement |
|---|---|
| `TypeCorrect` | `Spec => []TypeOK` |
| `Solvency` | `Spec => []VaultSolvent` |
| `RecoveryNeverExceedsFlush` | `Spec => []RecoveryBounded` |
| `ResolutionStrandsNothing` | `Spec => []NothingStranded` |
| `LedgerCounts` | `Spec => []LpLedger` |
| `JuniorsCovered` | `Spec => []TranchesCovered` |
| `ForfeitHolds` | `Spec => []ForfeitShutsJuniors` |
| `FirstLossHolds` | `Spec => JuniorsLoseFirst` |
| `EntryHolds` | `Spec => RecoveryNotSniped` |
| `CaptureHolds` | `Spec => NoFeeCapture` |
| `PriceHolds` | `Spec => SharePriceNeverFalls` |
| `FloorHolds` | `Spec => HwmRateLimit` |
| `EpochFloorHolds` | `HSpec => EpochFloor` |
| `ProposalsRaise` | `Spec => []PendingRaises` |
| `TimelockHolds` | `Spec => ExitWindow` |
| `ProgramImplementsVault` | `Spec => ImplementsVault` |
| `AuthorityTyped` | `Spec => []AuthorityTypeOK` |
| `ProposalsCurrent` | `Spec => []ProposalCurrent` |
| `BurnRecorded` | `Spec => []BurnIsFinal` |
| `SealHolds` | `Spec => CustodySealed` |
| `PoliciesBehindSeal` | `Spec => PolicyBehindSeal` |
| `SealedFundUntouched` | `CSpec => []NoAdminDrain` |
| `SealedFundStaysOpen` | `CSpec => []SealedFundOpen` |
| `OwnedAccountsSound` | `Spec => []AccountsSound` |
| `PoolsHoldTheirMarkets` | `Spec => []PoolHoldsMarket` |
| `CreationStaysOpen` | `Spec => []CreationOpen` |
| `CustodyImplementsParts` | `CSpec => Spec /\ Keys!Spec` |
| `LayoutImplementsFields` | `Spec => ImplementsFields` |
| `PayoutCorrect` | `Spec => []PayoutReachesVault` |
| `UnpackExact` | `Spec => []ExactlyWhatWasSent` |
| `CallsExact` | `Spec => []CallsMeanWhatWasAsked` |
| `PricedExactly` | `Spec => []PricedWithVault` |
| `DivisionExact` | `Spec => []LongDivision` |
| `FeesSplitByWeight` | `Spec => []FeeSplitExact` |

**Argument.** `LedgerInv` is the conjunction of `TypeOK`, `VaultSolvent`,
`RecoveryBounded` and `NothingStranded`. None is inductive alone: solvency needs
the counters' types and that a recovery adds to both the vault and the value; the
recovery bound needs that a forfeit is at most the net loss, and `admin_returned
>= 0` (the second half of `RecoveryBounded`) to turn a bound on `total_returned`
into one on forfeits; that nothing is stranded needs the recovery bound, since a
later forfeit must not exceed what the flush left. One lemma per handler
(`DepositStep`, `WithdrawStep`, `FlushStep`, ...) shows that it preserves
`LedgerInv`; the handlers share lemmas on what the accrual, the mark and a
redemption do to the pool (`AccrueEffect`, `RefreshEffect`, `RedeemEffect`) and a
frame lemma (`LedgerFrame`) for steps that leave the insurance counters alone.
`LedgerInvariance` combines them. `FloorHolds` uses the invariant at both ends of
a step and that the accrual brings the value up to what the vault holds, so a
payout is measured against the whole vault. The timelock theorems rest on a
frame lemma (`CooldownFrame`): only four instructions touch the cooldown or its
proposal, and the types of `LedgerInv` make the saturating unlock slot monotonic
in the cooldown; that the sum is never above the exact one gives the exit window.
`AuthorityInv` joins the role types, `ProposalCurrent` and
`BurnIsFinal`; the seal needs the last one (with no asset admin, only the holder
of a role can give it away) and that a wallet is never the PDA. `PoliciesBehindSeal`
is about every later step, so `SealKept` carries the seal along: where `sealed` is
set, the burn is still recorded and both custody roles are still the PDA's.

*Shares.* `LpLedger` is not inductive: it says nothing of the tokens of an empty
pool, nor of a record that was never used. `ShareInv` adds that a ledger holds
finitely many shares, that an empty pool has no tokens out, that an unused record
holds nothing, and that there are juniors only where there are tranches. A mint
or burn of `n` shares adds or removes a block of `n` elements (`SharesRaised`), so
the library's theorems on finite sets give the new count; a transfer does both.
The set of users may be infinite: only the shares are finite.

*Books.* Deposits and exits first accrue, then price, then write, then refresh the
mark. `BooksKept(p, q)` says that two pools agree on every field a price depends
on; `AccrueBooks`, `RefreshBooks`, `RedeemBooks` and one lemma for each handler
reduce a step to an accrual (whose split gives the juniors at most the fees) and
a change of at most two tranche fields and four counters. The clerical handlers
keep the books (`ClericalBooks`), so the later theorems have ten cases and not
nineteen (`StepKinds`).

*Tranches.* `TranchesTied` says that without tranches the juniors own nothing and
that, while one path settles the losses, the juniors' balance *before* the loss is
within the pool value *before* the loss. The loss-adjusted statement
`TranchesCovered` is not inductive, as the balance it reads is cut at zero: a
flush beyond the juniors' balance followed by a return would give them what is
not there. The last junior's exit is the delicate case: the return it books
without tokens must leave `total_returned <= total_flushed`. `ForfeitShutsJuniors`
follows from that bound and from `admin_returned >= 0`: with the forfeits taken out
of `total_returned`, the loss outstanding is at least what was forfeited.

*Prices.* The floors of the code's divisions are eliminated once
(`DepositPrice`, `WithdrawPrice`: the quotient times the divisor is within the
product), after which each handler's claim is a chain of products that
`TimesMonotone`, `PriceUp` and `PriceChain` carry out by name, since the solver
does not find non-linear steps itself. `NoFeeCapture` is then the claim for the
accrued pool, because what a deposit or exit leaves has no fee waiting
(`NothingPending`). `SharePriceNeverFalls` adds the accrual and the two return
paths, which need `TranchesTied`: a return lifts the juniors by at most its
amount. That needs the hypothesis `OneReturnPath` only after the step, since a
pool that has used both paths does not stop having done so (`PathsOnlyUsed`).

*Epochs.* `EpochFloor` speaks of the history variables `peak` and `lost`, which no
handler reads. `MarkInv` ties them to the account: the stored mark is at least
`peak - lost`. It is inductive because a flush lowers the mark by exactly what it
adds to `lost`, stopping at zero, and every handler that pays out refreshes the
mark first.

*Wide arithmetic.* Quotient and remainder are unique (`DivUnique`), so each fact
about a division is a decomposition: the four partial products with their carries
make up the product (`LimbsProduct`), a bit of the product is a bit of the word it
is in (`BitOf`), and a turn extends the quotient of the leading bits by one
although the doubled remainder may leave the word (`Turn`). `DivisionInv` adds the
precondition of `mul_div_floor` to the two properties (`CallOK`): without it a bit
of the quotient could lie beyond the word, where the code drops it.
`FeesKeep` shows that `distribute_fees` meets it, the junior weight being part of
the total weight, and `ReturnedExact` that its clamps never bite.

*Accounts.* `AccountsInv` adds to the two properties what is true of an address the
program does *not* own yet, an empty account with no header, which is what
`create_or_adopt_pda` may find there with any number of lamports, and that a
market is administered by a wallet or by a pool. `CreationOpen` follows: an address
that is not the program's is empty, so one of the two ways of
`create_or_adopt_pda` takes it (`Takeable`), and an address that is the program's
holds the right kind of account.

*Codecs.* A number is its lower half and its upper half times the number of values
of the lower (`Halves`), so what is written is read back for two bytes (`Two`), and
for twice as many whenever it is for so many (`Doubled`, applied in `Four`, `Eight`
and `Sixteen`). `At` says that a payload holds a given run of bytes at an offset;
a payload of up to three arguments holds each of them behind the others
(`JoinTwo`, `JoinThree`). `UnpackSent` compares the arms of the program with the
variants of the client tag by tag; `HandlerAsked` does the same for the calls, whose
lengths the called programs check. `CodecInv` adds to the three properties what is
on the wire: the bytes of a request that the client may have sent, or, from a client
of another build, a payload of another length than its tag has. The last is why
`unpack` refuses it: every arm compares the length.

`ProgramImplementsVault` shows one step lemma per group of handlers, with
`LedgerInv` before and after: an exit is a `PayOut` only because the value stays
within what the vault holds, and a resolution a `Close` only because nothing is
recoverable then. `SealInv` of `StakeCustodyProofs` says that once
`drained_at_seal` is set, the burn is recorded, the market has no asset admin and
both custody roles are the PDA's: `NoAdminDrain` alone is not inductive, since
it does not say why no wallet is operator. In `StakeLayoutProofs` the one fact
about numbers is that the spans of two different fields do not meet
(lemma `Apart`, over the offset table); the refinement follows by reading
each field after each write. `IdentityInv` lists the fields no setter writes,
which are those the wrapper reads; a version byte other than the wrapper's is
refused whatever the other fields hold.

`CustodyImplementsParts` says that the composition adds nothing to its parts: a
wallet that draws on the fund as operator is to the pool what a market paying a
deficit is, and the money handlers move no role. What is proved of `StakeProgram`
and of `StakeAuthority` therefore holds where they meet: `SealedFundStaysOpen`
starts from `LedgerInv` and `SealInv` at once, and adds `FundInv`, which counts the
tokens. What was flushed and not recovered is in the fund, was paid by the market
(`consumed`) or was drawn by a wallet (`drained`), and what stakers put in and did
not take out is in the vault, in the fund or went one of these two ways. A sealed
fund no wallet drew on therefore lacks at most what the market paid, and the vault
has room for all that is in it; that the market is still Live is `NothingStranded`,
and that no
counter overflows follows from the recovery's cap. The step to watch is again the
last junior's exit, which books a return without a token.

**Only model-checked.** `SealedFundReturns` and `GateAlwaysReached` are liveness
under fairness, which is beyond the prover; what is proved of the first is its
safety part, that the recovery it relies on is never refused (`SealedFundOpen`).
Every other property of the passing runs is both checked and proved; `CodecReachable`, `LedgerInvariance` and the like
state the inductive invariants themselves.

## 5. Not modelled

* Checks of token accounts, mints, signers and sysvars, and the account lists of
  the calls: they refuse a transaction before it changes anything, and the models
  give each handler the accounts it asks for. The exceptions are the checks on
  pools and records, which `StakeAccounts` has.
* `error.rs`, the entrypoint and the crate root: an error is a disabled action.
* Functions of `math.rs` without a caller in the program (`pool_value`,
  `pool_value_with_fees`, `senior_protected`).
* `kani-proofs/`: harnesses about functions that mirror the accessors in narrower
  types; the accessors themselves are in `StakePool` and `StakeMath`. Tests and
  scripts are not part of the program.
* `last_fee_accrual_slot` and `last_vault_snapshot`: written, never read
  (`StakeLayout` has their bytes).

## 6. Plan

Done: 1. `StakeMath`, `StakePool`, `StakeProgram`; 2. the properties and claims;
3. the proofs about the ledger and the floor; 4. the cooldown timelock with its
proofs; 5. `StakeAuthority` with its proofs; 6. the fee-policy proxies and the
composition `StakeCustody` with its seal; 7. the epoch's history; 8. recovery
under fairness, in both directions; 9. the escrow and its refinement, checked and
proved; 10. accounts, layout, codecs and wide arithmetic;
11. the proofs about shares, tranches, prices, epochs, accounts and wide
arithmetic, and the composition shown to implement its parts; 12. numbers written
by halves, and with them the proofs about the codecs; 13. juniors in the custody
composition, and the proof that a sealed fund stays open to recovery; 14. the
market's deficits in that composition, the seal over the fee policies, the
wrapper's version, and what a forfeit means to the junior gate.

Left: fees in the custody composition, which need a bound on the token supply to
say that the vault has room for a recovery.
