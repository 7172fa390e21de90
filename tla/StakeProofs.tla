---------------------------- MODULE StakeProofs -----------------------------
(***************************************************************************)
(* Proofs that the pool stays solvent, that the insurance ledger stays     *)
(* bounded, and that the program implements the escrow of StakeVault, for  *)
(* every set of users and every value of the constants; and what each      *)
(* handler does to the books, which the other proofs about the program     *)
(* start from.                                                             *)
(*                                                                         *)
(* The lemmas go from the helpers to the handlers: what the fee accrual,   *)
(* the high-water mark and a redemption leave of a pool, then what each    *)
(* action does to the invariant, then which escrow operation each is.      *)
(*                                                                         *)
(* The last sections are about what stands between a holder and leaving:   *)
(* the high-water-mark floor limits every payout of an epoch, and the      *)
(* cooldown is lengthened only by a proposal that has waited in public.    *)
(* The floor is checked on the pool value, and binds the vault because the *)
(* accrual of the same withdrawal has made the two equal.                  *)
(***************************************************************************)
EXTENDS StakeRefinement, StakeHistory, TLAPS

(* The fields the insurance invariants read.                               *)
InsuranceKept(p, q) ==
    /\ q.total_flushed = p.total_flushed
    /\ q.total_returned = p.total_returned
    /\ q.total_recovered_from_wrapper = p.total_recovered_from_wrapper
    /\ q.realized_junior_loss = p.realized_junior_loss
    /\ q.market_resolved = p.market_resolved

(* The same, but for a loss that is written off.                           *)
InsuranceSettled(p, q) ==
    /\ q.total_flushed = p.total_flushed
    /\ q.total_recovered_from_wrapper = p.total_recovered_from_wrapper
    /\ q.realized_junior_loss >= p.realized_junior_loss
    /\ q.market_resolved = p.market_resolved

----------------------------------------------------------------------------
(* The pool record.                                                        *)

(* The pool value is the signed sum whenever it is defined.                *)
LEMMA PoolValue ==
    ASSUME NEW p \in Pool
    PROVE  /\ signed_value(p) \in Int
           /\ total_pool_value(p) # None <=> signed_value(p) \in U64
           /\ total_pool_value(p) # None => total_pool_value(p) = signed_value(p)
           /\ total_pool_value(p) \in U64 \cup {None}
BY U64Assumption DEF Pool, U64, signed_value, total_pool_value, Narrow, None

(* A successful accrual keeps the record a pool, touches neither the       *)
(* shares nor the insurance ledger, and books exactly the surplus.         *)
LEMMA AccrueEffect ==
    ASSUME NEW p \in Pool, NEW balance \in U64, AccrueOk(p, balance)
    PROVE  /\ Accrued(p, balance) \in Pool
           /\ InsuranceKept(p, Accrued(p, balance))
           /\ Accrued(p, balance).total_lp_supply = p.total_lp_supply
           /\ signed_value(Accrued(p, balance)) =
                 IF HasSurplus(p, balance) THEN balance ELSE signed_value(p)
<1> DEFINE fee == balance - total_pool_value(p)
           q == [p EXCEPT !.total_fees_earned = @ + fee,
                          !.junior_balance = @ + JuniorFee(p, fee)]
<1>1. CASE ~HasSurplus(p, balance)
  BY <1>1 DEF Accrued, InsuranceKept
<1>2. CASE HasSurplus(p, balance)
  <2>1. Accrued(p, balance) = q
    BY <1>2 DEF Accrued
  <2>2. total_pool_value(p) = signed_value(p) /\ signed_value(p) \in U64
    BY PoolValue DEF AccrueOk
  <2>3. q.total_fees_earned \in U64 /\ q.junior_balance \in U64
    BY <1>2, <2>1 DEF AccrueOk, Checked, Counters
  <2>4. q \in Pool /\ InsuranceKept(p, q) /\ q.total_lp_supply = p.total_lp_supply
    BY <2>3 DEF Pool, InsuranceKept
  <2>5. signed_value(q) = signed_value(p) + fee
    BY <2>2 DEF Pool, signed_value, U64
  <2> QED  BY <1>2, <2>1, <2>2, <2>4, <2>5 DEF U64
<1> QED  BY <1>1, <1>2

(* Refreshing the mark writes nothing but the mark and its epoch.          *)
LEMMA RefreshEffect ==
    ASSUME NEW p \in Pool, NEW epoch \in Nat, NEW tvl \in U64
    PROVE  /\ refresh_hwm(p, epoch, tvl) \in Pool
           /\ InsuranceKept(p, refresh_hwm(p, epoch, tvl))
           /\ refresh_hwm(p, epoch, tvl).total_lp_supply = p.total_lp_supply
           /\ signed_value(refresh_hwm(p, epoch, tvl)) = signed_value(p)
BY DEF Pool, refresh_hwm, InsuranceKept, signed_value

(* The epoch is a natural number.                                          *)
LEMMA EpochType ==
    ASSUME slot \in U64
    PROVE  Epoch \in Nat
BY ProgramAssumption DEF Epoch, U64

(* The vault covers the pool value exactly when the signed sum is within   *)
(* it.                                                                     *)
LEMMA SolventAt ==
    ASSUME NEW p \in Pool, NEW balance \in U64
    PROVE  (total_pool_value(p) # None /\ balance >= total_pool_value(p))
              <=> (signed_value(p) >= 0 /\ signed_value(p) <= balance)
BY PoolValue, U64Assumption DEF U64

----------------------------------------------------------------------------
(* Redemption.                                                             *)

(* The share of a sub-pool is a u64 or undefined.                          *)
LEMMA CollateralType ==
    ASSUME NEW supply \in U64, NEW value \in U64 \cup {None}, NEW lp \in Nat
    PROVE  calc_collateral_for_withdraw(supply, value, lp) \in U64 \cup {None}
<1> DEFINE product == lp * (value + VIRTUAL_ASSETS)
           quotient == product \div (supply + VIRTUAL_SHARES)
<1>1. product \in Nat
  BY U64Assumption DEF U64, None, VIRTUAL_ASSETS
<1>2. supply + VIRTUAL_SHARES \in Nat \ {0}
  BY DEF U64, VIRTUAL_SHARES
<1>3. quotient \in Nat
  <2> HIDE DEF product
  <2> QED  BY <1>1, <1>2
<1>4. Narrow(quotient) \in U64 \cup {None}
  <2> HIDE DEF quotient
  <2> QED  BY <1>3, U64Assumption DEF Narrow, U64
<1> QED  BY <1>4 DEF calc_collateral_for_withdraw

(* The junior balance net of its loss, and the rest of the pool.           *)
LEMMA TrancheTypes ==
    ASSUME NEW p \in Pool
    PROVE  /\ effective_junior_balance(p) \in U64
           /\ effective_junior_balance(p) <= p.junior_balance
           /\ senior_balance(p) \in U64 \cup {None}
           /\ senior_total_lp(p) \in U64
           /\ net_loss(p) \in U64
<1> DEFINE gross_pool == SatSub(p.total_deposited, p.total_withdrawn)
           gross_senior == SatSub(gross_pool, p.junior_balance)
           absorbed == distribute_loss(p.junior_balance, gross_senior, net_loss(p)).junior
<1>1. net_loss(p) \in U64 /\ senior_total_lp(p) \in U64 /\ gross_senior \in U64
  BY U64Assumption DEF Pool, U64, net_loss, senior_total_lp, SatSub
<1>2. p.junior_balance \in U64
  BY DEF Pool
<1>3. absorbed \in U64
  BY <1>1, <1>2, U64Assumption DEF distribute_loss, Lesser, SatAdd, U64
<1>4. effective_junior_balance(p) = SatSub(p.junior_balance, absorbed)
  BY DEF effective_junior_balance
<1>5. effective_junior_balance(p) \in U64 /\ effective_junior_balance(p) <= p.junior_balance
  <2> HIDE DEF absorbed
  <2> QED  BY <1>2, <1>3, <1>4, U64Assumption DEF SatSub, U64
<1>6. senior_balance(p) \in U64 \cup {None}
  BY <1>5, PoolValue, U64Assumption DEF senior_balance, U64
<1> QED  BY <1>1, <1>5, <1>6

(* A redemption is a u64 or undefined.                                     *)
LEMMA RedemptionType ==
    ASSUME NEW p \in Pool, NEW junior \in BOOLEAN, NEW lp \in Nat
    PROVE  Redemption(p, junior, lp) \in U64 \cup {None}
<1>1. /\ p.total_lp_supply \in U64
      /\ p.junior_total_lp \in U64
      /\ total_pool_value(p) \in U64 \cup {None}
  BY PoolValue DEF Pool
<1> QED  BY <1>1, CollateralType, TrancheTypes DEF Redemption

(* The loss the last junior forfeits is part of the unsettled loss.        *)
LEMMA ForfeitBound ==
    ASSUME NEW p \in Pool
    PROVE  Forfeited(p) \in U64 /\ Forfeited(p) <= net_loss(p)
<1>1. SatSub(p.junior_balance, effective_junior_balance(p)) \in U64
  BY TrancheTypes, U64Assumption DEF SatSub, U64, Pool
<1> QED  BY <1>1, TrancheTypes DEF Forfeited, Lesser, U64

(* A redemption takes its payout, and nothing else, out of the pool value; *)
(* what it settles it settles on both sides of the insurance ledger.       *)
LEMMA RedeemEffect ==
    ASSUME NEW p \in Pool, NEW junior \in BOOLEAN, NEW lp \in Nat, NEW payout \in Nat,
           Checked(Redeemed(p, junior, lp, payout))
    PROVE  LET q == Redeemed(p, junior, lp, payout)
           IN  /\ q \in Pool
               /\ lp <= p.total_lp_supply
               /\ signed_value(q) = signed_value(p) - payout
               /\ q.total_flushed = p.total_flushed
               /\ q.market_resolved = p.market_resolved
               /\ q.total_recovered_from_wrapper = p.total_recovered_from_wrapper
               /\ q.realized_junior_loss - p.realized_junior_loss =
                     q.total_returned - p.total_returned
               /\ q.realized_junior_loss >= p.realized_junior_loss
               /\ q.total_returned - p.total_returned <= net_loss(p)
<1> DEFINE q == Redeemed(p, junior, lp, payout)
           paid == [p EXCEPT !.total_withdrawn = @ + payout, !.total_lp_supply = @ - lp]
<1>1. \A c \in Counters : q[c] \in U64
  BY DEF Checked
<1>2. /\ q.total_deposited \in U64  /\ q.total_withdrawn \in U64
      /\ q.total_lp_supply \in U64  /\ q.total_returned \in U64
      /\ q.realized_junior_loss \in U64 /\ q.junior_balance \in U64
      /\ q.junior_total_lp \in U64
  <2> HIDE DEF q
  <2> QED  BY <1>1 DEF Counters
<1>3. q = IF p.tranche_enabled /\ junior THEN RedeemJunior(paid, lp, payout) ELSE paid
  BY DEF Redeemed
<1>4. q.total_withdrawn = p.total_withdrawn + payout
      /\ q.total_lp_supply = p.total_lp_supply - lp
  BY <1>3 DEF RedeemJunior, Pool
<1>5. paid \in Pool
  <2>1. p.total_withdrawn + payout \in U64 /\ p.total_lp_supply - lp \in U64
    BY <1>2, <1>4
  <2> QED  BY <2>1 DEF Pool
<1>6. net_loss(p) \in U64 /\ net_loss(paid) = net_loss(p)
  BY TrancheTypes DEF net_loss
<1>7. signed_value(paid) = signed_value(p) - payout
  BY DEF signed_value, Pool, U64
<1>8. lp <= p.total_lp_supply
  <2> HIDE DEF q
  <2> QED  BY <1>2, <1>4 DEF Pool, U64
<1>9. CASE ~(p.tranche_enabled /\ junior)
  <2>1. q = paid
    BY <1>3, <1>9
  <2> HIDE DEF q
  <2>2. /\ paid.total_flushed = p.total_flushed
        /\ paid.total_returned = p.total_returned
        /\ paid.total_recovered_from_wrapper = p.total_recovered_from_wrapper
        /\ paid.realized_junior_loss = p.realized_junior_loss
        /\ paid.market_resolved = p.market_resolved
    OBVIOUS
  <2>3. p.total_returned \in Int /\ p.realized_junior_loss \in Int
    BY DEF Pool, U64
  <2> HIDE DEF paid
  <2> QED  BY <1>5, <1>6, <1>7, <1>8, <2>1, <2>2, <2>3 DEF U64, q
<1>10. CASE p.tranche_enabled /\ junior
  <2>1. q = RedeemJunior(paid, lp, payout)
    BY <1>3, <1>10
  <2>2. /\ paid.total_flushed = p.total_flushed
        /\ paid.total_returned = p.total_returned
        /\ paid.total_recovered_from_wrapper = p.total_recovered_from_wrapper
        /\ paid.realized_junior_loss = p.realized_junior_loss
        /\ paid.market_resolved = p.market_resolved
    OBVIOUS
  <2>3. Forfeited(paid) \in U64 /\ Forfeited(paid) <= net_loss(p)
    BY <1>5, <1>6, ForfeitBound
  <2> HIDE DEF paid, q
  <2>4. q \in Pool
    BY <1>2, <1>5, <2>1 DEF Pool, RedeemJunior
  <2>5. \E L \in 0 .. net_loss(p) :
           /\ q.total_returned = paid.total_returned + L
           /\ q.realized_junior_loss = paid.realized_junior_loss + L
    <3>1. CASE paid.junior_total_lp = lp
      BY <1>5, <1>6, <2>1, <2>3, <3>1 DEF RedeemJunior, Pool, U64
    <3>2. CASE paid.junior_total_lp # lp
      <4>1. q.total_returned = paid.total_returned + 0
            /\ q.realized_junior_loss = paid.realized_junior_loss + 0
        BY <1>5, <2>1, <3>2 DEF RedeemJunior, Pool, U64
      <4> QED  BY <1>6, <4>1 DEF U64
    <3> QED  BY <3>1, <3>2
  <2>6. /\ q.total_deposited = paid.total_deposited
        /\ q.total_withdrawn = paid.total_withdrawn
        /\ q.total_fees_earned = paid.total_fees_earned
        /\ q.total_flushed = paid.total_flushed
        /\ q.total_recovered_from_wrapper = paid.total_recovered_from_wrapper
        /\ q.market_resolved = paid.market_resolved
    BY <1>5, <2>1 DEF RedeemJunior, Pool
  <2>7. signed_value(q) = signed_value(paid)
    BY <1>5, <1>6, <2>5, <2>6 DEF signed_value, Pool, U64
  <2>8. p.total_returned \in Int /\ p.realized_junior_loss \in Int
    BY DEF Pool, U64
  <2>9. /\ q.realized_junior_loss - p.realized_junior_loss =
              q.total_returned - p.total_returned
        /\ q.realized_junior_loss >= p.realized_junior_loss
        /\ q.total_returned - p.total_returned <= net_loss(p)
    BY <1>6, <2>2, <2>5, <2>8 DEF U64
  <2> QED  BY <1>7, <1>8, <2>2, <2>4, <2>6, <2>7, <2>9 DEF q
<1> QED  BY <1>9, <1>10

----------------------------------------------------------------------------
(* The inductive invariant and the steps.                                  *)

(* Each part is preserved because of the others: the solvency of a step    *)
(* needs the types of the balances, the recovery bound needs               *)
(* admin_returned >= 0 to absorb a forfeited loss, and the stranding claim *)
(* needs that no flush follows a resolution.                               *)
LedgerInv ==
    /\ TypeOK
    /\ VaultSolvent
    /\ RecoveryBounded
    /\ NothingStranded

(* Steps that leave the insurance ledger alone keep what is said of it.    *)
LEMMA LedgerFrame ==
    ASSUME RecoveryBounded, NothingStranded,
           InsuranceKept(pool, pool'), market' = market
    PROVE  RecoveryBounded' /\ NothingStranded'
BY DEF RecoveryBounded, NothingStranded, InsuranceKept, admin_returned

(* What the pricing of a deposit or a withdrawal starts from.              *)
LEMMA PricedPool ==
    ASSUME TypeOK, VaultSolvent, AccrueOk(pool, vault)
    PROVE  LET priced == pre_accrue_fee_modes(pool, vault)
           IN  /\ priced \in Pool
               /\ InsuranceKept(pool, priced)
               /\ priced.total_lp_supply = pool.total_lp_supply
               /\ signed_value(priced) >= 0
               /\ signed_value(priced) <= vault
               /\ pool.total_lp_supply > 0 => signed_value(priced) = vault
<1>1. pool \in Pool /\ vault \in U64
  BY DEF TypeOK
<1>2. signed_value(pool) >= 0 /\ signed_value(pool) <= vault
  BY <1>1, SolventAt DEF VaultSolvent
<1>3. total_pool_value(pool) = signed_value(pool)
  BY <1>1, PoolValue DEF VaultSolvent
<1>4. signed_value(pool) \in Int
  BY <1>1, PoolValue
<1>5. ~HasSurplus(pool, vault) /\ pool.total_lp_supply > 0 => signed_value(pool) = vault
  BY <1>1, <1>2, <1>3, <1>4 DEF HasSurplus, U64
<1> QED  BY <1>1, <1>2, <1>5, AccrueEffect DEF pre_accrue_fee_modes, U64

(* The common end of the deposit handlers.                                 *)
LEMMA BookDepositStep ==
    ASSUME LedgerInv, NEW u \in Users, NEW amount \in Nat, NEW lp, NEW before,
           NEW after \in Pool, NEW junior \in BOOLEAN,
           InsuranceKept(pool, after),
           signed_value(after) >= 0, signed_value(after) <= vault + amount,
           vault + amount \in U64,
           BookDeposit(u, amount, lp, before, after, junior)
    PROVE  /\ LedgerInv'
           /\ InsuranceKept(pool, pool')
           /\ signed_value(pool') = signed_value(after)
<1> DEFINE minted == apply_minimum_liquidity_lock(before.total_lp_supply, lp)
<1> USE DEF LedgerInv
<1>1. vault' \in U64 /\ vault' = vault + amount /\ insurance' = insurance
      /\ market' = market /\ slot' = slot
  BY DEF BookDeposit
<1>2. lp_tokens' \in [Users -> U64]
  <2>1. lp_tokens[u] + minted \in U64 /\ lp_tokens' = [lp_tokens EXCEPT ![u] = @ + minted]
    BY DEF BookDeposit
  <2> HIDE DEF minted
  <2> QED  BY <2>1 DEF TypeOK
<1>3. deposits' \in [Users -> DepositRecord]
  <2>1. deposits[u].lp_amount + lp \in U64
    BY DEF BookDeposit
  <2>2. [is_initialized |-> TRUE, junior |-> junior, last_deposit_slot |-> slot,
         lp_amount |-> deposits[u].lp_amount + lp] \in DepositRecord
    BY <2>1 DEF DepositRecord, TypeOK
  <2>3. deposits' = [deposits EXCEPT ![u] =
            [is_initialized |-> TRUE, junior |-> junior, last_deposit_slot |-> slot,
             lp_amount |-> deposits[u].lp_amount + lp]]
    BY DEF BookDeposit
  <2> QED  BY <2>2, <2>3 DEF TypeOK
<1>4. /\ pool' \in Pool
      /\ InsuranceKept(pool, pool')
      /\ signed_value(pool') = signed_value(after)
  <2>1. pool' = MarkDeposit(after)
    BY DEF BookDeposit
  <2>2. CASE ~after.hwm_enabled
    BY <2>1, <2>2 DEF MarkDeposit
  <2>3. CASE after.hwm_enabled
    <3>1. total_pool_value(after) \in U64
      BY <2>3, PoolValue DEF BookDeposit
    <3>2. Epoch \in Nat
      BY EpochType DEF TypeOK
    <3>3. pool' = refresh_hwm(after, Epoch, total_pool_value(after))
      BY <2>1, <2>3 DEF MarkDeposit
    <3> QED  BY <3>1, <3>2, <3>3, RefreshEffect DEF InsuranceKept
  <2> QED  BY <2>2, <2>3
<1>5. TypeOK'
  BY <1>1, <1>2, <1>3, <1>4 DEF TypeOK
<1>6. VaultSolvent'
  BY <1>1, <1>4, SolventAt DEF VaultSolvent
<1> QED  BY <1>1, <1>4, <1>5, <1>6, LedgerFrame

(* Deposit keeps the invariant.                                            *)
LEMMA DepositStep ==
    ASSUME LedgerInv, NEW u \in Users, NEW amount \in Nat, Deposit(u, amount)
    PROVE  /\ LedgerInv'
           /\ InsuranceKept(pool, pool')
           /\ signed_value(pool') = signed_value(pre_accrue_fee_modes(pool, vault)) + amount
<1> DEFINE priced == pre_accrue_fee_modes(pool, vault)
           lp == SeniorShares(priced, amount)
           after == [priced EXCEPT !.total_deposited = @ + amount, !.total_lp_supply = @ + lp]
<1>1. AccrueOk(pool, vault) /\ vault + amount \in U64
      /\ BookDeposit(u, amount, lp, priced, after, FALSE)
  BY DEF Deposit, DepositOpen
<1>2. /\ priced \in Pool /\ InsuranceKept(pool, priced)
      /\ signed_value(priced) >= 0 /\ signed_value(priced) <= vault
  BY <1>1, PricedPool DEF LedgerInv
<1>3. \A c \in Counters : after[c] \in U64
  BY <1>1 DEF BookDeposit, Checked
<1>4. after.total_deposited \in U64 /\ after.total_lp_supply \in U64
  <2> HIDE DEF after
  <2> QED  BY <1>3 DEF Counters
<1>5. vault \in Int
  BY DEF LedgerInv, TypeOK, U64
<1> HIDE DEF lp, priced
<1>6. after \in Pool /\ InsuranceKept(pool, after)
  BY <1>2, <1>4 DEF Pool, InsuranceKept
<1>7. signed_value(after) = signed_value(priced) + amount /\ signed_value(priced) \in Int
  BY <1>2, PoolValue DEF signed_value, Pool, U64
<1>8. signed_value(after) >= 0 /\ signed_value(after) <= vault + amount
  <2> HIDE DEF after
  <2> QED  BY <1>2, <1>5, <1>7
<1> HIDE DEF after
<1>9. LedgerInv' /\ InsuranceKept(pool, pool') /\ signed_value(pool') = signed_value(after)
  BY <1>1, <1>6, <1>8, BookDepositStep
<1> QED  BY <1>7, <1>9 DEF priced

(* DepositJunior keeps the invariant.                                      *)
LEMMA DepositJuniorStep ==
    ASSUME LedgerInv, NEW u \in Users, NEW amount \in Nat, DepositJunior(u, amount)
    PROVE  /\ LedgerInv'
           /\ InsuranceKept(pool, pool')
           /\ signed_value(pool') = signed_value(pre_accrue_fee_modes(pool, vault)) + amount
<1> DEFINE priced == pre_accrue_fee_modes(pool, vault)
           lp == JuniorShares(priced, amount)
           after == [priced EXCEPT !.total_deposited = @ + amount, !.total_lp_supply = @ + lp,
                                   !.junior_total_lp = @ + lp, !.junior_balance = @ + amount]
<1>1. AccrueOk(pool, vault) /\ vault + amount \in U64
      /\ BookDeposit(u, amount, lp, priced, after, TRUE)
  BY DEF DepositJunior, DepositOpen
<1>2. /\ priced \in Pool /\ InsuranceKept(pool, priced)
      /\ signed_value(priced) >= 0 /\ signed_value(priced) <= vault
  BY <1>1, PricedPool DEF LedgerInv
<1>3. \A c \in Counters : after[c] \in U64
  BY <1>1 DEF BookDeposit, Checked
<1>4. /\ after.total_deposited \in U64 /\ after.total_lp_supply \in U64
      /\ after.junior_total_lp \in U64 /\ after.junior_balance \in U64
  <2> HIDE DEF after
  <2> QED  BY <1>3 DEF Counters
<1>5. vault \in Int
  BY DEF LedgerInv, TypeOK, U64
<1> HIDE DEF lp, priced
<1>6. after \in Pool /\ InsuranceKept(pool, after)
  BY <1>2, <1>4 DEF Pool, InsuranceKept
<1>7. signed_value(after) = signed_value(priced) + amount /\ signed_value(priced) \in Int
  BY <1>2, PoolValue DEF signed_value, Pool, U64
<1>8. signed_value(after) >= 0 /\ signed_value(after) <= vault + amount
  <2> HIDE DEF after
  <2> QED  BY <1>2, <1>5, <1>7
<1> HIDE DEF after
<1>9. LedgerInv' /\ InsuranceKept(pool, pool') /\ signed_value(pool') = signed_value(after)
  BY <1>1, <1>6, <1>8, BookDepositStep
<1> QED  BY <1>7, <1>9 DEF priced

(* Withdraw keeps the invariant: the token program's own check that the    *)
(* vault holds the payout makes it part of the pool value, because the     *)
(* accrual has just made the two equal.                                    *)
LEMMA WithdrawStep ==
    ASSUME LedgerInv, NEW u \in Users, NEW lp \in Nat, Withdraw(u, lp)
    PROVE  /\ LedgerInv'
           /\ InsuranceSettled(pool, pool')
           /\ signed_value(pre_accrue_fee_modes(pool, vault)) = vault
           /\ signed_value(pool') = vault'
           /\ vault' <= vault
<1> DEFINE priced == pre_accrue_fee_modes(pool, vault)
           junior == deposits[u].junior
           payout == Redemption(priced, junior, lp)
           wiped == WipedJuniorExit(priced, junior, payout)
           marked == MarkWithdraw(priced, wiped)
           after == Redeemed(marked, junior, lp, payout)
<1> USE DEF LedgerInv
<1>1. /\ WithdrawOpen(u, lp)
      /\ payout # None /\ payout <= vault
      /\ AboveFloor(priced, wiped, payout)
      /\ Checked(after)
      /\ pool' = after
      /\ vault' = vault - payout
      /\ lp_tokens' = [lp_tokens EXCEPT ![u] = @ - lp]
      /\ deposits' = [deposits EXCEPT ![u] = RecordAfterBurn(@, lp)]
      /\ insurance' = insurance /\ market' = market /\ slot' = slot
  BY DEF Withdraw
<1>2. /\ lp > 0 /\ lp <= deposits[u].lp_amount /\ lp <= lp_tokens[u]
      /\ AccrueOk(pool, vault)
  BY <1>1 DEF WithdrawOpen
<1>3. /\ priced \in Pool
      /\ InsuranceKept(pool, priced)
      /\ priced.total_lp_supply = pool.total_lp_supply
      /\ pool.total_lp_supply > 0 => signed_value(priced) = vault
  BY <1>2, PricedPool
<1>4. junior \in BOOLEAN /\ vault \in U64 /\ pool \in Pool
  BY DEF TypeOK, DepositRecord
<1> HIDE DEF priced, junior
<1>5. payout \in U64
  BY <1>1, <1>3, <1>4, RedemptionType
<1> HIDE DEF payout
<1>6. /\ marked \in Pool
      /\ InsuranceKept(priced, marked)
      /\ marked.total_lp_supply = priced.total_lp_supply
      /\ signed_value(marked) = signed_value(priced)
  <2>1. CASE ~(priced.hwm_enabled /\ ~wiped)
    <3>1. marked = priced
      BY <2>1 DEF MarkWithdraw
    <3> QED  BY <1>3, <3>1 DEF InsuranceKept
  <2>2. CASE priced.hwm_enabled /\ ~wiped
    <3>1. total_pool_value(priced) >= payout
      BY <1>1, <2>2 DEF AboveFloor
    <3>2. total_pool_value(priced) \in U64
      BY <1>3, <1>5, <3>1, PoolValue DEF None, U64
    <3>3. Epoch \in Nat
      BY EpochType DEF TypeOK
    <3>4. marked = refresh_hwm(priced, Epoch, total_pool_value(priced))
      BY <2>2 DEF MarkWithdraw
    <3> QED  BY <1>3, <3>2, <3>3, <3>4, RefreshEffect
  <2> QED  BY <2>1, <2>2
<1> HIDE DEF wiped, marked
<1>7. payout \in Nat
  BY <1>5 DEF U64
<1>8. /\ after \in Pool
      /\ lp <= marked.total_lp_supply
      /\ signed_value(after) = signed_value(marked) - payout
      /\ after.total_flushed = marked.total_flushed
      /\ after.market_resolved = marked.market_resolved
      /\ after.total_recovered_from_wrapper = marked.total_recovered_from_wrapper
      /\ after.realized_junior_loss - marked.realized_junior_loss =
            after.total_returned - marked.total_returned
      /\ after.realized_junior_loss >= marked.realized_junior_loss
      /\ after.total_returned - marked.total_returned <= net_loss(marked)
  BY <1>1, <1>4, <1>6, <1>7, RedeemEffect
<1> HIDE DEF after
<1>9. InsuranceKept(pool, marked)
  BY <1>3, <1>6 DEF InsuranceKept
<1>10. vault' \in U64
  BY <1>1, <1>4, <1>5, U64Assumption DEF U64
<1>11. lp_tokens' \in [Users -> U64]
  <2>1. lp_tokens[u] - lp \in U64
    BY <1>2, U64Assumption DEF TypeOK, U64
  <2> QED  BY <1>1, <2>1 DEF TypeOK
<1>12. deposits' \in [Users -> DepositRecord]
  <2>1. deposits[u] \in DepositRecord
    BY DEF TypeOK
  <2>2. deposits[u].lp_amount - lp \in U64 /\ 0 \in U64
    BY <1>2, <2>1, U64Assumption DEF DepositRecord, U64
  <2>3. RecordAfterBurn(deposits[u], lp) \in DepositRecord
    BY <2>1, <2>2 DEF RecordAfterBurn, DepositRecord
  <2> QED  BY <1>1, <2>3 DEF TypeOK
<1>13. TypeOK'
  BY <1>1, <1>8, <1>10, <1>11, <1>12 DEF TypeOK
<1>14. VaultSolvent'
  <2>1. pool.total_lp_supply > 0
    BY <1>2, <1>3, <1>4, <1>6, <1>8 DEF Pool, U64
  <2>2. signed_value(marked) = vault
    BY <1>3, <1>6, <2>1
  <2>3. signed_value(after) >= 0 /\ signed_value(after) <= vault - payout
    BY <1>1, <1>4, <1>5, <1>8, <2>2 DEF U64
  <2> QED  BY <1>1, <1>8, <1>10, <2>3, SolventAt DEF VaultSolvent
<1>15. RecoveryBounded'
  <2>1. net_loss(marked) = SatSub(pool.total_flushed, pool.total_returned)
    BY <1>9 DEF net_loss, InsuranceKept
  <2> QED  BY <1>1, <1>4, <1>8, <1>9, <2>1
        DEF RecoveryBounded, admin_returned, InsuranceKept, SatSub, Pool, U64
<1>16. NothingStranded'
  BY <1>1, <1>4, <1>8, <1>9 DEF NothingStranded, InsuranceKept, Pool, U64
<1>17. InsuranceSettled(pool, pool')
  BY <1>1, <1>4, <1>8, <1>9 DEF InsuranceSettled, InsuranceKept, Pool, U64
<1>18. signed_value(priced) = vault /\ signed_value(after) = vault - payout /\ vault - payout <= vault
  <2>1. pool.total_lp_supply > 0
    BY <1>2, <1>3, <1>4, <1>6, <1>8 DEF Pool, U64
  <2> QED  BY <1>3, <1>4, <1>5, <1>6, <1>8, <2>1 DEF U64
<1> QED  BY <1>1, <1>13, <1>14, <1>15, <1>16, <1>17, <1>18 DEF priced

(* AccrueFees keeps the invariant.                                         *)
LEMMA AccrueFeesStep ==
    ASSUME LedgerInv, AccrueFees
    PROVE  LedgerInv'
<1> USE DEF LedgerInv
<1>1. /\ pool' = pre_accrue_fee_modes(pool, vault)
      /\ AccrueOk(pool, vault)
      /\ UNCHANGED <<deposits, lp_tokens, vault, insurance, market, slot>>
  BY DEF AccrueFees, pre_accrue_fee_modes
<1>2. /\ pool' \in Pool /\ InsuranceKept(pool, pool')
      /\ signed_value(pool') >= 0 /\ signed_value(pool') <= vault
  BY <1>1, PricedPool
<1>3. TypeOK'
  BY <1>1, <1>2 DEF TypeOK
<1>4. VaultSolvent'
  BY <1>1, <1>2, <1>3, SolventAt DEF VaultSolvent, TypeOK
<1> QED  BY <1>1, <1>2, <1>3, <1>4, LedgerFrame

(* FlushToInsurance keeps the invariant: nothing is resolved yet.          *)
LEMMA FlushStep ==
    ASSUME LedgerInv, NEW amount \in Nat, FlushToInsurance(amount)
    PROVE  LedgerInv'
<1> DEFINE after == [pool EXCEPT !.total_flushed = @ + amount,
                                 !.epoch_high_water_tvl = SatSub(@, amount)]
<1> USE DEF LedgerInv
<1>1. /\ ~pool.market_resolved /\ market = "Live"
      /\ total_pool_value(pool) # None /\ amount <= total_pool_value(pool)
      /\ amount <= vault /\ insurance + amount \in U64
      /\ Checked(after) /\ pool' = after
      /\ vault' = vault - amount /\ insurance' = insurance + amount
      /\ UNCHANGED <<deposits, lp_tokens, market, slot>>
  BY DEF FlushToInsurance
<1>2. pool \in Pool /\ vault \in U64
  BY DEF TypeOK
<1>3. after.total_flushed \in U64
  BY <1>1 DEF Checked, Counters
<1>4. SatSub(pool.epoch_high_water_tvl, amount) \in U64
  BY <1>2, U64Assumption DEF SatSub, Pool, U64
<1>5. after \in Pool
  BY <1>2, <1>3, <1>4 DEF Pool
<1>6. signed_value(after) = signed_value(pool) - amount
  BY <1>2 DEF signed_value, Pool, U64
<1>7. /\ after.total_flushed = pool.total_flushed + amount
      /\ after.total_returned = pool.total_returned
      /\ after.total_recovered_from_wrapper = pool.total_recovered_from_wrapper
      /\ after.realized_junior_loss = pool.realized_junior_loss
      /\ after.market_resolved = pool.market_resolved
  BY <1>2 DEF Pool
<1> HIDE DEF after
<1>8. vault' \in U64
  BY <1>1, <1>2, U64Assumption DEF U64
<1>9. TypeOK'
  BY <1>1, <1>5, <1>8 DEF TypeOK
<1>10. VaultSolvent'
  <2>1. /\ total_pool_value(pool) = signed_value(pool) /\ signed_value(pool) \in U64
        /\ signed_value(pool) <= vault
    BY <1>1, <1>2, PoolValue DEF VaultSolvent
  <2>2. signed_value(after) >= 0 /\ signed_value(after) <= vault - amount
    BY <1>1, <1>2, <1>6, <2>1 DEF U64
  <2> QED  BY <1>1, <1>5, <1>8, <2>2, SolventAt DEF VaultSolvent
<1>11. RecoveryBounded'
  BY <1>1, <1>2, <1>7 DEF RecoveryBounded, admin_returned, Pool, U64
<1>12. NothingStranded'
  BY <1>1, <1>7 DEF NothingStranded
<1> QED  BY <1>9, <1>10, <1>11, <1>12

(* ReturnInsurance keeps the invariant.                                    *)
LEMMA ReturnStep ==
    ASSUME LedgerInv, NEW amount \in Nat, ReturnInsurance(amount)
    PROVE  LedgerInv'
<1> DEFINE after == [pool EXCEPT !.total_returned = @ + amount]
<1> USE DEF LedgerInv
<1>1. /\ vault + amount \in U64 /\ Checked(after)
      /\ pool' = after /\ vault' = vault + amount
      /\ UNCHANGED <<deposits, lp_tokens, insurance, market, slot>>
  BY DEF ReturnInsurance
<1>2. pool \in Pool /\ vault \in U64
  BY DEF TypeOK
<1>3. after.total_returned \in U64
  BY <1>1 DEF Checked, Counters
<1>4. after \in Pool
  BY <1>2, <1>3 DEF Pool
<1>5. signed_value(after) = signed_value(pool) + amount
  BY <1>2 DEF signed_value, Pool, U64
<1>6. /\ after.total_flushed = pool.total_flushed
      /\ after.total_returned = pool.total_returned + amount
      /\ after.total_recovered_from_wrapper = pool.total_recovered_from_wrapper
      /\ after.realized_junior_loss = pool.realized_junior_loss
      /\ after.market_resolved = pool.market_resolved
  BY <1>2 DEF Pool
<1> HIDE DEF after
<1>7. TypeOK'
  BY <1>1, <1>4 DEF TypeOK
<1>8. VaultSolvent'
  <2>1. signed_value(pool) \in Int /\ signed_value(pool) >= 0 /\ signed_value(pool) <= vault
    BY <1>2, SolventAt, PoolValue DEF VaultSolvent
  <2>2. signed_value(after) >= 0 /\ signed_value(after) <= vault + amount
    BY <1>2, <1>5, <2>1 DEF U64
  <2> QED  BY <1>1, <1>4, <2>2, SolventAt DEF VaultSolvent
<1>9. RecoveryBounded' /\ NothingStranded'
  BY <1>1, <1>2, <1>6 DEF RecoveryBounded, NothingStranded, admin_returned, Pool, U64
<1> QED  BY <1>7, <1>8, <1>9

(* RecoverFlushedInsurance keeps the invariant: its cap is the recovery    *)
(* bound.                                                                  *)
LEMMA RecoverStep ==
    ASSUME LedgerInv, NEW amount \in Nat, RecoverFlushedInsurance(amount)
    PROVE  LedgerInv'
<1> DEFINE after == [pool EXCEPT !.total_returned = @ + amount,
                                 !.total_recovered_from_wrapper = @ + amount]
<1> USE DEF LedgerInv
<1>1. /\ amount > 0 /\ amount <= wrapper_recoverable(pool)
      /\ amount <= insurance /\ vault + amount \in U64
      /\ Checked(after) /\ pool' = after
      /\ vault' = vault + amount /\ insurance' = insurance - amount
      /\ UNCHANGED <<deposits, lp_tokens, market, slot>>
  BY DEF RecoverFlushedInsurance, RecoveryOpen, Recovered
<1>2. pool \in Pool /\ vault \in U64 /\ insurance \in U64
  BY DEF TypeOK
<1>3. after.total_returned \in U64 /\ after.total_recovered_from_wrapper \in U64
  <2>1. \A c \in Counters : after[c] \in U64
    BY <1>1 DEF Checked
  <2> HIDE DEF after
  <2> QED  BY <2>1 DEF Counters
<1>4. after \in Pool
  BY <1>2, <1>3 DEF Pool
<1>5. signed_value(after) = signed_value(pool) + amount
  BY <1>2 DEF signed_value, Pool, U64
<1>6. /\ after.total_flushed = pool.total_flushed
      /\ after.total_returned = pool.total_returned + amount
      /\ after.total_recovered_from_wrapper = pool.total_recovered_from_wrapper + amount
      /\ after.realized_junior_loss = pool.realized_junior_loss
      /\ after.market_resolved = pool.market_resolved
  BY <1>2 DEF Pool
<1> HIDE DEF after
<1>7. TypeOK'
  <2>1. insurance' \in U64
    BY <1>1, <1>2, U64Assumption DEF U64
  <2> QED  BY <1>1, <1>4, <2>1 DEF TypeOK
<1>8. VaultSolvent'
  <2>1. signed_value(pool) \in Int /\ signed_value(pool) >= 0 /\ signed_value(pool) <= vault
    BY <1>2, SolventAt, PoolValue DEF VaultSolvent
  <2>2. signed_value(after) >= 0 /\ signed_value(after) <= vault + amount
    BY <1>2, <1>5, <2>1 DEF U64
  <2> QED  BY <1>1, <1>4, <2>2, SolventAt DEF VaultSolvent
<1>9. RecoveryBounded'
  BY <1>1, <1>2, <1>6
    DEF RecoveryBounded, admin_returned, wrapper_recoverable, SatSub, Pool, U64
<1>10. NothingStranded'
  BY <1>1, <1>2, <1>6 DEF NothingStranded, Pool, U64
<1> QED  BY <1>7, <1>8, <1>9, <1>10

(* A step that writes only configuration of the pool, or nothing of it.    *)
LEMMA ConfigFrame ==
    ASSUME LedgerInv, pool' \in Pool, InsuranceKept(pool, pool'), market' = market,
           signed_value(pool') = signed_value(pool),
           vault' \in U64, vault' >= vault,
           deposits' \in [Users -> DepositRecord], lp_tokens' \in [Users -> U64],
           insurance' \in U64, slot' \in U64
    PROVE  LedgerInv'
<1> USE DEF LedgerInv
<1>1. TypeOK'
  BY DEF TypeOK
<1>2. pool \in Pool /\ vault \in U64
  BY DEF TypeOK
<1>3. /\ signed_value(pool) \in Int
      /\ signed_value(pool) >= 0 /\ signed_value(pool) <= vault
  BY <1>2, SolventAt, PoolValue DEF VaultSolvent
<1>4. VaultSolvent'
  BY <1>2, <1>3, SolventAt DEF VaultSolvent, U64
<1> QED  BY <1>1, <1>4, LedgerFrame

(* Both resolutions keep the invariant: the gate is what it needs.         *)
LEMMA ResolveStep ==
    ASSUME LedgerInv, SetMarketResolved \/ AdminResolveMarket
    PROVE  LedgerInv'
<1> USE DEF LedgerInv
<1>1. pool \in Pool
  BY DEF TypeOK
<1>2. pool.total_recovered_from_wrapper + pool.realized_junior_loss >= pool.total_flushed
  BY <1>1 DEF SetMarketResolved, AdminResolveMarket, wrapper_fully_recovered,
              wrapper_recoverable, SatSub, Pool, U64
<1>3. CASE SetMarketResolved
  <2>1. /\ pool' \in Pool
        /\ signed_value(pool') = signed_value(pool)
        /\ pool'.total_flushed = pool.total_flushed
        /\ pool'.total_returned = pool.total_returned
        /\ pool'.total_recovered_from_wrapper = pool.total_recovered_from_wrapper
        /\ pool'.realized_junior_loss = pool.realized_junior_loss
        /\ UNCHANGED <<deposits, lp_tokens, vault, insurance, market, slot>>
    BY <1>1, <1>3 DEF SetMarketResolved, Pool, signed_value
  <2>2. TypeOK'
    BY <2>1 DEF TypeOK
  <2>3. VaultSolvent'
    BY <2>1 DEF VaultSolvent, total_pool_value
  <2> QED  BY <1>2, <2>1, <2>2, <2>3 DEF RecoveryBounded, NothingStranded, admin_returned
<1>4. CASE AdminResolveMarket
  <2>1. pool' = pool /\ vault' = vault /\ market' = "Resolved"
        /\ UNCHANGED <<deposits, lp_tokens, insurance, slot>>
    BY <1>4 DEF AdminResolveMarket
  <2>2. TypeOK'
    BY <2>1 DEF TypeOK
  <2> QED  BY <1>2, <2>1, <2>2 DEF VaultSolvent, RecoveryBounded, NothingStranded
<1> QED  BY <1>3, <1>4

(* The arguments of the instructions are natural numbers.                  *)
LEMMA ArgsNat ==
    ASSUME NEW n \in ArgNames
    PROVE  Args[n] \subseteq Nat
BY ProgramAssumption

(* The configuration instructions and the cooldown timelock keep the       *)
(* invariant.                                                              *)
LEMMA ConfigStep ==
    ASSUME LedgerInv,
           \/ \E m \in Args["tranche"] : AdminSetTrancheConfig(m)
           \/ \E e \in BOOLEAN, b \in Args["hwm"] : AdminSetHwmConfig(e, b)
           \/ \E c \in Args["cooldown"] \cup {None}, k \in (Args["cap"] \cap U64) \cup {None} :
                 UpdateConfig(c, k)
           \/ \E c \in Args["propose"] : ProposeCooldownIncrease(c)
           \/ CommitCooldownIncrease
           \/ CancelCooldownIncrease
    PROVE  LedgerInv'
<1>1. pool \in Pool
  BY DEF LedgerInv, TypeOK
<1>2. /\ pool' \in Pool /\ InsuranceKept(pool, pool')
      /\ signed_value(pool') = signed_value(pool)
      /\ UNCHANGED <<deposits, lp_tokens, vault, insurance, market, slot>>
  <2>1. ASSUME NEW m \in Args["tranche"], AdminSetTrancheConfig(m)
        PROVE  <1>2!:
    <3>1. m \in Nat
      BY ArgsNat DEF ArgNames
    <3>2. /\ pool' = [pool EXCEPT !.tranche_enabled = TRUE, !.junior_fee_mult_bps = m]
          /\ UNCHANGED <<deposits, lp_tokens, vault, insurance, market, slot>>
      BY <2>1 DEF AdminSetTrancheConfig
    <3>3. pool' \in Pool
      BY <1>1, <3>1, <3>2 DEF Pool
    <3> QED  BY <1>1, <3>2, <3>3 DEF Pool, InsuranceKept, signed_value
  <2>2. ASSUME NEW e \in BOOLEAN, NEW b \in Args["hwm"], AdminSetHwmConfig(e, b)
        PROVE  <1>2!:
    <3>1. b \in Nat
      BY ArgsNat DEF ArgNames
    <3> QED  BY <1>1, <2>2, <3>1 DEF AdminSetHwmConfig, Pool, InsuranceKept, signed_value
  <2>3. ASSUME NEW c \in Args["cooldown"] \cup {None},
               NEW k \in (Args["cap"] \cap U64) \cup {None}, UpdateConfig(c, k)
        PROVE  <1>2!:
    <3>1. c # None => c \in U64
      <4>1. MAX_COOLDOWN_SLOTS \in 1 .. U64_MAX
        BY ProgramAssumption
      <4>2. c # None => c \in 1 .. MAX_COOLDOWN_SLOTS
        BY <2>3 DEF UpdateConfig, ImmediateCooldown, validate_cooldown_slots
      <4> QED  BY <4>1, <4>2, U64Assumption DEF U64
    <3>2. k # None => k \in U64
      OBVIOUS
    <3> QED  BY <1>1, <2>3, <3>1, <3>2 DEF UpdateConfig, Pool, InsuranceKept, signed_value
  <2>4. ASSUME NEW c \in Args["propose"], ProposeCooldownIncrease(c)
        PROVE  <1>2!:
    <3>1. c \in U64
      <4>1. MAX_COOLDOWN_SLOTS \in 1 .. U64_MAX
        BY ProgramAssumption
      <4>2. c \in 1 .. MAX_COOLDOWN_SLOTS
        BY <2>4 DEF ProposeCooldownIncrease, validate_cooldown_slots
      <4> QED  BY <4>1, <4>2, U64Assumption DEF U64
    <3>2. slot \in U64
      BY DEF LedgerInv, TypeOK
    <3> QED  BY <1>1, <2>4, <3>1, <3>2
                DEF ProposeCooldownIncrease, ProposalTimer, Pool, InsuranceKept, signed_value
  <2>5. ASSUME CommitCooldownIncrease \/ CancelCooldownIncrease
        PROVE  <1>2!:
    <3>1. 0 \in U64
      BY U64Assumption DEF U64
    <3>2. /\ \/ pool' = [pool EXCEPT !.cooldown_slots = pool.pending_cooldown_slots,
                                     !.pending_cooldown_slots = 0,
                                     !.cooldown_proposed_at_slot = 0]
             \/ pool' = [pool EXCEPT !.pending_cooldown_slots = 0,
                                     !.cooldown_proposed_at_slot = 0]
          /\ UNCHANGED <<deposits, lp_tokens, vault, insurance, market, slot>>
      BY <2>5 DEF CommitCooldownIncrease, CancelCooldownIncrease
    <3>3. [pool EXCEPT !.cooldown_slots = pool.pending_cooldown_slots,
                       !.pending_cooldown_slots = 0,
                       !.cooldown_proposed_at_slot = 0] \in Pool
      BY <1>1, <3>1 DEF Pool
    <3>4. [pool EXCEPT !.pending_cooldown_slots = 0,
                       !.cooldown_proposed_at_slot = 0] \in Pool
      BY <1>1, <3>1 DEF Pool
    <3> QED  BY <1>1, <3>2, <3>3, <3>4, ZenonT(40) DEF Pool, InsuranceKept, signed_value
  <2> QED  BY <2>1, <2>2, <2>3, <2>4, <2>5
<1>3. /\ vault \in U64 /\ deposits \in [Users -> DepositRecord]
      /\ lp_tokens \in [Users -> U64] /\ insurance \in U64 /\ slot \in U64
      /\ vault >= vault
  BY DEF LedgerInv, TypeOK, U64
<1> QED  BY <1>2, <1>3, ConfigFrame

(* The environment's steps keep the invariant: tokens pushed into the      *)
(* vault only widen its margin.                                            *)
LEMMA EnvironmentStep ==
    ASSUME LedgerInv,
           \/ \E a \in Args["fees"] : PushFees(a)
           \/ \E a \in Args["consume"] : ConsumeInsurance(a)
           \/ \E u, v \in Users, n \in Args["lp_transfer"] : TransferLp(u, v, n)
           \/ Tick
    PROVE  LedgerInv'
<1>1. /\ pool \in Pool /\ vault \in U64 /\ deposits \in [Users -> DepositRecord]
      /\ lp_tokens \in [Users -> U64] /\ insurance \in U64 /\ slot \in U64
      /\ InsuranceKept(pool, pool)
  BY DEF LedgerInv, TypeOK, InsuranceKept
<1>2. ASSUME NEW a \in Args["fees"], PushFees(a)
      PROVE  LedgerInv'
  <2>1. a \in Nat
    BY ArgsNat DEF ArgNames
  <2>2. vault' \in U64 /\ vault' >= vault
        /\ UNCHANGED <<pool, deposits, lp_tokens, insurance, market, slot>>
    BY <1>1, <1>2, <2>1 DEF PushFees, U64
  <2> QED  BY <1>1, <2>2, ConfigFrame
<1>3. ASSUME NEW a \in Args["consume"], ConsumeInsurance(a)
      PROVE  LedgerInv'
  <2>1. a \in Nat
    BY ArgsNat DEF ArgNames
  <2>2. insurance' \in U64 /\ vault >= vault
        /\ UNCHANGED <<pool, deposits, lp_tokens, vault, market, slot>>
    BY <1>1, <1>3, <2>1, U64Assumption DEF ConsumeInsurance, U64
  <2> QED  BY <1>1, <2>2, ConfigFrame
<1>4. ASSUME NEW u \in Users, NEW v \in Users, NEW n \in Args["lp_transfer"],
             TransferLp(u, v, n)
      PROVE  LedgerInv'
  <2>1. n \in Nat
    BY ArgsNat DEF ArgNames
  <2>2. lp_tokens[u] - n \in U64 /\ lp_tokens[v] + n \in U64 /\ u # v
    BY <1>1, <1>4, <2>1, U64Assumption DEF TransferLp, U64
  <2>3. lp_tokens' = [lp_tokens EXCEPT ![u] = @ - n, ![v] = @ + n]
        /\ UNCHANGED <<pool, deposits, vault, insurance, market, slot>>
    BY <1>4 DEF TransferLp
  <2>4. lp_tokens' \in [Users -> U64]
    BY <1>1, <2>2, <2>3
  <2>5. vault >= vault
    BY <1>1 DEF U64
  <2> QED  BY <1>1, <2>3, <2>4, <2>5, ConfigFrame
<1>5. ASSUME Tick PROVE LedgerInv'
  <2>1. MAX_SLOT \in U64
    BY ProgramAssumption
  <2>2. slot' \in U64 /\ vault >= vault
        /\ UNCHANGED <<pool, deposits, lp_tokens, vault, insurance, market>>
    BY <1>1, <1>5, <2>1, U64Assumption DEF Tick, U64
  <2> QED  BY <1>1, <2>2, ConfigFrame
<1> QED  BY <1>2, <1>3, <1>4, <1>5

(* The fresh pool satisfies the invariant.                                 *)
LEMMA LedgerInit == Init => LedgerInv
<1> SUFFICES ASSUME Init PROVE LedgerInv
  OBVIOUS
<1>1. PICK mode \in PoolModes, cooldown \in InitCooldowns, cap \in InitCaps :
         /\ validate_cooldown_slots(cooldown)
         /\ pool = FreshPool(mode, cooldown, cap)
  BY DEF Init
<1>2. mode \in {0, 1} /\ cap \in U64 /\ MAX_COOLDOWN_SLOTS \in 1 .. U64_MAX
  BY ProgramAssumption
<1>3. cooldown \in U64 /\ 0 \in U64 /\ 1 \in U64
  BY <1>1, <1>2, U64Assumption DEF validate_cooldown_slots, U64
<1>4. pool \in Pool
  BY <1>1, <1>2, <1>3 DEF FreshPool, Pool
<1>5. TypeOK
  BY <1>3, <1>4 DEF Init, TypeOK, NoDeposit, DepositRecord
<1>6. signed_value(pool) = 0
  BY <1>1 DEF FreshPool, signed_value
<1>7. VaultSolvent
  BY <1>3, <1>4, <1>6, SolventAt DEF VaultSolvent, Init
<1>8. RecoveryBounded /\ NothingStranded
  BY <1>1 DEF RecoveryBounded, NothingStranded, admin_returned, FreshPool, Init
<1> QED  BY <1>5, <1>7, <1>8 DEF LedgerInv

(* Every step of the program or its environment keeps the invariant.       *)
LEMMA LedgerNext == LedgerInv /\ [Next]_vars => LedgerInv'
<1> SUFFICES ASSUME LedgerInv, [Next]_vars PROVE LedgerInv'
  OBVIOUS
<1>1. CASE UNCHANGED vars
  BY <1>1 DEF vars, LedgerInv, TypeOK, VaultSolvent, RecoveryBounded, NothingStranded
<1>2. \A n \in ArgNames : Args[n] \subseteq Nat
  BY ArgsNat
<1>3. ASSUME NEW u \in Users, NEW a \in Args["deposit"], Deposit(u, a) PROVE LedgerInv'
  BY <1>2, <1>3, DepositStep DEF ArgNames
<1>4. ASSUME NEW u \in Users, NEW a \in Args["deposit_junior"], DepositJunior(u, a)
      PROVE  LedgerInv'
  BY <1>2, <1>4, DepositJuniorStep DEF ArgNames
<1>5. ASSUME NEW u \in Users, NEW l \in Args["withdraw"], Withdraw(u, l) PROVE LedgerInv'
  BY <1>2, <1>5, WithdrawStep DEF ArgNames
<1>6. ASSUME NEW a \in Args["flush"], FlushToInsurance(a) PROVE LedgerInv'
  BY <1>2, <1>6, FlushStep DEF ArgNames
<1>7. ASSUME NEW a \in Args["return"], ReturnInsurance(a) PROVE LedgerInv'
  BY <1>2, <1>7, ReturnStep DEF ArgNames
<1>8. ASSUME NEW a \in Args["recover"], RecoverFlushedInsurance(a) PROVE LedgerInv'
  BY <1>2, <1>8, RecoverStep DEF ArgNames
<1> QED  BY <1>1, <1>3, <1>4, <1>5, <1>6, <1>7, <1>8,
            AccrueFeesStep, ResolveStep, ConfigStep, EnvironmentStep DEF Next

(* LedgerInv is an invariant of the program.                               *)
THEOREM LedgerInvariance == Spec => []LedgerInv
BY LedgerInit, LedgerNext, PTL DEF Spec

(* Type correctness: every counter the handlers update with checked        *)
(* arithmetic stays a u64, for every width and every set of users.         *)
THEOREM TypeCorrect == Spec => []TypeOK
<1>1. LedgerInv => TypeOK
  BY DEF LedgerInv
<1> QED  BY <1>1, LedgerInvariance, PTL

(* The vault always covers the pool value every handler prices with.       *)
THEOREM Solvency == Spec => []VaultSolvent
<1>1. LedgerInv => VaultSolvent
  BY DEF LedgerInv
<1> QED  BY <1>1, LedgerInvariance, PTL

(* RecoverFlushedInsurance never takes out of the wrapper more than was    *)
(* flushed into it less what exited juniors forfeited.                     *)
THEOREM RecoveryNeverExceedsFlush == Spec => []RecoveryBounded
<1>1. LedgerInv => RecoveryBounded
  BY DEF LedgerInv
<1> QED  BY <1>1, LedgerInvariance, PTL

(* Once the market is resolved by either path, the pool has no claim left  *)
(* in the wrapper and never gets one again.                                *)
THEOREM ResolutionStrandsNothing == Spec => []NothingStranded
<1>1. LedgerInv => NothingStranded
  BY DEF LedgerInv
<1> QED  BY <1>1, LedgerInvariance, PTL

----------------------------------------------------------------------------
(* Refinement.  LedgerInv makes the mapping meaningful: the value is a     *)
(* number within the vault, and the two saturating subtractions of         *)
(* wrapper_recoverable never saturate.                                     *)

(* What the abstract variables are in a state of the program.              *)
LEMMA LentAt ==
    ASSUME NEW p \in Pool,
           p.total_recovered_from_wrapper + p.realized_junior_loss <= p.total_flushed
    PROVE  /\ wrapper_recoverable(p) =
                 (p.total_flushed - p.realized_junior_loss) - p.total_recovered_from_wrapper
           /\ wrapper_recoverable(p) \in Nat
BY DEF wrapper_recoverable, SatSub, Pool, U64

(* The state functions of the escrow, read off a state of LedgerInv.       *)
LEMMA Mapping ==
    ASSUME LedgerInv
    PROVE  /\ pool \in Pool /\ vault \in Nat
           /\ total_pool_value(pool) = signed_value(pool)
           /\ signed_value(pool) \in Nat /\ signed_value(pool) <= vault
           /\ wrapper_recoverable(pool) = (pool.total_flushed - pool.realized_junior_loss)
                                              - pool.total_recovered_from_wrapper
           /\ wrapper_recoverable(pool) \in Nat
<1>1. pool \in Pool /\ vault \in U64
  BY DEF LedgerInv, TypeOK
<1>2. total_pool_value(pool) # None /\ vault >= total_pool_value(pool)
  BY DEF LedgerInv, VaultSolvent
<1> QED  BY <1>1, <1>2, PoolValue, LentAt DEF LedgerInv, RecoveryBounded, U64

(* The same in the next state.                                             *)
LEMMA MappingNext ==
    ASSUME LedgerInv'
    PROVE  /\ pool' \in Pool /\ vault' \in Nat
           /\ total_pool_value(pool') = signed_value(pool')
           /\ signed_value(pool') \in Nat /\ signed_value(pool') <= vault'
           /\ wrapper_recoverable(pool') = (pool'.total_flushed - pool'.realized_junior_loss)
                                               - pool'.total_recovered_from_wrapper
           /\ wrapper_recoverable(pool') \in Nat
<1>1. pool' \in Pool /\ vault' \in U64
  BY DEF LedgerInv, TypeOK
<1>2. total_pool_value(pool') # None /\ vault' >= total_pool_value(pool')
  BY DEF LedgerInv, VaultSolvent
<1> QED  BY <1>1, <1>2, PoolValue, LentAt DEF LedgerInv, RecoveryBounded, U64

(* Steps that touch neither the insurance ledger nor the market leave what *)
(* is lent and the closing alone.                                          *)
LEMMA InsuranceFrame ==
    ASSUME InsuranceKept(pool, pool'), market' = market
    PROVE  wrapper_recoverable(pool') = wrapper_recoverable(pool) /\ Closed' = Closed
BY DEF InsuranceKept, wrapper_recoverable, Closed

(* Pricing books all of what nobody has claimed, or none of it.            *)
LEMMA PricedValue ==
    ASSUME LedgerInv, AccrueOk(pool, vault)
    PROVE  signed_value(pre_accrue_fee_modes(pool, vault)) \in {signed_value(pool), vault}
BY AccrueEffect DEF pre_accrue_fee_modes, LedgerInv, TypeOK

----------------------------------------------------------------------------
(* Each handler is an operation of the escrow.                             *)

(* Tokens come in and are booked, with the fees that were waiting.         *)
LEMMA DepositsPayIn ==
    ASSUME LedgerInv, NEW u \in Users, NEW amount \in Nat,
           Deposit(u, amount) \/ DepositJunior(u, amount)
    PROVE  Vault!PayIn
<1> DEFINE priced == pre_accrue_fee_modes(pool, vault)
<1>1. /\ amount > 0 /\ AccrueOk(pool, vault)
      /\ vault' = vault + amount /\ market' = market
  BY DEF Deposit, DepositJunior, DepositOpen, BookDeposit
<1>2. /\ LedgerInv' /\ InsuranceKept(pool, pool')
      /\ signed_value(pool') = signed_value(priced) + amount
  BY DepositStep, DepositJuniorStep
<1>3. signed_value(priced) \in {signed_value(pool), vault}
  BY <1>1, PricedValue
<1> HIDE DEF priced
<1>4. \E fee \in {0, vault - signed_value(pool)} :
         signed_value(pool') = signed_value(pool) + fee + (vault' - vault)
  BY <1>1, <1>2, <1>3, Mapping
<1>5. vault' > vault
  BY <1>1, Mapping
<1> QED  BY <1>1, <1>2, <1>4, <1>5, Mapping, MappingNext, InsuranceFrame
           DEF Vault!PayIn, Vault!Unclaimed

(* An exit books the fees first and leaves no more value than tokens.      *)
LEMMA WithdrawPaysOut ==
    ASSUME LedgerInv, NEW u \in Users, NEW lp \in Nat, Withdraw(u, lp)
    PROVE  Vault!PayOut
<1>1. /\ LedgerInv' /\ InsuranceSettled(pool, pool')
      /\ signed_value(pool') = vault' /\ vault' <= vault
  BY WithdrawStep
<1>2. market' = market
  BY DEF Withdraw
<1>3. Closed' = Closed
  BY <1>1, <1>2 DEF InsuranceSettled, Closed
<1>4. wrapper_recoverable(pool') <= wrapper_recoverable(pool)
  BY <1>1, Mapping, MappingNext DEF InsuranceSettled, Pool, U64
<1>5. \E fee \in {0, vault - signed_value(pool)} :
         /\ vault - vault' <= signed_value(pool) + fee
         /\ signed_value(pool') = signed_value(pool) + fee - (vault - vault')
  <2>1. /\ vault - vault' <= signed_value(pool) + (vault - signed_value(pool))
        /\ signed_value(pool') = signed_value(pool) + (vault - signed_value(pool)) - (vault - vault')
    BY <1>1, Mapping, MappingNext
  <2> QED  BY <2>1
<1> QED  BY <1>1, <1>3, <1>4, <1>5, Mapping, MappingNext DEF Vault!PayOut, Vault!Unclaimed

(* Booking the pending fees is a payment of nothing.                       *)
LEMMA AccrueFeesPaysNothing ==
    ASSUME LedgerInv, AccrueFees
    PROVE  Vault!PayOut
<1>1. /\ AccrueOk(pool, vault) /\ pool' = pre_accrue_fee_modes(pool, vault)
      /\ vault' = vault /\ market' = market
  BY DEF AccrueFees, pre_accrue_fee_modes
<1>2. LedgerInv' /\ InsuranceKept(pool, pool')
  BY <1>1, AccrueFeesStep, PricedPool DEF LedgerInv
<1>3. signed_value(pool') \in {signed_value(pool), vault}
  BY <1>1, PricedValue
<1>4. \E fee \in {0, vault - signed_value(pool)} :
         /\ vault - vault' <= signed_value(pool) + fee
         /\ signed_value(pool') = signed_value(pool) + fee - (vault - vault')
  BY <1>1, <1>3, Mapping
<1>5. vault' <= vault
  BY <1>1, Mapping
<1> QED  BY <1>1, <1>2, <1>4, <1>5, Mapping, MappingNext, InsuranceFrame
           DEF Vault!PayOut, Vault!Unclaimed

(* A flush takes the same amount from the vault and from the value.        *)
LEMMA FlushLends ==
    ASSUME LedgerInv, NEW amount \in Nat, FlushToInsurance(amount)
    PROVE  Vault!Lend
<1>1. /\ amount > 0 /\ ~pool.market_resolved /\ market = "Live" /\ market' = market
      /\ amount <= total_pool_value(pool)
      /\ pool' = [pool EXCEPT !.total_flushed = @ + amount,
                              !.epoch_high_water_tvl = SatSub(@, amount)]
      /\ vault' = vault - amount
  BY DEF FlushToInsurance
<1>2. LedgerInv'
  BY FlushStep
<1>3. /\ pool'.total_flushed = pool.total_flushed + amount
      /\ pool'.realized_junior_loss = pool.realized_junior_loss
      /\ pool'.total_recovered_from_wrapper = pool.total_recovered_from_wrapper
      /\ pool'.market_resolved = pool.market_resolved
      /\ signed_value(pool') = signed_value(pool) - amount
  BY <1>1, Mapping DEF signed_value, Pool, U64
<1>4. ~Closed /\ Closed' = Closed
  BY <1>1, <1>3 DEF Closed
<1>5. wrapper_recoverable(pool') = wrapper_recoverable(pool) + amount
  BY <1>2, <1>3, Mapping, MappingNext DEF Pool, U64
<1> QED  BY <1>1, <1>2, <1>3, <1>4, <1>5, Mapping, MappingNext DEF Vault!Lend

(* Out of the admin's pocket or out of the wrapper, tokens come back only  *)
(* against what is lent.                                                   *)
LEMMA ReturnRepays ==
    ASSUME LedgerInv, NEW amount \in Nat, ReturnInsurance(amount)
    PROVE  Vault!Repay
<1>1. /\ amount > 0 /\ amount <= net_loss(pool) /\ market' = market
      /\ pool' = [pool EXCEPT !.total_returned = @ + amount]
      /\ vault' = vault + amount
  BY DEF ReturnInsurance
<1>2. LedgerInv'
  BY ReturnStep
<1>3. /\ pool'.total_flushed = pool.total_flushed
      /\ pool'.realized_junior_loss = pool.realized_junior_loss
      /\ pool'.total_recovered_from_wrapper = pool.total_recovered_from_wrapper
      /\ pool'.market_resolved = pool.market_resolved
      /\ signed_value(pool') = signed_value(pool) + amount
  BY <1>1, Mapping DEF signed_value, Pool, U64
<1>4. Closed' = Closed
  BY <1>1, <1>3 DEF Closed
<1>5. wrapper_recoverable(pool') = wrapper_recoverable(pool)
  BY <1>2, <1>3, Mapping, MappingNext DEF Pool, U64
<1>6. amount <= wrapper_recoverable(pool)
  BY <1>1, Mapping DEF LedgerInv, RecoveryBounded, admin_returned, net_loss, SatSub, Pool, U64
<1> QED  BY <1>1, <1>2, <1>3, <1>4, <1>5, <1>6, Mapping, MappingNext DEF Vault!Repay

(* A recovery brings back at most what is still lent.                      *)
LEMMA RecoverRepays ==
    ASSUME LedgerInv, NEW amount \in Nat, RecoverFlushedInsurance(amount)
    PROVE  Vault!Repay
<1>1. /\ amount > 0 /\ amount <= wrapper_recoverable(pool) /\ market' = market
      /\ pool' = [pool EXCEPT !.total_returned = @ + amount,
                              !.total_recovered_from_wrapper = @ + amount]
      /\ vault' = vault + amount
  BY DEF RecoverFlushedInsurance, RecoveryOpen, Recovered
<1>2. LedgerInv'
  BY RecoverStep
<1>3. /\ pool'.total_flushed = pool.total_flushed
      /\ pool'.realized_junior_loss = pool.realized_junior_loss
      /\ pool'.total_recovered_from_wrapper = pool.total_recovered_from_wrapper + amount
      /\ pool'.market_resolved = pool.market_resolved
      /\ signed_value(pool') = signed_value(pool) + amount
  BY <1>1, Mapping DEF signed_value, Pool, U64
<1>4. Closed' = Closed
  BY <1>1, <1>3 DEF Closed
<1>5. wrapper_recoverable(pool') = wrapper_recoverable(pool) - amount
  BY <1>2, <1>3, Mapping, MappingNext DEF Pool, U64
<1> QED  BY <1>1, <1>2, <1>3, <1>4, <1>5, Mapping, MappingNext DEF Vault!Repay

(* The two gates close the escrow only with nothing lent.                  *)
LEMMA ResolutionCloses ==
    ASSUME LedgerInv, SetMarketResolved \/ AdminResolveMarket
    PROVE  Vault!Close
<1>1. wrapper_recoverable(pool) = 0 /\ vault' = vault
  BY DEF SetMarketResolved, AdminResolveMarket, wrapper_fully_recovered
<1>2. /\ pool'.total_flushed = pool.total_flushed
      /\ pool'.realized_junior_loss = pool.realized_junior_loss
      /\ pool'.total_recovered_from_wrapper = pool.total_recovered_from_wrapper
      /\ signed_value(pool') = signed_value(pool)
      /\ pool'.market_resolved \/ market' = "Resolved"
  BY Mapping DEF SetMarketResolved, AdminResolveMarket, signed_value, Pool
<1>3. total_pool_value(pool') = total_pool_value(pool)
      /\ wrapper_recoverable(pool') = wrapper_recoverable(pool)
  BY <1>2 DEF total_pool_value, wrapper_recoverable
<1>4. Closed' = TRUE
  BY <1>2, Mapping DEF Closed, SetMarketResolved, AdminResolveMarket, Pool
<1> QED  BY <1>1, <1>3, <1>4 DEF Vault!Close

(* A fee push is held and not yet booked.                                  *)
LEMMA PushReceives ==
    ASSUME LedgerInv, NEW amount \in Nat, PushFees(amount)
    PROVE  Vault!Receive
<1>1. vault' > vault /\ pool' = pool /\ market' = market
  BY Mapping DEF PushFees
<1> QED  BY <1>1 DEF Vault!Receive, Closed

(* Configuration, the clock, share transfers and the market's own use of   *)
(* its fund leave the escrow alone.                                        *)
LEMMA OthersStutter ==
    ASSUME LedgerInv,
           \/ \E m \in Args["tranche"] : AdminSetTrancheConfig(m)
           \/ \E e \in BOOLEAN, b \in Args["hwm"] : AdminSetHwmConfig(e, b)
           \/ \E c \in Args["cooldown"] \cup {None}, k \in (Args["cap"] \cap U64) \cup {None} :
                 UpdateConfig(c, k)
           \/ \E c \in Args["propose"] : ProposeCooldownIncrease(c)
           \/ CommitCooldownIncrease
           \/ CancelCooldownIncrease
           \/ \E a \in Args["consume"] : ConsumeInsurance(a)
           \/ \E u, v \in Users, n \in Args["lp_transfer"] : TransferLp(u, v, n)
           \/ Tick
           \/ UNCHANGED vars
    PROVE  UNCHANGED Vault!vvars
<1>1. /\ vault' = vault /\ market' = market
      /\ InsuranceKept(pool, pool') /\ signed_value(pool') = signed_value(pool)
  <2>1. CASE \E m \in Args["tranche"] : AdminSetTrancheConfig(m)
    BY <2>1, Mapping, ZenonT(40) DEF AdminSetTrancheConfig, InsuranceKept, signed_value, Pool
  <2>2. CASE \E e \in BOOLEAN, b \in Args["hwm"] : AdminSetHwmConfig(e, b)
    BY <2>2, Mapping, ZenonT(40) DEF AdminSetHwmConfig, InsuranceKept, signed_value, Pool
  <2>3. CASE \E c \in Args["cooldown"] \cup {None}, k \in (Args["cap"] \cap U64) \cup {None} :
                 UpdateConfig(c, k)
    BY <2>3, Mapping, ZenonT(40) DEF UpdateConfig, InsuranceKept, signed_value, Pool
  <2>4. CASE \/ \E c \in Args["propose"] : ProposeCooldownIncrease(c)
             \/ CommitCooldownIncrease
             \/ CancelCooldownIncrease
    BY <2>4, Mapping, ZenonT(40) DEF ProposeCooldownIncrease, CommitCooldownIncrease,
          CancelCooldownIncrease, InsuranceKept, signed_value, Pool
  <2>5. CASE \/ \E a \in Args["consume"] : ConsumeInsurance(a)
             \/ \E u, v \in Users, n \in Args["lp_transfer"] : TransferLp(u, v, n)
             \/ Tick
             \/ UNCHANGED vars
    BY <2>5 DEF ConsumeInsurance, TransferLp, Tick, vars, InsuranceKept
  <2> QED  BY <2>1, <2>2, <2>3, <2>4, <2>5
<1>2. total_pool_value(pool') = total_pool_value(pool)
  BY <1>1 DEF total_pool_value
<1> QED  BY <1>1, <1>2, InsuranceFrame DEF Vault!vvars

----------------------------------------------------------------------------
(* Every behaviour of the stake program is, seen through the mapping, one  *)
(* of the escrow: holders' value and tokens move together, nothing is lent *)
(* to a closed market and nothing is owed by one.                          *)
THEOREM ProgramImplementsVault == Spec => ImplementsVault
<1>1. Init => Vault!VInit
  <2> SUFFICES ASSUME Init PROVE Vault!VInit
    OBVIOUS
  <2>1. PICK mode \in PoolModes, cooldown \in InitCooldowns, cap \in InitCaps :
           pool = FreshPool(mode, cooldown, cap)
    BY DEF Init
  <2>2. signed_value(pool) = 0 /\ wrapper_recoverable(pool) = 0 /\ pool.market_resolved = FALSE
    BY <2>1 DEF FreshPool, signed_value, wrapper_recoverable, SatSub
  <2>3. total_pool_value(pool) = 0
    BY <2>2, LedgerInit, Mapping
  <2>4. vault = 0 /\ market = "Live"
    BY DEF Init
  <2> QED  BY <2>2, <2>3, <2>4 DEF Vault!VInit, Closed
<1>2. LedgerInv /\ [Next]_vars => [Vault!VNext]_Vault!vvars
  <2> SUFFICES ASSUME LedgerInv, [Next]_vars PROVE Vault!VNext \/ UNCHANGED Vault!vvars
    OBVIOUS
  <2>1. \A n \in ArgNames : Args[n] \subseteq Nat
    BY ArgsNat
  <2>2. ASSUME NEW u \in Users, NEW a \in Args["deposit"], Deposit(u, a) PROVE Vault!PayIn
    BY <2>1, <2>2, DepositsPayIn DEF ArgNames
  <2>3. ASSUME NEW u \in Users, NEW a \in Args["deposit_junior"], DepositJunior(u, a)
        PROVE  Vault!PayIn
    BY <2>1, <2>3, DepositsPayIn DEF ArgNames
  <2>4. ASSUME NEW u \in Users, NEW l \in Args["withdraw"], Withdraw(u, l) PROVE Vault!PayOut
    BY <2>1, <2>4, WithdrawPaysOut DEF ArgNames
  <2>5. ASSUME NEW a \in Args["flush"], FlushToInsurance(a) PROVE Vault!Lend
    BY <2>1, <2>5, FlushLends DEF ArgNames
  <2>6. ASSUME NEW a \in Args["return"], ReturnInsurance(a) PROVE Vault!Repay
    BY <2>1, <2>6, ReturnRepays DEF ArgNames
  <2>7. ASSUME NEW a \in Args["recover"], RecoverFlushedInsurance(a) PROVE Vault!Repay
    BY <2>1, <2>7, RecoverRepays DEF ArgNames
  <2>8. ASSUME NEW a \in Args["fees"], PushFees(a) PROVE Vault!Receive
    BY <2>1, <2>8, PushReceives DEF ArgNames
  <2> QED  BY <2>2, <2>3, <2>4, <2>5, <2>6, <2>7, <2>8, AccrueFeesPaysNothing,
              ResolutionCloses, OthersStutter DEF Next, Vault!VNext
<1> QED  BY <1>1, <1>2, LedgerInvariance, PTL DEF Spec, ImplementsVault, Vault!VSpec
----------------------------------------------------------------------------
(* The arithmetic of prices and tranches.                                  *)

(* Integer division rounds down by less than one.                          *)
LEMMA DivBound ==
    ASSUME NEW a \in Nat, NEW b \in Nat \ {0}
    PROVE  a \div b \in Nat /\ b * (a \div b) <= a /\ a < b * (a \div b) + b
OBVIOUS

(* Rounding down never gives a depositor more than the price.              *)
LEMMA DepositPrice ==
    ASSUME NEW supply \in U64, NEW value \in U64, NEW amount \in Nat, NEW lp \in Nat,
           supply > 0, calc_lp_for_deposit(supply, value, amount) = lp
    PROVE  (value + amount + VIRTUAL_ASSETS) * (supply + VIRTUAL_SHARES)
              >= (value + VIRTUAL_ASSETS) * (supply + lp + VIRTUAL_SHARES)
<1>1. PICK s \in Nat \ {0}, v \in Nat \ {0} :
         s = supply + VIRTUAL_SHARES /\ v = value + VIRTUAL_ASSETS
  BY DEF U64, VIRTUAL_SHARES, VIRTUAL_ASSETS
<1>2. lp = (amount * s) \div v
  BY <1>1, U64Assumption DEF calc_lp_for_deposit, Narrow, None, U64
<1>3. amount * s \in Nat
  OBVIOUS
<1>4. v * lp <= amount * s
  BY <1>2, <1>3, DivBound
<1>5. (v + amount) * s = v * s + amount * s /\ v * (s + lp) = v * s + v * lp
  OBVIOUS
<1>6. v * s \in Nat /\ v * lp \in Nat
  OBVIOUS
<1>7. (v + amount) * s >= v * (s + lp)
  BY <1>3, <1>4, <1>5, <1>6
<1>8. value + amount + VIRTUAL_ASSETS = v + amount /\ supply + lp + VIRTUAL_SHARES = s + lp
  BY <1>1 DEF U64, VIRTUAL_SHARES, VIRTUAL_ASSETS
<1> QED  BY <1>1, <1>7, <1>8

(* Rounding down pays a leaver no more than the shares' part.              *)
LEMMA WithdrawPrice ==
    ASSUME NEW supply \in U64, NEW value \in U64, NEW lp \in Nat, NEW payout \in Nat,
           lp <= supply, calc_collateral_for_withdraw(supply, value, lp) = payout
    PROVE  /\ payout <= value
           /\ (value - payout + VIRTUAL_ASSETS) * (supply + VIRTUAL_SHARES)
                 >= (value + VIRTUAL_ASSETS) * (supply - lp + VIRTUAL_SHARES)
<1>1. PICK s \in Nat \ {0}, v \in Nat \ {0} : s = supply + VIRTUAL_SHARES /\ v = value + VIRTUAL_ASSETS
  BY DEF U64, VIRTUAL_SHARES, VIRTUAL_ASSETS
<1>2. payout = (lp * v) \div s
  BY <1>1, U64Assumption DEF calc_collateral_for_withdraw, Narrow, None, U64
<1>3. lp * v \in Nat /\ v * s \in Nat /\ s * payout \in Nat
  OBVIOUS
<1>4. s * payout <= lp * v
  BY <1>2, <1>3, DivBound
<1>5. payout < v
  <2>1. lp < s
    BY <1>1 DEF U64, VIRTUAL_SHARES
  <2>2. lp * v < s * v
    BY <2>1
  <2>3. s * payout < s * v
    BY <1>3, <1>4, <2>2
  <2> QED  BY <2>3
<1>6. (v - payout) * s = v * s - s * payout /\ v * (s - lp) = v * s - lp * v
  OBVIOUS
<1>7. (v - payout) * s >= v * (s - lp)
  BY <1>3, <1>4, <1>6
<1>8. /\ value - payout + VIRTUAL_ASSETS = v - payout
      /\ supply - lp + VIRTUAL_SHARES = s - lp
      /\ payout <= value
  BY <1>1, <1>5 DEF U64, VIRTUAL_SHARES, VIRTUAL_ASSETS
<1> QED  BY <1>1, <1>7, <1>8

(* A part of a fee is no more than the fee.                                *)
LEMMA JuniorFeeBound ==
    ASSUME NEW p \in Pool, NEW fee \in Nat, FeesToJunior(p) => senior_balance(p) # None
    PROVE  JuniorFee(p, fee) \in 0 .. fee
<1>1. CASE ~FeesToJunior(p)
  BY <1>1 DEF JuniorFee
<1>2. CASE FeesToJunior(p)
  <2>1. PICK j \in Nat, s \in Nat, m \in Nat :
           /\ j = p.junior_balance /\ s = senior_balance(p) /\ m = p.junior_fee_mult_bps
    BY <1>2, TrancheTypes DEF Pool, U64
  <2>2. JuniorFee(p, fee) = distribute_fees(j, s, m, fee).junior
    BY <1>2, <2>1 DEF JuniorFee
  <2>3. CASE fee = 0 \/ j + s = 0 \/ j * m + s * BPS_DENOMINATOR = 0
    BY <2>2, <2>3 DEF distribute_fees
  <2>4. CASE ~(fee = 0 \/ j + s = 0 \/ j * m + s * BPS_DENOMINATOR = 0)
    <3> DEFINE part == (fee * (j * m)) \div (j * m + s * BPS_DENOMINATOR)
    <3>1. JuniorFee(p, fee) = Lesser(fee, part)
      BY <2>2, <2>4 DEF distribute_fees
    <3>2. part \in Nat
      <4>1. fee * (j * m) \in Nat /\ j * m + s * BPS_DENOMINATOR \in Nat \ {0}
        BY <2>4 DEF BPS_DENOMINATOR
      <4> QED  BY <4>1, DivBound
    <3> HIDE DEF part
    <3> QED  BY <3>1, <3>2 DEF Lesser
  <2> QED  BY <2>3, <2>4
<1> QED  BY <1>1, <1>2

(* What a tranche is worth: the juniors bear the whole net loss, down to   *)
(* nothing (the saturation of the waterfall's sum never binds).            *)
LEMMA JuniorNetOfLoss ==
    ASSUME NEW p \in Pool
    PROVE  /\ effective_junior_balance(p) = SatSub(p.junior_balance, net_loss(p))
           /\ net_loss(p) \in Nat
<1> DEFINE gross_senior == SatSub(SatSub(p.total_deposited, p.total_withdrawn), p.junior_balance)
<1>1. p.junior_balance \in U64 /\ net_loss(p) \in U64 /\ gross_senior \in U64
  BY TrancheTypes, U64Assumption DEF Pool, U64, SatSub
<1>2. effective_junior_balance(p) =
         SatSub(p.junior_balance, distribute_loss(p.junior_balance, gross_senior, net_loss(p)).junior)
  BY DEF effective_junior_balance
<1> HIDE DEF gross_senior
<1>3. distribute_loss(p.junior_balance, gross_senior, net_loss(p)).junior =
         Lesser(net_loss(p), p.junior_balance)
  BY <1>1, U64Assumption DEF distribute_loss, Lesser, SatAdd, U64
<1>4. Lesser(net_loss(p), p.junior_balance) =
          IF net_loss(p) <= p.junior_balance THEN net_loss(p) ELSE p.junior_balance
  BY DEF Lesser
<1> QED  BY <1>1, <1>2, <1>3, <1>4 DEF SatSub, U64

(* The shares for a deposit are a u64 or undefined.                        *)
LEMMA SharesType ==
    ASSUME NEW supply \in U64, NEW value \in U64, NEW amount \in U64
    PROVE  calc_lp_for_deposit(supply, value, amount) \in U64 \cup {None}
<1> DEFINE product == amount * (supply + VIRTUAL_SHARES)
           quotient == product \div (value + VIRTUAL_ASSETS)
<1>1. product \in Nat /\ value + VIRTUAL_ASSETS \in Nat \ {0}
  BY U64Assumption DEF U64, VIRTUAL_ASSETS, VIRTUAL_SHARES
<1>2. quotient \in Nat
  <2> HIDE DEF product
  <2> QED  BY <1>1, DivBound
<1>3. Narrow(quotient) \in U64 \cup {None}
  <2> HIDE DEF quotient
  <2> QED  BY <1>2, U64Assumption DEF Narrow, U64
<1> QED  BY <1>3 DEF calc_lp_for_deposit

----------------------------------------------------------------------------
(* What the handlers do to the books.                                      *)

(* Two pools agree on every counter and on having tranches.                *)
BooksKept(p, q) ==
    /\ q.total_deposited = p.total_deposited
    /\ q.total_withdrawn = p.total_withdrawn
    /\ q.total_lp_supply = p.total_lp_supply
    /\ q.total_flushed = p.total_flushed
    /\ q.total_returned = p.total_returned
    /\ q.total_fees_earned = p.total_fees_earned
    /\ q.total_recovered_from_wrapper = p.total_recovered_from_wrapper
    /\ q.realized_junior_loss = p.realized_junior_loss
    /\ q.junior_balance = p.junior_balance
    /\ q.junior_total_lp = p.junior_total_lp
    /\ q.tranche_enabled = p.tranche_enabled

(* Everything a price is made of is in the books.                          *)
LEMMA BooksPrice ==
    ASSUME NEW p, NEW q, BooksKept(p, q)
    PROVE  /\ total_pool_value(q) = total_pool_value(p)
           /\ effective_junior_balance(q) = effective_junior_balance(p)
           /\ senior_balance(q) = senior_balance(p)
           /\ senior_total_lp(q) = senior_total_lp(p)
           /\ net_loss(q) = net_loss(p)
           /\ SeniorValue(q) = SeniorValue(p)
           /\ signed_value(q) = signed_value(p)
           /\ admin_returned(q) = admin_returned(p)
<1>1. signed_value(q) = signed_value(p) /\ net_loss(q) = net_loss(p)
      /\ senior_total_lp(q) = senior_total_lp(p) /\ admin_returned(q) = admin_returned(p)
  BY DEF BooksKept, signed_value, net_loss, senior_total_lp, admin_returned
<1>2. total_pool_value(q) = total_pool_value(p)
  BY <1>1 DEF total_pool_value
<1>3. effective_junior_balance(q) = effective_junior_balance(p)
  BY <1>1 DEF BooksKept, effective_junior_balance
<1>4. senior_balance(q) = senior_balance(p)
  BY <1>2, <1>3 DEF senior_balance
<1> QED  BY <1>1, <1>2, <1>3, <1>4 DEF SeniorValue, BooksKept

(* Refreshing the mark keeps the books.                                    *)
LEMMA RefreshBooks ==
    ASSUME NEW p \in Pool, NEW epoch, NEW tvl
    PROVE  BooksKept(p, refresh_hwm(p, epoch, tvl))
BY DEF BooksKept, refresh_hwm, Pool

(* A redemption does the same to the same books.                           *)
LEMMA RedeemBooks ==
    ASSUME NEW p \in Pool, NEW q \in Pool, BooksKept(p, q), NEW junior, NEW lp, NEW payout
    PROVE  BooksKept(Redeemed(p, junior, lp, payout), Redeemed(q, junior, lp, payout))
<1> DEFINE paid(r) == [r EXCEPT !.total_withdrawn = @ + payout, !.total_lp_supply = @ - lp]
           pp == paid(p)
           qq == paid(q)
<1>1. BooksKept(pp, qq)
  BY DEF BooksKept, Pool
<1>2. DOMAIN pp = DOMAIN p /\ DOMAIN qq = DOMAIN q
  OBVIOUS
<1>3. Forfeited(pp) = Forfeited(qq)
  <2> HIDE DEF pp, qq
  <2> QED  BY <1>1, BooksPrice DEF Forfeited, BooksKept
<1>4. BooksKept(RedeemJunior(pp, lp, payout), RedeemJunior(qq, lp, payout))
  <2> DEFINE forfeited == Forfeited(pp)
             last(r) == [r EXCEPT !.junior_total_lp = 0, !.junior_balance = 0,
                                  !.total_returned = @ + forfeited,
                                  !.realized_junior_loss = @ + forfeited]
             partial(r) == [r EXCEPT !.junior_total_lp = @ - lp, !.junior_balance = @ - payout]
  <2> HIDE DEF forfeited
  <2>1. BooksKept(last(pp), last(qq))
    BY <1>1 DEF BooksKept, Pool
  <2>2. BooksKept(partial(pp), partial(qq))
    BY <1>1 DEF BooksKept, Pool
  <2>3. pp.junior_total_lp = qq.junior_total_lp
    BY <1>1 DEF BooksKept
  <2> HIDE DEF pp, qq
  <2> QED  BY <1>3, <2>1, <2>2, <2>3 DEF RedeemJunior, forfeited
<1>5. /\ Redeemed(p, junior, lp, payout) =
            IF p.tranche_enabled /\ junior THEN RedeemJunior(pp, lp, payout) ELSE pp
      /\ Redeemed(q, junior, lp, payout) =
            IF q.tranche_enabled /\ junior THEN RedeemJunior(qq, lp, payout) ELSE qq
  BY DEF Redeemed
<1>6. p.tranche_enabled = q.tranche_enabled
  BY DEF BooksKept
<1> HIDE DEF pp, qq
<1> QED  BY <1>1, <1>4, <1>5, <1>6

(* The accrual books a fee, the juniors' part of which is a part of it.    *)
LEMMA AccrueBooks ==
    ASSUME NEW p \in Pool, NEW balance \in U64, AccrueOk(p, balance)
    PROVE  LET q == Accrued(p, balance)
           IN  \E fee, junior_fee \in Nat :
                  /\ junior_fee <= fee
                  /\ ~p.tranche_enabled => junior_fee = 0
                  /\ BooksKept([p EXCEPT !.total_fees_earned = @ + fee,
                                         !.junior_balance = @ + junior_fee], q)
<1>1. CASE ~HasSurplus(p, balance)
  <2>1. Accrued(p, balance) = p
    BY <1>1 DEF Accrued
  <2>2. BooksKept([p EXCEPT !.total_fees_earned = @ + 0, !.junior_balance = @ + 0], p)
    BY DEF BooksKept, Pool, U64
  <2>3. 0 \in Nat /\ 0 <= 0
    OBVIOUS
  <2> QED  BY <2>1, <2>2, <2>3, Zenon
<1>2. CASE HasSurplus(p, balance)
  <2>1. total_pool_value(p) \in U64
    BY PoolValue DEF AccrueOk
  <2>2. PICK fee \in Nat : fee = balance - total_pool_value(p)
    BY <1>2, <2>1 DEF HasSurplus, U64
  <2>3. Accrued(p, balance) = [p EXCEPT !.total_fees_earned = @ + fee,
                                        !.junior_balance = @ + JuniorFee(p, fee)]
    BY <1>2, <2>2 DEF Accrued
  <2>4. JuniorFee(p, fee) \in 0 .. fee
    BY <1>2, JuniorFeeBound DEF AccrueOk
  <2>5. ~p.tranche_enabled => JuniorFee(p, fee) = 0
    BY DEF JuniorFee, FeesToJunior
  <2>6. PICK junior_fee \in Nat : junior_fee = JuniorFee(p, fee) /\ junior_fee <= fee
    BY <2>4
  <2>7. BooksKept(Accrued(p, balance), Accrued(p, balance))
    BY DEF BooksKept
  <2> QED  BY <2>3, <2>5, <2>6, <2>7
<1> QED  BY <1>1, <1>2

(* The pool a price is taken from.                                         *)
LEMMA PricedBooks ==
    ASSUME LedgerInv, AccrueOk(pool, vault)
    PROVE  LET priced == pre_accrue_fee_modes(pool, vault)
           IN  /\ priced \in Pool
               /\ total_pool_value(priced) \in U64
               /\ priced.total_lp_supply = pool.total_lp_supply
               /\ priced.junior_total_lp = pool.junior_total_lp
               /\ priced.tranche_enabled = pool.tranche_enabled
<1>1. pool \in Pool /\ vault \in U64
  BY DEF LedgerInv, TypeOK
<1> DEFINE priced == pre_accrue_fee_modes(pool, vault)
<1>2. priced = Accrued(pool, vault)
  BY DEF pre_accrue_fee_modes
<1>3. priced \in Pool /\ signed_value(priced) >= 0 /\ signed_value(priced) <= vault
  BY PricedPool DEF LedgerInv
<1> HIDE DEF priced
<1>4. total_pool_value(priced) \in U64
  BY <1>1, <1>3, PoolValue, U64Assumption DEF U64
<1>5. PICK fee, junior_fee \in Nat :
         BooksKept([pool EXCEPT !.total_fees_earned = @ + fee,
                                !.junior_balance = @ + junior_fee], priced)
  BY <1>1, <1>2, AccrueBooks
<1>6. /\ priced.total_lp_supply = pool.total_lp_supply
      /\ priced.junior_total_lp = pool.junior_total_lp
      /\ priced.tranche_enabled = pool.tranche_enabled
  BY <1>1, <1>5 DEF BooksKept, Pool
<1> QED  BY <1>3, <1>4, <1>6 DEF priced

(* The pool a deposit saves has the books it computed.                     *)
LEMMA BookDepositBooks ==
    ASSUME NEW u, NEW amount, NEW lp, NEW before, NEW after \in Pool, NEW junior,
           BookDeposit(u, amount, lp, before, after, junior)
    PROVE  BooksKept(after, pool')
<1>1. pool' = MarkDeposit(after)
  BY DEF BookDeposit
<1> QED  BY <1>1, RefreshBooks DEF MarkDeposit, BooksKept

(* Deposit.                                                                *)
LEMMA DepositBooks ==
    ASSUME LedgerInv, NEW u \in Users, NEW amount \in Nat, Deposit(u, amount)
    PROVE  LET priced == pre_accrue_fee_modes(pool, vault)
               lp == SeniorShares(priced, amount)
               after == [priced EXCEPT !.total_deposited = @ + amount,
                                       !.total_lp_supply = @ + lp]
           IN  /\ AccrueOk(pool, vault)
               /\ amount > 0
               /\ SeniorGateOpen(priced)
               /\ ~deposits[u].junior
               /\ lp \in U64 \ {0}
               /\ after \in Pool
               /\ BooksKept(after, pool')
               /\ BookDeposit(u, amount, lp, priced, after, FALSE)
<1> DEFINE priced == pre_accrue_fee_modes(pool, vault)
           lp == SeniorShares(priced, amount)
           after == [priced EXCEPT !.total_deposited = @ + amount, !.total_lp_supply = @ + lp]
<1>1. /\ AccrueOk(pool, vault) /\ vault + amount \in U64 /\ amount > 0
      /\ SeniorGateOpen(priced) /\ ~deposits[u].junior
      /\ BookDeposit(u, amount, lp, priced, after, FALSE)
  BY DEF Deposit, DepositOpen
<1>2. priced \in Pool /\ total_pool_value(priced) \in U64
  BY <1>1, PricedBooks
<1>3. amount \in U64
  <2>1. vault \in U64
    BY DEF LedgerInv, TypeOK
  <2> QED  BY <1>1, <2>1, U64Assumption DEF U64
<1>4. \A c \in Counters : after[c] \in U64
  BY <1>1 DEF BookDeposit, Checked
<1>5. after.total_deposited \in U64 /\ after.total_lp_supply \in U64
  <2> HIDE DEF after
  <2> QED  BY <1>4 DEF Counters
<1> HIDE DEF priced
<1>6. lp \in U64 \ {0}
  <2>1. lp > 0
    BY <1>1 DEF BookDeposit
  <2>2. priced.total_lp_supply \in U64
    BY <1>2 DEF Pool
  <2>3. lp \in U64 \cup {None}
    BY <1>2, <1>3, <2>2, TrancheTypes, SharesType DEF SeniorShares
  <2> HIDE DEF lp
  <2> QED  BY <2>1, <2>3 DEF None
<1> HIDE DEF lp
<1>7. after \in Pool
  BY <1>2, <1>5 DEF Pool
<1> HIDE DEF after
<1>8. BooksKept(after, pool')
  BY <1>1, <1>7, BookDepositBooks
<1> QED  BY <1>1, <1>6, <1>7, <1>8 DEF priced, lp, after

(* DepositJunior.                                                          *)
LEMMA DepositJuniorBooks ==
    ASSUME LedgerInv, NEW u \in Users, NEW amount \in Nat, DepositJunior(u, amount)
    PROVE  LET priced == pre_accrue_fee_modes(pool, vault)
               lp == JuniorShares(priced, amount)
               after == [priced EXCEPT !.total_deposited = @ + amount,
                                       !.total_lp_supply = @ + lp,
                                       !.junior_total_lp = @ + lp,
                                       !.junior_balance = @ + amount]
           IN  /\ AccrueOk(pool, vault)
               /\ amount > 0
               /\ pool.tranche_enabled
               /\ JuniorGateOpen(priced)
               /\ deposits[u].is_initialized => deposits[u].junior
               /\ lp \in U64 \ {0}
               /\ after \in Pool
               /\ BooksKept(after, pool')
               /\ BookDeposit(u, amount, lp, priced, after, TRUE)
<1> DEFINE priced == pre_accrue_fee_modes(pool, vault)
           lp == JuniorShares(priced, amount)
           after == [priced EXCEPT !.total_deposited = @ + amount, !.total_lp_supply = @ + lp,
                                   !.junior_total_lp = @ + lp, !.junior_balance = @ + amount]
<1>1. /\ AccrueOk(pool, vault) /\ vault + amount \in U64 /\ amount > 0
      /\ pool.tranche_enabled /\ JuniorGateOpen(priced)
      /\ deposits[u].is_initialized => deposits[u].junior
      /\ BookDeposit(u, amount, lp, priced, after, TRUE)
  BY DEF DepositJunior, DepositOpen
<1>2. priced \in Pool
  BY <1>1, PricedBooks
<1>3. amount \in U64
  <2>1. vault \in U64
    BY DEF LedgerInv, TypeOK
  <2> QED  BY <1>1, <2>1, U64Assumption DEF U64
<1>4. \A c \in Counters : after[c] \in U64
  BY <1>1 DEF BookDeposit, Checked
<1>5. /\ after.total_deposited \in U64 /\ after.total_lp_supply \in U64
      /\ after.junior_total_lp \in U64 /\ after.junior_balance \in U64
  <2> HIDE DEF after
  <2> QED  BY <1>4 DEF Counters
<1> HIDE DEF priced
<1>6. lp \in U64 \ {0}
  <2>1. lp > 0
    BY <1>1 DEF BookDeposit
  <2>2. priced.junior_total_lp \in U64
    BY <1>2 DEF Pool
  <2>3. lp \in U64 \cup {None}
    BY <1>2, <1>3, <2>2, TrancheTypes, SharesType DEF JuniorShares
  <2> HIDE DEF lp
  <2> QED  BY <2>1, <2>3 DEF None
<1> HIDE DEF lp
<1>7. after \in Pool
  BY <1>2, <1>5 DEF Pool
<1> HIDE DEF after
<1>8. BooksKept(after, pool')
  BY <1>1, <1>7, BookDepositBooks
<1> QED  BY <1>1, <1>6, <1>7, <1>8 DEF priced, lp, after

(* Withdraw: whether the mark was refreshed on the way makes no difference.*)
LEMMA WithdrawBooks ==
    ASSUME LedgerInv, NEW u \in Users, NEW lp \in Nat, Withdraw(u, lp)
    PROVE  LET priced == pre_accrue_fee_modes(pool, vault)
               junior == deposits[u].junior
               payout == Redemption(priced, junior, lp)
           IN  /\ AccrueOk(pool, vault)
               /\ payout \in U64
               /\ lp > 0 /\ lp <= deposits[u].lp_amount /\ lp <= lp_tokens[u]
               /\ BooksKept(Redeemed(priced, junior, lp, payout), pool')
               /\ lp_tokens' = [lp_tokens EXCEPT ![u] = @ - lp]
               /\ deposits' = [deposits EXCEPT ![u] = RecordAfterBurn(@, lp)]
<1> DEFINE priced == pre_accrue_fee_modes(pool, vault)
           junior == deposits[u].junior
           payout == Redemption(priced, junior, lp)
           wiped == WipedJuniorExit(priced, junior, payout)
           marked == MarkWithdraw(priced, wiped)
<1>1. /\ WithdrawOpen(u, lp)
      /\ payout # None
      /\ pool' = Redeemed(marked, junior, lp, payout)
      /\ lp_tokens' = [lp_tokens EXCEPT ![u] = @ - lp]
      /\ deposits' = [deposits EXCEPT ![u] = RecordAfterBurn(@, lp)]
  BY DEF Withdraw
<1>2. /\ lp > 0 /\ lp <= deposits[u].lp_amount /\ lp <= lp_tokens[u]
      /\ AccrueOk(pool, vault)
  BY <1>1 DEF WithdrawOpen
<1>3. priced \in Pool /\ total_pool_value(priced) \in U64
  BY <1>2, PricedBooks
<1>4. junior \in BOOLEAN
  BY DEF LedgerInv, TypeOK, DepositRecord
<1> HIDE DEF priced, junior
<1>5. payout \in U64
  BY <1>1, <1>3, <1>4, RedemptionType
<1> HIDE DEF payout, wiped
<1>6. marked \in Pool /\ BooksKept(priced, marked)
  <2>1. Epoch \in Nat
    BY EpochType DEF LedgerInv, TypeOK
  <2>2. marked = priced \/ marked = refresh_hwm(priced, Epoch, total_pool_value(priced))
    BY DEF MarkWithdraw
  <2> HIDE DEF marked
  <2>3. BooksKept(priced, priced)
    BY DEF BooksKept
  <2> QED  BY <1>3, <2>1, <2>2, <2>3, RefreshEffect, RefreshBooks
<1> HIDE DEF marked
<1>7. BooksKept(Redeemed(priced, junior, lp, payout), pool')
  BY <1>1, <1>3, <1>6, RedeemBooks
<1> QED  BY <1>1, <1>2, <1>5, <1>7 DEF priced, junior, payout

(* The steps that leave the books alone.                                   *)
Clerical ==
    \/ SetMarketResolved
    \/ AdminResolveMarket
    \/ \E e \in BOOLEAN, b \in Args["hwm"] : AdminSetHwmConfig(e, b)
    \/ \E c \in Args["cooldown"] \cup {None}, k \in (Args["cap"] \cap U64) \cup {None} :
          UpdateConfig(c, k)
    \/ \E c \in Args["propose"] : ProposeCooldownIncrease(c)
    \/ CommitCooldownIncrease
    \/ CancelCooldownIncrease
    \/ \E a \in Args["fees"] : PushFees(a)
    \/ \E a \in Args["consume"] : ConsumeInsurance(a)
    \/ Tick

(* None of the clerical steps moves a share.                               *)
LEMMA ClericalBooks ==
    ASSUME LedgerInv, Clerical
    PROVE  BooksKept(pool, pool') /\ deposits' = deposits /\ lp_tokens' = lp_tokens
<1>1. pool \in Pool
  BY DEF LedgerInv, TypeOK
<1>2. deposits' = deposits /\ lp_tokens' = lp_tokens
  BY DEF Clerical, SetMarketResolved, AdminResolveMarket, AdminSetHwmConfig, UpdateConfig,
         ProposeCooldownIncrease, CommitCooldownIncrease, CancelCooldownIncrease,
         PushFees, ConsumeInsurance, Tick
<1>3. BooksKept(pool, pool) /\ (pool' = pool => BooksKept(pool, pool'))
  BY DEF BooksKept
<1>4. ASSUME SetMarketResolved PROVE BooksKept(pool, pool')
  BY <1>1, <1>4 DEF SetMarketResolved, BooksKept, Pool
<1>5. ASSUME NEW e, NEW b, AdminSetHwmConfig(e, b) PROVE BooksKept(pool, pool')
  BY <1>1, <1>5 DEF AdminSetHwmConfig, BooksKept, Pool
<1>6. ASSUME NEW c, NEW k, UpdateConfig(c, k) PROVE BooksKept(pool, pool')
  BY <1>1, <1>6 DEF UpdateConfig, BooksKept, Pool
<1>7. ASSUME NEW c, ProposeCooldownIncrease(c) PROVE BooksKept(pool, pool')
  BY <1>1, <1>7 DEF ProposeCooldownIncrease, BooksKept, Pool
<1>8. ASSUME CommitCooldownIncrease PROVE BooksKept(pool, pool')
  BY <1>1, <1>8 DEF CommitCooldownIncrease, BooksKept, Pool
<1>9. ASSUME CancelCooldownIncrease PROVE BooksKept(pool, pool')
  BY <1>1, <1>9 DEF CancelCooldownIncrease, BooksKept, Pool
<1>10. ASSUME \/ AdminResolveMarket
              \/ \E a \in Args["fees"] : PushFees(a)
              \/ \E a \in Args["consume"] : ConsumeInsurance(a)
              \/ Tick
       PROVE  BooksKept(pool, pool')
  BY <1>3, <1>10 DEF AdminResolveMarket, PushFees, ConsumeInsurance, Tick
<1> QED  BY <1>2, <1>4, <1>5, <1>6, <1>7, <1>8, <1>9, <1>10 DEF Clerical

(* The insurance handlers and the switch to tranches.                      *)
LEMMA InsuranceBooks ==
    ASSUME LedgerInv, NEW a \in Nat
    PROVE  /\ FlushToInsurance(a) =>
                 BooksKept([pool EXCEPT !.total_flushed = @ + a], pool')
           /\ ReturnInsurance(a) =>
                 BooksKept([pool EXCEPT !.total_returned = @ + a], pool')
           /\ RecoverFlushedInsurance(a) =>
                 BooksKept([pool EXCEPT !.total_returned = @ + a,
                                        !.total_recovered_from_wrapper = @ + a], pool')
           /\ AdminSetTrancheConfig(a) =>
                 BooksKept([pool EXCEPT !.tranche_enabled = TRUE], pool')
           /\ \/ FlushToInsurance(a) \/ ReturnInsurance(a)
              \/ RecoverFlushedInsurance(a) \/ AdminSetTrancheConfig(a)
              => deposits' = deposits /\ lp_tokens' = lp_tokens
<1>1. pool \in Pool
  BY DEF LedgerInv, TypeOK
<1>2. ASSUME FlushToInsurance(a)
      PROVE  BooksKept([pool EXCEPT !.total_flushed = @ + a], pool')
  BY <1>1, <1>2 DEF FlushToInsurance, BooksKept, Pool
<1>3. ASSUME ReturnInsurance(a)
      PROVE  BooksKept([pool EXCEPT !.total_returned = @ + a], pool')
  BY <1>1, <1>3 DEF ReturnInsurance, BooksKept, Pool
<1>4. ASSUME RecoverFlushedInsurance(a)
      PROVE  BooksKept([pool EXCEPT !.total_returned = @ + a,
                                    !.total_recovered_from_wrapper = @ + a], pool')
  BY <1>1, <1>4 DEF RecoverFlushedInsurance, Recovered, BooksKept, Pool
<1>5. ASSUME AdminSetTrancheConfig(a)
      PROVE  BooksKept([pool EXCEPT !.tranche_enabled = TRUE], pool')
  BY <1>1, <1>5 DEF AdminSetTrancheConfig, BooksKept, Pool
<1>6. \/ FlushToInsurance(a) \/ ReturnInsurance(a)
      \/ RecoverFlushedInsurance(a) \/ AdminSetTrancheConfig(a)
      => deposits' = deposits /\ lp_tokens' = lp_tokens
  BY DEF FlushToInsurance, ReturnInsurance, RecoverFlushedInsurance, AdminSetTrancheConfig
<1> QED  BY <1>2, <1>3, <1>4, <1>5, <1>6

(* Every step of the program, by what it does to the books.                *)
LEMMA StepKinds ==
    ASSUME Next
    PROVE  \/ \E u \in Users, a \in Nat : Deposit(u, a)
           \/ \E u \in Users, a \in Nat : DepositJunior(u, a)
           \/ \E u \in Users, l \in Nat : Withdraw(u, l)
           \/ AccrueFees
           \/ \E a \in Nat : FlushToInsurance(a)
           \/ \E a \in Nat : ReturnInsurance(a)
           \/ \E a \in Nat : RecoverFlushedInsurance(a)
           \/ \E m \in Nat : AdminSetTrancheConfig(m)
           \/ \E u, v \in Users, n \in Nat : TransferLp(u, v, n)
           \/ Clerical
<1>1. \A n \in ArgNames : Args[n] \subseteq Nat
  BY ArgsNat
<1>2. /\ Args["deposit"] \subseteq Nat /\ Args["deposit_junior"] \subseteq Nat
      /\ Args["withdraw"] \subseteq Nat /\ Args["flush"] \subseteq Nat
      /\ Args["return"] \subseteq Nat /\ Args["recover"] \subseteq Nat
      /\ Args["tranche"] \subseteq Nat /\ Args["lp_transfer"] \subseteq Nat
  BY <1>1 DEF ArgNames
<1> QED  BY <1>2 DEF Next, Clerical

(* The pool value is a number in the next state too.                       *)
LEMMA ValueNext ==
    ASSUME LedgerInv'
    PROVE  pool' \in Pool /\ signed_value(pool') \in Nat /\ total_pool_value(pool') # None
<1>1. pool' \in Pool /\ total_pool_value(pool') # None
  BY DEF LedgerInv, TypeOK, VaultSolvent
<1> QED  BY <1>1, PoolValue DEF U64

----------------------------------------------------------------------------
(* The high-water-mark floor.                                              *)

(* The fields of the floor.                                                *)
HwmKept(p, q) ==
    /\ q.hwm_enabled = p.hwm_enabled
    /\ q.hwm_floor_bps = p.hwm_floor_bps
    /\ q.epoch_high_water_tvl = p.epoch_high_water_tvl
    /\ q.hwm_last_epoch = p.hwm_last_epoch

(* Accruing fees leaves the mark alone.                                    *)
LEMMA AccrueHwm ==
    ASSUME NEW p \in Pool, NEW balance \in U64
    PROVE  HwmKept(p, pre_accrue_fee_modes(p, balance))
<1> DEFINE fee == balance - total_pool_value(p)
           junior_fee == JuniorFee(p, fee)
<1> HIDE DEF fee, junior_fee
<1>1. HwmKept(p, [p EXCEPT !.total_fees_earned = @ + fee, !.junior_balance = @ + junior_fee])
  BY DEF HwmKept, Pool
<1> QED  BY <1>1 DEF HwmKept, pre_accrue_fee_modes, Accrued, fee, junior_fee

(* A refreshed mark belongs to the epoch, is no less than the value it was *)
(* refreshed with and, within an epoch, than the mark before.              *)
LEMMA RefreshHwm ==
    ASSUME NEW p \in Pool, NEW epoch \in Nat, NEW tvl \in U64
    PROVE  LET q == refresh_hwm(p, epoch, tvl)
           IN  /\ q.hwm_last_epoch = epoch
               /\ q.epoch_high_water_tvl >= tvl
               /\ p.hwm_last_epoch = epoch => q.epoch_high_water_tvl >= p.epoch_high_water_tvl
BY DEF refresh_hwm, Pool, U64

(* Burning shares leaves the mark alone.                                   *)
LEMMA RedeemHwm ==
    ASSUME NEW p \in Pool, NEW junior, NEW lp, NEW payout
    PROVE  HwmKept(p, Redeemed(p, junior, lp, payout))
<1> DEFINE paid == [p EXCEPT !.total_withdrawn = @ + payout, !.total_lp_supply = @ - lp]
           forfeited == Forfeited(paid)
<1>1. HwmKept(p, paid)
  BY DEF HwmKept, Pool
<1>2. HwmKept(paid, RedeemJunior(paid, lp, payout))
  <2> HIDE DEF forfeited
  <2>1. HwmKept(paid, [paid EXCEPT !.junior_total_lp = 0, !.junior_balance = 0,
                                   !.total_returned = @ + forfeited,
                                   !.realized_junior_loss = @ + forfeited])
    BY DEF HwmKept, Pool
  <2>2. HwmKept(paid, [paid EXCEPT !.junior_total_lp = @ - lp, !.junior_balance = @ - payout])
    BY DEF HwmKept, Pool
  <2> HIDE DEF paid
  <2> QED  BY <2>1, <2>2 DEF RedeemJunior, forfeited
<1>3. Redeemed(p, junior, lp, payout) =
         IF p.tranche_enabled /\ junior THEN RedeemJunior(paid, lp, payout) ELSE paid
  BY DEF Redeemed
<1> HIDE DEF paid
<1> QED  BY <1>1, <1>2, <1>3 DEF HwmKept

(* A step that keeps the mark and takes nothing out of the vault.          *)
LEMMA HwmFrame ==
    ASSUME LedgerInv, HwmKept(pool, pool'), ~(vault' < vault)
    PROVE  HwmStep
<1>1. pool.epoch_high_water_tvl \in Int
  BY DEF LedgerInv, TypeOK, Pool, U64
<1> QED  BY <1>1 DEF HwmStep, HwmKept

(* A deposit may raise the mark and raises the vault.                      *)
LEMMA HwmDeposit ==
    ASSUME LedgerInv, NEW u \in Users, NEW amount \in Nat, NEW lp, NEW before,
           NEW after \in Pool, NEW junior, HwmKept(pool, after),
           BookDeposit(u, amount, lp, before, after, junior)
    PROVE  HwmStep
<1>1. /\ pool' = MarkDeposit(after)
      /\ after.hwm_enabled => total_pool_value(after) # None
      /\ vault' = vault + amount
      /\ slot' = slot
  BY DEF BookDeposit
<1>2. vault \in Nat /\ slot \in U64 /\ pool \in Pool
  BY DEF LedgerInv, TypeOK, U64
<1>3. ~(vault' < vault)
  BY <1>1, <1>2
<1>4. CASE ~after.hwm_enabled
  BY <1>1, <1>3, <1>4, HwmFrame DEF MarkDeposit
<1>5. CASE after.hwm_enabled
  <2>1. total_pool_value(after) \in U64
    BY <1>1, <1>5, PoolValue
  <2>2. Epoch \in Nat /\ Epoch' = Epoch
    BY <1>1, <1>2, EpochType DEF Epoch
  <2>3. pool' = refresh_hwm(after, Epoch, total_pool_value(after))
    BY <1>1, <1>5 DEF MarkDeposit
  <2>4. after.hwm_last_epoch = Epoch => pool'.epoch_high_water_tvl >= after.epoch_high_water_tvl
    BY <2>1, <2>2, <2>3, RefreshHwm
  <2> QED  BY <1>3, <2>2, <2>4 DEF HwmStep, HwmKept
<1> QED  BY <1>4, <1>5

(* A withdrawal leaves the floor of a mark that counts the vault before it.*)
LEMMA HwmWithdraw ==
    ASSUME LedgerInv, NEW u \in Users, NEW lp \in Nat, Withdraw(u, lp)
    PROVE  HwmStep
<1> DEFINE priced == pre_accrue_fee_modes(pool, vault)
           junior == deposits[u].junior
           payout == Redemption(priced, junior, lp)
           wiped == WipedJuniorExit(priced, junior, payout)
           marked == MarkWithdraw(priced, wiped)
           after == Redeemed(marked, junior, lp, payout)
<1>1. /\ WithdrawOpen(u, lp)
      /\ payout # None
      /\ payout > 0 \/ wiped
      /\ AboveFloor(priced, wiped, payout)
      /\ Checked(after)
      /\ pool' = after
      /\ vault' = vault - payout
      /\ slot' = slot
  BY DEF Withdraw
<1>2. lp > 0 /\ AccrueOk(pool, vault)
  BY <1>1 DEF WithdrawOpen
<1>3. /\ priced \in Pool
      /\ priced.total_lp_supply = pool.total_lp_supply
      /\ pool.total_lp_supply > 0 => signed_value(priced) = vault
  BY <1>2, PricedPool DEF LedgerInv
<1>4. junior \in BOOLEAN /\ vault \in U64 /\ pool \in Pool /\ slot \in U64
  BY DEF LedgerInv, TypeOK, DepositRecord
<1>5. HwmKept(pool, priced)
  BY <1>4, AccrueHwm
<1>6. wiped => payout = 0
  BY DEF WipedJuniorExit
<1> HIDE DEF priced, junior
<1>7. payout \in U64
  BY <1>1, <1>3, <1>4, RedemptionType
<1>8. Epoch \in Nat /\ Epoch' = Epoch
  BY <1>1, <1>4, EpochType DEF Epoch
<1> HIDE DEF payout, wiped
<1>9. CASE ~(priced.hwm_enabled /\ ~wiped)
  <2>1. marked = priced
    BY <1>9 DEF MarkWithdraw
  <2>2. HwmKept(pool, pool')
    BY <1>1, <1>3, <1>5, <2>1, RedeemHwm DEF HwmKept
  <2>3. pool.hwm_enabled => ~(vault' < vault)
    BY <1>1, <1>4, <1>5, <1>6, <1>9 DEF HwmKept, U64
  <2>4. pool.epoch_high_water_tvl \in Int
    BY <1>4 DEF Pool, U64
  <2> QED  BY <2>2, <2>3, <2>4 DEF HwmStep, HwmKept
<1>10. CASE priced.hwm_enabled /\ ~wiped
  <2>1. /\ total_pool_value(priced) >= payout
        /\ hwm_withdrawal_allowed(total_pool_value(priced) - payout,
               marked.epoch_high_water_tvl, priced.hwm_floor_bps)
    BY <1>1, <1>10 DEF AboveFloor
  <2>2. total_pool_value(priced) \in U64 /\ total_pool_value(priced) = signed_value(priced)
    BY <1>3, <1>7, <2>1, PoolValue DEF None, U64
  <2>3. marked = refresh_hwm(priced, Epoch, total_pool_value(priced))
    BY <1>10 DEF MarkWithdraw
  <2>4. marked \in Pool /\ marked.total_lp_supply = priced.total_lp_supply
    BY <1>3, <1>8, <2>2, <2>3, RefreshEffect
  <2>5. /\ marked.hwm_last_epoch = Epoch
        /\ marked.epoch_high_water_tvl >= total_pool_value(priced)
        /\ priced.hwm_last_epoch = Epoch =>
              marked.epoch_high_water_tvl >= priced.epoch_high_water_tvl
    BY <1>3, <1>8, <2>2, <2>3, RefreshHwm
  <2> HIDE DEF marked
  <2>6. HwmKept(marked, pool')
    BY <1>1, <2>4, RedeemHwm
  <2>7. pool.total_lp_supply > 0
    <3>1. payout \in Nat
      BY <1>7 DEF U64
    <3>2. lp <= marked.total_lp_supply
      BY <1>1, <1>4, <2>4, <3>1, RedeemEffect
    <3> QED  BY <1>2, <1>3, <1>4, <2>4, <3>2 DEF Pool, U64
  <2>8. total_pool_value(priced) = vault
    BY <1>3, <2>2, <2>7
  <2>9. vault' >= hwm_floor(marked.epoch_high_water_tvl, priced.hwm_floor_bps)
    BY <1>1, <2>1, <2>8 DEF hwm_withdrawal_allowed
  <2> QED  BY <1>5, <1>8, <2>5, <2>6, <2>8, <2>9 DEF HwmStep, HwmKept
<1> QED  BY <1>9, <1>10

(* Every step of the program satisfies the rate limit.                     *)
LEMMA HwmNext == LedgerInv /\ [Next]_vars => [HwmStep]_vars
<1> SUFFICES ASSUME LedgerInv, Next PROVE HwmStep
  OBVIOUS
<1>1. \A n \in ArgNames : Args[n] \subseteq Nat
  BY ArgsNat
<1>2. pool \in Pool /\ vault \in U64
  BY DEF LedgerInv, TypeOK
<1>3. ASSUME NEW u \in Users, NEW a \in Args["deposit"], Deposit(u, a) PROVE HwmStep
  <2> DEFINE priced == pre_accrue_fee_modes(pool, vault)
             lp == SeniorShares(priced, a)
             after == [priced EXCEPT !.total_deposited = @ + a, !.total_lp_supply = @ + lp]
  <2>1. AccrueOk(pool, vault) /\ BookDeposit(u, a, lp, priced, after, FALSE)
    BY <1>3 DEF Deposit, DepositOpen
  <2>2. priced \in Pool /\ HwmKept(pool, priced)
    BY <1>2, <2>1, PricedPool, AccrueHwm DEF LedgerInv
  <2>3. \A c \in Counters : after[c] \in U64
    BY <2>1 DEF BookDeposit, Checked
  <2>4. after.total_deposited \in U64 /\ after.total_lp_supply \in U64
    <3> HIDE DEF after
    <3> QED  BY <2>3 DEF Counters
  <2> HIDE DEF lp, priced
  <2>5. after \in Pool /\ HwmKept(pool, after)
    BY <2>2, <2>4 DEF Pool, HwmKept
  <2>6. a \in Nat
    BY <1>1 DEF ArgNames
  <2> HIDE DEF after
  <2> QED  BY <2>1, <2>5, <2>6, HwmDeposit
<1>4. ASSUME NEW u \in Users, NEW a \in Args["deposit_junior"], DepositJunior(u, a)
      PROVE  HwmStep
  <2> DEFINE priced == pre_accrue_fee_modes(pool, vault)
             lp == JuniorShares(priced, a)
             after == [priced EXCEPT !.total_deposited = @ + a, !.total_lp_supply = @ + lp,
                                     !.junior_total_lp = @ + lp, !.junior_balance = @ + a]
  <2>1. AccrueOk(pool, vault) /\ BookDeposit(u, a, lp, priced, after, TRUE)
    BY <1>4 DEF DepositJunior, DepositOpen
  <2>2. priced \in Pool /\ HwmKept(pool, priced)
    BY <1>2, <2>1, PricedPool, AccrueHwm DEF LedgerInv
  <2>3. \A c \in Counters : after[c] \in U64
    BY <2>1 DEF BookDeposit, Checked
  <2>4. /\ after.total_deposited \in U64 /\ after.total_lp_supply \in U64
        /\ after.junior_total_lp \in U64 /\ after.junior_balance \in U64
    <3> HIDE DEF after
    <3> QED  BY <2>3 DEF Counters
  <2> HIDE DEF lp, priced
  <2>5. after \in Pool /\ HwmKept(pool, after)
    BY <2>2, <2>4 DEF Pool, HwmKept
  <2>6. a \in Nat
    BY <1>1 DEF ArgNames
  <2> HIDE DEF after
  <2> QED  BY <2>1, <2>5, <2>6, HwmDeposit
<1>5. ASSUME NEW u \in Users, NEW l \in Args["withdraw"], Withdraw(u, l) PROVE HwmStep
  BY <1>1, <1>5, HwmWithdraw DEF ArgNames
<1>6. ASSUME NEW a \in Args["flush"], FlushToInsurance(a) PROVE HwmStep
  <2>1. a \in Nat /\ a > 0 /\ pool'.total_flushed = pool.total_flushed + a
    BY <1>1, <1>2, <1>6 DEF FlushToInsurance, ArgNames, Pool
  <2> QED  BY <1>2, <2>1 DEF HwmStep, Pool, U64
<1>7. ASSUME AccrueFees PROVE HwmStep
  <2>1. HwmKept(pool, pool') /\ vault' = vault
    BY <1>2, <1>7, AccrueHwm DEF AccrueFees, pre_accrue_fee_modes
  <2> QED  BY <1>2, <2>1, HwmFrame DEF U64
<1>8. ASSUME \/ \E a \in Args["return"] : ReturnInsurance(a)
             \/ \E a \in Args["recover"] : RecoverFlushedInsurance(a)
      PROVE  HwmStep
  <2>1. HwmKept(pool, pool')
    BY <1>2, <1>8 DEF ReturnInsurance, RecoverFlushedInsurance, Recovered, HwmKept, Pool
  <2>2. ~(vault' < vault)
    <3>1. \E a \in Args["return"] \cup Args["recover"] : vault' = vault + a
      BY <1>8 DEF ReturnInsurance, RecoverFlushedInsurance
    <3>2. Args["return"] \cup Args["recover"] \subseteq Nat
      BY <1>1 DEF ArgNames
    <3> QED  BY <1>2, <3>1, <3>2 DEF U64
  <2> QED  BY <2>1, <2>2, HwmFrame
<1>9. ASSUME SetMarketResolved \/ \E m \in Args["tranche"] : AdminSetTrancheConfig(m)
      PROVE  HwmStep
  <2>1. \/ pool' = [pool EXCEPT !.market_resolved = TRUE]
        \/ \E m \in Args["tranche"] :
              pool' = [pool EXCEPT !.tranche_enabled = TRUE, !.junior_fee_mult_bps = m]
    BY <1>9 DEF SetMarketResolved, AdminSetTrancheConfig
  <2>2. HwmKept(pool, pool')
    BY <1>2, <2>1 DEF HwmKept, Pool
  <2>3. vault' = vault
    BY <1>9 DEF SetMarketResolved, AdminSetTrancheConfig
  <2> QED  BY <1>2, <2>2, <2>3, HwmFrame DEF U64
<1>10. ASSUME NEW e \in BOOLEAN, NEW b \in Args["hwm"], AdminSetHwmConfig(e, b) PROVE HwmStep
  BY <1>2, <1>10 DEF AdminSetHwmConfig, HwmStep, Pool, U64
<1>11. ASSUME NEW c \in Args["cooldown"] \cup {None},
              NEW k \in (Args["cap"] \cap U64) \cup {None}, UpdateConfig(c, k)
       PROVE  HwmStep
  <2>1. HwmKept(pool, pool') /\ vault' = vault
    BY <1>2, <1>11 DEF UpdateConfig, HwmKept, Pool
  <2> QED  BY <1>2, <2>1, HwmFrame DEF U64
<1>12. ASSUME \/ \E a \in Args["fees"] : PushFees(a)
              \/ \E a \in Args["consume"] : ConsumeInsurance(a)
              \/ AdminResolveMarket
              \/ \E u, v \in Users, n \in Args["lp_transfer"] : TransferLp(u, v, n)
              \/ Tick
       PROVE  HwmStep
  <2>1. pool' = pool /\ ~(vault' < vault)
    BY <1>1, <1>2, <1>12
      DEF PushFees, ConsumeInsurance, AdminResolveMarket, TransferLp, Tick, ArgNames, U64
  <2> QED  BY <2>1, HwmFrame DEF HwmKept
<1>13. ASSUME \/ \E c \in Args["propose"] : ProposeCooldownIncrease(c)
              \/ CommitCooldownIncrease
              \/ CancelCooldownIncrease
       PROVE  HwmStep
  <2>1. HwmKept(pool, pool')
    BY <1>2, <1>13 DEF ProposeCooldownIncrease, CommitCooldownIncrease,
                       CancelCooldownIncrease, HwmKept, Pool
  <2>2. vault' = vault
    BY <1>13 DEF ProposeCooldownIncrease, CommitCooldownIncrease, CancelCooldownIncrease
  <2> QED  BY <1>2, <2>1, <2>2, HwmFrame DEF U64
<1> QED  BY <1>3, <1>4, <1>5, <1>6, <1>7, <1>8, <1>9, <1>10, <1>11, <1>12, <1>13 DEF Next

(* PERC-313: no payout of an epoch is measured against less than the vault *)
(* held before it, nor leaves less than the floor of the epoch's mark.     *)
THEOREM FloorHolds == Spec => HwmRateLimit
BY LedgerInvariance, HwmNext, PTL DEF Spec, HwmRateLimit

(* The floor of a lower value is no higher.                                *)
LEMMA FloorMonotone ==
    ASSUME NEW x \in Nat, NEW y \in Nat, NEW bps \in Nat, x <= y, hwm_floor(y, bps) # None
    PROVE  hwm_floor(x, bps) <= hwm_floor(y, bps) /\ hwm_floor(y, bps) \in Nat
<1> DEFINE fx == (x * bps) \div BPS_DENOMINATOR
           fy == (y * bps) \div BPS_DENOMINATOR
<1>1. x * bps \in Nat /\ y * bps \in Nat
  OBVIOUS
<1>2. x * bps <= y * bps
  <2>1. (y - x) * bps >= 0
    OBVIOUS
  <2>2. (y - x) * bps = y * bps - x * bps
    OBVIOUS
  <2> QED  BY <1>1, <2>1, <2>2
<1>3. /\ fx \in Nat /\ BPS_DENOMINATOR * fx <= x * bps
      /\ fy \in Nat /\ y * bps < BPS_DENOMINATOR * fy + BPS_DENOMINATOR
  BY <1>1, DivBound DEF BPS_DENOMINATOR
<1>4. fx <= fy
  <2> HIDE DEF fx, fy
  <2> QED  BY <1>1, <1>2, <1>3 DEF BPS_DENOMINATOR
<1>5. hwm_floor(x, bps) = Narrow(fx) /\ hwm_floor(y, bps) = Narrow(fy)
  BY DEF hwm_floor
<1> HIDE DEF fx, fy
<1>6. fy <= U64_MAX
  BY <1>5, <1>3, U64Assumption DEF Narrow, None
<1> QED  BY <1>3, <1>4, <1>5, <1>6, U64Assumption DEF Narrow

(* What a step does to the mark: nothing, what a flush takes off it, or, in*)
(* a watched step, a refresh with the most the pool was worth, against     *)
(* whose floor a payout has been checked.                                  *)
MarkStep ==
    \/ /\ ~Watched
       /\ pool'.epoch_high_water_tvl = pool.epoch_high_water_tvl
       /\ pool'.total_flushed = pool.total_flushed
    \/ /\ ~Watched
       /\ pool'.total_flushed - pool.total_flushed \in Nat
       /\ pool'.epoch_high_water_tvl =
             SatSub(pool.epoch_high_water_tvl, pool'.total_flushed - pool.total_flushed)
    \/ /\ Watched
       /\ Seen \in Nat
       /\ pool'.epoch_high_water_tvl >= Seen
       /\ Epoch = pool.hwm_last_epoch =>
             pool'.epoch_high_water_tvl >= pool.epoch_high_water_tvl
       /\ pool'.total_withdrawn > pool.total_withdrawn =>
             /\ hwm_floor(pool'.epoch_high_water_tvl, pool.hwm_floor_bps) # None
             /\ total_pool_value(pool') >=
                   hwm_floor(pool'.epoch_high_water_tvl, pool.hwm_floor_bps)

(* A step that leaves mark, deposits and payouts alone.                    *)
LEMMA MarkFrame ==
    ASSUME LedgerInv, pool'.epoch_high_water_tvl = pool.epoch_high_water_tvl,
           pool'.total_flushed = pool.total_flushed,
           pool'.total_deposited = pool.total_deposited,
           pool'.total_withdrawn = pool.total_withdrawn
    PROVE  MarkStep
<1>1. pool.total_deposited \in Nat /\ pool.total_withdrawn \in Nat
  BY DEF LedgerInv, TypeOK, Pool, U64
<1>2. ~Watched
  BY <1>1 DEF Watched
<1> QED  BY <1>2 DEF MarkStep

(* A deposit refreshes the mark with the value it leaves.                  *)
LEMMA MarkDeposited ==
    ASSUME LedgerInv, LedgerInv', AccrueOk(pool, vault),
           NEW u \in Users, NEW amount \in Nat \ {0}, NEW lp, NEW before,
           NEW after \in Pool, NEW junior, HwmKept(pool, after),
           after.total_deposited = pool.total_deposited + amount,
           after.total_withdrawn = pool.total_withdrawn,
           after.total_flushed = pool.total_flushed,
           signed_value(after) = signed_value(pre_accrue_fee_modes(pool, vault)) + amount,
           BookDeposit(u, amount, lp, before, after, junior)
    PROVE  MarkStep
<1> DEFINE priced == pre_accrue_fee_modes(pool, vault)
<1>1. pool' = MarkDeposit(after) /\ BooksKept(after, pool')
  BY BookDepositBooks DEF BookDeposit
<1>2. priced \in Pool /\ total_pool_value(priced) \in U64
  BY PricedBooks
<1>3. /\ pool' \in Pool /\ total_pool_value(pool') # None
      /\ total_pool_value(pool') = total_pool_value(after)
  BY <1>1, ValueNext, BooksPrice
<1> HIDE DEF priced
<1>4. /\ total_pool_value(after) = total_pool_value(priced) + amount
      /\ total_pool_value(after) \in U64 /\ total_pool_value(priced) \in Nat
  BY <1>2, <1>3, PoolValue, U64Assumption DEF U64, None, priced
<1>5. Seen = total_pool_value(after)
  BY <1>3, <1>4 DEF Seen, priced, pre_accrue_fee_modes
<1>6. /\ pool'.total_deposited > pool.total_deposited
      /\ pool'.total_withdrawn = pool.total_withdrawn
      /\ pool'.total_flushed = pool.total_flushed
      /\ ~(pool'.total_withdrawn > pool.total_withdrawn)
  BY <1>1 DEF BooksKept, LedgerInv, TypeOK, Pool, U64
<1>7. CASE pool.hwm_enabled
  <2>1. pool' = refresh_hwm(after, Epoch, total_pool_value(after))
    BY <1>1, <1>7 DEF MarkDeposit, HwmKept
  <2>2. Epoch \in Nat
    BY EpochType DEF LedgerInv, TypeOK
  <2>3. /\ pool'.epoch_high_water_tvl >= total_pool_value(after)
        /\ after.hwm_last_epoch = Epoch => pool'.epoch_high_water_tvl >= after.epoch_high_water_tvl
    BY <1>4, <2>1, <2>2, RefreshHwm
  <2>4. Watched /\ Seen \in Nat
    BY <1>4, <1>5, <1>6, <1>7 DEF Watched, U64
  <2> QED  BY <1>5, <1>6, <2>3, <2>4 DEF MarkStep, HwmKept
<1>8. CASE ~pool.hwm_enabled
  <2>1. pool' = after /\ ~Watched
    BY <1>1, <1>8 DEF MarkDeposit, HwmKept, Watched
  <2> QED  BY <1>6, <2>1 DEF MarkStep, HwmKept
<1> QED  BY <1>7, <1>8

(* A payout is checked against the floor of a mark refreshed with the      *)
(* value before it.                                                        *)
LEMMA MarkWithdrawn ==
    ASSUME LedgerInv, LedgerInv', NEW u \in Users, NEW lp \in Nat, Withdraw(u, lp)
    PROVE  MarkStep
<1> DEFINE priced == pre_accrue_fee_modes(pool, vault)
           junior == deposits[u].junior
           payout == Redemption(priced, junior, lp)
           wiped == WipedJuniorExit(priced, junior, payout)
           marked == MarkWithdraw(priced, wiped)
           after == Redeemed(priced, junior, lp, payout)
<1>1. /\ AccrueOk(pool, vault)
      /\ payout > 0 \/ wiped
      /\ AboveFloor(priced, wiped, payout)
      /\ pool' = Redeemed(marked, junior, lp, payout)
  BY DEF Withdraw, WithdrawOpen
<1>2. payout \in U64 /\ BooksKept(after, pool')
  BY WithdrawBooks
<1>3. priced \in Pool /\ total_pool_value(priced) \in U64
  BY <1>1, PricedBooks
<1>4. pool \in Pool /\ vault \in U64 /\ slot \in U64
  BY DEF LedgerInv, TypeOK
<1>5. /\ HwmKept(pool, priced)
      /\ priced.total_withdrawn = pool.total_withdrawn
      /\ priced.total_deposited = pool.total_deposited
  BY <1>3, <1>4, AccrueHwm DEF pre_accrue_fee_modes, Accrued, Pool
<1>6. pool'.total_flushed = pool.total_flushed
  BY WithdrawStep DEF InsuranceSettled
<1>7. wiped => payout = 0
  BY DEF WipedJuniorExit
<1> HIDE DEF priced, payout, wiped, junior
<1>8. /\ pool'.total_withdrawn = pool.total_withdrawn + payout
      /\ pool'.total_deposited = pool.total_deposited
  <2>1. /\ after.total_withdrawn = priced.total_withdrawn + payout
        /\ after.total_deposited = priced.total_deposited
    BY <1>3 DEF Redeemed, RedeemJunior, Pool
  <2> HIDE DEF after
  <2> QED  BY <1>2, <1>5, <2>1 DEF BooksKept
<1>9. pool.total_withdrawn \in Nat /\ pool.total_deposited \in Nat /\ payout \in Nat
  BY <1>2, <1>4 DEF Pool, U64
<1>10. CASE ~(priced.hwm_enabled /\ ~wiped)
  <2>1. marked = priced
    BY <1>10 DEF MarkWithdraw
  <2>2. HwmKept(pool, pool')
    BY <1>1, <1>3, <1>5, <2>1, RedeemHwm DEF HwmKept
  <2>3. ~Watched
    BY <1>5, <1>7, <1>8, <1>9, <1>10 DEF Watched, HwmKept
  <2> QED  BY <1>6, <2>2, <2>3 DEF MarkStep, HwmKept
<1>11. CASE priced.hwm_enabled /\ ~wiped
  <2>1. /\ hwm_floor(marked.epoch_high_water_tvl, priced.hwm_floor_bps) # None
        /\ total_pool_value(priced) - payout >=
              hwm_floor(marked.epoch_high_water_tvl, priced.hwm_floor_bps)
    BY <1>1, <1>11 DEF AboveFloor, hwm_withdrawal_allowed
  <2>2. Epoch \in Nat
    BY <1>4, EpochType
  <2>3. marked = refresh_hwm(priced, Epoch, total_pool_value(priced))
    BY <1>11 DEF MarkWithdraw
  <2>4. marked \in Pool
    BY <1>3, <2>2, <2>3, RefreshEffect
  <2>5. /\ marked.epoch_high_water_tvl >= total_pool_value(priced)
        /\ priced.hwm_last_epoch = Epoch =>
              marked.epoch_high_water_tvl >= priced.epoch_high_water_tvl
    BY <1>3, <2>2, <2>3, RefreshHwm
  <2> HIDE DEF marked
  <2>6. HwmKept(marked, pool')
    BY <1>1, <2>4, RedeemHwm
  <2>7. total_pool_value(pool') = total_pool_value(priced) - payout
    <3>1. /\ signed_value(priced) = vault /\ signed_value(pool') = vault'
          /\ vault' = vault - payout
      BY WithdrawStep DEF Withdraw, priced, payout, junior
    <3>2. pool' \in Pool /\ total_pool_value(pool') # None
      BY ValueNext
    <3>3. total_pool_value(priced) = signed_value(priced)
      BY <1>3, PoolValue, U64Assumption DEF U64, None
    <3> QED  BY <3>1, <3>2, <3>3, PoolValue
  <2>8. Seen = total_pool_value(priced) /\ Seen \in Nat
    <3>1. Seen = IF total_pool_value(priced) > total_pool_value(pool')
                 THEN total_pool_value(priced) ELSE total_pool_value(pool')
      BY DEF Seen, priced, pre_accrue_fee_modes
    <3>2. total_pool_value(priced) \in Nat
      BY <1>3 DEF U64
    <3> QED  BY <1>9, <2>7, <3>1, <3>2
  <2>9. payout > 0 /\ Watched
    BY <1>1, <1>5, <1>8, <1>9, <1>11 DEF Watched, HwmKept
  <2> QED  BY <1>5, <2>1, <2>5, <2>6, <2>7, <2>8, <2>9 DEF MarkStep, HwmKept
<1> QED  BY <1>10, <1>11

(* Every step of the program moves the mark so.                            *)
LEMMA MarkNext ==
    ASSUME LedgerInv, LedgerInv', Next
    PROVE  MarkStep
<1> DEFINE priced == pre_accrue_fee_modes(pool, vault)
<1>1. pool \in Pool /\ vault \in U64
  BY DEF LedgerInv, TypeOK
<1>2. ASSUME AccrueOk(pool, vault)
      PROVE  /\ priced \in Pool /\ HwmKept(pool, priced) /\ signed_value(priced) \in Int
             /\ priced.total_deposited = pool.total_deposited
             /\ priced.total_withdrawn = pool.total_withdrawn
             /\ priced.total_flushed = pool.total_flushed
  <2>1. priced \in Pool /\ HwmKept(pool, priced) /\ InsuranceKept(pool, priced)
    BY <1>1, <1>2, PricedPool, AccrueHwm DEF LedgerInv
  <2>2. /\ priced.total_deposited = pool.total_deposited
        /\ priced.total_withdrawn = pool.total_withdrawn
    BY <1>1 DEF pre_accrue_fee_modes, Accrued, Pool
  <2> QED  BY <2>1, <2>2, PoolValue DEF InsuranceKept
<1>3. ASSUME NEW u \in Users, NEW a \in Nat, Deposit(u, a) PROVE MarkStep
  <2> DEFINE lp == SeniorShares(priced, a)
             after == [priced EXCEPT !.total_deposited = @ + a, !.total_lp_supply = @ + lp]
  <2>1. /\ AccrueOk(pool, vault) /\ a > 0 /\ after \in Pool
        /\ BookDeposit(u, a, lp, priced, after, FALSE)
    BY <1>3, DepositBooks
  <2> HIDE DEF lp
  <2>2. /\ HwmKept(pool, after)
        /\ after.total_deposited = pool.total_deposited + a
        /\ after.total_withdrawn = pool.total_withdrawn
        /\ after.total_flushed = pool.total_flushed
        /\ signed_value(after) = signed_value(priced) + a
    <3> HIDE DEF priced
    <3> QED  BY <1>2, <2>1 DEF HwmKept, signed_value, Pool, U64
  <2>3. a \in Nat \ {0}
    BY <2>1
  <2> HIDE DEF after
  <2> QED  BY <2>1, <2>2, <2>3, MarkDeposited
<1>4. ASSUME NEW u \in Users, NEW a \in Nat, DepositJunior(u, a) PROVE MarkStep
  <2> DEFINE lp == JuniorShares(priced, a)
             after == [priced EXCEPT !.total_deposited = @ + a, !.total_lp_supply = @ + lp,
                                     !.junior_total_lp = @ + lp, !.junior_balance = @ + a]
  <2>1. /\ AccrueOk(pool, vault) /\ a > 0 /\ after \in Pool
        /\ BookDeposit(u, a, lp, priced, after, TRUE)
    BY <1>4, DepositJuniorBooks
  <2> HIDE DEF lp
  <2>2. /\ HwmKept(pool, after)
        /\ after.total_deposited = pool.total_deposited + a
        /\ after.total_withdrawn = pool.total_withdrawn
        /\ after.total_flushed = pool.total_flushed
        /\ signed_value(after) = signed_value(priced) + a
    <3> HIDE DEF priced
    <3> QED  BY <1>2, <2>1 DEF HwmKept, signed_value, Pool, U64
  <2>3. a \in Nat \ {0}
    BY <2>1
  <2> HIDE DEF after
  <2> QED  BY <2>1, <2>2, <2>3, MarkDeposited
<1>5. ASSUME NEW u \in Users, NEW l \in Nat, Withdraw(u, l) PROVE MarkStep
  BY <1>5, MarkWithdrawn
<1>6. ASSUME AccrueFees PROVE MarkStep
  <2>1. AccrueOk(pool, vault) /\ pool' = priced
    BY <1>6 DEF AccrueFees, pre_accrue_fee_modes
  <2> QED  BY <1>2, <2>1, MarkFrame DEF HwmKept
<1>7. ASSUME NEW a \in Nat, FlushToInsurance(a) PROVE MarkStep
  <2>1. /\ pool'.total_flushed = pool.total_flushed + a
        /\ pool'.epoch_high_water_tvl = SatSub(pool.epoch_high_water_tvl, a)
        /\ pool'.total_deposited = pool.total_deposited
        /\ pool'.total_withdrawn = pool.total_withdrawn
    BY <1>1, <1>7 DEF FlushToInsurance, Pool
  <2>2. /\ pool.total_flushed \in Nat /\ pool.total_deposited \in Nat
        /\ pool.total_withdrawn \in Nat
    BY <1>1 DEF Pool, U64
  <2>3. ~Watched /\ pool'.total_flushed - pool.total_flushed = a
    BY <2>1, <2>2 DEF Watched
  <2>4. /\ pool'.total_flushed - pool.total_flushed \in Nat
        /\ pool'.epoch_high_water_tvl =
              SatSub(pool.epoch_high_water_tvl, pool'.total_flushed - pool.total_flushed)
    BY <2>1, <2>3
  <2> QED  BY <2>3, <2>4 DEF MarkStep
<1>8. ASSUME NEW a \in Nat, ReturnInsurance(a) \/ RecoverFlushedInsurance(a)
      PROVE  MarkStep
  <2>1. /\ pool'.epoch_high_water_tvl = pool.epoch_high_water_tvl
        /\ pool'.total_flushed = pool.total_flushed
        /\ pool'.total_deposited = pool.total_deposited
        /\ pool'.total_withdrawn = pool.total_withdrawn
    BY <1>1, <1>8 DEF ReturnInsurance, RecoverFlushedInsurance, Recovered, Pool
  <2> QED  BY <2>1, MarkFrame
<1>9. ASSUME NEW m \in Nat, AdminSetTrancheConfig(m) PROVE MarkStep
  BY <1>1, <1>9, MarkFrame DEF AdminSetTrancheConfig, Pool
<1>10. ASSUME NEW u \in Users, NEW v \in Users, NEW n \in Nat, TransferLp(u, v, n)
       PROVE  MarkStep
  BY <1>10, MarkFrame DEF TransferLp
<1>11. ASSUME Clerical PROVE MarkStep
  <2>1. pool'.epoch_high_water_tvl = pool.epoch_high_water_tvl
    BY <1>1, <1>11 DEF Clerical, SetMarketResolved, AdminResolveMarket, AdminSetHwmConfig,
         UpdateConfig, ProposeCooldownIncrease, CommitCooldownIncrease,
         CancelCooldownIncrease, PushFees, ConsumeInsurance, Tick, Pool
  <2>2. BooksKept(pool, pool')
    BY <1>11, ClericalBooks
  <2> QED  BY <2>1, <2>2, MarkFrame DEF BooksKept
<1> QED  BY <1>3, <1>4, <1>5, <1>6, <1>7, <1>8, <1>9, <1>10, <1>11, StepKinds

(* The inductive invariant of the history: the mark of the account is at   *)
(* least the peak of its epoch less what was flushed since.                *)
MarkInv ==
    /\ peak \in Nat
    /\ lost \in Nat
    /\ pool.epoch_high_water_tvl >= peak - lost

(* Every step keeps it, and satisfies the floor.                           *)
LEMMA EpochNext ==
    LedgerInv /\ LedgerInv' /\ MarkInv /\ [HNext]_hvars => MarkInv' /\ [EpochFloorStep]_hvars
<1> SUFFICES ASSUME LedgerInv, LedgerInv', MarkInv, [HNext]_hvars
             PROVE  MarkInv' /\ [EpochFloorStep]_hvars
  OBVIOUS
<1>1. CASE UNCHANGED hvars
  BY <1>1 DEF hvars, vars, MarkInv
<1>2. CASE HNext
  <2>1. MarkStep /\ HistoryStep
    BY <1>2, MarkNext DEF HNext
  <2>2. /\ pool.epoch_high_water_tvl \in Nat /\ pool'.epoch_high_water_tvl \in Nat
        /\ pool.hwm_floor_bps \in Nat /\ pool.total_flushed \in Nat
        /\ pool.total_withdrawn \in Nat /\ pool'.total_withdrawn \in Nat
        /\ pool'.total_flushed \in Nat
    BY DEF LedgerInv, TypeOK, Pool, U64
  <2>3. /\ peak \in Nat /\ lost \in Nat /\ pool.epoch_high_water_tvl >= peak - lost
    BY DEF MarkInv
  <2>4. CASE ~Watched
    <3>1. peak' = peak /\ lost' = lost + pool'.total_flushed - pool.total_flushed
      BY <2>1, <2>4 DEF HistoryStep
    <3>2. \/ /\ pool'.epoch_high_water_tvl = pool.epoch_high_water_tvl
             /\ pool'.total_flushed = pool.total_flushed
          \/ /\ pool'.total_flushed - pool.total_flushed \in Nat
             /\ pool'.epoch_high_water_tvl =
                   SatSub(pool.epoch_high_water_tvl, pool'.total_flushed - pool.total_flushed)
      BY <2>1, <2>4 DEF MarkStep
    <3>3. MarkInv'
      BY <2>2, <2>3, <3>1, <3>2 DEF MarkInv, SatSub
    <3>4. EpochFloorStep
      BY <2>4 DEF EpochFloorStep, Watched
    <3> QED  BY <3>3, <3>4
  <2>5. CASE Watched
    <3>1. /\ peak' = IF Epoch # pool.hwm_last_epoch \/ Seen > peak THEN Seen ELSE peak
          /\ lost' = IF Epoch # pool.hwm_last_epoch THEN 0 ELSE lost
      BY <2>1, <2>5 DEF HistoryStep
    <3>2. /\ Seen \in Nat
          /\ pool'.epoch_high_water_tvl >= Seen
          /\ Epoch = pool.hwm_last_epoch =>
                pool'.epoch_high_water_tvl >= pool.epoch_high_water_tvl
          /\ pool'.total_withdrawn > pool.total_withdrawn =>
                /\ hwm_floor(pool'.epoch_high_water_tvl, pool.hwm_floor_bps) # None
                /\ total_pool_value(pool') >=
                      hwm_floor(pool'.epoch_high_water_tvl, pool.hwm_floor_bps)
      BY <2>1, <2>5 DEF MarkStep
    <3>3. /\ peak' \in Nat /\ lost' \in Nat
          /\ pool'.epoch_high_water_tvl >= peak' - lost'
      BY <2>2, <2>3, <3>1, <3>2
    <3>4. MarkInv'
      BY <3>3 DEF MarkInv
    <3>5. EpochFloorStep
      <4>1. /\ SatSub(peak', lost') \in Nat
            /\ SatSub(peak', lost') <= pool'.epoch_high_water_tvl
        <5> \A x, y, z \in Nat : z >= x - y => SatSub(x, y) \in Nat /\ SatSub(x, y) <= z
          BY DEF SatSub
        <5> QED  BY <2>2, <3>3
      <4> SUFFICES ASSUME pool'.total_withdrawn > pool.total_withdrawn
                   PROVE  total_pool_value(pool') >=
                             hwm_floor(SatSub(peak', lost'), pool.hwm_floor_bps)
        BY DEF EpochFloorStep
      <4>2. /\ hwm_floor(SatSub(peak', lost'), pool.hwm_floor_bps)
                  <= hwm_floor(pool'.epoch_high_water_tvl, pool.hwm_floor_bps)
            /\ hwm_floor(pool'.epoch_high_water_tvl, pool.hwm_floor_bps) \in Nat
        BY <2>2, <3>2, <4>1, FloorMonotone
      <4>3. total_pool_value(pool') \in Int /\ hwm_floor(SatSub(peak', lost'), pool.hwm_floor_bps) \in Int
        <5>1. pool' \in Pool
          BY ValueNext
        <5>2. (SatSub(peak', lost') * pool.hwm_floor_bps) \div BPS_DENOMINATOR \in Int
          BY <2>2, <4>1, DivBound DEF BPS_DENOMINATOR
        <5> QED  BY <5>1, <5>2, PoolValue DEF hwm_floor, Narrow, None, U64
      <4> QED  BY <3>2, <4>2, <4>3
    <3> QED  BY <3>4, <3>5
  <2> QED  BY <2>4, <2>5
<1> QED  BY <1>1, <1>2

(* A step of the history is a step of the program.                         *)
LEMMA HistoryIsProgram == HSpec => Spec
<1>1. HInit => Init
  BY DEF HInit
<1>2. [HNext]_hvars => [Next]_vars
  BY DEF HNext, hvars, vars
<1> QED  BY <1>1, <1>2, PTL DEF HSpec, Spec

(* PERC-313: the payouts of an epoch leave the floor of the highest value  *)
(* the pool had in it, net only of what was flushed in between.            *)
THEOREM EpochFloorHolds == HSpec => EpochFloor
<1>1. HInit => MarkInv
  BY DEF HInit, Init, FreshPool, MarkInv
<1> QED  BY <1>1, EpochNext, HistoryIsProgram, LedgerInvariance, PTL DEF HSpec, EpochFloor
----------------------------------------------------------------------------
(* The cooldown timelock.                                                  *)

(* Two pools agree on the cooldown and on the proposal.                    *)
CooldownKept(p, q) ==
    /\ q.cooldown_slots = p.cooldown_slots
    /\ q.pending_cooldown_slots = p.pending_cooldown_slots
    /\ q.cooldown_proposed_at_slot = p.cooldown_proposed_at_slot

(* Accruing fees leaves the cooldown alone.                                *)
LEMMA AccrueCooldown ==
    ASSUME NEW p \in Pool, NEW balance \in U64
    PROVE  CooldownKept(p, pre_accrue_fee_modes(p, balance))
<1> DEFINE fee == balance - total_pool_value(p)
           junior_fee == JuniorFee(p, fee)
<1> HIDE DEF fee, junior_fee
<1>1. CooldownKept(p, [p EXCEPT !.total_fees_earned = @ + fee, !.junior_balance = @ + junior_fee])
  BY DEF CooldownKept, Pool
<1> QED  BY <1>1 DEF CooldownKept, pre_accrue_fee_modes, Accrued, fee, junior_fee

(* So does refreshing the mark.                                            *)
LEMMA RefreshCooldown ==
    ASSUME NEW p \in Pool, NEW epoch, NEW tvl
    PROVE  CooldownKept(p, refresh_hwm(p, epoch, tvl))
BY DEF CooldownKept, refresh_hwm, Pool

(* So does burning shares.                                                 *)
LEMMA RedeemCooldown ==
    ASSUME NEW p \in Pool, NEW junior, NEW lp, NEW payout
    PROVE  CooldownKept(p, Redeemed(p, junior, lp, payout))
<1> DEFINE paid == [p EXCEPT !.total_withdrawn = @ + payout, !.total_lp_supply = @ - lp]
           forfeited == Forfeited(paid)
<1>1. CooldownKept(p, paid)
  BY DEF CooldownKept, Pool
<1>2. CooldownKept(paid, RedeemJunior(paid, lp, payout))
  <2> HIDE DEF forfeited
  <2>1. CooldownKept(paid, [paid EXCEPT !.junior_total_lp = 0, !.junior_balance = 0,
                                        !.total_returned = @ + forfeited,
                                        !.realized_junior_loss = @ + forfeited])
    BY DEF CooldownKept, Pool
  <2>2. CooldownKept(paid, [paid EXCEPT !.junior_total_lp = @ - lp, !.junior_balance = @ - payout])
    BY DEF CooldownKept, Pool
  <2> HIDE DEF paid
  <2> QED  BY <2>1, <2>2 DEF RedeemJunior, forfeited
<1>3. Redeemed(p, junior, lp, payout) =
         IF p.tranche_enabled /\ junior THEN RedeemJunior(paid, lp, payout) ELSE paid
  BY DEF Redeemed
<1> HIDE DEF paid
<1> QED  BY <1>1, <1>2, <1>3 DEF CooldownKept

(* What BookDeposit saves has the cooldown of the pool it was given.       *)
LEMMA BookCooldown ==
    ASSUME NEW u, NEW amount, NEW lp, NEW before, NEW after \in Pool, NEW junior,
           CooldownKept(pool, after), BookDeposit(u, amount, lp, before, after, junior)
    PROVE  CooldownKept(pool, pool') /\ slot' = slot
<1>1. pool' = MarkDeposit(after) /\ slot' = slot
  BY DEF BookDeposit
<1>2. CooldownKept(after, MarkDeposit(after))
  BY RefreshCooldown DEF MarkDeposit, CooldownKept
<1> QED  BY <1>1, <1>2 DEF CooldownKept

(* The steps that touch the cooldown or its proposal.                      *)
CooldownStep ==
    \/ \E c \in Args["cooldown"] \cup {None}, k \in (Args["cap"] \cap U64) \cup {None} :
          UpdateConfig(c, k)
    \/ \E c \in Args["propose"] : ProposeCooldownIncrease(c)
    \/ CommitCooldownIncrease
    \/ CancelCooldownIncrease

(* Every other step leaves both alone, and time only moves forward.        *)
LEMMA CooldownFrame ==
    ASSUME LedgerInv, Next, ~CooldownStep
    PROVE  CooldownKept(pool, pool') /\ slot' \in {slot, slot + 1}
<1>1. \A n \in ArgNames : Args[n] \subseteq Nat
  BY ArgsNat
<1>2. pool \in Pool /\ vault \in U64
  BY DEF LedgerInv, TypeOK
<1> DEFINE Goal == CooldownKept(pool, pool') /\ slot' \in {slot, slot + 1}
<1>3. ASSUME NEW u \in Users, NEW a \in Args["deposit"], Deposit(u, a) PROVE Goal
  <2> DEFINE priced == pre_accrue_fee_modes(pool, vault)
             lp == SeniorShares(priced, a)
             after == [priced EXCEPT !.total_deposited = @ + a, !.total_lp_supply = @ + lp]
  <2>1. AccrueOk(pool, vault) /\ BookDeposit(u, a, lp, priced, after, FALSE)
    BY <1>3 DEF Deposit, DepositOpen
  <2>2. priced \in Pool /\ CooldownKept(pool, priced)
    BY <1>2, <2>1, PricedPool, AccrueCooldown DEF LedgerInv
  <2>3. \A c \in Counters : after[c] \in U64
    BY <2>1 DEF BookDeposit, Checked
  <2>4. after.total_deposited \in U64 /\ after.total_lp_supply \in U64
    <3> HIDE DEF after
    <3> QED  BY <2>3 DEF Counters
  <2> HIDE DEF lp, priced
  <2>5. after \in Pool /\ CooldownKept(pool, after)
    BY <2>2, <2>4 DEF Pool, CooldownKept
  <2> HIDE DEF after
  <2> QED  BY <2>1, <2>5, BookCooldown
<1>4. ASSUME NEW u \in Users, NEW a \in Args["deposit_junior"], DepositJunior(u, a) PROVE Goal
  <2> DEFINE priced == pre_accrue_fee_modes(pool, vault)
             lp == JuniorShares(priced, a)
             after == [priced EXCEPT !.total_deposited = @ + a, !.total_lp_supply = @ + lp,
                                     !.junior_total_lp = @ + lp, !.junior_balance = @ + a]
  <2>1. AccrueOk(pool, vault) /\ BookDeposit(u, a, lp, priced, after, TRUE)
    BY <1>4 DEF DepositJunior, DepositOpen
  <2>2. priced \in Pool /\ CooldownKept(pool, priced)
    BY <1>2, <2>1, PricedPool, AccrueCooldown DEF LedgerInv
  <2>3. \A c \in Counters : after[c] \in U64
    BY <2>1 DEF BookDeposit, Checked
  <2>4. /\ after.total_deposited \in U64 /\ after.total_lp_supply \in U64
        /\ after.junior_total_lp \in U64 /\ after.junior_balance \in U64
    <3> HIDE DEF after
    <3> QED  BY <2>3 DEF Counters
  <2> HIDE DEF lp, priced
  <2>5. after \in Pool /\ CooldownKept(pool, after)
    BY <2>2, <2>4 DEF Pool, CooldownKept
  <2> HIDE DEF after
  <2> QED  BY <2>1, <2>5, BookCooldown
<1>5. ASSUME NEW u \in Users, NEW l \in Args["withdraw"], Withdraw(u, l) PROVE Goal
  <2> DEFINE priced == pre_accrue_fee_modes(pool, vault)
             junior == deposits[u].junior
             payout == Redemption(priced, junior, l)
             wiped == WipedJuniorExit(priced, junior, payout)
             marked == MarkWithdraw(priced, wiped)
  <2>1. /\ AccrueOk(pool, vault)
        /\ AboveFloor(priced, wiped, payout)
        /\ payout # None
        /\ pool' = Redeemed(marked, junior, l, payout)
        /\ slot' = slot
    BY <1>5 DEF Withdraw, WithdrawOpen
  <2>2. priced \in Pool /\ CooldownKept(pool, priced)
    BY <1>2, <2>1, PricedPool, AccrueCooldown DEF LedgerInv
  <2>3. junior \in BOOLEAN /\ slot \in U64 /\ l \in Nat
    BY <1>1 DEF LedgerInv, TypeOK, DepositRecord, ArgNames
  <2> HIDE DEF priced, junior
  <2>4. payout \in U64
    BY <2>1, <2>2, <2>3, RedemptionType
  <2> HIDE DEF payout, wiped
  <2>5. marked \in Pool /\ CooldownKept(priced, marked)
    <3>1. CASE priced.hwm_enabled /\ ~wiped
      <4>1. total_pool_value(priced) >= payout
        BY <2>1, <3>1 DEF AboveFloor
      <4>2. total_pool_value(priced) \in U64
        BY <2>2, <2>4, <4>1, PoolValue DEF None, U64
      <4>3. Epoch \in Nat
        BY <2>3, EpochType
      <4> QED  BY <2>2, <3>1, <4>2, <4>3, RefreshEffect, RefreshCooldown DEF MarkWithdraw
    <3>2. CASE ~(priced.hwm_enabled /\ ~wiped)
      BY <2>2, <3>2 DEF MarkWithdraw, CooldownKept
    <3> QED  BY <3>1, <3>2
  <2> HIDE DEF marked
  <2>6. CooldownKept(marked, pool')
    BY <2>1, <2>5, RedeemCooldown
  <2> QED  BY <2>1, <2>2, <2>5, <2>6 DEF CooldownKept
<1>6. ASSUME AccrueFees PROVE Goal
  BY <1>2, <1>6, AccrueCooldown DEF AccrueFees, pre_accrue_fee_modes
<1>7. ASSUME \/ \E a \in Args["flush"] : FlushToInsurance(a)
             \/ \E a \in Args["return"] : ReturnInsurance(a)
             \/ \E a \in Args["recover"] : RecoverFlushedInsurance(a)
      PROVE  Goal
  BY <1>2, <1>7 DEF FlushToInsurance, ReturnInsurance, RecoverFlushedInsurance, Recovered,
                    CooldownKept, Pool
<1>8. ASSUME SetMarketResolved PROVE Goal
  BY <1>2, <1>8 DEF SetMarketResolved, CooldownKept, Pool
<1>9. ASSUME NEW m \in Args["tranche"], AdminSetTrancheConfig(m) PROVE Goal
  BY <1>2, <1>9 DEF AdminSetTrancheConfig, CooldownKept, Pool
<1>10. ASSUME NEW e \in BOOLEAN, NEW b \in Args["hwm"], AdminSetHwmConfig(e, b) PROVE Goal
  BY <1>2, <1>10 DEF AdminSetHwmConfig, CooldownKept, Pool
<1>11. ASSUME \/ \E a \in Args["fees"] : PushFees(a)
              \/ \E a \in Args["consume"] : ConsumeInsurance(a)
              \/ AdminResolveMarket
              \/ \E u, v \in Users, n \in Args["lp_transfer"] : TransferLp(u, v, n)
              \/ Tick
       PROVE  Goal
  <2>1. pool' = pool /\ slot' \in {slot, slot + 1}
    BY <1>11 DEF PushFees, ConsumeInsurance, AdminResolveMarket, TransferLp, Tick
  <2> QED  BY <2>1 DEF CooldownKept
<1> QED  BY <1>3, <1>4, <1>5, <1>6, <1>7, <1>8, <1>9, <1>10, <1>11 DEF Next, CooldownStep

----------------------------------------------------------------------------

(* Every step keeps a waiting proposal an admissible increase.             *)
LEMMA PendingNext == LedgerInv /\ PendingRaises /\ [Next]_vars => PendingRaises'
<1> SUFFICES ASSUME LedgerInv, PendingRaises, [Next]_vars PROVE PendingRaises'
  OBVIOUS
<1> USE DEF PendingRaises, Proposed, validate_cooldown_slots
<1>1. /\ pool \in Pool /\ slot \in Int
      /\ pool.cooldown_slots \in Int /\ pool.pending_cooldown_slots \in Int
      /\ pool.cooldown_proposed_at_slot \in Int
  BY DEF LedgerInv, TypeOK, Pool, U64
<1>2. CASE UNCHANGED vars
  BY <1>2 DEF vars
<1>3. CASE Next /\ ~CooldownStep
  <2>1. CooldownKept(pool, pool') /\ slot' \in {slot, slot + 1}
    BY <1>3, CooldownFrame
  <2> QED  BY <1>1, <2>1 DEF CooldownKept
<1>4. ASSUME NEW c \in Args["cooldown"] \cup {None},
             NEW k \in (Args["cap"] \cap U64) \cup {None}, UpdateConfig(c, k)
      PROVE  PendingRaises'
  <2>1. /\ slot' = slot
        /\ c # None => c \in 1 .. MAX_COOLDOWN_SLOTS /\ c <= pool.cooldown_slots
        /\ pool' = [pool EXCEPT !.cooldown_slots = IF c = None THEN @ ELSE c,
                                !.deposit_cap = IF k = None THEN @ ELSE k]
    BY <1>4 DEF UpdateConfig, ImmediateCooldown
  <2>2. /\ pool'.pending_cooldown_slots = pool.pending_cooldown_slots
        /\ pool'.cooldown_proposed_at_slot = pool.cooldown_proposed_at_slot
        /\ pool'.cooldown_slots \in Int
        /\ pool'.cooldown_slots <= pool.cooldown_slots
    BY <1>1, <2>1 DEF Pool
  <2> QED  BY <1>1, <2>1, <2>2
<1>5. ASSUME NEW c \in Args["propose"], ProposeCooldownIncrease(c) PROVE PendingRaises'
  BY <1>1, <1>5 DEF ProposeCooldownIncrease, ProposalTimer, Pool
<1>6. CASE CommitCooldownIncrease \/ CancelCooldownIncrease
  <2>1. pool'.cooldown_proposed_at_slot = 0
    BY <1>1, <1>6 DEF CommitCooldownIncrease, CancelCooldownIncrease, Pool
  <2> QED  BY <2>1
<1> QED  BY <1>2, <1>3, <1>4, <1>5, <1>6 DEF CooldownStep

(* A waiting proposal always lengthens the cooldown, and a commit of it is *)
(* never refused by the defensive check.                                   *)
THEOREM ProposalsRaise == Spec => []PendingRaises
<1>1. Init => PendingRaises
  BY DEF Init, FreshPool, PendingRaises, Proposed
<1> QED  BY <1>1, PendingNext, LedgerInvariance, PTL DEF Spec

(* Every step respects the timelock.                                       *)
LEMMA ExitNext == LedgerInv /\ [Next]_vars => [ExitStep]_vars
<1> SUFFICES ASSUME LedgerInv, Next PROVE ExitStep
  OBVIOUS
<1>1. /\ pool \in Pool /\ slot \in Int /\ TIMELOCK_SLOTS \in Int
      /\ pool.cooldown_slots \in U64 /\ pool.cooldown_proposed_at_slot \in Int
      /\ deposits \in [Users -> DepositRecord]
      /\ \A u \in Users : deposits[u].last_deposit_slot \in U64
  BY ProgramAssumption DEF LedgerInv, TypeOK, Pool, DepositRecord, U64
<1>2. \A x \in U64, y \in U64 : SatAdd(x, y) \in Int
  BY U64Assumption DEF SatAdd, Lesser, U64
<1>3. ASSUME NEW u \in Users,
             deposits'[u].last_deposit_slot = deposits[u].last_deposit_slot,
             pool'.cooldown_slots = pool.cooldown_slots
      PROVE  ~(unlock_slot(deposits'[u], pool') > unlock_slot(deposits[u], pool))
  BY <1>1, <1>2, <1>3 DEF unlock_slot
<1>4. CASE ~CooldownStep
  <2>1. CooldownKept(pool, pool')
    BY <1>4, CooldownFrame
  <2> QED  BY <1>3, <2>1 DEF CooldownKept, ExitStep
<1>5. ASSUME NEW c \in Args["cooldown"] \cup {None},
             NEW k \in (Args["cap"] \cap U64) \cup {None}, UpdateConfig(c, k)
      PROVE  ExitStep
  <2>1. /\ deposits' = deposits
        /\ c # None => c \in 1 .. MAX_COOLDOWN_SLOTS /\ c <= pool.cooldown_slots
        /\ pool' = [pool EXCEPT !.cooldown_slots = IF c = None THEN @ ELSE c,
                                !.deposit_cap = IF k = None THEN @ ELSE k]
    BY <1>5 DEF UpdateConfig, ImmediateCooldown, validate_cooldown_slots
  <2>2. /\ pool'.pending_cooldown_slots = pool.pending_cooldown_slots
        /\ pool'.cooldown_proposed_at_slot = pool.cooldown_proposed_at_slot
        /\ pool'.cooldown_slots \in U64
        /\ pool'.cooldown_slots <= pool.cooldown_slots
    <3>1. MAX_COOLDOWN_SLOTS \in 1 .. U64_MAX
      BY ProgramAssumption
    <3>2. c # None => c \in U64
      BY <2>1, <3>1, U64Assumption DEF U64
    <3>3. pool.cooldown_slots <= pool.cooldown_slots
      BY <1>1 DEF U64
    <3> QED  BY <1>1, <2>1, <3>2, <3>3 DEF Pool
  <2>3. \A x, y, z \in U64 : z <= y => ~(SatAdd(x, z) > SatAdd(x, y))
    BY U64Assumption DEF SatAdd, Lesser, U64
  <2>4. \A u \in Users : ~(unlock_slot(deposits'[u], pool') > unlock_slot(deposits[u], pool))
    BY <1>1, <2>1, <2>2, <2>3 DEF unlock_slot
  <2> QED  BY <2>2, <2>4 DEF ExitStep
<1>6. ASSUME NEW c \in Args["propose"], ProposeCooldownIncrease(c) PROVE ExitStep
  <2>1. /\ pool'.cooldown_slots = pool.cooldown_slots
        /\ pool'.cooldown_proposed_at_slot = slot
        /\ deposits' = deposits
    BY <1>1, <1>6 DEF ProposeCooldownIncrease, ProposalTimer, Pool
  <2> QED  BY <1>3, <2>1 DEF ExitStep
<1>7. CASE CommitCooldownIncrease
  <2>1. /\ Proposed
        /\ slot >= pool.cooldown_proposed_at_slot + TIMELOCK_SLOTS
        /\ pool' = [pool EXCEPT !.cooldown_slots = pool.pending_cooldown_slots,
                                !.pending_cooldown_slots = 0,
                                !.cooldown_proposed_at_slot = 0]
    BY <1>7 DEF CommitCooldownIncrease, timelock_window_elapsed
  <2>2. /\ pool'.cooldown_slots = pool.pending_cooldown_slots
        /\ pool'.pending_cooldown_slots = 0
        /\ pool'.cooldown_proposed_at_slot = 0
    BY <1>1, <2>1 DEF Pool
  <2>3. slot - pool.cooldown_proposed_at_slot >= TIMELOCK_SLOTS
    BY <1>1, <2>1
  <2>4. \A x, y \in U64 : SatAdd(x, y) <= x + y
    BY U64Assumption DEF SatAdd, U64
  <2>5. \A u \in Users :
           /\ deposits[u].last_deposit_slot <= pool.cooldown_proposed_at_slot
           /\ pool.cooldown_slots <= TIMELOCK_SLOTS
           => slot >= unlock_slot(deposits[u], pool)
    <3> SUFFICES ASSUME NEW u \in Users,
                        deposits[u].last_deposit_slot <= pool.cooldown_proposed_at_slot,
                        pool.cooldown_slots <= TIMELOCK_SLOTS
                 PROVE  slot >= unlock_slot(deposits[u], pool)
      OBVIOUS
    <3>1. /\ deposits[u].last_deposit_slot \in Int /\ pool.cooldown_slots \in Int
          /\ unlock_slot(deposits[u], pool) \in Int
      BY <1>1, <1>2 DEF unlock_slot, U64
    <3>2. unlock_slot(deposits[u], pool)
             <= deposits[u].last_deposit_slot + pool.cooldown_slots
      BY <1>1, <2>4 DEF unlock_slot
    <3> HIDE DEF unlock_slot
    <3> QED  BY <1>1, <2>3, <3>1, <3>2
  <2> QED  BY <2>1, <2>2, <2>3, <2>5 DEF ExitStep
<1>8. CASE CancelCooldownIncrease
  <2>1. /\ pool'.cooldown_slots = pool.cooldown_slots
        /\ pool'.pending_cooldown_slots = 0
        /\ pool'.cooldown_proposed_at_slot = 0
        /\ deposits' = deposits
    BY <1>1, <1>8 DEF CancelCooldownIncrease, Pool
  <2> QED  BY <1>3, <2>1 DEF ExitStep
<1> QED  BY <1>4, <1>5, <1>6, <1>7, <1>8 DEF CooldownStep

(* #242: nobody's withdrawal is put off except by their own deposit or by  *)
(* a cooldown that has been public for TIMELOCK_SLOTS.                     *)
THEOREM TimelockHolds == Spec => ExitWindow
BY LedgerInvariance, ExitNext, PTL DEF Spec, ExitWindow
=============================================================================
