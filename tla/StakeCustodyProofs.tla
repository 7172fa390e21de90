------------------------- MODULE StakeCustodyProofs -------------------------
(***************************************************************************)
(* What the seal promises the money, for any set of users, wallets and     *)
(* amounts: no wallet draws on a sealed insurance fund, and the pool can   *)
(* always take back from it what it has left to recover and the market has *)
(* not used.                                                               *)
(***************************************************************************)
EXTENDS StakeCustody, StakeProofs

(* The inductive invariant.  The seal is recorded only once bind and burn  *)
(* are done, and both last: the burn because an asset admin that is gone   *)
(* cannot sign, the bind because only the burned admin or the PDA could    *)
(* move a role off the PDA.                                                *)
SealInv ==
    /\ roles \in [Keys!Roles -> Wallets \cup {vault_auth, Zero}]
    /\ admin \in Wallets
    /\ asset_admin_burned \in BOOLEAN
    /\ asset_admin_burned => roles["asset_admin"] = Zero
    /\ sealed \in BOOLEAN
    /\ sealed => Keys!Seal
    /\ drained_at_seal # None => sealed /\ drained = drained_at_seal

(* A market just created is not sealed.                                    *)
LEMMA SealInit == CInit => SealInv
BY CustodyAssumption
   DEF CInit, Keys!Init, Keys!Roles, SealInv

(* A call that leaves the keys and the histories alone keeps the seal.     *)
LEMMA KeysKept ==
    ASSUME SealInv,
           UNCHANGED <<key_vars, drained, drained_at_seal>>
    PROVE  SealInv'
BY DEF SealInv, Keys!Seal, key_vars

(* A call of the wrapper by a wallet moves no role of a sealed market.     *)
LEMMA SealedAgainstWallets ==
    ASSUME SealInv, NEW w \in Wallets, NEW role \in Keys!Roles,
           NEW new \in Wallets \cup {Zero}, Keys!DirectUpdate(w, role, new)
    PROVE  /\ roles' \in [Keys!Roles -> Wallets \cup {vault_auth, Zero}]
           /\ asset_admin_burned => roles'["asset_admin"] = Zero
           /\ ~Keys!Seal
<1>1. /\ roles' = [roles EXCEPT ![role] = new]
      /\ w \in {roles[role], roles["asset_admin"]}
  BY DEF Keys!DirectUpdate, Keys!Authorized, Keys!Updated
<1>2. roles' \in [Keys!Roles -> Wallets \cup {vault_auth, Zero}]
  BY <1>1 DEF SealInv
<1>3. asset_admin_burned => roles[role] = w /\ role # "asset_admin"
  BY <1>1, CustodyAssumption DEF SealInv, Keys!Roles
<1>4. asset_admin_burned => roles'["asset_admin"] = Zero
  BY <1>1, <1>3 DEF SealInv, Keys!Roles
<1>5. ~Keys!Seal
  BY <1>3, CustodyAssumption DEF Keys!Seal, Keys!Roles, Keys!Custody
<1> QED  BY <1>2, <1>4, <1>5

(* The instructions that move keys keep a seal, or set it.                 *)
LEMMA KeyStepKeeps ==
    ASSUME SealInv, KeyStep
    PROVE  SealInv'
<1>1. /\ sealed' = (sealed \/ Keys!Seal')
      /\ drained_at_seal' = IF sealed' /\ ~sealed THEN drained ELSE drained_at_seal
      /\ UNCHANGED drained
  BY DEF KeyStep, Keys!SealHistory
<1> DEFINE KeysOK == /\ roles' \in [Keys!Roles -> Wallets \cup {vault_auth, Zero}]
                     /\ admin' \in Wallets
                     /\ asset_admin_burned' \in BOOLEAN
                     /\ asset_admin_burned' => roles'["asset_admin"] = Zero
                     /\ Keys!Seal => Keys!Seal'
<1>2. ASSUME NEW k \in Wallets \cup {vault_auth, Zero}, Keys!ProposeAdmin(k) PROVE KeysOK
  BY <1>2 DEF Keys!ProposeAdmin, SealInv, Keys!Seal
<1>3. ASSUME Keys!AcceptAdmin PROVE KeysOK
  BY <1>3 DEF Keys!AcceptAdmin, SealInv, Keys!Seal
<1>4. ASSUME NEW w \in Wallets, NEW r \in Keys!Roles, NEW new \in Wallets \cup {Zero},
             Keys!DirectUpdate(w, r, new)
      PROVE  KeysOK
  BY <1>4, SealedAgainstWallets DEF Keys!DirectUpdate, SealInv
<1>5. ASSUME Keys!BindInsuranceAuthority PROVE KeysOK
  <2>1. /\ roles' = [[roles EXCEPT !["insurance_authority"] = vault_auth]
                        EXCEPT !["insurance_operator"] = vault_auth]
        /\ UNCHANGED <<admin, pending_admin, asset_admin_burned>>
    BY <1>5 DEF Keys!BindInsuranceAuthority, Keys!Updated
  <2>2. /\ roles' \in [Keys!Roles -> Wallets \cup {vault_auth, Zero}]
        /\ roles'["asset_admin"] = roles["asset_admin"]
        /\ \A r \in Keys!Custody : roles'[r] = vault_auth
    BY <2>1 DEF SealInv, Keys!Roles, Keys!Custody
  <2> QED  BY <2>1, <2>2 DEF SealInv, Keys!Seal
<1>6. ASSUME Keys!BurnAssetAdmin PROVE KeysOK
  BY <1>6 DEF Keys!BurnAssetAdmin, Keys!RolesBurned, Keys!Updated, Keys!Roles, SealInv, Keys!Seal
<1>7. ASSUME NEW w \in Wallets,
             Keys!RotateInsuranceOperator(w) \/ Keys!RotateInsuranceAuthority(w)
      PROVE  KeysOK
  <2>1. PICK role \in Keys!Custody : Keys!Rotate(role, w)
    BY <1>7 DEF Keys!RotateInsuranceOperator, Keys!RotateInsuranceAuthority, Keys!Custody
  <2>2. /\ ~asset_admin_burned
        /\ roles' = [roles EXCEPT ![role] = w]
        /\ UNCHANGED <<admin, pending_admin, asset_admin_burned>>
    BY <2>1 DEF Keys!Rotate, Keys!RotateOpen, Keys!Updated
  <2> QED  BY <2>2 DEF SealInv, Keys!Seal, Keys!Roles, Keys!Custody
<1>8. KeysOK
  BY <1>2, <1>3, <1>4, <1>5, <1>6, <1>7 DEF KeyStep
<1>9. /\ sealed' \in BOOLEAN
      /\ sealed' => Keys!Seal'
      /\ drained_at_seal' # None => sealed' /\ drained' = drained_at_seal'
  <2> HIDE DEF KeysOK
  <2>1. Keys!Seal => Keys!Seal'
    BY <1>8 DEF KeysOK
  <2> QED  BY <1>1, <2>1 DEF SealInv
<1> QED  BY <1>1, <1>8, <1>9 DEF SealInv

(* Every step keeps the invariant.                                         *)
LEMMA SealNext == SealInv /\ [CNext]_cvars => SealInv'
<1> SUFFICES ASSUME SealInv, [CNext]_cvars PROVE SealInv'
  OBVIOUS
<1>1. CASE UNCHANGED cvars
  BY <1>1, KeysKept DEF cvars, taken
<1>2. CASE \/ StakerStep
           \/ \E a \in Args["flush"] : Flush(a)
           \/ \E a \in Args["recover"] : Recover(a)
  BY <1>2, KeysKept DEF StakerStep, Flush, Recover, taken
<1>3. ASSUME NEW w \in Wallets, NEW a \in Args["consume"], OperatorWithdraw(w, a)
      PROVE  SealInv'
  <2>1. UNCHANGED <<key_vars, drained_at_seal>> /\ roles["insurance_operator"] = w
    BY <1>3 DEF OperatorWithdraw
  <2>2. ~Keys!Seal
    BY <2>1, CustodyAssumption DEF Keys!Seal, Keys!Custody
  <2> QED  BY <2>1, <2>2 DEF SealInv, Keys!Seal, key_vars
<1>4. CASE KeyStep
  BY <1>4, KeyStepKeeps
<1>5. CASE ResolveMarket
  <2>1. /\ UNCHANGED <<admin, roles, asset_admin_burned, drained, drained_at_seal>>
        /\ sealed' = (sealed \/ Keys!Seal')
    BY <1>5 DEF ResolveMarket, Keys!AdminResolveMarket, Keys!SealHistory, taken
  <2>2. Keys!Seal' <=> Keys!Seal
    BY <2>1 DEF Keys!Seal
  <2>3. sealed' \in BOOLEAN /\ (sealed' => Keys!Seal') /\ (sealed => sealed')
    BY <2>1, <2>2 DEF SealInv
  <2> QED  BY <2>1, <2>3 DEF SealInv
<1>6. ASSUME NEW a \in Args["consume"], PayDeficit(a)
      PROVE  SealInv'
  BY <1>6, KeysKept DEF PayDeficit
<1> QED  BY <1>1, <1>2, <1>3, <1>4, <1>5, <1>6 DEF CNext

(* The invariant holds throughout.                                         *)
THEOREM SealInvariance == CSpec => []SealInv
BY SealInit, SealNext, PTL DEF CSpec

(* From the seal on no wallet takes a token out of the insurance fund.     *)
THEOREM SealedFundUntouched == CSpec => []NoAdminDrain
<1>1. SealInv => NoAdminDrain
  BY DEF SealInv, NoAdminDrain
<1> QED  BY <1>1, SealInvariance, PTL
----------------------------------------------------------------------------
(* The parts of the composition.                                           *)

(* A step of the composition is a step of the money, or leaves it alone: a *)
(* wallet that uses the operator's role is to the pool a market that pays  *)
(* out of its fund.                                                        *)
LEMMA StepOfMoney ==
    ASSUME [CNext]_cvars
    PROVE  [Next]_vars
<1>1. CASE UNCHANGED cvars
  BY <1>1 DEF cvars, money_vars, vars
<1>2. CASE StakerStep
  BY <1>2 DEF StakerStep, Next
<1>3. CASE \/ \E a \in Args["flush"] : Flush(a)
           \/ \E a \in Args["recover"] : Recover(a)
  BY <1>3 DEF Flush, Recover, Next
<1>4. ASSUME NEW a \in Args["consume"],
             PayDeficit(a) \/ \E w \in Wallets : OperatorWithdraw(w, a)
      PROVE  Next
  <2>1. ConsumeInsurance(a)
    BY <1>4 DEF PayDeficit, OperatorWithdraw, ConsumeInsurance
  <2> QED  BY <2>1 DEF Next
<1>5. CASE KeyStep
  <2>1. market' = market
    BY <1>5 DEF KeyStep, Keys!ProposeAdmin, Keys!AcceptAdmin, Keys!DirectUpdate,
                Keys!BindInsuranceAuthority, Keys!BurnAssetAdmin,
                Keys!RotateInsuranceOperator, Keys!RotateInsuranceAuthority, Keys!Rotate
  <2>2. UNCHANGED money_vars
    BY <1>5 DEF KeyStep
  <2> QED  BY <2>1, <2>2 DEF money_vars, vars
<1>6. CASE ResolveMarket
  BY <1>6 DEF ResolveMarket, Next
<1> QED  BY <1>1, <1>2, <1>3, <1>4, <1>5, <1>6 DEF CNext

(* It is a step of the keys, or leaves them alone: the money handlers use  *)
(* roles and do not move them.                                             *)
LEMMA StepOfKeys ==
    ASSUME [CNext]_cvars
    PROVE  [Keys!Next]_(Keys!vars)
<1>1. CASE UNCHANGED cvars
  BY <1>1 DEF cvars, key_vars, Keys!vars
<1>2. CASE \/ StakerStep
           \/ \E a \in Args["flush"] : Flush(a)
           \/ \E a \in Args["recover"] : Recover(a)
  <2>1. market' = market
    <3>1. CASE StakerStep
      BY <3>1 DEF StakerStep, Deposit, DepositJunior, BookDeposit, Withdraw,
                  AdminSetTrancheConfig, Tick
    <3>2. CASE \E a \in Args["flush"] : Flush(a)
      BY <3>2 DEF Flush, FlushToInsurance
    <3>3. CASE \E a \in Args["recover"] : Recover(a)
      BY <3>3 DEF Recover, RecoverFlushedInsurance
    <3> QED  BY <1>2, <3>1, <3>2, <3>3
  <2>2. UNCHANGED key_vars
    BY <1>2 DEF StakerStep, Flush, Recover
  <2> QED  BY <2>1, <2>2 DEF key_vars, Keys!vars
<1>3. ASSUME NEW a \in Args["consume"],
             PayDeficit(a) \/ \E w \in Wallets : OperatorWithdraw(w, a)
      PROVE  UNCHANGED Keys!vars
  BY <1>3 DEF PayDeficit, ConsumeInsurance, OperatorWithdraw, key_vars, Keys!vars
<1>4. CASE KeyStep
  BY <1>4 DEF KeyStep, Keys!Next, Keys!Step
<1>5. CASE ResolveMarket
  BY <1>5 DEF ResolveMarket, Keys!Next, Keys!Step
<1> QED  BY <1>1, <1>2, <1>3, <1>4, <1>5 DEF CNext

(* Every behaviour of the composition is one of StakeProgram and one of    *)
(* StakeAuthority: what is proved of either holds of the money and of the  *)
(* keys when they meet.                                                    *)
THEOREM CustodyImplementsParts == CSpec => Spec /\ Keys!Spec
<1>1. CInit => Init /\ Keys!Init
  BY DEF CInit
<1>2. [CNext]_cvars => [Next]_vars
  BY StepOfMoney
<1>3. [CNext]_cvars => [Keys!Next]_(Keys!vars)
  BY StepOfKeys
<1> QED  BY <1>1, <1>2, <1>3, PTL DEF CSpec, Spec, Keys!Spec

----------------------------------------------------------------------------
(* The fund behind the seal.                                               *)

(* Where the tokens are: what was flushed and not recovered is in the fund *)
(* or was taken out of it, by a wallet or by the market, and what stakers  *)
(* put in and did not take out is in the vault, in the fund or was taken.  *)
(* Besides, nothing is returned but by recoveries and forfeits, and only a *)
(* pool that insures a market flushes.                                     *)
FundInv ==
    /\ drained \in Nat /\ consumed \in Nat
    /\ insurance + drained + consumed = pool.total_flushed - pool.total_recovered_from_wrapper
    /\ vault + insurance + drained + consumed = pool.total_deposited - pool.total_withdrawn
    /\ pool.total_returned = pool.total_recovered_from_wrapper + pool.realized_junior_loss
    /\ pool.total_flushed > 0 => pool.pool_mode = 0

(* The invariant starts with an empty pool.                                *)
LEMMA FundInit == CInit => FundInv
BY DEF CInit, Init, FreshPool, FundInv

(* Neither the accrual nor the mark nor a redemption turns an insurance    *)
(* pool into a trading pool, and of them only the redemption, by its       *)
(* payout, moves a token.                                                  *)
LEMMA TokensCounted ==
    ASSUME NEW p \in Pool, NEW balance, NEW epoch, NEW tvl, NEW junior, NEW lp, NEW payout
    PROVE  /\ Accrued(p, balance).pool_mode = p.pool_mode
           /\ Accrued(p, balance).total_deposited = p.total_deposited
           /\ Accrued(p, balance).total_withdrawn = p.total_withdrawn
           /\ refresh_hwm(p, epoch, tvl).pool_mode = p.pool_mode
           /\ Redeemed(p, junior, lp, payout).pool_mode = p.pool_mode
           /\ Redeemed(p, junior, lp, payout).total_deposited = p.total_deposited
           /\ Redeemed(p, junior, lp, payout).total_withdrawn = p.total_withdrawn + payout
<1>1. /\ Accrued(p, balance).pool_mode = p.pool_mode
      /\ Accrued(p, balance).total_deposited = p.total_deposited
      /\ Accrued(p, balance).total_withdrawn = p.total_withdrawn
  BY DEF Accrued, Pool
<1>2. refresh_hwm(p, epoch, tvl).pool_mode = p.pool_mode
  BY DEF refresh_hwm, Pool
<1>3. /\ Redeemed(p, junior, lp, payout).pool_mode = p.pool_mode
      /\ Redeemed(p, junior, lp, payout).total_deposited = p.total_deposited
      /\ Redeemed(p, junior, lp, payout).total_withdrawn = p.total_withdrawn + payout
  <2> DEFINE paid == [p EXCEPT !.total_withdrawn = @ + payout, !.total_lp_supply = @ - lp]
  <2>1. /\ paid.pool_mode = p.pool_mode
        /\ paid.total_deposited = p.total_deposited
        /\ paid.total_withdrawn = p.total_withdrawn + payout
    BY DEF Pool
  <2>2. /\ RedeemJunior(paid, lp, payout).pool_mode = paid.pool_mode
        /\ RedeemJunior(paid, lp, payout).total_deposited = paid.total_deposited
        /\ RedeemJunior(paid, lp, payout).total_withdrawn = paid.total_withdrawn
    BY DEF RedeemJunior, Pool
  <2> QED  BY <2>1, <2>2 DEF Redeemed
<1> QED  BY <1>1, <1>2, <1>3

(* What a deposit into either tranche does to the tokens.                  *)
LEMMA DepositTokens ==
    ASSUME LedgerInv, NEW u \in Users, NEW amount \in Nat,
           Deposit(u, amount) \/ DepositJunior(u, amount)
    PROVE  /\ vault' = vault + amount /\ insurance' = insurance
           /\ pool'.total_deposited = pool.total_deposited + amount
           /\ pool'.total_withdrawn = pool.total_withdrawn
           /\ pool'.pool_mode = pool.pool_mode
           /\ InsuranceKept(pool, pool')
<1>1. pool \in Pool /\ vault \in U64
  BY DEF LedgerInv, TypeOK
<1> DEFINE priced == pre_accrue_fee_modes(pool, vault)
<1>2. priced \in Pool
  BY PricedBooks DEF Deposit, DepositJunior, DepositOpen
<1>3. /\ priced.total_deposited = pool.total_deposited
      /\ priced.total_withdrawn = pool.total_withdrawn
      /\ priced.pool_mode = pool.pool_mode
  BY <1>1, TokensCounted DEF pre_accrue_fee_modes
<1>4. InsuranceKept(pool, pool')
  BY DepositStep, DepositJuniorStep
<1>5. PICK after \in Pool, lp \in U64, junior \in BOOLEAN :
         /\ BooksKept(after, pool')
         /\ BookDeposit(u, amount, lp, priced, after, junior)
         /\ after.total_deposited = priced.total_deposited + amount
         /\ after.total_withdrawn = priced.total_withdrawn
         /\ after.pool_mode = priced.pool_mode
  <2> HIDE DEF priced
  <2>1. CASE Deposit(u, amount)
    <3> DEFINE lp == SeniorShares(priced, amount)
               after == [priced EXCEPT !.total_deposited = @ + amount, !.total_lp_supply = @ + lp]
    <3>1. /\ after \in Pool /\ BooksKept(after, pool') /\ lp \in U64
          /\ BookDeposit(u, amount, lp, priced, after, FALSE)
      BY <2>1, DepositBooks DEF priced
    <3>2. /\ after.total_deposited = priced.total_deposited + amount
          /\ after.total_withdrawn = priced.total_withdrawn
          /\ after.pool_mode = priced.pool_mode
      BY <1>2 DEF Pool
    <3> HIDE DEF after, lp
    <3> QED  BY <3>1, <3>2
  <2>2. CASE DepositJunior(u, amount)
    <3> DEFINE lp == JuniorShares(priced, amount)
               after == [priced EXCEPT !.total_deposited = @ + amount, !.total_lp_supply = @ + lp,
                                       !.junior_total_lp = @ + lp, !.junior_balance = @ + amount]
    <3>1. /\ after \in Pool /\ BooksKept(after, pool') /\ lp \in U64
          /\ BookDeposit(u, amount, lp, priced, after, TRUE)
      BY <2>2, DepositJuniorBooks DEF priced
    <3>2. /\ after.total_deposited = priced.total_deposited + amount
          /\ after.total_withdrawn = priced.total_withdrawn
          /\ after.pool_mode = priced.pool_mode
      BY <1>2 DEF Pool
    <3> HIDE DEF after, lp
    <3> QED  BY <3>1, <3>2
  <2> QED  BY <2>1, <2>2
<1> HIDE DEF priced
<1>6. /\ pool' = MarkDeposit(after) /\ vault' = vault + amount /\ insurance' = insurance
  BY <1>5 DEF BookDeposit
<1>7. pool'.pool_mode = after.pool_mode
  BY <1>6, TokensCounted DEF MarkDeposit
<1>8. pool'.total_deposited = after.total_deposited /\ pool'.total_withdrawn = after.total_withdrawn
  BY <1>5 DEF BooksKept
<1> QED  BY <1>3, <1>4, <1>5, <1>6, <1>7, <1>8

(* What a withdrawal does to the tokens: a loss it settles is settled on   *)
(* both sides.                                                             *)
LEMMA WithdrawTokens ==
    ASSUME LedgerInv, NEW u \in Users, NEW lp \in Nat, Withdraw(u, lp)
    PROVE  \E payout \in Nat :
              /\ vault' = vault - payout /\ insurance' = insurance
              /\ pool'.total_deposited = pool.total_deposited
              /\ pool'.total_withdrawn = pool.total_withdrawn + payout
              /\ pool'.pool_mode = pool.pool_mode
              /\ pool'.total_flushed = pool.total_flushed
              /\ pool'.total_recovered_from_wrapper = pool.total_recovered_from_wrapper
              /\ pool'.total_returned - pool'.realized_junior_loss =
                    pool.total_returned - pool.realized_junior_loss
<1>1. pool \in Pool /\ vault \in U64 /\ deposits[u].junior \in BOOLEAN
  BY DEF LedgerInv, TypeOK, DepositRecord
<1> DEFINE priced == pre_accrue_fee_modes(pool, vault)
           junior == deposits[u].junior
           payout == Redemption(priced, junior, lp)
           wiped == WipedJuniorExit(priced, junior, payout)
           marked == MarkWithdraw(priced, wiped)
           after == Redeemed(marked, junior, lp, payout)
<1>2. /\ pool' = after /\ Checked(after)
      /\ vault' = vault - payout /\ insurance' = insurance
      /\ AccrueOk(pool, vault)
  BY DEF Withdraw, WithdrawOpen
<1>3. priced \in Pool /\ total_pool_value(priced) \in U64
  BY <1>2, PricedBooks
<1>4. /\ priced.total_deposited = pool.total_deposited
      /\ priced.total_withdrawn = pool.total_withdrawn
      /\ priced.pool_mode = pool.pool_mode
      /\ InsuranceKept(pool, priced)
  BY <1>1, <1>2, TokensCounted, AccrueEffect DEF pre_accrue_fee_modes
<1>5. payout \in Nat
  BY WithdrawBooks DEF U64
<1> HIDE DEF priced, junior, payout, wiped
<1>6. /\ marked \in Pool /\ BooksKept(priced, marked)
      /\ marked.pool_mode = priced.pool_mode
  <2>1. Epoch \in Nat
    BY EpochType DEF LedgerInv, TypeOK
  <2>2. marked = priced \/ marked = refresh_hwm(priced, Epoch, total_pool_value(priced))
    BY DEF MarkWithdraw
  <2> HIDE DEF marked
  <2>3. BooksKept(priced, priced)
    BY DEF BooksKept
  <2>4. LET q == refresh_hwm(priced, Epoch, total_pool_value(priced))
        IN  q \in Pool /\ BooksKept(priced, q) /\ q.pool_mode = priced.pool_mode
    <3>1. refresh_hwm(priced, Epoch, total_pool_value(priced)).pool_mode = priced.pool_mode
      BY <1>3 DEF refresh_hwm, Pool
    <3> QED  BY <1>3, <2>1, <3>1, RefreshEffect, RefreshBooks
  <2> QED  BY <1>3, <2>2, <2>3, <2>4
<1> HIDE DEF marked
<1>7. /\ after.pool_mode = marked.pool_mode
      /\ after.total_deposited = marked.total_deposited
      /\ after.total_withdrawn = marked.total_withdrawn + payout
  BY <1>6, TokensCounted
<1>8. /\ after \in Pool
      /\ after.total_flushed = marked.total_flushed
      /\ after.total_recovered_from_wrapper = marked.total_recovered_from_wrapper
      /\ after.realized_junior_loss - marked.realized_junior_loss =
            after.total_returned - marked.total_returned
  BY <1>1, <1>2, <1>5, <1>6, RedeemEffect DEF junior
<1> HIDE DEF after
<1>9. /\ after.total_deposited = pool.total_deposited
      /\ after.total_withdrawn = pool.total_withdrawn + payout
      /\ after.pool_mode = pool.pool_mode
      /\ after.total_flushed = pool.total_flushed
      /\ after.total_recovered_from_wrapper = pool.total_recovered_from_wrapper
  BY <1>4, <1>6, <1>7, <1>8 DEF BooksKept, InsuranceKept
<1>10. after.total_returned - after.realized_junior_loss =
          pool.total_returned - pool.realized_junior_loss
  <2>1. /\ marked.total_returned = pool.total_returned
        /\ marked.realized_junior_loss = pool.realized_junior_loss
    BY <1>4, <1>6 DEF BooksKept, InsuranceKept
  <2>2. /\ after.total_returned \in Int /\ after.realized_junior_loss \in Int
        /\ pool.total_returned \in Int /\ pool.realized_junior_loss \in Int
    BY <1>1, <1>8 DEF Pool, U64
  <2> QED  BY <1>8, <2>1, <2>2
<1> QED  BY <1>2, <1>5, <1>9, <1>10

(* Tokens leave the vault for the fund and come back from it.              *)
LEMMA InsuranceTokens ==
    ASSUME LedgerInv, NEW a \in Nat
    PROVE  /\ FlushToInsurance(a) =>
                 /\ pool.pool_mode = 0
                 /\ vault' = vault - a /\ insurance' = insurance + a
                 /\ pool' = [pool EXCEPT !.total_flushed = @ + a,
                                         !.epoch_high_water_tvl = SatSub(@, a)]
           /\ RecoverFlushedInsurance(a) =>
                 /\ vault' = vault + a /\ insurance' = insurance - a
                 /\ pool' = [pool EXCEPT !.total_returned = @ + a,
                                         !.total_recovered_from_wrapper = @ + a]
BY DEF FlushToInsurance, RecoverFlushedInsurance, Recovered

(* Every step keeps the count of the tokens.                               *)
LEMMA FundNext == LedgerInv /\ FundInv /\ [CNext]_cvars => FundInv'
<1> SUFFICES ASSUME LedgerInv, FundInv, [CNext]_cvars PROVE FundInv'
  OBVIOUS
<1>1. pool \in Pool /\ vault \in Nat /\ insurance \in Nat /\ drained \in Nat /\ consumed \in Nat
  BY DEF LedgerInv, TypeOK, FundInv, U64
<1>2. /\ pool.total_flushed \in Nat /\ pool.total_returned \in Nat
      /\ pool.total_recovered_from_wrapper \in Nat /\ pool.realized_junior_loss \in Nat
      /\ pool.total_deposited \in Nat /\ pool.total_withdrawn \in Nat
  BY <1>1 DEF Pool, U64
<1>3. /\ Args["deposit"] \subseteq Nat /\ Args["deposit_junior"] \subseteq Nat
      /\ Args["withdraw"] \subseteq Nat /\ Args["flush"] \subseteq Nat
      /\ Args["recover"] \subseteq Nat /\ Args["consume"] \subseteq Nat
      /\ Args["tranche"] \subseteq Nat
  BY ArgsNat DEF ArgNames
<1>4. ASSUME UNCHANGED <<pool, vault, insurance, consumed, drained>> PROVE FundInv'
  BY <1>4 DEF FundInv
<1>5. ASSUME StakerStep PROVE FundInv'
  <2>1. drained' = drained /\ consumed' = consumed
    BY <1>5 DEF StakerStep, taken
  <2>2. ASSUME NEW u \in Users, NEW a \in Nat, Deposit(u, a) \/ DepositJunior(u, a)
        PROVE  FundInv'
    <3>1. /\ vault' = vault + a /\ insurance' = insurance
          /\ pool'.total_deposited = pool.total_deposited + a
          /\ pool'.total_withdrawn = pool.total_withdrawn
          /\ pool'.pool_mode = pool.pool_mode
          /\ InsuranceKept(pool, pool')
      BY <2>2, DepositTokens
    <3>2. /\ pool'.total_flushed = pool.total_flushed
          /\ pool'.total_returned = pool.total_returned
          /\ pool'.total_recovered_from_wrapper = pool.total_recovered_from_wrapper
          /\ pool'.realized_junior_loss = pool.realized_junior_loss
      BY <3>1 DEF InsuranceKept
    <3>3. vault' + insurance' + drained' + consumed' = pool'.total_deposited - pool'.total_withdrawn
      <4>1. vault + insurance + drained + consumed = pool.total_deposited - pool.total_withdrawn
        BY DEF FundInv
      <4> QED  BY <1>1, <1>2, <2>1, <3>1, <4>1
    <3> QED  BY <2>1, <3>1, <3>2, <3>3 DEF FundInv
  <2>3. ASSUME NEW u \in Users, NEW l \in Nat, Withdraw(u, l)
        PROVE  FundInv'
    <3>1. PICK payout \in Nat :
             /\ vault' = vault - payout /\ insurance' = insurance
             /\ pool'.total_deposited = pool.total_deposited
             /\ pool'.total_withdrawn = pool.total_withdrawn + payout
             /\ pool'.pool_mode = pool.pool_mode
             /\ pool'.total_flushed = pool.total_flushed
             /\ pool'.total_recovered_from_wrapper = pool.total_recovered_from_wrapper
             /\ pool'.total_returned - pool'.realized_junior_loss =
                   pool.total_returned - pool.realized_junior_loss
      BY <2>3, WithdrawTokens
    <3>2. pool'.total_returned \in Int /\ pool'.realized_junior_loss \in Int
      BY <2>3, WithdrawStep DEF LedgerInv, TypeOK, Pool, U64
    <3>3. vault' + insurance' + drained' + consumed' = pool'.total_deposited - pool'.total_withdrawn
      <4>1. vault + insurance + drained + consumed = pool.total_deposited - pool.total_withdrawn
        BY DEF FundInv
      <4> QED  BY <1>1, <1>2, <2>1, <3>1, <4>1
    <3>4. pool'.total_returned = pool'.total_recovered_from_wrapper + pool'.realized_junior_loss
      <4>1. pool.total_returned = pool.total_recovered_from_wrapper + pool.realized_junior_loss
        BY DEF FundInv
      <4> QED  BY <1>2, <3>1, <3>2, <4>1
    <3> QED  BY <2>1, <3>1, <3>3, <3>4 DEF FundInv
  <2>4. ASSUME NEW m \in Nat, AdminSetTrancheConfig(m)
        PROVE  FundInv'
    <3>1. /\ vault' = vault /\ insurance' = insurance
          /\ pool' = [pool EXCEPT !.tranche_enabled = TRUE, !.junior_fee_mult_bps = m]
      BY <2>4 DEF AdminSetTrancheConfig
    <3>2. /\ pool'.total_flushed = pool.total_flushed
          /\ pool'.total_returned = pool.total_returned
          /\ pool'.total_recovered_from_wrapper = pool.total_recovered_from_wrapper
          /\ pool'.realized_junior_loss = pool.realized_junior_loss
          /\ pool'.total_deposited = pool.total_deposited
          /\ pool'.total_withdrawn = pool.total_withdrawn
          /\ pool'.pool_mode = pool.pool_mode
      BY <1>1, <3>1 DEF Pool
    <3> QED  BY <2>1, <3>1, <3>2 DEF FundInv
  <2>5. ASSUME Tick PROVE FundInv'
    BY <1>4, <2>1, <2>5 DEF Tick
  <2> QED  BY <1>3, <1>5, <2>2, <2>3, <2>4, <2>5 DEF StakerStep
<1>6. ASSUME NEW a \in Nat, Flush(a) PROVE FundInv'
  <2>1. FlushToInsurance(a) /\ drained' = drained /\ consumed' = consumed
    BY <1>6 DEF Flush, taken
  <2>2. /\ vault' = vault - a /\ insurance' = insurance + a
        /\ pool'.total_flushed = pool.total_flushed + a
        /\ pool'.pool_mode = 0
        /\ pool'.total_deposited = pool.total_deposited
        /\ pool'.total_withdrawn = pool.total_withdrawn
        /\ pool'.total_returned = pool.total_returned
        /\ pool'.total_recovered_from_wrapper = pool.total_recovered_from_wrapper
        /\ pool'.realized_junior_loss = pool.realized_junior_loss
    <3>1. /\ pool.pool_mode = 0
          /\ vault' = vault - a /\ insurance' = insurance + a
          /\ pool' = [pool EXCEPT !.total_flushed = @ + a, !.epoch_high_water_tvl = SatSub(@, a)]
      BY <2>1, InsuranceTokens
    <3> QED  BY <1>1, <3>1 DEF Pool
  <2> QED  BY <1>1, <1>2, <2>1, <2>2 DEF FundInv
<1>7. ASSUME NEW a \in Nat, Recover(a) PROVE FundInv'
  <2>1. RecoverFlushedInsurance(a) /\ drained' = drained /\ consumed' = consumed
    BY <1>7 DEF Recover, taken
  <2>2. /\ vault' = vault + a /\ insurance' = insurance - a
        /\ pool'.total_flushed = pool.total_flushed
        /\ pool'.pool_mode = pool.pool_mode
        /\ pool'.total_deposited = pool.total_deposited
        /\ pool'.total_withdrawn = pool.total_withdrawn
        /\ pool'.total_returned = pool.total_returned + a
        /\ pool'.total_recovered_from_wrapper = pool.total_recovered_from_wrapper + a
        /\ pool'.realized_junior_loss = pool.realized_junior_loss
    <3>1. /\ vault' = vault + a /\ insurance' = insurance - a
          /\ pool' = [pool EXCEPT !.total_returned = @ + a, !.total_recovered_from_wrapper = @ + a]
      BY <2>1, InsuranceTokens
    <3> QED  BY <1>1, <3>1 DEF Pool
  <2> QED  BY <1>1, <1>2, <2>1, <2>2 DEF FundInv
<1>8. ASSUME NEW a \in Nat, PayDeficit(a) \/ \E w \in Wallets : OperatorWithdraw(w, a)
      PROVE  FundInv'
  <2>1. /\ insurance' = insurance - a /\ pool' = pool /\ vault' = vault
        /\ \/ drained' = drained + a /\ consumed' = consumed
           \/ drained' = drained /\ consumed' = consumed + a
    BY <1>8 DEF PayDeficit, ConsumeInsurance, OperatorWithdraw
  <2> QED  BY <1>1, <1>2, <2>1 DEF FundInv
<1>9. ASSUME KeyStep \/ ResolveMarket \/ UNCHANGED cvars PROVE FundInv'
  BY <1>4, <1>9 DEF KeyStep, ResolveMarket, AdminResolveMarket, cvars, money_vars, taken
<1> QED  BY <1>3, <1>5, <1>6, <1>7, <1>8, <1>9 DEF CNext

(* The count of the tokens holds throughout.                               *)
THEOREM FundInvariance == CSpec => [](LedgerInv /\ SealInv /\ FundInv)
<1>1. CSpec => []LedgerInv
  BY CustodyImplementsParts, LedgerInvariance, PTL
<1>2. LedgerInv /\ FundInv /\ [CNext]_cvars => FundInv'
  BY FundNext
<1> QED  BY <1>1, <1>2, FundInit, SealInvariance, PTL DEF CSpec

(* Of a sealed fund no wallet drew on before, only the market has used     *)
(* anything the pool has left to recover, and the rest is open to recovery *)
(* in any parts.                                                           *)
THEOREM SealedFundStaysOpen == CSpec => []SealedFundOpen
<1>1. ASSUME LedgerInv, SealInv, FundInv, drained_at_seal = 0,
             NEW a \in 1 .. Lesser(wrapper_recoverable(pool), insurance)
      PROVE  HeldByPda("insurance_operator") /\ RecoveryOpen(a)
  <2>1. Keys!Seal /\ drained = 0
    BY <1>1 DEF SealInv, None
  <2>2. HeldByPda("insurance_operator")
    BY <2>1 DEF Keys!Seal, HeldByPda, Keys!Custody
  <2>3. pool \in Pool /\ vault \in Nat /\ insurance \in Nat
    BY <1>1 DEF LedgerInv, TypeOK, U64
  <2>4. /\ pool.total_flushed \in U64 /\ pool.total_returned \in Nat
        /\ pool.total_recovered_from_wrapper \in Nat /\ pool.realized_junior_loss \in Nat
        /\ pool.total_deposited \in U64 /\ pool.total_withdrawn \in Nat
    BY <2>3 DEF Pool, U64
  <2>5. /\ a \in Nat /\ a > 0 /\ a <= wrapper_recoverable(pool) /\ a <= insurance
        /\ a <= pool.total_flushed - pool.realized_junior_loss - pool.total_recovered_from_wrapper
    BY <2>3, <2>4 DEF wrapper_recoverable, SatSub, Lesser, U64
  <2>6. pool.pool_mode = 0
    BY <1>1, <2>1, <2>3, <2>4, <2>5 DEF FundInv, U64
  <2>7. market = "Live"
    BY <1>1, <2>4, <2>5 DEF LedgerInv, TypeOK, NothingStranded, U64
  <2>8. vault + a \in U64
    BY <1>1, <2>1, <2>3, <2>4, <2>5, <2>6, U64Assumption DEF FundInv, U64
  <2>9. Checked(Recovered(pool, a))
    <3>1. pool.total_returned + a \in U64 /\ pool.total_recovered_from_wrapper + a \in U64
      BY <1>1, <2>4, <2>5, U64Assumption DEF FundInv, U64
    <3>2. Recovered(pool, a) \in Pool
      BY <2>3, <3>1 DEF Recovered, Pool
    <3> QED  BY <3>2 DEF Checked, Counters, Pool
  <2> QED  BY <2>2, <2>5, <2>6, <2>7, <2>8, <2>9 DEF RecoveryOpen
<1>2. ASSUME LedgerInv, SealInv, FundInv, drained_at_seal = 0
      PROVE  wrapper_recoverable(pool) <= insurance + consumed
  <2>1. drained = 0
    BY <1>2 DEF SealInv, None
  <2>2. /\ pool.total_flushed \in Nat /\ pool.total_recovered_from_wrapper \in Nat
        /\ pool.realized_junior_loss \in Nat /\ insurance \in Nat
    BY <1>2 DEF LedgerInv, TypeOK, Pool, U64
  <2> QED  BY <1>2, <2>1, <2>2 DEF FundInv, wrapper_recoverable, SatSub
<1>3. LedgerInv /\ SealInv /\ FundInv => SealedFundOpen
  BY <1>1, <1>2 DEF SealedFundOpen
<1> QED  BY <1>3, FundInvariance, PTL

=============================================================================
