---------------------------- MODULE StakeCustody ----------------------------
(***************************************************************************)
(* The money of a pool and the keys of its market together.  StakeProgram  *)
(* moves the insurance with every role in place, and StakeAuthority moves  *)
(* the roles with no money behind them; here a flush or a recovery is      *)
(* possible only while the PDA holds the role it signs with, a wallet that *)
(* holds a role uses it at the wrapper itself, and the market pays its     *)
(* deficits out of the fund.                                               *)
(*                                                                         *)
(* Stakers of both tranches come and go.  Of StakeProgram's steps, fees    *)
(* and the admin's own returns stay out, as they bring tokens that were    *)
(* never in the fund; so do SetMarketResolved, the settings of the floor,  *)
(* the cap and the cooldown, which refuse or put off steps of stakers and  *)
(* flushes that are possible here, and LP transfers.                       *)
(* The fee policies, which move neither a token nor a key, do too.         *)
(***************************************************************************)
EXTENDS StakeProgram

CONSTANTS
    Wallets, vault_auth, Zero

ASSUME CustodyAssumption ==
    /\ vault_auth \notin Wallets
    /\ Zero \notin Wallets
    /\ vault_auth # Zero

VARIABLES
    admin, pending_admin, proposer, asset_admin_burned, roles, policy, sealed,
    consumed,         \* history: what the market took out of the insurance fund
    drained,          \* history: what wallets took out of the insurance fund
    drained_at_seal   \* history: drained when bind and burn were both done, or None

Keys == INSTANCE StakeAuthority WITH FeeValues <- {}

money_vars == <<pool, deposits, lp_tokens, vault, insurance, slot>>

key_vars == <<admin, pending_admin, proposer, asset_admin_burned, roles, policy, sealed>>

taken == <<consumed, drained, drained_at_seal>>

cvars == <<money_vars, key_vars, market, taken>>

CInit ==
    /\ Init
    /\ Keys!Init
    /\ consumed = 0
    /\ drained = 0
    /\ drained_at_seal = None

----------------------------------------------------------------------------
(* Money.                                                                  *)

\* Handlers that need no role of the market: stakers of both tranches come
\* and go.
StakerStep ==
    /\ \/ \E u \in Users, a \in Args["deposit"] : Deposit(u, a)
       \/ \E u \in Users, a \in Args["deposit_junior"] : DepositJunior(u, a)
       \/ \E u \in Users, l \in Args["withdraw"] : Withdraw(u, l)
       \/ \E m \in Args["tranche"] : AdminSetTrancheConfig(m)
       \/ Tick
    /\ UNCHANGED <<key_vars, taken>>

\* The CPIs of flush and recovery are signed by the PDA.
HeldByPda(role) == roles[role] = vault_auth

Flush(a) ==
    /\ HeldByPda("insurance_authority")
    /\ FlushToInsurance(a)
    /\ UNCHANGED <<key_vars, taken>>

Recover(a) ==
    /\ HeldByPda("insurance_operator")
    /\ RecoverFlushedInsurance(a)
    /\ UNCHANGED <<key_vars, taken>>

\* External: the market pays a deficit; it asks nobody.
PayDeficit(a) ==
    /\ ConsumeInsurance(a)
    /\ consumed' = consumed + a
    /\ UNCHANGED <<key_vars, drained, drained_at_seal>>

\* External: a wallet that is insurance operator withdraws to itself (tag 57).
OperatorWithdraw(w, a) ==
    /\ roles["insurance_operator"] = w
    /\ market = "Live"
    /\ a > 0
    /\ a <= insurance
    /\ insurance' = insurance - a
    /\ drained' = drained + a
    /\ UNCHANGED <<pool, deposits, lp_tokens, vault, slot, key_vars, market,
                   consumed, drained_at_seal>>

----------------------------------------------------------------------------
(* Keys.                                                                   *)

KeyStep ==
    /\ \/ \E k \in Wallets \cup {vault_auth, Zero} : Keys!ProposeAdmin(k)
       \/ Keys!AcceptAdmin
       \/ \E w \in Wallets, r \in Keys!Roles, new \in Wallets \cup {Zero} :
             Keys!DirectUpdate(w, r, new)
       \/ Keys!BindInsuranceAuthority
       \/ Keys!BurnAssetAdmin
       \/ \E w \in Wallets : Keys!RotateInsuranceOperator(w)
       \/ \E w \in Wallets : Keys!RotateInsuranceAuthority(w)
    /\ Keys!SealHistory
    /\ drained_at_seal' = IF sealed' /\ ~sealed THEN drained ELSE drained_at_seal
    /\ UNCHANGED <<money_vars, consumed, drained>>

\* The pool PDA resolves the market; the gate is StakeProgram's.
ResolveMarket ==
    /\ MAY_RESOLVE
    /\ AdminResolveMarket
    /\ Keys!AdminResolveMarket
    /\ Keys!SealHistory
    /\ UNCHANGED taken

CNext ==
    \/ StakerStep
    \/ \E a \in Args["flush"] : Flush(a)
    \/ \E a \in Args["recover"] : Recover(a)
    \/ \E a \in Args["consume"] : PayDeficit(a)
    \/ \E w \in Wallets, a \in Args["consume"] : OperatorWithdraw(w, a)
    \/ KeyStep
    \/ ResolveMarket

CSpec == CInit /\ [][CNext]_cvars

Recovery == \E a \in Args["recover"] : Recover(a)

\* RecoverFlushedInsurance is permissionless: somebody keeps calling it.
CFairSpec == CSpec /\ WF_cvars(Recovery)

----------------------------------------------------------------------------
(* What the keys promise the money.                                        *)

(* cpi.rs: after bind and burn no admin key drains insurance through       *)
(* WithdrawInsuranceAsset, and stake does not rotate the roles back: from  *)
(* the seal on, no wallet takes a token out of the fund, whatever roles    *)
(* it or a former admin held, and however the admin is rotated.            *)
NoAdminDrain == drained_at_seal # None => drained = drained_at_seal

(* If no wallet had drawn on the fund when it was sealed, all that is      *)
(* missing of what the pool has left to recover is what the market itself  *)
(* has paid its deficits with, and the rest can be recovered at once, in   *)
(* any parts, whatever stakers, admins and holders of roles have done      *)
(* before or do after: the PDA has the role, the market is not resolved,   *)
(* the tokens are in the fund and no counter overflows.                    *)
SealedFundOpen ==
    drained_at_seal = 0 =>
        /\ wrapper_recoverable(pool) <= insurance + consumed
        /\ \A a \in 1 .. Lesser(wrapper_recoverable(pool), insurance) :
              HeldByPda("insurance_operator") /\ RecoveryOpen(a)

(* If no wallet had drawn on the fund when it was sealed, all that was     *)
(* flushed, before or after, comes back to the pool except for what the    *)
(* market pays its deficits with: in the end the pool has nothing left to  *)
(* recover, or the fund is empty and the market has used what is missing.  *)
(* The recovery needs both the role, which the seal keeps with the PDA,    *)
(* and the tokens, which it keeps from everybody but the market.           *)
SealedFundReturns ==
    (drained_at_seal = 0) ~>
        \/ wrapper_fully_recovered(pool)
        \/ insurance = 0 /\ wrapper_recoverable(pool) <= consumed
=============================================================================
