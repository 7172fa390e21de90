--------------------------- MODULE StakeAuthority ---------------------------
(***************************************************************************)
(* Who may act for a pool: its admin and the two-step rotation of the      *)
(* admin, and the wrapper market's per-asset roles that the bind, rotate   *)
(* and burn instructions of processor.rs move through cpi.rs.  Also what   *)
(* is decided with those keys: the fee policies of the market.             *)
(*                                                                         *)
(* Keys are wallets, which sign transactions, and the pool's vault_auth    *)
(* PDA, which signs only inside a CPI of this program.  Init is the pool   *)
(* right after InitPool, with the roles where the wrapper's InitMarket     *)
(* puts them.  The wrapper's UpdateAssetAuthority (tag 65) is external: it *)
(* is modelled from the calls of cpi.rs and the rules they rely on.        *)
(*                                                                         *)
(* Two fee policies are set by marketauth, which the pool PDA has held     *)
(* since InitPool and never gives up, two by the insurance authority.  A   *)
(* policy is the value in force and the key that decided on it; which      *)
(* values are valid is left to the wrapper, as the code leaves it.         *)
(***************************************************************************)
EXTENDS Naturals

CONSTANTS
    Wallets,     \* keys that people hold
    vault_auth,  \* the PDA of the pool
    Zero,        \* the all-zero key: nobody
    FeeValues    \* bound: the values the environment gives a fee policy

ASSUME AuthorityAssumption ==
    /\ vault_auth \notin Wallets
    /\ Zero \notin Wallets
    /\ vault_auth # Zero

VARIABLES
    admin,               \* pool.admin
    pending_admin,       \* pool.pending_admin
    proposer,            \* history: who made the outstanding proposal
    asset_admin_burned,  \* the pool's record of BurnAssetAdmin
    roles,               \* the asset profile of the wrapper market
    market,              \* mode of the wrapper market
    policy,              \* the market's fee policies: value and who decided it
    sealed               \* history: bind and burn have both been done

vars == <<admin, pending_admin, proposer, asset_admin_burned, roles, market, policy, sealed>>

\* The kinds of UpdateAssetAuthority that stake calls it with.
Roles == {"asset_admin", "insurance_authority", "insurance_operator"}

\* What FlushToInsurance and RecoverFlushedInsurance sign with.
Custody == {"insurance_authority", "insurance_operator"}

\* Fee policies that the wrapper takes from marketauth, and from the
\* insurance authority.
MarketauthPolicies == {"fee_split", "maintenance_fee_per_slot"}
InsurancePolicies == {"backing_fee_policy", "trade_fee_policy"}

Init ==
    /\ admin \in Wallets
    /\ pending_admin = Zero
    /\ proposer = Zero
    /\ asset_admin_burned = FALSE
    /\ roles = [r \in Roles |-> admin]
    /\ market = "Live"
    /\ policy = [k \in MarketauthPolicies \cup InsurancePolicies |-> [value |-> 0, by |-> Zero]]
    /\ sealed = FALSE

----------------------------------------------------------------------------
(* Rotation of the admin.                                                  *)

\* Signed by the admin, for any key whatever; proposing Zero cancels.
ProposeAdmin(new_admin) ==
    /\ pending_admin' = new_admin
    /\ proposer' = admin
    /\ UNCHANGED <<admin, asset_admin_burned, roles, market, policy>>

\* Mutant: the accepted proposal stays.
PendingKept == pending_admin

PendingAfterAccept == Zero

\* Signed by the pending admin, as only a wallet can.
AcceptAdmin ==
    /\ pending_admin # Zero
    /\ pending_admin \in Wallets
    /\ admin' = pending_admin
    /\ pending_admin' = PendingAfterAccept
    /\ UNCHANGED <<proposer, asset_admin_burned, roles, market, policy>>

----------------------------------------------------------------------------
(* The wrapper's UpdateAssetAuthority.                                     *)

\* current signs and either holds the role or is the asset admin, which may
\* rotate any role; nobody signs for the zero key; only the asset admin's
\* own role may be burned.
Authorized(r, role, current, new) ==
    /\ market = "Live"
    /\ current # Zero
    /\ current \in {r[role], r["asset_admin"]}
    /\ new = Zero => role = "asset_admin"

Updated(r, role, new) == [r EXCEPT ![role] = new]

\* External: a wallet calls the wrapper itself.  The new holder signs too,
\* so it is a wallet.
DirectUpdate(current, role, new) ==
    /\ Authorized(roles, role, current, new)
    /\ roles' = Updated(roles, role, new)
    /\ UNCHANGED <<admin, pending_admin, proposer, asset_admin_burned, market, policy>>

----------------------------------------------------------------------------
(* Bind, burn and rotate, all signed by the admin.                         *)

\* Two CPIs, both or neither: the admin signs as the current holder, the PDA
\* as the new one.
BindInsuranceAuthority ==
    LET bound == Updated(roles, "insurance_authority", vault_auth)
    IN  /\ Authorized(roles, "insurance_authority", admin, vault_auth)
        /\ Authorized(bound, "insurance_operator", admin, vault_auth)
        /\ roles' = Updated(bound, "insurance_operator", vault_auth)
        /\ UNCHANGED <<admin, pending_admin, proposer, asset_admin_burned, market, policy>>

\* Mutant: the burn is recorded and the CPI forgotten.
RolesUnburned == roles

\* Mutant: the kind selectors of the wrapper are confused.
WrongKindBurned == Updated(roles, "insurance_authority", Zero)

RolesBurned == Updated(roles, "asset_admin", Zero)

BurnAssetAdmin ==
    /\ ~asset_admin_burned
    /\ Authorized(roles, "asset_admin", admin, Zero)
    /\ roles' = RolesBurned
    /\ asset_admin_burned' = TRUE
    /\ UNCHANGED <<admin, pending_admin, proposer, market, policy>>

\* Mutant: the burn is left to the wrapper.
RotateAfterBurn == TRUE

\* The burn is final for the PDA's signature too.
RotateOpen == ~asset_admin_burned

\* The PDA signs as the current holder, new_target as the new one.
Rotate(role, new_target) ==
    /\ RotateOpen
    /\ Authorized(roles, role, vault_auth, new_target)
    /\ roles' = Updated(roles, role, new_target)
    /\ UNCHANGED <<admin, pending_admin, proposer, asset_admin_burned, market, policy>>

RotateInsuranceOperator(new_target) == Rotate("insurance_operator", new_target)

RotateInsuranceAuthority(new_target) == Rotate("insurance_authority", new_target)

\* AdminResolveMarket, signed by the admin; its gate on the insurance still
\* out is in StakeProgram, and here it may open at any time.
AdminResolveMarket ==
    /\ market = "Live"
    /\ market' = "Resolved"
    /\ UNCHANGED <<admin, pending_admin, proposer, asset_admin_burned, roles, policy>>

----------------------------------------------------------------------------
(* Fee policies.                                                           *)

SetPolicy(k, value, by) ==
    /\ market = "Live"
    /\ policy' = [policy EXCEPT ![k] = [value |-> value, by |-> by]]
    /\ UNCHANGED <<admin, pending_admin, proposer, asset_admin_burned, roles, market>>

\* The check both groups of proxies share.
validate_proxy(signer) == signer = admin

\* Group A: the pool PDA signs as marketauth.
AdminUpdateFeeSplit(signer, value) ==
    validate_proxy(signer) /\ SetPolicy("fee_split", value, signer)

AdminUpdateMaintenanceFeePerSlot(signer, value) ==
    validate_proxy(signer) /\ SetPolicy("maintenance_fee_per_slot", value, signer)

\* Group B: vault_auth signs as insurance authority.
AdminUpdateBackingFeePolicy(signer, value) ==
    /\ validate_proxy(signer)
    /\ roles["insurance_authority"] = vault_auth
    /\ SetPolicy("backing_fee_policy", value, signer)

AdminUpdateTradeFeePolicy(signer, value) ==
    /\ validate_proxy(signer)
    /\ roles["insurance_authority"] = vault_auth
    /\ SetPolicy("trade_fee_policy", value, signer)

\* External: a wallet that is insurance authority calls the wrapper itself.
DirectPolicy(w, k, value) ==
    /\ roles["insurance_authority"] = w
    /\ SetPolicy(k, value, w)

\* BindInsuranceAuthority and BurnAssetAdmin have both been done.
Seal == asset_admin_burned /\ \A r \in Custody : roles[r] = vault_auth

\* From the first state with both on.
SealHistory == sealed' = (sealed \/ Seal')

Step ==
    \/ \E k \in Wallets \cup {vault_auth, Zero} : ProposeAdmin(k)
    \/ AcceptAdmin
    \/ \E w \in Wallets, r \in Roles, new \in Wallets \cup {Zero} : DirectUpdate(w, r, new)
    \/ BindInsuranceAuthority
    \/ BurnAssetAdmin
    \/ \E w \in Wallets : RotateInsuranceOperator(w)
    \/ \E w \in Wallets : RotateInsuranceAuthority(w)
    \/ AdminResolveMarket
    \/ \E w \in Wallets, v \in FeeValues : AdminUpdateFeeSplit(w, v)
    \/ \E w \in Wallets, v \in FeeValues : AdminUpdateMaintenanceFeePerSlot(w, v)
    \/ \E w \in Wallets, v \in FeeValues : AdminUpdateBackingFeePolicy(w, v)
    \/ \E w \in Wallets, v \in FeeValues : AdminUpdateTradeFeePolicy(w, v)
    \/ \E w \in Wallets, k \in InsurancePolicies, v \in FeeValues : DirectPolicy(w, k, v)

Next == Step /\ SealHistory

Spec == Init /\ [][Next]_vars

----------------------------------------------------------------------------
(* What the roles and the admin promise.                                   *)

(* The domain of every variable; the PDA, though it may be proposed, never *)
(* becomes admin or asset admin, which no instruction of stake could then  *)
(* act for.                                                                *)
AuthorityTypeOK ==
    /\ admin \in Wallets
    /\ pending_admin \in Wallets \cup {vault_auth, Zero}
    /\ proposer \in Wallets \cup {Zero}
    /\ asset_admin_burned \in BOOLEAN
    /\ roles \in [Roles -> Wallets \cup {vault_auth, Zero}]
    /\ roles["asset_admin"] \in Wallets \cup {Zero}
    /\ \A r \in Custody : roles[r] # Zero
    /\ market \in {"Live", "Resolved"}
    /\ DOMAIN policy = MarketauthPolicies \cup InsurancePolicies
    /\ sealed \in BOOLEAN

(* A proposal that can be accepted was made by whoever is admin now: no    *)
(* former admin's word outlives its term, however proposals, acceptances   *)
(* and cancellations interleave.                                           *)
ProposalCurrent == pending_admin # Zero => proposer = admin

(* Once stake has recorded the burn, the wrapper has no asset admin and    *)
(* never gets one again, whoever calls it, so the record never disagrees   *)
(* with the market it speaks for.                                          *)
BurnIsFinal == asset_admin_burned => roles["asset_admin"] = Zero

(* The step relation of CustodySealed below.                               *)
SealStep ==
    \A r \in Custody :
        asset_admin_burned /\ roles[r] = vault_auth =>
            asset_admin_burned' /\ roles'[r] = vault_auth

(* BindInsuranceAuthority followed by BurnAssetAdmin is a seal: from then  *)
(* on neither the pool's admin, nor a former one, nor anyone who held a    *)
(* role of the market before takes the insurance fund off the PDA, through *)
(* stake or through the wrapper.                                           *)
CustodySealed == [][SealStep]_vars

(* The step relation of PolicyBehindSeal below.                            *)
PolicyStep ==
    sealed => \A k \in DOMAIN policy : policy'[k] # policy[k] => policy'[k].by = admin

(* The seal is for the terms of the market too: once bind and burn have    *)
(* both been done, at whatever time and in whatever order, every change of *)
(* a fee policy is the decision of whoever is the pool's admin then.  No   *)
(* former admin and no key that held the insurance authority before gets   *)
(* the role, and with it the policies, back, through stake or through the  *)
(* wrapper.                                                                *)
PolicyBehindSeal == [][PolicyStep]_vars
=============================================================================
