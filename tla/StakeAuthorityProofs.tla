------------------------ MODULE StakeAuthorityProofs ------------------------
(***************************************************************************)
(* The seal of the insurance custody, the currency of admin proposals and  *)
(* who decides the fee policies behind the seal, for any set of wallets.   *)
(***************************************************************************)
EXTENDS StakeAuthority, TLAPS

(* The inductive invariant: the types, which keep the zero key and the PDA *)
(* out of the places nobody could act from, and the two safety invariants. *)
AuthorityInv == AuthorityTypeOK /\ ProposalCurrent /\ BurnIsFinal

(* A seal once set is still there.                                         *)
SealKept == sealed => Seal

(* The pool as InitPool leaves it satisfies the invariant.                 *)
LEMMA AuthorityInit == Init => AuthorityInv
BY AuthorityAssumption
   DEF Init, AuthorityInv, AuthorityTypeOK, ProposalCurrent, BurnIsFinal, Roles, Custody

(* Giving one role to a key that may hold it keeps the profile in its      *)
(* domain.                                                                 *)
LEMMA UpdatedType ==
    ASSUME AuthorityTypeOK,
           NEW role \in Roles, NEW new \in Wallets \cup {Zero, vault_auth},
           new = Zero => role = "asset_admin",
           new = vault_auth => role # "asset_admin",
           roles' = Updated(roles, role, new)
    PROVE  /\ roles' \in [Roles -> Wallets \cup {vault_auth, Zero}]
           /\ roles'["asset_admin"] \in Wallets \cup {Zero}
           /\ \A r \in Custody : roles'[r] # Zero
           /\ \A r \in Roles : r # role => roles'[r] = roles[r]
           /\ roles'[role] = new
BY DEF AuthorityTypeOK, Updated, Roles, Custody

(* A call of the wrapper by a wallet.  Once the asset admin is gone, only  *)
(* the holder of a role can give it away.                                  *)
LEMMA DirectUpdateStep ==
    ASSUME AuthorityInv, NEW w \in Wallets, NEW role \in Roles,
           NEW new \in Wallets \cup {Zero}, DirectUpdate(w, role, new),
           sealed' \in BOOLEAN
    PROVE  AuthorityInv' /\ SealStep
<1>1. /\ Authorized(roles, role, w, new)
      /\ roles' = Updated(roles, role, new)
      /\ UNCHANGED <<admin, pending_admin, proposer, asset_admin_burned, market, policy>>
  BY DEF DirectUpdate
<1>2. /\ w # Zero /\ w # vault_auth
      /\ w \in {roles[role], roles["asset_admin"]}
      /\ new = Zero => role = "asset_admin"
      /\ new # vault_auth
  BY <1>1, AuthorityAssumption DEF Authorized
<1>3. /\ roles' \in [Roles -> Wallets \cup {vault_auth, Zero}]
      /\ roles'["asset_admin"] \in Wallets \cup {Zero}
      /\ \A r \in Custody : roles'[r] # Zero
      /\ \A r \in Roles : r # role => roles'[r] = roles[r]
      /\ roles'[role] = new
  BY <1>1, <1>2, UpdatedType DEF AuthorityInv
<1>4. asset_admin_burned => w = roles[role] /\ role # "asset_admin"
  BY <1>2 DEF AuthorityInv, BurnIsFinal
<1>5. AuthorityTypeOK' /\ ProposalCurrent'
  BY <1>1, <1>3 DEF AuthorityInv, AuthorityTypeOK, ProposalCurrent
<1>6. BurnIsFinal'
  BY <1>1, <1>3, <1>4 DEF AuthorityInv, BurnIsFinal, Roles
<1>7. SealStep
  BY <1>1, <1>2, <1>3, <1>4 DEF SealStep, Roles, Custody
<1> QED  BY <1>5, <1>6, <1>7 DEF AuthorityInv

(* The bind moves both roles onto the PDA and leaves the asset admin.      *)
LEMMA BindStep ==
    ASSUME AuthorityInv, BindInsuranceAuthority, sealed' \in BOOLEAN
    PROVE  AuthorityInv' /\ SealStep
<1>1. /\ roles' = Updated(Updated(roles, "insurance_authority", vault_auth),
                          "insurance_operator", vault_auth)
      /\ UNCHANGED <<admin, pending_admin, proposer, asset_admin_burned, market, policy>>
  BY DEF BindInsuranceAuthority
<1>2. roles \in [Roles -> Wallets \cup {vault_auth, Zero}]
  BY DEF AuthorityInv, AuthorityTypeOK
<1>3. /\ roles' \in [Roles -> Wallets \cup {vault_auth, Zero}]
      /\ roles'["asset_admin"] = roles["asset_admin"]
      /\ \A r \in Custody : roles'[r] = vault_auth
  BY <1>1, <1>2 DEF Updated, Roles, Custody
<1>4. AuthorityTypeOK'
  BY <1>1, <1>3, AuthorityAssumption DEF AuthorityInv, AuthorityTypeOK
<1> QED  BY <1>1, <1>3, <1>4 DEF AuthorityInv, ProposalCurrent, BurnIsFinal, SealStep

(* The burn takes the asset admin away and records it.                     *)
LEMMA BurnStep ==
    ASSUME AuthorityInv, BurnAssetAdmin, sealed' \in BOOLEAN
    PROVE  AuthorityInv' /\ SealStep
<1>1. /\ ~asset_admin_burned
      /\ roles' = Updated(roles, "asset_admin", Zero)
      /\ asset_admin_burned' = TRUE
      /\ UNCHANGED <<admin, pending_admin, proposer, market, policy>>
  BY DEF BurnAssetAdmin, RolesBurned
<1>2. /\ roles' \in [Roles -> Wallets \cup {vault_auth, Zero}]
      /\ roles'["asset_admin"] = Zero
      /\ \A r \in Custody : roles'[r] # Zero
  BY <1>1, UpdatedType, AuthorityAssumption DEF AuthorityInv, Roles
<1> QED  BY <1>1, <1>2
            DEF AuthorityInv, AuthorityTypeOK, ProposalCurrent, BurnIsFinal, SealStep

(* A rotation is open only before the burn.                                *)
LEMMA RotateStep ==
    ASSUME AuthorityInv, NEW role \in Custody, NEW new \in Wallets, Rotate(role, new),
           sealed' \in BOOLEAN
    PROVE  AuthorityInv' /\ SealStep
<1>1. /\ ~asset_admin_burned
      /\ roles' = Updated(roles, role, new)
      /\ UNCHANGED <<admin, pending_admin, proposer, asset_admin_burned, market, policy>>
  BY DEF Rotate, RotateOpen
<1>2. role \in Roles /\ role # "asset_admin" /\ new # Zero /\ new # vault_auth
  BY AuthorityAssumption DEF Roles, Custody
<1>3. /\ roles' \in [Roles -> Wallets \cup {vault_auth, Zero}]
      /\ roles'["asset_admin"] \in Wallets \cup {Zero}
      /\ \A r \in Custody : roles'[r] # Zero
  BY <1>1, <1>2, UpdatedType DEF AuthorityInv
<1> QED  BY <1>1, <1>3
            DEF AuthorityInv, AuthorityTypeOK, ProposalCurrent, BurnIsFinal, SealStep

(* A proxy, or a wallet that is insurance authority, sets one fee policy.  *)
LEMMA SetPolicyStep ==
    ASSUME AuthorityInv, SealKept, NEW k, NEW value, NEW by, SetPolicy(k, value, by),
           by = admin \/ roles["insurance_authority"] # vault_auth,
           sealed' \in BOOLEAN
    PROVE  AuthorityInv' /\ SealStep /\ PolicyStep
<1>1. /\ policy' = [policy EXCEPT ![k] = [value |-> value, by |-> by]]
      /\ UNCHANGED <<admin, pending_admin, proposer, asset_admin_burned, roles, market>>
  BY DEF SetPolicy
<1>2. AuthorityInv' /\ SealStep
  BY <1>1 DEF AuthorityInv, AuthorityTypeOK, ProposalCurrent, BurnIsFinal, SealStep
<1>3. sealed => by = admin
  BY DEF SealKept, Seal, Custody
<1>4. PolicyStep
  BY <1>1, <1>3 DEF PolicyStep
<1> QED  BY <1>2, <1>4

(* The policies that a step leaves alone are nobody's decision.            *)
LEMMA PoliciesKept == UNCHANGED policy => PolicyStep
BY DEF PolicyStep

(* Every instruction keeps the invariant and respects the seal, and behind *)
(* the seal only the admin decides the policies.                           *)
LEMMA AuthorityStep ==
    ASSUME AuthorityInv, SealKept, Step, sealed' \in BOOLEAN
    PROVE  AuthorityInv' /\ SealStep /\ PolicyStep
<1>1. ASSUME NEW k \in Wallets \cup {vault_auth, Zero}, ProposeAdmin(k) PROVE AuthorityInv' /\ SealStep
  BY <1>1 DEF ProposeAdmin, AuthorityInv, AuthorityTypeOK, ProposalCurrent, BurnIsFinal, SealStep
<1>2. ASSUME AcceptAdmin PROVE AuthorityInv' /\ SealStep
  BY <1>2 DEF AcceptAdmin, PendingAfterAccept, AuthorityInv, AuthorityTypeOK,
              ProposalCurrent, BurnIsFinal, SealStep
<1>3. ASSUME AdminResolveMarket PROVE AuthorityInv' /\ SealStep
  BY <1>3 DEF AdminResolveMarket, AuthorityInv, AuthorityTypeOK,
              ProposalCurrent, BurnIsFinal, SealStep
<1>4. ASSUME NEW w \in Wallets,
             RotateInsuranceOperator(w) \/ RotateInsuranceAuthority(w)
      PROVE  AuthorityInv' /\ SealStep
  BY <1>4, RotateStep DEF RotateInsuranceOperator, RotateInsuranceAuthority, Custody
<1>5. ASSUME \/ \E k \in Wallets \cup {vault_auth, Zero} : ProposeAdmin(k)
             \/ AcceptAdmin
             \/ \E w \in Wallets, r \in Roles, new \in Wallets \cup {Zero} : DirectUpdate(w, r, new)
             \/ BindInsuranceAuthority
             \/ BurnAssetAdmin
             \/ \E w \in Wallets : RotateInsuranceOperator(w) \/ RotateInsuranceAuthority(w)
             \/ AdminResolveMarket
      PROVE  AuthorityInv' /\ SealStep /\ PolicyStep
  <2>1. AuthorityInv' /\ SealStep
    BY <1>1, <1>2, <1>3, <1>4, <1>5, DirectUpdateStep, BindStep, BurnStep
  <2>2. UNCHANGED policy
    BY <1>5 DEF ProposeAdmin, AcceptAdmin, DirectUpdate, BindInsuranceAuthority, BurnAssetAdmin,
                RotateInsuranceOperator, RotateInsuranceAuthority, Rotate, AdminResolveMarket
  <2> QED  BY <2>1, <2>2, PoliciesKept
<1>6. ASSUME NEW w \in Wallets, NEW v \in FeeValues,
             \/ AdminUpdateFeeSplit(w, v) \/ AdminUpdateMaintenanceFeePerSlot(w, v)
             \/ AdminUpdateBackingFeePolicy(w, v) \/ AdminUpdateTradeFeePolicy(w, v)
      PROVE  AuthorityInv' /\ SealStep /\ PolicyStep
  BY <1>6, SetPolicyStep
     DEF AdminUpdateFeeSplit, AdminUpdateMaintenanceFeePerSlot,
         AdminUpdateBackingFeePolicy, AdminUpdateTradeFeePolicy, validate_proxy
<1>7. ASSUME NEW w \in Wallets, NEW k \in InsurancePolicies, NEW v \in FeeValues,
             DirectPolicy(w, k, v)
      PROVE  AuthorityInv' /\ SealStep /\ PolicyStep
  <2>1. roles["insurance_authority"] # vault_auth
    BY <1>7, AuthorityAssumption DEF DirectPolicy
  <2> QED  BY <1>7, <2>1, SetPolicyStep DEF DirectPolicy
<1> QED  BY <1>5, <1>6, <1>7 DEF Step

(* Every step keeps the invariant and the seal.                            *)
LEMMA AuthorityNext ==
    AuthorityInv /\ SealKept /\ [Next]_vars =>
        AuthorityInv' /\ SealKept' /\ [SealStep /\ PolicyStep]_vars
<1> SUFFICES ASSUME AuthorityInv, SealKept, [Next]_vars
             PROVE  AuthorityInv' /\ SealKept' /\ [SealStep /\ PolicyStep]_vars
  OBVIOUS
<1>1. CASE UNCHANGED vars
  BY <1>1 DEF vars, AuthorityInv, AuthorityTypeOK, ProposalCurrent, BurnIsFinal, SealKept, Seal
<1>2. CASE Next
  <2>1. sealed' = (sealed \/ Seal') /\ sealed' \in BOOLEAN
    BY <1>2 DEF Next, SealHistory, AuthorityInv, AuthorityTypeOK
  <2>2. AuthorityInv' /\ SealStep /\ PolicyStep
    BY <1>2, <2>1, AuthorityStep DEF Next
  <2>3. Seal => Seal'
    BY <2>2 DEF SealStep, Seal, Custody
  <2> QED  BY <2>1, <2>2, <2>3 DEF SealKept
<1> QED  BY <1>1, <1>2

(* The invariant holds throughout.                                         *)
THEOREM AuthorityInvariance == Spec => [](AuthorityInv /\ SealKept)
<1>1. Init => SealKept
  BY DEF Init, SealKept
<1> QED  BY <1>1, AuthorityInit, AuthorityNext, PTL DEF Spec

(* Every role has a holder who can sign for it: a custody role never falls *)
(* to the zero key, and the PDA never becomes the asset admin.             *)
THEOREM AuthorityTyped == Spec => []AuthorityTypeOK
<1>1. AuthorityInv => AuthorityTypeOK
  BY DEF AuthorityInv
<1> QED  BY <1>1, AuthorityInvariance, PTL

(* No former admin's proposal can be accepted.                             *)
THEOREM ProposalsCurrent == Spec => []ProposalCurrent
<1>1. AuthorityInv => ProposalCurrent
  BY DEF AuthorityInv
<1> QED  BY <1>1, AuthorityInvariance, PTL

(* The recorded burn always agrees with the market.                        *)
THEOREM BurnRecorded == Spec => []BurnIsFinal
<1>1. AuthorityInv => BurnIsFinal
  BY DEF AuthorityInv
<1> QED  BY <1>1, AuthorityInvariance, PTL

(* Bind, then burn: the insurance fund stays with the PDA for ever.        *)
THEOREM SealHolds == Spec => CustodySealed
<1>1. [SealStep /\ PolicyStep]_vars => [SealStep]_vars
  OBVIOUS
<1> QED  BY <1>1, AuthorityInvariance, AuthorityNext, PTL DEF Spec, CustodySealed

(* Behind the seal every fee policy is the decision of the admin in        *)
(* office.                                                                 *)
THEOREM PoliciesBehindSeal == Spec => PolicyBehindSeal
<1>1. [SealStep /\ PolicyStep]_vars => [PolicyStep]_vars
  OBVIOUS
<1> QED  BY <1>1, AuthorityInvariance, AuthorityNext, PTL DEF Spec, PolicyBehindSeal
=============================================================================
