-------------------------- MODULE StakeLayoutProofs --------------------------
(***************************************************************************)
(* The layout of the StakePool account implements a store of named fields, *)
(* for whatever contents the program puts into them.                       *)
(***************************************************************************)
EXTENDS StakeLayout, TLAPS

\* The offsets of repr(C) and of the hand-packed _reserved, field by field.
LEMMA OffsetOf ==
    /\ Offset("is_initialized") = 0 /\ Offset("bump") = 1
    /\ Offset("vault_authority_bump") = 2 /\ Offset("admin_transferred") = 3
    /\ Offset("slab") = 8 /\ Offset("admin") = 40 /\ Offset("collateral_mint") = 72
    /\ Offset("lp_mint") = 104 /\ Offset("vault") = 136 /\ Offset("total_deposited") = 168
    /\ Offset("total_lp_supply") = 176 /\ Offset("cooldown_slots") = 184
    /\ Offset("deposit_cap") = 192 /\ Offset("total_flushed") = 200
    /\ Offset("total_returned") = 208 /\ Offset("total_withdrawn") = 216
    /\ Offset("percolator_program") = 224 /\ Offset("total_fees_earned") = 256
    /\ Offset("last_fee_accrual_slot") = 264 /\ Offset("last_vault_snapshot") = 272
    /\ Offset("pool_mode") = 280 /\ Offset("pending_admin") = 288
    /\ Offset("discriminator") = 320 /\ Offset("version") = 328
    /\ Offset("market_resolved") = 329 /\ Offset("hwm_enabled") = 330
    /\ Offset("hwm_floor_bps") = 331 /\ Offset("epoch_high_water_tvl") = 336
    /\ Offset("hwm_last_epoch") = 344 /\ Offset("tranche_enabled") = 352
    /\ Offset("junior_balance") = 353 /\ Offset("junior_total_lp") = 361
    /\ Offset("junior_fee_mult_bps") = 369 /\ Offset("realized_junior_loss") = 371
    /\ Offset("asset_admin_burned") = 379 /\ Offset("total_recovered_from_wrapper") = 384
    /\ Offset("pending_cooldown_slots") = 392 /\ Offset("cooldown_proposed_at_slot") = 400
  BY DEF Offset, Offsets

\* No byte belongs to two fields.
LEMMA Apart ==
    \A f, g \in Names : \A i \in Span(f) : f # g => (Offset(f) + i) - Offset(g) \notin Span(g)
  BY OffsetOf, SMTT(60) DEF Names, IdentityFields, HeaderFields, LedgerFields, TrancheFields,
       LossFields, HwmFields, TimelockFields, Flags, Span, Key, U64

\* Every field lies within the account.
LEMMA Within ==
    ASSUME NEW f \in Names
    PROVE  /\ Offset(f) \in Nat
           /\ Span(f) \subseteq Nat
           /\ \A i \in Span(f) : Offset(f) + i \in 0 .. STAKE_POOL_SIZE - 1
  BY OffsetOf, SMTT(60) DEF Names, IdentityFields, HeaderFields, LedgerFields, TrancheFields,
       LossFields, HwmFields, TimelockFields, Flags, Span, Key, U64, STAKE_POOL_SIZE

\* A field reads back what was written to it.
LEMMA ReadBack ==
    ASSUME NEW d, NEW f \in Names, NEW v, Wide(v, f)
    PROVE  Read(Write(d, f, v), f) = v
  <1>1. \A i \in Span(f) : Write(d, f, v)[Offset(f) + i] = v[i]
    BY Within DEF Write
  <1>. QED
    BY <1>1, Zenon DEF Read, Wide

\* A write to one field leaves every other as it was.
LEMMA ReadOther ==
    ASSUME NEW d, NEW f \in Names, NEW v, NEW g \in Names, f # g
    PROVE  Read(Write(d, f, v), g) = Read(d, g)
  <1>1. \A i \in Span(g) : Write(d, f, v)[Offset(g) + i] = d[Offset(g) + i]
    BY Within, Apart DEF Write
  <1>. QED
    BY <1>1, Zenon DEF Read

\* The bytes laid down for a new account read back as its fields.
LEMMA ReadImage ==
    ASSUME NEW g, NEW f \in Names, Wide(g[f], f)
    PROVE  Read(Image(g), f) = g[f]
  <1>1. ASSUME NEW i \in Span(f)
        PROVE  Image(g)[Offset(f) + i] = g[f][i]
    <2>1. Offset(f) + i \in 0 .. STAKE_POOL_SIZE - 1 /\ (Offset(f) + i) - Offset(f) = i
      BY Within
    <2>2. \A n \in Names : (Offset(f) + i) - Offset(n) \in Span(n) => n = f
      BY Apart
    <2>3. PICK j : j = Offset(f) + i
      OBVIOUS
    <2>4. (CHOOSE h \in Names : j - Offset(h) \in Span(h)) = f
      BY <2>1, <2>2, <2>3
    <2>5. Image(g)[j] = g[f][j - Offset(f)]
      BY <2>1, <2>3, <2>4 DEF Image
    <2>. QED
      BY <2>1, <2>3, <2>5
  <1>. QED
    BY <1>1, Zenon DEF Read, Wide

\* What InitPool saves fills every field.
LEMMA SavedWide ==
    ASSUME NEW g \in Genesis, NEW f \in Names
    PROVE  Wide(g[f], f) /\ g = [n \in Names |-> g[n]]
  <1>1. PICK mode \in {Zero("pool_mode"), One("pool_mode")},
             cooldown \in Contents["cooldown_slots"], cap \in Contents["deposit_cap"] :
             g = Saved(mode, cooldown, cap)
    BY DEF Genesis
  <1>2. Wide(Zero(f), f) /\ Wide(One(f), f) /\ Wide([i \in Span(f) |-> CURRENT_VERSION], f)
    BY DEF Wide, Zero, One
  <1>3. f = "discriminator" => Wide(DISCRIMINATOR, f)
    BY DEF Wide, DISCRIMINATOR, Span, IdentityFields, HeaderFields, Flags
  <1>4. "cooldown_slots" \in Names /\ "deposit_cap" \in Names
    BY DEF Names, LedgerFields
  <1>5. Wide(cooldown, "cooldown_slots") /\ Wide(cap, "deposit_cap")
    BY <1>4, ContentsAssumption
  <1>6. f = "pool_mode" => Wide(mode, f)
    BY <1>2, <1>1
  <1>7. f \in DOMAIN IDENTITY => Wide(IDENTITY[f], f)
    BY ContentsAssumption
  <1>8. Wide(Saved(mode, cooldown, cap)[f], f)
    BY <1>2, <1>3, <1>5, <1>6, <1>7 DEF Saved
  <1>9. Saved(mode, cooldown, cap) = [n \in Names |-> Saved(mode, cooldown, cap)[n]]
    BY DEF Saved
  <1>. QED
    BY <1>1, <1>8, <1>9

(* A setter of the account is an assignment to the field it is named for.  *)
LEMMA StoreAssigns ==
    ASSUME NEW f \in Names, NEW v \in Contents[f], Store(f, v)
    PROVE  Fields!Assign(f, v)
  <1>1. Wide(v, f)
    BY ContentsAssumption
  <1>2. \A g \in Names : Read(data', g) = IF g = f THEN v ELSE Read(data, g)
    BY <1>1, ReadBack, ReadOther DEF Store
  <1>. QED
    BY <1>2 DEF Store, Fields!Assign

(* No two accessors of the StakePool account share a byte: however the     *)
(* handlers interleave their setters, each field holds what was last put   *)
(* into it, for any contents.                                              *)
THEOREM LayoutImplementsFields == Spec => ImplementsFields
  <1>1. Init => Fields!FInit
    <2>. SUFFICES ASSUME Init PROVE Fields!FInit
      OBVIOUS
    <2>1. PICK g \in Genesis : data = Image(g)
      BY DEF Init
    <2>2. \A f \in Names : Read(data, f) = g[f]
      BY <2>1, ReadImage, SavedWide
    <2>3. g = [f \in Names |-> g[f]]
      <3>1. "slab" \in Names
        BY DEF Names, IdentityFields
      <3>. QED
        BY <3>1, SavedWide
    <2>4. [f \in Names |-> Read(data, f)] = g
      BY <2>2, <2>3
    <2>. QED
      BY <2>4 DEF Init, Fields!FInit
  <1>2. [Next]_lvars => [Fields!FNext]_Fields!fvars
    <2>1. ASSUME Next, ~BumpWrapper PROVE Fields!FNext
      <3>1. PICK f \in Names : \E v \in Contents[f] : Store(f, v)
        BY <2>1 DEF Next, SetLedger, SetAdmin, SetTranche, SetLoss, SetHwm, SetTimelock,
             Names, IdentityFields
      <3>. QED
        BY <3>1, StoreAssigns DEF Fields!FNext
    <2>2. ASSUME BumpWrapper \/ UNCHANGED lvars PROVE UNCHANGED Fields!fvars
      BY <2>2 DEF BumpWrapper, lvars, Fields!fvars
    <2>. QED
      BY <2>1, <2>2
  <1>. QED
    BY <1>1, <1>2, PTL DEF Spec, ImplementsFields, Fields!FSpec
----------------------------------------------------------------------------
(* What the wrapper reads is fixed when the pool is created.               *)

Fixed == {"is_initialized", "slab", "vault", "percolator_program", "pool_mode",
          "discriminator", "version"}

IdentityInv ==
    /\ Read(data, "is_initialized") = One("is_initialized")
    /\ Read(data, "slab") = IDENTITY["slab"]
    /\ Read(data, "vault") = IDENTITY["vault"]
    /\ Read(data, "percolator_program") = IDENTITY["percolator_program"]
    /\ Read(data, "pool_mode") \in {Zero("pool_mode"), One("pool_mode")}
    /\ Read(data, "discriminator") = DISCRIMINATOR
    /\ Read(data, "version") = [i \in Span("version") |-> CURRENT_VERSION]

\* The fields without a setter are fields.
LEMMA FixedNames == Fixed \subseteq Names
  BY DEF Fixed, Names, IdentityFields, HeaderFields

\* InitPool writes the identity fields.
LEMMA IdentityInit == Init => IdentityInv
  <1>. SUFFICES ASSUME Init PROVE IdentityInv
    OBVIOUS
  <1>1. PICK g \in Genesis : data = Image(g)
    BY DEF Init
  <1>2. \A f \in Fixed : Read(data, f) = g[f]
    BY <1>1, ReadImage, SavedWide, FixedNames
  <1>3. PICK mode \in {Zero("pool_mode"), One("pool_mode")},
             cooldown \in Contents["cooldown_slots"], cap \in Contents["deposit_cap"] :
             g = Saved(mode, cooldown, cap)
    BY DEF Genesis
  <1>4. /\ g["is_initialized"] = One("is_initialized")
        /\ g["slab"] = IDENTITY["slab"]
        /\ g["vault"] = IDENTITY["vault"]
        /\ g["percolator_program"] = IDENTITY["percolator_program"]
        /\ g["pool_mode"] = mode
        /\ g["discriminator"] = DISCRIMINATOR
        /\ g["version"] = [i \in Span("version") |-> CURRENT_VERSION]
    BY <1>3, FixedNames, ContentsAssumption DEF Saved, Fixed
  <1>. QED
    BY <1>2, <1>3, <1>4 DEF IdentityInv, Fixed

\* No setter reaches them.
LEMMA IdentityStep == IdentityInv /\ [Next]_lvars => IdentityInv'
  <1>. SUFFICES ASSUME IdentityInv, [Next]_lvars PROVE IdentityInv'
    OBVIOUS
  <1>1. \A f \in Fixed : Read(data', f) = Read(data, f)
    <2>1. CASE Next /\ ~BumpWrapper
      <3>1. PICK n \in Names \ Fixed : \E v \in Contents[n] : Store(n, v)
        BY <2>1 DEF Next, SetLedger, SetAdmin, SetTranche, SetLoss, SetHwm, SetTimelock,
             Names, IdentityFields, Fixed, LedgerFields, TrancheFields, LossFields,
             HwmFields, TimelockFields
      <3>. QED
        BY <3>1, ReadOther, FixedNames DEF Store
    <2>2. CASE BumpWrapper \/ UNCHANGED lvars
      BY <2>2 DEF BumpWrapper, lvars
    <2>. QED
      BY <2>1, <2>2
  <1>. QED
    BY <1>1 DEF IdentityInv, Fixed

\* The wrapper's offsets are the fields'.
LEMMA WrapperReadsFields ==
    /\ WrapperReads(8, Key) = Read(data, "slab")
    /\ WrapperReads(136, Key) = Read(data, "vault")
    /\ WrapperReads(224, Key) = Read(data, "percolator_program")
    /\ WrapperReads(320, U64) = Read(data, "discriminator")
    /\ data[0] = Read(data, "is_initialized")[0]
    /\ data[280] = Read(data, "pool_mode")[0]
    /\ data[328] = Read(data, "version")[0]
  <1>1. /\ Span("slab") = Key /\ Span("vault") = Key /\ Span("percolator_program") = Key
        /\ Span("discriminator") = U64 /\ Span("is_initialized") = {0}
        /\ Span("pool_mode") = {0} /\ Span("version") = {0}
    BY DEF Span, IdentityFields, HeaderFields, Flags
  <1>. QED
    BY <1>1, OffsetOf DEF WrapperReads, Read

(* For every pool, in every state it can reach, the wrapper pays the       *)
(* insurance reserve exactly when the pool is an insurance-LP pool and the *)
(* wrapper was bumped to this version, into the vault the pool was created *)
(* with.                                                                   *)
THEOREM PayoutCorrect == Spec => []PayoutReachesVault
  <1>1. IdentityInv => PayoutReachesVault
    <2>. SUFFICES ASSUME IdentityInv PROVE PayoutReachesVault
      OBVIOUS
    <2>1. Span("is_initialized") = {0} /\ Span("pool_mode") = {0} /\ Span("version") = {0}
      BY DEF Span, IdentityFields, HeaderFields, Flags
    <2>2. data[0] = 1 /\ data[328] = CURRENT_VERSION
      BY <2>1, WrapperReadsFields DEF IdentityInv, One
    <2>3. data[280] = 0 <=> Read(data, "pool_mode") = Zero("pool_mode")
      <3>1. Zero("pool_mode")[0] = 0 /\ One("pool_mode")[0] = 1
        BY <2>1 DEF Zero, One
      <3>. QED
        BY <3>1, WrapperReadsFields DEF IdentityInv
    <2>4. STAKE_POOL_SIZE >= STAKE_POOL_LEN
      BY DEF STAKE_POOL_SIZE, STAKE_POOL_LEN
    <2>5. WrapperPays <=> STAKE_POOL_VERSION = CURRENT_VERSION /\ data[280] = 0
      BY <2>2, <2>4, WrapperReadsFields DEF IdentityInv, WrapperPays
    <2>. QED
      BY <2>3, <2>5, WrapperReadsFields DEF IdentityInv, PayoutReachesVault
  <1>. QED
    BY <1>1, IdentityInit, IdentityStep, PTL DEF Spec
=============================================================================
