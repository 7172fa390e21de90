----------------------------- MODULE StakeLayout -----------------------------
(***************************************************************************)
(* The bytes of the StakePool account (state.rs): the fields of the struct,*)
(* the ones later carved out of its _reserved area by hand-written slices, *)
(* and the ones appended when that area was full.  The wrapper reads the   *)
(* same bytes at offsets of its own, without linking the crate, and takes  *)
(* only the one version it was built for: state.rs says that the wrapper   *)
(* deployed takes version 3, one short of what this program writes, until  *)
(* it is redeployed.                                                       *)
(*                                                                         *)
(* A field's content is the bytes in it; which integer they stand for is   *)
(* StakeCodec's matter.  Init is the account as InitPool saves it.         *)
(***************************************************************************)
EXTENDS Integers

CONSTANTS
    Contents,    \* what the program puts into each field it sets
    IDENTITY     \* the accounts and bumps a pool is created with

VARIABLES
    data,                \* the bytes of the account
    last,                \* the field set last, and what it was set to
    STAKE_POOL_VERSION   \* the version of a pool that the deployed wrapper takes

lvars == <<data, last, STAKE_POOL_VERSION>>

----------------------------------------------------------------------------
(* Where each field is.                                                    *)

STAKE_POOL_SIZE == 408
CURRENT_VERSION == 4

Key == 0 .. 31
U64 == 0 .. 7

IdentityFields == {"slab", "admin", "collateral_mint", "lp_mint", "vault",
                   "percolator_program", "pending_admin"}

HeaderFields == {"is_initialized", "bump", "vault_authority_bump", "admin_transferred",
                 "pool_mode", "discriminator", "version"}

LedgerFields == {"total_deposited", "total_lp_supply", "cooldown_slots", "deposit_cap",
                 "total_flushed", "total_returned", "total_withdrawn", "total_fees_earned",
                 "last_fee_accrual_slot", "last_vault_snapshot", "total_recovered_from_wrapper"}

TrancheFields == {"market_resolved", "tranche_enabled", "junior_balance", "junior_total_lp",
                  "junior_fee_mult_bps"}

LossFields == {"realized_junior_loss", "asset_admin_burned"}

HwmFields == {"hwm_enabled", "hwm_floor_bps", "epoch_high_water_tvl", "hwm_last_epoch"}

TimelockFields == {"pending_cooldown_slots", "cooldown_proposed_at_slot"}

Names == IdentityFields \cup HeaderFields \cup LedgerFields \cup TrancheFields
            \cup LossFields \cup HwmFields \cup TimelockFields

Flags == {"market_resolved", "hwm_enabled", "tranche_enabled", "asset_admin_burned"}

\* The positions within a field: a key, a flag or other single byte, a u16, a u64.
Span(f) ==
    IF f \in IdentityFields THEN Key
    ELSE IF f \in Flags \cup (HeaderFields \ {"discriminator"}) THEN {0}
    ELSE IF f \in {"hwm_floor_bps", "junior_fee_mult_bps"} THEN 0 .. 1
    ELSE U64

\* offset_of! of the struct's fields, and 320 plus the index for the fields
\* in _reserved.
Offsets ==
    [is_initialized |-> 0, bump |-> 1, vault_authority_bump |-> 2, admin_transferred |-> 3,
     slab |-> 8, admin |-> 40, collateral_mint |-> 72, lp_mint |-> 104, vault |-> 136,
     total_deposited |-> 168, total_lp_supply |-> 176, cooldown_slots |-> 184,
     deposit_cap |-> 192, total_flushed |-> 200, total_returned |-> 208,
     total_withdrawn |-> 216, percolator_program |-> 224, total_fees_earned |-> 256,
     last_fee_accrual_slot |-> 264, last_vault_snapshot |-> 272, pool_mode |-> 280,
     pending_admin |-> 288, discriminator |-> 320, version |-> 328, market_resolved |-> 329,
     hwm_enabled |-> 330, hwm_floor_bps |-> 331, epoch_high_water_tvl |-> 336,
     hwm_last_epoch |-> 344, tranche_enabled |-> 352, junior_balance |-> 353,
     junior_total_lp |-> 361, junior_fee_mult_bps |-> 369, realized_junior_loss |-> 371,
     asset_admin_burned |-> 379, total_recovered_from_wrapper |-> 384,
     pending_cooldown_slots |-> 392, cooldown_proposed_at_slot |-> 400]

\* Mutant (the layout of version 3): the timelock is packed into the bytes
\* of the high-water mark.
OffsetV3(f) ==
    CASE f = "pending_cooldown_slots" -> 330
      [] f = "cooldown_proposed_at_slot" -> 338
      [] OTHER -> Offsets[f]

\* Mutant: two fields of the struct trade places, which leaves its size as it was.
OffsetReordered(f) ==
    CASE f = "vault" -> Offsets["collateral_mint"]
      [] f = "collateral_mint" -> Offsets["vault"]
      [] OTHER -> Offsets[f]

Offset(f) == Offsets[f]

\* The getter and the setter of a field.
Read(d, f) == [i \in Span(f) |-> d[Offset(f) + i]]

Write(d, f, v) ==
    [j \in 0 .. STAKE_POOL_SIZE - 1 |->
        IF j - Offset(f) \in Span(f) THEN v[j - Offset(f)] ELSE d[j]]

Wide(v, f) == v = [i \in Span(f) |-> v[i]]

\* What is put into a field fills it.
ASSUME ContentsAssumption ==
    /\ DOMAIN IDENTITY = {"slab", "admin", "collateral_mint", "lp_mint", "vault",
                          "percolator_program", "bump", "vault_authority_bump"}
    /\ \A f \in DOMAIN IDENTITY : Wide(IDENTITY[f], f)
    /\ \A f \in Names : \A v \in Contents[f] : Wide(v, f)

----------------------------------------------------------------------------
(* The account.                                                            *)

Zero(f) == [i \in Span(f) |-> 0]

One(f) == [i \in Span(f) |-> 1]

DISCRIMINATOR == [i \in U64 |-> <<83, 80, 79, 79, 76, 95, 86, 49>>[i + 1]]

\* The fields InitPool saves; InitTradingPool then sets the mode to 1.
Saved(mode, cooldown_slots, deposit_cap) ==
    [f \in Names |->
        CASE f \in DOMAIN IDENTITY -> IDENTITY[f]
          [] f = "is_initialized" -> One(f)
          [] f = "pool_mode" -> mode
          [] f = "discriminator" -> DISCRIMINATOR
          [] f = "version" -> [i \in Span(f) |-> CURRENT_VERSION]
          [] f = "cooldown_slots" -> cooldown_slots
          [] f = "deposit_cap" -> deposit_cap
          [] OTHER -> Zero(f)]

Genesis ==
    {Saved(mode, cooldown_slots, deposit_cap) :
        mode \in {Zero("pool_mode"), One("pool_mode")},
        cooldown_slots \in Contents["cooldown_slots"],
        deposit_cap \in Contents["deposit_cap"]}

\* The account's bytes when the fields hold g and the padding is zero.
Image(g) ==
    [j \in 0 .. STAKE_POOL_SIZE - 1 |->
        IF \E f \in Names : j - Offset(f) \in Span(f)
        THEN LET f == CHOOSE f \in Names : j - Offset(f) \in Span(f)
             IN  g[f][j - Offset(f)]
        ELSE 0]

Init ==
    /\ \E g \in Genesis : data = Image(g)
    /\ last = <<>>
    /\ STAKE_POOL_VERSION = CURRENT_VERSION - 1

Store(f, v) ==
    /\ data' = Write(data, f, v)
    /\ last' = <<f, v>>
    /\ UNCHANGED STAKE_POOL_VERSION

\* The handlers set one field after another; a transaction is a run of these.
SetLedger == \E f \in LedgerFields : \E v \in Contents[f] : Store(f, v)
SetAdmin == \E f \in {"admin", "pending_admin"} : \E v \in Contents[f] : Store(f, v)
SetTranche == \E f \in TrancheFields : \E v \in Contents[f] : Store(f, v)
SetLoss == \E f \in LossFields : \E v \in Contents[f] : Store(f, v)
SetHwm == \E f \in HwmFields : \E v \in Contents[f] : Store(f, v)
SetTimelock == \E f \in TimelockFields : \E v \in Contents[f] : Store(f, v)

\* External: the coordinated bump, a wrapper redeployed for this version.
BumpWrapper ==
    /\ STAKE_POOL_VERSION # CURRENT_VERSION
    /\ STAKE_POOL_VERSION' = CURRENT_VERSION
    /\ UNCHANGED <<data, last>>

Next == SetLedger \/ SetAdmin \/ SetTranche \/ SetLoss \/ SetHwm \/ SetTimelock \/ BumpWrapper

Spec == Init /\ [][Next]_lvars

----------------------------------------------------------------------------
(* What the layout promises.                                               *)

Fields == INSTANCE StakeFields WITH fields <- [f \in Names |-> Read(data, f)]

(* Every accessor reads what its own setter wrote last, whatever the other *)
(* setters did in between: no two fields share a byte.  (The first packing *)
(* of the cooldown timelock lay over the high-water mark, so that an epoch *)
(* refresh read as a long-elapsed proposal.)                               *)
ImplementsFields == Fields!FSpec

\* The wrapper's WithdrawInsuranceReserveToStake (tag 87), external: what it
\* reads of the account, at offsets of its own.
WrapperReads(offset, span) == [i \in span |-> data[offset + i]]

\* The shortest account it takes: what a pool of its version is long.
STAKE_POOL_LEN == IF STAKE_POOL_VERSION = CURRENT_VERSION THEN STAKE_POOL_SIZE ELSE 392

WrapperPays ==
    /\ STAKE_POOL_SIZE >= STAKE_POOL_LEN
    /\ data[0] = 1
    /\ WrapperReads(8, Key) = IDENTITY["slab"]
    /\ WrapperReads(224, Key) = IDENTITY["percolator_program"]
    /\ data[280] = 0
    /\ WrapperReads(320, U64) = DISCRIMINATOR
    /\ data[328] = STAKE_POOL_VERSION

(* state.rs, cross-program layout contract: a wrapper that has not been    *)
(* bumped pays no pool of this program; one that has pays the insurance    *)
(* reserve to exactly the insurance-LP pools, through their whole life,    *)
(* those created and used before the bump included; and the account the    *)
(* wrapper takes for the pool's vault is that vault before and after.      *)
PayoutReachesVault ==
    /\ WrapperPays <=>
          /\ STAKE_POOL_VERSION = CURRENT_VERSION
          /\ Read(data, "pool_mode") = Zero("pool_mode")
    /\ WrapperReads(136, Key) = IDENTITY["vault"]
=============================================================================
