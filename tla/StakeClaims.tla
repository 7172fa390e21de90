----------------------------- MODULE StakeClaims -----------------------------
(***************************************************************************)
(* What comments of the source say of the program and the program does not *)
(* keep.  Each is stated as its comment states it, for a run to refute.    *)
(***************************************************************************)
EXTENDS StakeProperties

(* instruction.rs, RecoverFlushedInsurance: the conservation invariant     *)
(* total_returned <= total_flushed is maintained.                          *)
ReturnedWithinFlushed == pool.total_returned <= pool.total_flushed

(* processor.rs, process_deposit and process_deposit_junior: whatever loss *)
(* is outstanding, existing LPs withdraw freely.  A withdrawal starts with *)
(* the fee accrual, so that must never fail while there are shares.        *)
LossNeverBlocksWithdraw == pool.total_lp_supply > 0 => AccrueOk(pool, vault)

\* RecoverFlushedInsurance takes any caller's signature, so no one can keep
\* it from being called while it would succeed.  Nothing is assumed of the
\* others.
Recovery == \E a \in Args["recover"] : RecoverFlushedInsurance(a)

FairSpec == Spec /\ WF_vars(Recovery)

(* state.rs, wrapper_recoverable: the amount left to recover decreases to  *)
(* zero and the gate of the two resolutions is always reachable.           *)
GateAlwaysReached == []<>wrapper_fully_recovered(pool)
=============================================================================
