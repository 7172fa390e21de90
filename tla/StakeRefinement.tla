--------------------------- MODULE StakeRefinement ---------------------------
(***************************************************************************)
(* The stake program is an escrow: the tokens it holds are pool.vault's,   *)
(* what it has booked is total_pool_value, what it has lent is             *)
(* wrapper_recoverable, and either resolution closes it.                   *)
(***************************************************************************)
EXTENDS StakeProperties

Closed == pool.market_resolved \/ market = "Resolved"

Vault == INSTANCE StakeVault
    WITH held <- vault,
         booked <- total_pool_value(pool),
         lent <- wrapper_recoverable(pool),
         closed <- Closed

(* Every handler is an operation of the escrow or leaves it alone: the     *)
(* holders' value grows only by tokens that are in the vault and shrinks   *)
(* only by tokens that left it, a junior's exit writes off a loss without  *)
(* moving the others' value, nothing is lent to a closed market, and       *)
(* nothing is owed by one.                                                 *)
ImplementsVault == Vault!VSpec
=============================================================================
