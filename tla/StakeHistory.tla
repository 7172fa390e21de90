----------------------------- MODULE StakeHistory -----------------------------
(***************************************************************************)
(* StakeProgram with a record of what the pool went through in an epoch:   *)
(* the high-water mark of the account is raised, reset and lowered by      *)
(* different handlers, and what it is worth shows only against the values  *)
(* the pool really had.                                                    *)
(***************************************************************************)
EXTENDS StakeProperties

VARIABLES
    peak,  \* the highest value the floor saw in the epoch of the mark
    lost   \* what was flushed since that epoch's mark was set

hvars == <<vars, peak, lost>>

HInit == Init /\ peak = 0 /\ lost = 0

\* The step is a deposit, or a payout, made while the floor is on.
Watched ==
    /\ pool.hwm_enabled
    /\ \/ pool'.total_deposited > pool.total_deposited
       \/ pool'.total_withdrawn > pool.total_withdrawn

\* The most the pool was worth in the step.
Seen ==
    LET before == total_pool_value(Accrued(pool, vault))
        after == total_pool_value(pool')
    IN  IF before > after THEN before ELSE after

HistoryStep ==
    IF Watched
    THEN /\ peak' = IF Epoch # pool.hwm_last_epoch \/ Seen > peak THEN Seen ELSE peak
         /\ lost' = IF Epoch # pool.hwm_last_epoch THEN 0 ELSE lost
    ELSE /\ peak' = peak
         /\ lost' = lost + pool'.total_flushed - pool.total_flushed

HNext == Next /\ HistoryStep

HSpec == HInit /\ [][HNext]_hvars

(* The step relation of EpochFloor below.                                  *)
EpochFloorStep ==
    pool.hwm_enabled /\ pool'.total_withdrawn > pool.total_withdrawn =>
        total_pool_value(pool') >= hwm_floor(SatSub(peak', lost'), pool.hwm_floor_bps)

(* PERC-313: the mark is peak - losses, so the payouts of an epoch leave   *)
(* the floor of the highest value the pool had in it, net only of what was *)
(* flushed in between: no order of payouts, deposits, fees, flushes,       *)
(* returns and switching the floor off and on lets withdrawals drain more. *)
EpochFloor == [][EpochFloorStep]_hvars
=============================================================================
