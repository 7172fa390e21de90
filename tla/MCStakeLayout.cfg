SPECIFICATION Spec
CONSTANTS
    Contents <- MCContents
    IDENTITY <- MCIdentity
    Written = {"total_withdrawn", "pending_admin", "market_resolved",
               "hwm_floor_bps", "hwm_last_epoch", "asset_admin_burned",
               "cooldown_proposed_at_slot"}
INVARIANT PayoutReachesVault
PROPERTY ImplementsFields
