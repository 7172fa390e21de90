SPECIFICATION Spec
CONSTANTS
    u1 = u1
    u2 = u2
    Users <- MCUsers
    Args <- MCArgs
    U64_MAX = 15
    MINIMUM_LIQUIDITY = 1
    MAX_COOLDOWN_SLOTS = 2
    TIMELOCK_SLOTS = 1
    MAX_HWM_FLOOR_BPS = 9000
    SLOTS_PER_EPOCH = 2
    MAX_SLOT = 2
    MAY_RESOLVE = FALSE
    PoolModes = {0}
    InitCooldowns = {1}
    InitCaps = {0}
SYMMETRY UserSymmetry
INVARIANTS
    LossNeverBlocksWithdraw
