SPECIFICATION HSpec
CONSTANTS
    Users = {u1}
    Args <- MCArgs
    U64_MAX = 7
    MINIMUM_LIQUIDITY = 1
    MAX_COOLDOWN_SLOTS = 2
    TIMELOCK_SLOTS = 1
    MAX_HWM_FLOOR_BPS = 9000
    SLOTS_PER_EPOCH = 1
    MAX_SLOT = 3
    MAY_RESOLVE = FALSE
    PoolModes = {0}
    InitCooldowns = {1}
    InitCaps = {0}
PROPERTIES
    HwmRateLimit
    EpochFloor
