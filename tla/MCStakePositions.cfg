SPECIFICATION Spec
CONSTANTS
    u1 = u1
    u2 = u2
    Users <- MCUsers
    Args <- MCArgs
    U64_MAX = 7
    MINIMUM_LIQUIDITY = 1
    MAX_COOLDOWN_SLOTS = 3
    TIMELOCK_SLOTS = 2
    MAX_HWM_FLOOR_BPS = 9000
    SLOTS_PER_EPOCH = 2
    MAX_SLOT = 4
    MAY_RESOLVE = FALSE
    PoolModes = {1}
    InitCooldowns = {1}
    InitCaps = {6}
SYMMETRY UserSymmetry
INVARIANTS
    LpLedger
    PendingRaises
PROPERTIES
    ExitWindow
