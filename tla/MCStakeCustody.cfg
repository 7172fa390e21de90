SPECIFICATION CFairSpec
CONSTANTS
    Users = {u1, u2}
    Args <- MCArgs
    U64_MAX = 3
    MINIMUM_LIQUIDITY = 1
    MAX_COOLDOWN_SLOTS = 2
    TIMELOCK_SLOTS = 1
    MAX_HWM_FLOOR_BPS = 9000
    SLOTS_PER_EPOCH = 2
    MAX_SLOT = 2
    MAY_RESOLVE = TRUE
    PoolModes = {0}
    InitCooldowns = {1}
    InitCaps = {0}
    Wallets = {w1, w2}
    vault_auth = vault_auth
    Zero = Zero
INVARIANTS
    NoAdminDrain
    SealedFundOpen
PROPERTIES
    SealedFundReturns
