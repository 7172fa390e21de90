SPECIFICATION Spec
CHECK_DEADLOCK FALSE
CONSTANTS
    Markets = {m1}
    Users = {w1, w2}
    MinimumBalance <- MCMinimumBalance
    MAX_LAMPORTS = 3
INVARIANTS
    CreationOpen
    AccountsSound
    PoolHoldsMarket
