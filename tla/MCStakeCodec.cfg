SPECIFICATION Spec
CONSTANTS
    Radix = 3
    DECIMALS = 2
    POOL_PDA <- MCPool
    VAULT_AUTH <- MCVaultAuth
    Keys <- MCKeys
    Numbers <- MCNumbers
INVARIANTS
    ExactlyWhatWasSent
    CallsMeanWhatWasAsked
    PricedWithVault
