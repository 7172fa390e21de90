SPECIFICATION Spec
CONSTANTS
    w1 = w1
    w2 = w2
    w3 = w3
    Wallets <- MCWallets
    vault_auth = vault_auth
    Zero = Zero
    FeeValues = {1}
SYMMETRY WalletSymmetry
INVARIANTS
    AuthorityTypeOK
    ProposalCurrent
    BurnIsFinal
PROPERTIES
    CustodySealed
    PolicyBehindSeal
