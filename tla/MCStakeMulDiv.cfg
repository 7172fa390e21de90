SPECIFICATION Spec
CONSTANTS
    BITS = 3
    SCALE = 2
    Multipliers = {2, 4, 5}
    Balances = {0, 1, 2, 3, 5, 7}
    Fees = {0, 1, 2, 4, 6, 7}
    Operands <- MCOperands
INVARIANTS
    LongDivision
    FeeSplitExact
