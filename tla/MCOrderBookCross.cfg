\* Violated: PairsCross.
SPECIFICATION Spec
CONSTANTS
    Ids = {1, 2, 3, 4}
    Prices = {2, 3}
    TokenAmounts = {1, 3}
    WeiAmounts = {2, 3}
    Rates = {2, 5}
    GasLimits = {6}
    MaxOrders = 2
    RATIO_DIV = 1
    E12 = 1
    FIRST_MATCH_GAS = 4
    ADDITIONAL_MATCH_GAS = 1
INVARIANTS
    PairsCross
CHECK_DEADLOCK FALSE
