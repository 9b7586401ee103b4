\* Up to three orders a side, five in all, so up to four matches; every order of arrival.
SPECIFICATION Spec
CONSTANTS
    Ids = {1, 2, 3, 4, 5}
    Prices = {2, 3}
    TokenAmounts = {1, 3}
    WeiAmounts = {2, 3}
    Rates = {2, 5}
    GasLimits = {3, 5, 7}
    MaxOrders = 3
    RATIO_DIV = 1
    E12 = 1
    FIRST_MATCH_GAS = 4
    ADDITIONAL_MATCH_GAS = 1
INVARIANTS
    TypeOK
    NoOverfill
    GasFits
    EveryMatchFinishesOne
    PriceTimePriority
    NothingLeftToMatch
    EstimatesAreTight
CHECK_DEADLOCK FALSE
