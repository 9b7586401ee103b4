\* Products with and without margin, interest of both signs, rates that do not divide.
SPECIFICATION Spec
CONSTANTS
    RATIO_DIV = 10
    E12 = 10
    DiscountRates = {7, 9, 10, 12}
    CollateralRatios = {6, 8, 16}
    Rates = {31, 77}
    DisbursedAmounts = {1, 2, 3, 5, 8, 13}
    Collaterals = {7, 30}
    Targets = {12, 19}
    Term = 5
    SevenDays = 4
    ThreeDays = 2
    MaxTime = 7
    MaxAdditions = 1
INVARIANTS
    TypeOK
PROPERTIES
    LoanAsQuoted
    TargetIsReached
    DueNeverSkips
CHECK_DEADLOCK FALSE
