\* getConfirmedReceipt asked before the sending error.
SPECIFICATION Spec
CONSTANTS
    NoReceipt = NoReceipt
    NoFrom = NoFrom
    Receipts = {mined, reverted}
    RevertedReceipts = {reverted}
    Accounts = {a1}
    Callers = {c1}
    Targets = {1, 2}
    MaxSigns = 1
    MaxConfirmations = 2
    MaxReorgs = 0
    LookupMayMiss = FALSE
    LookupMayFail = FALSE
INVARIANTS
    ErrorEndsWaiting
CHECK_DEADLOCK FALSE
