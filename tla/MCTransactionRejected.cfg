\* getTxReceipt asked while the error handler awaits the receipt.
SPECIFICATION Spec
CONSTANTS
    NoReceipt = NoReceipt
    NoFrom = NoFrom
    Receipts = {mined, reverted}
    RevertedReceipts = {reverted}
    Accounts = {a1}
    Callers = {c1}
    Targets = {1, 2}
    MaxSigns = 1
    MaxConfirmations = 2
    MaxReorgs = 0
    LookupMayMiss = FALSE
    LookupMayFail = FALSE
INVARIANTS
    RejectedHasNoReceipt
CHECK_DEADLOCK FALSE
