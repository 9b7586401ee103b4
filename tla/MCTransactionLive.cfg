\* Every promise settles once web3 has the transaction.
SPECIFICATION FairSpec
CONSTANTS
    NoReceipt = NoReceipt
    NoFrom = NoFrom
    Receipts = {mined, reverted}
    RevertedReceipts = {reverted}
    Accounts = {a1}
    Callers = {c1}
    Targets = {1, 2}
    MaxSigns = 1
    MaxConfirmations = 2
    MaxReorgs = 0
    LookupMayMiss = TRUE
    LookupMayFail = FALSE
PROPERTIES
    HashSettles
    ReceiptSettles
    ConfirmationsArrive
CHECK_DEADLOCK FALSE
