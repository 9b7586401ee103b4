\* Signing, sending, all promises, one reorganisation, every web3 outcome.
SPECIFICATION Spec
CONSTANTS
    NoReceipt = NoReceipt
    NoFrom = NoFrom
    Receipts = {mined, reverted}
    RevertedReceipts = {reverted}
    Accounts = {a1, a2}
    Callers = {c1, c2}
    Targets = {0, 1, 2}
    MaxSigns = 2
    MaxConfirmations = 3
    MaxReorgs = 1
    LookupMayMiss = FALSE
    LookupMayFail = TRUE
SYMMETRY Symmetric
INVARIANTS
    TypeOK
    NeverSentTwice
    SentAsSigned
    OneReceipt
    ConfirmationsOnce
    ConfirmedAreServed
    ConfirmedHasReceipt
PROPERTIES
    RevertIsFinal
    KeepsItsPromises
CHECK_DEADLOCK FALSE
