\* Two objects and two callers, all operations.
SPECIFICATION Spec
CONSTANTS
    M1 = M1
    M2 = M2
    M3 = M3
    T1 = T1
    T2 = T2
    X1 = X1
    X2 = X2
    R1 = R1
    FeeAccount = FeeAccount
    NoAddress = NoAddress
    NoEnvironment = NoEnvironment
    Objects = {o1, o2}
    Callers = {c1, c2}
    Generated <- MCGenerated
    Stubs <- MCStubs
    PreMarginAbis = {"lmV0"}
    TokenOf <- MCTokenOf
    LoanManagers <- MCLoanManagers
    Loans <- MCLoans
    LoanLists <- MCLoanLists
    Exchanges <- MCExchanges
SYMMETRY Symmetric
INVARIANTS
    TypeOK
    
    CollectedOnce
    RejectedForCause
CHECK_DEADLOCK FALSE
