-------------------------------- MODULE Loans --------------------------------
(***************************************************************************)
(* src/src/LoanProduct.ts and src/src/Loan.ts: what the library tells a    *)
(* borrower of a loan before it is taken, when it is taken, and while time *)
(* passes and the rate moves.  The contract is external: it computes the   *)
(* loan from the collateral it gets, as the tests say it does              *)
(* (LoanManager.test.js 186).                                              *)
(***************************************************************************)
EXTENDS Units

CONSTANTS
    DiscountRates, CollateralRatios,   \* of the products, in Ratio units
    Rates,                             \* ethFiatRate
    DisbursedAmounts, Collaterals,     \* what a borrower may ask for
    Targets,                           \* collateral ratios to restore
    Term, SevenDays, ThreeDays,        \* in the model's seconds
    MaxTime,                           \* bound on the clock
    MaxAdditions                       \* bound on extra collaterals

ASSUME ProductAssumption ==
    /\ DiscountRates \subseteq Nat \ {0} /\ CollateralRatios \subseteq Nat \ {0}
    /\ Rates \subseteq 1 .. WEI_DIV
    /\ DisbursedAmounts \subseteq Nat \ {0} /\ Collaterals \subseteq Nat \ {0}
    /\ Targets \subseteq Nat

ASSUME TimeAssumption ==
    /\ Term \in Nat /\ SevenDays \in Nat /\ ThreeDays \in Nat
    /\ 2 <= ThreeDays /\ ThreeDays < SevenDays /\ SevenDays < Term
    /\ MaxTime \in Nat /\ MaxAdditions \in Nat

VARIABLES
    discountRate, collateralRatio, isMarginLoan,   \* the product
    ethFiatRate, now,                              \* EXTERNAL
    quote,          \* what LoanProduct calculated, and at which rate
    loan,           \* what the contract holds, as a Loan shows it
    additions

productVars == <<discountRate, collateralRatio, isMarginLoan>>
vars == <<productVars, ethFiatRate, now, quote, loan, additions>>

NoQuote == [disbursedAmount |-> 0, collateralAmount |-> 0, repaymentAmount |-> 0,
            interestAmount |-> 0, rate |-> 0]
NoLoan == [state |-> "None", loanAmount |-> 0, collateralAmount |-> 0, repaymentAmount |-> 0,
           maturity |-> 0]

(* Interest is not negative, unless the product's discount makes it so. *)
Interest == IF discountRate <= RATIO_DIV THEN Nat ELSE Int

TypeOK ==
    /\ discountRate \in DiscountRates /\ collateralRatio \in CollateralRatios
    /\ isMarginLoan \in BOOLEAN
    /\ ethFiatRate \in Rates /\ now \in 0 .. MaxTime
    /\ quote \in [disbursedAmount : Nat, collateralAmount : Nat, repaymentAmount : Nat,
                  interestAmount : Interest, rate : Rates \cup {0}]
    /\ loan \in [state : {"None", "Open", "Repaid", "Defaulted"}, loanAmount : Nat,
                 collateralAmount : Nat, repaymentAmount : Nat, maturity : Nat]
    /\ additions \in 0 .. MaxAdditions

Init ==
    /\ discountRate \in DiscountRates /\ collateralRatio \in CollateralRatios
    /\ isMarginLoan \in BOOLEAN
    /\ ethFiatRate \in Rates /\ now = 0
    /\ quote = NoQuote /\ loan = NoLoan /\ additions = 0

-----------------------------------------------------------------------------
(* LoanProduct.ts.  A quote's repayBefore, the clock plus the term, is     *)
(* left out: the contract counts its own maturity from when it is mined.   *)

(* A product without margin gives its ratio as loan to collateral. *)
InitialCollateralRatio ==
    IF isMarginLoan THEN collateralRatio ELSE Div(RATIO_DIV, collateralRatio)

CalculateLoanFromCollateral(collateral) ==
    LET repayment == DivFloor(ToTokens(collateral, ethFiatRate), InitialCollateralRatio)
        disbursed == MulCeil(repayment, discountRate)
    IN  [disbursedAmount |-> disbursed,
         collateralAmount |-> collateral,
         repaymentAmount |-> repayment,
         interestAmount |-> repayment - disbursed,
         rate |-> ethFiatRate]

RepaymentBug(disbursed) == Div(disbursed, discountRate)      \* rounds up
RepaymentMulBug(disbursed) == Mul(disbursed, discountRate)   \* discounts it again
Repayment(disbursed) == DivFloor(disbursed, discountRate)

CalculateLoanFromDisbursedAmount(disbursed) ==
    LET repayment == Repayment(disbursed)
    IN  [disbursedAmount |-> disbursed,
         collateralAmount |-> ToWei(MulCeil(repayment, InitialCollateralRatio), ethFiatRate),
         repaymentAmount |-> repayment,
         interestAmount |-> repayment - disbursed,
         rate |-> ethFiatRate]

-----------------------------------------------------------------------------
(* Loan.ts *)

IsRepayable == loan.state = "Open" /\ now < loan.maturity
IsExpired == loan.maturity < now
IsDueBug == loan.state = "Open" /\ loan.maturity - now < ThreeDays
IsDue == loan.state = "Open" /\ loan.maturity - now < SevenDays
DueState ==
    IF ~IsDue THEN "" ELSE IF loan.maturity - now < ThreeDays THEN "danger" ELSE "warning"

CalculateCollateralRatio ==
    DivToRatio(ToTokens(loan.collateralAmount, ethFiatRate), loan.repaymentAmount)

CollateralForBug(target) == ToWei(Mul(loan.repaymentAmount, target), ethFiatRate)
CollateralFor(target) == ToWei(MulCeil(loan.repaymentAmount, target), ethFiatRate)
CalculateCollateralChange(target) == CollateralFor(target) - loan.collateralAmount

-----------------------------------------------------------------------------
(* What borrowers, the contract and time do *)

Quote ==
    /\ loan = NoLoan
    /\ \/ \E d \in DisbursedAmounts : quote' = CalculateLoanFromDisbursedAmount(d)
       \/ \E w \in Collaterals : quote' = CalculateLoanFromCollateral(w)
    /\ UNCHANGED <<productVars, ethFiatRate, now, loan, additions>>

(* newEthBackedLoan with the collateral of the quote, when it is mined. *)
TakeLoan ==
    /\ loan = NoLoan /\ quote # NoQuote
    /\ LET taken == CalculateLoanFromCollateral(quote.collateralAmount)
       IN  loan' = [state |-> "Open",
                    loanAmount |-> taken.disbursedAmount,
                    collateralAmount |-> taken.collateralAmount,
                    repaymentAmount |-> taken.repaymentAmount,
                    maturity |-> now + Term]
    /\ UNCHANGED <<productVars, ethFiatRate, now, quote, additions>>

(* addExtraCollateral with what calculateCollateralChange says is missing. *)
AddExtraCollateral(target) ==
    /\ loan.state = "Open" /\ isMarginLoan /\ loan.repaymentAmount > 0
    /\ additions < MaxAdditions
    /\ CalculateCollateralChange(target) > 0
    /\ loan' = [state |-> loan.state, loanAmount |-> loan.loanAmount,
                collateralAmount |-> loan.collateralAmount + CalculateCollateralChange(target),
                repaymentAmount |-> loan.repaymentAmount, maturity |-> loan.maturity]
    /\ additions' = additions + 1
    /\ UNCHANGED <<productVars, ethFiatRate, now, quote>>

(* The loan is repaid while it is repayable, or defaults after maturity. *)
Settle ==
    /\ \E state \in {"Repaid", "Defaulted"} :
        /\ state = "Repaid" => IsRepayable
        /\ state = "Defaulted" => loan.state = "Open" /\ IsExpired
        /\ loan' = [state |-> state, loanAmount |-> loan.loanAmount,
                    collateralAmount |-> loan.collateralAmount,
                    repaymentAmount |-> loan.repaymentAmount, maturity |-> loan.maturity]
    /\ UNCHANGED <<productVars, ethFiatRate, now, quote, additions>>

ChangeRate ==
    /\ ethFiatRate' \in Rates \ {ethFiatRate}
    /\ UNCHANGED <<productVars, now, quote, loan, additions>>

Tick ==
    /\ loan # NoLoan
    /\ now < MaxTime /\ now' = now + 1
    /\ UNCHANGED <<productVars, ethFiatRate, quote, loan, additions>>

Next ==
    \/ Quote \/ TakeLoan \/ Settle \/ ChangeRate \/ Tick
    \/ \E target \in Targets : AddExtraCollateral(target)

Spec == Init /\ [][Next]_vars

-----------------------------------------------------------------------------
(* Safety *)

(* At the rate of the quote the contract grants at least what was asked    *)
(* for, and exactly that, to be repaid as quoted, if the collateral is     *)
(* worth more than the loan: four roundings on the way there and back do   *)
(* not add up (LoanProduct.ts 104-141).  Interest is not negative, as the  *)
(* contracts support no other.                                             *)
LoanAsQuoted ==
    [][loan = NoLoan /\ loan' # NoLoan /\ ethFiatRate = quote.rate /\ discountRate <= RATIO_DIV
        => /\ loan'.loanAmount >= quote.disbursedAmount
           /\ InitialCollateralRatio >= RATIO_DIV =>
                /\ loan'.loanAmount = quote.disbursedAmount
                /\ loan'.repaymentAmount = quote.repaymentAmount]_vars

(* The collateral that calculateCollateralChange asks for does reach the   *)
(* target, by the ratio that calculateCollateralRatio then shows (Loan.ts  *)
(* 137-150).                                                               *)
TargetIsReached ==
    [][\A target \in Targets :
        AddExtraCollateral(target) => CalculateCollateralRatio' >= target]_vars

(* As time goes by an open loan is due, then in danger, then no longer     *)
(* repayable, one after the other and never back (Loan.ts 105-135).        *)
Stage ==
    IF loan.state # "Open" THEN 0
    ELSE CASE DueState = "" /\ IsRepayable -> 1
           [] DueState = "warning" /\ IsRepayable -> 2
           [] DueState = "danger" /\ IsRepayable -> 3
           [] DueState = "danger" /\ ~IsRepayable -> 4
           [] OTHER -> 5

DueNeverSkips == [][now' > now /\ loan' = loan => Stage' \in {Stage, Stage + 1}]_vars
=============================================================================
