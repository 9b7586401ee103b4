----------------------------- MODULE LoansProofs -----------------------------
(***************************************************************************)
(* Proofs about module Loans, for any scales, products, rates, amounts and *)
(* terms.                                                                  *)
(***************************************************************************)
EXTENDS Loans, UnitsProofs

-----------------------------------------------------------------------------
(* The arithmetic *)

LEMMA Scales == RATIO_DIV \in Nat \ {0} /\ E12 \in Nat \ {0} /\ WEI_DIV \in Nat \ {0}
  BY UnitsAssumption DEF WEI_DIV

LEMMA ProductTypes ==
    ASSUME TypeOK
    PROVE  /\ discountRate \in Nat \ {0} /\ collateralRatio \in Nat \ {0}
           /\ ethFiatRate \in Nat \ {0} /\ ethFiatRate \in 1 .. WEI_DIV
  BY ProductAssumption, Scales DEF TypeOK

LEMMA InitialRatioIsPositive ==
    ASSUME TypeOK
    PROVE  InitialCollateralRatio \in Nat \ {0}
<1>1. RATIO_DIV * RATIO_DIV \in Nat \ {0}  BY Scales
<1>2. CeilDiv(RATIO_DIV * RATIO_DIV, collateralRatio) \in Nat \ {0}
  BY <1>1, ProductTypes, CeilDivCovers
<1> QED  BY <1>2, ProductTypes DEF InitialCollateralRatio, Div

(* A discounted amount is a natural number, and no more than the amount    *)
(* unless the discount is negative.                                        *)
LEMMA MulCeilIsNat ==
    ASSUME NEW amount \in Nat, NEW ratio \in Nat
    PROVE  MulCeil(amount, ratio) \in Nat
  BY Scales, CeilDivCovers DEF MulCeil

LEMMA MulCeilAtMost ==
    ASSUME NEW amount \in Nat, NEW ratio \in Nat, ratio <= RATIO_DIV
    PROVE  MulCeil(amount, ratio) <= amount
<1>1. amount * ratio <= amount * RATIO_DIV  BY Scales
<1>2. /\ amount * ratio + RATIO_DIV - 1 \in Int
      /\ amount * ratio + RATIO_DIV - 1 < RATIO_DIV * amount + RATIO_DIV
  BY <1>1, Scales
<1> QED  BY <1>2, Scales, QuotientAtMost DEF MulCeil, CeilDiv

LEMMA DivFloorIsNat ==
    ASSUME NEW amount \in Nat, NEW ratio \in Nat \ {0}
    PROVE  DivFloor(amount, ratio) \in Nat
  BY Scales, QuotientNat DEF DivFloor

LEMMA DivFloorAtLeast ==
    ASSUME NEW amount \in Nat, NEW ratio \in Nat \ {0}, ratio <= RATIO_DIV
    PROVE  amount <= DivFloor(amount, ratio)
<1>1. ratio * amount <= amount * RATIO_DIV /\ amount * RATIO_DIV \in Int  BY Scales
<1> QED  BY <1>1, QuotientAtLeast DEF DivFloor

LEMMA ToTokensIsNat ==
    ASSUME NEW wei \in Nat, NEW rate \in Nat
    PROVE  ToTokens(wei, rate) \in Nat
  BY Scales, DivRoundNat DEF ToTokens

LEMMA ToWeiIsNat ==
    ASSUME NEW tokens \in Nat, NEW rate \in Nat \ {0}
    PROVE  ToWei(tokens, rate) \in Nat
  BY Scales, DivRoundNat DEF ToWei

-----------------------------------------------------------------------------
(* Type correctness *)

LEMMA FromCollateralTypes ==
    ASSUME TypeOK, NEW w \in Nat
    PROVE  CalculateLoanFromCollateral(w) \in
               [disbursedAmount : Nat, collateralAmount : Nat, repaymentAmount : Nat,
                interestAmount : Interest, rate : Rates]
<1> DEFINE repayment == DivFloor(ToTokens(w, ethFiatRate), InitialCollateralRatio)
           disbursed == MulCeil(repayment, discountRate)
<1>1. repayment \in Nat
  BY ProductTypes, ToTokensIsNat, InitialRatioIsPositive, DivFloorIsNat
<1> HIDE DEF repayment
<1>2. disbursed \in Nat  BY <1>1, ProductTypes, MulCeilIsNat
<1>3. discountRate <= RATIO_DIV => disbursed <= repayment
  BY <1>1, ProductTypes, MulCeilAtMost
<1> HIDE DEF disbursed
<1>4. repayment - disbursed \in Interest  BY <1>1, <1>2, <1>3 DEF Interest
<1>5. ethFiatRate \in Rates  BY DEF TypeOK
<1> QED
  BY <1>1, <1>2, <1>4, <1>5 DEF CalculateLoanFromCollateral, repayment, disbursed

LEMMA FromDisbursedTypes ==
    ASSUME TypeOK, NEW d \in Nat
    PROVE  CalculateLoanFromDisbursedAmount(d) \in
               [disbursedAmount : Nat, collateralAmount : Nat, repaymentAmount : Nat,
                interestAmount : Interest, rate : Rates]
<1> DEFINE repayment == Repayment(d)
           collateral == ToWei(MulCeil(repayment, InitialCollateralRatio), ethFiatRate)
<1>1. repayment \in Nat  BY ProductTypes, DivFloorIsNat DEF Repayment
<1>2. discountRate <= RATIO_DIV => d <= repayment
  BY ProductTypes, DivFloorAtLeast DEF Repayment
<1> HIDE DEF repayment
<1>3. collateral \in Nat
  BY <1>1, ProductTypes, InitialRatioIsPositive, MulCeilIsNat, ToWeiIsNat
<1> HIDE DEF collateral
<1>4. repayment - d \in Interest  BY <1>1, <1>2 DEF Interest
<1>5. ethFiatRate \in Rates  BY DEF TypeOK
<1> QED
  BY <1>1, <1>3, <1>4, <1>5 DEF CalculateLoanFromDisbursedAmount, repayment, collateral

(* A record is what its fields are. *)
LEMMA LoanFields ==
    ASSUME TypeOK
    PROVE  /\ loan.state \in {"None", "Open", "Repaid", "Defaulted"}
           /\ loan.loanAmount \in Nat /\ loan.collateralAmount \in Nat
           /\ loan.repaymentAmount \in Nat /\ loan.maturity \in Nat
           /\ quote.disbursedAmount \in Nat /\ quote.collateralAmount \in Nat
           /\ quote.repaymentAmount \in Nat
  BY DEF TypeOK

LEMMA CollateralForIsNat ==
    ASSUME TypeOK, NEW target \in Nat
    PROVE  CollateralFor(target) \in Nat
  BY LoanFields, ProductTypes, MulCeilIsNat, ToWeiIsNat DEF CollateralFor

LEMMA TypeInit == Init => TypeOK
  BY TimeAssumption DEF Init, TypeOK, NoQuote, NoLoan, Interest

(* Every step keeps the types. *)
LEMMA TypeStep == TypeOK /\ [Next]_vars => TypeOK'
<1> SUFFICES ASSUME TypeOK, [Next]_vars PROVE TypeOK'
  OBVIOUS
<1>1. CASE Quote
  <2>1. /\ quote' \in [disbursedAmount : Nat, collateralAmount : Nat, repaymentAmount : Nat,
                       interestAmount : Interest, rate : Rates]
    BY <1>1, ProductAssumption, FromDisbursedTypes, FromCollateralTypes DEF Quote
  <2>2. /\ UNCHANGED <<discountRate, collateralRatio, isMarginLoan, ethFiatRate, now, loan,
                       additions>>
        /\ Interest' = Interest
    BY <1>1 DEF Quote, productVars, Interest
  <2> QED
    BY <2>1, <2>2 DEF TypeOK
<1>2. CASE TakeLoan
  <2> DEFINE taken == CalculateLoanFromCollateral(quote.collateralAmount)
  <2>1. /\ taken.disbursedAmount \in Nat /\ taken.collateralAmount \in Nat
        /\ taken.repaymentAmount \in Nat
    BY LoanFields, FromCollateralTypes
  <2>2. now + Term \in Nat
    BY TimeAssumption DEF TypeOK
  <2>3. /\ UNCHANGED <<discountRate, collateralRatio, isMarginLoan, ethFiatRate, now, quote,
                       additions>>
        /\ Interest' = Interest
        /\ loan' = [state |-> "Open", loanAmount |-> taken.disbursedAmount,
                    collateralAmount |-> taken.collateralAmount,
                    repaymentAmount |-> taken.repaymentAmount, maturity |-> now + Term]
    BY <1>2 DEF TakeLoan, productVars, Interest
  <2> HIDE DEF taken
  <2> QED
    BY <2>1, <2>2, <2>3 DEF TypeOK
<1>3. CASE \E target \in Targets : AddExtraCollateral(target)
  <2> PICK target \in Targets : AddExtraCollateral(target)
    BY <1>3
  <2> DEFINE more == loan.collateralAmount + CalculateCollateralChange(target)
  <2>1. more \in Nat
    BY CollateralForIsNat, LoanFields, ProductAssumption DEF CalculateCollateralChange
  <2>2. /\ UNCHANGED <<discountRate, collateralRatio, isMarginLoan, ethFiatRate, now, quote>>
        /\ Interest' = Interest
        /\ loan' = [state |-> loan.state, loanAmount |-> loan.loanAmount,
                    collateralAmount |-> more,
                    repaymentAmount |-> loan.repaymentAmount, maturity |-> loan.maturity]
    BY DEF AddExtraCollateral, productVars, Interest
  <2>3. additions' \in 0 .. MaxAdditions
    BY TimeAssumption DEF AddExtraCollateral, TypeOK
  <2> HIDE DEF more
  <2> QED
    BY <2>1, <2>2, <2>3, LoanFields DEF TypeOK
<1>4. CASE Settle
  <2>1. /\ UNCHANGED <<discountRate, collateralRatio, isMarginLoan, ethFiatRate, now, quote,
                       additions>>
        /\ Interest' = Interest
        /\ \E state \in {"Repaid", "Defaulted"} :
             loan' = [state |-> state, loanAmount |-> loan.loanAmount,
                      collateralAmount |-> loan.collateralAmount,
                      repaymentAmount |-> loan.repaymentAmount, maturity |-> loan.maturity]
    BY <1>4 DEF Settle, productVars, Interest
  <2> QED
    BY <2>1, LoanFields DEF TypeOK
<1>5. CASE ChangeRate
  BY <1>5 DEF ChangeRate, productVars, TypeOK, Interest
<1>6. CASE Tick
  BY <1>6, TimeAssumption DEF Tick, productVars, TypeOK, Interest
<1>7. CASE UNCHANGED vars
  BY <1>7 DEF vars, productVars, TypeOK, Interest
<1> QED
  BY <1>1, <1>2, <1>3, <1>4, <1>5, <1>6, <1>7 DEF Next

(* Amounts stay natural numbers, and interest is not negative unless the   *)
(* product's discount makes it so, whichever way the loan was calculated   *)
(* (LoanProduct.ts 104-141).                                               *)
THEOREM TypeCorrect == Spec => []TypeOK
  BY TypeInit, TypeStep, PTL DEF Spec

-----------------------------------------------------------------------------
(* Extra collateral *)

(* What calculateCollateralChange asks for brings the loan to the target,  *)
(* as calculateCollateralRatio shows it: the roundings of the two (up, to  *)
(* the nearest, and twice to the nearest on the way back) never lose it.   *)
LEMMA CollateralReaches ==
    ASSUME TypeOK, NEW target \in Nat, loan.repaymentAmount > 0
    PROVE  target <= DivToRatio(ToTokens(CollateralFor(target), ethFiatRate),
                                loan.repaymentAmount)
<1> DEFINE repayment == loan.repaymentAmount
           needed == MulCeil(repayment, target)
           tokens == ToTokens(ToWei(needed, ethFiatRate), ethFiatRate)
<1>1. repayment \in Nat \ {0} /\ ethFiatRate \in Nat \ {0} /\ ethFiatRate \in 1 .. WEI_DIV
  BY LoanFields, ProductTypes
<1> HIDE DEF repayment
<1>2. needed \in Nat /\ repayment * target <= RATIO_DIV * needed
  BY <1>1, Scales, CeilDivCovers DEF MulCeil
<1> HIDE DEF needed
<1>3. tokens \in Nat
  BY <1>1, <1>2, ToWeiIsNat, ToTokensIsNat
<1>4. needed <= tokens
  BY <1>1, <1>2, Scales, RoundTripCovers DEF ToWei, ToTokens
<1> HIDE DEF tokens
<1>5. RATIO_DIV * needed <= tokens * RATIO_DIV
  BY <1>2, <1>3, <1>4, Scales
<1>6. repayment * target <= tokens * RATIO_DIV /\ tokens * RATIO_DIV \in Nat
  <2>1. /\ repayment * target \in Int /\ RATIO_DIV * needed \in Int
        /\ tokens * RATIO_DIV \in Nat
    BY <1>1, <1>2, <1>3, Scales
  <2> QED  BY <2>1, <1>2, <1>5
<1>7. target <= DivRound(tokens * RATIO_DIV, repayment)
  BY <1>1, <1>6, DivRoundAtLeast
<1> QED
  BY <1>7 DEF DivToRatio, tokens, needed, repayment, CollateralFor

(* The property of the run, for every product, rate and target (Loan.ts    *)
(* 137-150).                                                               *)
THEOREM ExtraCollateralReachesTarget == Spec => TargetIsReached
<1>1. ASSUME TypeOK, NEW target \in Targets, AddExtraCollateral(target)
      PROVE  CalculateCollateralRatio' >= target
  <2>1. /\ target \in Nat /\ loan.repaymentAmount > 0
        /\ ethFiatRate' = ethFiatRate
        /\ loan'.repaymentAmount = loan.repaymentAmount
        /\ loan'.collateralAmount = loan.collateralAmount + CalculateCollateralChange(target)
    BY <1>1, ProductAssumption DEF AddExtraCollateral
  <2>2. loan'.collateralAmount = CollateralFor(target)
    BY <1>1, <2>1, LoanFields, CollateralForIsNat DEF CalculateCollateralChange
  <2>3. CalculateCollateralRatio'
          = DivToRatio(ToTokens(CollateralFor(target), ethFiatRate), loan.repaymentAmount)
    BY <2>1, <2>2 DEF CalculateCollateralRatio
  <2>4. /\ target <= DivToRatio(ToTokens(CollateralFor(target), ethFiatRate),
                                loan.repaymentAmount)
    BY <1>1, <2>1, CollateralReaches
  <2> QED
    BY <2>3, <2>4
<1>2. TypeOK /\ [Next]_vars => [\A target \in Targets :
        AddExtraCollateral(target) => CalculateCollateralRatio' >= target]_vars
  BY <1>1
<1> QED
  BY <1>2, TypeCorrect, PTL DEF Spec, TargetIsReached

-----------------------------------------------------------------------------
(* Due states *)

(* The stage of an open loan is a matter of the time left. *)
StageWith(left) ==
    IF left >= SevenDays THEN 1 ELSE IF left >= ThreeDays THEN 2 ELSE IF left > 0 THEN 3 ELSE 4

LEMMA StageIsTimeLeft ==
    TypeOK /\ loan.state = "Open" => Stage = StageWith(loan.maturity - now)
<1> SUFFICES ASSUME TypeOK, loan.state = "Open"
             PROVE  Stage = StageWith(loan.maturity - now)
  OBVIOUS
<1> DEFINE left == loan.maturity - now
<1>1. now \in Nat /\ loan.maturity \in Nat /\ left \in Int
  BY TimeAssumption, LoanFields DEF TypeOK
<1>2. /\ IsRepayable <=> left > 0
      /\ IsDue <=> left < SevenDays
  BY <1>1 DEF IsRepayable, IsDue
<1>3. /\ ~IsDue => DueState = ""
      /\ IsDue /\ left < ThreeDays => DueState = "danger"
      /\ IsDue /\ ~(left < ThreeDays) => DueState = "warning"
  BY Zenon DEF DueState
<1> HIDE DEF left
<1>4. CASE left >= SevenDays
  <2>1. IsRepayable /\ ~IsDue
    BY <1>1, <1>2, <1>4, TimeAssumption
  <2>2. Stage = 1
    BY <1>3, <2>1, Zenon DEF Stage
  <2> QED
    BY <1>4, <2>2 DEF StageWith, left
<1>5. CASE ~(left >= SevenDays) /\ left >= ThreeDays
  <2>1. IsRepayable /\ IsDue /\ ~(left < ThreeDays)
    BY <1>1, <1>2, <1>5, TimeAssumption
  <2>2. DueState = "warning"
    BY <1>3, <2>1, Zenon
  <2>3. Stage = 2
    BY <2>1, <2>2, Zenon DEF Stage
  <2> QED
    BY <1>5, <2>3 DEF StageWith, left
<1>6. CASE ~(left >= ThreeDays)
  <2>1. IsDue /\ left < ThreeDays /\ ~(left >= SevenDays)
    BY <1>1, <1>2, <1>6, TimeAssumption
  <2>2. DueState = "danger"
    BY <1>3, <2>1, Zenon
  <2>3. Stage = IF IsRepayable THEN 3 ELSE 4
    BY <2>2, Zenon DEF Stage
  <2>4. Stage = IF left > 0 THEN 3 ELSE 4
    BY <2>3, <1>2, Zenon
  <2> QED
    BY <1>6, <2>1, <2>4 DEF StageWith, left
<1> QED
  BY <1>4, <1>5, <1>6

(* One second on, a loan is in the same stage or in the next: due, in      *)
(* danger, past repayment (Loan.ts 105-135).                               *)
THEOREM DueStatesInOrder == Spec => DueNeverSkips
<1>1. (TypeOK /\ loan.state = "Open" => Stage = StageWith(loan.maturity - now))'
  BY StageIsTimeLeft, PTL
<1>2. ASSUME TypeOK, TypeOK', [Next]_vars, now' > now, loan' = loan
      PROVE  Stage' \in {Stage, Stage + 1}
  <2>1. now \in Nat /\ loan.maturity \in Nat
    BY <1>2, TimeAssumption, LoanFields DEF TypeOK
  <2>2. now' = now + 1
    BY <1>2, <2>1 DEF Next, Quote, TakeLoan, Settle, ChangeRate, Tick, AddExtraCollateral, vars
  <2>3. CASE loan.state # "Open"
    BY <1>2, <2>3 DEF Stage
  <2>4. CASE loan.state = "Open"
    <3> DEFINE left == loan.maturity - now
    <3>1. Stage = StageWith(left)
      BY <1>2, <2>4, StageIsTimeLeft
    <3>2. /\ left \in Int /\ loan'.maturity - now' = left - 1
      BY <1>2, <2>1, <2>2
    <3>3. Stage' = StageWith(loan'.maturity - now')
      BY <1>1, <1>2, <2>4 DEF StageWith
    <3>4. Stage' = StageWith(left - 1)
      BY <3>2, <3>3
    <3> HIDE DEF left
    <3> QED
      BY <3>1, <3>2, <3>4, TimeAssumption DEF StageWith
  <2> QED
    BY <2>3, <2>4
<1>3. TypeOK /\ TypeOK' /\ [Next]_vars
        => [now' > now /\ loan' = loan => Stage' \in {Stage, Stage + 1}]_vars
  BY <1>2
<1> QED
  BY <1>3, TypeCorrect, PTL DEF Spec, DueNeverSkips

-----------------------------------------------------------------------------
(* The loan that was quoted *)

(* A repayment computed from the disbursed amount discounts to that amount. *)
LEMMA DiscountReturns ==
    ASSUME NEW d \in Nat, NEW ratio \in Nat \ {0}, ratio <= RATIO_DIV
    PROVE  MulCeil(DivFloor(d, ratio), ratio) = d
<1> DEFINE rep == DivFloor(d, ratio)
           back == MulCeil(rep, ratio)
<1>1. d * RATIO_DIV \in Nat
  BY Scales
<1>2. rep \in Nat /\ ratio * rep <= d * RATIO_DIV /\ d * RATIO_DIV < ratio * rep + ratio
  <2> DEFINE dd == d * RATIO_DIV
  <2>1. dd \in Int /\ rep = dd \div ratio /\ rep \in Nat
    BY <1>1, DivFloorIsNat DEF DivFloor
  <2> HIDE DEF dd, rep
  <2>2. ratio * rep <= dd /\ dd < ratio * rep + ratio
    BY <2>1, Quotient
  <2> QED
    BY <2>1, <2>2 DEF dd
<1> HIDE DEF rep
<1>3. rep * ratio \in Nat /\ rep * ratio = ratio * rep
  BY <1>2
<1>4. back \in Nat /\ rep * ratio <= RATIO_DIV * back
  BY <1>2, <1>3, Scales, CeilDivCovers DEF MulCeil
<1>5. back <= d
  <2>1. /\ rep * ratio + RATIO_DIV - 1 \in Int
        /\ rep * ratio + RATIO_DIV - 1 < RATIO_DIV * d + RATIO_DIV
    BY <1>1, <1>2, <1>3, Scales
  <2> QED
    BY <2>1, Scales, QuotientAtMost DEF MulCeil, CeilDiv
<1> HIDE DEF back
<1>6. RATIO_DIV * d < RATIO_DIV * (back + 1)
  <2>1. RATIO_DIV * back \in Int /\ RATIO_DIV * (back + 1) = RATIO_DIV * back + RATIO_DIV
    BY <1>4, Scales
  <2> QED
    BY <1>1, <1>2, <1>3, <1>4, <2>1, Scales
<1>7. d < back + 1
  BY <1>4, <1>6, Scales
<1> QED
  BY <1>4, <1>5, <1>7 DEF back, rep

LEMMA MulCeilMonotone ==
    ASSUME NEW a \in Nat, NEW b \in Nat, NEW ratio \in Nat, a <= b
    PROVE  MulCeil(a, ratio) <= MulCeil(b, ratio)
<1>1. a * ratio <= b * ratio /\ a * ratio \in Nat /\ b * ratio \in Nat
  BY SMT
<1> DEFINE ca == MulCeil(a, ratio)
           cb == MulCeil(b, ratio)
<1>2. cb \in Nat /\ b * ratio <= RATIO_DIV * cb
  BY <1>1, Scales, CeilDivCovers DEF MulCeil
<1> HIDE DEF cb
<1>3. /\ a * ratio + RATIO_DIV - 1 \in Int
      /\ a * ratio + RATIO_DIV - 1 < RATIO_DIV * cb + RATIO_DIV
  <2>1. RATIO_DIV * cb \in Int
    BY <1>2, Scales
  <2> QED
    BY <1>1, <1>2, <2>1, Scales
<1>4. ca <= cb
  BY <1>2, <1>3, Scales, QuotientAtMost DEF MulCeil, CeilDiv
<1> QED
  BY <1>4 DEF cb

(* Collateral computed from a repayment is worth that repayment or more,   *)
(* and not more if the ratio is at least 1.                                *)
LEMMA CollateralReturns ==
    ASSUME NEW rep \in Nat, NEW ratio \in Nat \ {0}, NEW rate \in 1 .. WEI_DIV
    PROVE  LET back == DivFloor(ToTokens(ToWei(MulCeil(rep, ratio), rate), rate), ratio)
           IN  /\ back \in Nat /\ rep <= back
               /\ RATIO_DIV <= ratio => back = rep
<1> DEFINE needed == MulCeil(rep, ratio)
           back == DivFloor(needed, ratio)
<1>1. rep * ratio \in Nat
  OBVIOUS
<1>2. needed \in Nat /\ rep * ratio <= RATIO_DIV * needed
  BY <1>1, Scales, CeilDivCovers DEF MulCeil
<1>3. ToTokens(ToWei(needed, rate), rate) = needed
  BY <1>2, Scales, RoundTripReturns DEF ToTokens, ToWei
<1>4. RATIO_DIV * needed <= rep * ratio + RATIO_DIV - 1
  BY <1>1, Scales, Quotient DEF MulCeil, CeilDiv
<1> HIDE DEF needed
<1>5. needed * RATIO_DIV \in Nat /\ needed * RATIO_DIV = RATIO_DIV * needed
  BY <1>2, Scales
<1>6. ratio * rep <= needed * RATIO_DIV
  BY <1>1, <1>2, <1>5
<1>7. back \in Nat /\ rep <= back
  BY <1>2, <1>5, <1>6, DivFloorIsNat, QuotientAtLeast DEF DivFloor
<1>8. ASSUME RATIO_DIV <= ratio PROVE back <= rep
  <2>1. needed * RATIO_DIV < ratio * rep + ratio
    BY <1>1, <1>4, <1>5, <1>8, Scales
  <2> QED
    BY <1>5, <2>1, QuotientAtMost DEF DivFloor
<1> HIDE DEF back
<1> QED
  BY <1>3, <1>7, <1>8 DEF back, needed

(* A quote is one of the two calculations, at the rate it names.           *)
QuotedFromCollateral ==
    /\ quote.repaymentAmount
         = DivFloor(ToTokens(quote.collateralAmount, quote.rate), InitialCollateralRatio)
    /\ quote.disbursedAmount = MulCeil(quote.repaymentAmount, discountRate)

QuotedFromDisbursed ==
    /\ quote.repaymentAmount = Repayment(quote.disbursedAmount)
    /\ quote.collateralAmount
         = ToWei(MulCeil(quote.repaymentAmount, InitialCollateralRatio), quote.rate)

QuoteInv ==
    /\ TypeOK
    /\ quote # NoQuote => QuotedFromCollateral \/ QuotedFromDisbursed

LEMMA QuoteStep == QuoteInv /\ [Next]_vars => QuoteInv'
<1> SUFFICES ASSUME QuoteInv, [Next]_vars
             PROVE  (quote # NoQuote => QuotedFromCollateral \/ QuotedFromDisbursed)'
  BY TypeStep DEF QuoteInv
<1>1. discountRate' = discountRate /\ InitialCollateralRatio' = InitialCollateralRatio
  BY DEF Next, vars, productVars, Quote, TakeLoan, Settle, ChangeRate, Tick,
         AddExtraCollateral, InitialCollateralRatio
<1>2. CASE Quote
  <2>1. CASE \E d \in DisbursedAmounts : quote' = CalculateLoanFromDisbursedAmount(d)
    BY <1>1, <2>1 DEF CalculateLoanFromDisbursedAmount, QuotedFromDisbursed, Repayment
  <2>2. CASE \E w \in Collaterals : quote' = CalculateLoanFromCollateral(w)
    BY <1>1, <2>2 DEF CalculateLoanFromCollateral, QuotedFromCollateral
  <2> QED
    BY <1>2, <2>1, <2>2 DEF Quote
<1>3. CASE quote' = quote
  BY <1>1, <1>3 DEF QuoteInv, QuotedFromCollateral, QuotedFromDisbursed, Repayment
<1> QED
  BY <1>2, <1>3 DEF Next, vars, TakeLoan, Settle, ChangeRate, Tick, AddExtraCollateral

(* The loan the contract grants for a quote's collateral, at its rate.     *)
LEMMA QuoteIsGranted ==
    ASSUME QuoteInv, quote # NoQuote, ethFiatRate = quote.rate, discountRate <= RATIO_DIV
    PROVE  LET taken == CalculateLoanFromCollateral(quote.collateralAmount)
           IN  /\ taken.disbursedAmount >= quote.disbursedAmount
               /\ InitialCollateralRatio >= RATIO_DIV =>
                    /\ taken.disbursedAmount = quote.disbursedAmount
                    /\ taken.repaymentAmount = quote.repaymentAmount
<1> DEFINE taken == CalculateLoanFromCollateral(quote.collateralAmount)
           ratio == InitialCollateralRatio
<1>1. /\ taken.repaymentAmount = DivFloor(ToTokens(quote.collateralAmount, quote.rate), ratio)
      /\ taken.disbursedAmount = MulCeil(taken.repaymentAmount, discountRate)
  BY DEF CalculateLoanFromCollateral
<1>2. TypeOK
  BY DEF QuoteInv
<1>3. /\ ratio \in Nat \ {0} /\ discountRate \in Nat \ {0} /\ quote.rate \in 1 .. WEI_DIV
      /\ quote.disbursedAmount \in Nat /\ quote.repaymentAmount \in Nat
  BY <1>2, InitialRatioIsPositive, ProductTypes, LoanFields
<1> HIDE DEF taken, ratio
<1>4. CASE QuotedFromCollateral
  BY <1>1, <1>3, <1>4 DEF QuotedFromCollateral, ratio, taken
<1>5. CASE QuotedFromDisbursed
  <2>1. quote.collateralAmount = ToWei(MulCeil(quote.repaymentAmount, ratio), quote.rate)
    BY <1>5 DEF QuotedFromDisbursed, ratio
  <2>2. /\ taken.repaymentAmount \in Nat
        /\ quote.repaymentAmount <= taken.repaymentAmount
        /\ RATIO_DIV <= ratio => taken.repaymentAmount = quote.repaymentAmount
    BY <1>1, <1>3, <2>1, CollateralReturns
  <2>3. MulCeil(quote.repaymentAmount, discountRate) = quote.disbursedAmount
    BY <1>3, <1>5, DiscountReturns DEF QuotedFromDisbursed, Repayment
  <2>4. MulCeil(quote.repaymentAmount, discountRate) <= taken.disbursedAmount
    BY <1>1, <1>3, <2>2, MulCeilMonotone
  <2>5. taken.disbursedAmount \in Nat
    BY <1>1, <1>3, <2>2, MulCeilIsNat
  <2>6. RATIO_DIV <= ratio => taken.disbursedAmount = quote.disbursedAmount
    BY <1>1, <2>2, <2>3
  <2>7. quote.disbursedAmount <= taken.disbursedAmount
    BY <2>3, <2>4
  <2> QED
    BY <1>3, <2>2, <2>5, <2>6, <2>7, Scales DEF taken, ratio
<1> QED
  BY <1>4, <1>5 DEF QuoteInv

(* The property of the run, for every scale, product, rate and amount      *)
(* (LoanProduct.ts 104-141).                                               *)
THEOREM QuotedLoanIsGranted == Spec => LoanAsQuoted
<1>1. Init => QuoteInv
  BY TypeInit DEF Init, QuoteInv
<1>2. Spec => []QuoteInv
  BY <1>1, QuoteStep, PTL DEF Spec
<1>3. ASSUME QuoteInv, [Next]_vars, loan = NoLoan, loan' # NoLoan,
             ethFiatRate = quote.rate, discountRate <= RATIO_DIV
      PROVE  /\ loan'.loanAmount >= quote.disbursedAmount
             /\ InitialCollateralRatio >= RATIO_DIV =>
                  /\ loan'.loanAmount = quote.disbursedAmount
                  /\ loan'.repaymentAmount = quote.repaymentAmount
  <2>1. loan.state = "None"
    BY <1>3 DEF NoLoan
  <2>2. TakeLoan
    BY <1>3, <2>1 DEF Next, vars, Quote, Settle, IsRepayable, ChangeRate, Tick,
                      AddExtraCollateral
  <2>3. quote # NoQuote
    BY <2>2 DEF TakeLoan
  <2>4. /\ loan'.loanAmount
             = CalculateLoanFromCollateral(quote.collateralAmount).disbursedAmount
        /\ loan'.repaymentAmount
             = CalculateLoanFromCollateral(quote.collateralAmount).repaymentAmount
    BY <2>2 DEF TakeLoan
  <2> QED
    BY <1>3, <2>3, <2>4, QuoteIsGranted
<1>4. QuoteInv /\ [Next]_vars =>
        [loan = NoLoan /\ loan' # NoLoan /\ ethFiatRate = quote.rate
           /\ discountRate <= RATIO_DIV
         => /\ loan'.loanAmount >= quote.disbursedAmount
            /\ InitialCollateralRatio >= RATIO_DIV =>
                 /\ loan'.loanAmount = quote.disbursedAmount
                 /\ loan'.repaymentAmount = quote.repaymentAmount]_vars
  BY <1>3
<1> QED
  BY <1>2, <1>4, PTL DEF Spec, LoanAsQuoted
=============================================================================
