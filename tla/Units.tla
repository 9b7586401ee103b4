-------------------------------- MODULE Units --------------------------------
(***************************************************************************)
(* src/src/units.ts: fixed-point arithmetic on integers, and what each     *)
(* conversion rounds to.  Tokens, Wei and Ratio are their integer amounts. *)
(***************************************************************************)
EXTENDS Integers

CONSTANTS
    RATIO_DIV,      \* Ratio.DIV: the ratio 1 (10^6)
    E12             \* Wei.DIV_BN / Ratio.DIV (10^12)

ASSUME UnitsAssumption == RATIO_DIV \in Nat \ {0} /\ E12 \in Nat \ {0}

WEI_DIV == RATIO_DIV * E12               \* Wei.DIV_BN: one ether

(* bn.js on amounts that are not negative: div truncates, divRound rounds  *)
(* to the nearest, halves up.                                              *)
CeilDiv(a, b) == (a + b - 1) \div b
DivRound(a, b) == (2 * a + b) \div (2 * b)

Mul(amount, ratio) == (amount * ratio) \div RATIO_DIV
MulCeil(amount, ratio) == CeilDiv(amount * ratio, RATIO_DIV)
Div(amount, ratio) == CeilDiv(amount * RATIO_DIV, ratio)
DivFloor(amount, ratio) == (amount * RATIO_DIV) \div ratio
DivToRatio(amount, other) == DivRound(amount * RATIO_DIV, other)

(* At a rate in tokens for one ether, and at a price relative to that.     *)
ToTokens(wei, rate) == DivRound(wei * rate, WEI_DIV)
ToWei(tokens, rate) == DivRound(tokens * WEI_DIV, rate)
ToWeiAt(tokens, rate, price) == DivRound(tokens * price * E12, rate)
ToTokensAt(wei, rate, price) == DivRound(wei * rate, price * E12)
=============================================================================
