----------------------------- MODULE UnitsProofs -----------------------------
(***************************************************************************)
(* What the conversions of Units round to, for every amount and scale.     *)
(***************************************************************************)
EXTENDS Units, TLAPS

(* The quotient of two integers and what is left. *)
LEMMA Quotient ==
    ASSUME NEW a \in Int, NEW b \in Nat \ {0}
    PROVE  /\ a \div b \in Int
           /\ b * (a \div b) <= a /\ a < b * (a \div b) + b
  BY SMT

(* A quotient is at least q if q divisors fit. *)
LEMMA QuotientAtLeast ==
    ASSUME NEW a \in Int, NEW b \in Nat \ {0}, NEW q \in Int, b * q <= a
    PROVE  q <= a \div b
<1> DEFINE d == a \div b
<1>1. d \in Int /\ a < b * d + b  BY Quotient
<1> HIDE DEF d
<1>2. b * q < b * (d + 1)  BY <1>1
<1>3. q < d + 1  BY <1>1, <1>2
<1> QED  BY <1>1, <1>3 DEF d

(* A quotient is at most q if no more than q divisors fit. *)
LEMMA QuotientAtMost ==
    ASSUME NEW a \in Int, NEW b \in Nat \ {0}, NEW q \in Int, a < b * q + b
    PROVE  a \div b <= q
<1> DEFINE d == a \div b
<1>1. d \in Int /\ b * d <= a  BY Quotient
<1> HIDE DEF d
<1>2. b * d < b * (q + 1)  BY <1>1
<1>3. d < q + 1  BY <1>1, <1>2
<1> QED  BY <1>1, <1>3 DEF d

LEMMA QuotientNat ==
    ASSUME NEW a \in Nat, NEW b \in Nat \ {0}
    PROVE  a \div b \in Nat
  BY SMT

(* Rounding up loses nothing. *)
LEMMA CeilDivCovers ==
    ASSUME NEW a \in Nat, NEW b \in Nat \ {0}
    PROVE  /\ CeilDiv(a, b) \in Nat
           /\ a <= b * CeilDiv(a, b)
<1> DEFINE c == (a + b - 1) \div b
<1>1. a + b - 1 \in Nat  OBVIOUS
<1>2. c \in Nat /\ a + b - 1 < b * c + b  BY <1>1, Quotient, QuotientNat
<1> HIDE DEF c
<1>3. b * c \in Int  BY <1>2
<1>4. a <= b * c  BY <1>2, <1>3
<1> QED  BY <1>2, <1>4 DEF c, CeilDiv

LEMMA DivRoundNat ==
    ASSUME NEW a \in Nat, NEW b \in Nat \ {0}
    PROVE  DivRound(a, b) \in Nat
<1>1. 2 * a + b \in Nat /\ 2 * b \in Nat \ {0}  OBVIOUS
<1> QED  BY <1>1, QuotientNat DEF DivRound

(* Rounding to the nearest reaches what is reached exactly. *)
LEMMA DivRoundAtLeast ==
    ASSUME NEW a \in Nat, NEW b \in Nat \ {0}, NEW q \in Nat, b * q <= a
    PROVE  q <= DivRound(a, b)
<1>1. b * q \in Int  OBVIOUS
<1>2. (2 * b) * q = 2 * (b * q)  OBVIOUS
<1>3. (2 * b) * q <= 2 * a + b  BY <1>1, <1>2
<1>4. 2 * a + b \in Int /\ 2 * b \in Nat \ {0}  OBVIOUS
<1> QED  BY <1>3, <1>4, QuotientAtLeast DEF DivRound

(* Converted to a finer unit and back, both times to the nearest, an       *)
(* amount comes back as no less: the rate is at most the scale.            *)
LEMMA RoundTripCovers ==
    ASSUME NEW tokens \in Nat, NEW scale \in Nat \ {0}, NEW rate \in 1 .. scale
    PROVE  tokens <= DivRound(DivRound(tokens * scale, rate) * rate, scale)
<1> DEFINE a == 2 * (tokens * scale) + rate
           b == 2 * rate
           wei == a \div b
           back == 2 * (wei * rate) + scale
<1>1. a \in Nat /\ b \in Nat \ {0} /\ tokens * scale \in Nat /\ rate \in Nat /\ rate <= scale
  OBVIOUS
<1>2. wei \in Nat /\ a < b * wei + b
  <2> HIDE DEF a, b
  <2> QED  BY <1>1, Quotient, QuotientNat
<1> HIDE DEF wei
<1>3. wei * rate \in Nat /\ b * wei = 2 * (wei * rate)  BY <1>1, <1>2
<1>4. 2 * (tokens * scale) <= back  BY <1>1, <1>2, <1>3
<1>5. (2 * scale) * tokens = 2 * (tokens * scale)  OBVIOUS
<1>6. back \in Int /\ 2 * scale \in Nat \ {0}  BY <1>3
<1>7. tokens <= back \div (2 * scale)
  BY <1>4, <1>5, <1>6, QuotientAtLeast
<1> QED  BY <1>7 DEF DivRound, wei

(* ... and as no more. *)
LEMMA RoundTripReturns ==
    ASSUME NEW tokens \in Nat, NEW scale \in Nat \ {0}, NEW rate \in 1 .. scale
    PROVE  DivRound(DivRound(tokens * scale, rate) * rate, scale) = tokens
<1> DEFINE t == tokens * scale
           wei == DivRound(t, rate)
           back == DivRound(wei * rate, scale)
<1>1. t \in Nat /\ rate \in Nat \ {0} /\ rate <= scale
  OBVIOUS
<1>2. tokens <= back
  BY RoundTripCovers
<1> HIDE DEF t
<1>3. wei \in Nat
  BY <1>1, DivRoundNat
<1>4. (2 * rate) * wei <= 2 * t + rate
  <2>1. 2 * t + rate \in Int /\ 2 * rate \in Nat \ {0}
    BY <1>1
  <2> QED
    BY <2>1, Quotient DEF DivRound
<1> HIDE DEF wei
<1>5. wei * rate \in Nat /\ 2 * (wei * rate) <= 2 * t + rate
  BY <1>1, <1>3, <1>4
<1>6. back \in Nat
  BY <1>5, DivRoundNat
<1>7. CASE rate < scale
  <2>1. 2 * (wei * rate) + scale < (2 * scale) * tokens + 2 * scale
    <3>1. (2 * scale) * tokens = 2 * t /\ (2 * scale) * tokens \in Int
      BY DEF t
    <3> QED
      BY <1>1, <1>5, <1>7, <3>1
  <2>2. 2 * (wei * rate) + scale \in Int /\ 2 * scale \in Nat \ {0}
    BY <1>5
  <2>3. back <= tokens
    BY <2>1, <2>2, QuotientAtMost DEF DivRound
  <2> QED
    BY <1>2, <1>6, <2>3 DEF back, wei, t
<1>8. CASE rate = scale
  <2>1. ASSUME NEW n \in Nat PROVE DivRound(n * scale, scale) = n
    <3> DEFINE p == 2 * (n * scale) + scale
    <3>1. p \in Int /\ 2 * scale \in Nat \ {0} /\ (2 * scale) * n = 2 * (n * scale)
      OBVIOUS
    <3>2. n * scale \in Int /\ (2 * scale) * n <= p /\ p < (2 * scale) * n + 2 * scale
      BY <3>1
    <3> HIDE DEF p
    <3>3. n <= p \div (2 * scale) /\ p \div (2 * scale) <= n
      BY <3>1, <3>2, QuotientAtLeast, QuotientAtMost
    <3>4. p \div (2 * scale) \in Int
      BY <3>1, Quotient
    <3> QED
      BY <3>3, <3>4 DEF DivRound, p
  <2>2. wei = tokens
    BY <1>8, <2>1 DEF wei, t
  <2> QED
    BY <1>8, <2>1, <2>2 DEF wei, t
<1> QED
  BY <1>1, <1>7, <1>8
=============================================================================
