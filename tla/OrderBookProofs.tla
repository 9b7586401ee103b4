--------------------------- MODULE OrderBookProofs ---------------------------
(***************************************************************************)
(* Proofs about module OrderBook, for any book, rate, scale and gas limit. *)
(***************************************************************************)
EXTENDS OrderBook, UnitsProofs, FilterProofs

-----------------------------------------------------------------------------
(* The arithmetic of one match *)

(* If the buy order cannot pay for the whole sell order, the tokens that   *)
(* its Wei buy are no more than the sell order has, although both          *)
(* conversions round.                                                      *)
LEMMA RoundingNeverOverfills ==
    ASSUME NEW a \in Nat, NEW b \in Nat, NEW P \in Nat \ {0}, NEW R \in Nat \ {0},
           b < DivRound(a * P, R)
    PROVE  DivRound(b * R, P) <= a
<1> DEFINE x == a * P
           q == DivRound(x, R)
           y == b * R
<1>1. x \in Nat /\ y \in Nat
  OBVIOUS
<1>2. q \in Nat /\ (2 * R) * q <= 2 * x + R
  <2> HIDE DEF x
  <2>1. 2 * x + R \in Int /\ 2 * R \in Nat \ {0}
    BY <1>1
  <2>2. q \in Nat
    BY <1>1, DivRoundNat
  <2>3. (2 * R) * ((2 * x + R) \div (2 * R)) <= 2 * x + R
    BY <2>1, Quotient
  <2> QED
    BY <2>2, <2>3 DEF DivRound
<1>3. (2 * R) * (b + 1) <= (2 * R) * q
  <2> HIDE DEF q
  <2> QED
    BY <1>2 DEF q
<1>4. (2 * R) * (b + 1) = 2 * y + 2 * R
  OBVIOUS
<1>5. (2 * P) * a = 2 * x
  OBVIOUS
<1>6. 2 * y + P < (2 * P) * a + 2 * P
  <2>1. (2 * R) * q \in Int
    BY <1>2
  <2> HIDE DEF x, y, q
  <2> QED
    BY <1>1, <1>2, <1>3, <1>4, <1>5, <2>1
<1>7. 2 * y + P \in Int /\ 2 * P \in Nat \ {0}
  BY <1>1
<1> QED
  BY <1>6, <1>7, QuotientAtMost DEF DivRound

(* A match takes from neither order more than it has, and all of one.      *)
LEMMA TradedFits ==
    ASSUME NEW buy, NEW sell,
           buy.amount \in Nat, sell.amount \in Nat,
           buy.price \in Nat \ {0}, sell.price \in Nat \ {0},
           ethFiatRate \in Nat \ {0}
    PROVE  LET traded == Traded(buy, sell)
               wei == buy.amount - traded.wei
               tokens == sell.amount - traded.tokens
           IN  wei \in Nat /\ tokens \in Nat /\ (wei = 0 \/ tokens = 0)
<1> DEFINE price == MakerPrice(buy, sell)
           full == ToWeiAt(sell.amount, ethFiatRate, price)
           part == ToTokensAt(buy.amount, ethFiatRate, price)
           P == price * E12
<1>1. price \in Nat \ {0}
  BY DEF MakerPrice
<1> HIDE DEF price
<1>2. P \in Nat \ {0} /\ sell.amount * price * E12 = sell.amount * P
  BY <1>1, UnitsAssumption
<1> HIDE DEF P
<1>3. sell.amount * P \in Nat /\ buy.amount * ethFiatRate \in Nat
  BY <1>2
<1>4. full = DivRound(sell.amount * P, ethFiatRate) /\ full \in Nat
  BY <1>2, <1>3, DivRoundNat DEF ToWeiAt
<1>5. part = DivRound(buy.amount * ethFiatRate, P) /\ part \in Nat
  BY <1>2, <1>3, DivRoundNat DEF ToTokensAt, P
<1>6. Traded(buy, sell) = IF full <= buy.amount
                          THEN [wei |-> full, tokens |-> sell.amount]
                          ELSE [wei |-> buy.amount, tokens |-> part]
  BY DEF Traded, price
<1>7. full > buy.amount => part <= sell.amount
  BY <1>2, <1>4, <1>5, RoundingNeverOverfills
<1> HIDE DEF full, part
<1> QED
  BY <1>4, <1>5, <1>6, <1>7

-----------------------------------------------------------------------------
(* The invariant *)

(* Before the loop nothing is matched; what is left of an order is never   *)
(* negative.                                                               *)
LoopInv ==
    /\ pc = "start" => buyIdx = 1 /\ sellIdx = 1 /\ pairs = <<>>
    /\ \A k \in DOMAIN buys : buys[k].amount \in Nat
    /\ \A k \in DOMAIN sells : sells[k].amount \in Nat

(* Each match moved an index, as it finished an order. *)
CountInv ==
    /\ Len(pairs) <= (buyIdx - 1) + (sellIdx - 1)
    /\ pairs # <<>> => Len(pairs) < Len(buys) + Len(sells)

(* The gas of the matches so far and of one more. *)
GasInv ==
    /\ nextGasEstimate = FIRST_MATCH_GAS + Len(pairs) * ADDITIONAL_MATCH_GAS
    /\ GasFits

Inv == TypeOK /\ LoopInv /\ CountInv /\ GasInv

LEMMA OrderFacts ==
    ASSUME TypeOK
    PROVE  /\ ethFiatRate \in Nat \ {0} /\ gasLimit \in Nat
           /\ buyIdx \in Nat \ {0} /\ sellIdx \in Nat \ {0}
           /\ Len(buys) \in Nat /\ Len(sells) \in Nat /\ Len(pairs) \in Nat
           /\ \A k \in DOMAIN buys : /\ buys[k] \in Order(Int)
                                     /\ buys[k].price \in Nat \ {0} /\ buys[k].id \in Ids
           /\ \A k \in DOMAIN sells : /\ sells[k] \in Order(Int)
                                      /\ sells[k].price \in Nat \ {0} /\ sells[k].id \in Ids
<1>1. /\ ethFiatRate \in Nat \ {0} /\ gasLimit \in Nat
      /\ Len(buys) \in Nat /\ Len(sells) \in Nat /\ Len(pairs) \in Nat
  BY OrdersAssumption, GasAssumption DEF TypeOK
<1>2. buyIdx \in Nat \ {0} /\ sellIdx \in Nat \ {0}
  BY <1>1 DEF TypeOK
<1>3. ASSUME NEW o \in Order(Int) PROVE o.price \in Nat \ {0} /\ o.id \in Ids
  BY OrdersAssumption DEF Order
<1>4. /\ \A k \in DOMAIN buys : buys[k] \in Order(Int)
      /\ \A k \in DOMAIN sells : sells[k] \in Order(Int)
  BY DEF TypeOK
<1> QED
  BY <1>1, <1>2, <1>3, <1>4

LEMMA InvInit == Init => Inv
<1> SUFFICES ASSUME Init PROVE Inv
  OBVIOUS
<1>1. buyOrders \in Seq(BuyOrder) /\ sellOrders \in Seq(SellOrder)
  BY DEF Init, SortedBuys, SortedSells, Arrays
<1>2. FIRST_MATCH_GAS \in Nat
  BY GasAssumption
<1> QED
  BY <1>1, <1>2, GasAssumption DEF Init, Inv, TypeOK, LoopInv, CountInv, GasInv, GasFits

(* What the filter leaves are orders of the book. *)
LEMMA StartKeepsInv ==
    ASSUME Inv, Start
    PROVE  Inv'
<1>1. buyOrders \in Seq(BuyOrder) /\ sellOrders \in Seq(SellOrder)
  BY DEF Inv, TypeOK
<1>2. /\ Buys \in Seq(BuyOrder) /\ Sells \in Seq(SellOrder)
  BY <1>1, KeptElements DEF Buys, Sells
<1>3. buys' \in Seq(BuyOrder) /\ sells' \in Seq(SellOrder)
  BY <1>2 DEF Start
<1>4. BuyOrder \subseteq Order(Int) /\ SellOrder \subseteq Order(Int)
  <2>1. WeiAmounts \subseteq Int /\ TokenAmounts \subseteq Int
    BY OrdersAssumption
  <2>2. ASSUME NEW o \in BuyOrder PROVE o \in Order(Int)
    BY <2>1 DEF BuyOrder, Order
  <2>3. ASSUME NEW o \in SellOrder PROVE o \in Order(Int)
    BY <2>1 DEF SellOrder, Order
  <2> QED
    BY <2>2, <2>3
<1>5. buys' \in Seq(Order(Int)) /\ sells' \in Seq(Order(Int))
  BY <1>3, <1>4
<1>6. /\ \A k \in DOMAIN buys' : buys'[k].amount \in Nat
      /\ \A k \in DOMAIN sells' : sells'[k].amount \in Nat
  <2>1. /\ \A o \in BuyOrder : o.amount \in Nat
        /\ \A o \in SellOrder : o.amount \in Nat
    BY OrdersAssumption DEF BuyOrder, SellOrder
  <2>2. /\ \A k \in DOMAIN buys' : buys'[k] \in BuyOrder
        /\ \A k \in DOMAIN sells' : sells'[k] \in SellOrder
    BY <1>3
  <2> QED
    BY <2>1, <2>2
<1>7. pc' = "matching" /\ pairs' = <<>> /\ pairs = <<>>
      /\ UNCHANGED <<buyOrders, sellOrders, ethFiatRate, gasLimit, buyIdx, sellIdx, gasEstimate,
                     nextGasEstimate>>
  BY DEF Start, Inv, LoopInv, bookVars
<1>8. buyIdx = 1 /\ sellIdx = 1
  BY DEF Start, Inv, LoopInv, TypeOK
<1> QED
  BY <1>5, <1>6, <1>7, <1>8 DEF Inv, TypeOK, LoopInv, CountInv, GasInv, GasFits

(* Where the indices are after a match, if n matches were made before it.  *)
LEMMA Counting ==
    ASSUME NEW n \in Int, NEW b \in Int, NEW s \in Int, NEW b1 \in Int, NEW s1 \in Int,
           NEW lenB \in Int, NEW lenS \in Int,
           n <= (b - 1) + (s - 1), b <= lenB, s <= lenS, b1 + s1 >= b + s + 1
    PROVE  n + 1 <= (b1 - 1) + (s1 - 1) /\ n + 1 < lenB + lenS
  OBVIOUS

(* A match takes what there is and finishes one of the two.                *)
LEMMA MatchKeepsInv ==
    ASSUME Inv, MatchPair
    PROVE  Inv'
<1> DEFINE buy == buys[buyIdx]
           sell == sells[sellIdx]
           wei == buy.amount - Traded(buy, sell).wei
           tokens == sell.amount - Traded(buy, sell).tokens
           newBuy == [id |-> buy.id, price |-> buy.price, amount |-> wei]
           newSell == [id |-> sell.id, price |-> sell.price, amount |-> tokens]
<1>1. TypeOK /\ buyIdx \in DOMAIN buys /\ sellIdx \in DOMAIN sells
  BY OrderFacts DEF Inv, MatchPair, TypeOK
<1>2. /\ buy.amount \in Nat /\ sell.amount \in Nat
      /\ buy.price \in Nat \ {0} /\ sell.price \in Nat \ {0}
      /\ buy.id \in Ids /\ sell.id \in Ids
      /\ buy.price \in Prices /\ sell.price \in Prices
  <2>1. buy \in Order(Int) /\ sell \in Order(Int)
    BY <1>1, OrderFacts
  <2>2. buy.price \in Prices /\ sell.price \in Prices
    BY <2>1 DEF Order
  <2> QED
    BY <1>1, <2>2, OrderFacts DEF Inv, LoopInv
<1>3. wei \in Nat /\ tokens \in Nat /\ (wei = 0 \/ tokens = 0)
  <2> HIDE DEF buy, sell
  <2> QED
    BY <1>1, <1>2, OrderFacts, TradedFits
<1>4. newBuy \in Order(Int) /\ newSell \in Order(Int)
  <2> HIDE DEF buy, sell, wei, tokens
  <2> QED
    BY <1>2, <1>3 DEF Order
<1>5. /\ pairs' = Append(pairs, <<buy.id, sell.id>>)
      /\ buys' = [buys EXCEPT ![buyIdx] = newBuy]
      /\ sells' = [sells EXCEPT ![sellIdx] = newSell]
      /\ buyIdx' = Advance(buyIdx, wei) /\ sellIdx' = Advance(sellIdx, tokens)
      /\ gasEstimate' = nextGasEstimate
      /\ nextGasEstimate' = nextGasEstimate + ADDITIONAL_MATCH_GAS
      /\ UNCHANGED <<buyOrders, sellOrders, ethFiatRate, gasLimit, pc>>
      /\ pc = "matching" /\ nextGasEstimate <= gasLimit
  BY DEF MatchPair, bookVars, GasLeft
<1>6. newBuy.amount = wei /\ newSell.amount = tokens
  OBVIOUS
<1> HIDE DEF newBuy, newSell, wei, tokens, buy, sell
<1>7. /\ buys \in Seq(Order(Int)) /\ sells \in Seq(Order(Int)) /\ pairs \in Seq(Ids \X Ids)
  BY <1>1 DEF TypeOK
<1>8. /\ buys' \in Seq(Order(Int)) /\ Len(buys') = Len(buys)
      /\ sells' \in Seq(Order(Int)) /\ Len(sells') = Len(sells)
  BY <1>1, <1>4, <1>5, <1>7
<1>9. /\ \A k \in DOMAIN buys' : buys'[k].amount \in Nat
      /\ \A k \in DOMAIN sells' : sells'[k].amount \in Nat
  <2>1. ASSUME NEW k \in DOMAIN buys' PROVE buys'[k].amount \in Nat
    <3>1. k \in DOMAIN buys /\ buys'[k] = IF k = buyIdx THEN newBuy ELSE buys[k]
      BY <1>5
    <3> QED
      BY <1>3, <1>6, <3>1 DEF Inv, LoopInv
  <2>2. ASSUME NEW k \in DOMAIN sells' PROVE sells'[k].amount \in Nat
    <3>1. k \in DOMAIN sells /\ sells'[k] = IF k = sellIdx THEN newSell ELSE sells[k]
      BY <1>5
    <3> QED
      BY <1>3, <1>6, <3>1 DEF Inv, LoopInv
  <2> QED
    BY <2>1, <2>2
<1>10. /\ pairs' \in Seq(Ids \X Ids) /\ Len(pairs') = Len(pairs) + 1 /\ pairs' # <<>>
  BY <1>2, <1>5, <1>7
<1>11. /\ buyIdx \in 1 .. Len(buys) /\ sellIdx \in 1 .. Len(sells)
       /\ Len(buys) \in Nat /\ Len(sells) \in Nat /\ Len(pairs) \in Nat
  BY <1>1, <1>7
<1>12. /\ buyIdx' \in {buyIdx, buyIdx + 1} /\ sellIdx' \in {sellIdx, sellIdx + 1}
       /\ buyIdx' + sellIdx' >= buyIdx + sellIdx + 1
  BY <1>3, <1>5, <1>11 DEF Advance
<1>13. LoopInv'
  BY <1>5, <1>9 DEF LoopInv
<1>14. CountInv'
  <2>1. Len(pairs) <= (buyIdx - 1) + (sellIdx - 1)
    BY DEF CountInv, Inv
  <2>2. /\ buyIdx \in Int /\ sellIdx \in Int /\ buyIdx' \in Int /\ sellIdx' \in Int
        /\ buyIdx <= Len(buys) /\ sellIdx <= Len(sells)
        /\ Len(pairs) \in Int /\ Len(buys) \in Int /\ Len(sells) \in Int
    BY <1>11, <1>12
  <2>3. /\ Len(pairs) + 1 <= (buyIdx' - 1) + (sellIdx' - 1)
        /\ Len(pairs) + 1 < Len(buys) + Len(sells)
    BY <1>12, <2>1, <2>2, Counting
  <2> QED
    BY <1>8, <1>10, <2>3 DEF CountInv
<1>15. GasInv'
  <2>1. /\ nextGasEstimate = FIRST_MATCH_GAS + Len(pairs) * ADDITIONAL_MATCH_GAS
        /\ FIRST_MATCH_GAS \in Nat /\ ADDITIONAL_MATCH_GAS \in Nat
    BY GasAssumption DEF Inv, GasInv
  <2>2. Len(pairs') - 1 = Len(pairs)
        /\ Len(pairs') * ADDITIONAL_MATCH_GAS = Len(pairs) * ADDITIONAL_MATCH_GAS
                                                  + ADDITIONAL_MATCH_GAS
        /\ Len(pairs) * ADDITIONAL_MATCH_GAS \in Int
    BY <1>10, <1>11, <2>1
  <2>3. nextGasEstimate' = FIRST_MATCH_GAS + Len(pairs') * ADDITIONAL_MATCH_GAS
    BY <1>5, <2>1, <2>2
  <2>4. gasEstimate' = FIRST_MATCH_GAS + (Len(pairs') - 1) * ADDITIONAL_MATCH_GAS
    BY <1>5, <2>1, <2>2
  <2> QED
    BY <1>5, <1>10, <2>3, <2>4 DEF GasInv, GasFits
<1>16. TypeOK'
  <2>1. buyIdx' \in 1 .. Len(buys') + 1 /\ sellIdx' \in 1 .. Len(sells') + 1
    BY <1>8, <1>11, <1>12
  <2>2. gasEstimate' \in Nat /\ nextGasEstimate' \in Nat
    BY <1>1, <1>5, GasAssumption DEF TypeOK
  <2> QED
    BY <1>1, <1>5, <1>8, <1>10, <2>1, <2>2 DEF TypeOK
<1> QED
  BY <1>13, <1>14, <1>15, <1>16 DEF Inv

(* The invariant is inductive: one case per action of Next. *)
LEMMA InvStep == Inv /\ [Next]_vars => Inv'
<1> SUFFICES ASSUME Inv, [Next]_vars PROVE Inv'
  OBVIOUS
<1>1. CASE Start
  BY <1>1, StartKeepsInv
<1>2. CASE MatchPair
  BY <1>2, MatchKeepsInv
<1>3. ASSUME UNCHANGED <<bookVars, buys, sells, buyIdx, sellIdx, pairs, gasEstimate,
                         nextGasEstimate>>,
             pc' \in {pc, "done"}
      PROVE  Inv'
  BY <1>3 DEF bookVars, Inv, TypeOK, LoopInv, CountInv, GasInv, GasFits
<1>4. CASE NoMatch \/ Return \/ UNCHANGED vars
  BY <1>3, <1>4 DEF NoMatch, Return, vars
<1> QED
  BY <1>1, <1>2, <1>4 DEF Next

LEMMA Invariance == Spec => []Inv
  BY InvInit, InvStep, PTL DEF Spec

-----------------------------------------------------------------------------
(* Priority and completeness *)

(* How far the loop has come with one side: the clones are the first       *)
(* orders of the book; those before the index are finished, the one at the *)
(* index is not, those behind it are untouched.                            *)
Progress(orders, clones, idx) ==
    /\ Len(clones) <= Len(orders)
    /\ \A k \in DOMAIN clones :
          /\ clones[k].id = orders[k].id
          /\ k < idx => clones[k].amount = 0
          /\ k = idx => clones[k].amount \in Nat \ {0}
          /\ k > idx => clones[k].amount = orders[k].amount

(* The book is in order, and ids are unique. *)
BuysInOrder ==
    \A i, j \in DOMAIN buyOrders :
        i < j => BuyBefore(buyOrders[i], buyOrders[j]) /\ buyOrders[i].id # buyOrders[j].id
SellsInOrder ==
    \A i, j \in DOMAIN sellOrders :
        i < j => SellBefore(sellOrders[i], sellOrders[j]) /\ sellOrders[i].id # sellOrders[j].id

ProgressInv ==
    /\ BuysInOrder /\ SellsInOrder
    /\ Progress(buyOrders, buys, buyIdx) /\ Progress(sellOrders, sells, sellIdx)

(* The filter has left out nothing that crosses, and the loop ends at an   *)
(* end of a side or of the gas.                                            *)
CompleteInv ==
    /\ pc = "matching" => HasMatchingOrders
    /\ pc # "start" /\ HasMatchingOrders =>
          /\ \A k \in DOMAIN buyOrders :
                buyOrders[k].price >= sellOrders[1].price => k <= Len(buys)
          /\ \A k \in DOMAIN sellOrders :
                sellOrders[k].price <= buyOrders[1].price => k <= Len(sells)
    /\ pc = "done" /\ GasLeft /\ HasMatchingOrders =>
          buyIdx > Len(buys) \/ sellIdx > Len(sells)

(* Prices of a sorted side go one way.                                     *)
LEMMA PricesFall ==
    ASSUME TypeOK, BuysInOrder, SellsInOrder
    PROVE  /\ \A i, j \in DOMAIN buyOrders : i <= j => buyOrders[i].price >= buyOrders[j].price
           /\ \A i, j \in DOMAIN sellOrders : i <= j => sellOrders[i].price <= sellOrders[j].price
<1>1. /\ \A k \in DOMAIN buyOrders : buyOrders[k].price \in Nat
      /\ \A k \in DOMAIN sellOrders : sellOrders[k].price \in Nat
  <2>1. /\ \A o \in BuyOrder : o.price \in Nat
        /\ \A o \in SellOrder : o.price \in Nat
    BY OrdersAssumption DEF BuyOrder, SellOrder
  <2>2. /\ \A k \in DOMAIN buyOrders : buyOrders[k] \in BuyOrder
        /\ \A k \in DOMAIN sellOrders : sellOrders[k] \in SellOrder
    BY DEF TypeOK
  <2> QED
    BY <2>1, <2>2
<1>2. DOMAIN buyOrders \subseteq Nat /\ DOMAIN sellOrders \subseteq Nat
  BY DEF TypeOK
<1>3. ASSUME NEW i \in DOMAIN buyOrders, NEW j \in DOMAIN buyOrders, i <= j
      PROVE  buyOrders[i].price >= buyOrders[j].price
  <2>1. CASE i = j
    BY <1>1, <2>1
  <2>2. CASE i # j
    <3>1. i < j
      BY <1>2, <1>3, <2>2
    <3> QED
      BY <1>1, <3>1 DEF BuysInOrder, BuyBefore
  <2> QED
    BY <2>1, <2>2
<1>4. ASSUME NEW i \in DOMAIN sellOrders, NEW j \in DOMAIN sellOrders, i <= j
      PROVE  sellOrders[i].price <= sellOrders[j].price
  <2>1. CASE i = j
    BY <1>1, <2>1
  <2>2. CASE i # j
    <3>1. i < j
      BY <1>2, <1>4, <2>2
    <3> QED
      BY <1>1, <3>1 DEF SellsInOrder, SellBefore
  <2> QED
    BY <2>1, <2>2
<1> QED
  BY <1>3, <1>4

(* The clones at the start are the orders up to where prices stop to cross. *)
LEMMA ClonesArePrefix ==
    ASSUME NEW S, NEW orders \in Seq(S), NEW crossing \in SUBSET DOMAIN orders,
           \A o \in S : o.amount \in Nat \ {0},
           \A i, j \in DOMAIN orders : i <= j /\ j \in crossing => i \in crossing
    PROVE  /\ Progress(orders, Kept(orders, crossing), 1)
           /\ \A k \in crossing : k <= Len(Kept(orders, crossing))
<1> DEFINE beyond == {k \in 1 .. Len(orders) + 1 : k \notin crossing}
<1>1. Len(orders) \in Nat /\ DOMAIN orders = 1 .. Len(orders)
  OBVIOUS
<1>2. beyond \in SUBSET Nat /\ Len(orders) + 1 \in beyond
  BY <1>1
<1>3. PICK x \in beyond : \A y \in beyond : x <= y
  <2> HIDE DEF beyond
  <2> QED
    BY <1>2, LeastElement
<1>4. x - 1 \in 0 .. Len(orders)
  BY <1>1
<1>5. ASSUME NEW k \in 1 .. Len(orders) PROVE k \in crossing <=> k <= x - 1
  <2>1. CASE k < x
    <3>1. k \notin beyond
      BY <1>1, <1>3, <2>1
    <3> QED
      BY <1>1, <2>1, <3>1
  <2>2. CASE x <= k
    <3>1. x \in DOMAIN orders /\ k \in DOMAIN orders /\ x \notin crossing
      BY <1>1, <2>2
    <3> QED
      BY <1>1, <2>2, <3>1
  <2> QED
    BY <1>1, <2>1, <2>2
<1> HIDE DEF beyond
<1> DEFINE clones == Kept(orders, crossing)
<1>6. /\ clones \in Seq(S) /\ Len(clones) = x - 1
      /\ \A k \in 1 .. x - 1 : clones[k] = orders[k]
  BY <1>4, <1>5, KeptPrefix
<1> HIDE DEF clones
<1>7. DOMAIN clones = 1 .. x - 1 /\ x - 1 <= Len(orders)
  BY <1>4, <1>6
<1>8. ASSUME NEW k \in DOMAIN clones
      PROVE  /\ clones[k].id = orders[k].id /\ ~(k < 1)
             /\ clones[k].amount \in Nat \ {0} /\ clones[k].amount = orders[k].amount
  <2>1. k \in 1 .. x - 1 /\ clones[k] = orders[k] /\ clones[k] \in S
    BY <1>6, <1>7
  <2> QED
    BY <1>4, <2>1
<1>9. Progress(orders, clones, 1)
  BY <1>6, <1>7, <1>8 DEF Progress
<1>10. \A k \in crossing : k <= Len(clones)
  BY <1>1, <1>5, <1>6
<1> QED
  BY <1>9, <1>10 DEF clones

(* A match takes from the order at the index, and moves the index with it. *)
LEMMA ProgressStep ==
    ASSUME NEW S, NEW orders \in Seq(S), NEW C, NEW clones \in Seq(C), NEW clone \in C,
           \A o \in S : o.amount \in Nat \ {0},
           NEW idx \in 1 .. Len(clones), Progress(orders, clones, idx),
           clone.id = clones[idx].id, clone.amount \in Nat
    PROVE  Progress(orders, [clones EXCEPT ![idx] = clone], Advance(idx, clone.amount))
<1> DEFINE after == [clones EXCEPT ![idx] = clone]
           next == Advance(idx, clone.amount)
<1>1. /\ Len(after) = Len(clones) /\ DOMAIN after = DOMAIN clones
      /\ after[idx] = clone
      /\ \A k \in DOMAIN clones : k # idx => after[k] = clones[k]
  OBVIOUS
<1>2. /\ DOMAIN clones = 1 .. Len(clones) /\ Len(clones) \in Nat /\ Len(orders) \in Nat
      /\ DOMAIN orders = 1 .. Len(orders) /\ Len(clones) <= Len(orders)
  BY DEF Progress
<1>3. IF clone.amount = 0 THEN next = idx + 1 ELSE next = idx
  BY DEF Advance
<1> HIDE DEF after, next
<1>4. ASSUME NEW k \in DOMAIN clones
      PROVE  /\ after[k].id = orders[k].id
             /\ k < next => after[k].amount = 0
             /\ k = next => after[k].amount \in Nat \ {0}
             /\ k > next => after[k].amount = orders[k].amount
  <2>1. CASE k = idx
    <3>1. after[k].id = orders[k].id /\ after[k].amount = clone.amount
      BY <1>1, <2>1 DEF Progress
    <3> QED
      BY <1>2, <1>3, <2>1, <3>1
  <2>2. CASE k # idx
    <3>1. after[k] = clones[k] /\ orders[k] \in S
      BY <1>1, <1>2, <2>2
    <3>2. k \in Int /\ idx \in Int
      BY <1>2
    <3>3. CASE k < idx
      BY <1>3, <3>1, <3>2, <3>3 DEF Progress
    <3>4. CASE k > idx
      BY <1>3, <3>1, <3>2, <3>4 DEF Progress
    <3> QED
      BY <2>2, <3>2, <3>3, <3>4
  <2> QED
    BY <2>1, <2>2
<1>5. Progress(orders, after, next)
  BY <1>1, <1>2, <1>4 DEF Progress
<1> QED
  BY <1>5 DEF after, next

(* An order before one that was touched is finished. *)
LEMMA EarlierAreFinished ==
    ASSUME NEW S, NEW orders \in Seq(S), NEW C, NEW clones \in Seq(C), NEW idx \in Nat,
           \A o \in S : o.amount \in Nat,
           \A i, j \in DOMAIN orders : i < j => orders[i].id # orders[j].id,
           Progress(orders, clones, idx),
           NEW i \in DOMAIN orders, NEW j \in DOMAIN orders, i < j,
           Touched(orders[j], clones)
    PROVE  Finished(orders[i], clones)
<1>1. /\ DOMAIN clones = 1 .. Len(clones) /\ Len(clones) \in Nat /\ Len(orders) \in Nat
      /\ DOMAIN orders = 1 .. Len(orders) /\ Len(clones) <= Len(orders)
  BY DEF Progress
<1>2. PICK k \in DOMAIN clones : clones[k].id = orders[j].id /\ clones[k].amount < orders[j].amount
  BY DEF Touched
<1>3. k \in DOMAIN orders /\ orders[k].id = orders[j].id
  BY <1>1, <1>2 DEF Progress
<1>4. k = j
  <2>1. k \in Int /\ j \in Int
    BY <1>1
  <2>2. ~(k < j) /\ ~(j < k)
    BY <1>3
  <2> QED
    BY <2>1, <2>2
<1>5. ~(k > idx)
  <2>1. orders[j].amount \in Nat
    BY <1>1
  <2> QED
    BY <1>2, <1>4, <2>1 DEF Progress
<1>6. i \in DOMAIN clones /\ i < idx
  BY <1>1, <1>4, <1>5
<1>7. clones[i].id = orders[i].id /\ clones[i].amount = 0
  BY <1>6 DEF Progress
<1> QED
  BY <1>6, <1>7 DEF Finished

LEMMA OrdersHaveAmounts ==
    /\ \A o \in BuyOrder : o.amount \in Nat \ {0} /\ o.price \in Nat
    /\ \A o \in SellOrder : o.amount \in Nat \ {0} /\ o.price \in Nat
BY OrdersAssumption DEF BuyOrder, SellOrder

LEMMA BookInit == Init => ProgressInv /\ CompleteInv
<1> SUFFICES ASSUME Init PROVE ProgressInv /\ CompleteInv
  OBVIOUS
<1>1. BuysInOrder /\ SellsInOrder
  BY DEF Init, SortedBuys, SortedSells, BuysInOrder, SellsInOrder
<1>2. buyOrders \in Seq(BuyOrder) /\ sellOrders \in Seq(SellOrder)
  BY DEF Init, SortedBuys, SortedSells, Arrays
<1>3. Progress(buyOrders, <<>>, 1) /\ Progress(sellOrders, <<>>, 1)
  BY <1>2 DEF Progress
<1>4. pc = "start" /\ buys = <<>> /\ sells = <<>> /\ buyIdx = 1 /\ sellIdx = 1
  BY DEF Init
<1>5. ProgressInv
  BY <1>1, <1>3, <1>4 DEF ProgressInv
<1>6. CompleteInv
  BY <1>4 DEF CompleteInv
<1> QED
  BY <1>5, <1>6

(* The filters leave a prefix of each side, and all that crosses. *)
LEMMA StartKeepsBook ==
    ASSUME Inv, ProgressInv, Start
    PROVE  ProgressInv' /\ CompleteInv'
<1> DEFINE crossingBuys == {k \in DOMAIN buyOrders : buyOrders[k].price >= sellOrders[1].price}
           crossingSells == {k \in DOMAIN sellOrders : sellOrders[k].price <= buyOrders[1].price}
<1>1. TypeOK /\ BuysInOrder /\ SellsInOrder /\ HasMatchingOrders /\ buyIdx = 1 /\ sellIdx = 1
  BY DEF Inv, LoopInv, ProgressInv, Start
<1>2. buyOrders \in Seq(BuyOrder) /\ sellOrders \in Seq(SellOrder)
  BY <1>1 DEF TypeOK
<1>3. /\ \A k \in DOMAIN buyOrders : buyOrders[k].price \in Nat
      /\ \A k \in DOMAIN sellOrders : sellOrders[k].price \in Nat
      /\ 1 \in DOMAIN buyOrders /\ 1 \in DOMAIN sellOrders
  BY <1>1, <1>2, OrdersHaveAmounts DEF HasMatchingOrders
<1>4. /\ \A i, j \in DOMAIN buyOrders : i <= j /\ j \in crossingBuys => i \in crossingBuys
      /\ \A i, j \in DOMAIN sellOrders : i <= j /\ j \in crossingSells => i \in crossingSells
  BY <1>1, <1>3, PricesFall
<1>5. /\ crossingBuys \in SUBSET DOMAIN buyOrders
      /\ crossingSells \in SUBSET DOMAIN sellOrders
      /\ Buys = Kept(buyOrders, crossingBuys) /\ Sells = Kept(sellOrders, crossingSells)
  BY DEF Buys, Sells
<1>6. /\ \A k \in DOMAIN buyOrders : buyOrders[k].price >= sellOrders[1].price => k \in crossingBuys
      /\ \A k \in DOMAIN sellOrders : sellOrders[k].price <= buyOrders[1].price => k \in crossingSells
  OBVIOUS
<1> HIDE DEF crossingBuys, crossingSells
<1>7. Progress(buyOrders, Buys, 1) /\ \A k \in crossingBuys : k <= Len(Buys)
  BY <1>2, <1>4, <1>5, OrdersHaveAmounts, ClonesArePrefix
<1>8. Progress(sellOrders, Sells, 1) /\ \A k \in crossingSells : k <= Len(Sells)
  BY <1>2, <1>4, <1>5, OrdersHaveAmounts, ClonesArePrefix
<1>9. /\ buys' = Buys /\ sells' = Sells /\ pc' = "matching"
      /\ UNCHANGED <<buyOrders, sellOrders, buyIdx, sellIdx>>
  BY DEF Start, bookVars
<1>10. ProgressInv'
  BY <1>1, <1>7, <1>8, <1>9 DEF ProgressInv, BuysInOrder, SellsInOrder
<1>11. CompleteInv'
  BY <1>1, <1>6, <1>7, <1>8, <1>9 DEF CompleteInv, HasMatchingOrders
<1> QED
  BY <1>10, <1>11

(* A match keeps both sides' progress. *)
LEMMA MatchKeepsBook ==
    ASSUME Inv, ProgressInv, CompleteInv, MatchPair
    PROVE  ProgressInv' /\ CompleteInv'
<1> DEFINE buy == buys[buyIdx]
           sell == sells[sellIdx]
           wei == buy.amount - Traded(buy, sell).wei
           tokens == sell.amount - Traded(buy, sell).tokens
           newBuy == [id |-> buy.id, price |-> buy.price, amount |-> wei]
           newSell == [id |-> sell.id, price |-> sell.price, amount |-> tokens]
<1>1. TypeOK /\ buyIdx \in 1 .. Len(buys) /\ sellIdx \in 1 .. Len(sells)
  BY OrderFacts DEF Inv, MatchPair, TypeOK
<1>2. /\ buys \in Seq(Order(Int)) /\ sells \in Seq(Order(Int))
      /\ buyOrders \in Seq(BuyOrder) /\ sellOrders \in Seq(SellOrder)
  BY <1>1 DEF TypeOK
<1>3. buy \in Order(Int) /\ sell \in Order(Int)
  BY <1>1, <1>2
<1>4. wei \in Nat /\ tokens \in Nat
  <2>1. /\ buyIdx \in DOMAIN buys /\ sellIdx \in DOMAIN sells
    BY <1>1, <1>2
  <2>2. /\ buy.amount \in Nat /\ sell.amount \in Nat
        /\ buy.price \in Nat \ {0} /\ sell.price \in Nat \ {0}
        /\ ethFiatRate \in Nat \ {0}
    BY <1>1, <2>1, OrderFacts DEF Inv, LoopInv
  <2> HIDE DEF buy, sell
  <2> QED
    BY <2>2, TradedFits
<1>5. newBuy \in Order(Int) /\ newSell \in Order(Int)
  <2> HIDE DEF buy, sell, wei, tokens
  <2> QED
    BY <1>3, <1>4 DEF Order
<1>6. /\ newBuy.id = buys[buyIdx].id /\ newBuy.amount = wei
      /\ newSell.id = sells[sellIdx].id /\ newSell.amount = tokens
  OBVIOUS
<1>7. /\ buys' = [buys EXCEPT ![buyIdx] = newBuy]
      /\ sells' = [sells EXCEPT ![sellIdx] = newSell]
      /\ buyIdx' = Advance(buyIdx, wei) /\ sellIdx' = Advance(sellIdx, tokens)
      /\ UNCHANGED <<buyOrders, sellOrders, pc>> /\ pc = "matching"
  BY DEF MatchPair, bookVars
<1> HIDE DEF newBuy, newSell, wei, tokens, buy, sell
<1>8. Progress(buyOrders, buys', buyIdx')
  <2>1. Progress(buyOrders, buys, buyIdx)
    BY DEF ProgressInv
  <2> QED
    BY <1>1, <1>2, <1>4, <1>5, <1>6, <1>7, <2>1, OrdersHaveAmounts, ProgressStep
<1>9. Progress(sellOrders, sells', sellIdx')
  <2>1. Progress(sellOrders, sells, sellIdx)
    BY DEF ProgressInv
  <2> QED
    BY <1>1, <1>2, <1>4, <1>5, <1>6, <1>7, <2>1, OrdersHaveAmounts, ProgressStep
<1>10. Len(buys') = Len(buys) /\ Len(sells') = Len(sells)
  BY <1>1, <1>2, <1>5, <1>7
<1>11. ProgressInv'
  BY <1>7, <1>8, <1>9 DEF ProgressInv, BuysInOrder, SellsInOrder
<1>12. CompleteInv'
  BY <1>7, <1>10 DEF CompleteInv, HasMatchingOrders
<1> QED
  BY <1>11, <1>12

(* The loop returns because a side or the gas is at its end. *)
LEMMA ReturnKeepsBook ==
    ASSUME Inv, ProgressInv, CompleteInv, Return
    PROVE  ProgressInv' /\ CompleteInv'
<1>1. /\ UNCHANGED <<buyOrders, sellOrders, buys, sells, buyIdx, sellIdx, gasLimit, nextGasEstimate>>
      /\ pc = "matching" /\ pc' = "done"
      /\ GasLeft => ~(buyIdx <= Len(buys)) \/ ~(sellIdx <= Len(sells))
  BY DEF Return, bookVars
<1>2. GasLeft => buyIdx > Len(buys) \/ sellIdx > Len(sells)
  BY <1>1, OrderFacts DEF Inv
<1>3. ProgressInv'
  BY <1>1 DEF ProgressInv, BuysInOrder, SellsInOrder
<1>4. CompleteInv'
  BY <1>1, <1>2 DEF CompleteInv, HasMatchingOrders, GasLeft
<1> QED
  BY <1>3, <1>4

LEMMA BookStep == Inv /\ ProgressInv /\ CompleteInv /\ [Next]_vars => ProgressInv' /\ CompleteInv'
<1> SUFFICES ASSUME Inv, ProgressInv, CompleteInv, [Next]_vars
             PROVE  ProgressInv' /\ CompleteInv'
  OBVIOUS
<1>1. CASE Start
  BY <1>1, StartKeepsBook
<1>2. CASE MatchPair
  BY <1>2, MatchKeepsBook
<1>3. CASE Return
  BY <1>3, ReturnKeepsBook
<1>4. CASE NoMatch
  BY <1>4 DEF NoMatch, bookVars, ProgressInv, BuysInOrder, SellsInOrder, CompleteInv,
              HasMatchingOrders
<1>5. CASE UNCHANGED vars
  BY <1>5 DEF vars, bookVars, ProgressInv, BuysInOrder, SellsInOrder, CompleteInv,
              HasMatchingOrders, GasLeft
<1> QED
  BY <1>1, <1>2, <1>3, <1>4, <1>5 DEF Next

LEMMA BookInvariance == Spec => [](ProgressInv /\ CompleteInv)
<1>1. Inv /\ Inv' /\ ProgressInv /\ CompleteInv /\ [Next]_vars => ProgressInv' /\ CompleteInv'
  BY BookStep
<1> QED
  BY <1>1, BookInit, Invariance, PTL DEF Spec

(* What was touched is at most at the index, and what is better is before it. *)
LEMMA PriorityFollows ==
    ASSUME Inv, ProgressInv PROVE PriceTimePriority
<1>1. /\ buys \in Seq(Order(Int)) /\ sells \in Seq(Order(Int))
      /\ buyOrders \in Seq(BuyOrder) /\ sellOrders \in Seq(SellOrder)
      /\ buyIdx \in Nat /\ sellIdx \in Nat
  BY OrderFacts DEF Inv, TypeOK
<1>2. /\ DOMAIN buyOrders \subseteq Nat /\ DOMAIN sellOrders \subseteq Nat
      /\ \A k \in DOMAIN buyOrders : buyOrders[k].price \in Nat /\ buyOrders[k].id \in Nat
      /\ \A k \in DOMAIN sellOrders : sellOrders[k].price \in Nat /\ sellOrders[k].id \in Nat
  <2>1. /\ \A o \in BuyOrder : o.price \in Nat /\ o.id \in Nat
        /\ \A o \in SellOrder : o.price \in Nat /\ o.id \in Nat
    BY OrdersAssumption DEF BuyOrder, SellOrder
  <2> QED
    BY <1>1, <2>1
<1>3. ASSUME NEW i \in DOMAIN buyOrders, NEW j \in DOMAIN buyOrders,
             Better(buyOrders[i], buyOrders[j], 1), Touched(buyOrders[j], buys)
      PROVE  Finished(buyOrders[i], buys)
  <2>1. i < j
    <3>1. \/ buyOrders[i].price > buyOrders[j].price
          \/ buyOrders[i].price = buyOrders[j].price /\ buyOrders[i].id < buyOrders[j].id
      BY <1>2, <1>3 DEF Better
    <3>2. i # j
      BY <1>2, <3>1
    <3>3. j < i => BuyBefore(buyOrders[j], buyOrders[i])
      BY DEF ProgressInv, BuysInOrder
    <3>4. ~(j < i)
      BY <1>2, <3>1, <3>3 DEF BuyBefore
    <3> QED
      BY <1>2, <3>2, <3>4
  <2>2. /\ Progress(buyOrders, buys, buyIdx)
        /\ \A m, n \in DOMAIN buyOrders : m < n => buyOrders[m].id # buyOrders[n].id
        /\ \A o \in BuyOrder : o.amount \in Nat
    BY OrdersHaveAmounts DEF ProgressInv, BuysInOrder
  <2> QED
    BY <1>1, <1>3, <2>1, <2>2, EarlierAreFinished
<1>4. ASSUME NEW i \in DOMAIN sellOrders, NEW j \in DOMAIN sellOrders,
             Better(sellOrders[i], sellOrders[j], -1), Touched(sellOrders[j], sells)
      PROVE  Finished(sellOrders[i], sells)
  <2>1. i < j
    <3>1. \/ sellOrders[i].price < sellOrders[j].price
          \/ sellOrders[i].price = sellOrders[j].price /\ sellOrders[i].id < sellOrders[j].id
      BY <1>2, <1>4 DEF Better
    <3>2. i # j
      BY <1>2, <3>1
    <3>3. j < i => SellBefore(sellOrders[j], sellOrders[i])
      BY DEF ProgressInv, SellsInOrder
    <3>4. ~(j < i)
      BY <1>2, <3>1, <3>3 DEF SellBefore
    <3> QED
      BY <1>2, <3>2, <3>4
  <2>2. /\ Progress(sellOrders, sells, sellIdx)
        /\ \A m, n \in DOMAIN sellOrders : m < n => sellOrders[m].id # sellOrders[n].id
        /\ \A o \in SellOrder : o.amount \in Nat
    BY OrdersHaveAmounts DEF ProgressInv, SellsInOrder
  <2> QED
    BY <1>1, <1>4, <2>1, <2>2, EarlierAreFinished
<1> QED
  BY <1>3, <1>4 DEF PriceTimePriority

(* What crosses is among the clones, and one side of them is finished. *)
LEMMA CompletenessFollows ==
    ASSUME Inv, ProgressInv, CompleteInv PROVE NothingLeftToMatch
<1> SUFFICES ASSUME pc = "done", GasLeft,
                    NEW i \in DOMAIN buyOrders, NEW j \in DOMAIN sellOrders,
                    buyOrders[i].price >= sellOrders[j].price
             PROVE  Finished(buyOrders[i], buys) \/ Finished(sellOrders[j], sells)
  BY DEF NothingLeftToMatch
<1>1. TypeOK /\ BuysInOrder /\ SellsInOrder
  BY DEF Inv, ProgressInv
<1>2. /\ buys \in Seq(Order(Int)) /\ sells \in Seq(Order(Int))
      /\ buyOrders \in Seq(BuyOrder) /\ sellOrders \in Seq(SellOrder)
      /\ buyIdx \in Nat /\ sellIdx \in Nat
  BY <1>1, OrderFacts DEF TypeOK
<1>3. 1 \in DOMAIN buyOrders /\ 1 \in DOMAIN sellOrders /\ 1 <= i /\ 1 <= j
      /\ i \in Nat /\ j \in Nat /\ buyOrders # <<>> /\ sellOrders # <<>>
  BY <1>2
<1>4. /\ \A k \in DOMAIN buyOrders : buyOrders[k].price \in Nat
      /\ \A k \in DOMAIN sellOrders : sellOrders[k].price \in Nat
  BY <1>2, OrdersHaveAmounts
<1>5. buyOrders[1].price >= buyOrders[i].price /\ sellOrders[1].price <= sellOrders[j].price
  BY <1>1, <1>3, PricesFall
<1>6. /\ buyOrders[i].price >= sellOrders[1].price
      /\ sellOrders[j].price <= buyOrders[1].price
      /\ sellOrders[1].price <= buyOrders[1].price
  BY <1>3, <1>4, <1>5
<1>7. HasMatchingOrders
  BY <1>3, <1>6 DEF HasMatchingOrders
<1>8. i \in DOMAIN buys /\ j \in DOMAIN sells
  <2>1. i <= Len(buys) /\ j <= Len(sells)
    BY <1>6, <1>7 DEF CompleteInv
  <2> QED
    BY <1>2, <1>3, <2>1
<1>9. buyIdx > Len(buys) \/ sellIdx > Len(sells)
  BY <1>7 DEF CompleteInv
<1>10. CASE buyIdx > Len(buys)
  <2>1. i < buyIdx
    BY <1>2, <1>8, <1>10
  <2>2. buys[i].id = buyOrders[i].id /\ buys[i].amount = 0
    BY <1>8, <2>1 DEF ProgressInv, Progress
  <2> QED
    BY <1>8, <2>2 DEF Finished
<1>11. CASE sellIdx > Len(sells)
  <2>1. j < sellIdx
    BY <1>2, <1>8, <1>11
  <2>2. sells[j].id = sellOrders[j].id /\ sells[j].amount = 0
    BY <1>8, <2>1 DEF ProgressInv, Progress
  <2> QED
    BY <1>8, <2>2 DEF Finished
<1> QED
  BY <1>9, <1>10, <1>11

-----------------------------------------------------------------------------
(* Market orders *)

Offer == [tokens : Nat, price : Nat \ {0}]
Ret == [tokens : Int, ethers : Int, limitPrice : Nat]

(* What the first n offers hold, as the steps of a sum.                    *)
Sums(h, offers, n) ==
    /\ h \in [0 .. n -> Nat] /\ h[0] = 0
    /\ \A k \in 1 .. n : h[k] = h[k - 1] + offers[k].tokens

LEMMA FirstOffers ==
    ASSUME NEW offers \in Seq(Offer), NEW n \in 0 .. Len(offers)
    PROVE  LET s == SubSeq(offers, 1, n)
           IN  n \in Nat /\ s \in Seq(Offer) /\ DOMAIN s = 1 .. n
               /\ \A k \in 1 .. n : s[k] = offers[k]
<1>1. n \in Nat /\ n <= Len(offers) /\ Len(offers) \in Nat
  OBVIOUS
<1>2. Len(SubSeq(offers, 1, n)) = n /\ \A k \in 1 .. n : SubSeq(offers, 1, n)[k] = offers[k]
  BY <1>1
<1>3. SubSeq(offers, 1, n) \in Seq(Offer)
  BY <1>1
<1> QED
  BY <1>1, <1>2, <1>3

LEMMA OfferedIsSum ==
    ASSUME NEW offers \in Seq(Offer), NEW n \in 0 .. Len(offers)
    PROVE  \E h : Sums(h, offers, n) /\ Offered(offers, n) = h[n]
<1> DEFINE s == SubSeq(offers, 1, n)
           Def(f) == f = [T \in SUBSET DOMAIN s |->
                            IF T = {} THEN 0 ELSE f[T \ {Max(T)}] + s[Max(T)].tokens]
           f == CHOOSE f : Def(f)
<1>1. n \in Nat /\ s \in Seq(Offer) /\ DOMAIN s = 1 .. n /\ \A k \in 1 .. n : s[k] = offers[k]
  BY FirstOffers
<1>2. Offered(offers, n) = f[DOMAIN s]
  BY DEF Offered, FoldLeft, MapThenFoldSet
<1> HIDE DEF s
<1>3. \A k \in 1 .. n : s[k].tokens \in Nat
  <2>1. ASSUME NEW k \in 1 .. n PROVE s[k] \in Offer
    BY <1>1
  <2> QED
    BY <2>1 DEF Offer
<1>4. \E g : Def(g)
  <2> DEFINE step == [p \in Nat \X (1 .. n) |-> p[1] + s[p[2]].tokens]
  <2>1. step \in [Nat \X (1 .. n) -> Nat]
    BY <1>3
  <2>2. \A m \in Nat, k \in 1 .. n : step[<<m, k>>] = m + s[k].tokens
    OBVIOUS
  <2> HIDE DEF step
  <2>3. PICK g \in [SUBSET (1 .. n) -> Nat] : FoldsAll(g, 0, step, n)
    BY <1>1, <2>1, FoldExists
  <2>4. ASSUME NEW T \in SUBSET (1 .. n)
        PROVE  g[T] = IF T = {} THEN 0 ELSE g[T \ {Max(T)}] + s[Max(T)].tokens
    <3>1. CASE T = {}
      BY <2>3, <3>1 DEF FoldsAll
    <3>2. CASE T # {}
      <4>1. Max(T) \in 1 .. n
        BY <1>1, <3>2, GreatestIndex
      <4>2. g[T \ {Max(T)}] \in Nat
        OBVIOUS
      <4>3. g[T] = step[<<g[T \ {Max(T)}], Max(T)>>]
        BY <2>3, <3>2 DEF FoldsAll
      <4> QED
        BY <2>2, <3>2, <4>1, <4>2, <4>3
    <3> QED
      BY <3>1, <3>2
  <2>5. Def(g)
    BY <1>1, <2>4
  <2> QED
    BY <2>5
<1>5. Def(f)
  BY <1>4
<1> HIDE DEF f
<1> DEFINE h == [k \in 0 .. n |-> f[1 .. k]]
<1>6. h[0] = 0
  <2>1. 1 .. 0 = {} /\ {} \in SUBSET DOMAIN s
    OBVIOUS
  <2> QED
    BY <1>1, <1>5, <2>1
<1>7. ASSUME NEW k \in 1 .. n PROVE h[k] = h[k - 1] + offers[k].tokens
  <2>1. k - 1 \in Nat /\ (k - 1) + 1 = k /\ k \in 0 .. n /\ k - 1 \in 0 .. n
    OBVIOUS
  <2>2. Max(1 .. k) = k /\ (1 .. k) \ {k} = 1 .. k - 1 /\ 1 .. k # {}
    BY <2>1, FirstIndices
  <2>3. 1 .. k \in SUBSET DOMAIN s
    BY <1>1
  <2>4. f[1 .. k] = f[1 .. k - 1] + s[k].tokens
    BY <1>5, <2>2, <2>3
  <2> QED
    BY <1>1, <2>1, <2>4
<1>8. h \in [0 .. n -> Nat]
  <2> DEFINE P == {k \in Nat : k <= n => h[k] \in Nat}
  <2>1. 0 \in P
    BY <1>6
  <2>2. ASSUME NEW k \in Nat, k \in P PROVE k + 1 \in P
    <3>1. ASSUME k + 1 <= n PROVE h[k + 1] \in Nat
      <4>1. k + 1 \in 1 .. n /\ (k + 1) - 1 = k
        BY <3>1
      <4> HIDE DEF h
      <4>2. h[k] \in Nat
        BY <2>2, <3>1, <4>1
      <4>3. offers[k + 1].tokens \in Nat
        BY <1>1, <1>3, <4>1
      <4> QED
        BY <1>7, <4>1, <4>2, <4>3
    <3> QED
      BY <3>1
  <2>3. Nat \subseteq P
    <3> HIDE DEF P
    <3> QED
      BY <2>1, <2>2, SetInduction
  <2>4. \A k \in 0 .. n : h[k] \in Nat
    <3> HIDE DEF h
    <3> QED
      BY <1>1, <2>3
  <2> QED
    BY <2>4
<1>9. h[n] = Offered(offers, n)
  BY <1>1, <1>2
<1> HIDE DEF h
<1> QED
  BY <1>6, <1>7, <1>8, <1>9 DEF Sums

(* Two sums agree as far as both go.                                       *)
LEMMA SumsAgree ==
    ASSUME NEW offers, NEW n \in Nat, NEW m \in Nat, n <= m,
           NEW g, Sums(g, offers, n), NEW h, Sums(h, offers, m)
    PROVE  g[n] = h[n]
<1> DEFINE P == {k \in Nat : k <= n => g[k] = h[k]}
<1>1. 0 \in P
  BY DEF Sums
<1>2. ASSUME NEW k \in Nat, k \in P PROVE k + 1 \in P
  <2>1. ASSUME k + 1 <= n PROVE g[k + 1] = h[k + 1]
    <3>1. k + 1 \in 1 .. n /\ k + 1 \in 1 .. m /\ (k + 1) - 1 = k
      BY <2>1
    <3>2. g[k] = h[k]
      BY <1>2, <2>1
    <3>3. g[k + 1] = g[k] + offers[k + 1].tokens /\ h[k + 1] = h[k] + offers[k + 1].tokens
      BY <3>1 DEF Sums
    <3> QED
      BY <3>2, <3>3
  <2> QED
    BY <2>1
<1>3. Nat \subseteq P
  <2> HIDE DEF P
  <2> QED
    BY <1>1, <1>2, SetInduction
<1> QED
  BY <1>3

(* What the first n offers hold grows with n by the offers' tokens.        *)
LEMMA OfferedGrows ==
    ASSUME NEW offers \in Seq(Offer)
    PROVE  /\ Offered(offers, 0) = 0
           /\ \A n \in 0 .. Len(offers) : Offered(offers, n) \in Nat
           /\ \A n \in 1 .. Len(offers) :
                 Offered(offers, n) = Offered(offers, n - 1) + offers[n].tokens
<1>1. ASSUME NEW n \in 0 .. Len(offers) PROVE Offered(offers, n) \in Nat
  <2>1. PICK h : Sums(h, offers, n) /\ Offered(offers, n) = h[n]
    BY OfferedIsSum
  <2> QED
    BY <2>1 DEF Sums
<1>2. Offered(offers, 0) = 0
  <2>1. 0 \in 0 .. Len(offers)
    OBVIOUS
  <2>2. PICK h : Sums(h, offers, 0) /\ Offered(offers, 0) = h[0]
    BY <2>1, OfferedIsSum
  <2> QED
    BY <2>2 DEF Sums
<1>3. ASSUME NEW n \in 1 .. Len(offers)
      PROVE  Offered(offers, n) = Offered(offers, n - 1) + offers[n].tokens
  <2>1. n \in 0 .. Len(offers) /\ n - 1 \in 0 .. Len(offers) /\ n \in Nat /\ n - 1 \in Nat
        /\ n - 1 <= n /\ n \in 1 .. n
    OBVIOUS
  <2>2. PICK h : Sums(h, offers, n) /\ Offered(offers, n) = h[n]
    BY <2>1, OfferedIsSum
  <2>3. PICK g : Sums(g, offers, n - 1) /\ Offered(offers, n - 1) = g[n - 1]
    BY <2>1, OfferedIsSum
  <2>4. g[n - 1] = h[n - 1]
    BY <2>1, <2>2, <2>3, SumsAgree
  <2>5. h[n] = h[n - 1] + offers[n].tokens
    BY <2>1, <2>2 DEF Sums
  <2> QED
    BY <2>2, <2>3, <2>4, <2>5
<1> QED
  BY <1>1, <1>2, <1>3

(* One order more is counted in, and what that does to the estimate.       *)
LEMMA FilledIsRet ==
    ASSUME NEW ret \in Ret, NEW offer \in Offer, NEW tokens \in Nat, ethFiatRate \in Nat \ {0}
    PROVE  LET remaining == tokens - ret.tokens
               fill == IF offer.tokens <= remaining THEN offer.tokens ELSE remaining
               next == Filled(ret, offer, tokens)
           IN  /\ next \in Ret
               /\ remaining = 0 => next = ret
               /\ remaining # 0 => next.tokens = ret.tokens + fill /\ next.limitPrice = offer.price
<1> DEFINE remaining == tokens - ret.tokens
           fill == IF offer.tokens <= remaining THEN offer.tokens ELSE remaining
           cost == ToWeiAt(fill, ethFiatRate, offer.price)
           next == Filled(ret, offer, tokens)
<1>1. /\ ret.tokens \in Int /\ ret.ethers \in Int /\ ret.limitPrice \in Nat
      /\ offer.tokens \in Nat /\ offer.price \in Nat \ {0} /\ tokens \in Int
  BY DEF Ret, Offer
<1>2. remaining \in Int /\ fill \in Int
  BY <1>1
<1>3. next = IF remaining = 0 THEN ret
             ELSE [tokens |-> ret.tokens + fill, ethers |-> ret.ethers + cost,
                   limitPrice |-> offer.price]
  BY DEF Filled
<1> HIDE DEF fill, remaining, next
<1>4. cost \in Int
  <2>1. fill * offer.price * E12 \in Int
    BY <1>1, <1>2, UnitsAssumption
  <2> DEFINE a == fill * offer.price * E12
  <2>2. cost = (2 * a + ethFiatRate) \div (2 * ethFiatRate)
    BY DEF ToWeiAt, DivRound
  <2>3. a \in Int
    BY <2>1
  <2> HIDE DEF a, cost
  <2>4. 2 * a + ethFiatRate \in Int /\ 2 * ethFiatRate \in Nat \ {0}
    BY <2>3
  <2> QED
    BY <2>2, <2>4, Quotient
<1> HIDE DEF cost
<1>5. next \in Ret
  <2>1. ret.tokens + fill \in Int /\ ret.ethers + cost \in Int /\ offer.price \in Nat
    BY <1>1, <1>2, <1>4
  <2> QED
    BY <1>3, <2>1 DEF Ret
<1>6. /\ remaining = 0 => next = ret
      /\ remaining # 0 => next.tokens = ret.tokens + fill /\ next.limitPrice = offer.price
  BY <1>3
<1> QED
  BY <1>5, <1>6 DEF next, remaining, fill

(* The estimate goes through the offers one after the other.               *)
LEMMA EstimateIsFold ==
    ASSUME NEW offers \in Seq(Offer), NEW tokens \in Nat, ethFiatRate \in Nat \ {0}
    PROVE  \E r \in [0 .. Len(offers) -> Ret] :
              /\ r[0] = [tokens |-> 0, ethers |-> 0, limitPrice |-> 0]
              /\ \A n \in 1 .. Len(offers) : r[n] = Filled(r[n - 1], offers[n], tokens)
              /\ EstimateMarketOrder(offers, tokens) = r[Len(offers)]
<1> DEFINE N == Len(offers)
           nothing == [tokens |-> 0, ethers |-> 0, limitPrice |-> 0]
           Def(f) == f = [T \in SUBSET DOMAIN offers |->
                            IF T = {} THEN nothing
                            ELSE Filled(f[T \ {Max(T)}], offers[Max(T)], tokens)]
           f == CHOOSE f : Def(f)
<1>1. N \in Nat /\ DOMAIN offers = 1 .. N /\ \A k \in 1 .. N : offers[k] \in Offer
  OBVIOUS
<1>2. EstimateMarketOrder(offers, tokens) = f[DOMAIN offers]
  BY DEF EstimateMarketOrder, FoldLeft, MapThenFoldSet
<1>3. nothing \in Ret
  BY DEF Ret
<1>4. \A ret \in Ret, k \in 1 .. N : Filled(ret, offers[k], tokens) \in Ret
  BY <1>1, FilledIsRet
<1> HIDE DEF N, nothing
<1>5. \E g : Def(g)
  <2> DEFINE step == [p \in Ret \X (1 .. N) |-> Filled(p[1], offers[p[2]], tokens)]
  <2>1. step \in [Ret \X (1 .. N) -> Ret]
    BY <1>4
  <2>2. \A ret \in Ret, k \in 1 .. N : step[<<ret, k>>] = Filled(ret, offers[k], tokens)
    OBVIOUS
  <2> HIDE DEF step
  <2>3. PICK g \in [SUBSET (1 .. N) -> Ret] : FoldsAll(g, nothing, step, N)
    BY <1>1, <1>3, <2>1, FoldExists
  <2>4. ASSUME NEW T \in SUBSET (1 .. N)
        PROVE  g[T] = IF T = {} THEN nothing
                      ELSE Filled(g[T \ {Max(T)}], offers[Max(T)], tokens)
    <3>1. CASE T = {}
      BY <2>3, <3>1 DEF FoldsAll
    <3>2. CASE T # {}
      <4>1. Max(T) \in 1 .. N
        BY <1>1, <3>2, GreatestIndex
      <4>2. g[T \ {Max(T)}] \in Ret
        OBVIOUS
      <4>3. g[T] = step[<<g[T \ {Max(T)}], Max(T)>>]
        BY <2>3, <3>2 DEF FoldsAll
      <4> QED
        BY <2>2, <3>2, <4>1, <4>2, <4>3
    <3> QED
      BY <3>1, <3>2
  <2>5. Def(g)
    BY <1>1, <2>4
  <2> QED
    BY <2>5
<1>6. Def(f)
  BY <1>5
<1> HIDE DEF f
<1> DEFINE r == [k \in 0 .. N |-> f[1 .. k]]
<1>7. r[0] = nothing
  <2>1. 1 .. 0 = {} /\ {} \in SUBSET DOMAIN offers
    OBVIOUS
  <2> QED
    BY <1>1, <1>6, <2>1
<1>8. ASSUME NEW k \in 1 .. N PROVE r[k] = Filled(r[k - 1], offers[k], tokens)
  <2>1. k - 1 \in Nat /\ (k - 1) + 1 = k /\ k \in 0 .. N /\ k - 1 \in 0 .. N
    BY <1>1
  <2>2. Max(1 .. k) = k /\ (1 .. k) \ {k} = 1 .. k - 1 /\ 1 .. k # {}
    BY <2>1, FirstIndices
  <2>3. 1 .. k \in SUBSET DOMAIN offers
    BY <1>1
  <2>4. f[1 .. k] = Filled(f[1 .. k - 1], offers[k], tokens)
    BY <1>6, <2>2, <2>3
  <2> QED
    BY <2>1, <2>4
<1>9. \A k \in 0 .. N : r[k] \in Ret
  <2> DEFINE P == {k \in Nat : k <= N => r[k] \in Ret}
  <2> HIDE DEF r
  <2>1. 0 \in P
    BY <1>3, <1>7
  <2>2. ASSUME NEW k \in Nat, k \in P PROVE k + 1 \in P
    <3>1. ASSUME k + 1 <= N PROVE r[k + 1] \in Ret
      <4>1. k + 1 \in 1 .. N /\ (k + 1) - 1 = k /\ r[k] \in Ret
        BY <1>1, <2>2, <3>1
      <4> QED
        BY <1>4, <1>8, <4>1
    <3> QED
      BY <3>1
  <2>3. Nat \subseteq P
    <3> HIDE DEF P
    <3> QED
      BY <2>1, <2>2, SetInduction
  <2> QED
    BY <1>1, <2>3
<1>10. r \in [0 .. N -> Ret]
  BY <1>9
<1>11. r[N] = EstimateMarketOrder(offers, tokens)
  BY <1>1, <1>2
<1> HIDE DEF r
<1> QED
  BY <1>7, <1>8, <1>10, <1>11 DEF N, nothing

(* The first m offers hold no more than the first n, if m is not above n.  *)
LEMMA OfferedRises ==
    ASSUME NEW offers \in Seq(Offer), NEW m \in 0 .. Len(offers), NEW n \in 0 .. Len(offers),
           m <= n
    PROVE  Offered(offers, m) <= Offered(offers, n)
<1> DEFINE O(k) == Offered(offers, k)
           P == {k \in Nat : m <= k /\ k <= Len(offers) => O(m) <= O(k)}
<1>1. \A k \in 0 .. Len(offers) : O(k) \in Nat
  BY OfferedGrows
<1>2. ASSUME NEW k \in 1 .. Len(offers) PROVE O(k - 1) <= O(k)
  <2>1. O(k) = O(k - 1) + offers[k].tokens
    BY OfferedGrows
  <2>2. offers[k].tokens \in Nat
    <3>1. offers[k] \in Offer
      OBVIOUS
    <3> QED
      BY <3>1 DEF Offer
  <2>3. k - 1 \in 0 .. Len(offers)
    OBVIOUS
  <2>4. O(k - 1) \in Nat
    BY <1>1, <2>3
  <2> HIDE DEF O
  <2> QED
    BY <2>1, <2>2, <2>4
<1> HIDE DEF O
<1>3. 0 \in P
  BY <1>1
<1>4. ASSUME NEW k \in Nat, k \in P PROVE k + 1 \in P
  <2>1. ASSUME m <= k + 1, k + 1 <= Len(offers) PROVE O(m) <= O(k + 1)
    <3>1. k + 1 \in 1 .. Len(offers) /\ k \in 0 .. Len(offers) /\ (k + 1) - 1 = k
          /\ k + 1 \in 0 .. Len(offers)
      BY <2>1
    <3>2. O(k) <= O(k + 1) /\ O(k) \in Nat /\ O(k + 1) \in Nat /\ O(m) \in Nat
      BY <1>1, <1>2, <3>1
    <3>3. CASE m <= k
      BY <1>4, <3>1, <3>2, <3>3
    <3>4. CASE m = k + 1
      BY <3>2, <3>4
    <3> QED
      BY <2>1, <3>3, <3>4
  <2> QED
    BY <2>1
<1>5. Nat \subseteq P
  <2> HIDE DEF P
  <2> QED
    BY <1>3, <1>4, SetInduction
<1> QED
  BY <1>5 DEF O

(* The estimate fills the order as far as the offers go, and its limit     *)
(* price is that of the offer that completes it (lines 31-60).             *)
LEMMA EstimateFollows ==
    ASSUME NEW offers \in Seq(Offer), ethFiatRate \in Nat \ {0}
    PROVE  EstimateIsTight(offers)
<1> DEFINE O(k) == Offered(offers, k)
           N == Len(offers)
<1>1. /\ N \in Nat /\ DOMAIN offers = 1 .. N /\ O(0) = 0
      /\ \A n \in 0 .. N : O(n) \in Nat
      /\ \A n \in 1 .. N : O(n) = O(n - 1) + offers[n].tokens
  BY OfferedGrows
<1>2. \A m, n \in 0 .. N : m <= n => O(m) <= O(n)
  BY OfferedRises
<1>3. \A n \in 1 .. N : offers[n] \in Offer /\ offers[n].tokens \in Nat
  <2>1. \A n \in 1 .. N : offers[n] \in Offer
    OBVIOUS
  <2> QED
    BY <2>1 DEF Offer
<1> SUFFICES ASSUME NEW tokens \in TokenAmounts
             PROVE  LET ret == EstimateMarketOrder(offers, tokens)
                    IN  /\ ret.tokens = IF tokens <= O(N) THEN tokens ELSE O(N)
                        /\ \A n \in 1 .. N :
                              O(n) >= tokens /\ O(n - 1) < tokens
                                  => ret.limitPrice = offers[n].price
  BY <1>1 DEF EstimateIsTight
<1>4. tokens \in Nat \ {0}
  BY OrdersAssumption
<1>5. PICK r \in [0 .. N -> Ret] :
         /\ r[0] = [tokens |-> 0, ethers |-> 0, limitPrice |-> 0]
         /\ \A n \in 1 .. N : r[n] = Filled(r[n - 1], offers[n], tokens)
         /\ EstimateMarketOrder(offers, tokens) = r[N]
  BY <1>4, EstimateIsFold
<1> HIDE DEF O, N
<1> DEFINE Tight(n) ==
             /\ r[n].tokens = IF tokens <= O(n) THEN tokens ELSE O(n)
             /\ \A m \in 1 .. n : O(m) >= tokens /\ O(m - 1) < tokens
                                      => r[n].limitPrice = offers[m].price
           P == {n \in Nat : n <= N => Tight(n)}
<1>6. 0 \in P
  BY <1>1, <1>4, <1>5
<1>7. ASSUME NEW n \in Nat, n \in P PROVE n + 1 \in P
  <2> SUFFICES ASSUME n + 1 <= N PROVE Tight(n + 1)
    OBVIOUS
  <2>1. /\ n + 1 \in 1 .. N /\ (n + 1) - 1 = n /\ n \in 0 .. N /\ n + 1 \in 0 .. N
        /\ Tight(n)
    BY <1>1, <1>7
  <2> DEFINE ret == r[n]
             offer == offers[n + 1]
             remaining == tokens - ret.tokens
             fill == IF offer.tokens <= remaining THEN offer.tokens ELSE remaining
             next == r[n + 1]
  <2>2. ret \in Ret /\ offer \in Offer /\ offer.tokens \in Nat
    BY <1>3, <1>5, <2>1
  <2>3. next = Filled(ret, offer, tokens)
    BY <1>5, <2>1
  <2>4. /\ remaining = 0 => next = ret
        /\ remaining # 0 => next.tokens = ret.tokens + fill /\ next.limitPrice = offer.price
    <3>1. tokens \in Nat
      BY <1>4
    <3> HIDE DEF ret, offer, next
    <3>2. LET f == Filled(ret, offer, tokens)
          IN  /\ remaining = 0 => f = ret
              /\ remaining # 0 => f.tokens = ret.tokens + fill /\ f.limitPrice = offer.price
      BY <2>2, <3>1, FilledIsRet
    <3> QED
      BY <2>3, <3>2
  <2>5. /\ O(n) \in Nat /\ O(n + 1) \in Nat /\ O(n + 1) = O(n) + offer.tokens
        /\ O(n) <= O(n + 1)
    BY <1>1, <1>2, <2>1
  <2>6. ret.tokens = IF tokens <= O(n) THEN tokens ELSE O(n)
    BY <2>1
  <2>7. ASSUME NEW m \in 1 .. n
        PROVE  O(m) >= tokens /\ O(m - 1) < tokens => ret.limitPrice = offers[m].price
    BY <2>1
  <2>8. ASSUME NEW m \in 1 .. n PROVE O(m) \in Nat /\ O(m) <= O(n)
    <3>1. m \in 0 .. N /\ m <= n
      BY <1>1, <1>7, <2>1
    <3> QED
      BY <1>1, <1>2, <2>1, <3>1
  <2> HIDE DEF ret, offer, next, Tight
  <2>9. CASE tokens <= O(n)
    <3>1. remaining = 0
      BY <1>4, <2>6, <2>9
    <3>2. next.tokens = tokens /\ tokens <= O(n + 1)
      BY <1>4, <2>4, <2>5, <2>6, <2>9, <3>1
    <3>3. ASSUME NEW m \in 1 .. n + 1, O(m) >= tokens, O(m - 1) < tokens
          PROVE  next.limitPrice = offers[m].price
      <4>1. m # n + 1
        BY <2>1, <2>5, <2>9, <3>3, <1>4
      <4>2. m \in 1 .. n
        BY <4>1
      <4> QED
        BY <2>4, <2>7, <3>1, <3>3, <4>2
    <3> QED
      BY <3>2, <3>3 DEF Tight, next
  <2>10. CASE ~(tokens <= O(n))
    <3>1. ret.tokens = O(n) /\ remaining \in Nat /\ remaining # 0
      BY <1>4, <2>5, <2>6, <2>10
    <3>2. next.tokens = O(n) + fill /\ next.limitPrice = offer.price
      BY <2>4, <3>1
    <3>3. next.tokens = IF tokens <= O(n + 1) THEN tokens ELSE O(n + 1)
      BY <1>4, <2>2, <2>5, <3>1, <3>2
    <3>4. ASSUME NEW m \in 1 .. n + 1, O(m) >= tokens, O(m - 1) < tokens
          PROVE  next.limitPrice = offers[m].price
      <4>1. m \notin 1 .. n
        BY <1>4, <2>5, <2>8, <2>10, <3>4
      <4>2. m = n + 1
        BY <4>1
      <4> QED
        BY <3>2, <4>2 DEF offer
    <3> QED
      BY <3>3, <3>4 DEF Tight, next
  <2> QED
    BY <2>9, <2>10
<1>8. Nat \subseteq P
  <2> HIDE DEF P
  <2> QED
    BY <1>6, <1>7, SetInduction
<1>9. Tight(N)
  BY <1>1, <1>8
<1> QED
  BY <1>5, <1>9

(* The orders of a side are offers, at any rate.                           *)
LEMMA OrdersAreOffers ==
    ASSUME TypeOK
    PROVE  SellOffers \in Seq(Offer) /\ BuyOffers \in Seq(Offer) /\ ethFiatRate \in Nat \ {0}
<1>1. ethFiatRate \in Nat \ {0}
  BY OrdersAssumption DEF TypeOK
<1>2. ASSUME NEW i \in 1 .. Len(sellOrders)
      PROVE  [tokens |-> sellOrders[i].amount, price |-> sellOrders[i].price] \in Offer
  <2>1. sellOrders[i] \in SellOrder
    BY DEF TypeOK
  <2> QED
    BY <2>1, OrdersAssumption DEF SellOrder, Offer
<1>3. ASSUME NEW i \in 1 .. Len(buyOrders)
      PROVE  [tokens |-> ToTokensAt(buyOrders[i].amount, ethFiatRate, buyOrders[i].price),
              price |-> buyOrders[i].price] \in Offer
  <2>1. buyOrders[i] \in BuyOrder
    BY DEF TypeOK
  <2>2. buyOrders[i].amount \in Nat /\ buyOrders[i].price \in Nat \ {0}
    BY <2>1, OrdersAssumption DEF BuyOrder
  <2>3. buyOrders[i].amount * ethFiatRate \in Nat /\ buyOrders[i].price * E12 \in Nat \ {0}
    BY <1>1, <2>2, UnitsAssumption
  <2>4. ToTokensAt(buyOrders[i].amount, ethFiatRate, buyOrders[i].price) \in Nat
    BY <2>3, DivRoundNat DEF ToTokensAt
  <2> QED
    BY <2>2, <2>4 DEF Offer
<1>4. SellOffers \in [1 .. Len(sellOrders) -> Offer]
  BY <1>2 DEF SellOffers, TypeOK
<1>5. BuyOffers \in [1 .. Len(buyOrders) -> Offer]
  BY <1>3 DEF BuyOffers, TypeOK
<1>6. Len(sellOrders) \in Nat /\ Len(buyOrders) \in Nat
  BY DEF TypeOK
<1> QED
  BY <1>1, <1>4, <1>5, <1>6

-----------------------------------------------------------------------------
(* The theorems *)

(* Types, and with them indices that never run past the arrays by more     *)
(* than one (Exchange.ts 78-141).                                          *)
THEOREM TypeCorrect == Spec => []TypeOK
<1>1. Inv => TypeOK
  BY DEF Inv
<1> QED
  BY <1>1, Invariance, PTL

(* No match takes more from an order than it has, whatever the rounding    *)
(* (lines 109-131).                                                        *)
THEOREM NothingIsOverfilled == Spec => []NoOverfill
<1>1. Inv => NoOverfill
  BY DEF Inv, LoopInv, NoOverfill
<1> QED
  BY <1>1, Invariance, PTL

(* The gas that is returned is that of the matches and fits the limit      *)
(* (lines 98-104, 133-134).                                                *)
THEOREM GasIsWithinLimit == Spec => []GasFits
<1>1. Inv => GasFits
  BY DEF Inv, GasInv
<1> QED
  BY <1>1, Invariance, PTL

(* Every match finishes an order, so the loop ends (lines 101-135).        *)
THEOREM MatchesAreFewerThanOrders == Spec => []EveryMatchFinishesOne
<1>1. Inv => EveryMatchFinishesOne
  BY DEF Inv, CountInv, EveryMatchFinishesOne
<1> QED
  BY <1>1, Invariance, PTL

(* An order is touched only when every better one of its side is finished, *)
(* whatever the book, the rate and the roundings (Exchange.ts 21-29,       *)
(* 62-65, 101-135).                                                        *)
THEOREM PriorityIsKept == Spec => []PriceTimePriority
<1>1. Inv /\ ProgressInv => PriceTimePriority
  BY PriorityFollows
<1> QED
  BY <1>1, Invariance, BookInvariance, PTL

(* Unless the gas runs out, no two orders that cross are left open, for    *)
(* every book and rate (lines 84-135).                                     *)
THEOREM NothingIsLeftToMatch == Spec => []NothingLeftToMatch
<1>1. Inv /\ ProgressInv /\ CompleteInv => NothingLeftToMatch
  BY CompletenessFollows
<1> QED
  BY <1>1, Invariance, BookInvariance, PTL

(* A market order is filled as far as the book goes, and its limit price   *)
(* is that of the order that completes it, for every book, rate and amount *)
(* (lines 31-60, 146-160).                                                 *)
THEOREM EstimatesAreExact == Spec => []EstimatesAreTight
<1>1. TypeOK => EstimatesAreTight
  BY OrdersAreOffers, EstimateFollows DEF EstimatesAreTight
<1> QED
  BY <1>1, TypeCorrect, PTL
=============================================================================
