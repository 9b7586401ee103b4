------------------------------ MODULE OrderBook ------------------------------
(***************************************************************************)
(* src/src/Exchange.ts, class OrderBook: which pairs of orders go into one *)
(* matchMultipleOrders transaction, and what a market order would cost.    *)
(* Amounts of buy orders are Wei, those of sell orders are Tokens; prices  *)
(* and rates are positive integers in the units of units.ts.               *)
(***************************************************************************)
EXTENDS Units, Filter, Sequences, SequencesExt

CONSTANTS
    Ids,            \* of the orders, given in the order they were placed
    Prices, TokenAmounts, WeiAmounts,
    Rates,          \* ethFiatRate: tokens for one ether
    GasLimits,
    MaxOrders,      \* bound on the orders of a side
    FIRST_MATCH_GAS, ADDITIONAL_MATCH_GAS

ASSUME OrdersAssumption ==
    /\ Ids \subseteq Nat
    /\ Prices \subseteq Nat \ {0} /\ Rates \subseteq Nat \ {0}
    /\ TokenAmounts \subseteq Nat \ {0} /\ WeiAmounts \subseteq Nat \ {0}

ASSUME GasAssumption ==
    /\ MaxOrders \in Nat /\ GasLimits \subseteq Nat
    /\ FIRST_MATCH_GAS \in Nat \ {0} /\ ADDITIONAL_MATCH_GAS \in Nat

VARIABLES
    buyOrders, sellOrders,   \* the book, sorted by the constructor
    ethFiatRate, gasLimit,   \* the arguments of getMatchingOrders
    pc,                      \* "start", "matching" or "done"
    buys, sells,             \* the filtered clones, amounts going down
    buyIdx, sellIdx,
    pairs,                   \* buyIds and sellIds, position by position
    gasEstimate, nextGasEstimate

bookVars == <<buyOrders, sellOrders, ethFiatRate, gasLimit>>
vars == <<bookVars, pc, buys, sells, buyIdx, sellIdx, pairs, gasEstimate, nextGasEstimate>>

-----------------------------------------------------------------------------
(* The book.  Ids are unique, so the comparison functions order it totally. *)

BuyOrder == [id : Ids, price : Prices, amount : WeiAmounts]
SellOrder == [id : Ids, price : Prices, amount : TokenAmounts]

BuyBeforeBug(o1, o2) == o1.price > o2.price \/ (o1.price = o2.price /\ o1.id > o2.id)
BuyBefore(o1, o2) == o1.price > o2.price \/ (o1.price = o2.price /\ o1.id < o2.id)
SellBefore(o1, o2) == o1.price < o2.price \/ (o1.price = o2.price /\ o1.id < o2.id)

Arrays(Order) == UNION {[1 .. n -> Order] : n \in 0 .. MaxOrders}

(* The arrays that sort() leaves behind. *)
SortedBuys ==
    {s \in Arrays(BuyOrder) :
        \A i, j \in DOMAIN s : i < j => BuyBefore(s[i], s[j]) /\ s[i].id # s[j].id}
SortedSells ==
    {s \in Arrays(SellOrder) :
        \A i, j \in DOMAIN s : i < j => SellBefore(s[i], s[j]) /\ s[i].id # s[j].id}

IdsOf(orders) == {orders[i].id : i \in DOMAIN orders}

Init ==
    /\ buyOrders \in SortedBuys
    /\ sellOrders \in SortedSells
    /\ IdsOf(buyOrders) \cap IdsOf(sellOrders) = {}
    /\ ethFiatRate \in Rates /\ gasLimit \in GasLimits
    /\ pc = "start"
    /\ buys = <<>> /\ sells = <<>>
    /\ buyIdx = 1 /\ sellIdx = 1
    /\ pairs = <<>>
    /\ gasEstimate = 0 /\ nextGasEstimate = FIRST_MATCH_GAS

HasMatchingOrders ==
    buyOrders # <<>> /\ sellOrders # <<>> /\ sellOrders[1].price <= buyOrders[1].price

(* What the loop works on: the orders that cross the other side's best. *)
BuysBug == Kept(buyOrders, {k \in DOMAIN buyOrders : buyOrders[k].price > sellOrders[1].price})
Buys == Kept(buyOrders, {k \in DOMAIN buyOrders : buyOrders[k].price >= sellOrders[1].price})
Sells == Kept(sellOrders, {k \in DOMAIN sellOrders : sellOrders[k].price <= buyOrders[1].price})

-----------------------------------------------------------------------------
(* getMatchingOrders *)

NoMatch ==
    /\ pc = "start" /\ ~HasMatchingOrders
    /\ pc' = "done"
    /\ UNCHANGED <<bookVars, buys, sells, buyIdx, sellIdx, pairs, gasEstimate,
                   nextGasEstimate>>

Start ==
    /\ pc = "start" /\ HasMatchingOrders
    /\ pc' = "matching"
    /\ buys' = Buys /\ sells' = Sells
    /\ UNCHANGED <<bookVars, buyIdx, sellIdx, pairs, gasEstimate, nextGasEstimate>>

GasLeftBug == gasEstimate <= gasLimit            \* tests the match before
GasLeft == nextGasEstimate <= gasLimit

(* The maker is the order that was placed first. *)
MakerPrice(buy, sell) == IF buy.id > sell.id THEN sell.price ELSE buy.price

(* What is traded: the whole sell order if the buy order can pay for it. *)
TradedBug(buy, sell) ==                          \* forgets the units
    LET price == MakerPrice(buy, sell)
        wei == ToWeiAt(sell.amount, ethFiatRate, price)
    IN  IF sell.amount <= buy.amount
        THEN [wei |-> wei, tokens |-> sell.amount]
        ELSE [wei |-> buy.amount, tokens |-> ToTokensAt(buy.amount, ethFiatRate, price)]
Traded(buy, sell) ==
    LET price == MakerPrice(buy, sell)
        wei == ToWeiAt(sell.amount, ethFiatRate, price)
    IN  IF wei <= buy.amount
        THEN [wei |-> wei, tokens |-> sell.amount]
        ELSE [wei |-> buy.amount, tokens |-> ToTokensAt(buy.amount, ethFiatRate, price)]

(* One turn of the loop. *)
AdvanceBug(idx, left) == idx
AdvanceTwiceBug(idx, left) == IF left = 0 THEN idx + 2 ELSE idx
Advance(idx, left) == IF left = 0 THEN idx + 1 ELSE idx

MatchPair ==
    /\ pc = "matching"
    /\ buyIdx <= Len(buys) /\ sellIdx <= Len(sells) /\ GasLeft
    /\ LET buy == buys[buyIdx]
           sell == sells[sellIdx]
           traded == Traded(buy, sell)
           wei == buy.amount - traded.wei
           tokens == sell.amount - traded.tokens
       IN  /\ pairs' = Append(pairs, <<buy.id, sell.id>>)
           /\ buys' = [buys EXCEPT ![buyIdx] = [id |-> buy.id, price |-> buy.price, amount |-> wei]]
           /\ sells' = [sells EXCEPT ![sellIdx] =
                            [id |-> sell.id, price |-> sell.price, amount |-> tokens]]
           /\ buyIdx' = Advance(buyIdx, wei)
           /\ sellIdx' = Advance(sellIdx, tokens)
    /\ gasEstimate' = nextGasEstimate
    /\ nextGasEstimate' = nextGasEstimate + ADDITIONAL_MATCH_GAS
    /\ UNCHANGED <<bookVars, pc>>

Return ==
    /\ pc = "matching"
    /\ ~(buyIdx <= Len(buys) /\ sellIdx <= Len(sells) /\ GasLeft)
    /\ pc' = "done"
    /\ UNCHANGED <<bookVars, buys, sells, buyIdx, sellIdx, pairs, gasEstimate,
                   nextGasEstimate>>

Next == NoMatch \/ Start \/ MatchPair \/ Return

Spec == Init /\ [][Next]_vars

-----------------------------------------------------------------------------
(* estimateMarketOrder: a fold over what the orders of one side offer, in  *)
(* tokens; limitPrice is 0 while undefined.  averagePrice, one quotient of *)
(* the totals at the end, is left out.                                     *)

FilledBug(ret, offer, tokens) ==         \* goes on when nothing remains
    LET remaining == tokens - ret.tokens
        fill == IF offer.tokens <= remaining THEN offer.tokens ELSE remaining
    IN  [tokens |-> ret.tokens + fill,
         ethers |-> ret.ethers + ToWeiAt(fill, ethFiatRate, offer.price),
         limitPrice |-> offer.price]
Filled(ret, offer, tokens) ==
    LET remaining == tokens - ret.tokens
        fill == IF offer.tokens <= remaining THEN offer.tokens ELSE remaining
    IN  IF remaining = 0 THEN ret
        ELSE [tokens |-> ret.tokens + fill,
              ethers |-> ret.ethers + ToWeiAt(fill, ethFiatRate, offer.price),
              limitPrice |-> offer.price]

EstimateMarketOrder(offers, tokens) ==
    FoldLeft(LAMBDA ret, offer : Filled(ret, offer, tokens),
             [tokens |-> 0, ethers |-> 0, limitPrice |-> 0], offers)

SellOffers == [i \in DOMAIN sellOrders |->
                [tokens |-> sellOrders[i].amount, price |-> sellOrders[i].price]]
BuyOffers == [i \in DOMAIN buyOrders |->
                [tokens |-> ToTokensAt(buyOrders[i].amount, ethFiatRate, buyOrders[i].price),
                 price |-> buyOrders[i].price]]

-----------------------------------------------------------------------------
(* Safety *)

Order(Amounts) == [id : Ids, price : Prices, amount : Amounts]

TypeOK ==
    /\ buyOrders \in Seq(BuyOrder) /\ sellOrders \in Seq(SellOrder)
    /\ ethFiatRate \in Rates /\ gasLimit \in GasLimits
    /\ pc \in {"start", "matching", "done"}
    /\ buys \in Seq(Order(Int)) /\ sells \in Seq(Order(Int))
    /\ buyIdx \in 1 .. Len(buys) + 1 /\ sellIdx \in 1 .. Len(sells) + 1
    /\ pairs \in Seq(Ids \X Ids)
    /\ gasEstimate \in Nat /\ nextGasEstimate \in Nat

(* The loop never sells more tokens or spends more Wei than an order has,  *)
(* although the amounts are rounded on the way from tokens to Wei and back *)
(* (lines 109-131, units.ts 156-196).                                      *)
NoOverfill ==
    /\ \A i \in DOMAIN buys : buys[i].amount >= 0
    /\ \A i \in DOMAIN sells : sells[i].amount >= 0

(* What is returned fits the gas limit and is what its matches cost: the   *)
(* first 200000, each other 50000 (lines 98-104, 133-134).                 *)
GasFits ==
    /\ pairs = <<>> => gasEstimate = 0
    /\ pairs # <<>> =>
        /\ gasEstimate = FIRST_MATCH_GAS + (Len(pairs) - 1) * ADDITIONAL_MATCH_GAS
        /\ gasEstimate <= gasLimit

(* Every match finishes an order, so there are fewer matches than orders:  *)
(* the loop ends for every book and never repeats a pair (lines 101-135).  *)
EveryMatchFinishesOne ==
    pairs # <<>> =>
        /\ Len(pairs) <= (buyIdx - 1) + (sellIdx - 1)
        /\ Len(pairs) < Len(buys) + Len(sells)

(* An order is touched only when every better one of its side is finished: *)
(* a higher bid or lower ask, or an earlier one at the same price (lines   *)
(* 21-29, 62-65, 101-135).                                                 *)
Touched(o, orders) == \E i \in DOMAIN orders : orders[i].id = o.id /\ orders[i].amount < o.amount
Finished(o, orders) == \E i \in DOMAIN orders : orders[i].id = o.id /\ orders[i].amount = 0
Better(o1, o2, sign) ==
    sign * o1.price > sign * o2.price \/ (o1.price = o2.price /\ o1.id < o2.id)

PriceTimePriority ==
    /\ \A i, j \in DOMAIN buyOrders :
        Better(buyOrders[i], buyOrders[j], 1) /\ Touched(buyOrders[j], buys)
            => Finished(buyOrders[i], buys)
    /\ \A i, j \in DOMAIN sellOrders :
        Better(sellOrders[i], sellOrders[j], -1) /\ Touched(sellOrders[j], sells)
            => Finished(sellOrders[i], sells)

(* Unless the gas runs out, no two orders that cross are left open: the    *)
(* filter before the loop drops nothing that could match (lines 84-101).   *)
NothingLeftToMatch ==
    pc = "done" /\ GasLeft =>
        \A i \in DOMAIN buyOrders, j \in DOMAIN sellOrders :
            buyOrders[i].price >= sellOrders[j].price
                => Finished(buyOrders[i], buys) \/ Finished(sellOrders[j], sells)

(* A market order is filled as far as the book goes, and its limit price   *)
(* is that of the last order it needs, also when that order is used up     *)
(* exactly (lines 31-60, 146-160).                                         *)
Offered(offers, n) ==
    FoldLeft(LAMBDA sum, offer : sum + offer.tokens, 0, SubSeq(offers, 1, n))

EstimateIsTight(offers) ==
    \A tokens \in TokenAmounts :
        LET ret == EstimateMarketOrder(offers, tokens)
            total == Offered(offers, Len(offers))
        IN  /\ ret.tokens = IF tokens <= total THEN tokens ELSE total
            /\ \A n \in DOMAIN offers :
                Offered(offers, n) >= tokens /\ Offered(offers, n - 1) < tokens
                    => ret.limitPrice = offers[n].price

EstimatesAreTight ==
    pc = "start" => EstimateIsTight(SellOffers) /\ EstimateIsTight(BuyOffers)

-----------------------------------------------------------------------------
(* What the documentation says and the code does not do *)

(* Line 75: the pairs are matching pairs, which is to say (line 71) that   *)
(* the sell price is not above the buy price.                              *)
PriceOf(id, orders) == orders[CHOOSE i \in DOMAIN orders : orders[i].id = id].price

PairsCross ==
    \A k \in DOMAIN pairs :
        PriceOf(pairs[k][2], sellOrders) <= PriceOf(pairs[k][1], buyOrders)
=============================================================================
