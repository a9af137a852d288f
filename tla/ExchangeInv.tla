----------------------------- MODULE ExchangeInv -----------------------------
(* The inductive invariant of Exchange, in named parts: what match_order's *)
(* pointers and lists look like at each of its program points, and why     *)
(* exchange.c's wake-ups suffice.                                          *)
EXTENDS Exchange

(* The lists are kept in ascending order of price. *)
Sorted(list) ==
  \A i, j \in DOMAIN list : i <= j => list[i].price <= list[j].price

ListsSorted == Sorted(buy_orders) /\ Sorted(sell_orders)

(* The quotes follow the ends of the lists at every step. *)
QuotesFollow == bid = BidOf(buy_orders) /\ ask = AskOf(sell_orders)

(* From finding a match to reducing the quantities, the pointers of        *)
(* match_order are at the sell order reached and at the last buy order,    *)
(* and the trade is the one computed for them.                             *)
TradeInv ==
  mpc \in {"pay", "deliver", "refund", "report", "fill"} =>
    /\ match.sell \in DOMAIN sell_orders
    /\ match.buy \in DOMAIN buy_orders
    /\ match.buy = Len(buy_orders)
    /\ Matches(Seller, Buyer)
    /\ match.quantity = TradeQuantity(Seller, Buyer)
    /\ match.price = TradePrice(Seller, Buyer, last_price)

(* Elsewhere in the loops: a sell order with something left is matched     *)
(* against the last buy order next.                                        *)
PointersInv ==
  /\ mpc = "outer" => match.sell \in 1..Len(sell_orders) + 1
  /\ mpc = "inner" => /\ match.sell \in DOMAIN sell_orders
                      /\ match.buy = Len(buy_orders)
  /\ mpc = "reap"  => /\ match.sell \in DOMAIN sell_orders
                      /\ match.buy \in 0..Len(buy_orders)
                      /\ Seller.quant # 0 => match.buy = Len(buy_orders)

(* The sell orders match_order has passed match no buy order. *)
PassedInv ==
  mpc \in MatcherTrading =>
    \A i \in DOMAIN sell_orders, j \in DOMAIN buy_orders :
      i < match.sell => ~ Matches(sell_orders[i], buy_orders[j])

(* A matchmaker about to sleep without a wake-up leaves no match behind. *)
WakeInv == mpc = "wait" /\ Crossed => matcher_mutex > 0

CoreInv ==
  /\ TypeOK
  /\ MutualExclusion
  /\ NoUseAfterFree
  /\ ListsSorted
  /\ QuotesFollow
  /\ TradeInv
  /\ PointersInv
  /\ PassedInv
  /\ WakeInv
-----------------------------------------------------------------------------
(* What the books of the exchange say at every step, between the points    *)
(* where the properties of Exchange read them.                             *)

(* What a call is about once it is under way. *)
CallInv ==
  \A t \in Traders :
    /\ pc[t] = "lock" => call[t].op \in {"buy", "sell", "cancel"}
    /\ pc[t] \in {"debit", "insert"} => call[t].op \in {"buy", "sell"}
    /\ pc[t] = "refund" => call[t].op \in {"cancel_buy", "cancel_sell"}

(* No two orders have the same id, and the next one is new. *)
Distinct(list) ==
  \A i, j \in DOMAIN list : list[i].id = list[j].id => i = j

IdsInv ==
  /\ Distinct(buy_orders) /\ Distinct(sell_orders)
  /\ IdsOf(buy_orders) \cap IdsOf(sell_orders) = {}
  /\ \A id \in Pending : id < orderid

(* An order being canceled keeps its reference until CancelRefund. *)
RefInv ==
  \A t \in Traders :
    ref_count[t] = 2 + Cardinality(Owned(buy_orders, t))
                     + Cardinality(Owned(sell_orders, t))
                     + (IF pc[t] = "refund" THEN 1 ELSE 0)

(* The listener knows the book but for the order that is being posted or   *)
(* canceled, or the trade that is being filled.                            *)
Book == Range(buy_orders) \cup Range(sell_orders)

Shows(f, orders) ==
  /\ DOMAIN f = {order.id : order \in orders}
  /\ \A order \in orders : f[order.id] = order.quant

Reduced(order) == [order EXCEPT !.quant = @ - match.quantity]

AfterTrade ==
  (Book \ {Seller, Buyer})
    \cup {order \in {Reduced(Seller), Reduced(Buyer)} : order.quant # 0}

Unfilled == Book \ {order \in {Seller} : order.quant = 0}

FeedQuiet ==
  /\ mpc \notin {"fill", "reap"}
  /\ \A t \in Traders :
       pc[t] \notin {"post_broadcast", "refund", "cancel_broadcast"}

FeedInv ==
  /\ FeedQuiet => Shows(feed, Book)
  /\ mpc = "fill" => Shows(feed, AfterTrade)
  /\ mpc = "reap" => Shows(feed, Unfilled)
  /\ \A t \in Traders :
       /\ pc[t] = "post_broadcast" =>
            Shows(Posted(feed, call[t].id, call[t].quant), Book)
       /\ pc[t] \in {"refund", "cancel_broadcast"} =>
            Shows(Gone(feed, {call[t].id}), Book)

(* What a step between a debit and the change of the book it pays for, or  *)
(* between the packets of a trade and its payments, holds of a trader's    *)
(* money and units, as numbers that need not fit a word.                   *)
PostingFunds(t) ==
  IF \/ pc[t] = "insert" /\ call[t].op = "buy"
     \/ pc[t] = "refund" /\ call[t].op = "cancel_buy"
    THEN call[t].quant * call[t].price ELSE 0

PostingUnits(t) ==
  IF \/ pc[t] = "insert" /\ call[t].op = "sell"
     \/ pc[t] = "refund" /\ call[t].op = "cancel_sell"
    THEN call[t].quant ELSE 0

TradingFunds(t) ==
  (IF mpc \in {"deliver", "refund", "report"} /\ t = Seller.trader
     THEN match.quantity * match.price ELSE 0)
  + (IF mpc = "report" /\ t = Buyer.trader
       THEN match.quantity * (Buyer.price - match.price) ELSE 0)
  + (IF mpc = "fill" /\ t = Buyer.trader
       THEN match.quantity * Buyer.price ELSE 0)

TradingUnits(t) ==
  (IF mpc \in {"refund", "report"} /\ t = Buyer.trader
     THEN match.quantity ELSE 0)
  + (IF mpc = "fill" /\ t = Seller.trader THEN match.quantity ELSE 0)

(* What a trader has set aside in pending orders and on its way.           *)
FundsPledged(t) == EncumberedFunds(t) + PostingFunds(t) - TradingFunds(t)
UnitsPledged(t) == EncumberedUnits(t) + PostingUnits(t) - TradingUnits(t)

(* With what is in its account it is, but for a whole number of words, what *)
(* the packets say the trader owns.                                        *)
DriftInv ==
  \A t \in Traders :
    /\ (balance[t] + FundsPledged(t) - funds[t]) % Word = 0
    /\ (inventory[t] + UnitsPledged(t) - stock[t]) % Word = 0

Inv == CoreInv /\ CallInv /\ IdsInv /\ RefInv /\ FeedInv /\ DriftInv
=============================================================================
