--------------------------- MODULE ExchangeMarket ---------------------------
(***************************************************************************)
(* The exchange implements the market: a post takes effect when it debits  *)
(* the account, a trade when it pays the seller, a cancel when it refunds  *)
(* the order.  Between those steps and the end of their critical section   *)
(* the state of the market is the state of the exchange with the rest of   *)
(* the operation in progress applied to it.                                *)
(***************************************************************************)
EXTENDS ExchangeInv

(* The matchmaker has paid for a trade it has yet to enter in the lists. *)
TradeInProgress == mpc \in {"deliver", "refund", "report", "fill"}

(* The orders of a list after the trade in progress takes its quantity     *)
(* from `order', which goes if that fills it.                              *)
Remaining(list, order) ==
  (Range(list) \ {order}) \cup {o \in {Reduced(order)} : o.quant # 0}

Buys == IF TradeInProgress THEN Remaining(buy_orders, Buyer)
                           ELSE Range(buy_orders)

(* A filled sell order stays in its list for a step longer than a buy      *)
(* order.                                                                  *)
Sells ==
  CASE TradeInProgress -> Remaining(sell_orders, Seller)
    [] mpc = "reap"    -> Range(sell_orders) \ {o \in {Seller} : o.quant = 0}
    [] OTHER           -> Range(sell_orders)

(* An order paid for but not yet in a list, or out of it but not refunded. *)
InHand == {t \in Traders : pc[t] \in {"insert", "refund"}}

TypeInHand(t) == IF call[t].op \in {"buy", "cancel_buy"} THEN "buy" ELSE "sell"

OrderInHand(t) ==
  [id |-> IF pc[t] = "insert" THEN orderid ELSE call[t].id, trader |-> t,
   quant |-> call[t].quant, price |-> call[t].price]

(* An order of the market says of which type it is. *)
AsOrder(type, o) == [type |-> type, id |-> o.id, trader |-> o.trader,
                     quant |-> o.quant, price |-> o.price]

MarketOrders == {AsOrder("buy", o) : o \in Buys}
                  \cup {AsOrder("sell", o) : o \in Sells}
                  \cup {AsOrder(TypeInHand(t), OrderInHand(t)) : t \in InHand}

(* A post takes its id before it counts it. *)
NextId == IF \E t \in Traders : pc[t] = "insert" THEN orderid + 1 ELSE orderid

LastPrice == IF TradeInProgress THEN match.price ELSE last_price

(* What the buyer of the trade in progress is still to receive. *)
FundsDue(t) ==
  IF mpc \in {"deliver", "refund"} /\ Buyer.trader = t
    THEN match.quantity * (Buyer.price - match.price) ELSE 0
UnitsDue(t) ==
  IF mpc = "deliver" /\ Buyer.trader = t THEN match.quantity ELSE 0

FundsOf   == [t \in Traders |-> balance[t] + FundsDue(t)]
UnitsOf   == [t \in Traders |-> inventory[t] + UnitsDue(t)]

M == INSTANCE Market WITH
       orders <- MarketOrders, nextid <- NextId, last <- LastPrice,
       balance <- FundsOf, inventory <- UnitsOf, fundings <- fundings

(* As long as no account and no cost reaches the word size, what traders   *)
(* observe of the concurrent exchange is a run of the market.              *)
ImplementsMarket == M!Spec
-----------------------------------------------------------------------------
(* What that means step by step: the cost about to be debited is a word,   *)
(* and so is what is in the account after the credit about to be made.     *)
Fits ==
  /\ \A t \in Traders :
       LET cost == call[t].quant * call[t].price
       IN  /\ pc[t] = "debit" /\ call[t].op = "buy" => cost < Word
           /\ pc[t] = "refund" =>
                IF call[t].op = "cancel_buy"
                  THEN balance[t] + cost < Word
                  ELSE inventory[t] + call[t].quant < Word
  /\ mpc = "pay" =>
       balance[Seller.trader] + match.quantity * match.price < Word
  /\ mpc = "deliver" => inventory[Buyer.trader] + match.quantity < Word
  /\ mpc = "refund" =>
       balance[Buyer.trader] + match.quantity * (Buyer.price - match.price)
         < Word
=============================================================================
