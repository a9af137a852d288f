------------------------------- MODULE Market -------------------------------
(***************************************************************************)
(* What an exchange promises its traders (lab5/include/exchange.h): orders *)
(* are posted, traded and cancelled as if in one step each, funds and      *)
(* units for every pending order are set aside, and a trade is between the *)
(* best orders at the price closest to the last one.  There are no         *)
(* threads, lists or machine words here.                                   *)
(***************************************************************************)
EXTENDS Integers, FiniteSets

CONSTANT Traders

VARIABLES
  orders,      \* the pending orders
  nextid,      \* the id of the next order
  last,        \* the last trade price
  balance, inventory,
  fundings     \* how often traders moved funds or units in or out

market == <<orders, nextid, last, balance, inventory, fundings>>

Order == [type : {"buy", "sell"}, id : Nat, trader : Traders,
          quant : Nat, price : Nat]

Init ==
  /\ orders = {} /\ nextid = 1 /\ last = 0
  /\ balance = [t \in Traders |-> 0] /\ inventory = [t \in Traders |-> 0]
  /\ fundings = 0

(* A trader moves funds or units in or out of its account, but never more  *)
(* out than is in it: what pending orders encumber is out of reach.        *)
(* Nothing else changes what the traders own but trades.                   *)
Fund(t) ==
  /\ \/ /\ balance'[t] \in Nat
        /\ balance' = [balance EXCEPT ![t] = balance'[t]]
        /\ UNCHANGED inventory
     \/ /\ inventory'[t] \in Nat
        /\ inventory' = [inventory EXCEPT ![t] = inventory'[t]]
        /\ UNCHANGED balance
  /\ fundings' = fundings + 1
  /\ UNCHANGED <<orders, nextid, last>>

(* Funds equal to the maximum possible cost of a buy order, units equal to *)
(* the amount of a sell order, leave the account as the order is posted.   *)
Post(t, o) ==
  /\ o.id = nextid /\ o.trader = t
  /\ \/ /\ o.type = "buy"
        /\ balance[t] >= o.quant * o.price
        /\ balance' = [balance EXCEPT ![t] = @ - o.quant * o.price]
        /\ UNCHANGED inventory
     \/ /\ o.type = "sell"
        /\ inventory[t] >= o.quant
        /\ inventory' = [inventory EXCEPT ![t] = @ - o.quant]
        /\ UNCHANGED balance
  /\ orders' = orders \cup {o}
  /\ nextid' = nextid + 1
  /\ UNCHANGED <<last, fundings>>

(* A cancelled order gives back exactly what it still encumbers. *)
Cancel(o) ==
  /\ orders' = orders \ {o}
  /\ \/ /\ o.type = "buy"
        /\ balance' = [balance EXCEPT ![o.trader] = @ + o.quant * o.price]
        /\ UNCHANGED inventory
     \/ /\ o.type = "sell"
        /\ inventory' = [inventory EXCEPT ![o.trader] = @ + o.quant]
        /\ UNCHANGED balance
  /\ UNCHANGED <<nextid, last, fundings>>

Distance(p, q) == IF p < q THEN q - p ELSE p - q

Quantity(s, b) == IF s.quant < b.quant THEN s.quant ELSE b.quant

(* What the trade of s and b leaves of them. *)
Rest(s, b) ==
  {o \in {[s EXCEPT !.quant = @ - Quantity(s, b)],
          [b EXCEPT !.quant = @ - Quantity(s, b)]} : o.quant > 0}

(* Sell order s and buy order b trade at `price': all of one of them goes. *)
(* They may be of one trader.                                              *)
Trade(s, b, price) ==
  /\ s.type = "sell" /\ b.type = "buy" /\ s.price <= b.price
  /\ \A o \in orders : /\ o.type = "sell" => s.price <= o.price
                       /\ o.type = "buy" => o.price <= b.price
  /\ \A p \in s.price..b.price : Distance(price, last) <= Distance(p, last)
  /\ orders' = (orders \ {s, b}) \cup Rest(s, b)
  /\ balance' = [t \in Traders |-> balance[t]
       + (IF t = s.trader THEN Quantity(s, b) * price ELSE 0)
       + (IF t = b.trader THEN Quantity(s, b) * (b.price - price) ELSE 0)]
  /\ inventory' = [inventory EXCEPT ![b.trader] = @ + Quantity(s, b)]
  /\ last' = price
  /\ UNCHANGED <<nextid, fundings>>

Next ==
  \/ \E t \in Traders : Fund(t)
  \/ \E o \in orders' \ orders : Post(o.trader, o)
  \/ \E o \in orders : Cancel(o)
  \/ \E s, b \in orders : \E price \in s.price..b.price : Trade(s, b, price)

Spec == Init /\ [][Next]_market
=============================================================================
