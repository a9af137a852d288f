------------------------------ MODULE Exchange ------------------------------
(***************************************************************************)
(* The exchange of the "Bourse" server (lab5/src/exchange.c and            *)
(* exchange_functions.c) with the trader accounts it moves money through   *)
(* (the account operations of lab5/src/trader.c).                          *)
(*                                                                         *)
(* Three kinds of thread share one EXCHANGE: a service thread per          *)
(* logged-in trader, which posts and cancels orders, the matchmaker        *)
(* thread, which trades matching orders, and the thread that finalizes the *)
(* exchange once every service thread has returned.  A step is what a      *)
(* thread does between two points at which another thread can notice it:   *)
(* the semaphore operations, and inside a critical section of `mutex' the  *)
(* account operations, which lock the trader module and not the exchange.  *)
(***************************************************************************)
EXTENDS Integers, Sequences, FiniteSets, SequencesExt

CONSTANTS
  Traders,     \* the traders, each served by one service thread
  Word,        \* number of values of funds_t and quantity_t (2^32 in the code)
  Quantities,  \* quantities asked for in BUY and SELL requests
  Prices,      \* prices asked for in BUY and SELL requests
  Amounts,     \* amounts of DEPOSIT, WITHDRAW, ESCROW and RELEASE requests
  MaxOrders,   \* bound: no post is requested after this many orders
  MaxFundings  \* bound: account operations in a behaviour

UINT32_MAX == Word - 1

ASSUME WordAssumption == Word \in Nat /\ Word > 1
ASSUME RequestAssumption ==
  /\ Quantities \subseteq 0..UINT32_MAX
  /\ Prices \subseteq 0..UINT32_MAX
  /\ Amounts \subseteq 0..UINT32_MAX
ASSUME BoundAssumption == MaxOrders \in Nat /\ MaxFundings \in Nat

VARIABLES
  \* EXCHANGE
  mutex, matcher_mutex, matcher_wait,  \* values of its three semaphores
  check,                               \* set by exchange_fini
  buy_orders, sell_orders,             \* the lists, head first
  bid, ask, last_price, orderid,
  \* the TRADERs
  balance, inventory, ref_count,
  \* control and locals of the threads
  pc, call,        \* the service threads
  mpc, match,      \* the matchmaker
  fpc,             \* the finalizing thread
  \* history
  feed,            \* what a listener to the broadcasts believes is pending
  funds, stock,    \* what the packets say each trader owns
  fundings         \* account operations so far

book == <<buy_orders, sell_orders, bid, ask, last_price, orderid>>
exchange == <<mutex, matcher_mutex, matcher_wait, check, book>>
accounts == <<balance, inventory, ref_count>>
background == <<mpc, match, fpc>>   \* the control of the other two threads
control  == <<pc, call, background>>
history  == <<feed, funds, stock, fundings>>
vars == <<exchange, accounts, control, history>>
-----------------------------------------------------------------------------
(* Orders and their lists.  The list an ORDER is in gives its type.        *)

Order == [id : Nat, trader : Traders,
          quant : 0..UINT32_MAX, price : 0..UINT32_MAX]

(* Unsigned 32-bit arithmetic. *)
Plus(x, y)  == (x + y) % Word
Minus(x, y) == (x - y) % Word
Times(x, y) == (x * y) % Word

(* Faulty: new orders go to the tail, whatever their price. *)
list_insert_unsorted(list, node) == InsertAt(list, Len(list) + 1, node)

(* Before the first order with a higher price, else at the tail. *)
list_insert(list, node) ==
  LET higher == {i \in DOMAIN list : list[i].price > node.price}
  IN  InsertAt(list, IF higher = {} THEN Len(list) + 1 ELSE Min(higher), node)

list_remove(list, i) == RemoveAt(list, i)

(* The bid is the price at the tail of the buy orders, the ask the price   *)
(* at the head of the sell orders.                                         *)
BidOf(buys)  == IF buys = << >> THEN 0 ELSE buys[Len(buys)].price
AskOf(sells) == IF sells = << >> THEN UINT32_MAX ELSE sells[1].price

(* The positions of the order `id' of trader t in a list. *)
Places(list, id, t) ==
  {i \in DOMAIN list : list[i].id = id /\ list[i].trader = t}

IdsOf(list) == {list[i].id : i \in DOMAIN list}
Pending == IdsOf(buy_orders) \cup IdsOf(sell_orders)

(* What the broadcast packets tell a trader who was logged in from the     *)
(* start: the pending quantity of every order it has seen and not seen go. *)
Posted(f, id, q)   == [i \in DOMAIN f \cup {id} |-> IF i = id THEN q ELSE f[i]]
Gone(f, ids)       == [i \in DOMAIN f \ ids |-> f[i]]
Traded(f, s, b, q) ==
  LET left == [i \in DOMAIN f |-> IF i \in {s, b} THEN f[i] - q ELSE f[i]]
  IN  Gone(left, {i \in DOMAIN f \cap {s, b} : left[i] = 0})
-----------------------------------------------------------------------------
NoCall  == [op |-> "none", id |-> 0, quant |-> 0, price |-> 0]
NoMatch == [sell |-> 0, buy |-> 0, price |-> 0, quantity |-> 0]

Ops == {"none", "buy", "sell", "cancel", "cancel_buy", "cancel_sell"}
Call == [op : Ops, id : Nat, quant : 0..UINT32_MAX, price : 0..UINT32_MAX]
Match == [sell : Nat, buy : Nat,
          price : 0..UINT32_MAX, quantity : 0..UINT32_MAX]

(* The program points at which a thread holds `mutex'. *)
ServiceCritical == {"debit", "insert", "post_broadcast", "find", "refund",
                    "cancel_broadcast", "unlock"}
MatcherTrading  == {"outer", "inner", "pay", "deliver", "refund", "report",
                    "fill", "reap"}
MatcherCritical == MatcherTrading \cup {"done"}

ServicePoints == {"idle", "lock", "gone"} \cup ServiceCritical
MatcherPoints == {"wait", "lock"} \cup MatcherCritical
FiniPoints    == {"serving", "wake", "join", "freed"}

(* A trader logs in with an empty account and two references, one of the   *)
(* traders map and one of the service thread.                              *)
Init ==
  /\ mutex = 1 /\ matcher_mutex = 0 /\ matcher_wait = 0 /\ check = 0
  /\ buy_orders = << >> /\ sell_orders = << >>
  /\ bid = 0 /\ ask = UINT32_MAX /\ last_price = 0 /\ orderid = 1
  /\ balance = [t \in Traders |-> 0]
  /\ inventory = [t \in Traders |-> 0]
  /\ ref_count = [t \in Traders |-> 2]
  /\ pc = [t \in Traders |-> "idle"] /\ call = [t \in Traders |-> NoCall]
  /\ mpc = "wait" /\ match = NoMatch /\ fpc = "serving"
  /\ feed = << >>
  /\ funds = [t \in Traders |-> 0] /\ stock = [t \in Traders |-> 0]
  /\ fundings = 0

Goto(t, from, to) == pc[t] = from /\ pc' = [pc EXCEPT ![t] = to]

-----------------------------------------------------------------------------
(* Account operations of trader.c: each is one critical section of         *)
(* sem_traders and the trader's mutex.  They need no exchange semaphore.   *)

trader_increase_balance(b, t, amount)   == [b EXCEPT ![t] = Plus(@, amount)]
trader_decrease_balance(b, t, amount)   == [b EXCEPT ![t] = Minus(@, amount)]
trader_increase_inventory(n, t, amount) == [n EXCEPT ![t] = Plus(@, amount)]
trader_decrease_inventory(n, t, amount) == [n EXCEPT ![t] = Minus(@, amount)]

Funding(t) ==
  /\ pc[t] = "idle" /\ fundings < MaxFundings
  /\ fundings' = fundings + 1
  /\ UNCHANGED <<exchange, control, feed, ref_count>>

Deposit(t, amount) ==
  /\ Funding(t)
  /\ balance' = trader_increase_balance(balance, t, amount)
  /\ funds' = [funds EXCEPT ![t] = Plus(@, amount)]
  /\ UNCHANGED <<inventory, stock>>

Withdraw(t, amount) ==
  /\ Funding(t)
  /\ balance[t] >= amount
  /\ balance' = trader_decrease_balance(balance, t, amount)
  /\ funds' = [funds EXCEPT ![t] = Minus(@, amount)]
  /\ UNCHANGED <<inventory, stock>>

Escrow(t, amount) ==
  /\ Funding(t)
  /\ inventory' = trader_increase_inventory(inventory, t, amount)
  /\ stock' = [stock EXCEPT ![t] = Plus(@, amount)]
  /\ UNCHANGED <<balance, funds>>

Release(t, amount) ==
  /\ Funding(t)
  /\ inventory[t] >= amount
  /\ inventory' = trader_decrease_inventory(inventory, t, amount)
  /\ stock' = [stock EXCEPT ![t] = Minus(@, amount)]
  /\ UNCHANGED <<balance, funds>>
-----------------------------------------------------------------------------
(* A service thread enters exchange_post_buy, exchange_post_sell or        *)
(* exchange_cancel, and waits for `mutex'.                                 *)

Request(t, c) ==
  /\ Goto(t, "idle", "lock")
  /\ call' = [call EXCEPT ![t] = c]
  /\ UNCHANGED <<exchange, accounts, background, history>>

RequestPost(t, op, quantity, price) ==
  /\ orderid <= MaxOrders
  /\ Request(t, [NoCall EXCEPT !.op = op, !.quant = quantity, !.price = price])

RequestCancel(t, id) ==
  /\ Request(t, [NoCall EXCEPT !.op = "cancel", !.id = id])

(* sem_wait(&xchg->mutex) *)
Lock(t) ==
  /\ mutex = 1
  /\ mutex' = 0
  /\ Goto(t, "lock", IF call[t].op = "cancel" THEN "find" ELSE "debit")
  /\ UNCHANGED <<matcher_mutex, matcher_wait, check, book, accounts, call,
                 background, history>>

(* Encumber the cost or the units of the order, or give up. *)
DebitBuy(t) ==
  LET cost == Times(call[t].quant, call[t].price)
  IN  /\ call[t].op = "buy"
      /\ IF balance[t] >= cost
           THEN /\ Goto(t, "debit", "insert")
                /\ balance' = trader_decrease_balance(balance, t, cost)
           ELSE /\ Goto(t, "debit", "unlock")
                /\ UNCHANGED balance
      /\ UNCHANGED <<exchange, inventory, ref_count, call, background,
                     history>>

DebitSell(t) ==
  /\ call[t].op = "sell"
  /\ IF inventory[t] >= call[t].quant
       THEN /\ Goto(t, "debit", "insert")
            /\ inventory' = trader_decrease_inventory(inventory, t,
                                                      call[t].quant)
       ELSE /\ Goto(t, "debit", "unlock")
            /\ UNCHANGED inventory
  /\ UNCHANGED <<exchange, balance, ref_count, call, background, history>>

(* Faulty: a buy order does not wake the matchmaker. *)
Insert_sells_wake(t) ==
  LET order == [id |-> orderid, trader |-> t,
                quant |-> call[t].quant, price |-> call[t].price]
  IN  /\ Goto(t, "insert", "post_broadcast")
      /\ \/ /\ call[t].op = "buy"
            /\ buy_orders' = list_insert(buy_orders, order)
            /\ bid' = IF bid < order.price THEN order.price ELSE bid
            /\ UNCHANGED <<sell_orders, ask, matcher_mutex>>
         \/ /\ call[t].op = "sell"
            /\ sell_orders' = list_insert(sell_orders, order)
            /\ ask' = IF ask > order.price THEN order.price ELSE ask
            /\ matcher_mutex' = matcher_mutex + 1
            /\ UNCHANGED <<buy_orders, bid>>
      /\ ref_count' = [ref_count EXCEPT ![t] = @ + 1]
      /\ orderid' = orderid + 1
      /\ call' = [call EXCEPT ![t].id = orderid]
      /\ UNCHANGED <<mutex, matcher_wait, check, last_price, balance,
                     inventory, background, history>>

(* Take the next order id, insert the order, count the reference, raise    *)
(* the bid or lower the ask, and wake the matchmaker.                      *)
Insert(t) ==
  LET order == [id |-> orderid, trader |-> t,
                quant |-> call[t].quant, price |-> call[t].price]
  IN  /\ Goto(t, "insert", "post_broadcast")
      /\ IF call[t].op = "buy"
           THEN /\ buy_orders' = list_insert(buy_orders, order)
                /\ bid' = IF bid < order.price THEN order.price ELSE bid
                /\ UNCHANGED <<sell_orders, ask>>
           ELSE /\ sell_orders' = list_insert(sell_orders, order)
                /\ ask' = IF ask > order.price THEN order.price ELSE ask
                /\ UNCHANGED <<buy_orders, bid>>
      /\ ref_count' = [ref_count EXCEPT ![t] = @ + 1]
      /\ orderid' = orderid + 1
      /\ matcher_mutex' = matcher_mutex + 1
      /\ call' = [call EXCEPT ![t].id = orderid]
      /\ UNCHANGED <<mutex, matcher_wait, check, last_price, balance,
                     inventory, background, history>>

(* Faulty: `mutex' is posted before the broadcast. *)
BroadcastPosted_unlocked(t) ==
  \/ /\ pc[t] = "post_broadcast" /\ mutex = 0
     /\ mutex' = 1
     /\ UNCHANGED <<matcher_mutex, matcher_wait, check, book, accounts,
                    control, history>>
  \/ /\ Goto(t, "post_broadcast", "idle")
     /\ feed' = Posted(feed, call[t].id, call[t].quant)
     /\ call' = [call EXCEPT ![t] = NoCall]
     /\ UNCHANGED <<exchange, accounts, background, funds, stock, fundings>>

(* Broadcast POSTED. *)
BroadcastPosted(t) ==
  /\ Goto(t, "post_broadcast", "unlock")
  /\ feed' = Posted(feed, call[t].id, call[t].quant)
  /\ UNCHANGED <<exchange, accounts, call, background, funds, stock, fundings>>
-----------------------------------------------------------------------------
(* The rest of exchange_cancel: the order is looked up among the buy       *)
(* orders, then among the sell orders, by its id and its trader.           *)

(* Faulty: returns without posting `mutex'. *)
CancelFails_locked(t) ==
  /\ Goto(t, "find", "idle")
  /\ Places(buy_orders, call[t].id, t) = {}
  /\ Places(sell_orders, call[t].id, t) = {}
  /\ call' = [call EXCEPT ![t] = NoCall]
  /\ UNCHANGED <<exchange, accounts, background, history>>

(* Faulty: posts `mutex' both in the early return and at the end. *)
CancelFails_posts_twice(t) ==
  /\ Goto(t, "find", "unlock")
  /\ Places(buy_orders, call[t].id, t) = {}
  /\ Places(sell_orders, call[t].id, t) = {}
  /\ mutex' = mutex + 1
  /\ UNCHANGED <<matcher_mutex, matcher_wait, check, book, accounts, call,
                 background, history>>

CancelFails(t) ==
  /\ Goto(t, "find", "unlock")
  /\ Places(buy_orders, call[t].id, t) = {}
  /\ Places(sell_orders, call[t].id, t) = {}
  /\ UNCHANGED <<exchange, accounts, call, background, history>>

(* Faulty: only the bid is set again. *)
Requote_bid_only == bid' = BidOf(buy_orders') /\ UNCHANGED ask

Requote ==
  /\ bid' = BidOf(buy_orders')
  /\ ask' = AskOf(sell_orders')

(* Unlink the order and set the bid and the ask from what is left. *)
CancelFinds(t) ==
  LET id == call[t].id
      Found(op, order) ==
        call' = [call EXCEPT ![t] = [op |-> op, id |-> id,
                               quant |-> order.quant, price |-> order.price]]
  IN  /\ Goto(t, "find", "refund")
      /\ \/ \E i \in Places(buy_orders, id, t) :
              /\ Found("cancel_buy", buy_orders[i])
              /\ buy_orders' = list_remove(buy_orders, i)
              /\ UNCHANGED sell_orders
         \/ /\ Places(buy_orders, id, t) = {}
            /\ \E i \in Places(sell_orders, id, t) :
              /\ Found("cancel_sell", sell_orders[i])
              /\ sell_orders' = list_remove(sell_orders, i)
              /\ UNCHANGED buy_orders
      /\ Requote
      /\ UNCHANGED <<mutex, matcher_mutex, matcher_wait, check, last_price,
                     orderid, accounts, background, history>>

(* Give back what the order still encumbers, and drop its reference. *)
CancelRefund(t) ==
  LET c == call[t]
  IN  /\ Goto(t, "refund", "cancel_broadcast")
      /\ IF c.op = "cancel_buy"
           THEN /\ balance' = trader_increase_balance(balance, t,
                                                      Times(c.quant, c.price))
                /\ UNCHANGED inventory
           ELSE /\ inventory' = trader_increase_inventory(inventory, t,
                                                          c.quant)
                /\ UNCHANGED balance
      /\ ref_count' = [ref_count EXCEPT ![t] = @ - 1]
      /\ UNCHANGED <<exchange, call, background, history>>

(* Broadcast CANCELED. *)
BroadcastCanceled(t) ==
  /\ Goto(t, "cancel_broadcast", "unlock")
  /\ feed' = Gone(feed, {call[t].id})
  /\ UNCHANGED <<exchange, accounts, call, background, funds, stock, fundings>>

(* sem_post(&xchg->mutex) and return. *)
Unlock(t) ==
  /\ Goto(t, "unlock", "idle")
  /\ mutex' = mutex + 1
  /\ call' = [call EXCEPT ![t] = NoCall]
  /\ UNCHANGED <<matcher_mutex, matcher_wait, check, book, accounts,
                 background, history>>

(* The client closes its connection and the service thread ends. *)
Leave(t) ==
  /\ Goto(t, "idle", "gone")
  /\ UNCHANGED <<exchange, accounts, call, background, history>>
-----------------------------------------------------------------------------
(* The matchmaker thread.  In match_order the pointers sell_order and      *)
(* buy_order are kept as positions in their lists.                         *)

Step(from, to) == mpc = from /\ mpc' = to

Seller == sell_orders[match.sell]
Buyer  == buy_orders[match.buy]

(* sem_wait(&exchange->matcher_mutex) *)
MatcherWake ==
  /\ Step("wait", "lock")
  /\ matcher_mutex > 0
  /\ matcher_mutex' = matcher_mutex - 1
  /\ UNCHANGED <<mutex, matcher_wait, check, book, accounts, pc, call, match,
                 fpc, history>>

(* sem_wait(&exchange->mutex), then either terminate, keeping it, ... *)
MatcherStop ==
  /\ Step("lock", "done")
  /\ mutex = 1 /\ check = 1
  /\ mutex' = 0
  /\ matcher_wait' = matcher_wait + 1
  /\ UNCHANGED <<matcher_mutex, check, book, accounts, pc, call, match, fpc,
                 history>>

(* Faulty: `check' is tested before `mutex' is taken, so not here. *)
MatcherStart_unchecked ==
  /\ Step("lock", "outer")
  /\ mutex = 1
  /\ mutex' = 0
  /\ match' = [NoMatch EXCEPT !.sell = 1]
  /\ UNCHANGED <<matcher_mutex, matcher_wait, check, book, accounts, pc, call,
                 fpc, history>>

(* ... or call match_order, which starts at the head of the sell orders. *)
MatcherStart ==
  /\ Step("lock", "outer")
  /\ mutex = 1 /\ check = 0
  /\ mutex' = 0
  /\ match' = [NoMatch EXCEPT !.sell = 1]
  /\ UNCHANGED <<matcher_mutex, matcher_wait, check, book, accounts, pc, call,
                 fpc, history>>

(* The outer loop ends, and with it match_order and the critical section. *)
MatcherSleep ==
  /\ Step("outer", "wait")
  /\ match.sell > Len(sell_orders)
  /\ mutex' = mutex + 1
  /\ match' = NoMatch
  /\ UNCHANGED <<matcher_mutex, matcher_wait, check, book, accounts, pc, call,
                 fpc, history>>

(* Faulty: start at the head of the buy orders. *)
MatcherOuter_head ==
  /\ Step("outer", "inner")
  /\ match.sell <= Len(sell_orders)
  /\ match' = [match EXCEPT !.buy = IF buy_orders = << >> THEN 0 ELSE 1]
  /\ UNCHANGED <<exchange, accounts, pc, call, fpc, history>>

(* For each sell order, start at the tail of the buy orders. *)
MatcherOuter ==
  /\ Step("outer", "inner")
  /\ match.sell <= Len(sell_orders)
  /\ match' = [match EXCEPT !.buy = Len(buy_orders)]
  /\ UNCHANGED <<exchange, accounts, pc, call, fpc, history>>

Matches(sell_order, buy_order) == sell_order.price <= buy_order.price

(* The price in the overlap that is closest to the last trade price. *)
TradePrice(sell_order, buy_order, last) ==
  LET price == IF sell_order.price > last THEN sell_order.price ELSE last
  IN  IF buy_order.price < price THEN buy_order.price ELSE price

TradeQuantity(sell_order, buy_order) ==
  IF sell_order.quant < buy_order.quant THEN sell_order.quant
                                        ELSE buy_order.quant

MatcherInner ==
  /\ mpc = "inner"
  /\ IF match.buy # 0 /\ Matches(Seller, Buyer)
       THEN /\ mpc' = "pay"
            /\ match' = [match EXCEPT
                           !.price = TradePrice(Seller, Buyer, last_price),
                           !.quantity = TradeQuantity(Seller, Buyer)]
       ELSE /\ mpc' = "outer"
            /\ match' = [NoMatch EXCEPT !.sell = match.sell + 1]
  /\ UNCHANGED <<exchange, accounts, pc, call, fpc, history>>

(* One trade: the seller's proceeds, the buyer's units, and what the       *)
(* buyer had encumbered beyond the price, each under sem_traders alone.    *)
MatcherPay ==
  /\ Step("pay", "deliver")
  /\ balance' = trader_increase_balance(balance, Seller.trader,
                                        Times(match.quantity, match.price))
  /\ UNCHANGED <<exchange, inventory, ref_count, pc, call, match, fpc,
                 history>>

MatcherDeliver ==
  /\ Step("deliver", "refund")
  /\ inventory' = trader_increase_inventory(inventory, Buyer.trader,
                                            match.quantity)
  /\ UNCHANGED <<exchange, balance, ref_count, pc, call, match, fpc, history>>

(* Faulty: no refund when the trade is below the buyer's price. *)
MatcherRefund_never ==
  /\ Step("refund", "report")
  /\ UNCHANGED <<exchange, accounts, pc, call, match, fpc, history>>

MatcherRefund ==
  /\ Step("refund", "report")
  /\ balance' = IF match.price < Buyer.price
                  THEN trader_increase_balance(balance, Buyer.trader,
                         Times(match.quantity, Buyer.price - match.price))
                  ELSE balance
  /\ UNCHANGED <<exchange, inventory, ref_count, pc, call, match, fpc,
                 history>>

(* What passes between the two of a trade, who may be the same trader.     *)
Passed(account, from, to, amount) ==
  [t \in Traders |->
     LET left == IF t = from THEN Minus(account[t], amount) ELSE account[t]
     IN  IF t = to THEN Plus(left, amount) ELSE left]

(* Send BOUGHT and SOLD, broadcast TRADED. *)
MatcherReport ==
  LET cost == Times(match.quantity, match.price)
  IN  /\ Step("report", "fill")
      /\ feed' = Traded(feed, Seller.id, Buyer.id, match.quantity)
      /\ funds' = Passed(funds, Buyer.trader, Seller.trader, cost)
      /\ stock' = Passed(stock, Seller.trader, Buyer.trader, match.quantity)
      /\ UNCHANGED <<exchange, accounts, pc, call, match, fpc, fundings>>

(* Reduce both quantities; unlink a filled buy order, set the bid, and go  *)
(* on to the buy order before it.                                          *)
MatcherFill ==
  /\ Step("fill", "reap")
  /\ sell_orders' = [sell_orders EXCEPT
                       ![match.sell].quant = @ - match.quantity]
  /\ IF Buyer.quant = match.quantity
       THEN /\ buy_orders' = list_remove(buy_orders, match.buy)
            /\ ref_count' = [ref_count EXCEPT ![Buyer.trader] = @ - 1]
       ELSE /\ buy_orders' = [buy_orders EXCEPT
                                ![match.buy].quant = @ - match.quantity]
            /\ UNCHANGED ref_count
  /\ bid' = BidOf(buy_orders')
  /\ last_price' = match.price
  /\ match' = [match EXCEPT !.buy = @ - 1, !.price = 0, !.quantity = 0]
  /\ UNCHANGED <<mutex, matcher_mutex, matcher_wait, check, ask, orderid,
                 balance, inventory, pc, call, fpc, history>>

(* Faulty: the reference of a filled sell order is kept. *)
MatcherReap_keeps_reference ==
  /\ mpc = "reap"
  /\ IF Seller.quant = 0
       THEN /\ mpc' = "outer"
            /\ sell_orders' = list_remove(sell_orders, match.sell)
            /\ match' = [NoMatch EXCEPT !.sell = match.sell]
       ELSE /\ mpc' = "inner"
            /\ UNCHANGED <<sell_orders, match>>
  /\ ask' = AskOf(sell_orders')
  /\ UNCHANGED <<mutex, matcher_mutex, matcher_wait, check, buy_orders, bid,
                 last_price, orderid, accounts, pc, call, fpc, history>>

(* Unlink a filled sell order and leave the inner loop; set the ask. *)
MatcherReap ==
  /\ mpc = "reap"
  /\ IF Seller.quant = 0
       THEN /\ mpc' = "outer"
            /\ sell_orders' = list_remove(sell_orders, match.sell)
            /\ ref_count' = [ref_count EXCEPT ![Seller.trader] = @ - 1]
            /\ match' = [NoMatch EXCEPT !.sell = match.sell]
       ELSE /\ mpc' = "inner"
            /\ UNCHANGED <<sell_orders, ref_count, match>>
  /\ ask' = AskOf(sell_orders')
  /\ UNCHANGED <<mutex, matcher_mutex, matcher_wait, check, buy_orders, bid,
                 last_price, orderid, balance, inventory, pc, call, fpc,
                 history>>
-----------------------------------------------------------------------------
(* exchange_fini, called once no service thread is left.  It frees the     *)
(* orders and sets `check' in one critical section, wakes the matchmaker,  *)
(* waits for it and frees the exchange.                                    *)

FiniFree ==
  /\ fpc = "serving" /\ fpc' = "wake"
  /\ \A t \in Traders : pc[t] = "gone"
  /\ mutex = 1
  /\ check' = 1
  /\ UNCHANGED <<mutex, matcher_mutex, matcher_wait, book, accounts, pc, call,
                 mpc, match, history>>

(* Faulty: the matchmaker is not woken. *)
FiniWake_silent ==
  /\ fpc = "wake" /\ fpc' = "join"
  /\ UNCHANGED <<exchange, accounts, pc, call, mpc, match, history>>

FiniWake ==
  /\ fpc = "wake" /\ fpc' = "join"
  /\ matcher_mutex' = matcher_mutex + 1
  /\ UNCHANGED <<mutex, matcher_wait, check, book, accounts, pc, call, mpc,
                 match, history>>

(* sem_wait(&xchg->matcher_wait), pthread_join, free(xchg) *)
FiniJoin ==
  /\ fpc = "join" /\ fpc' = "freed"
  /\ matcher_wait > 0 /\ mpc = "done"
  /\ matcher_wait' = matcher_wait - 1
  /\ UNCHANGED <<mutex, matcher_mutex, check, book, accounts, pc, call, mpc,
                 match, history>>

(* The process exits: no step is left. *)
Exited == fpc = "freed" /\ UNCHANGED vars
-----------------------------------------------------------------------------
Service(t) ==
  \/ \E amount \in Amounts : \/ Deposit(t, amount) \/ Withdraw(t, amount)
                             \/ Escrow(t, amount)  \/ Release(t, amount)
  \/ \E op \in {"buy", "sell"}, quantity \in Quantities, price \in Prices :
       RequestPost(t, op, quantity, price)
  \/ \E id \in 1..orderid - 1 : RequestCancel(t, id)
  \/ Leave(t)

(* What a service thread does in a call once it has made it. *)
ServiceStep(t) ==
  \/ Lock(t) \/ DebitBuy(t) \/ DebitSell(t) \/ Insert(t) \/ BroadcastPosted(t)
  \/ CancelFails(t) \/ CancelFinds(t) \/ CancelRefund(t)
  \/ BroadcastCanceled(t) \/ Unlock(t)

Matcher ==
  \/ MatcherWake \/ MatcherStop \/ MatcherStart \/ MatcherSleep \/ MatcherOuter
  \/ MatcherInner \/ MatcherPay \/ MatcherDeliver \/ MatcherRefund
  \/ MatcherReport \/ MatcherFill \/ MatcherReap

Fini == FiniFree \/ FiniWake \/ FiniJoin

Next ==
  \/ \E t \in Traders : Service(t) \/ ServiceStep(t)
  \/ Matcher
  \/ Fini
  \/ Exited

Spec == Init /\ [][Next]_vars

(* A thread that can take a step inside the exchange eventually does; a    *)
(* client need never send a request or close its connection.               *)
Fairness ==
  /\ \A t \in Traders : WF_vars(ServiceStep(t))
  /\ WF_vars(Matcher)
  /\ WF_vars(Fini)

FairSpec == Spec /\ Fairness
-----------------------------------------------------------------------------
(* PROPERTIES *)

SemaphoresOK ==
  mutex \in 0..1 /\ matcher_mutex \in Nat /\ matcher_wait \in Nat

BookOK ==
  /\ buy_orders \in Seq(Order) /\ sell_orders \in Seq(Order)
  /\ bid \in 0..UINT32_MAX /\ ask \in 0..UINT32_MAX
  /\ last_price \in 0..UINT32_MAX /\ orderid \in Nat \ {0}

AccountsOK ==
  /\ balance \in [Traders -> 0..UINT32_MAX]
  /\ inventory \in [Traders -> 0..UINT32_MAX]
  /\ ref_count \in [Traders -> Int]

ThreadsOK ==
  /\ pc \in [Traders -> ServicePoints] /\ call \in [Traders -> Call]
  /\ mpc \in MatcherPoints /\ match \in Match
  /\ fpc \in FiniPoints /\ check \in 0..1

HistoryOK ==
  /\ funds \in [Traders -> 0..UINT32_MAX]
  /\ stock \in [Traders -> 0..UINT32_MAX]
  /\ fundings \in Nat

(* Every variable keeps the type of the C object it stands for; the        *)
(* semaphore that protects the exchange never counts above one.            *)
TypeOK ==
  SemaphoresOK /\ BookOK /\ AccountsOK /\ ThreadsOK /\ HistoryOK

(* At most one thread is between sem_wait and sem_post of `mutex', and the *)
(* semaphore is up exactly when none is: no early return of                *)
(* exchange_cancel or failed post leaves it down or posts it twice.        *)
MutualExclusion ==
  /\ mutex = 1 <=> (/\ mpc \notin MatcherCritical
                    /\ \A t \in Traders : pc[t] \notin ServiceCritical)
  /\ \A t \in Traders : pc[t] \in ServiceCritical =>
       /\ mpc \notin MatcherCritical
       /\ \A u \in Traders \ {t} : pc[u] \notin ServiceCritical

(* Once exchange_fini has freed the orders the matchmaker never runs       *)
(* match_order again, whatever wake-ups were still pending.                *)
NoUseAfterFree ==
  check = 1 => /\ mpc \notin MatcherTrading
               /\ \A t \in Traders : pc[t] = "gone"

Crossed ==
  \E i \in DOMAIN sell_orders, j \in DOMAIN buy_orders :
    Matches(sell_orders[i], buy_orders[j])

(* No wake-up is lost: whenever the exchange is unlocked with matching     *)
(* orders in it, the matchmaker has a wake-up pending or is on its way to  *)
(* the lock.  It never sleeps on orders that match.                        *)
NoLostMatch ==
  mutex = 1 /\ check = 0 /\ Crossed => matcher_mutex > 0 \/ mpc = "lock"

(* Between critical sections the quoted bid and ask are the highest price  *)
(* bid and the lowest price asked among the pending orders.                *)
QuotesAreExtremes ==
  mutex = 1 =>
    /\ bid = Max({buy_orders[i].price : i \in DOMAIN buy_orders} \cup {0})
    /\ ask = Min({sell_orders[i].price : i \in DOMAIN sell_orders}
                   \cup {UINT32_MAX})

(* Every trade is between the cheapest sell order and the dearest buy      *)
(* order, at the price in their overlap closest to the last trade price.   *)
TradesAtBestPrices ==
  mpc = "pay" =>
    LET overlap == Seller.price..Buyer.price
        Distance(p) == IF p < last_price THEN last_price - p
                                         ELSE p - last_price
    IN  /\ \A i \in DOMAIN sell_orders : Seller.price <= sell_orders[i].price
        /\ \A i \in DOMAIN buy_orders : buy_orders[i].price <= Buyer.price
        /\ match.price \in overlap
        /\ \A p \in overlap : Distance(match.price) <= Distance(p)

Owned(list, t) == {i \in DOMAIN list : list[i].trader = t}

(* The total of a sequence of numbers. *)
Total(numbers) ==
  LET upto[n \in 0..Len(numbers)] ==
        IF n = 0 THEN 0 ELSE upto[n - 1] + numbers[n]
  IN  upto[Len(numbers)]

(* What an order sets aside for trader t, if it is one of its orders. *)
Cost(order, t)  == IF order.trader = t THEN order.quant * order.price ELSE 0
Units(order, t) == IF order.trader = t THEN order.quant ELSE 0

Costs(list, t)    == [i \in DOMAIN list |-> Cost(list[i], t)]
AllUnits(list, t) == [i \in DOMAIN list |-> Units(list[i], t)]

EncumberedFunds(t) == Total(Costs(buy_orders, t))
EncumberedUnits(t) == Total(AllUnits(sell_orders, t))

(* Accounts against packets: what a trader has in the account and in       *)
(* pending orders is what deposits and withdrawals, and the quantities and *)
(* prices of the published trades, say it owns, modulo the word size.      *)
(* Partial fills, price improvement, cancels and concurrent account        *)
(* operations neither create nor lose anything.                            *)
AccountsBalance ==
  mutex = 1 => \A t \in Traders :
    /\ Plus(balance[t], EncumberedFunds(t)) = funds[t]
    /\ Plus(inventory[t], EncumberedUnits(t)) = stock[t]

(* A trader's reference count is one for the traders map, one for its      *)
(* service thread and one for each of its pending orders.                  *)
ReferencesCounted ==
  mutex = 1 => \A t \in Traders :
    ref_count[t] = 2 + Cardinality(Owned(buy_orders, t))
                     + Cardinality(Owned(sell_orders, t))

(* The broadcasts tell the whole story: a trader who has seen every        *)
(* POSTED, TRADED and CANCELED packet knows exactly which orders are       *)
(* pending and with which quantities.  A TRADED packet that overtook a     *)
(* POSTED one, or a cancel that raced a trade, would break it.             *)
FeedTellsBook ==
  mutex = 1 =>
    /\ DOMAIN feed = Pending
    /\ \A i \in DOMAIN buy_orders :
         feed[buy_orders[i].id] = buy_orders[i].quant
    /\ \A i \in DOMAIN sell_orders :
         feed[sell_orders[i].id] = sell_orders[i].quant

(* Once clients stop sending requests, matching orders do not stay in the  *)
(* exchange: the matchmaker trades until none is left.                     *)
EventuallyUncrossed ==
  <>[](\A t \in Traders : pc[t] \in {"idle", "gone"}) /\ []<>(check = 0)
    => <>[]~Crossed

(* exchange_fini returns: the matchmaker notices and terminates.           *)
FiniReturns == check = 1 ~> fpc = "freed"
=============================================================================
