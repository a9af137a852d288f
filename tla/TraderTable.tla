---------------------------- MODULE TraderTable ----------------------------
(***************************************************************************)
(* The table of traders of the "Bourse" server (lab5/src/trader.c) under   *)
(* its service threads (server.c): logins, packets sent to a trader by its *)
(* own service thread, broadcasts to all, and account operations.  The     *)
(* thread that has the exchange's semaphore broadcasts and credits any     *)
(* trader: there is one such thread at a time.  trader_logout has no       *)
(* caller: a trader keeps its fd for good.                                 *)
(*                                                                         *)
(* Two kinds of lock: sem_traders for the table, and the mutex of each     *)
(* TRADER.  Fields are read with and without them, as in the code.  The    *)
(* traders are numbered by their position in the table.                    *)
(***************************************************************************)
EXTENDS Integers

CONSTANTS
  Names,        \* user names
  Sessions,     \* service threads, each with its own file descriptor
  Broadcaster,  \* the thread that has the exchange
  Nobody,       \* holder of a free lock, and the fd -1
  MAX_TRADERS

ASSUME TableAssumption == MAX_TRADERS \in Nat
ASSUME ThreadAssumption ==
  Broadcaster \notin Sessions /\ Nobody \notin Sessions \cup {Broadcaster}

VARIABLES
  sem_traders,          \* the thread that has it, or Nobody
  rear,                 \* traders[1..rear] are not NULL
  ready,                \* those of them that trader_login has initialized
  name, fd,             \* their fields
  mutex,                \* the thread that has a trader's mutex, or Nobody
  pc, user, me,         \* service threads: the name last asked for, trader1
  bpc, at,              \* the thread with the exchange: the trader it is at
  sending               \* threads that are writing to a file descriptor

Table  == <<rear, ready, name, fd>>
Thread == <<pc, user, me>>
broadcast == <<bpc, at>>
vars == <<sem_traders, Table, mutex, Thread, broadcast, sending>>

Positions == 1..MAX_TRADERS

Init ==
  /\ sem_traders = Nobody /\ rear = 0 /\ ready = {}
  /\ name = [i \in Positions |-> CHOOSE n \in Names : TRUE]
  /\ fd = [i \in Positions |-> Nobody]
  /\ mutex = [i \in Positions |-> Nobody]
  /\ pc = [s \in Sessions |-> "out"]
  /\ user = [s \in Sessions |-> CHOOSE n \in Names : TRUE]
  /\ me = [s \in Sessions |-> 0]
  /\ bpc = "idle" /\ at = 0
  /\ sending = {}

Goto(s, from, to) == pc[s] = from /\ pc' = [pc EXCEPT ![s] = to]

LockMutex(i, thread) ==
  /\ mutex[i] = Nobody
  /\ mutex' = [mutex EXCEPT ![i] = thread]
UnlockMutex(i) == mutex' = [mutex EXCEPT ![i] = Nobody]

(* What a thread writes to: the descriptor of trader i, unless it is -1. *)
Sends(thread, i) == {<<thread, f>> : f \in {fd[i]} \ {Nobody}}
StopsSending(thread) == sending' = {p \in sending : p[1] # thread}
-----------------------------------------------------------------------------
(* LOGIN, which the loop of brs_client_service honours at any time, and    *)
(* trader_login.                                                           *)

Login(s, n) ==
  /\ Goto(s, "out", "login") \/ Goto(s, "in", "login")
  /\ user' = [user EXCEPT ![s] = n]
  /\ UNCHANGED <<sem_traders, Table, mutex, me, broadcast, sending>>

(* Faulty: does not look at the last trader of the table. *)
Known_but_last(s) == {i \in 1..rear - 1 : name[i] = user[s]}

(* The trader with the name the session asks for, under sem_traders. *)
Known(s) == {i \in 1..rear : name[i] = user[s]}

(* Refused: no room for a new trader, even if this one is not new, or      *)
(* already logged in, be it by the same session or by one that is gone.    *)
(* The session has no trader any more.                                     *)
LoginRefused(s) ==
  /\ sem_traders = Nobody
  /\ \/ rear = MAX_TRADERS
     \/ \E i \in Known(s) : fd[i] # Nobody
  /\ Goto(s, "login", "nack")
  /\ me' = [me EXCEPT ![s] = 0]
  /\ UNCHANGED <<sem_traders, Table, mutex, user, broadcast, sending>>

(* The NACK goes to the connection itself, under no lock. *)
NackSend(s) ==
  /\ Goto(s, "nack", "nacking")
  /\ sending' = sending \cup {<<s, s>>}
  /\ UNCHANGED <<sem_traders, Table, mutex, user, me, broadcast>>

NackDone(s) ==
  /\ Goto(s, "nacking", "out")
  /\ StopsSending(s)
  /\ UNCHANGED <<sem_traders, Table, mutex, user, me, broadcast>>

(* Faulty: the new trader takes the place of the last one. *)
LoginPublish_onto_last(s) ==
  /\ sem_traders = Nobody /\ rear < MAX_TRADERS
  /\ Known(s) = {}
  /\ rear' = IF rear = 0 THEN 1 ELSE rear
  /\ \E garbage \in Sessions \cup {Nobody} :
       fd' = [fd EXCEPT ![rear'] = garbage]
  /\ me' = [me EXCEPT ![s] = rear']
  /\ sem_traders' = s
  /\ Goto(s, "login", "publish")
  /\ UNCHANGED <<ready, name, mutex, user, broadcast, sending>>

(* A new trader enters the table before its fields are set: what malloc    *)
(* returned may hold any fd, -1 or not.                                    *)
LoginPublish(s) ==
  /\ sem_traders = Nobody /\ rear < MAX_TRADERS
  /\ Known(s) = {}
  /\ rear' = rear + 1
  /\ \E garbage \in Sessions \cup {Nobody} :
       fd' = [fd EXCEPT ![rear'] = garbage]
  /\ me' = [me EXCEPT ![s] = rear']
  /\ sem_traders' = s
  /\ Goto(s, "login", "publish")
  /\ UNCHANGED <<ready, name, mutex, user, broadcast, sending>>

LoginFields(s) ==
  /\ Goto(s, "publish", "init")
  /\ name' = [name EXCEPT ![me[s]] = user[s]]
  /\ fd' = [fd EXCEPT ![me[s]] = s]
  /\ UNCHANGED <<sem_traders, rear, ready, mutex, user, me, broadcast, sending>>

(* pthread_mutex_init: whoever had the mutex has it no more. *)
LoginInit(s) ==
  /\ Goto(s, "init", "refs")
  /\ UnlockMutex(me[s])
  /\ ready' = ready \cup {me[s]}
  /\ UNCHANGED <<sem_traders, rear, name, fd, user, me, broadcast, sending>>

(* The two references, for each of which trader_ref takes the mutex. *)
LoginRefs(s) ==
  /\ Goto(s, "refs", "greet")
  /\ mutex[me[s]] = Nobody
  /\ sem_traders' = Nobody
  /\ UNCHANGED <<Table, mutex, user, me, broadcast, sending>>

(* recv fails or sees the end of the connection.  The trader stays as it   *)
(* is, with the descriptor of the session.                                 *)
Disconnect(s) ==
  /\ Goto(s, "out", "gone") \/ Goto(s, "in", "gone")
  /\ UNCHANGED <<sem_traders, Table, mutex, user, me, broadcast, sending>>
-----------------------------------------------------------------------------
(* trader_send_ack, trader_send_nack: trader_send_packet to oneself, under *)
(* the trader's mutex for as long as the client takes to read it.  The     *)
(* first one answers the LOGIN; if it cannot be sent the thread ends.      *)

(* Faulty: sends without the trader's mutex. *)
AckLock_unlocked(s) ==
  /\ Goto(s, "greet", "hello") \/ Goto(s, "in", "ack")
  /\ UNCHANGED <<sem_traders, Table, mutex, user, me, broadcast, sending>>

AckLock(s) ==
  /\ Goto(s, "greet", "hello") \/ Goto(s, "in", "ack")
  /\ LockMutex(me[s], s)
  /\ UNCHANGED <<sem_traders, Table, user, me, broadcast, sending>>

AckSend(s) ==
  /\ Goto(s, "hello", "greeting") \/ Goto(s, "ack", "sending")
  /\ sending' = sending \cup Sends(s, me[s])
  /\ UNCHANGED <<sem_traders, Table, mutex, user, me, broadcast>>

AckDone(s) ==
  /\ \/ Goto(s, "greeting", "in") \/ Goto(s, "greeting", "gone")
     \/ Goto(s, "sending", "in")
  /\ StopsSending(s)
  /\ UnlockMutex(me[s])
  /\ UNCHANGED <<sem_traders, Table, user, me, broadcast>>
-----------------------------------------------------------------------------
(* trader_increase_balance and the other three account operations. *)

AccountWait(s) ==
  /\ sem_traders = Nobody
  /\ sem_traders' = s
  /\ Goto(s, "in", "account")
  /\ UNCHANGED <<Table, mutex, user, me, broadcast, sending>>

AccountLock(s) ==
  /\ Goto(s, "account", "credit")
  /\ LockMutex(me[s], s)
  /\ UNCHANGED <<sem_traders, Table, user, me, broadcast, sending>>

(* Faulty: an operation that fails returns with sem_traders held. *)
AccountDone_early_return(s) ==
  /\ Goto(s, "credit", "in")
  /\ UnlockMutex(me[s])
  /\ sem_traders' \in {s, Nobody}
  /\ UNCHANGED <<Table, user, me, broadcast, sending>>

AccountDone(s) ==
  /\ Goto(s, "credit", "in")
  /\ UnlockMutex(me[s])
  /\ sem_traders' = Nobody
  /\ UNCHANGED <<Table, user, me, broadcast, sending>>
-----------------------------------------------------------------------------
(* trader_broadcast_packet: a loop over the table without sem_traders.     *)

BroadcastGoto(from, to) == bpc = from /\ bpc' = to

BroadcastBegin ==
  /\ BroadcastGoto("idle", "check")
  /\ at' = 1
  /\ UNCHANGED <<sem_traders, Table, mutex, Thread, sending>>

(* traders[i] != NULL && traders[i]->fd != -1, without any lock. *)
BroadcastCheck ==
  /\ bpc = "check" /\ at <= MAX_TRADERS
  /\ IF at <= rear /\ fd[at] # Nobody
       THEN bpc' = "lock" /\ UNCHANGED at
       ELSE at' = at + 1 /\ UNCHANGED bpc
  /\ UNCHANGED <<sem_traders, Table, mutex, Thread, sending>>

BroadcastEnd ==
  /\ BroadcastGoto("check", "idle")
  /\ at > MAX_TRADERS
  /\ at' = 0
  /\ UNCHANGED <<sem_traders, Table, mutex, Thread, sending>>

(* trader_send_packet locks the mutex and looks at the fd again. *)
BroadcastLock ==
  /\ BroadcastGoto("lock", "sending")
  /\ LockMutex(at, Broadcaster)
  /\ sending' = sending \cup Sends(Broadcaster, at)
  /\ UNCHANGED <<sem_traders, Table, Thread, at>>

(* A recursive mutex is not unlocked by a thread that does not own it. *)
BroadcastSent ==
  /\ BroadcastGoto("sending", "check")
  /\ StopsSending(Broadcaster)
  /\ IF mutex[at] = Broadcaster THEN UnlockMutex(at) ELSE UNCHANGED mutex
  /\ at' = at + 1
  /\ UNCHANGED <<sem_traders, Table, Thread>>
-----------------------------------------------------------------------------
(* trader_increase_balance and the like, of a trader with an order. *)

CreditWait(i) ==
  /\ BroadcastGoto("idle", "account")
  /\ sem_traders = Nobody /\ sem_traders' = Broadcaster
  /\ i \in ready /\ at' = i
  /\ UNCHANGED <<Table, mutex, Thread, sending>>

CreditLock ==
  /\ BroadcastGoto("account", "credit")
  /\ LockMutex(at, Broadcaster)
  /\ UNCHANGED <<sem_traders, Table, Thread, at, sending>>

CreditDone ==
  /\ BroadcastGoto("credit", "idle")
  /\ UnlockMutex(at)
  /\ sem_traders' = Nobody /\ at' = 0
  /\ UNCHANGED <<Table, Thread, sending>>
-----------------------------------------------------------------------------
(* What the client makes its thread do. *)
Request(s) ==
  \/ \E n \in Names : Login(s, n)
  \/ Disconnect(s)
  \/ AckLock(s) /\ pc[s] = "in"
  \/ AccountWait(s)

(* What a thread goes on to do once it has begun, as soon as it can. *)
SessionStep(s) ==
  \/ LoginRefused(s) \/ NackSend(s)
  \/ LoginPublish(s) \/ LoginFields(s) \/ LoginInit(s) \/ LoginRefs(s)
  \/ AckLock(s) /\ pc[s] = "greet"
  \/ AckSend(s)
  \/ AccountLock(s) \/ AccountDone(s)

BroadcastStep ==
  \/ BroadcastCheck \/ BroadcastEnd \/ BroadcastLock
  \/ CreditLock \/ CreditDone

(* A send ends when the client has read what was sent, or its connection   *)
(* is gone: nothing makes it end.                                          *)
SendEnds == BroadcastSent \/ \E s \in Sessions : NackDone(s) \/ AckDone(s)

Next ==
  \/ \E s \in Sessions : Request(s) \/ SessionStep(s)
  \/ BroadcastBegin \/ \E i \in Positions : CreditWait(i)
  \/ BroadcastStep
  \/ SendEnds

Spec == Init /\ [][Next]_vars

(* Threads run.  No client has to read or to ask for anything. *)
FairSpec ==
  /\ Spec
  /\ \A s \in Sessions : WF_vars(SessionStep(s))
  /\ WF_vars(BroadcastStep)
-----------------------------------------------------------------------------
(* PROPERTIES *)

LoggedIn == {"in", "ack", "sending", "account", "credit"}

(* A trader has one session: the trader of a session that is logged in has *)
(* that session's fd, so no two sessions have one trader; and two logins   *)
(* with one new name at the same time make one trader.  (A session may     *)
(* have had other traders before, which keep its fd.)                      *)
OneSessionPerTrader ==
  /\ \A s \in Sessions : pc[s] \in LoggedIn => fd[me[s]] = s
  /\ \A i, j \in ready : name[i] = name[j] => i = j

(* Accounts persist: a trader that is in the table stays at its place      *)
(* under its name, and a session that gets in works on the trader of the   *)
(* name it last asked for, also one that logs in for the second time.      *)
KeepsAccounts ==
  /\ \A i \in ready : i \in ready' /\ name'[i] = name[i]
  /\ \A s \in Sessions :
       pc[s] # "in" /\ pc'[s] = "in" => name'[me'[s]] = user[s]
AccountsPersist == [][KeepsAccounts]_vars

(* Who has sem_traders and waits for the mutex of trader i, and a thread   *)
(* that has the mutex while it writes to the client of that trader.        *)
WaitsFor(i) ==
  \/ \E s \in Sessions :
       sem_traders = s /\ pc[s] \in {"refs", "account"} /\ me[s] = i
  \/ sem_traders = Broadcaster /\ bpc = "account" /\ at = i
SendsWith(i) ==
  \/ \E s \in Sessions : mutex[i] = s /\ pc[s] \in {"greeting", "sending"}
  \/ mutex[i] = Broadcaster /\ bpc = "sending"

(* sem_traders is held for good only by a thread that waits for the mutex  *)
(* of one trader, because a client does not read what another thread sends *)
(* it under that mutex, or because others take the mutex whenever it is    *)
(* free.  No other client that does not read can do that.                  *)
SemReleased ==
  \/ []<>(sem_traders = Nobody)
  \/ \E i \in Positions :
       <>[]WaitsFor(i) /\ (<>[]SendsWith(i) \/ []<>(mutex[i] = Nobody))

(* "Multiple threads can safely call this function to send to the client,  *)
(* and these calls will be properly serialized" (trader.h:117-119): what   *)
(* the threads send to one client is mixed only while a broadcast uses a   *)
(* trader that it found in the table before its mutex was initialized, or  *)
(* one that the client's session has left, by another LOGIN, for another   *)
(* trader or for none.                                                     *)
KeepsOrder ==
  /\ \A p, q \in sending' : p[2] = q[2] /\ p[1] # q[1] =>
       /\ Broadcaster \in {p[1], q[1]}
       /\ \/ at' \notin ready' \/ mutex'[at'] # Broadcaster
          \/ me'[p[2]] # at'
  /\ \A i \in Positions :
       bpc = "sending" /\ mutex[i] = Broadcaster /\ mutex'[i] # Broadcaster =>
         bpc' = "check" \/ i \in ready' \ ready
SendsSerialized == [][KeepsOrder]_vars
=============================================================================
