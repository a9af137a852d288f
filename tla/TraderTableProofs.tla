-------------------------- MODULE TraderTableProofs --------------------------
(* The table of traders keeps one session per trader and one trader per    *)
(* name, and its mutexes serialize what is sent but for the named races,   *)
(* for any names, any number of sessions and any size of the table: Inv is *)
(* inductive.                                                              *)
EXTENDS TraderTable, TLAPS

AnyName == Names \cup {CHOOSE n \in Names : TRUE}
Points == {"out", "login", "nack", "nacking", "publish", "init", "refs", "greet",
           "hello", "greeting", "in", "ack", "sending", "account", "credit",
           "gone"}

TypeOK ==
  /\ sem_traders \in Sessions \cup {Broadcaster, Nobody}
  /\ rear \in 0..MAX_TRADERS /\ ready \subseteq 1..rear
  /\ name \in [Positions -> AnyName]
  /\ fd \in [Positions -> Sessions \cup {Nobody}]
  /\ mutex \in [Positions -> Sessions \cup {Broadcaster, Nobody}]
  /\ pc \in [Sessions -> Points]
  /\ user \in [Sessions -> AnyName]
  /\ me \in [Sessions -> 0..MAX_TRADERS]
  /\ bpc \in {"idle", "check", "lock", "sending", "account", "credit"}
  /\ at \in Nat
  /\ sending \subseteq (Sessions \cup {Broadcaster}) \X Sessions

(* The points at which a session holds sem_traders, those at which it has  *)
(* put a trader in the table and not finished it, those at which it holds  *)
(* the mutex of its trader, those at which it writes to its client, and    *)
(* those at which it has a trader.                                         *)
WithSem    == {"publish", "init", "refs", "account", "credit"}
Publishing == {"publish", "init"}
WithMutex  == {"hello", "greeting", "ack", "sending", "credit"}
Writing    == {"nacking", "greeting", "sending"}
Owning     == LoggedIn \cup {"refs", "greet", "hello", "greeting"}

SemInv ==
  /\ \A s \in Sessions : pc[s] \in WithSem <=> sem_traders = s
  /\ bpc \in {"account", "credit"} <=> sem_traders = Broadcaster

(* Every trader in the table is initialized but the one that the session   *)
(* in the middle of trader_login has put at the end.                       *)
ReadyInv ==
  ready = IF \E s \in Sessions : pc[s] \in Publishing THEN 1..rear - 1
                                                      ELSE 1..rear

(* Where the trader of a session is.  One that asks for another name, or   *)
(* whose client is gone, may still have one.                               *)
PlaceInv ==
  \A s \in Sessions :
    /\ pc[s] \in {"nack", "nacking"} => me[s] = 0
    /\ pc[s] \in Publishing => me[s] = rear /\ rear # 0
    /\ pc[s] \notin Publishing => me[s] \in ready \cup {0}
    /\ pc[s] \in Owning => me[s] \in ready

(* The trader of a session has its descriptor. *)
FdInv ==
  \A s \in Sessions :
    me[s] \in ready \/ pc[s] = "init" => fd[me[s]] = s

NameInv ==
  /\ \A i, j \in ready : name[i] = name[j] => i = j
  /\ \A s \in Sessions :
       /\ pc[s] \in Owning \cup {"init"} => name[me[s]] = user[s]
       /\ pc[s] \in Publishing => \A i \in ready : name[i] # user[s]

MutexInv ==
  /\ \A s \in Sessions : pc[s] \in WithMutex => mutex[me[s]] = s
  /\ \A i \in Positions : mutex[i] = Broadcaster =>
       bpc \in {"sending", "credit"} /\ at = i
  /\ bpc \in {"account", "credit"} => at \in ready
  /\ bpc = "credit" => mutex[at] = Broadcaster

(* A session writes to its own descriptor; the broadcast to the one that   *)
(* its trader still has, as long as the mutex it took of it protects it.   *)
SendInv ==
  /\ \A s \in Sessions, f \in Sessions :
       <<s, f>> \in sending => pc[s] \in Writing /\ f = s
  /\ bpc # "idle" => at # 0
  /\ bpc \in {"lock", "sending"} => at \in 1..rear
  /\ \A f \in Sessions : <<Broadcaster, f>> \in sending =>
       /\ bpc = "sending"
       /\ at \in ready /\ mutex[at] = Broadcaster => fd[at] = f

Inv ==
  /\ TypeOK
  /\ SemInv /\ ReadyInv /\ PlaceInv /\ FdInv /\ NameInv
  /\ MutexInv /\ SendInv
-----------------------------------------------------------------------------
(* What a session does, its sends that end included. *)
SessionAction(s) == Request(s) \/ SessionStep(s) \/ NackDone(s) \/ AckDone(s)

(* A session holds sem_traders exactly between its P and its V. *)
LEMMA SemStep ==
  ASSUME TypeOK, SemInv,
         NEW s \in Sessions, SessionAction(s)
  PROVE  SemInv'
<1> USE DEF TypeOK, Points, Goto, Table, Thread, WithSem, SemInv, broadcast
<1>1. ASSUME NEW n \in Names, Login(s, n)
      PROVE  SemInv'
  BY <1>1, ThreadAssumption DEF Login
<1>2. CASE LoginRefused(s)
  BY <1>2, ThreadAssumption DEF LoginRefused
<1>3. CASE NackSend(s)
  BY <1>3, ThreadAssumption DEF NackSend
<1>4. CASE NackDone(s)
  BY <1>4, ThreadAssumption DEF NackDone
<1>5. CASE LoginPublish(s)
  BY <1>5, ThreadAssumption DEF LoginPublish, Known
<1>6. CASE LoginFields(s)
  BY <1>6, ThreadAssumption DEF LoginFields
<1>7. CASE LoginInit(s)
  BY <1>7, ThreadAssumption DEF LoginInit
<1>8. CASE LoginRefs(s)
  BY <1>8, ThreadAssumption DEF LoginRefs
<1>9. CASE Disconnect(s)
  BY <1>9, ThreadAssumption DEF Disconnect
<1>10. CASE AckLock(s)
  BY <1>10, ThreadAssumption DEF AckLock
<1>11. CASE AckSend(s)
  BY <1>11, ThreadAssumption DEF AckSend
<1>12. CASE AckDone(s)
  BY <1>12, ThreadAssumption DEF AckDone
<1>13. CASE AccountWait(s)
  BY <1>13, ThreadAssumption DEF AccountWait
<1>14. CASE AccountLock(s)
  BY <1>14, ThreadAssumption DEF AccountLock
<1>15. CASE AccountDone(s)
  BY <1>15, ThreadAssumption DEF AccountDone
<1> QED
  BY <1>1, <1>2, <1>3, <1>4, <1>5, <1>6, <1>7, <1>8,
     <1>9, <1>10, <1>11, <1>12, <1>13, <1>14, <1>15
  DEF SessionAction, Request, SessionStep

(* Only the session with sem_traders adds a trader, and finishes it. *)
LEMMA ReadyStep ==
  ASSUME TypeOK, SemInv, ReadyInv, PlaceInv,
         NEW s \in Sessions, SessionAction(s)
  PROVE  ReadyInv'
<1> USE DEF TypeOK, Points, Goto, Table, Thread, WithSem, Publishing, SemInv,
           ReadyInv, PlaceInv
<1>1. ASSUME NEW n \in Names, Login(s, n)
      PROVE  ReadyInv'
  BY <1>1, ThreadAssumption, TableAssumption DEF Login
<1>2. CASE LoginRefused(s)
  BY <1>2, ThreadAssumption, TableAssumption DEF LoginRefused
<1>3. CASE NackSend(s)
  BY <1>3, ThreadAssumption, TableAssumption DEF NackSend
<1>4. CASE NackDone(s)
  BY <1>4, ThreadAssumption, TableAssumption DEF NackDone
<1>5. CASE LoginPublish(s)
  BY <1>5, ThreadAssumption, TableAssumption DEF LoginPublish, Known
<1>6. CASE LoginFields(s)
  BY <1>6, ThreadAssumption, TableAssumption DEF LoginFields
<1>7. CASE LoginInit(s)
  BY <1>7, ThreadAssumption, TableAssumption DEF LoginInit
<1>8. CASE LoginRefs(s)
  BY <1>8, ThreadAssumption, TableAssumption DEF LoginRefs
<1>9. CASE Disconnect(s)
  BY <1>9, ThreadAssumption, TableAssumption DEF Disconnect
<1>10. CASE AckLock(s)
  BY <1>10, ThreadAssumption, TableAssumption DEF AckLock
<1>11. CASE AckSend(s)
  BY <1>11, ThreadAssumption, TableAssumption DEF AckSend
<1>12. CASE AckDone(s)
  BY <1>12, ThreadAssumption, TableAssumption DEF AckDone
<1>13. CASE AccountWait(s)
  BY <1>13, ThreadAssumption, TableAssumption DEF AccountWait
<1>14. CASE AccountLock(s)
  BY <1>14, ThreadAssumption, TableAssumption DEF AccountLock
<1>15. CASE AccountDone(s)
  BY <1>15, ThreadAssumption, TableAssumption DEF AccountDone
<1> QED
  BY <1>1, <1>2, <1>3, <1>4, <1>5, <1>6, <1>7, <1>8,
     <1>9, <1>10, <1>11, <1>12, <1>13, <1>14, <1>15
  DEF SessionAction, Request, SessionStep

(* The trader of a session stays in the table. *)
LEMMA PlaceStep ==
  ASSUME TypeOK, SemInv, ReadyInv, PlaceInv,
         NEW s \in Sessions, SessionAction(s)
  PROVE  PlaceInv'
<1> USE DEF TypeOK, Points, Positions, Goto, Table, Thread, WithSem, Publishing,
           Owning, LoggedIn, SemInv, ReadyInv, PlaceInv
<1>1. ASSUME NEW n \in Names, Login(s, n)
      PROVE  PlaceInv'
  BY <1>1, ThreadAssumption, TableAssumption DEF Login
<1>2. CASE LoginRefused(s)
  BY <1>2, ThreadAssumption, TableAssumption DEF LoginRefused
<1>3. CASE NackSend(s)
  BY <1>3, ThreadAssumption, TableAssumption DEF NackSend
<1>4. CASE NackDone(s)
  BY <1>4, ThreadAssumption, TableAssumption DEF NackDone
<1>5. CASE LoginPublish(s)
  BY <1>5, ThreadAssumption, TableAssumption DEF LoginPublish, Known
<1>6. CASE LoginFields(s)
  BY <1>6, ThreadAssumption, TableAssumption DEF LoginFields
<1>7. CASE LoginInit(s)
  BY <1>7, ThreadAssumption, TableAssumption DEF LoginInit
<1>8. CASE LoginRefs(s)
  BY <1>8, ThreadAssumption, TableAssumption DEF LoginRefs
<1>9. CASE Disconnect(s)
  BY <1>9, ThreadAssumption, TableAssumption DEF Disconnect
<1>10. CASE AckLock(s)
  BY <1>10, ThreadAssumption, TableAssumption DEF AckLock
<1>11. CASE AckSend(s)
  BY <1>11, ThreadAssumption, TableAssumption DEF AckSend
<1>12. CASE AckDone(s)
  BY <1>12, ThreadAssumption, TableAssumption DEF AckDone
<1>13. CASE AccountWait(s)
  BY <1>13, ThreadAssumption, TableAssumption DEF AccountWait
<1>14. CASE AccountLock(s)
  BY <1>14, ThreadAssumption, TableAssumption DEF AccountLock
<1>15. CASE AccountDone(s)
  BY <1>15, ThreadAssumption, TableAssumption DEF AccountDone
<1> QED
  BY <1>1, <1>2, <1>3, <1>4, <1>5, <1>6, <1>7, <1>8,
     <1>9, <1>10, <1>11, <1>12, <1>13, <1>14, <1>15
  DEF SessionAction, Request, SessionStep

(* A descriptor is only written to a trader that is not yet ready. *)
LEMMA FdStep ==
  ASSUME TypeOK, SemInv, ReadyInv, PlaceInv, FdInv,
         NEW s \in Sessions, SessionAction(s)
  PROVE  FdInv'
<1> USE DEF TypeOK, Points, Positions, Goto, Table, Thread, WithSem, Publishing,
           Owning, LoggedIn, SemInv, ReadyInv, PlaceInv, FdInv
<1>1. ASSUME NEW n \in Names, Login(s, n)
      PROVE  FdInv'
  BY <1>1, ThreadAssumption, TableAssumption DEF Login
<1>2. CASE LoginRefused(s)
  BY <1>2, ThreadAssumption, TableAssumption DEF LoginRefused
<1>3. CASE NackSend(s)
  BY <1>3, ThreadAssumption, TableAssumption DEF NackSend
<1>4. CASE NackDone(s)
  BY <1>4, ThreadAssumption, TableAssumption DEF NackDone
<1>5. CASE LoginPublish(s)
  BY <1>5, ThreadAssumption, TableAssumption DEF LoginPublish, Known
<1>6. CASE LoginFields(s)
  BY <1>6, ThreadAssumption, TableAssumption DEF LoginFields
<1>7. CASE LoginInit(s)
  BY <1>7, ThreadAssumption, TableAssumption DEF LoginInit
<1>8. CASE LoginRefs(s)
  BY <1>8, ThreadAssumption, TableAssumption DEF LoginRefs
<1>9. CASE Disconnect(s)
  BY <1>9, ThreadAssumption, TableAssumption DEF Disconnect
<1>10. CASE AckLock(s)
  BY <1>10, ThreadAssumption, TableAssumption DEF AckLock
<1>11. CASE AckSend(s)
  BY <1>11, ThreadAssumption, TableAssumption DEF AckSend
<1>12. CASE AckDone(s)
  BY <1>12, ThreadAssumption, TableAssumption DEF AckDone
<1>13. CASE AccountWait(s)
  BY <1>13, ThreadAssumption, TableAssumption DEF AccountWait
<1>14. CASE AccountLock(s)
  BY <1>14, ThreadAssumption, TableAssumption DEF AccountLock
<1>15. CASE AccountDone(s)
  BY <1>15, ThreadAssumption, TableAssumption DEF AccountDone
<1> QED
  BY <1>1, <1>2, <1>3, <1>4, <1>5, <1>6, <1>7, <1>8,
     <1>9, <1>10, <1>11, <1>12, <1>13, <1>14, <1>15
  DEF SessionAction, Request, SessionStep

(* A new trader's name is not in the table: the search and the insertion   *)
(* are made under one lock.                                                *)
LEMMA NameStep ==
  ASSUME TypeOK, SemInv, ReadyInv, PlaceInv, NameInv,
         NEW s \in Sessions, SessionAction(s)
  PROVE  NameInv'
<1> USE DEF TypeOK, Points, Positions, Goto, Table, Thread, WithSem, Publishing,
           Owning, LoggedIn, SemInv, ReadyInv, PlaceInv, NameInv
<1>1. ASSUME NEW n \in Names, Login(s, n)
      PROVE  NameInv'
  BY <1>1, ThreadAssumption, TableAssumption DEF Login
<1>2. CASE LoginRefused(s)
  BY <1>2, ThreadAssumption, TableAssumption DEF LoginRefused
<1>3. CASE NackSend(s)
  BY <1>3, ThreadAssumption, TableAssumption DEF NackSend
<1>4. CASE NackDone(s)
  BY <1>4, ThreadAssumption, TableAssumption DEF NackDone
<1>5. CASE LoginPublish(s)
  <2>1. \A i \in ready : name[i] # user[s]
    BY <1>5, TableAssumption DEF LoginPublish, Known
  <2> QED
    BY <1>5, <2>1, ThreadAssumption, TableAssumption DEF LoginPublish
<1>6. CASE LoginFields(s)
  <2>0. pc[s] = "publish" /\ pc' = [pc EXCEPT ![s] = "init"]
    BY ONLY <1>6 DEF LoginFields, Goto
  <2>7. me[s] = rear /\ rear \in Positions
    BY <2>0, TableAssumption
  <2>8. rear \notin ready
    BY <2>0, <2>7
  <2>9. name' = [name EXCEPT ![rear] = user[s]] /\ UNCHANGED <<ready, me, user>>
    BY <1>6, <2>7 DEF LoginFields
  <2>1. /\ pc[s] = "publish" /\ pc' = [pc EXCEPT ![s] = "init"]
        /\ me[s] = rear /\ rear \in Positions /\ rear \notin ready
        /\ name' = [name EXCEPT ![rear] = user[s]]
        /\ UNCHANGED <<ready, me, user>>
    BY <2>0, <2>7, <2>8, <2>9
  <2>2. \A i \in ready : name'[i] = name[i]
    BY <2>1
  <2>3. \A t \in Sessions : t # s => pc'[t] \notin Publishing
    BY <2>1, ThreadAssumption
  <2>4. \A t \in Sessions : pc'[t] \in Owning => t # s /\ me[t] \in ready
    BY <2>1
  <2>5. \A t \in Sessions : t # s => pc'[t] = pc[t]
    BY <2>1
  <2>6. name'[rear] = user[s] /\ pc'[s] = "init"
    BY <2>1
  <2> HIDE DEF SemInv, ReadyInv, PlaceInv
  <2> QED
    BY <2>1, <2>2, <2>3, <2>4, <2>5, <2>6
<1>7. CASE LoginInit(s)
  BY <1>7, ThreadAssumption, TableAssumption DEF LoginInit
<1>8. CASE LoginRefs(s)
  BY <1>8, ThreadAssumption, TableAssumption DEF LoginRefs
<1>9. CASE Disconnect(s)
  BY <1>9, ThreadAssumption, TableAssumption DEF Disconnect
<1>10. CASE AckLock(s)
  BY <1>10, ThreadAssumption, TableAssumption DEF AckLock
<1>11. CASE AckSend(s)
  BY <1>11, ThreadAssumption, TableAssumption DEF AckSend
<1>12. CASE AckDone(s)
  BY <1>12, ThreadAssumption, TableAssumption DEF AckDone
<1>13. CASE AccountWait(s)
  BY <1>13, ThreadAssumption, TableAssumption DEF AccountWait
<1>14. CASE AccountLock(s)
  BY <1>14, ThreadAssumption, TableAssumption DEF AccountLock
<1>15. CASE AccountDone(s)
  BY <1>15, ThreadAssumption, TableAssumption DEF AccountDone
<1> QED
  BY <1>1, <1>2, <1>3, <1>4, <1>5, <1>6, <1>7, <1>8,
     <1>9, <1>10, <1>11, <1>12, <1>13, <1>14, <1>15
  DEF SessionAction, Request, SessionStep

(* The mutex of a trader is released by the thread that has it, except by  *)
(* the initialization of a trader no other session knows.                  *)
LEMMA MutexStep ==
  ASSUME TypeOK, SemInv, ReadyInv, PlaceInv, FdInv, MutexInv,
         NEW s \in Sessions, SessionAction(s)
  PROVE  MutexInv'
<1> USE DEF TypeOK, Points, Positions, Goto, Table, Thread, WithSem, Publishing,
           Owning, LoggedIn, SemInv, ReadyInv, PlaceInv,
           FdInv, MutexInv, broadcast, LockMutex, UnlockMutex, WithMutex
<1>1. ASSUME NEW n \in Names, Login(s, n)
      PROVE  MutexInv'
  BY <1>1, ThreadAssumption, TableAssumption DEF Login
<1>2. CASE LoginRefused(s)
  BY <1>2, ThreadAssumption, TableAssumption DEF LoginRefused
<1>3. CASE NackSend(s)
  BY <1>3, ThreadAssumption, TableAssumption DEF NackSend
<1>4. CASE NackDone(s)
  BY <1>4, ThreadAssumption, TableAssumption DEF NackDone
<1>5. CASE LoginPublish(s)
  BY <1>5, ThreadAssumption, TableAssumption DEF LoginPublish, Known
<1>6. CASE LoginFields(s)
  BY <1>6, ThreadAssumption, TableAssumption DEF LoginFields
<1>7. CASE LoginInit(s)
  BY <1>7, ThreadAssumption, TableAssumption DEF LoginInit
<1>8. CASE LoginRefs(s)
  BY <1>8, ThreadAssumption, TableAssumption DEF LoginRefs
<1>9. CASE Disconnect(s)
  BY <1>9, ThreadAssumption, TableAssumption DEF Disconnect
<1>10. CASE AckLock(s)
  BY <1>10, ThreadAssumption, TableAssumption DEF AckLock
<1>11. CASE AckSend(s)
  BY <1>11, ThreadAssumption, TableAssumption DEF AckSend
<1>12. CASE AckDone(s)
  BY <1>12, ThreadAssumption, TableAssumption DEF AckDone
<1>13. CASE AccountWait(s)
  BY <1>13, ThreadAssumption, TableAssumption DEF AccountWait
<1>14. CASE AccountLock(s)
  BY <1>14, ThreadAssumption, TableAssumption DEF AccountLock
<1>15. CASE AccountDone(s)
  BY <1>15, ThreadAssumption, TableAssumption DEF AccountDone
<1> QED
  BY <1>1, <1>2, <1>3, <1>4, <1>5, <1>6, <1>7, <1>8,
     <1>9, <1>10, <1>11, <1>12, <1>13, <1>14, <1>15
  DEF SessionAction, Request, SessionStep

(* No session changes a descriptor that a broadcast writes to under the    *)
(* trader's mutex.                                                         *)
LEMMA SendStep ==
  ASSUME TypeOK, SemInv, ReadyInv, PlaceInv, FdInv, MutexInv, SendInv,
         NEW s \in Sessions, SessionAction(s)
  PROVE  SendInv'
<1> USE DEF TypeOK, Points, Positions, Goto, Table, Thread, WithSem, Publishing,
           Owning, LoggedIn, SemInv, ReadyInv, PlaceInv,
           FdInv, MutexInv, SendInv, broadcast, LockMutex, UnlockMutex, WithMutex,
           Writing, Sends, StopsSending
<1>1. ASSUME NEW n \in Names, Login(s, n)
      PROVE  SendInv'
  <2>1. /\ UNCHANGED <<sending, bpc, at, rear, ready, fd, mutex>>
        /\ pc[s] \notin Writing /\ \A t \in Sessions : t # s => pc'[t] = pc[t]
    BY <1>1 DEF Login
  <2> HIDE DEF Writing, PlaceInv, ReadyInv, FdInv, MutexInv
  <2> QED
    BY <2>1
<1>2. CASE LoginRefused(s)
  BY <1>2, ThreadAssumption, TableAssumption DEF LoginRefused
<1>3. CASE NackSend(s)
  BY <1>3, ThreadAssumption, TableAssumption DEF NackSend
<1>4. CASE NackDone(s)
  BY <1>4, ThreadAssumption, TableAssumption DEF NackDone
<1>5. CASE LoginPublish(s)
  BY <1>5, ThreadAssumption, TableAssumption DEF LoginPublish, Known
<1>6. CASE LoginFields(s)
  BY <1>6, ThreadAssumption, TableAssumption DEF LoginFields
<1>7. CASE LoginInit(s)
  BY <1>7, ThreadAssumption, TableAssumption DEF LoginInit
<1>8. CASE LoginRefs(s)
  BY <1>8, ThreadAssumption, TableAssumption DEF LoginRefs
<1>9. CASE Disconnect(s)
  BY <1>9, ThreadAssumption, TableAssumption DEF Disconnect
<1>10. CASE AckLock(s)
  BY <1>10, ThreadAssumption, TableAssumption DEF AckLock
<1>11. CASE AckSend(s)
  BY <1>11, ThreadAssumption, TableAssumption DEF AckSend
<1>12. CASE AckDone(s)
  BY <1>12, ThreadAssumption, TableAssumption DEF AckDone
<1>13. CASE AccountWait(s)
  BY <1>13, ThreadAssumption, TableAssumption DEF AccountWait
<1>14. CASE AccountLock(s)
  BY <1>14, ThreadAssumption, TableAssumption DEF AccountLock
<1>15. CASE AccountDone(s)
  BY <1>15, ThreadAssumption, TableAssumption DEF AccountDone
<1> QED
  BY <1>1, <1>2, <1>3, <1>4, <1>5, <1>6, <1>7, <1>8,
     <1>9, <1>10, <1>11, <1>12, <1>13, <1>14, <1>15
  DEF SessionAction, Request, SessionStep

(* Every variable keeps its type. *)
LEMMA TypeStep ==
  ASSUME TypeOK, SemInv, ReadyInv, PlaceInv, FdInv,
         NEW s \in Sessions, SessionAction(s)
  PROVE  TypeOK'
<1>1. ASSUME NEW n \in Names, Login(s, n)
      PROVE  TypeOK'
  <2>1. pc' \in [Sessions -> Points]
    BY <1>1 DEF Login, TypeOK, Goto, Points
  <2>2. user' \in [Sessions -> AnyName]
    BY <1>1, ThreadAssumption, TableAssumption
    DEF Login, TypeOK, Positions, LockMutex, UnlockMutex, PlaceInv, Owning,
        LoggedIn, Points, Goto, Sends, StopsSending, AnyName
  <2> QED
    BY <1>1, <2>1, <2>2 DEF Login, TypeOK, Table, Thread, broadcast
<1>2. CASE LoginRefused(s)
  BY <1>2, ThreadAssumption, TableAssumption
  DEF LoginRefused, TypeOK, Points, Positions, Goto, Table, Thread, Publishing, PlaceInv,
      AnyName, broadcast, LockMutex, UnlockMutex, StopsSending
<1>3. CASE NackSend(s)
  BY <1>3, ThreadAssumption, TableAssumption
  DEF NackSend, TypeOK, Points, Positions, Goto, Table, Thread, Publishing, PlaceInv,
      AnyName, broadcast, LockMutex, UnlockMutex, StopsSending
<1>4. CASE NackDone(s)
  BY <1>4, ThreadAssumption, TableAssumption
  DEF NackDone, TypeOK, Points, Positions, Goto, Table, Thread, Publishing, PlaceInv,
      AnyName, broadcast, LockMutex, UnlockMutex, StopsSending
<1>5. CASE LoginPublish(s)
  BY <1>5, ThreadAssumption, TableAssumption
  DEF LoginPublish, TypeOK, Points, Positions, Goto, Table, Thread, Publishing, PlaceInv,
      AnyName, broadcast, LockMutex, UnlockMutex, StopsSending
<1>6. CASE LoginFields(s)
  BY <1>6, ThreadAssumption, TableAssumption
  DEF LoginFields, TypeOK, Points, Positions, Goto, Table, Thread, Publishing, PlaceInv,
      AnyName, broadcast, LockMutex, UnlockMutex, StopsSending
<1>7. CASE LoginInit(s)
  <2>1. me[s] = rear /\ rear # 0
    BY <1>7 DEF LoginInit, PlaceInv, Publishing, Goto
  <2>2. ready' \subseteq 1..rear
    BY <1>7, <2>1, TableAssumption DEF LoginInit, TypeOK
  <2> QED
    BY <1>7, <2>2, ThreadAssumption
    DEF LoginInit, TypeOK, Points, Goto, Table, Thread, broadcast, UnlockMutex
<1>8. CASE LoginRefs(s)
  BY <1>8, ThreadAssumption, TableAssumption
  DEF LoginRefs, TypeOK, Points, Positions, Goto, Table, Thread, Publishing, PlaceInv,
      AnyName, broadcast, LockMutex, UnlockMutex, StopsSending
<1>9. CASE Disconnect(s)
  <2>1. pc' \in [Sessions -> Points]
    BY <1>9 DEF Disconnect, TypeOK, Goto, Points
  <2>2. TRUE
    BY <1>9, ThreadAssumption, TableAssumption
    DEF Disconnect, TypeOK, Positions, LockMutex, UnlockMutex, PlaceInv, Owning,
        LoggedIn, Points, Goto, Sends, StopsSending, AnyName
  <2> QED
    BY <1>9, <2>1, <2>2 DEF Disconnect, TypeOK, Table, Thread, broadcast
<1>10. CASE AckLock(s)
  BY <1>10, ThreadAssumption, TableAssumption
  DEF AckLock, TypeOK, Points, Positions, Goto, Table, Thread, Publishing, PlaceInv,
      AnyName, broadcast, LockMutex, UnlockMutex, StopsSending
<1>11. CASE AckSend(s)
  <2>1. pc' \in [Sessions -> Points]
    BY <1>11 DEF AckSend, TypeOK, Goto, Points
  <2>2. sending' \subseteq (Sessions \cup {Broadcaster}) \X Sessions
    BY <1>11, ThreadAssumption, TableAssumption
    DEF AckSend, TypeOK, Positions, LockMutex, UnlockMutex, PlaceInv, Owning,
        LoggedIn, Points, Goto, Sends, StopsSending, AnyName
  <2> QED
    BY <1>11, <2>1, <2>2 DEF AckSend, TypeOK, Table, Thread, broadcast
<1>12. CASE AckDone(s)
  <2>1. pc' \in [Sessions -> Points]
    BY <1>12 DEF AckDone, TypeOK, Goto, Points
  <2>2. /\ mutex' \in [Positions -> Sessions \cup {Broadcaster, Nobody}]
        /\ sending' \subseteq (Sessions \cup {Broadcaster}) \X Sessions
    BY <1>12, ThreadAssumption, TableAssumption
    DEF AckDone, TypeOK, Positions, LockMutex, UnlockMutex, PlaceInv, Owning,
        LoggedIn, Points, Goto, Sends, StopsSending, AnyName
  <2> QED
    BY <1>12, <2>1, <2>2 DEF AckDone, TypeOK, Table, Thread, broadcast
<1>13. CASE AccountWait(s)
  BY <1>13, ThreadAssumption, TableAssumption
  DEF AccountWait, TypeOK, Points, Positions, Goto, Table, Thread, Publishing, PlaceInv,
      AnyName, broadcast, LockMutex, UnlockMutex, StopsSending
<1>14. CASE AccountLock(s)
  BY <1>14, ThreadAssumption, TableAssumption
  DEF AccountLock, TypeOK, Points, Positions, Goto, Table, Thread, Publishing, PlaceInv,
      AnyName, broadcast, LockMutex, UnlockMutex, StopsSending
<1>15. CASE AccountDone(s)
  BY <1>15, ThreadAssumption, TableAssumption
  DEF AccountDone, TypeOK, Points, Positions, Goto, Table, Thread, Publishing, PlaceInv,
      AnyName, broadcast, LockMutex, UnlockMutex, StopsSending
<1> QED
  BY <1>1, <1>2, <1>3, <1>4, <1>5, <1>6, <1>7, <1>8,
     <1>9, <1>10, <1>11, <1>12, <1>13, <1>14, <1>15
  DEF SessionAction, Request, SessionStep

BroadcastAction ==
  \/ BroadcastBegin \/ BroadcastStep \/ BroadcastSent
  \/ \E i \in Positions : CreditWait(i)

(* The thread with the exchange changes no field and no session. *)
LEMMA BroadcastFrame ==
  ASSUME BroadcastAction
  PROVE  UNCHANGED <<Table, Thread>>
BY DEF BroadcastAction, BroadcastBegin, BroadcastStep, BroadcastCheck, BroadcastEnd,
       BroadcastLock, BroadcastSent, CreditWait, CreditLock, CreditDone, Table,
       Thread

(* It locks a lock that is free and unlocks only one it has. *)
LEMMA BroadcastKeeps ==
  ASSUME TypeOK, SemInv, ReadyInv, PlaceInv, MutexInv, SendInv,
         BroadcastAction
  PROVE  TypeOK' /\ SemInv' /\ MutexInv' /\ SendInv'
<1> USE DEF TypeOK, AnyName, Points, Positions, Table, Thread, BroadcastGoto,
            LockMutex, UnlockMutex, PlaceInv, MutexInv, SendInv, WithMutex,
            LoggedIn, Owning, Sends, StopsSending, BroadcastAction
<1>0. /\ Broadcaster \notin Sessions /\ Nobody \notin Sessions
      /\ Nobody # Broadcaster /\ MAX_TRADERS \in Nat
  BY ThreadAssumption, TableAssumption
<1>s. ASSUME bpc' \notin {"account", "credit"}, bpc \notin {"account", "credit"},
             UNCHANGED <<sem_traders, Thread>>
      PROVE  SemInv'
  BY <1>s DEF SemInv
<1>1. CASE BroadcastBegin
  BY <1>0, <1>1, <1>s DEF BroadcastBegin
<1>2. CASE BroadcastCheck
  <2>1. UNCHANGED <<sem_traders, Table, Thread, mutex, sending>> /\ bpc = "check"
    BY <1>2 DEF BroadcastCheck
  <2>2. /\ at' \in Nat /\ bpc' \in {"check", "lock"}
        /\ at' # 0
        /\ bpc' = "lock" => at' \in 1..rear
    BY <1>0, <1>2 DEF BroadcastCheck
  <2>3. TypeOK'
    BY <1>0, <2>1, <2>2
  <2>4. MutexInv'
    BY <2>1, <2>2
  <2>5. UNCHANGED <<rear, pc, sending>>
    BY <2>1
  <2>6. \A f \in Sessions : <<Broadcaster, f>> \notin sending
    BY <2>1
  <2>7. SendInv'
    BY <2>2, <2>5, <2>6
  <2>8. SemInv'
    BY <1>s, <2>1, <2>2
  <2> QED
    BY <2>3, <2>4, <2>7, <2>8
<1>3. CASE BroadcastEnd
  BY <1>0, <1>3, <1>s DEF BroadcastEnd
<1>4. CASE BroadcastLock
  <2>1. TypeOK'
    <3>1. sending' \subseteq (Sessions \cup {Broadcaster}) \X Sessions
      <4>1. at \in Positions
        BY <1>0, <1>4 DEF BroadcastLock
      <4> QED
        BY <1>4, <4>1 DEF BroadcastLock
    <3>2. mutex' \in [Positions -> Sessions \cup {Broadcaster, Nobody}]
      BY <1>4 DEF BroadcastLock
    <3>3. bpc' = "sending" /\ UNCHANGED <<sem_traders, Table, Thread, at>>
      BY <1>4 DEF BroadcastLock
    <3> QED
      BY <3>1, <3>2, <3>3
  <2>2. MutexInv'
    BY <1>0, <1>4 DEF BroadcastLock
  <2>3. SendInv'
    BY <1>0, <1>4 DEF BroadcastLock
  <2>4. SemInv'
    BY <1>s, <1>4 DEF BroadcastLock
  <2> QED
    BY <2>1, <2>2, <2>3, <2>4
<1>5. CASE BroadcastSent
  <2>1. TypeOK'
    BY <1>0, <1>5 DEF BroadcastSent
  <2>2. MutexInv'
    <3>1. /\ UNCHANGED <<pc, me>>
          /\ \A i \in Positions : mutex[i] # Broadcaster => mutex'[i] = mutex[i]
          /\ \A i \in Positions : mutex'[i] # Broadcaster
      BY <1>0, <1>5 DEF BroadcastSent
    <3>3. bpc' = "check"
      BY <1>5 DEF BroadcastSent
    <3>2. \A s \in Sessions : pc[s] \in WithMutex => me[s] \in Positions
      BY <1>0
    <3> QED
      BY <1>0, <3>1, <3>2, <3>3
  <2>3. SendInv'
    BY <1>0, <1>5 DEF BroadcastSent
  <2>4. SemInv'
    BY <1>s, <1>5 DEF BroadcastSent
  <2> QED
    BY <2>1, <2>2, <2>3, <2>4
<1>6. CASE \E i \in Positions : CreditWait(i)
  <2>1. PICK i \in Positions : CreditWait(i)
    BY <1>6
  <2>2. TypeOK'
    BY <1>0, <2>1 DEF CreditWait
  <2>3. SemInv'
    BY <1>0, <2>1 DEF CreditWait, SemInv
  <2>4. MutexInv' /\ SendInv'
    BY <1>0, <2>1 DEF CreditWait
  <2> QED
    BY <2>2, <2>3, <2>4
<1>7. CASE CreditLock
  <2>1. TypeOK'
    BY <1>0, <1>7 DEF CreditLock
  <2>2. SemInv'
    BY <1>0, <1>7 DEF CreditLock, SemInv
  <2>3. MutexInv' /\ SendInv'
    BY <1>0, <1>7 DEF CreditLock
  <2> QED
    BY <2>1, <2>2, <2>3
<1>8. CASE CreditDone
  <2>1. TypeOK'
    BY <1>0, <1>8 DEF CreditDone
  <2>2. SemInv'
    BY <1>0, <1>8 DEF CreditDone, SemInv
  <2>3. MutexInv'
    <3>0. /\ UNCHANGED <<pc, me>> /\ bpc = "credit"
          /\ mutex' = [mutex EXCEPT ![at] = Nobody]
      BY <1>8 DEF CreditDone
    <3>3. mutex[at] = Broadcaster
      BY <3>0
    <3>1. /\ UNCHANGED <<pc, me>>
          /\ \A i \in Positions : mutex[i] # Broadcaster => mutex'[i] = mutex[i]
          /\ \A i \in Positions : mutex'[i] # Broadcaster
      BY <1>0, <3>0, <3>3
    <3>2. \A s \in Sessions : pc[s] \in WithMutex => me[s] \in Positions
      BY <1>0
    <3>4. bpc' = "idle"
      BY <1>8 DEF CreditDone
    <3> QED
      BY <1>0, <3>1, <3>2, <3>4
  <2>4. SendInv'
    BY <1>0, <1>8 DEF CreditDone
  <2> QED
    BY <2>1, <2>2, <2>3, <2>4
<1> QED
  BY <1>1, <1>2, <1>3, <1>4, <1>5, <1>6, <1>7, <1>8
  DEF BroadcastAction, BroadcastStep

(* In every reachable state the table, the sessions and the locks agree.   *)
THEOREM Invariance == Spec => []Inv
<1>1. Init => Inv
  <2> SUFFICES ASSUME Init PROVE Inv
    OBVIOUS
  <2>1. TypeOK /\ SemInv /\ PlaceInv /\ FdInv /\ NameInv /\ MutexInv /\ SendInv
    BY ThreadAssumption, TableAssumption
    DEF Init, TypeOK, AnyName, Points, Positions, SemInv, PlaceInv, FdInv,
        NameInv, MutexInv, SendInv, WithSem, Publishing, WithMutex, Owning,
        LoggedIn, Writing
  <2>2. ReadyInv
    BY DEF Init, ReadyInv, Publishing
  <2> QED
    BY <2>1, <2>2 DEF Inv
<1>2. Inv /\ [Next]_vars => Inv'
  <2> SUFFICES ASSUME Inv, [Next]_vars PROVE Inv'
    OBVIOUS
  <2> USE DEF Inv
  <2>1. ASSUME NEW s \in Sessions, SessionAction(s)
        PROVE  Inv'
    BY <2>1, TypeStep, SemStep, ReadyStep, PlaceStep, FdStep, NameStep,
       MutexStep, SendStep
  <2>2. CASE BroadcastAction
    <3>1. UNCHANGED <<Table, Thread>>
      BY <2>2, BroadcastFrame
    <3>2. TypeOK' /\ SemInv' /\ MutexInv' /\ SendInv'
      BY <2>2, BroadcastKeeps
    <3>3. ReadyInv' /\ PlaceInv' /\ FdInv' /\ NameInv'
      BY <3>1 DEF Table, Thread, ReadyInv, PlaceInv, FdInv, NameInv
    <3> QED
      BY <3>2, <3>3
  <2>3. CASE UNCHANGED vars
    <3>1. UNCHANGED <<sem_traders, Table, Thread, mutex, broadcast, sending>>
      BY <2>3 DEF vars
    <3>2. TypeOK' /\ MutexInv' /\ SendInv'
      BY <3>1 DEF Table, Thread, broadcast, TypeOK, MutexInv, SendInv
    <3>3. SemInv' /\ ReadyInv' /\ PlaceInv' /\ FdInv' /\ NameInv'
      BY <3>1 DEF Table, Thread, broadcast, SemInv, ReadyInv, PlaceInv, FdInv,
                  NameInv
    <3> QED
      BY <3>2, <3>3
  <2> QED
    BY <2>1, <2>2, <2>3 DEF Next, SendEnds, SessionAction, BroadcastAction
<1> QED
  BY <1>1, <1>2, PTL DEF Spec

(* "A trader has one session at a time" whatever the threads' order, also  *)
(* when sessions log in again under other names.                           *)
THEOREM SingleSession == Spec => []OneSessionPerTrader
<1>1. Inv => OneSessionPerTrader
  BY DEF Inv, PlaceInv, FdInv, NameInv, OneSessionPerTrader, Owning
<1> QED
  BY <1>1, Invariance, PTL

(* Accounts persist: initialized traders keep their place and name, and a  *)
(* session that gets in has the trader of the name it last asked for.      *)
THEOREM Persistence == Spec => AccountsPersist
<1>1. Inv /\ Inv' /\ [Next]_vars => [KeepsAccounts]_vars
  <2> SUFFICES ASSUME Inv, Inv', Next PROVE KeepsAccounts
    BY DEF Inv
  <2>1. ASSUME NEW s \in Sessions, SessionAction(s)
        PROVE  /\ ready \subseteq ready'
               /\ \A i \in ready : name'[i] = name[i]
               /\ \A t \in Sessions :
                    pc[t] # "in" /\ pc'[t] = "in" => user'[t] = user[t]
    <3> USE DEF Inv, TypeOK, ReadyInv, PlaceInv, Goto, Table, Thread, Points,
                Positions, Publishing
    <3>1. CASE Request(s)
      BY <3>1 DEF Request, Login, Disconnect, AckLock, AccountWait
    <3>2. CASE LoginFields(s)
      BY <3>2, TableAssumption DEF LoginFields
    <3>3. CASE SessionStep(s) /\ ~ LoginFields(s)
      BY <3>3 DEF SessionStep, LoginRefused, NackSend, LoginPublish, LoginInit,
                  LoginRefs, AckLock, AckSend, AccountLock, AccountDone
    <3>4. CASE NackDone(s) \/ AckDone(s)
      BY <3>4 DEF NackDone, AckDone
    <3> QED
      BY <2>1, <3>1, <3>2, <3>3, <3>4 DEF SessionAction
  <2>2. CASE BroadcastAction
    BY <2>2, BroadcastFrame DEF Table, Thread, KeepsAccounts
  <2>3. ASSUME NEW s \in Sessions, SessionAction(s)
        PROVE  KeepsAccounts
    <3>1. \A t \in Sessions : pc'[t] = "in" => name'[me'[t]] = user'[t]
      BY DEF Inv, NameInv, Owning, LoggedIn
    <3> QED
      BY <2>1, <2>3, <3>1 DEF KeepsAccounts
  <2> QED
    BY <2>2, <2>3 DEF Next, SendEnds, SessionAction, BroadcastAction
<1> QED
  BY <1>1, Invariance, PTL DEF Spec, AccountsPersist

(* Sends to one client are serialized, but for a broadcast that uses a     *)
(* trader before it is initialized, or one that the session of the client  *)
(* has left.                                                               *)
THEOREM Serialization == Spec => SendsSerialized
<1> DEFINE Mix ==
      \A p, q \in sending : p[2] = q[2] /\ p[1] # q[1] =>
        /\ Broadcaster \in {p[1], q[1]}
        /\ \/ at \notin ready \/ mutex[at] # Broadcaster
           \/ me[p[2]] # at
<1>1. Inv => Mix
  <2> SUFFICES ASSUME Inv, NEW p \in sending, NEW q \in sending,
                      p[2] = q[2], p[1] # q[1]
               PROVE  /\ Broadcaster \in {p[1], q[1]}
                      /\ \/ at \notin ready \/ mutex[at] # Broadcaster
                         \/ me[p[2]] # at
    OBVIOUS
  <2>1. /\ p = <<p[1], p[2]>> /\ q = <<q[1], q[2]>>
        /\ p[1] \in Sessions \cup {Broadcaster} /\ p[2] \in Sessions
        /\ q[1] \in Sessions \cup {Broadcaster}
    BY DEF Inv, TypeOK
  <2>2. Broadcaster \in {p[1], q[1]}
    BY <2>1 DEF Inv, SendInv
  <2>3. PICK s \in Sessions : /\ p[2] = s
                              /\ <<s, s>> \in sending
    BY <2>1, <2>2 DEF Inv, SendInv
  <2>4. /\ pc[s] = "nacking" => me[s] = 0
        /\ pc[s] # "nacking" => mutex[me[s]] = s
    BY <2>3 DEF Inv, SendInv, MutexInv, WithMutex, Writing, PlaceInv
  <2>5. 0 \notin ready
    BY DEF Inv, TypeOK
  <2> QED
    BY <2>2, <2>3, <2>4, <2>5, ThreadAssumption
<1>2. ASSUME Inv, Next
      PROVE  \A i \in Positions :
               bpc = "sending" /\ mutex[i] = Broadcaster
               /\ mutex'[i] # Broadcaster =>
                 bpc' = "check" \/ i \in ready' \ ready
  <2> USE DEF Inv, TypeOK, Positions, MutexInv, WithMutex, Goto, Table, Thread,
              LockMutex, UnlockMutex
  <2>1. ASSUME NEW s \in Sessions, Request(s)
        PROVE  \A i \in Positions : mutex[i] = Broadcaster => mutex'[i] = Broadcaster
    BY <1>2, <2>1, ThreadAssumption
    DEF Request, Login, Disconnect, AckLock, AccountWait
  <2>2. ASSUME NEW s \in Sessions, LoginInit(s)
        PROVE  \A i \in Positions :
                 mutex[i] = Broadcaster /\ mutex'[i] # Broadcaster =>
                   i \in ready' \ ready
    BY <1>2, <2>2 DEF LoginInit, ReadyInv, PlaceInv, Publishing
  <2>3. ASSUME NEW s \in Sessions, SessionStep(s), ~ LoginInit(s)
        PROVE  \A i \in Positions : mutex[i] = Broadcaster => mutex'[i] = Broadcaster
    BY <1>2, <2>3, ThreadAssumption
    DEF SessionStep, LoginRefused, NackSend, LoginPublish, LoginFields,
        LoginRefs, AckLock, AckSend, AccountLock, AccountDone
  <2>4. ASSUME NEW s \in Sessions, NackDone(s) \/ AckDone(s)
        PROVE  \A i \in Positions : mutex[i] = Broadcaster => mutex'[i] = Broadcaster
    BY <1>2, <2>4, ThreadAssumption DEF NackDone, AckDone
  <2>5. CASE BroadcastAction
    BY <1>2, <2>5, ThreadAssumption
    DEF BroadcastAction, BroadcastBegin, BroadcastStep, BroadcastCheck,
        BroadcastEnd, BroadcastLock, BroadcastSent, CreditWait, CreditLock,
        CreditDone, BroadcastGoto
  <2> QED
    BY <1>2, <2>1, <2>2, <2>3, <2>4, <2>5 DEF Next, SendEnds, BroadcastAction
<1>3. Inv' => Mix'
  BY <1>1, PTL
<1>4. Inv /\ Inv' /\ [Next]_vars => [KeepsOrder]_vars
  BY <1>2, <1>3 DEF KeepsOrder
<1> QED
  BY <1>4, Invariance, PTL DEF Spec, SendsSerialized

=============================================================================
