------------------------ MODULE ClientRegistryProofs ------------------------
(* The semaphores of the client registry agree with its table, and SIGHUP  *)
(* reaches every client registered when it arrives, for any clients and    *)
(* any number of slots: Inv is inductive.                                  *)
EXTENDS ClientRegistry, SetLemmas

Points == {"away", "starting", "entering"} \cup Registered \cup Departed
Stages == {"accept", "scan", "shutdown", "zero", "waiting", "creg_fini",
           "exchange_fini", "exited"}

TypeOK ==
  /\ buf \in [1..Slots -> Clients \cup {Empty}]
  /\ pc \in [Clients -> Points]
  /\ main \in Stages
  /\ at \in 1..Slots + 1
  /\ main = "accept" => at = 1
  /\ main \in {"shutdown", "zero"} => at <= Slots
  /\ shut \subseteq Clients /\ present \subseteq Clients
  /\ slots \in Nat /\ connect \in Int /\ items \in Int

ThreadsAt(points) == {c \in Clients : pc[c] \in points}

(* The points between P(slots) and V(slots), and between V(items) and      *)
(* P(items).                                                               *)
WithSlot == {"entering", "removed", "freeing"} \cup Registered
WithItem == {"serving", "leaving"}

(* The semaphores and the count of clients, as numbers of threads.         *)
CountInv ==
  /\ IsFiniteSet(ThreadsAt(WithSlot))
  /\ IsFiniteSet(ThreadsAt(Registered))
  /\ IsFiniteSet(ThreadsAt(WithItem))
  /\ slots = Slots - Cardinality(ThreadsAt(WithSlot))
  /\ connect = Cardinality(ThreadsAt(Registered))
  /\ items = Cardinality(ThreadsAt(WithItem))

(* Whoever is in the table is registered and is there once; until SIGHUP   *)
(* everybody registered is there.                                          *)
TableInv ==
  /\ \A i \in 1..Slots : buf[i] # Empty => pc[buf[i]] \in Registered
  /\ \A i, j \in 1..Slots : buf[i] # Empty /\ buf[i] = buf[j] => i = j
  /\ main = "accept" =>
       \A c \in Clients : pc[c] \in Registered => \E i \in 1..Slots : buf[i] = c

(* What creg_shutdown_all has not dealt with yet is still ahead of it: at  *)
(* or after its index, after it once it has called shutdown there.         *)
ScanInv ==
  /\ main # "accept" =>
       \A c \in present :
         \/ c \in shut \/ pc[c] \in Departed
         \/ /\ main \in {"scan", "shutdown", "zero"}
            /\ \E i \in at..Slots : buf[i] = c /\ (main = "zero" => i # at)

Inv == TypeOK /\ CountInv /\ TableInv /\ ScanInv

(* A thread that moves on changes the number of threads at some points by  *)
(* one if it enters or leaves them.                                        *)
LEMMA CountMove ==
  ASSUME TypeOK, NEW c \in Clients, NEW from, NEW to, Goto(c, from, to),
         NEW points, IsFiniteSet(ThreadsAt(points))
  PROVE  /\ IsFiniteSet(ThreadsAt(points)')
         /\ Cardinality(ThreadsAt(points)) \in Nat
         /\ (from \in points) = (to \in points) =>
              Cardinality(ThreadsAt(points)') = Cardinality(ThreadsAt(points))
         /\ from \notin points /\ to \in points =>
              Cardinality(ThreadsAt(points)') = Cardinality(ThreadsAt(points)) + 1
         /\ from \in points /\ to \notin points =>
              Cardinality(ThreadsAt(points)') = Cardinality(ThreadsAt(points)) - 1
<1> DEFINE old == ThreadsAt(points)
<1>0. /\ pc[c] = from /\ pc'[c] = to
      /\ \A d \in Clients : d # c => pc'[d] = pc[d]
  BY DEF TypeOK, Goto
<1>1. Cardinality(old) \in Nat
  BY FS_CardinalityType
<1>2. CASE (from \in points) = (to \in points)
  <2>1. ThreadsAt(points)' = old
    BY <1>0, <1>2 DEF ThreadsAt
  <2> QED
    BY <1>1, <1>2, <2>1
<1>3. CASE from \notin points /\ to \in points
  <2>1. ThreadsAt(points)' = old \cup {c} /\ c \notin old
    BY <1>0, <1>3 DEF ThreadsAt
  <2> QED
    BY <1>1, <1>3, <2>1, FS_AddElement
<1>4. CASE from \in points /\ to \notin points
  <2>1. ThreadsAt(points)' = old \ {c} /\ c \in old
    BY <1>0, <1>4 DEF ThreadsAt
  <2> QED
    BY <1>1, <1>4, <2>1, FS_RemoveElement
<1> QED
  BY <1>2, <1>3, <1>4

(* The clients in the table are registered, and with the one that has      *)
(* passed P(slots) they are no more than there are slots: one is free.     *)
LEMMA SlotLeft ==
  ASSUME TypeOK, CountInv, TableInv, NEW c \in Clients, pc[c] = "entering"
  PROVE  FreeSlots # {}
<1> DEFINE holders == ThreadsAt(WithSlot)
           listed == ThreadsAt(Registered)
<1>1. SUFFICES ASSUME FreeSlots = {} PROVE FALSE
  OBVIOUS
<1>2. \A i \in 1..Slots : buf[i] \in listed
  BY <1>1 DEF TypeOK, TableInv, FreeSlots, ThreadsAt
<1>3. listed \subseteq holders \ {c}
  BY DEF ThreadsAt, WithSlot, Registered
<1>4. /\ IsFiniteSet(holders) /\ c \in holders
      /\ IsFiniteSet(holders \ {c})
      /\ Cardinality(holders \ {c}) = Cardinality(holders) - 1
      /\ Cardinality(holders) \in Nat
  BY FS_RemoveElement, FS_CardinalityType DEF CountInv, ThreadsAt, WithSlot
<1>5. Cardinality(holders) <= Slots
  BY <1>4, SlotsAssumption DEF CountInv, TypeOK
<1>6. /\ IsFiniteSet(listed) /\ Cardinality(listed) \in Nat
      /\ Cardinality(listed) <= Cardinality(holders) - 1
  BY <1>3, <1>4, FS_Subset, FS_CardinalityType
<1>7. buf \in [1..Slots -> listed]
  BY <1>2 DEF TypeOK
<1>8. IsFiniteSet(1..Slots) /\ Cardinality(1..Slots) = Slots
  BY SlotsAssumption, FS_Interval
<1>9. PICK i \in 1..Slots, j \in 1..Slots : i # j /\ buf[i] = buf[j]
  <2>1. Cardinality(1..Slots) > Cardinality(listed)
    BY <1>4, <1>5, <1>6, <1>8, SlotsAssumption
  <2> QED
    BY <1>6, <1>7, <1>8, <2>1, FS_PigeonHole
<1>10. buf[i] # Empty
  BY <1>2, EmptyAssumption DEF ThreadsAt
<1> QED
  BY <1>9, <1>10 DEF TableInv

(* Every variable keeps its type. *)
LEMMA TypeStep ==
  ASSUME TypeOK, Next
  PROVE  TypeOK'
<1> USE DEF TypeOK, Points, Stages, Registered, Departed, registry, semaphores, Goto,
            MainGoto
<1>1. ASSUME NEW c \in Clients, Send(c)
      PROVE  TypeOK'
  BY <1>1, SlotsAssumption, EmptyAssumption DEF Send
<1>2. ASSUME NEW c \in Clients, Close(c)
      PROVE  TypeOK'
  BY <1>2, SlotsAssumption, EmptyAssumption DEF Close
<1>3. ASSUME NEW c \in Clients, Accept(c)
      PROVE  TypeOK'
  BY <1>3, SlotsAssumption, EmptyAssumption DEF Accept
<1>4. ASSUME NEW c \in Clients, WaitSlot(c)
      PROVE  TypeOK'
  BY <1>4, SlotsAssumption, EmptyAssumption DEF WaitSlot
<1>5. ASSUME NEW c \in Clients, Register(c)
      PROVE  TypeOK'
  <2>1. FreeSlots \in SUBSET Nat /\ FreeSlots \subseteq 1..Slots
    BY DEF FreeSlots
  <2>2. FreeSlots # {} => Min(FreeSlots) \in 1..Slots /\ buf[Min(FreeSlots)] = Empty
    BY <2>1, MinOfPositions DEF FreeSlots
  <2> QED
    BY <1>5, <2>1, <2>2, SlotsAssumption, EmptyAssumption DEF Register
<1>6. ASSUME NEW c \in Clients, RegisterUnlock(c)
      PROVE  TypeOK'
  BY <1>6, SlotsAssumption, EmptyAssumption DEF RegisterUnlock
<1>7. ASSUME NEW c \in Clients, PostItem(c)
      PROVE  TypeOK'
  BY <1>7, SlotsAssumption, EmptyAssumption DEF PostItem
<1>8. ASSUME NEW c \in Clients, Receive(c)
      PROVE  TypeOK'
  BY <1>8, SlotsAssumption, EmptyAssumption DEF Receive
<1>9. ASSUME NEW c \in Clients, WaitItem(c)
      PROVE  TypeOK'
  BY <1>9, SlotsAssumption, EmptyAssumption DEF WaitItem
<1>10. ASSUME NEW c \in Clients, Unregister(c)
      PROVE  TypeOK'
  <2> DEFINE mine == {i \in 1..Slots : buf[i] = c}
  <2>1. mine \in SUBSET Nat
    BY SlotsAssumption
  <2>2. mine # {} => Min(mine) \in mine
    BY <2>1, MinOfPositions
  <2>3. buf' = IF mine = {} THEN buf ELSE [buf EXCEPT ![Min(mine)] = Empty]
    BY <1>10 DEF Unregister
  <2> QED
    BY <1>10, <2>2, <2>3, SlotsAssumption, EmptyAssumption DEF Unregister
<1>11. ASSUME NEW c \in Clients, UnregisterUnlock(c)
      PROVE  TypeOK'
  BY <1>11, SlotsAssumption, EmptyAssumption DEF UnregisterUnlock
<1>12. ASSUME NEW c \in Clients, PostSlot(c)
      PROVE  TypeOK'
  BY <1>12, SlotsAssumption, EmptyAssumption DEF PostSlot
<1>13. CASE Sighup
  BY <1>13, SlotsAssumption, EmptyAssumption DEF Sighup, Listed
<1>14. CASE ScanSlot
  BY <1>14, SlotsAssumption, EmptyAssumption DEF ScanSlot
<1>15. CASE ShutdownSlot
  BY <1>15, SlotsAssumption, EmptyAssumption DEF ShutdownSlot
<1>16. CASE ZeroSlot
  BY <1>16, SlotsAssumption, EmptyAssumption DEF ZeroSlot
<1>17. CASE WaitForEmpty
  BY <1>17, SlotsAssumption, EmptyAssumption DEF WaitForEmpty
<1>18. CASE CregFini
  BY <1>18, SlotsAssumption, EmptyAssumption DEF CregFini
<1>19. CASE Exit
  BY <1>19, SlotsAssumption, EmptyAssumption DEF Exit
<1>20. CASE Exited
  BY <1>20 DEF Exited, vars, registry, semaphores
<1> QED
  BY <1>1, <1>2, <1>3, <1>4, <1>5, <1>6, <1>7, <1>8, <1>9, <1>10, <1>11, <1>12,
     <1>13, <1>14, <1>15, <1>16, <1>17, <1>18, <1>19, <1>20
  DEF Next, ServiceThread, Terminate

(* Every V follows the P of the same thread. *)
LEMMA CountStep ==
  ASSUME TypeOK, CountInv, Next
  PROVE  CountInv'
<1> USE DEF CountInv, WithSlot, WithItem, Registered, registry, semaphores, MainGoto
<1>1. ASSUME NEW c \in Clients, Send(c)
      PROVE  CountInv'
  BY <1>1 DEF Send, ThreadsAt
<1>2. ASSUME NEW c \in Clients, Close(c)
      PROVE  CountInv'
  BY <1>2 DEF Close, ThreadsAt
<1>3. ASSUME NEW c \in Clients, Accept(c)
      PROVE  CountInv'
  <2>1. Goto(c, "away", "starting")
    BY <1>3 DEF Accept
  <2> QED
    BY <1>3, <2>1, CountMove, SlotsAssumption
    DEF Accept
<1>4. ASSUME NEW c \in Clients, WaitSlot(c)
      PROVE  CountInv'
  <2>1. Goto(c, "starting", "entering")
    BY <1>4 DEF WaitSlot
  <2> QED
    BY <1>4, <2>1, CountMove, SlotsAssumption
    DEF WaitSlot
<1>5. ASSUME NEW c \in Clients, Register(c)
      PROVE  CountInv'
  <2>1. Goto(c, "entering", "added")
    BY <1>5 DEF Register
  <2> QED
    BY <1>5, <2>1, CountMove, SlotsAssumption
    DEF Register
<1>6. ASSUME NEW c \in Clients, RegisterUnlock(c)
      PROVE  CountInv'
  <2>1. Goto(c, "added", "listed")
    BY <1>6 DEF RegisterUnlock
  <2> QED
    BY <1>6, <2>1, CountMove, SlotsAssumption
    DEF RegisterUnlock
<1>7. ASSUME NEW c \in Clients, PostItem(c)
      PROVE  CountInv'
  <2>1. Goto(c, "listed", "serving")
    BY <1>7 DEF PostItem
  <2> QED
    BY <1>7, <2>1, CountMove, SlotsAssumption
    DEF PostItem
<1>8. ASSUME NEW c \in Clients, Receive(c)
      PROVE  CountInv'
  <2>1. Goto(c, "serving", "leaving")
    BY <1>8 DEF Receive
  <2> QED
    BY <1>8, <2>1, CountMove, SlotsAssumption
    DEF Receive
<1>9. ASSUME NEW c \in Clients, WaitItem(c)
      PROVE  CountInv'
  <2>1. Goto(c, "leaving", "removing")
    BY <1>9 DEF WaitItem
  <2> QED
    BY <1>9, <2>1, CountMove, SlotsAssumption
    DEF WaitItem
<1>10. ASSUME NEW c \in Clients, Unregister(c)
      PROVE  CountInv'
  <2>1. Goto(c, "removing", "removed")
    BY <1>10 DEF Unregister
  <2> QED
    BY <1>10, <2>1, CountMove, SlotsAssumption
    DEF Unregister
<1>11. ASSUME NEW c \in Clients, UnregisterUnlock(c)
      PROVE  CountInv'
  <2>1. Goto(c, "removed", "freeing")
    BY <1>11 DEF UnregisterUnlock
  <2> QED
    BY <1>11, <2>1, CountMove, SlotsAssumption
    DEF UnregisterUnlock
<1>12. ASSUME NEW c \in Clients, PostSlot(c)
      PROVE  CountInv'
  <2>1. Goto(c, "freeing", "gone")
    BY <1>12 DEF PostSlot
  <2> QED
    BY <1>12, <2>1, CountMove, SlotsAssumption
    DEF PostSlot
<1>13. CASE Sighup
  BY <1>13 DEF Sighup, ThreadsAt
<1>14. CASE ScanSlot
  BY <1>14 DEF ScanSlot, ThreadsAt
<1>15. CASE ShutdownSlot
  BY <1>15 DEF ShutdownSlot, ThreadsAt
<1>16. CASE ZeroSlot
  BY <1>16 DEF ZeroSlot, ThreadsAt
<1>17. CASE WaitForEmpty
  BY <1>17 DEF WaitForEmpty, ThreadsAt
<1>18. CASE CregFini
  BY <1>18 DEF CregFini, ThreadsAt
<1>19. CASE Exit
  BY <1>19 DEF Exit, ThreadsAt
<1>20. CASE Exited
  BY <1>20 DEF Exited, vars, ThreadsAt
<1> QED
  BY <1>1, <1>2, <1>3, <1>4, <1>5, <1>6, <1>7, <1>8, <1>9, <1>10, <1>11, <1>12,
     <1>13, <1>14, <1>15, <1>16, <1>17, <1>18, <1>19, <1>20
  DEF Next, ServiceThread, Terminate

(* A client enters a free slot and leaves the one it is in, unless the     *)
(* shutdown has cleared it.                                                *)
LEMMA TableStep ==
  ASSUME TypeOK, CountInv, TableInv, Next
  PROVE  TableInv'
<1> USE DEF TypeOK, Points, Stages, Registered, Departed, registry, semaphores, Goto,
            MainGoto, TableInv
<1>1. ASSUME NEW c \in Clients, Send(c)
      PROVE  TableInv'
  BY <1>1, SlotsAssumption, EmptyAssumption DEF Send
<1>2. ASSUME NEW c \in Clients, Close(c)
      PROVE  TableInv'
  BY <1>2, SlotsAssumption, EmptyAssumption DEF Close
<1>3. ASSUME NEW c \in Clients, Accept(c)
      PROVE  TableInv'
  BY <1>3, SlotsAssumption, EmptyAssumption DEF Accept
<1>4. ASSUME NEW c \in Clients, WaitSlot(c)
      PROVE  TableInv'
  BY <1>4, SlotsAssumption, EmptyAssumption DEF WaitSlot
<1>5. ASSUME NEW c \in Clients, Register(c)
      PROVE  TableInv'
  <2> DEFINE k == Min(FreeSlots)
  <2>1. FreeSlots \in SUBSET Nat /\ FreeSlots \subseteq 1..Slots
    BY DEF FreeSlots
  <2>2. FreeSlots # {}
    BY <1>5, SlotLeft DEF Register
  <2>3. k \in 1..Slots /\ buf[k] = Empty
    BY <2>1, <2>2, MinOfPositions DEF FreeSlots
  <2>4. /\ buf' = [buf EXCEPT ![k] = c] /\ UNCHANGED main
        /\ pc[c] = "entering" /\ pc' = [pc EXCEPT ![c] = "added"]
    BY <1>5, <2>2 DEF Register
  <2> HIDE DEF k
  <2>5. \A i \in 1..Slots : buf[i] # c
    BY <2>4, EmptyAssumption
  <2>6. buf'[k] = c /\ \A i \in 1..Slots : i # k => buf'[i] = buf[i]
    BY <2>3, <2>4
  <2>7. pc'[c] = "added" /\ \A d \in Clients : d # c => pc'[d] = pc[d]
    BY <2>4
  <2>8. \A i \in 1..Slots : buf'[i] # Empty => pc'[buf'[i]] \in Registered
    BY <2>6, <2>7
  <2>9. \A i, j \in 1..Slots : buf'[i] # Empty /\ buf'[i] = buf'[j] => i = j
    BY <2>5, <2>6
  <2>10. ASSUME main' = "accept", NEW d \in Clients, pc'[d] \in Registered
         PROVE  \E i \in 1..Slots : buf'[i] = d
    <3>1. CASE d = c
      BY <2>3, <2>6, <3>1
    <3>2. CASE d # c
      <4>1. PICK i \in 1..Slots : buf[i] = d
        BY <2>4, <2>7, <2>10, <3>2
      <4> QED
        BY <2>3, <2>6, <4>1, EmptyAssumption
    <3> QED
      BY <3>1, <3>2
  <2> QED
    BY <2>8, <2>9, <2>10
<1>6. ASSUME NEW c \in Clients, RegisterUnlock(c)
      PROVE  TableInv'
  BY <1>6, SlotsAssumption, EmptyAssumption DEF RegisterUnlock
<1>7. ASSUME NEW c \in Clients, PostItem(c)
      PROVE  TableInv'
  BY <1>7, SlotsAssumption, EmptyAssumption DEF PostItem
<1>8. ASSUME NEW c \in Clients, Receive(c)
      PROVE  TableInv'
  BY <1>8, SlotsAssumption, EmptyAssumption DEF Receive
<1>9. ASSUME NEW c \in Clients, WaitItem(c)
      PROVE  TableInv'
  BY <1>9, SlotsAssumption, EmptyAssumption DEF WaitItem
<1>10. ASSUME NEW c \in Clients, Unregister(c)
      PROVE  TableInv'
  <2> DEFINE mine == {i \in 1..Slots : buf[i] = c}
  <2>1. mine \in SUBSET Nat
    BY SlotsAssumption
  <2>2. mine # {} => Min(mine) \in mine
    BY <2>1, MinOfPositions
  <2>3. buf' = IF mine = {} THEN buf ELSE [buf EXCEPT ![Min(mine)] = Empty]
    BY <1>10 DEF Unregister
  <2>4. /\ \A i \in 1..Slots : buf'[i] = IF buf[i] = c THEN Empty ELSE buf[i]
        /\ UNCHANGED main
        /\ pc'[c] = "removed" /\ \A d \in Clients : d # c => pc'[d] = pc[d]
    <3>1. \A i, j \in mine : i = j
      BY EmptyAssumption
    <3>2. \A i \in 1..Slots : buf'[i] = IF buf[i] = c THEN Empty ELSE buf[i]
      BY <2>2, <2>3, <3>1
    <3> QED
      BY <1>10, <3>2 DEF Unregister
  <2>5. \A i \in 1..Slots : buf'[i] # Empty => pc'[buf'[i]] \in Registered
    BY <2>4
  <2>6. \A i, j \in 1..Slots : buf'[i] # Empty /\ buf'[i] = buf'[j] => i = j
    BY <2>4
  <2>7. ASSUME main' = "accept", NEW d \in Clients, pc'[d] \in Registered
        PROVE  \E i \in 1..Slots : buf'[i] = d
    <3>1. d # c
      BY <2>4, <2>7
    <3>2. PICK i \in 1..Slots : buf[i] = d
      BY <2>4, <2>7, <3>1
    <3> QED
      BY <2>4, <3>1, <3>2
  <2> QED
    BY <2>5, <2>6, <2>7
<1>11. ASSUME NEW c \in Clients, UnregisterUnlock(c)
      PROVE  TableInv'
  BY <1>11, SlotsAssumption, EmptyAssumption DEF UnregisterUnlock
<1>12. ASSUME NEW c \in Clients, PostSlot(c)
      PROVE  TableInv'
  BY <1>12, SlotsAssumption, EmptyAssumption DEF PostSlot
<1>13. CASE Sighup
  BY <1>13, SlotsAssumption, EmptyAssumption DEF Sighup
<1>14. CASE ScanSlot
  BY <1>14, SlotsAssumption, EmptyAssumption DEF ScanSlot
<1>15. CASE ShutdownSlot
  BY <1>15, SlotsAssumption, EmptyAssumption DEF ShutdownSlot
<1>16. CASE ZeroSlot
  BY <1>16, SlotsAssumption, EmptyAssumption DEF ZeroSlot
<1>17. CASE WaitForEmpty
  BY <1>17, SlotsAssumption, EmptyAssumption DEF WaitForEmpty
<1>18. CASE CregFini
  BY <1>18, SlotsAssumption, EmptyAssumption DEF CregFini
<1>19. CASE Exit
  BY <1>19, SlotsAssumption, EmptyAssumption DEF Exit
<1>20. CASE Exited
  BY <1>20 DEF Exited, vars, registry, semaphores
<1> QED
  BY <1>1, <1>2, <1>3, <1>4, <1>5, <1>6, <1>7, <1>8, <1>9, <1>10, <1>11, <1>12,
     <1>13, <1>14, <1>15, <1>16, <1>17, <1>18, <1>19, <1>20
  DEF Next, ServiceThread, Terminate

(* A slot that is cleared between the test and the shutdown, and reused,   *)
(* does not hold a client the shutdown still owes.                         *)
LEMMA ScanStep ==
  ASSUME TypeOK, CountInv, TableInv, ScanInv, Next
  PROVE  ScanInv'
<1> USE DEF TypeOK, Points, Stages, Registered, Departed, registry, semaphores, Goto,
            MainGoto, TableInv, ScanInv
<1>1. ASSUME NEW c \in Clients, Send(c)
      PROVE  ScanInv'
  BY <1>1, SlotsAssumption, EmptyAssumption DEF Send
<1>2. ASSUME NEW c \in Clients, Close(c)
      PROVE  ScanInv'
  BY <1>2, SlotsAssumption, EmptyAssumption DEF Close
<1>3. ASSUME NEW c \in Clients, Accept(c)
      PROVE  ScanInv'
  BY <1>3, SlotsAssumption, EmptyAssumption DEF Accept
<1>4. ASSUME NEW c \in Clients, WaitSlot(c)
      PROVE  ScanInv'
  BY <1>4, SlotsAssumption, EmptyAssumption DEF WaitSlot
<1>5. ASSUME NEW c \in Clients, Register(c)
      PROVE  ScanInv'
  <2>1. FreeSlots \in SUBSET Nat /\ FreeSlots \subseteq 1..Slots
    BY DEF FreeSlots
  <2>2. FreeSlots # {} => Min(FreeSlots) \in 1..Slots /\ buf[Min(FreeSlots)] = Empty
    BY <2>1, MinOfPositions DEF FreeSlots
  <2> QED
    BY <1>5, <2>1, <2>2, SlotsAssumption, EmptyAssumption DEF Register
<1>6. ASSUME NEW c \in Clients, RegisterUnlock(c)
      PROVE  ScanInv'
  BY <1>6, SlotsAssumption, EmptyAssumption DEF RegisterUnlock
<1>7. ASSUME NEW c \in Clients, PostItem(c)
      PROVE  ScanInv'
  BY <1>7, SlotsAssumption, EmptyAssumption DEF PostItem
<1>8. ASSUME NEW c \in Clients, Receive(c)
      PROVE  ScanInv'
  BY <1>8, SlotsAssumption, EmptyAssumption DEF Receive
<1>9. ASSUME NEW c \in Clients, WaitItem(c)
      PROVE  ScanInv'
  BY <1>9, SlotsAssumption, EmptyAssumption DEF WaitItem
<1>10. ASSUME NEW c \in Clients, Unregister(c)
      PROVE  ScanInv'
  <2> DEFINE mine == {i \in 1..Slots : buf[i] = c}
  <2>1. mine \in SUBSET Nat
    BY SlotsAssumption
  <2>2. mine # {} => Min(mine) \in mine
    BY <2>1, MinOfPositions
  <2>3. buf' = IF mine = {} THEN buf ELSE [buf EXCEPT ![Min(mine)] = Empty]
    BY <1>10 DEF Unregister
  <2> QED
    BY <1>10, <2>2, <2>3, SlotsAssumption, EmptyAssumption DEF Unregister
<1>11. ASSUME NEW c \in Clients, UnregisterUnlock(c)
      PROVE  ScanInv'
  BY <1>11, SlotsAssumption, EmptyAssumption DEF UnregisterUnlock
<1>12. ASSUME NEW c \in Clients, PostSlot(c)
      PROVE  ScanInv'
  BY <1>12, SlotsAssumption, EmptyAssumption DEF PostSlot
<1>13. CASE Sighup
  BY <1>13, SlotsAssumption, EmptyAssumption DEF Sighup, Listed
<1>14. CASE ScanSlot
  BY <1>14, SlotsAssumption, EmptyAssumption DEF ScanSlot
<1>15. CASE ShutdownSlot
  BY <1>15, SlotsAssumption, EmptyAssumption DEF ShutdownSlot
<1>16. CASE ZeroSlot
  BY <1>16, SlotsAssumption, EmptyAssumption DEF ZeroSlot
<1>17. CASE WaitForEmpty
  BY <1>17, SlotsAssumption, EmptyAssumption DEF WaitForEmpty
<1>18. CASE CregFini
  BY <1>18, SlotsAssumption, EmptyAssumption DEF CregFini
<1>19. CASE Exit
  BY <1>19, SlotsAssumption, EmptyAssumption DEF Exit
<1>20. CASE Exited
  BY <1>20 DEF Exited, vars, registry, semaphores
<1> QED
  BY <1>1, <1>2, <1>3, <1>4, <1>5, <1>6, <1>7, <1>8, <1>9, <1>10, <1>11, <1>12,
     <1>13, <1>14, <1>15, <1>16, <1>17, <1>18, <1>19, <1>20
  DEF Next, ServiceThread, Terminate

(* In every reachable state the semaphores, the table and the scan agree.  *)
THEOREM Invariance == Spec => []Inv
<1>1. Init => Inv
  <2> SUFFICES ASSUME Init PROVE Inv
    OBVIOUS
  <2>1. TypeOK
    BY SlotsAssumption DEF Init, TypeOK, Points, Stages
  <2>2. CountInv
    <3>1. /\ ThreadsAt(WithSlot) = {} /\ ThreadsAt(Registered) = {}
          /\ ThreadsAt(WithItem) = {}
      BY DEF Init, ThreadsAt, WithSlot, WithItem, Registered
    <3> QED
      BY <3>1, FS_EmptySet, SlotsAssumption DEF Init, CountInv
  <2>3. TableInv /\ ScanInv
    BY DEF Init, TableInv, ScanInv, Registered
  <2> QED
    BY <2>1, <2>2, <2>3 DEF Inv
<1>2. Inv /\ [Next]_vars => Inv'
  <2>1. ASSUME Inv, Next
        PROVE  Inv'
    BY <2>1, TypeStep, CountStep, TableStep, ScanStep DEF Inv
  <2>2. ASSUME Inv, UNCHANGED vars
        PROVE  Inv'
    BY <2>2 DEF Inv, vars, registry, semaphores, TypeOK, CountInv, ThreadsAt,
                TableInv, ScanInv
  <2> QED
    BY <2>1, <2>2
<1> QED
  BY <1>1, <1>2, PTL DEF Spec

(* A thread that has passed P(slots) finds a free slot, and one that is to *)
(* unregister does not wait in P(items).                                   *)
THEOREM EntrantsFindSlots == Spec => []SlotForEveryEntrant
<1>1. Inv => SlotForEveryEntrant
  <2> SUFFICES ASSUME Inv, NEW c \in Clients
               PROVE  /\ pc[c] = "entering" => FreeSlots # {}
                      /\ pc[c] = "leaving" => items > 0
    BY DEF SlotForEveryEntrant
  <2>1. pc[c] = "entering" => FreeSlots # {}
    BY SlotLeft DEF Inv
  <2>2. ASSUME pc[c] = "leaving"
        PROVE  items > 0
    <3> DEFINE S == ThreadsAt(WithItem)
    <3>1. c \in S /\ IsFiniteSet(S) /\ items = Cardinality(S)
      BY <2>2 DEF Inv, CountInv, ThreadsAt, WithItem
    <3>2. Cardinality(S) \in Nat /\ Cardinality(S) # 0
      BY <3>1, FS_CardinalityType, FS_EmptySet
    <3> QED
      BY <3>1, <3>2
  <2> QED
    BY <2>1, <2>2
<1> QED
  BY <1>1, Invariance, PTL

(* The table lists the registered clients until SIGHUP, and the count of   *)
(* clients is right throughout.                                            *)
THEOREM TableExact == Spec => []TableListsRegistered
<1>1. Inv => TableListsRegistered
  <2> SUFFICES ASSUME Inv PROVE TableListsRegistered
    OBVIOUS
  <2>1. connect = Cardinality(Listed)
    BY DEF Inv, CountInv, ThreadsAt, Listed
  <2>2. ASSUME main = "accept", NEW c \in Clients
        PROVE  Cardinality({i \in 1..Slots : buf[i] = c}) =
                 IF c \in Listed THEN 1 ELSE 0
    <3>0. c # Empty
      BY EmptyAssumption
    <3>1. CASE c \in Listed
      <4>1. PICK i \in 1..Slots : buf[i] = c
        BY <2>2, <3>1 DEF Inv, TableInv, Listed
      <4>2. {j \in 1..Slots : buf[j] = c} = {i}
        BY <3>0, <4>1 DEF Inv, TableInv
      <4> QED
        BY <3>1, <4>2, FS_Singleton
    <3>2. CASE c \notin Listed
      <4>1. {j \in 1..Slots : buf[j] = c} = {}
        BY <3>0, <3>2 DEF Inv, TableInv, Listed
      <4> QED
        BY <3>2, <4>1, FS_EmptySet
    <3> QED
      BY <3>1, <3>2
  <2> QED
    BY <2>1, <2>2 DEF TableListsRegistered
<1> QED
  BY <1>1, Invariance, PTL

(* A client registered at SIGHUP that is served after the scan has had its *)
(* connection shut down.                                                   *)
THEOREM ShutdownComplete == Spec => []ShutdownReachesPresent
<1>1. Inv => ShutdownReachesPresent
  BY DEF Inv, ScanInv, ShutdownReachesPresent
<1> QED
  BY <1>1, Invariance, PTL
=============================================================================
