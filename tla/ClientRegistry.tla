--------------------------- MODULE ClientRegistry ---------------------------
(***************************************************************************)
(* The client registry of the "Bourse" server and its two users: the       *)
(* service threads, each of which registers its connection, serves it and  *)
(* unregisters it (lab5/src/server.c), and the main thread, which accepts  *)
(* connections until SIGHUP makes it shut down all of them, wait until     *)
(* none is registered, free everything and exit (lab5/src/main.c).         *)
(*                                                                         *)
(* The loops over `buf' under `mutex' are one step; the one of             *)
(* creg_shutdown_all, which takes no lock, is a step per access.  Any read *)
(* of a connection ends its service thread: proto_recv_packet returns 0 or *)
(* -1 (lab5/src/protocol.c) and brs_client_service takes both for the end. *)
(***************************************************************************)
EXTENDS Integers, FiniteSets, FiniteSetsExt

CONSTANTS
  Clients,   \* the connections, each with its own file descriptor
  Slots,     \* FD_SETSIZE - 1 in the code
  Empty      \* the 0 of an empty slot

ASSUME SlotsAssumption == Slots \in Nat \ {0}
ASSUME EmptyAssumption == Empty \notin Clients

VARIABLES
  \* CLIENT_REGISTRY
  buf, connect,
  mutex, connections, slots, items,   \* values of its semaphores
  \* the connections
  inbox,   \* what a read of the connection finds
  shut,    \* those whose reading side the server has shut down
  \* threads
  pc,      \* the service threads
  main, at,  \* the main thread, and its index in creg_shutdown_all
  \* history
  present  \* the clients registered when SIGHUP arrived

semaphores == <<mutex, connections, slots, items>>
registry == <<buf, connect, semaphores>>
vars == <<registry, inbox, shut, pc, main, at, present>>

(* The program points of a service thread from the entry in the table on. *)
Registered   == {"added", "listed", "serving", "leaving", "removing"}
Departed     == {"removed", "freeing", "gone"}

Listed == {c \in Clients : pc[c] \in Registered}

Init ==
  /\ buf = [i \in 1..Slots |-> Empty] /\ connect = 0
  /\ mutex = 1 /\ connections = 0 /\ slots = Slots /\ items = 0
  /\ inbox = [c \in Clients |-> "nothing"] /\ shut = {}
  /\ pc = [c \in Clients |-> "away"]
  /\ main = "accept" /\ at = 1 /\ present = {}

Goto(c, from, to) == pc[c] = from /\ pc' = [pc EXCEPT ![c] = to]

Running == main # "exited"
-----------------------------------------------------------------------------
(* The clients: one connects, sends a packet, or closes its connection.    *)
(* What arrives before the service thread reads is as if it arrived then.  *)

Send(c) ==
  /\ Running /\ pc[c] = "serving" /\ inbox[c] = "nothing"
  /\ inbox' = [inbox EXCEPT ![c] = "packet"]
  /\ UNCHANGED <<registry, shut, pc, main, at, present>>

Close(c) ==
  /\ Running /\ pc[c] = "serving" /\ inbox[c] = "nothing"
  /\ inbox' = [inbox EXCEPT ![c] = "eof"]
  /\ UNCHANGED <<registry, shut, pc, main, at, present>>

(* Accept and Pthread_create. *)
Accept(c) ==
  /\ main = "accept"
  /\ Goto(c, "away", "starting")
  /\ UNCHANGED <<registry, inbox, shut, main, at, present>>
-----------------------------------------------------------------------------
(* creg_register *)

WaitSlot(c) ==
  /\ Running /\ slots > 0
  /\ Goto(c, "starting", "entering")
  /\ slots' = slots - 1
  /\ UNCHANGED <<buf, connect, mutex, connections, items, inbox, shut, main,
                 at, present>>

FreeSlots == {i \in 1..Slots : buf[i] = Empty}

(* P(mutex), take the first free slot if there is one, count the client. *)
Register(c) ==
  /\ Running /\ mutex > 0
  /\ Goto(c, "entering", "added")
  /\ mutex' = mutex - 1
  /\ buf' = IF FreeSlots = {} THEN buf ELSE [buf EXCEPT ![Min(FreeSlots)] = c]
  /\ connect' = connect + 1
  /\ UNCHANGED <<connections, slots, items, inbox, shut, main, at, present>>

RegisterUnlock(c) ==
  /\ Running
  /\ Goto(c, "added", "listed")
  /\ mutex' = mutex + 1
  /\ UNCHANGED <<buf, connect, connections, slots, items, inbox, shut, main,
                 at, present>>

PostItem(c) ==
  /\ Running
  /\ Goto(c, "listed", "serving")
  /\ items' = items + 1
  /\ UNCHANGED <<buf, connect, mutex, connections, slots, inbox, shut, main,
                 at, present>>
-----------------------------------------------------------------------------
(* The service loop: proto_recv_packet returns when there is a packet      *)
(* (with 0) or nothing more to read (with -1).  Neither is above 0.        *)

ProtoRecvPacket(c) == IF inbox[c] = "packet" THEN 0 ELSE -1

Receive(c) ==
  /\ Running
  /\ inbox[c] # "nothing" \/ c \in shut
  /\ ProtoRecvPacket(c) <= 0
  /\ Goto(c, "serving", "leaving")
  /\ inbox' = [inbox EXCEPT ![c] = "nothing"]
  /\ UNCHANGED <<registry, shut, main, at, present>>
-----------------------------------------------------------------------------
(* creg_unregister *)

(* Faulty: V(slots) before the slot is cleared. *)
WaitItem_frees_slot(c) ==
  /\ Running /\ items > 0
  /\ Goto(c, "leaving", "removing")
  /\ items' = items - 1
  /\ slots' = slots + 1
  /\ UNCHANGED <<buf, connect, mutex, connections, inbox, shut, main, at,
                 present>>

WaitItem(c) ==
  /\ Running /\ items > 0
  /\ Goto(c, "leaving", "removing")
  /\ items' = items - 1
  /\ UNCHANGED <<buf, connect, mutex, connections, slots, inbox, shut, main,
                 at, present>>

(* Faulty: clears the first slot in use, whoever it belongs to. *)
Unregister_first(c) ==
  LET used == 1..Slots \ FreeSlots
  IN  /\ Running /\ mutex > 0
      /\ Goto(c, "removing", "removed")
      /\ mutex' = mutex - 1
      /\ buf' = IF used = {} THEN buf ELSE [buf EXCEPT ![Min(used)] = Empty]
      /\ connect' = connect - 1
      /\ connections' = connections + (IF connect = 1 THEN 1 ELSE 0)
      /\ UNCHANGED <<slots, items, inbox, shut, main, at, present>>

(* Faulty: looks for the last client before it counts down. *)
Unregister_early_test(c) ==
  LET mine == {i \in 1..Slots : buf[i] = c}
  IN  /\ Running /\ mutex > 0
      /\ Goto(c, "removing", "removed")
      /\ mutex' = mutex - 1
      /\ buf' = IF mine = {} THEN buf ELSE [buf EXCEPT ![Min(mine)] = Empty]
      /\ connect' = connect - 1
      /\ connections' = connections + (IF connect = 0 THEN 1 ELSE 0)
      /\ UNCHANGED <<slots, items, inbox, shut, main, at, present>>

(* P(mutex), clear the client's slot if it still has one, and post         *)
(* `connections' if it was the last client.                                *)
Unregister(c) ==
  LET mine == {i \in 1..Slots : buf[i] = c}
  IN  /\ Running /\ mutex > 0
      /\ Goto(c, "removing", "removed")
      /\ mutex' = mutex - 1
      /\ buf' = IF mine = {} THEN buf ELSE [buf EXCEPT ![Min(mine)] = Empty]
      /\ connect' = connect - 1
      /\ connections' = connections + (IF connect = 1 THEN 1 ELSE 0)
      /\ UNCHANGED <<slots, items, inbox, shut, main, at, present>>

UnregisterUnlock(c) ==
  /\ Running
  /\ Goto(c, "removed", "freeing")
  /\ mutex' = mutex + 1
  /\ UNCHANGED <<buf, connect, connections, slots, items, inbox, shut, main,
                 at, present>>

PostSlot(c) ==
  /\ Running
  /\ Goto(c, "freeing", "gone")
  /\ slots' = slots + 1
  /\ UNCHANGED <<buf, connect, mutex, connections, items, inbox, shut, main,
                 at, present>>
-----------------------------------------------------------------------------
(* The SIGHUP handler, run by the main thread: terminate. *)

MainGoto(from, to) == main = from /\ main' = to

Sighup ==
  /\ MainGoto("accept", "scan")
  /\ present' = Listed
  /\ UNCHANGED <<registry, inbox, shut, pc, at>>

(* Faulty: stops one slot short. *)
ScanSlot_short ==
  /\ main = "scan"
  /\ IF at >= Slots
       THEN main' = "waiting" /\ UNCHANGED at
       ELSE IF buf[at] # Empty
              THEN main' = "shutdown" /\ UNCHANGED at
              ELSE at' = at + 1 /\ UNCHANGED main
  /\ UNCHANGED <<registry, inbox, shut, pc, present>>

(* creg_shutdown_all: if (cr->buf[i] != 0) ... *)
ScanSlot ==
  /\ main = "scan"
  /\ IF at > Slots
       THEN main' = "waiting" /\ UNCHANGED at
       ELSE IF buf[at] # Empty
              THEN main' = "shutdown" /\ UNCHANGED at
              ELSE at' = at + 1 /\ UNCHANGED main
  /\ UNCHANGED <<registry, inbox, shut, pc, present>>

(* ... shutdown(cr->buf[i], SHUT_RD); of a slot cleared since, it fails. *)
ShutdownSlot ==
  /\ MainGoto("shutdown", "zero")
  /\ shut' = shut \cup ({buf[at]} \ {Empty})
  /\ UNCHANGED <<registry, inbox, pc, at, present>>

(* ... cr->buf[i] = 0; whoever is in it by now. *)
ZeroSlot ==
  /\ MainGoto("zero", "scan")
  /\ buf' = [buf EXCEPT ![at] = Empty]
  /\ at' = at + 1
  /\ UNCHANGED <<connect, semaphores, inbox, shut, pc, present>>

(* creg_wait_for_empty: P(connections) *)
WaitForEmpty ==
  /\ MainGoto("waiting", "creg_fini")
  /\ connections > 0
  /\ connections' = connections - 1
  /\ UNCHANGED <<buf, connect, mutex, slots, items, inbox, shut, pc, at,
                 present>>

(* creg_fini frees the registry, ... *)
CregFini ==
  /\ MainGoto("creg_fini", "exchange_fini")
  /\ UNCHANGED <<registry, inbox, shut, pc, at, present>>

(* ... and after exchange_fini and trader_fini the process exits. *)
Exit ==
  /\ MainGoto("exchange_fini", "exited")
  /\ UNCHANGED <<registry, inbox, shut, pc, at, present>>

Exited == main = "exited" /\ UNCHANGED vars
-----------------------------------------------------------------------------
ServiceThread(c) ==
  \/ WaitSlot(c) \/ Register(c) \/ RegisterUnlock(c) \/ PostItem(c)
  \/ Receive(c)
  \/ WaitItem(c) \/ Unregister(c) \/ UnregisterUnlock(c) \/ PostSlot(c)

Terminate ==
  \/ ScanSlot \/ ShutdownSlot \/ ZeroSlot \/ WaitForEmpty \/ CregFini \/ Exit

Next ==
  \/ \E c \in Clients : Send(c) \/ Close(c) \/ Accept(c) \/ ServiceThread(c)
  \/ Sighup
  \/ Terminate
  \/ Exited

Spec == Init /\ [][Next]_vars

(* Threads that can run do. *)
ThreadFairness ==
  /\ \A c \in Clients : WF_vars(ServiceThread(c))
  /\ WF_vars(Terminate)

(* Moreover a client does not keep a silent connection open for ever. *)
ClientFairness == \A c \in Clients : WF_vars(Send(c) \/ Close(c))

ThreadSpec == Spec /\ ThreadFairness
ClientSpec == ThreadSpec /\ ClientFairness
-----------------------------------------------------------------------------
(* PROPERTIES *)

(* The semaphores agree with the table: a thread that got past P(slots)    *)
(* finds a free slot, so no client is counted without being listed, and    *)
(* one that is to unregister never waits in P(items).                      *)
SlotForEveryEntrant ==
  \A c \in Clients : /\ pc[c] = "entering" => FreeSlots # {}
                     /\ pc[c] = "leaving" => items > 0

(* Until SIGHUP the table lists exactly the registered clients, each once, *)
(* and `connect' counts them.                                              *)
TableListsRegistered ==
  /\ connect = Cardinality(Listed)
  /\ main = "accept" =>
       \A c \in Clients :
         Cardinality({i \in 1..Slots : buf[i] = c}) =
           IF c \in Listed THEN 1 ELSE 0

(* creg_shutdown_all takes no lock, and slots are reused under it, but     *)
(* every client that was registered when SIGHUP arrived and is still       *)
(* served afterwards has had its connection shut down.                     *)
ShutdownReachesPresent ==
  main \in {"waiting", "creg_fini", "exchange_fini", "exited"} =>
    \A c \in present : c \in shut \/ pc[c] \in Departed

(* If any client ever connected, the server exits after SIGHUP, provided   *)
(* the clients that slip past the shutdown do not stay silent for ever.    *)
(* (If none did it never exits: creg_wait_for_empty waits for a transition *)
(* to zero that there is no client to make.)                               *)
ExitsOnceUsed ==
  (main = "waiting" /\ \E c \in Clients : pc[c] # "away")
    ~> main = "exited"

(* "The service loop ends when the network connection shuts down and EOF   *)
(* is seen" (server.h:39-40), and not at a packet it has received.         *)
ServesUntilEof ==
  [][\A c \in Clients :
       pc[c] = "serving" /\ pc'[c] # "serving" =>
         inbox[c] = "eof" \/ c \in shut]_vars
=============================================================================
