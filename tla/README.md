# TLA+ models and proofs for the CSE 320 programs

The repository holds five independent C programs, `lab1` to `lab5`. This
directory models them in TLA+, checks the models with TLC on small instances
and proves with TLAPS, for every instance, the safety properties of those that
work with threads, processes or files, or change a linked list under whoever
walks it: the exchange, the traders and the client registry of the "Bourse"
server, the job spooler, and the rolodex, its files and its list; and of the tree
serializer, that its path is right, when reading back can fail and when the copy is complete.

## The programs and their parts

| part | sources | state | operations | hard behaviour | modules |
|---|---|---|---|---|---|
| exchange and matchmaker | `lab5/src/exchange.c`, `exchange_functions.c` | two ordered lists of orders, bid, ask, last price, next order id, three semaphores | post a buy or sell order, cancel, match, init, fini, status | service threads, the matchmaker and the shutdown interleave; packets in order; money in 32-bit words | `Exchange`, `ExchangeInv`, `MCExchange`, `Market`, `ExchangeMarket`, `ExchangeProofs` |
| client registry, shutdown | `client_registry.c`, `main.c` | table of descriptors, client count, four semaphores | register, unregister, wait for empty, shut down all, SIGHUP | a scan without the lock; a semaphore used as a condition | `ClientRegistry`, `ClientRegistryProofs` |
| traders | `trader.c` | table of traders; balance, inventory, fd, reference count and a mutex each | login (logout has no caller), ref, unref, send, broadcast, account operations | two kinds of lock, fields read without either; a LOGIN from a client that is logged in | `TraderTable`, `TraderTableProofs`, accounts in `Exchange` |
| service loop | `server.c` | logged in or not | one request at a time, ACK or NACK | ends too early | requests in `Exchange`, `TraderTable`; its end in `ClientRegistry` |
| protocol | `protocol.c` | none | send, receive a packet | | the result of a receive in `ClientRegistry` |
| job spooler | `lab4/src/jobs.c`, `signal_handlers.c`, `helper_functions.c`, `main.c` | job table, count of runners, enabled flag, SIGCHLD flag | spool, cancel, pause, resume, expunge, enable, the handler, quit | processes that stop, continue and end at any time; signals noticed late | `Jobber`, `JobberProofs` |
| task parser, line editor | `lab4/src/task.c`, `sf_readline.c` | none | parse, read a line | the hook called with signals masked | not modelled (the hook is part of the job spooler's model) |
| allocator | `lab3/src/sfmm.c` | heap of blocks with headers and footers, segregated free lists | malloc, free, realloc | tags that must agree, written at computed addresses; coalescing, growth | `Sfmm` |
| tree serializer | `lab1/src/transplant.c` | path buffer and its length, record stream | serialize, deserialize | a length kept apart from the string, in a buffer of fixed size; readers at several depths of one stream | `Transplant`, `MCTransplant`, `TransplantProofs` |
| rolodex, files | `lab2/src/rolo.c`, `io.c` | data, backup, temporary, copy and lock file; the entries in core | start, read, edit, save, quit, interrupt, end of input | several instances; crashes between two renames; buffers written after the lock is gone | `RoloFiles`, `MCRoloFiles`, `RoloFilesProofs` |
| rolodex, list | `lab2/src/rlist.c`, `operations.c`, `search.c`, `update.c`, `options.c` | doubly linked list, matched flags, screens on the call stack | add, scan, search, pick, update, delete | scans within scans over a list that changes | `Rolodex`, `RolodexProofs` |
| tool libraries | `lab2/src/toolsdir/*.c`, `lab5/src/csapp.c` | none of interest | menus, strings, wrappers of system calls | | not modelled |

`SetLemmas` has the facts about finite sets, least elements and sequences of
values computed one from the other that the proofs of several parts need.

The programs of different labs do not interact. The rolodex's two modules meet
where the list is read from the data file and written to it: `RoloFiles` knows
a list only by the changes it carries, `Rolodex` only the list.

How the parts of lab5 interact. The main thread accepts connections and starts
a service thread for each. A service thread registers its descriptor in the
client registry, logs a trader in, and calls the exchange and the trader
module for every request. The exchange calls the trader module for the
accounts and to broadcast packets; the matchmaker thread, woken by a
semaphore at every post, does the same. On SIGHUP the main thread shuts down
the registered connections, waits until the registry is empty, and finalizes
the registry, the exchange and the traders.

## What correct means

- Exchange: one thread at a time in it; quotes that are the extremes of the
  book; trades between the best orders at the price closest to the last one;
  no money or units created or lost, whatever is traded, cancelled or
  deposited concurrently; packets that tell a listener exactly what is
  pending; matching orders do not stay; finalization ends and touches nothing
  it has freed.
- Registry: the table lists who is registered; shutdown reaches everyone;
  the server exits, and not before everyone has left.
- Traders: one session per trader, one trader per name, accounts that persist,
  the table's lock held for good only through a client that does not read, sends
  to one client serialized; and where the code does not achieve this, exactly when.
- Job spooler: the rows, the count of runners and the processes agree; no
  runner idle while a job waits; each job ends once, the way its runner did;
  every end is noticed; quitting ends and leaves neither jobs nor runners.
- Allocator: blocks tile the heap, footers repeat headers, free neighbours are
  joined, free lists hold exactly the free blocks, data stays as written; and
  where the code does not achieve this, exactly which calls break it.
- Serializer: the path buffer names the entry in work; what is serialized can
  be read back, and success means that the copy is complete.
- Rolodex files: the lock tells whether somebody may write; what was saved
  survives a crash at any point; nobody reads half a file.
- Rolodex list: the links make up one ordered list of the entries there are;
  a screen shows entries that are in it.

## The exchange: `Exchange`

`buy_orders` and `sell_orders` are the two lists as sequences, head first; an
order's type is the list it is in. Service threads have a program counter
`pc[t]` and the arguments of the call in progress, `call[t]`; the matchmaker
has `mpc` and the locals of `match_order` in `match`, with the order pointers
as positions in the lists (0 is NULL); the finalizing thread has `fpc`.

A step is what a thread does between two points at which another thread could
notice it. Outside the exchange's `mutex` every semaphore operation is a step
of its own. Inside it, only the trader module is shared with threads that do
not hold `mutex`: so each account operation is a step, and list surgery, bid,
ask and counters between two of them are one. The correspondence:

| action | code |
|---|---|
| `Deposit`, `Withdraw`, `Escrow`, `Release` | the dispatch in `server.c`, the account operations of `trader.c` |
| `Lock`, `DebitBuy`/`DebitSell`, `Insert`, `BroadcastPosted`, `Unlock` | `exchange_post_buy`, `exchange_post_sell` |
| `Lock`, `CancelFails` or `CancelFinds`, `CancelRefund`, `BroadcastCanceled`, `Unlock` | `exchange_cancel` |
| `MatcherWake`, `MatcherStop`, `MatcherStart`, `MatcherSleep` | `matchmaker` |
| `MatcherOuter`, `MatcherInner`, `MatcherPay`, `MatcherDeliver`, `MatcherRefund`, `MatcherReport`, `MatcherFill`, `MatcherReap` | `match_order` |
| `FiniFree`, `FiniWake`, `FiniJoin` | `exchange_fini` |

Amounts are words of `Word` values (2^32 in the code) with wrap-around in
`Plus`, `Minus` and `Times`. `feed`, `funds` and `stock` are history
variables: what somebody who sees every packet from the start believes is
pending, and owned. `fundings` and the guard on `orderid` in `RequestPost`
bound the behaviours (`MaxFundings`, `MaxOrders`): no code corresponds to
them. Two threads may pass the guard at once, so there are up to
`MaxOrders` + 1 orders with two traders. A trader never logs out and in again
here, that is `TraderTable`'s subject. The precondition of `exchange_fini`,
that every service thread is gone, is the guard of `FiniFree`; that the
server does not always establish it is the subject of `ClientRegistry`.

`Market` is the abstract specification, what `exchange.h` promises: an order
is posted, cancelled or traded in one step, and there are no threads, lists
or words; nothing but the traders' own operations and trades changes what a
trader owns. `ExchangeMarket` maps the exchange to it. A post takes effect where
it debits the account, a trade where it pays the seller, a cancel where it
refunds: up to there the state of the market is as before, and from there on
it is the state of the exchange with the rest of the operation applied.

### Runs

- `Exchange_safety`: two traders, words of four values, prices and quantities
  1 and 2, up to three orders and two account operations: enough for a
  partial fill, a price improvement, a cancel that races a trade, two orders
  of one trader, wrap-around of balances, and pending wake-ups at
  finalization. Traders are symmetric.
- `Exchange_live`: the same with quantity 1 and without symmetry, under weak
  fairness of each thread inside the exchange: of a service thread once it
  has made a call (`ServiceStep`), of the matchmaker, and of finalization.
  Nothing makes a client send a request or leave. Weak fairness is what a
  preemptive scheduler gives. A semaphore could starve a thread, but the
  bounds make every other thread stop eventually, so the runs need no fairer
  one. Sends are taken to end: a client that never reads would hold the
  sender, and with it the exchange, for ever (listed under "hazards").
- `Exchange_market`: words of 16 values and at most six units of funds, so
  that nothing wraps around, prices and quantities as in `Exchange_safety` and
  symmetric traders: there the exchange implements `Market`. The run also checks
  `Inv` of `ExchangeInv`, the inductive invariant of the proofs.

The properties with their meaning are at the end of
`Exchange.tla`.

### Proofs

`ExchangeProofs` proves, for every set of traders, word
size, set of quantities and prices and every bound, that `Inv` of `ExchangeInv`
is inductive, and what follows from it. The proof has two layers.

`CoreInv` is about threads and lists. `CoreInvariance` is `Spec => []CoreInv`;
`TypeCorrect`, `Exclusion`, `FreedBookUntouched`, `MatchesNoticed`,
`PricePriority` and `QuotesBest` are `TypeOK`, `MutualExclusion`,
`NoUseAfterFree`, `NoLostMatch`, `TradesAtBestPrices` and `QuotesAreExtremes`.
The properties are not inductive. That the matchmaker trades at the best
prices needs that both lists are sorted (`ListsSorted`), that its pointers are
at the reached sell order and the last buy order (`TradeInv`, `PointersInv`)
and that the sell orders it has passed match nothing (`PassedInv`). That no
wake-up is lost needs that it goes to sleep only when it has passed them all,
and that whoever changes the lists afterwards has posted the semaphore
(`WakeInv`). The conjuncts lean on each other: `PassedInv` is kept because
nobody else changes the lists meanwhile (`MutualExclusion`), and a filled
order's neighbour is the right one because the lists are sorted. Each
conjunct has a lemma of its own for the step (`...Next`), which first cuts
down the steps that can disturb it (`ServiceBook`, `MatcherBook`, `FillBook`,
`ReapBook`, `CancelBook`). The module begins with what they need about
`InsertAt` and `RemoveAt`: what an insertion at the place `list_insert`
computes, and a removal, do to the elements and the order of a list, and what
they do to the totals of a list.

`Inv` adds the books. The properties about them hold only while the exchange is
unlocked; in between, an operation has done a part of what it will do. So the
invariant says at each program point how much:

- `IdsInv`: no two pending orders have one id, and the next id is new. Without
  it a packet could not tell which order it is about.
- `RefInv`: one reference too many exactly between unlinking a cancelled order
  and `trader_unref` (`ReferencesBalance`: `ReferencesCounted`).
- `FeedInv`: what a listener knows is the book, but for the order being posted
  or cancelled, after the fill of a trade already published, or with a filled
  order still linked (`PacketsTellBook`: `FeedTellsBook`).
- `DriftInv`: the account of a trader, plus what it has in pending orders
  (`EncumberedFunds`), plus what a call has debited and not yet entered or
  unlinked and not yet refunded (`Posting...`), minus what a trade has paid and
  not yet taken off the orders (`Trading...`), is what the packets say, up to a
  multiple of the word (`NothingLost`: `AccountsBalance`).

For `DriftInv` each action is shown to credit the account with some x and the
packets' figure with some y, both modulo the word, while what is pledged moves
by y - x, as a number without wrap-around (`ServiceSafe`, `MatcherSafe`,
`SafeKeeps`). The effects on the totals are in `InsertEffect`, `CancelEffect`,
`FillEffect` and `ReapEffect`. The prover cannot do induction over sequences;
the totals are recursive functions on positions, and a fact about them is
proved for all positions from a least counterexample (`Ascent` of `SetLemmas`).

The last part of `ExchangeProofs` proves that the exchange implements
`Market`. `Refinement` is `Spec /\ []Fits => ImplementsMarket`. `Fits` (in `ExchangeMarket`) is the
condition under which the numbers of the code are those of the market: the
cost about to be debited is a word, and so is what is in the account after the
credit about to be made. Without it the theorem is false: a cost that wraps
debits less than the market asks for, and `Exchange_safety`, with words of four
values, reaches such states. The code does not check for it, so it is a
hypothesis about what traders deposit and order, and one that many behaviours
satisfy: in `Exchange_market` all do, because at most six units of each kind
exist and words have sixteen values, so TLC checks `ImplementsMarket` there as
it is. `StepsAreMarketSteps` is the same step by step and needs no hypothesis on
the past: in any reachable state, after whatever wrap-around, a step whose own
credit or cost fits is a step of the market or leaves it as it is.

The argument has one lemma per action (`DebitImplements`, `PayImplements` and so
on). Four steps are seen by the market: an account operation is a `Fund`, a
successful debit a `Post`, the refund of a cancel a `Cancel`, and the seller's
payment a `Trade`. The others leave what the market sees as it is, the rest of
the bookkeeping because the mapping has counted on it already (`Remaining`,
`FundsDue`, `UnitsDue`, `OrderInHand`). `Inv` is needed throughout: that nobody
else is in the exchange (`Alone`, `NoneInHand`), that no order in a list has the id
of the one in hand, that the orders of a trade are those at the best prices
(`BestPrices`), and that a list is not changed while a trade is in progress.

The assumptions are the named ones of `Exchange`: a word has more than one
value, and requests carry words. Model-checked only: liveness
(`EventuallyUncrossed`, `FiniReturns`).

## The client registry: `ClientRegistry`

The service threads and the main thread, a step per semaphore operation. The
loops under `mutex` are one step with the P that precedes them; the loop of
`creg_shutdown_all` takes no lock and is a step for the test, one for the
`shutdown` and one for zeroing the slot. Clients are their descriptors. Data
that arrives before its thread reads is as if it arrived at the read.

`ClientRegistry_shutdown` checks three connections and two slots (the code has
`FD_SETSIZE - 1`), so that threads wait for a slot and slots are reused while
`creg_shutdown_all` passes. Fairness: threads that can run do (`ThreadFairness`),
and, for liveness, a client does not keep a silent connection open for ever
(`ClientFairness`): the code itself cannot guarantee an exit, as a client that
registers after the scan is not shut down. Deadlock checking is off because a
server no client ever used really stops, in `creg_wait_for_empty`.

`ClientRegistryProofs` proves the three safety properties for any number of
slots and any clients, finite or not: `EntrantsFindSlots`
(`SlotForEveryEntrant`), `TableExact` (`TableListsRegistered`),
`ShutdownComplete` (`ShutdownReachesPresent`). The inductive invariant counts
threads instead of tokens: `slots` is the number of slots less the threads
between P and V of it, `connect` the registered ones, `items` those between
their two operations on it (`CountInv`). With that a thread past P(slots) finds
a slot because the registered ones are fewer than the slots, which needs that
the table has each of them at most once (`TableInv`). `ScanInv` follows
`creg_shutdown_all`: whom it has not dealt with is at or after its index, as
nobody moves from one slot to another while the scan passes. Assumed: there is a
slot (`SlotsAssumption`), and a descriptor is not the mark of a free slot
(`EmptyAssumption`). Model-checked only: `ExitsOnceUsed`.

## Traders: `TraderTable`

`sem_traders` and each trader's mutex with their holders. The mutex is
recursive, so nested locks are one. `sending` is who is writing to which
descriptor. The thread that has the exchange's semaphore, one at a time, is
`Broadcaster`, whether a service thread or the matchmaker.

| action | code |
|---|---|
| `Login`, `LoginRefused`, `NackSend`, `NackDone` | the case of a LOGIN in `brs_client_service` (`server.c:33-48`) |
| `LoginPublish`, `LoginFields`, `LoginInit`, `LoginRefs` | `trader_login`, in the stages in which a new trader becomes visible; what can be seen of `malloc`ed memory is any descriptor |
| `AckLock`, `AckSend`, `AckDone` | `trader_send_ack`, `trader_send_nack`, `trader_send_packet` |
| `AccountWait`, `AccountLock`, `AccountDone` | the account operations, for the session's own trader |
| `BroadcastBegin`, `BroadcastCheck`, `BroadcastLock`, `BroadcastSent`, `BroadcastEnd` | `trader_broadcast_packet` |
| `CreditWait`, `CreditLock`, `CreditDone` | the account operations, for a trader with an order |

`server.c:33` calls `trader_login` for every LOGIN, also of a client that is logged
in. Under another name the session gets a second TRADER, with the same
descriptor and a mutex of its own; under the same name, or when the table is
full, it gets a NACK, written to the connection under no mutex, and has no
trader any more. Nothing gives back what the session had before, and nothing does
at its end: `trader_logout` has no caller. So a name can log in once in the life
of the server, which the model has as the code does, and no property counts the
references of sessions (those of orders are counted in `Exchange`). What the
header says of sends, that they are "properly serialized", is stated with the
exceptions these things make of it:

- `OneSessionPerTrader`: the trader of a session that is logged in has its descriptor,
  and no two traders have one name;
- `AccountsPersist`: a trader keeps its place and its name, and a session that
  gets in, the first time or again, works on the trader of the name it asked for;
- `SendsSerialized`: two threads write to one client at once only if one is a
  broadcast, through a trader whose mutex `trader_login` had not initialized when
  the broadcast found it, or through one that the client's session has
  left by another LOGIN;
- `SemReleased`: `sem_traders` is held for good only by a thread that waits for the
  mutex of one trader, because somebody writes under that mutex to a client that
  does not read, or because others take the mutex each time it is free.

`TraderTable_sessions`: two service threads, three names and three places: two
traders of one session beside the other's, and a full table. 915,789 distinct
states. Fairness is of the threads' own steps; no client has to ask for anything, and none has
to read: the end of a send (`SendEnds`) has no fairness, as the code sets no
timeout on a socket (`trader.c:131`). Not in the model: that a packet cannot be
sent at all to a client that is gone (`SIGPIPE` is not handled and ends the
server), and that as it stands no packet is ever dispatched (first finding).

`TraderTableProofs` proves the three safety properties for any threads, names and
size of the table: `SingleSession` (`OneSessionPerTrader`), `Persistence`
(`AccountsPersist`) and `Serialization` (`SendsSerialized`), the last two action
properties. Its invariant (`Invariance`) says who has `sem_traders` at each point
(`SemInv`), which traders of the table are initialized: all but the one that
the holder of `sem_traders` is adding (`ReadyInv`), where the trader of each session is
(`PlaceInv`), that its descriptor is the session's (`FdInv`) and its name the one
asked for (`NameInv`), who has which mutex (`MutexInv`) and who writes
where (`SendInv`). `SendInv` is what the exceptions come from: a session writes only to its own
descriptor, so that two writers to one client are a session and the
broadcast; and as long as the broadcast has the mutex of an initialized trader, it writes to that
trader's descriptor. Then the two hold the same mutex, unless the session's trader is
another one. Assumed: the broadcaster and the mark for nobody are no sessions
(`ThreadAssumption`, `TableAssumption`). Model-checked only: `SemReleased`.

## The job spooler: `Jobber`

The main process is single-threaded and SIGCHLD only sets a flag, so a command
is one step, and so is an iteration of the `waitpid` loops of `handler` and
`jobs_fini`; runner processes take steps in between. `pc` is where the main
process is: about to call the signal hook of `sf_readline` (`hook`), in its
loop (`reap`), waiting for input (`prompt`), in `jobs_fini` (`fini`).

| action | code |
|---|---|
| `Enable`, `Disable` | `jobs_set_enabled` |
| `JobCreate`, `JobExpunge`, `JobCancel`, `JobPause`, `JobResume` | `job_create` and so on, with `run_task` up to the fork |
| `HookBegins`, `ReapEnded`, `ReapChanged`, `ReapNone` | `handler` |
| `SignalWakes`, `Keystroke` | `sf_readline` |
| `Quit`, `FiniReap`, `FiniDone` | `jobs_fini` |
| `RunnerGroup`, `PipelineEnds`, `RunnerExits` | the runner in `run_task` |

`runner`, `event` and `task` are what the kernel knows: a process that has
ended is a zombie until it is reaped; a stop or continuation is reported once,
and a later one replaces it. `sawstop` is whether the runner's own `waitpid`
reported that its pipeline stopped. When a group gets SIGSTOP its members stop
one after the other, so the runner may or may not see it; both are possible
steps. A task is one pipeline. The bound `MaxForks` is on the number of
runners in a behaviour, each with a pid of its own.

The model is of the operations as `jobber.h` offers them. The `main.c` of
lab4 does not get that far: it calls `jobs_init` at every command
(`main.c:32`), returns at pause, resume, cancel, expunge, status and jobs
(`main.c:69-105`), and passes `job_create` a pointer into the line, which that
frees (`jobs.c:135`).

- `Jobber_safety`: three jobs and two runners, so that jobs wait for a runner,
  rows are freed and used again, and two runners end, stop or continue
  between two calls of the handler.
- `Jobber_live`: two rows with three runners in all. Processes that can run do
  and pipelines end (`WF` of `Runner`); the main process runs; and the user
  types something at times (`WF` of `Keystroke`), without which the early
  return of the handler at a stop would leave what it has not reaped. That
  ends are noticed is claimed only if the user stops pausing and resuming,
  because each of these may make the handler return early once more.

Spooling, pausing and the rest need no fairness: nobody has to issue them.

`JobberProofs` proves the safety properties for any numbers of jobs, runners and
forks (at least one row and one runner, `TableAssumption`):
`EveryRunnerAccounted` (`RunnersAccounted`), `RunnersInUse` (`NoIdleRunner`),
`NothingLeft` (`QuitLeavesNothing`) and the action property `JobsLiveOnce`
(`JobLife`). The invariant adds that no two rows have had the same runner
(`OwnRunner`: rows keep the pid of a job that is over), so that a pid reaped
finds its own row and no older one; that the runner of a cancelled job has
ended (`Rests`), so that in `jobs_fini` no process is left that could stop and
be counted out twice (`QuitInv`); and that the flag is up from the call of the
handler until it is through (`WaitInv`), so that waiting jobs are started after
the last end. Starting several jobs at once is a matter of counting: the jobs
in front of a job are its `Rank`, the ranks of a set are the numbers below its
size (`RankOnto`), so the loop takes as many as there are runners left and no
fewer (`FirstAffordable`).

## The allocator: `Sfmm`

`mem` is the heap word by word: each word remembers whether a header, a footer,
a list link or a user's data was stored in it last. Sizes and addresses are in
units of 16 bytes; the heads of the free lists lie at negative addresses.

| operator or action | code |
|---|---|
| `add_free_memory`, `delete_element`, `Take` (the split), `Grow`, `search_block` | the functions of the same names, `big_block` |
| `sf_malloc` with `InitHeap`, `sf_free` with `Rejected`, `ClearPrev`, `Move`, `Shrink` | `sf_malloc`, `sf_free`, `sf_realloc` |
| `Malloc`, `Free`, `ReallocMove`, `ReallocShrink`, `FreeAgain` | the calls of a program, which then fills its block |

`Intact` states when a heap is sound (`Tiled`, `Coalesced`, `Listed`,
`Unharmed`), and a behaviour ends with the first call that leaves it unsound:
`CHECK_DEADLOCK` is off. It is not an invariant of this code. The
bit for the block before is looked at in the headers of allocated blocks only:
growth may leave it wrong in that of a free one (`sfmm.c:237`, against
`sfmm.h:47`), which is not counted.
`DamageKnown` states exactly which legal calls break it:

- freeing a block that lies before a free one, when the block behind both is at
  least as large as the free one: its footer is written relative to the wrong
  block (`sfmm.c:422`, `sfmm.c:461`: `temp3` from `temp` instead of `temp2`),
  over the footer just written or into a payload;
- `sf_realloc` to a block of the same size, which copies 16 bytes more than the
  payload (`sfmm.c:567`), or of a block whose predecessor is free, which is
  marked allocated all the same (`sfmm.c:569`);
- `sf_realloc` to a smaller size, when the footer of the block behind is
  written relative to the tail (`sfmm.c:599`) and hits something.

All other sequences of calls keep the heap sound. `SpaceIsFound` is that no
page is asked for, and no NULL returned, while a gap between the blocks in use
would do. `DoubleFreeAborts`: `sfmm.h:223` promises an abort for an invalid
pointer; a block that was freed with both neighbours free is freed again.

`Sfmm_calls`: three users, pages of eight units, two pages, three lists,
requests of three sizes, seven calls: blocks with any combination of free
neighbours, splits, exact fits, growth onto a free and an allocated block, and
exhaustion. The code has 256 units to a page and nine lists; sizes enter the
code only through comparisons with 32 bytes, the classes and each other.
`sfmm.c` opens a comment in line 8 that ends in line 37 only, so that its
`add_free_memory` is not compiled; the object file under `lab3/build` has it,
and a `test_block` that has no effect. The model is of that build.

## The tree serializer: `Transplant`

A behaviour is one run of the serializer followed by one of the deserializer.
The path is `path_buf` as its components with `path_length` as a number; every
push and pop changes both as the code does, also where they disagree, and with
the size of the buffer, `PATH_MAX`: `path_push` tests the length it counts and
leaves the string as it is when that is too long, which its callers ignore (the
directory is then entered again under its own path), and `dir_name_concat` tests
nothing. Either way the run is in phase `overrun` and ends there.

| action | code |
|---|---|
| `SerializeDirectory`, `SerializeFile`, `EndOfDirectory`, `EndOfTransmission`, `PushTooLong` | `serialize`, `serialize_directory`, `serialize_file` |
| `EnterDirectory`, `LeaveDirectory`, `ConcatTooLong` | `deserialize_directory` |
| `MakeFile`, `ConcatTooLong` | `deserialize_file` |
| `BadMagic`, `Misread`, `WrongRecord`, `Finish`, `Error` | the ends of the loops in `deserialize` and `deserialize_directory` |

Records are abstract but have their lengths, so that a reader that leaves four
or twelve bytes too many meets the rest of a record. A file's content is its
size, the number of bytes before the first 0xFF, where the loop over a `char`
stops (`transplant.c:531`), and whether it begins with the three bytes that begin
a record. What is left over from a name or from such a file is `text`, in which a reader
may find that sequence and read a record of the file's own making (`Misread`), one
that ends the top directory included; in what is left of other records
there is none. A reader that does not find the sequence has used up one to three bytes.

`Transplant_roundtrip`: all trees of up to three entries, names of one, two and six
characters, three bases, the deserializer with a base of its own, four contents,
every order of `readdir`, a file in the way or not, with and without `-c`, in a
buffer of 21 bytes: the longest paths of three names do not fit it, some by the
count of `path_push` and some only by the string. 293,132 distinct states.
What it shows:

- `PathsFollow`: the path is right throughout, except with a base of less than
  three characters and very short names deep down: `path_push` does not count
  the '/' (`transplant.c:197`). With the same exceptions the buffer is too small only
  when the path of an entry is too long for it, or after the deserializer has dropped
  an error and gone on in the wrong directory. The serializer does go wrong on a
  tree with a path too long, and says nothing;
- `RoundTrip`: reading back fails only on a directory inside a directory (the
  inner end of directory leaves 12 bytes of its record unread,
  `transplant.c:290`), on a file with a 0xFF byte, or on a file in the way;
- `SuccessIsComplete`: `deserialize` ignores that `deserialize_directory`
  failed (`transplant.c:697`), which can end in success with part of the tree
  missing only behind a file that is in the way inside a directory and is empty
  or begins with the magic sequence: `transplant.c:697-713` compares
  bytes and cannot tell the contents of that file from records.

The depths in the records are not in the model, as no reader looks at them.

### Proofs

`TransplantProofs` proves `PathsFollow` for every tree of every depth, every base,
every table of lengths and every `PATH_MAX` (`PathStaysRight`). The assumption
`TransplantAssumption` says that lengths and `PATH_MAX` are numbers, a base is a
sequence of components that fits the buffer (`path_init` refuses others), and a tree
holds the directory of each of its entries. The property says when the path must be
right and the buffer large enough; it does not say where `path_length` is, and both
programs pop from there. The inductive invariant (`Invariance`) does:

- `TypeInv`: the types, with `stream` a sequence of records of positive length;
- `StackInv`: the open directories of the serializer are a chain in the tree, each
  with entries of its own still to be read;
- `PathInv`, under the property's conditions (`Fits`): in the serializer the string
  is the base and the directory in work, and `path_length` is at most its depth
  plus one below the length of the string, as `path_push` loses one more at each
  level and `path_pop` starts afresh at a '/'; in the deserializer the string is the base and
  names of the tree, at least as many as calls are in progress, and
  `path_length` is at most one short;
- `OverInv`: the buffer is overrun only without `Fits`, with a path of the tree
  that does not fit (`Room`), or in the deserializer of a stream that makes it drop an
  error (`Disturbed`). As long as nothing has been dropped the deserializer's string
  is its base and the path of an entry, which `CopyInv` below says.

A name longer than its depth then makes up for what is lost: the scan of
`path_pop` starts inside the last name and stops at the '/' before it
(`Popped`, `Followed`). `Slash` and `Steps` are recursive functions on positions; what they
do to a string with a name appended is proved from a least counterexample
(`SlashUp`, `EndAppend`, `StepsAppend`, with `Recurrence` and `Ascent` of `SetLemmas`). Each action has
a lemma for the types and the stack (`...Shape`) and one for the path (`...Path`).

`RoundTrip` (`FailsForAReason`) and `SuccessIsComplete` (`SuccessMeansComplete`) are
proved for every tree, base, file in the way and order of `readdir`, without the
conditions on lengths: a run that leaves its path or its buffer is over in either case. They
relate what the second program has made to the stream of the first, so the
invariant (`CopyInvariance`) has to say what that stream is:

- `Text(q, at, rest, end)`: a stream is the code of the items `q`, the entries in
  the order they were met and an end for each directory; `at[k]` is the directory
  around item `k`, `rest[k]` the stream from it on. No entry comes twice.
- `SerInv`: while the serializer runs the stream is such a text of the entries
  already met, ending in the directory in work, and every entry of the tree not in
  it is still to be read in an open directory or below one that is (`Covered`).
  When the last directory is read the text therefore has the whole tree
  (`AllCovered`).
- `CopyInv`: the deserializer is at some item `k` of a text of the whole tree
  (`SyncAt`): the stream is `rest[k]`, `path_buf` names `at[k]`, as many calls are in
  progress as that is deep, and the disk holds exactly the entries before `k`, over
  what was there before. Or it is `Lost`: behind the 12 bytes that the end of an
  inner directory leaves, or behind the header of a file that was in the way, with
  no magic sequence next. From there it can only fail, at once or after one more
  byte.

The conditions of the two properties enter where they are needed: `Lost` arises
only with a directory inside a directory or a file in the way; a file cut short
leaves less in the stream than its header says; and behind the header of a file in the way inside a directory the next
record is taken for one of the top directory if the file is *empty*, and the
file's own bytes are if they begin with the magic sequence (`Promised` excludes these). The items are
not variables of the model. For TLC they were kept in two history variables of a copy
of the module, with which `CopyInv` holds on the instance of the run; without `Lost`
it does not. Each action has a lemma `...Text` or `...Copy`.

## The rolodex's files: `RoloFiles`

Instances of the program take steps that are one system call each, or none; what
`exit` writes from the buffers of files still open is a step of its own for each file.
Files are inodes with contents, so that a file renamed while another instance
writes to it is still the same file.

| action | code |
|---|---|
| `Start`, `Creat`, `Look`, `Lock`, `TryTemp`, `Open`, `Read`, `PrintEntries` | `rolo_main`, `read_rolodex` |
| `Edit`, `Save`, `Quit` | `interactive_rolo` and what it calls |
| `SaveTemp`, `SaveCopy`, `WriteRolo`, `CloseTemp`, `CloseCopy`, `Backup`, `Install` | `save_to_disk`, `write_rolo` |
| `Unlock`, `FlushTemp`, `FlushCopy`, `Exit` | `roloexit` and `exit` |
| `user_eof`, `user_interrupt` | the functions of these names; an interrupted save goes on to `FlushTemp`, `FlushCopy`, `Exit` |
| `Crash`, `RemoveLock` | a kill; the user's `rm` that `helplib/lockinfo` recommends |

`saved` is what users were told is saved, and `past` what has happened that
the code does not protect against. Each property names the ones it excludes,
and TLC finds a counterexample when any of them is not excluded:

- `eof`: `user_eof` removes the lock before it saves (`rolo.c:105`), and
  whoever's lock it is: an instance with `-l`, which has none, does the same;
- `unlocked`: a `-l` instance may write but makes no lock; two of them, or one
  and an instance that came later, write the same temporary file and lose each
  other's changes (`rolo.c:365`). `doc/rolo.1:29` describes another program:
  one that unlocks once the file is read;
- `overtaken`: an interrupt in a save removes the lock and then calls `exit`, which
  writes what is left in the buffers (`rolo.c:92-96`); so does `roloexit` after a
  failed `fclose`, for the copy (`rolo.c:142-145`). Another instance can lock, open the same
  `.rolotemp` or `.rolocopy` to save and even rename it in between; the late bytes
  then go into its file, which may be the data file by now;
- `late`: an interrupt after `roloexit` has removed the lock removes it once
  more, when it may be another instance's (`rolo.c:94`);
- `creat`: an instance that starts between the two renames of a save finds no
  data file and creates an empty one (`rolo.c:329`); without a crash the
  second rename repairs it, after one the saved entries are in the backup only;
- `changed`: an instance that reads while the file is truncated ends by `exit`
  and leaves its lock (`io.c:74`).

`RoloFiles_instances`: two interchangeable instances, started three times in
all, with two changes, each with the lock, with `-l` or as a reader; a crash or
an interrupt at any step, a full disk at each `fclose`. 4,359,007 distinct states.
`CHECK_DEADLOCK` is off: when all starts are used up, nothing happens any more. A crash is
that of a process: what was written stays. Nothing is claimed of the end of the
machine, as the program never calls `fsync`.

`RoloFilesProofs` proves the three properties for any finite number of instances
(`ProcsAssumption`), any starts, options and changes: `LockIsWriters`
(`LockTellsWriter`), `NothingLost` (`SavedIsKept`), `WholeFiles`
(`NothingTorn`), with the exceptions above as they stand in the properties. The
invariant says which files an instance has open at each of its points
(`PointInv`), that the lock is that of the one instance that is locked
(`LockInv`, `WritersInv`), that no two names are of one file (`DirInv`), that a
writer's files are `.rolotemp` and `.rolocopy` and nobody reads those
(`FilesInv`), that who has opened a file to save has it alone, because those that left
have written theirs or have been overtaken (`OpenInv`), that what was written and closed is all that is in core
(`WholeInv`) and that what is saved is in the data file, or in the backup while
there is no data file, and in the writer's core (`SavedInv`). A new file needs an
inode that no name and no open file uses; that there is one, four names and
three files per instance, is `FreshExists`.

## The rolodex's list: `Rolodex`

The links with their pointers as they are, also those of links that were
deleted. `screens` is the call stack: scans, searches, the choice between
matches, and single entries, each with the link it is at.

| action | code |
|---|---|
| `rolo_insert`, `rolo_delete`, `rolo_reorder`, `Loaded` | `rlist.c`, `read_rolodex` |
| `rolo_add`, `PeruseAll`, `Search` | the main menu, `rolo_add`, `rolo_peruse_mode`, `rolo_search_mode` |
| `NextMatch`, `Continue`, `Abort`, `Previous` | `display_list_of_entries` |
| `PickNone`, `Pick` | the choice in `rolo_search_mode` |
| `Delete`, `Scan`, `Update` | `entry_action`, `rolo_update_mode` |

`Rolodex_screens`: up to three entries of two names, scans nested twice, seven
calls of the user. An entry may have a field that was never set, or fields of
the user's own, because both end the program in places: `fault`. What it shows:

- `ListWhole`, `ShownBelongs`: deleting, updating and scanning on several
  screens leaves the list whole and shows only entries that are in it, except
  after an entry was renamed in a scan within a scan, which moves a link that
  an outer screen goes on from and may insert one that was deleted;
- `InOrder`: entries stay in order, except when the name was changed and then
  another field in the same update (`update.c:182`).

Not claimed: anything after the first pick in a list of matches is match number 0,
which shows an uninitialized pointer (`search.c:317`); a later 0 shows again what was
picked last, which the properties do cover. An entry whose name is left empty is
not modelled: its name stays NULL (`operations.c:159`), which ends the program as soon
as it is compared with another entry's (`rlist.c:106`).

Proofs (`RolodexProofs`): `WholeList`, `Ordered` and `ShownInList` state
`ListWhole`, `InOrder` and `ShownBelongs` for any numbers of links, names,
listed matches, nested scans and calls. `RolodexAssumption` says only that
these bounds are numbers, that there is a name, and that the file has no more
entries than there are links.

None of the three is inductive. A link that was deleted keeps its pointers
(`rolo_delete`), a screen goes on along them after a deletion further up the
stack, and whether that leads back into the list, or to an entry that is gone,
depends on where those pointers go and on which flags the upper scans have
cleared. The invariant (`IInv`) says so with

- `Linked`: the pointers of the entries in the list agree in both directions,
  and the ends are the ends;
- `Ranked`: there is a set `D` of links, those in the list and some that were
  deleted, and an order on it along which all pointers go; from every link of
  `D`, deleted or not, the pointers pass over no entry that is in the list.
  With it, following `MaxLinks` pointers from `Begin_Rlist` visits every entry
  (`ChainWhole`), and there is no cycle;
- `Below`: a screen under another one is at a link of `D` whose next link is
  among those that the scan on top of it began with and will clear of flags
  when it ends, whatever has been deleted between the two;
- `TopOK`: what the innermost screen will come to lies in a set of links that
  no pointer leaves and of which only entries of the list are flagged (and in a
  search, only hits). So a scan on its way through deleted links stops only at
  an entry that is there;
- `Sorted` and `StackOK`: the order, and that only the innermost screen can be
  other than a scan on display.

A deletion redirects one forward pointer, from the link before past the deleted
one, so it keeps the order of `D` and every chain that a screen below depends
on (`DeletedRanked`, `DeletedBelow`). An insertion happens only with at most one
screen open, unless it is the renaming in a nested scan that the properties
except; then nobody depends on deleted links, `D` can start again from the list,
and the new link gets a rank between its neighbours' (`InsertedRanked`). That
`rolo_insert` keeps the order of names is `InsertedSorted`, and with it
`rolo_reorder` of a file in any order gives a list that is whole and in order
(`LoadedWhole`). The functions that follow pointers, and `rolo_reorder`, compute
values one from the other; that such sequences exist and have the values of
their definitions is `Recurrence` of `SetLemmas`, from a least counterexample.

## Findings

- `ClientRegistry_first_packet`, a run that TLC ends with a counterexample:
  `proto_recv_packet` returns 0 when it has received a packet and the service
  loop ends at 0. As it stands the server serves nobody; the models of the
  exchange and the traders are of the modules' operations as `server.c` calls
  them.

Met while modelling and not made into runs (those of lab1, lab2 and lab3 are also in
the sections above, as the exceptions that the properties name):

- the cost of a buy order is computed in 32 bits (`exchange.c:125`): one whose
  cost is a multiple of 2^32 is posted for nothing, against
  `exchange.c:109-110`;
- the token that the last client to leave gives `creg_wait_for_empty`
  (`client_registry.c:69`) stays when others come after it: the wait then
  returns with clients registered, against `client_registry.h:64-65`. It
  waits for a transition to zero, not for zero, so a server no client ever
  used never exits (`client_registry.c:80`; hence the premise of
  `ExitsOnceUsed`). The last thread out posts `connections` before it is done
  with the registry (`client_registry.c:70`);
- a broadcast can find a trader before its mutex is initialized
  (`trader.c:73`, `trader.c:85`), against `trader.h:117-119`; a full table
  refuses logins of traders it knows (`trader.c:56`, against `trader.h:58`);
- a LOGIN is honoured in a session that is logged in (`server.c:33`), against
  `server.h:37-38`, and then two mutexes guard one client's connection, against
  `trader.h:117-119`; the NACK of a refused LOGIN is sent under none
  (`server.c:36-40`). `trader_logout` has no caller: a name can log in once;
- CANCEL is answered the wrong way round (`server.c:128`); a failed login ACK
  ends the thread without unregistering (`server.c:44`); a sell order at
  `UINT32_MAX` is quoted as none (`exchange.c:97`);
- a runner takes the stop of its pipeline for its end (`jobs.c:287`): a job
  that is paused and resumed is COMPLETED while its task runs on, against
  `jobber.h:35` (`JobLife` says so with `sawstop`); a waiting job that is cancelled
  becomes ABORTED (`jobs.c:344-346`), where `jobber.h:33-34` and `jobber.h:206-208` have
  it CANCELED (`JobLife` names this as the one difference); `fork` failing counts as a
  runner (`jobs.c:152`); the search for a free row looks one row too far
  (`jobs.c:121`);
- the serializer: at `PATH_MAX` a push is refused and the refusal ignored
  (`transplant.c:199-205`, `transplant.c:454`, `transplant.c:594`), and the deserializer's concatenation is not bounded; an
  incomplete copy can end in success (`transplant.c:697`);
- the rolodex: an interrupt gives the lock away before the buffers are written
  (`rolo.c:92-96`); an entry with an empty name ends the program (`rlist.c:106`); an entry with fields of the user's own cannot be updated,
  because `copy_entry` sets the copy's array to NULL (`update.c:77`); a field
  never filled in stays NULL, which ends the program when it is searched or
  updated, and is saved as "(null)"; `match_by_name_or_company` never advances
  (`search.c:136-146`; nothing calls it); backing up from the user's own
  fields keeps a deleted one (`operations.c:215`).

## On the proofs

All theorems are of the form `Spec => []P`, or `Spec => [][A]_vars`, or say that
one specification implements another (`Refinement`, `StepsAreMarketSteps`), for all
values of the constants that satisfy the named assumptions; the bounds of the
runs (`MaxOrders`, `MaxFundings`, `MaxForks`, `MaxStarts` and so on) are
arbitrary numbers there. Each inductive invariant was checked with TLC on the
instances of the runs before it was proved; those of the registry, the traders,
the spooler, the serializer and the rolodex's files and list are in the proof modules, as only
proofs need them (that of the list was checked with six calls and two names,
because it quantifies over all orders of the links).

A convention of the models that are proved about: a step that changes several
fields of a record in a function does so by one `![i] = [@ EXCEPT !.a = ..., !.b
= ...]`, and no `EXCEPT` has two entries that could be the same place, because
the prover's SMT translation takes such entries for independent ones.

Only model-checked, because the prover cannot do it: liveness (temporal
properties under fairness) of all modules, and what the RECURSIVE operators of
`Sfmm` compute, whose properties walk the heap from block to block.

## Not modelled, and why

Text, layout and byte order of packets; logging; `csapp.c` and the tool
libraries of lab2, which come from outside; parsing of arguments and tasks;
menus, help and printing of entries; the getters of the job table and
`exchange_get_status`, which only read. Signal delivery to other threads than
the main one and a second SIGHUP. What a damaged heap does next. Streams that
`transplant -s` did not write.

## Plan

1. Done: `Exchange` with its refinement, `ClientRegistry`, `TraderTable`,
   `Jobber`, `Sfmm`, `Transplant`, `RoloFiles`, `Rolodex`, and the proofs of the
   safety properties of `Exchange`, `ClientRegistry`, `TraderTable`, `Jobber`,
   `RoloFiles`, `Rolodex` and `Transplant`, and of the refinement of `Market`.
2. The replies of `server.c` with the unlocked reader of the quotes, once the
   service loop serves more than one packet.
