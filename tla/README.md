# TLA+ models of the XDAG wallet for Android

This directory models the logic of the wallet in `src/xdagwallet`: the native
light node (`app/src/main/cpp/xdaglib`), its JNI bridge
(`app/src/main/cpp/libxdag_jni.cpp`) and the parts of the Java application that
drive it (`app/src/main/java/com/xdag/wallet`).  The modules are translated from
the code, action by action; `PROJECT.json` maps every definition to its lines.

Contents: [1 The system](#1-the-system) · [2 Plan](#2-plan) ·
[3 The modules](#3-the-modules) · [4 The runs](#4-the-runs) ·
[5 Findings](#5-findings) · [6 Fairness](#6-fairness) · [7 Proofs](#7-proofs) ·
[8 Not modelled](#8-not-modelled) · [9 How to run](#9-how-to-run)

Short names for paths: `client/`, `dnet/`, `dus/`, `ldus/` and `wrapper/` are
directories of `src/xdagwallet/app/src/main/cpp/xdaglib`; Java files are under
`src/xdagwallet/app/src/main/java/com/xdag/wallet`.

## 1 The system

The application is one process.  `XdagService` owns a handler thread; on the
message MSG_CONNECT it calls into native code, which runs `xdag_main`
(`client/xdagmain.c`).  That opens the key file (asking the user for a password
through the UI), reads the wallet's keys, and starts two native threads: the work
thread of the block engine and the miner thread that talks to one pool.  A transfer
the user confirms runs on a Java thread of its own, which calls `xdag_xfer_coin`.
The wallet is always a light node: `g_light_mode` is 1 and never assigned.

```
 screens --events/answers-- XdagService ---MSG_CONNECT--> xdag_main
    |            (EventBus)     ^                            |  starts
    | transfer threads          | state, balance             v
    +------> xdag_xfer_coin     |          work_thread    miner_net_thread
                  |             |               |              |
                  +--- block engine (block_mutex, our blocks) -+-- pool socket
                  |             |                                 (g_pool_mutex)
                  |         local storage (storage_mutex)
                  +-- passwords asked through gWaitUiCond
```

| Component | State | Operations | Interacts through | Hard behaviour | What makes it correct |
|---|---|---|---|---|---|
| Wallet engine threads: `client/block.c` 700-1350, `client/pool.c`, `client/xdagmain.c` 160-316 | `g_xdag_state`, `g_xdag_sync_on`, list of our blocks, `g_balance`, `g_socket`, `g_crypt` | load, choose state, clear; connect, read fields, set balance, quit; transfer | `block_mutex`, `g_pool_mutex`, unlocked globals | two mutexes in two orders; callbacks under a mutex; state read under a mutex and used after it; a reset in the middle of everything; cleanup of a quitting thread | mutexes released on every path; transfers end; the list of our blocks is sound; the balance is the sum of our blocks; a reset is neither lost nor endless |
| Local storage: `client/storage.c` | block files, tree of `sums.dat` files, `storage_mutex` | save, load with correction, load sums | called by the engine and by a peer's request | several files changed one after the other: kills, write failures, a load beside a save | entries equal the blocks below them; loss per kill bounded; files' own entries repaired |
| Connection mutex: `dnet/dthread.h` | ticket counters | lock, unlock | all senders on a connection | counters wrap; order of waiters | exclusion, FIFO order, nobody starves |
| User prompts: `libxdag_jni.cpp`, `dnet/dnet_crypt.c` 64-466, four screens, `XdagService` | answer slot, condition, events, dialogs, screen in front, key file | ask, notify, open or create the key file, authorise a transfer | condition variable between native threads and the UI thread | one slot and one condition for all askers; spurious wake-ups; screens that ignore events; key file truncated before the question | own answer to own question; dialogues end; a good key file is never lost |
| Block validation and main chain: `client/block.c` 1-870 | blocks, links, difficulty, main chain | add block, set and unset main, apply and unapply | storage, engine | recursion over links, reorganisation | amounts conserved, unapply undoes apply |
| Connect and reconnect: `XdagService`, `XdagMainActivity`, `xdag_main` | `isConnected`, native globals | connect, state events, connect again | handler messages | `xdag_main` run a second time beside running threads | at most one set of threads, mutex initialised once |
| Pool stream: `client/pool.c` | field counters, field cipher, task and shares | send, receive, mine | socket | counters advanced before a write that fails; orderly close of the peer | both ends decrypt with the same counter |
| Transport: `client/transport.c` | sorted table of connections, one request slot | arrive, request, broadcast | dnet packets | late replies, timeouts | a reply reaches its own request only |
| Block synchronisation: `client/sync.c` | wait list hashed by block and by missing parent | push, pop | transport, engine | a block that waits for several parents one after the other; failures under a mutex | nothing waits for a block that is there |
| dnet packets and sessions: `dnet_packet.c`, `dnet_stream.c`, `dnet_connection.c`, `dnet_crypt.c` | session keys and counters, command table | send, receive, close | connection mutex | packet and padding as two writes; close frees the session | stream positions agree; no use after close |
| dnet threads: `dnet_threads.c` | list of threads with `to_remove` marks | create, exchange, watch, collect | list rwlock, connections | two-pass garbage collection | no record freed while used |
| dnet host database, commands, tap, log | hosts; text | look up, update | - | - | - |
| Host database file: `client/netdb.c` | hosts of three lists | monitor, query | - | not started by the app | - |
| Wallet keys: `client/wallet.c`, `client/crypt.c` | array of keys, key file | new key, load | engine | append before check, duplicates after a failure | a key keeps its number over restarts |
| Start-up and commands: `client/xdagmain.c` | inputs, keys and amounts gathered by a transfer | transfer, text commands | engine, prompts | the amount checked before the dialog; a block's limit of fields | inputs are covered; what was asked is gathered |
| Transaction history: `transaction/TransactionManager.java` | pages, countdown, index of the current wallet | fetch, handle page | worker thread, HandlerThread | a page that fails stops the count; two checks interleave | every check ends once |
| Hash, memory, address, log, dfs cryptography, ldus containers | none of their own | pure functions, containers | - | - | - |
| Vendored: OpenSSL, rvhelperlibrary, zxing | - | - | - | - | - |

In this application several parts are compiled in but never reached:
`dnet_init` only initialises and starts no thread, so no packet of another node
arrives (transport, synchronisation and requests wait for nothing);
`xdag_netdb_init` and `xdag_uninit` are never called; no screen uses
`TransactionManager`.  They come last in the plan.

Every hazard of this code that tests hardly reach is listed in `PROJECT.json` with
its line and the properties that catch it, or a note why none does.  Beside those: a late reply of
a request writes into a buffer that is gone (transport.c 191), and the collector of dnet threads
may free a record in use (dnet_threads.c 280), both in code that the app does not reach.

## 2 Plan

Done, in this order (the first is the core of the program):

1. `WalletEngine` with `MCWalletEngine` and `WalletEngineProofs`: the threads of a
   running wallet and what they share.
2. `StorageSums` with `MCStorageSums` and `StorageSumsProofs`: the storage the engine saves into.
3. `TicketLock`, refining the abstract `FifoMutex`; its proofs are in `PacketStreamProofs`.
4. `UiPrompts`, proofs in `PromptsKeysProofs`: the questions native threads ask the user.
5. `MainChain` with `MCMainChain` and `MainChainProofs`: the block graph, the main chain and what it pays.
6. `PoolStream` with `PoolStreamProofs`: the byte stream to the pool, with reconnecting.
7. `WalletKeys`, proofs in `PromptsKeysProofs`: the key file over starts, kills and failures.
8. `XferSelect` with `XferSelectProofs`: how a transfer gathers its inputs.
9. `SyncWait` with `MCSyncWait` and `SyncWaitProofs`: blocks that wait for the blocks they
   link to.
10. `PacketStream` with `PacketStreamProofs`: the senders of a dnet connection, composed
    with `TicketLock`.

Left, and why it comes last:

| Module | Would model | Why not yet |
|---|---|---|
| `DnetThreads` | thread list, collector in two passes, exchanger, watchdog | its protocol is wall-clock age; the application starts none of these threads |
| `Requests` | sorted table of connections, the one request slot, late replies | a light wallet sends no such request and dnet has no thread here |
| `History` | pages and countdown of `TransactionManager` | no screen uses it |

More to prove about what is here: `Conserved` and `LedgerIsReplay` of `MainChain`.  Proved of
them is what happens at one block, `TransfersConserve` and `TransfersUndone`; section 7 says what is missing.

## 3 The modules

### WalletEngine

Three kinds of threads with a program counter each.  A step is one critical
section, or one access without a mutex where another thread can tell the
difference.

| Model | Code |
|---|---|
| `blockOwner`, `poolOwner` | `block_mutex` (recursive: nested locks of its owner belong to the owner's step), `g_pool_mutex` |
| `ours`, `amount`, `balance` | list `ourfirst`..`ourlast`, `bi->amount`, `g_balance` (unsigned; wraps at `Wrap`) |
| `state`, `syncOn` | `g_xdag_state`, `g_xdag_sync_on` |
| `open`, `crypt` | `g_socket >= 0`, `g_crypt` not NULL |
| `recvFresh`, `xferRecent` | ages of `g_xdag_last_received` and `g_xdag_xfer_last` against 3 and 2 periods; `RecvStale` and `XferOld` are the passing of time |
| `Work*` | `work_thread`, block.c 987-1109; `WorkClear` is what REST does: the engine's blocks are dropped |
| `Xfer*` | `xdag_xfer_coin`, `xdag_traverse_our_blocks`, `xdag_create_block`, `xdag_send_block_via_pool`, `send_to_pool` |
| `Miner*`, `SetBalance*`, `Cleanup*` | `miner_net_thread`, `xdag_set_balance`, `miner_net_thread_cleanup` |

Abstractions.  The pool's 16 bytes with our hash are the only field that changes
state; other fields are the turn of the loop that reads none.  An amount is
transferred from one input in one block: `OnlyFirstFunded`, checked and proved,
shows that only the first of our blocks ever has coins in a light wallet, and the
walk stops at the first block without coins.  Blocks made by a transfer are
identified with their transfer.  Poll and cipher are the order of the accesses to
`g_socket` and `g_crypt`; the counters of the stream belong to `PoolStream`.
`PoolFaults` lets every use of the socket fail, and the pool stop reading (`XferStalls`: the
sender polls on, with both mutexes held, until the socket's buffer drains or the socket breaks, if ever).  `StorageFaults` lets every read of a
stored block fail, which is where the code asks for a reset.

### StorageSums

`stored` is what the block files hold, `made` which of them exist; `sums` has one number per
entry of every `sums.dat`, named by the path of the child it belongs to, and `table` says of each
`sums.dat` whether it is absent, empty (created and not written), whole, or was truncated (`cut`,
and `wiped` once it is written again).  A step is one call that touches a file.

| Model | Code |
|---|---|
| `Save`, `SaveAppend` | `xdag_storage_save` up to the sums: open or create the file; append (what `fwrite` returns is not asked: `ghosts` are files whose entry counts a block they have not) |
| `OpenSums`, `CreateSums`, `RejectSums`, `TruncateSums`, `OpenFails` | the opening of a sums file (storage.c 44-60): read; created empty; refused for good as too short; created anew because opening it to read failed once; not opened at all |
| `Agree`, `Write`, `WriteFails`, `Up` | the comparison of a load, the written entry, the next level |
| `LoadRead`, `LoadSkip`, `LoadCorrect`, `LoadDone` | `xdag_load_blocks`, whose `storage_mutex` is released between the read and the comparison |
| `Serve` | a load of the blocks of an interval for a peer, while the wallet runs |
| `Kill` | the process ends anywhere and is started again |

`level` and `saving` serve the saver and the loader alike, since both work on the sums under
`storage_mutex`.  Sums count blocks instead of adding sizes and hash words; that equal counts may stand for
different blocks is in `Needed`.  A file is read in one batch (1024 blocks in
the code); the append of one block is atomic; the tree has 3 levels (4 in the
code).  A load may count any part of a file: an interval that cuts it, or a read that fails.

### TicketLock and FifoMutex

`FifoMutex` promises: threads join a queue and the head of the queue is inside.
`TicketLock` is `dthread_mutex` with its two counters that wrap at `W` (2^32 in the
code, with the atomic increments that `atomic.h:12` selects).  The
refinement mapping orders the waiting threads by the distance of their tickets from
`head`.

### UiPrompts

`Ask` is `XdagWalletProcessCallback` up to the wait; `Notify` is
`XdagNotifyNativeMsg`, whose `insert` keeps an answer that is already in the map
and whose signal wakes one waiting thread.  The screens are the four activities
that subscribe to the events: `AnswersItself` and `OpensDialog` say which screen
does what with which event, from their `onEvent` methods.  A stopped screen behind
the front one cannot show a dialog (the exception ends in EventBus).  `Conn*` are the
three questions of `dnet_crypt_init`, `Xfer*` the password of a transfer.  `key` is
the key file: `short` is a file that exists and holds no usable key; it is what
opening the file for writing leaves.  `ConnStart` reads a good file (`KeyRead`) unless opening
or reading it fails, and then opens it for writing as it does when there is none (`KeyMade`), if that
does not fail too (`KeyNotMade`); `ConnFails` is a failed write of the new key.  `faults` counts these
failures.  `mixed` is a history variable: two threads
waited at once, or a wait ended without a signal.  Wallets are assumed to be
protected by a password, as the app makes them.

### MainChain

One action per call, since everything here runs under `block_mutex`.  The blocks
that may arrive are constants with their links, times, work and fees; `AddBlock`
is `add_block_nolock` from the checks of the links to the list of unlinked blocks.

| Model | Code |
|---|---|
| `known`, `node` | the tree `root`; `difficulty`, `link[max_diff_link]` |
| `top`, `pretop` | `top_main_chain`, `pretop_main_chain` |
| `chain`, `main` | flags `BI_MAIN_CHAIN`, `BI_MAIN` |
| `linked`, `norefs`, `ledger.ref` | flag `BI_REF`, `noref_first`, `noref_last`, the pointer `ref` (one field of the code serves the list and `apply_block`) |
| `ledger` | amounts, `g_balance`, our list in both directions, `BI_APPLIED`, `BI_MAIN_REF`, `nmain` |
| `Path`, `Youngest`, `Oldest` | the walks down over `link[max_diff_link]`, and the first and last block they meet |
| `Through`, `Total`, `Best` | difficulty over a link, of a block, and the link taken (545-565) |
| `Marks`, `StopAt`, `Away`, `Unwind`, `Lead` | marking (599-605), where unwinding stops (607-609), `unwind_main`, a new heaviest block |
| `Accept`, `Carry`, `Carried`, `Undone` | `accept_amount`; what `apply_block` and `unapply_block` do for one block |
| `Apply`, `Unapply`, `SetMain`, `UnsetMain`, `NewMain` | the functions of the code, with their recursion over links, and `check_new_main` |
| `Clear`, `Tick` | the reset of `work_thread`; the clock |

`Modes` says whether `g_light_mode` may be 0.  The application is built with 1, so the
full node is the code's but not the application's; both are checked.  Signatures,
hashes and the recording of back references are left out.  A walk down is the set of
blocks it meets: links lead to older blocks, so that the set and the times say the order.  Loops are
`Iterate`, whose n-th step is given by a function, and the recursion of `Apply` and `Unapply` is one
level of a recursive function for each unit of time, since a link leads to an older block.

### PoolStream

The socket of miner thread `m` is named `m`.  Both directions are sequences of
fields with the number and the key they were enciphered with; `nin` and `nout` are
`nfield_in` and `nfield_out`.  `Write` takes any number of fields, `MinerRead` any number of
halves of fields, so a read may end in the middle of one.  `StartCrypt` and `StartThread`
are a run of `xdag_main` up to a new miner thread; a second run replaces key and
counters.  `count` is the number the pool enciphers its next field with.  `PoolSends` and `PoolGoes` are the pool.  The model ends at `disturbed`: a second run
while a miner thread lives, or a miner's cleanup closing the socket under a sender;
from there on nothing good can be said, and `WalletEngine` shows what follows.

### WalletKeys

`file` is `wallet.dat` as a sequence of records with the number each was enciphered
with; `keys` is `keys_arr`.  `Create`, `AppendRecord`, `Enter` and their failures are `add_key`;
`InitOpens` to `Loaded` are `xdag_wallet_init`; `Kill` may come between any two steps.
`used` are default keys the wallet has worked with.  `lost` marks three things that may cost a
key, and the model ends there: the existing file is refused at open and taken for
missing; `xdag_wallet_new_key` (which the application does not call) while the number of keys is
not the number of records; an `fclose` that fails and is not asked.  A record is
written or not: 32 bytes never straddle a block of the file system.  Its names differ from those of
`UiPrompts` (`step`, `newKey`, `KeysInit`, `KeysNext`), since one proof module extends both.

### XferSelect

`Visit` is one call of `xfer_coin_callback` with the flush before and after the input
(`Gather`), `Fits` the size check of `xdag_create_block`.  `Ask` to `Walk` is
`xdag_xfer_coin`, with a balance report under the password dialog (`Report`).  The module checks
several blocks with coins and two keys, as a full node has (`Sums` are the coins of the first blocks of the list); a light wallet has coins in one
block only (`OnlyFirstFunded`).

### SyncWait

Each thread has a stack of frames, as `xdag_sync_add_block` and `xdag_sync_pop_block` call
each other; a step is one stretch between two changes of `g_sync_hash_mutex`, or one call
into the engine.  `waiting` is the list of all entries: a bucket of the code holds the
entries of one hash in the same order.  `fresh` is `REQ_PERIOD` against the age of an
entry.  `PushFails` is the failed allocation that leaves the mutex locked.  `Request` uses
the hash after the unlock: when its entry has been freed it may be any hash.  `Refuse` is any
negative result of `xdag_add_block` but the missing link, `Decide` the read of `g_xdag_sync_on`
(sync.c 135) after it: with synchronisation off the block is dropped.  `SyncOff`, `Clear` and `SyncOn` are the
reset of `work_thread`, which empties the engine and not the lists; `SyncOn` is also the end of
the start-up load, whose own blocks are left out.  `refused` remembers the blocks that were refused or
dropped and have not been taken or kept since.

### PacketStream

Extends `TicketLock`: the lock's actions are the lock and unlock of `conn->mutex`, the
senders are `dnet_send_packet` with `dnet_session_write`, and the reader is
`dnet_connection_main`, which makes the session, exchanges keys while it reads
(advancing `pos_write` without the mutex) and frees the session under it.  A unit of a packet has
its number; padding is `Pad`; a sector is written whole.  `socket` is what becomes of it
(`AfterWrite`): a write that waits too long shuts the socket down (dnet_connection.c 69-72), one that fails at once only
breaks off (75); a socket that failed is taken to fail from then on.  `PacketStreamProofs` proves that a
step of the connection is a step of the lock or leaves it alone.

## 4 The runs

Passing runs:

| Run | Bounds | States | Shows |
|---|---|---|---|
| `engine_safety` | 2 transfers, 1 stored block, 2 reports of 0 or 2, word of 8, all faults, symmetric transfers | 263 k | `TypeOK`, `BlockMutex`, `PoolMutex`, `OnlyFirstFunded`, `OursDistinct`, `BalanceIsSum`, `WalkIsStable` |
| `engine_live` | 2 transfers, 2 reports, all faults | 85 k | `TransfersEndOrHang`, `ResetCarriedOut` under fairness |
| `storage_all` | 3 blocks, 2 files, depth 3, 2 troubles (kills inside the mutex, failures, blocks left out), serving, all failures | 476 k | `TypeOK`, `ExactUndisturbed`, `LossBounded`, `LeavesRepaired` |
| `prompt_all` | 2 transfers, 2 connects, 1 failure of the key file, spurious wake-ups, a user who leaves | 308 k | `TypeOK`, `OwnAnswer`, `KeySafe`; `DialogueEnds` under fairness |
| `main_chain` | 12 blocks over 6 periods, two branches, two transfers that cannot both be paid, light and full | 13 k | `ChainOnPath`, `TopIsHeaviest`, `Conserved`, `LedgerIsReplay`, `OursSorted`, `NorefsExact` |
| `pool_stream` | 1 transfer, 2 runs of `xdag_main`, 2 messages of the pool, blocks of 2 fields | 202 k | `OutAgrees`, `InAgrees`; `LossNoticed` under fairness |
| `wallet_keys` | 3 keys, 3 records, twice as many keys in the process | 216 k | `KeysTyped`, `KeysKept`, `DefaultStays` |
| `xfer_select` | up to 7 blocks of 2 keys with 1 or 2 coins, blocks of 10 fields, 5 inputs | 348 k | `TypeOK`, `InputsCovered`, `AllTransferred` |
| `sync_wait` | 3 blocks of up to 2 links, 2 threads, 1 refusal or reset | 419 k | `NoneForgotten`; `AllEnter` under fairness |
| `packet_stream` | the reader and 2 senders, counters of 4 values, sectors of 2, 3 packets of up to 3 | 395 k | `SessionHeld`, `PacketsWhole`, `CountedIsSent`, `FifoOrder` (the refinement); `Served`, `ShutIsClosed` under fairness |

Why the bounds are enough.  Two transfers meet each other and the miner; a third
finds only mutexes in states the two already produce.  Two reports cover a report
before and after a reset or a transfer, and let the balance go up and down again.
Three blocks in two files of one directory give an entry with several blocks below it
and one with a single block, and sums files of one and of two entries; three levels give
a lowest, a middle and a root level of the loop; the second of two troubles may fall into
the repair of the first.  Two
connects let the second question's answer meet the first's leftovers.  The
blocks of `main_chain` have what its code distinguishes: several blocks of one period in
a row and side by side, branches that overtake each other twice, a transfer that is not
covered on one branch and is on the other, a fee, a block that joins three branches.  Two
runs of `xdag_main` are the first connection and one that follows it; messages of one and of two
fields come in both orders.  Three records let a record be lost before, between and after
others.  Seven blocks of 1 or 2 coins fill a block of ten fields and begin a second one, by its
inputs or by a second key.  The three blocks of `sync_wait` give a chain of waiting and two
blocks that wait for one; one refusal or reset may fall anywhere into that, and blocks are dropped from the start until
synchronisation is on.  Counters of four values wrap after four locks, and
three threads are the most such counters serve; the run takes them around the circle once,
the proofs of section 7 any number of times.  Packets of 1 to 3 units in sectors
of 2 are shorter than a sector, as long, and longer.  The theorems drop these bounds for most of the
safety properties of the modules they are about.

Several properties carry a condition that names what breaks them:

* `BalanceIsSum` holds while the engine knows a block of ours: a reset between the
  unlocked read and write of `xdag_set_balance` (block.c 1276-1296) leaves a balance
  without blocks.
* `ExactUndisturbed` ends with the first trouble: a kill while the mutex was held, a failing file, or a
  correction that leaves a block out.  Loads that judge what earlier starts stored are no trouble, and
  neither is a load for a peer that counts all of a file; one that releases `storage_mutex` (storage.c 242) before it compares
  what it read (275) takes a block saved in between off the sums, and so does one that counts a part of the file.
* `LossBounded` allows one block for each trouble, in entries whose sums files are `Sound`: one that was left
  empty stops every later addition at its level, and one that was created anew has lost all it held.
* `LeavesRepaired` is about a start-up load that comes to its end: an unreadable sums file stops it (storage.c 279).
* `KeySafe` excepts a step in which opening, reading or writing the key file fails.
* `Conserved` and `LedgerIsReplay` stop at `unearned`: `unapply_block` takes the fee back
  from a block that was linked but never applied, and so never got it.  And they hold while the
  sums of amounts stay below the word: `apply_block` drops a fee that would wrap the amount of
  the block that earns it, and a fee of 2^64 - 1 reads as its answer for a block visited before.
  The amounts of `main_chain` stay far below its word, as those of the code do.
* `TopIsHeaviest` is about the choice the code makes, link by link.  The weight of
  the way chosen need not be the greatest of all ways: a block counts once with others of its period, so where
  x and y are of one period, y links to x (hard, on a light way) and to z (on a heavy one), the code
  may choose x for y, and a block of that same period on top of them may have been better off through y and z.
* `ChainOnPath` does not say that every period of the way has a marked block: when a new way joins
  the old one at a block that is not marked, unwinding may take the mark of a block that was just marked.
* `OutAgrees`, `InAgrees`, `LossNoticed` stop at `disturbed`, `KeysKept` and `DefaultStays` at `lost`
  (section 3).
* `AllTransferred` is about coins under one key: with several keys the flush may come one
  input too late, and `xdag_create_block` refuses the block of 17 fields.
* `CountedIsSent` excepts a failed socket and `alone`: the reader exchanges keys without the
  mutex, so a packet may be dropped and its padding sent; from then on packets end in the
  middle of a sector and wait for the next one.
* `NoneForgotten` and `AllEnter` end when a message is lost or an allocation fails: the next
  request is made only when the block arrives again, and after a failed allocation the mutex
  stays locked (sync.c 62).  `AllEnter` excepts what waits for a refused or dropped block, and `Spinning` (section 5).

The wallet may stop (the pool falls silent, the user does nothing, all blocks have
arrived, all bounds are reached), so deadlock is not checked; that waiting threads get
on is stated by the liveness properties.

The violation runs are those of section 5; each is the smallest instance in
which the disagreement appears, with the faults that are not needed turned off.

The type predicates of `MainChain` (a theorem, section 7), `PoolStream`, `SyncWait`, `TicketLock` and `PacketStream` (`PacketOK`) document the
variables and are in no run, since the other properties of those runs say more; that
of the ticket lock is part of `TicketInv` in the proofs.

## 5 Findings

| Run | Property | What the code does |
|---|---|---|
| `engine_deadlock` | `TransfersEnd` | `block_mutex` then `g_pool_mutex` in a transfer, the other order in a balance report: both wait for ever, with no fault anywhere |
| `engine_null` | `NullBlockRefused` | after a reset a report on a forgotten block dereferences NULL before the test for NULL |

`PROJECT.json` quotes for each the comment, message or test the code disagrees
with.  `TransfersEndOrHang` shows that, within its bounds, the hangs are all named:
apart from the deadlock, a socket closed under a sender, a pool that does not read what is
sent, and a NULL dereference, every transfer ends.

Weaknesses the models have as the code has them, which a reader of the passing
properties should know:

* The miner's cleanup drops `g_crypt` before `g_socket` and without `g_pool_mutex` (pool.c
  196-212), so a sender may encrypt with a NULL key (`crashed` in `TransfersEndOrHang`).
* While the pool does not read, a sender on a full socket polls again and again (pool.c 154) and keeps
  `block_mutex` and `g_pool_mutex`: no time limit ends it, the miner thread waits, and a reset is not carried out
  (`SenderStalled` in `TransfersEndOrHang` and `ResetCarriedOut`).
* A transfer writes XFER over a pending REST (xdagmain.c 305; the second way out in
  `ResetCarriedOut`).  After a reset that is carried out the state stays REST (block.c 1061), so
  the engine is cleared again after every period.
* The check of an amount (xdagmain.c 286) does not see coins that earlier
  transfers have taken, since only a report lowers an amount in a light wallet.
* `xdag_create_block` ignores what the send returned (block.c 883): an amount is reported as
  transferred though the socket was closed.
* A kill between two levels of `correct_storage_sums` leaves the sums above the file's own
  entry wrong for good; `LossBounded` says by how much.
* A kill between the creation of a sums file and its writing (storage.c 54 and 76) leaves it empty, and it is
  refused from then on (47): every save there returns -1 for a block that is stored, and the start-up load stops at it,
  so that the files after it are neither loaded nor repaired.  A load that meets an empty block file (a kill before the
  first append) leaves the same behind, since it creates the sums file and then finds nothing to write (64).
* A sums file that exists and cannot be opened to be read is created anew, and all its other entries are lost (53-59); so is
  a good key file, whose opening or reading fails once, before anything is asked (dnet_crypt.c 333-373).
* A reset that empties the engine while a thread is inside `xdag_sync_pop_block` makes that thread spin: what it
  releases lacks the block again, is entered in the list again, and is found again (sync.c 94-114), with a request sent each
  time, until the block arrives through another thread.
* A block that is refused, or dropped while synchronisation is off, leaves those that wait for it in the lists (sync.c 135).
* A write to a dnet connection that fails at once does not shut the socket (dnet_connection.c 75): the session is freed only
  when reading ends.
* A question to which the screen in front has no answer leaves the handler thread waiting for
  ever, and two transfers that ask at once may be authorised by each other's passwords: one
  condition and one slot serve both (libxdag_jni.cpp 133).
* After an orderly close by the pool the miner thread reads 0 bytes again and again until
  a share is due (pool.c 405).
* A kill between the creation of `wallet.dat` and its first record leaves an empty file: the next
  start succeeds without any key.
* Marking (block.c 599) precedes unwinding (611), so for a moment of the call two blocks of a
  period are marked; `ChainOnPath` is about the state between calls.
* The same block as an input twice in one block is not refused.

## 6 Fairness

* `WalletEngine`: the scheduler runs every native thread.  Fairness is strong for the
  transfers and the miner, because both loops sleep for a second after unlocking, so
  that a waiter finds its mutex free again and again and gets it; steps that need the
  user, the pool or a fault (`XferDrains` and `XferBroken`: a full socket may stay full; `XferRefuse` to `XferBegin`, `MinerField`, `MinerFail`,
  `MinerNoSocket`, the unreadable blocks) are not in it.  It is weak for the work thread.
* `TicketLock` and `PacketStream`: weak fairness for entering and for what follows inside.
  No fairness for drawing a ticket to send: a thread need not want the mutex.  The order
  does the rest.  The reader's own steps are fair; a read on a socket that was shut ends
  (`ReadEnds /\ socket = "shut"`), other reads may wait for ever.  A write ends by its time limit.
* `PoolStream`: weak fairness for every native thread; none for the pool.
* `SyncWait`: weak fairness for the threads and for answers, none for refusals and resets; a lost message
  ends the model.
* `UiPrompts`: weak fairness for native threads and the UI thread, and for answering the
  dialog in front of the user: `AuthDialogFragment` cannot be dismissed, so it stays
  until it is answered.
* None for the user's other choices, the pool, the clock, faults or kills.

`TransfersEndOrHang` starts where the transfer has its password, so it does not rely
on the user.  `DialogueEnds` is about a user who answers and stays.

## 7 Proofs

Checked by TLAPS for every value of the constants that satisfies the named
assumption of the module.

**WalletEngineProofs** (assumption `EngineAssumption`: threads and blocks are
distinct, amounts are within the word).

* `TypeCorrect`: `TypeOK` is inductive, one step per action.  It holds in particular
  that `balance` never leaves its width.
* `BlockMutexCorrect`, `PoolMutexCorrect`: each is inductive relative to `TypeOK`.  For
  the pool's mutex the miner must not have begun to quit, since its cleanup unlocks
  the mutex whoever holds it.
* `FirstFunded`, `OursAreDistinct`, `WalkStable`: neither `OnlyFirstFunded` nor
  `OursDistinct` is inductive alone: a report funds the block `hash`, and nothing in
  the two says that this is the first.  `ListInv` adds `LoadsFirst` (while the storage
  is loading the list is a prefix of what is stored and the miner has not begun),
  `OneFunded` (no block but the miner's has coins, none has any before the miner chose
  its block, and that block heads the list unless the list was cleared) and `MadeOnce`
  (a transfer's block is listed only after that transfer made it, and a transfer under
  way asks for a positive amount).  From it `MoveIsIdentity`: the move to the
  front never changes a light wallet's list, which is why a walk is stable although
  the relinking is there.

* `BalanceIsTheSum`: `BalanceIsSum` holds because a light wallet has coins in one block.  `Counted`
  says that the balance is that block's amount while the list holds any block, and that what a
  report has read of the balance is still there when it writes;
  `OneSummand` that the sum is then that amount.  The sum is a recursive function over the list:
  `Climbing` is induction over the natural numbers up to a bound, stated of a set instead of
  an operator and proved from the least number principle of the library.

**PacketStreamProofs, the mutex** (assumption: fewer threads than counter values).
`MutualExclusion` rests on `TicketInv`: callers hold distinct tickets between `head`
and `tail` on the circle of `W` numbers, a caller inside holds `head`, and the distance
of `tail` from `head` is the number of callers.  The assumption is needed to see that
`tail` never catches up with `head`.  `ImplementsFifo` is the refinement: `FifoInv` adds that
the callers are exactly as many as the distance, so that each place in the queue has one of
them (`QueueIs`), and each step of the lock is shown to append to the queue, take its head or
leave it.

**PacketStreamProofs, the connection** (assumptions: the reader is a thread, sizes are natural
numbers).  `UsesLock`: a connection's
specification implies the lock's, so `PacketFifo` follows from `ImplementsFifo`.  `SessionIsHeld`
rests on `SessInv`: where a thread is in `dnet_send_packet` or `dnet_connection_main` says where
it is in the mutex, the session is set between the reader's two assignments, and
whoever stores is inside; `OneInside` is the exclusion of `TicketInv`.
`PacketsAreWhole` and `CountedAreSent` rest on `StreamInv`, which is inductive relative to
`SessInv`.  `PacketsWhole` speaks of the sectors written, but what makes them whole is what they will
be: `WholeInv` says that the sectors, the sector being filled and all that the storing thread has left
follow one another and end a packet.  `CountInv` (while the socket takes data and no padding
went out alone) has `Aligned`: a packet begins at a sector's boundary, and packet and padding
together end at one; and `EndsSent`: the end of a counted packet is in a sector, or in the one
its padding will write.

**StorageSumsProofs** (assumption: finitely many blocks, each in a file whose path is as long as
the tree is deep).  `TypeCorrect` with `Shape`, which relates the saver and the loader to the
files.  `SumsStayExact` from `Untroubled`: until the first trouble
each entry is the number of blocks below it but for what `Owed` says the saver has still to add at
this level, no sums file is unreadable but the one its holder has just created, and a load finds nothing to correct
(`LoaderFinds`).  `FewAreLost` from `FewLost`, which counts `Owed` and every trouble on the side of the entry; it is stated
of entries whose sums files are `Intact`, which includes the one being created, as `Sound` does not.  `LoadRepairs` from
`Clean`: in a start-up load that met no failure, what was read is what the file holds, and the files the load is done with
agree with their entries.

**SyncWaitProofs** (assumption: links are links to blocks, and the bound is a number).  `NobodyIsForgotten` from `SyncInv`: a block
enters after its links (`LinksFirst`), and
whatever waits for a block that is there has a `Reason`: that block waits itself, a thread is
about to add it or to release what waits for it, it has been asked for or is on its way, or the thread that
entered the waiting block is about to look for it.  The hard case is an entry that moves
from one parent to the next while another thread adds that parent.

**PoolStreamProofs** (assumption: transfers are no miner threads, a block has two fields at
least).  `OutNumbersAgree` from `SendInv`: until `disturbed` one miner thread lives and owns the socket (`OneMiner`),
one thread holds the mutex while it writes (`OneSender`), and what is on the wire followed by what
the sender has left is numbered without a gap up to `nout` (`OutInv`).  `InMessagesAgree` from `StreamInv`,
which adds `InInv`: there are a kind and a message for each field the pool has numbered
(`History`), the halves that are pending are those of the fields from `Base` on, and that field
begins the first message that was not taken.  So a read that ends in the middle of a field or between the
two fields of a task never shifts what follows.

**XferSelectProofs** (assumption: a block has room for one input under a key that is not the
default one; the code's has 16 fields).  `TypeCorrect`, `InputsAreCovered` and `AllIsTransferred` from
`SelectInv`.  `Packed` counts the fields of what is gathered: at most one more than a block has, and
that one only with a second key, which is why the arrays of 11 inputs and keys suffice although the
test precedes the input.  `Good` says that the inputs come from the blocks visited, none twice.
`Money` says that done, gathered and missing coins are what was asked, and that an undisturbed walk has
taken every coin it passed; the sums are a recursive function, shown to be one by `Climbing`
(`SumsAre`).

**PromptsKeysProofs, the questions** (assumption: names are distinct).  `TypeCorrect`; `OwnAnswerCorrect`
from `IInv == TypeOK /\ (~mixed => Solo)`, where `Solo` says that at most one thread
has asked, that its question is in one place at a time (an event, a dialog or the
slot), and that the slot holds an answer only when its asker has been woken;
`KeyIsSafe` is the action property, from `TypeCorrect`: the load of a wallet and the failing step of the
key file are the only ones that take a good file away.

**PromptsKeysProofs, the key file** (assumption: what a record deciphered with a wrong number gives is no key).
`KeysTypeCorrect`; `NoKeyIsLost` and `DefaultIsKept` from `KeysInv`: while nothing is `lost`, record `i` is enciphered with
`i - 1` (`Numbered`), whatever the wallet works with or has worked with is in the file
(`InFile`), keys and records are equally many at every point of a call unless `odd` says
why (`Counted`), and the last key is the last record's unless a record was not entered
(`LastIsLast`).

**MainChainProofs** (assumption `ChainAssumption`: finitely many blocks, amounts within the word,
work positive; nothing is assumed of links and times, since `Accepted` refuses a link that is not to an
older known block).  The theorems hold for light and full nodes, whatever arrives in whatever order, with
resets in between.

* `ChainStaysOnPath`.  `ChainOnPath` is not inductive without `Tree` (parents are known and older,
  so that the way down exists and a new block changes no other's: `PathExists`, `PathSame`).
  `GraphInv` is `Tree`, `OnPath` and `MainsFirst`.  The step that matters is `LeadKeepsChain`: what is left marked after
  `Marks` and `Unwind` lies on the new way, one block of each period.  `StopsWell` is the case of the block below that is
  skipped: that its period is the one just marked is what keeps two marks apart.
* `TopStaysHeaviest` from `WeightInv`.  `Through` adds work by looking for the first block of
  another period, `Weight` sums the hardest block of every period; `ThroughWeighs` shows that they agree,
  by `WeightSteps` (what one more block adds) along the sum.
* `MainChainTypeCorrect`, `NorefsStayExact`, `MainsCounted` (`nmain` is the number of blocks flagged
  `BI_MAIN`; in no run, since `LedgerIsReplay` says it there) from `ListInv`.  `Queue` says that a sequence strung along
  `ref` lists the unlinked blocks.  The field `ref` is also what `apply_block` writes, so it must be shown that it
  does so to linked blocks only: `Grounded`, that a known block's links are to linked blocks, gives that.
* `OursStaySorted` from `OurLists`: one sequence is strung along `next` and, backwards, along
  `prev` (`Doubly`), richest first (`Ordered`), and the balance is the sum of its amounts modulo the word.
  `Accept` relinks while it walks; `MovesUp` and `MovesDown` follow the
  place of the block that was paid: a step is the exchange of two neighbours (`SwapTurns`), the other blocks stay
  ordered, and after as many steps as we have blocks it rests between a richer and a poorer one (`SortedBetween`).
* `TransfersConserve`: what `apply_block` moves for one block destroys its fee and nothing else, modulo the word,
  and `unapply_block` makes it again.  `TransfersUndone`: applied and unapplied, a block leaves
  all amounts as they were.  Both go along the loop over the links (`CarrySteps`, `CarryPays`, `CarryTotals`) with
  no assumption on how often a block is linked, or whether it links to itself.

Two devices carry these proofs.  A loop `Iterate` is reasoned about by `IterateSteps` (there is a function with
the states after each step), `IterateIn` (it stays in a set) and `IterateEnds`; induction is over sets of numbers
(`Climbing`, `Stepping`).  And what all functions on the ledger preserve is stated of a set `G` of ledgers closed under
payments and flags (`Kept(G)`): `Level` and `Levels` carry that closure down the recursion of `apply_block` and
`unapply_block` once, and the types, the queue and our list are three such sets.

**Only model-checked.**  Everything under fairness (`TransfersEndOrHang`, `ResetCarriedOut`, `Served`,
`DialogueEnds`, `LossNoticed`, `AllEnter`, `ShutIsClosed`), since liveness and ENABLED are out of the
prover's reach; `Conserved` and `LedgerIsReplay`; and of course the violations.  The last two are false without
a bound on all sums of amounts (section 4), and the bound has to follow from the rewards, which is `Conserved` itself:
the induction would run over the recursion of `apply_block` with both.  `LedgerIsReplay` needs further that
`unapply_block` visits the very blocks that `apply_block` visited, in spite of later ones that linked to them.
Proved is the step of that recursion, for one block.  Every other property of a passing run is a theorem.

## 8 Not modelled

* dnet threads with their collector and the host database; the transport's table of connections
  and request slot; what a dnet connection reads once keys are exchanged: the app starts no
  dnet thread (section 2).
* The mining threads of `pool.c` (a search for a nonce), `xdag_pool_uninit`, cancellation of
  the miner thread and `xdag_uninit`: nothing calls them, or nothing is shared but a task.
* Initialising `block_mutex` again (block.c 1131) when `xdag_main` runs a second time: undefined
  while the mutex is held.
* The signatures of blocks, `xdag_verify_block`, back references, the text commands.
* Elliptic curves, hashes, ciphers and multi-precision arithmetic: out of a model
  checker's reach and mostly third-party code.
* Red-black trees and list macros: used as sets and sequences.
* `netdb.c`, dnet commands, tap, log, statistics: no path of the app reaches them, or pure output.
* Views, database rows, HTTP calls and the history of transactions of the Java application: no
  protocol of their own, or used by no screen.
* Third-party copies: OpenSSL, rvhelperlibrary, zxing.  They are by far the largest part of the
  repository's lines; the modules cover the wallet's own code.

## 9 How to run

In this directory: `tlc -workers 2 -config engine_safety.cfg MCWalletEngine` for a run
(module and config of each are in `PROJECT.json`), `tlapm WalletEngineProofs.tla` for
the proofs.
