---------------------------- MODULE WalletEngine ----------------------------
(***************************************************************************)
(* The threads of one running wallet and what they share.                  *)
(*                                                                         *)
(*   Work   work_thread of block.c: loads the local storage, then chooses  *)
(*          the program state once a second and clears the block engine    *)
(*          when the state is REST.                                        *)
(*   Miner  miner_net_thread of pool.c: keeps the connection to the pool   *)
(*          and writes the balances the pool reports into our blocks.      *)
(*   Xfers  one Java thread per transfer the user confirms: it runs        *)
(*          xdag_xfer_coin of xdagmain.c once.                             *)
(*                                                                         *)
(* The two mutexes are block_mutex (recursive) and g_pool_mutex.  A step   *)
(* is one critical section, or one unlocked access where another thread    *)
(* can see the difference; nested acquisitions of block_mutex by its owner *)
(* are part of the owner's step.  The wallet is a light node, as           *)
(* g_light_mode is 1 and never assigned.                                   *)
(*                                                                         *)
(* In a light node the only block that ever gets an amount is the one the  *)
(* miner thread registered with the pool, so a transfer takes its coins    *)
(* from a single input and makes a single block; that block is identified  *)
(* with its transfer thread.                                               *)
(***************************************************************************)
EXTENDS Naturals, Sequences

CONSTANTS
  Xfers,          (* threads running xdag_xfer_coin, one transfer each      *)
  Miner, Work,    (* the two native threads                                 *)
  NoThread,       (* the owner of a mutex nobody holds                      *)
  Own,            (* the block xdag_get_our_block makes for a new wallet    *)
  Stored,         (* our blocks in the local storage, in loading order      *)
  Amounts,        (* balances the pool may report for our block             *)
  Wants,          (* amounts a user may ask to transfer                     *)
  MaxMsgs,        (* bound: balance messages the pool sends                 *)
  Wrap,           (* 2^64 in the code: g_balance is an unsigned integer     *)
  PoolFaults,     (* may the pool stop reading, or its connection fail?     *)
  StorageFaults   (* may a block of the local storage be unreadable?        *)

Threads == Xfers \cup {Miner, Work}
Blocks  == Xfers \cup {Own} \cup {Stored[i] : i \in 1 .. Len(Stored)}

ASSUME EngineAssumption ==
  /\ Miner \notin Xfers /\ Work \notin Xfers /\ Miner # Work
  /\ NoThread \notin Threads
  /\ Stored \in Seq({Stored[i] : i \in 1 .. Len(Stored)})
  /\ \A i, j \in 1 .. Len(Stored) : Stored[i] = Stored[j] => i = j
  /\ Xfers \cap ({Own} \cup {Stored[i] : i \in 1 .. Len(Stored)}) = {}
  /\ Wrap \in Nat \ {0}
  /\ Amounts \subseteq 0 .. Wrap - 1
  /\ Wants \subseteq 1 .. Wrap - 1
  /\ MaxMsgs \in Nat
  /\ PoolFaults \in BOOLEAN /\ StorageFaults \in BOOLEAN

VARIABLES
  pc,          (* where each thread is                                      *)
  blockOwner,  (* owner of block_mutex                                      *)
  poolOwner,   (* owner of g_pool_mutex                                     *)
  state,       (* g_xdag_state                                              *)
  syncOn,      (* g_xdag_sync_on                                            *)
  ours,        (* the list ourfirst .. ourlast of our blocks in the tree    *)
  amount,      (* the amount field of each block                            *)
  balance,     (* g_balance                                                 *)
  hash,        (* miner_net_thread's local hash: the block the pool serves  *)
  mbal,        (* balance the miner thread is storing                       *)
  mnew,        (* value it is about to write into g_balance                 *)
  msgs,        (* balance messages received, bounded by MaxMsgs             *)
  open,        (* g_socket >= 0                                             *)
  crypt,       (* g_crypt # NULL                                            *)
  want,        (* per transfer: the amount asked for                        *)
  done,        (* per transfer: xfer.done, the amount it reports            *)
  sent,        (* blocks written to the pool's socket                       *)
  recvFresh,   (* g_xdag_last_received is less than 3 periods old           *)
  xferRecent,  (* g_xdag_xfer_last is less than 2 periods old               *)
  crashed      (* the process died of a NULL dereference                    *)

locks  == <<blockOwner, poolOwner>>
miners == <<hash, mbal, mnew, msgs>>
coins  == <<ours, amount, balance>>
conn   == <<open, crypt>>
users  == <<want, done, sent>>
clocks == <<recvFresh, xferRecent>>
vars   == <<pc, locks, state, syncOn, coins, miners, conn, users, clocks, crashed>>

XferPcs  == {"start", "password", "lock", "traverse", "sendcheck", "poolwait",
             "encrypt", "write", "full", "made", "unlock", "done"}
MinerPcs == {"waitsync", "getblock", "look", "find", "load", "socket", "connecting", "hello", "loop",
             "polled", "sb_lock", "sb_read", "sb_write", "received", "pollout",
             "exit", "c_crypt", "c_close", "dead"}
WorkPcs  == {"init", "load", "begin", "tick", "rest"}
States   == {"INIT", "LOAD", "REST", "TRYP", "XFER", "POOL"}

TypeOK ==
  /\ pc \in [Threads -> XferPcs \cup MinerPcs \cup WorkPcs]
  /\ \A x \in Xfers : pc[x] \in XferPcs
  /\ pc[Miner] \in MinerPcs
  /\ pc[Work] \in WorkPcs
  /\ blockOwner \in Threads \cup {NoThread}
  /\ poolOwner \in Threads \cup {NoThread}
  /\ state \in States
  /\ syncOn \in BOOLEAN
  /\ ours \in Seq(Blocks)
  /\ amount \in [Blocks -> 0 .. Wrap - 1]
  /\ balance \in 0 .. Wrap - 1
  /\ hash \in Blocks
  /\ mbal \in 0 .. Wrap - 1
  /\ mnew \in 0 .. Wrap - 1
  /\ msgs \in 0 .. MaxMsgs
  /\ open \in BOOLEAN /\ crypt \in BOOLEAN
  /\ want \in [Xfers -> 0 .. Wrap - 1]
  /\ done \in [Xfers -> 0 .. Wrap - 1]
  /\ sent \subseteq Blocks
  /\ recvFresh \in BOOLEAN /\ xferRecent \in BOOLEAN /\ crashed \in BOOLEAN

Init ==
  /\ pc = [t \in Threads |-> IF t = Miner THEN "waitsync"
                             ELSE IF t = Work THEN "init" ELSE "start"]
  /\ blockOwner = NoThread /\ poolOwner = NoThread
  /\ state = "INIT" /\ syncOn = FALSE
  /\ ours = <<>> /\ amount = [b \in Blocks |-> 0] /\ balance = 0
  /\ hash = Own /\ mbal = 0 /\ mnew = 0 /\ msgs = 0
  /\ open = FALSE /\ crypt = TRUE
  /\ want = [x \in Xfers |-> 0] /\ done = [x \in Xfers |-> 0] /\ sent = {}
  /\ recvFresh = FALSE /\ xferRecent = FALSE /\ crashed = FALSE

Goto(t, from, to) == pc[t] = from /\ pc' = [pc EXCEPT ![t] = to]

Free(owner) == owner = NoThread

Known(b) == \E i \in 1 .. Len(ours) : ours[i] = b

-----------------------------------------------------------------------------
(* work_thread *)

\* The local storage is read; loading stops at the first block it cannot read.
WorkStart ==
  /\ Goto(Work, "init", "load")
  /\ state' = "LOAD"
  /\ UNCHANGED <<locks, syncOn, coins, miners, conn, users, clocks, crashed>>

WorkLoad ==
  /\ pc[Work] = "load" /\ Free(blockOwner)
  /\ Len(ours) < Len(Stored)
  /\ ours' = Append(ours, Stored[Len(ours) + 1])
  /\ UNCHANGED <<pc, locks, state, syncOn, amount, balance, miners, conn, users, clocks, crashed>>

WorkLoaded ==
  /\ Goto(Work, "load", "begin")
  /\ StorageFaults \/ Len(ours) = Len(Stored)
  /\ UNCHANGED <<locks, state, syncOn, coins, miners, conn, users, clocks, crashed>>

WorkBegin ==
  /\ Goto(Work, "begin", "tick")
  /\ syncOn' = TRUE
  /\ UNCHANGED <<locks, state, coins, miners, conn, users, clocks, crashed>>

\* The state the loop chooses when it is not told to reset.
ChosenState ==
  IF ~recvFresh THEN "TRYP" ELSE IF xferRecent THEN "XFER" ELSE "POOL"

\* Mutant of WorkTick: the state is chosen without a look at the one it replaces.
WorkTickBlind ==
  /\ pc[Work] = "tick" /\ Free(blockOwner)
  /\ state' = ChosenState
  /\ UNCHANGED <<pc, locks, syncOn, coins, miners, conn, users, clocks, crashed>>

WorkTick ==
  /\ pc[Work] = "tick" /\ Free(blockOwner)
  /\ state # "REST"
  /\ state' = ChosenState
  /\ UNCHANGED <<pc, locks, syncOn, coins, miners, conn, users, clocks, crashed>>

WorkRest ==
  /\ Goto(Work, "tick", "rest") /\ Free(blockOwner)
  /\ state = "REST"
  /\ syncOn' = FALSE
  /\ UNCHANGED <<locks, state, coins, miners, conn, users, clocks, crashed>>

\* Mutant of WorkClear: the blocks are cleared without block_mutex.
WorkClearUnlocked ==
  /\ Goto(Work, "rest", "begin")
  /\ ours' = <<>> /\ balance' = 0
  /\ UNCHANGED <<locks, state, syncOn, amount, miners, conn, users, clocks, crashed>>

\* The blocks are leaked, not freed: xdag_free_all returns 0 on this platform.
WorkClear ==
  /\ Goto(Work, "rest", "begin") /\ Free(blockOwner)
  /\ ours' = <<>> /\ balance' = 0
  /\ UNCHANGED <<locks, state, syncOn, amount, miners, conn, users, clocks, crashed>>

-----------------------------------------------------------------------------
(* xdag_xfer_coin *)

\* Nothing to transfer, balance too small, bad address or wrong password.
XferRefuse(x) ==
  /\ \/ Goto(x, "start", "done")
     \/ Goto(x, "password", "done")
  /\ UNCHANGED <<locks, state, syncOn, coins, miners, conn, users, clocks, crashed>>

XferAccept(x) ==
  /\ Goto(x, "start", "password")
  /\ \E a \in Wants : a <= balance /\ want' = [want EXCEPT ![x] = a]
  /\ UNCHANGED <<locks, state, syncOn, coins, miners, conn, done, sent, clocks, crashed>>

\* g_xdag_state is written without block_mutex.
XferBegin(x) ==
  /\ Goto(x, "password", "lock")
  /\ state' = "XFER" /\ xferRecent' = TRUE
  /\ UNCHANGED <<locks, syncOn, coins, miners, conn, users, recvFresh, crashed>>

XferLock(x) ==
  /\ Goto(x, "lock", "traverse") /\ Free(blockOwner)
  /\ blockOwner' = x
  /\ UNCHANGED <<poolOwner, state, syncOn, coins, miners, conn, users, clocks, crashed>>

\* xfer_coin_callback takes the amount from the first block; it stops at a block
\* without coins, so an amount the first block cannot cover is not transferred.
Covered(x) == ours # <<>> /\ want[x] <= amount[Head(ours)]

\* Mutant of XferNothing: the walk returns without unlocking block_mutex.
XferNothingEarly(x) ==
  /\ Goto(x, "traverse", "done")
  /\ ~Covered(x)
  /\ UNCHANGED <<locks, state, syncOn, coins, miners, conn, users, clocks, crashed>>

XferNothing(x) ==
  /\ Goto(x, "traverse", "unlock")
  /\ ~Covered(x)
  /\ UNCHANGED <<locks, state, syncOn, coins, miners, conn, users, clocks, crashed>>

\* Mutant of XferCreate: the new block becomes the first of the list.
XferCreateFirst(x) ==
  /\ Goto(x, "traverse", "sendcheck")
  /\ Covered(x)
  /\ ours' = <<x>> \o ours
  /\ UNCHANGED <<locks, state, syncOn, amount, balance, miners, conn, users, clocks, crashed>>

XferCreate(x) ==
  /\ Goto(x, "traverse", "sendcheck")
  /\ Covered(x)
  /\ ours' = Append(ours, x)
  /\ UNCHANGED <<locks, state, syncOn, amount, balance, miners, conn, users, clocks, crashed>>

\* The input block cannot be read: error 8, and xdag_storage_load asks for a reset.
XferUnreadable(x) ==
  /\ StorageFaults
  /\ Goto(x, "traverse", "unlock")
  /\ Covered(x)
  /\ state' = "REST"
  /\ UNCHANGED <<locks, syncOn, coins, miners, conn, users, clocks, crashed>>

\* xdag_send_block_via_pool looks at g_socket before it locks g_pool_mutex.
XferSendCheck(x) ==
  /\ Goto(x, "sendcheck", IF open THEN "poolwait" ELSE "made")
  /\ UNCHANGED <<locks, state, syncOn, coins, miners, conn, users, clocks, crashed>>

XferPoolLock(x) ==
  /\ Goto(x, "poolwait", "encrypt") /\ Free(poolOwner)
  /\ poolOwner' = x
  /\ UNCHANGED <<blockOwner, state, syncOn, coins, miners, conn, users, clocks, crashed>>

\* send_to_pool: looks at g_socket again, then encrypts with g_crypt.
XferClosed(x) ==
  /\ Goto(x, "encrypt", "made")
  /\ ~open
  /\ poolOwner' = NoThread
  /\ UNCHANGED <<blockOwner, state, syncOn, coins, miners, conn, users, clocks, crashed>>

XferEncrypt(x) ==
  /\ open /\ crypt
  /\ Goto(x, "encrypt", "write")
  /\ UNCHANGED <<locks, state, syncOn, coins, miners, conn, users, clocks, crashed>>

XferNullCrypt(x) ==
  /\ pc[x] = "encrypt" /\ open /\ ~crypt
  /\ crashed' = TRUE
  /\ UNCHANGED <<pc, locks, state, syncOn, coins, miners, conn, users, clocks>>

\* Once the socket is closed poll ignores the negative descriptor and the loop
\* never ends: there is no step from "write" or "full" with the socket closed.
XferWrite(x) ==
  /\ Goto(x, "write", "made")
  /\ open
  /\ sent' = sent \cup {x}
  /\ poolOwner' = NoThread
  /\ UNCHANGED <<blockOwner, state, syncOn, coins, miners, conn, want, done, clocks, crashed>>

\* The pool does not read: poll returns 0 and the loop polls again, with both
\* mutexes held, for as long as the socket's buffer stays full.
XferStalls(x) ==
  /\ PoolFaults
  /\ Goto(x, "write", "full")
  /\ open
  /\ UNCHANGED <<locks, state, syncOn, coins, miners, conn, users, clocks, crashed>>

XferDrains(x) ==
  /\ Goto(x, "full", "write")
  /\ open
  /\ UNCHANGED <<locks, state, syncOn, coins, miners, conn, users, clocks, crashed>>

\* Mutant of XferBroken: a failed write returns without unlocking g_pool_mutex.
XferBrokenLocked(x) ==
  /\ PoolFaults
  /\ open
  /\ pc[x] \in {"write", "full"}
  /\ pc' = [pc EXCEPT ![x] = "made"]
  /\ UNCHANGED <<locks, state, syncOn, coins, miners, conn, users, clocks, crashed>>

\* A hang-up, an error or a failed write.
XferBroken(x) ==
  /\ PoolFaults
  /\ open
  /\ pc[x] \in {"write", "full"}
  /\ pc' = [pc EXCEPT ![x] = "made"]
  /\ poolOwner' = NoThread
  /\ UNCHANGED <<blockOwner, state, syncOn, coins, miners, conn, users, clocks, crashed>>

\* xdag_create_block ignores what the send returned; the amount is reported.
XferUnlock(x) ==
  /\ pc[x] \in {"made", "unlock"}
  /\ pc' = [pc EXCEPT ![x] = "done"]
  /\ done' = [done EXCEPT ![x] = IF pc[x] = "made" THEN want[x] ELSE 0]
  /\ blockOwner' = NoThread
  /\ UNCHANGED <<poolOwner, state, syncOn, coins, miners, conn, want, sent, clocks, crashed>>

-----------------------------------------------------------------------------
(* miner_net_thread *)

MinerWait ==
  /\ Goto(Miner, "waitsync", "getblock")
  /\ syncOn
  /\ UNCHANGED <<locks, state, syncOn, coins, miners, conn, users, clocks, crashed>>

\* xdag_get_our_block: the first block, or for a wallet without blocks a new one,
\* which is not sent as the socket is still closed; then it looks a second time.
MinerGetBlock ==
  /\ Goto(Miner, "getblock", "find") /\ Free(blockOwner)
  /\ ours # <<>>
  /\ hash' = Head(ours)
  /\ UNCHANGED <<locks, state, syncOn, coins, mbal, mnew, msgs, conn, users, clocks, crashed>>

MinerNewBlock ==
  /\ Goto(Miner, "getblock", "look") /\ Free(blockOwner)
  /\ ours = <<>>
  /\ ours' = <<Own>>
  /\ UNCHANGED <<locks, state, syncOn, amount, balance, miners, conn, users, clocks, crashed>>

MinerLook ==
  /\ Goto(Miner, "look", IF ours = <<>> THEN "exit" ELSE "find") /\ Free(blockOwner)
  /\ hash' = IF ours = <<>> THEN hash ELSE Head(ours)
  /\ UNCHANGED <<locks, state, syncOn, coins, mbal, mnew, msgs, conn, users, clocks, crashed>>

\* xdag_get_block_pos, then xdag_storage_load.
MinerFind ==
  /\ Goto(Miner, "find", IF Known(hash) THEN "load" ELSE "exit") /\ Free(blockOwner)
  /\ UNCHANGED <<locks, state, syncOn, coins, miners, conn, users, clocks, crashed>>

MinerLoad ==
  /\ Goto(Miner, "load", "socket")
  /\ UNCHANGED <<locks, state, syncOn, coins, miners, conn, users, clocks, crashed>>

MinerUnreadable ==
  /\ StorageFaults
  /\ Goto(Miner, "load", "exit") /\ Free(blockOwner)
  /\ state' = "REST"
  /\ UNCHANGED <<locks, syncOn, coins, miners, conn, users, clocks, crashed>>

MinerNoSocket ==
  /\ PoolFaults
  /\ Goto(Miner, "socket", "exit") /\ Free(poolOwner)
  /\ UNCHANGED <<locks, state, syncOn, coins, miners, conn, users, clocks, crashed>>

MinerSocket ==
  /\ Goto(Miner, "socket", "connecting") /\ Free(poolOwner)
  /\ poolOwner' = Miner
  /\ open' = TRUE
  /\ UNCHANGED <<blockOwner, state, syncOn, coins, miners, crypt, users, clocks, crashed>>

MinerConnect ==
  /\ Goto(Miner, "connecting", "hello")
  /\ UNCHANGED <<locks, state, syncOn, coins, miners, conn, users, clocks, crashed>>

MinerPoll ==
  /\ Goto(Miner, "loop", "polled") /\ Free(poolOwner)
  /\ poolOwner' = Miner
  /\ UNCHANGED <<blockOwner, state, syncOn, coins, miners, conn, users, clocks, crashed>>

\* The mutex is released after the first block, an idle poll, a field or a share.
\* What the miner thread sends itself never waits for the pool to read: the first
\* block goes into the empty buffer of a new socket, a share into one that poll has
\* just reported writable.
MinerRelease ==
  /\ pc[Miner] \in {"hello", "polled", "pollout"}
  /\ pc' = [pc EXCEPT ![Miner] = "loop"]
  /\ poolOwner' = NoThread
  /\ UNCHANGED <<blockOwner, state, syncOn, coins, miners, conn, users, clocks, crashed>>

\* No connection, hang-up, error, or a failed read or write.
MinerFail ==
  /\ PoolFaults
  /\ pc[Miner] \in {"connecting", "hello", "polled", "pollout"}
  /\ pc' = [pc EXCEPT ![Miner] = "exit"]
  /\ poolOwner' = NoThread
  /\ UNCHANGED <<blockOwner, state, syncOn, coins, miners, conn, users, clocks, crashed>>

\* A field that carries our hash: its amount is the balance.
MinerField ==
  /\ Goto(Miner, "polled", "sb_lock")
  /\ msgs < MaxMsgs
  /\ msgs' = msgs + 1
  /\ \E a \in Amounts : mbal' = a
  /\ UNCHANGED <<locks, state, syncOn, coins, hash, mnew, conn, users, clocks, crashed>>

-----------------------------------------------------------------------------
(* xdag_set_balance, called by the miner thread with g_pool_mutex held *)

\* Mutant of MovedToFront: the block is put first and left where it was.
CopiedToFront(s, i) == <<s[i]>> \o s

\* The i-th of our blocks is unlinked and becomes the first.
MovedToFront(s, i) ==
  [j \in 1 .. Len(s) |-> IF j = 1 THEN s[i] ELSE IF j <= i THEN s[j - 1] ELSE s[j]]

\* The block moves to the front of our list; the mutex is released after it.
SetBalanceLock ==
  /\ Goto(Miner, "sb_lock", "sb_read") /\ Free(blockOwner)
  /\ \E i \in 1 .. Len(ours) : ours[i] = hash /\ ours' = MovedToFront(ours, i)
  /\ UNCHANGED <<locks, state, syncOn, amount, balance, miners, conn, users, clocks, crashed>>

\* bi->flags is read before bi is compared with NULL.
SetBalanceNull ==
  /\ pc[Miner] = "sb_lock" /\ Free(blockOwner)
  /\ ~Known(hash)
  /\ crashed' = TRUE
  /\ UNCHANGED <<pc, locks, state, syncOn, coins, miners, conn, users, clocks>>

\* Mutants of SetBalanceRead: the subtraction borrows from a wider integer, and
\* the new amount is added without taking the old one off.
SetBalanceReadWide ==
  /\ Goto(Miner, "sb_read", IF amount[hash] = mbal THEN "received" ELSE "sb_write")
  /\ mnew' = balance + mbal + Wrap - amount[hash]
  /\ UNCHANGED <<locks, state, syncOn, coins, hash, mbal, msgs, conn, users, clocks, crashed>>

SetBalanceReadAdd ==
  /\ Goto(Miner, "sb_read", IF amount[hash] = mbal THEN "received" ELSE "sb_write")
  /\ mnew' = (balance + mbal) % Wrap
  /\ UNCHANGED <<locks, state, syncOn, coins, hash, mbal, msgs, conn, users, clocks, crashed>>

\* The amounts are compared and added without block_mutex.
SetBalanceRead ==
  /\ Goto(Miner, "sb_read", IF amount[hash] = mbal THEN "received" ELSE "sb_write")
  /\ mnew' = (balance + mbal + Wrap - amount[hash]) % Wrap
  /\ UNCHANGED <<locks, state, syncOn, coins, hash, mbal, msgs, conn, users, clocks, crashed>>

SetBalanceWrite ==
  /\ Goto(Miner, "sb_write", "received")
  /\ balance' = mnew
  /\ amount' = [amount EXCEPT ![hash] = mbal]
  /\ UNCHANGED <<locks, state, syncOn, ours, miners, conn, users, clocks, crashed>>

MinerReceived ==
  /\ Goto(Miner, "received", "pollout")
  /\ recvFresh' = TRUE
  /\ UNCHANGED <<locks, state, syncOn, coins, miners, conn, users, xferRecent, crashed>>

-----------------------------------------------------------------------------
(* miner_net_thread_cleanup, run by pthread_exit: it unlocks g_pool_mutex      *)
(* whoever holds it, then forgets the key and the socket without the mutex.    *)

CleanupUnlock ==
  /\ Goto(Miner, "exit", "c_crypt")
  /\ poolOwner' = NoThread
  /\ UNCHANGED <<blockOwner, state, syncOn, coins, miners, conn, users, clocks, crashed>>

CleanupCrypt ==
  /\ Goto(Miner, "c_crypt", "c_close")
  /\ crypt' = FALSE
  /\ UNCHANGED <<locks, state, syncOn, coins, miners, open, users, clocks, crashed>>

CleanupClose ==
  /\ Goto(Miner, "c_close", "dead")
  /\ open' = FALSE
  /\ UNCHANGED <<locks, state, syncOn, coins, miners, crypt, users, clocks, crashed>>

-----------------------------------------------------------------------------
(* Time: 3 periods without a field, 2 periods after a transfer. *)

RecvStale ==
  /\ recvFresh /\ recvFresh' = FALSE
  /\ UNCHANGED <<pc, locks, state, syncOn, coins, miners, conn, users, xferRecent, crashed>>

XferOld ==
  /\ xferRecent /\ xferRecent' = FALSE
  /\ UNCHANGED <<pc, locks, state, syncOn, coins, miners, conn, users, recvFresh, crashed>>

-----------------------------------------------------------------------------
WorkStep == WorkStart \/ WorkLoad \/ WorkLoaded \/ WorkBegin \/ WorkTick \/ WorkRest \/ WorkClear

XferStep(x) ==
  \/ XferRefuse(x) \/ XferAccept(x) \/ XferBegin(x) \/ XferLock(x) \/ XferNothing(x)
  \/ XferCreate(x) \/ XferUnreadable(x) \/ XferSendCheck(x) \/ XferPoolLock(x)
  \/ XferClosed(x) \/ XferEncrypt(x) \/ XferNullCrypt(x) \/ XferWrite(x) \/ XferStalls(x)
  \/ XferDrains(x) \/ XferBroken(x) \/ XferUnlock(x)

MinerStep ==
  \/ MinerWait \/ MinerGetBlock \/ MinerNewBlock \/ MinerLook \/ MinerFind
  \/ MinerLoad \/ MinerUnreadable \/ MinerNoSocket \/ MinerSocket
  \/ MinerConnect \/ MinerPoll \/ MinerRelease \/ MinerFail \/ MinerField
  \/ SetBalanceLock \/ SetBalanceNull \/ SetBalanceRead \/ SetBalanceWrite
  \/ MinerReceived \/ CleanupUnlock \/ CleanupCrypt \/ CleanupClose

TimeStep == RecvStale \/ XferOld

Next ==
  /\ ~crashed
  /\ \/ WorkStep
     \/ \E x \in Xfers : XferStep(x)
     \/ MinerStep
     \/ TimeStep

Spec == Init /\ [][Next]_vars

(* Every thread keeps running, and gets a mutex that is free again and again: both *)
(* loops sleep for a second after an unlock.  The user, the faults, the clock and  *)
(* the pool are under no obligation; in particular the pool need never read again  *)
(* what a transfer sends (no fairness on XferDrains).  If it does read, the write   *)
(* takes at least a byte each time, and a block has 512 of them.                   *)
XferRuns(x) ==
  \/ XferLock(x) \/ XferNothing(x) \/ XferCreate(x) \/ XferSendCheck(x) \/ XferPoolLock(x)
  \/ XferClosed(x) \/ XferEncrypt(x) \/ XferNullCrypt(x) \/ XferWrite(x) \/ XferUnlock(x)

MinerRuns ==
  \/ MinerWait \/ MinerGetBlock \/ MinerNewBlock \/ MinerLook \/ MinerFind
  \/ MinerLoad \/ MinerSocket \/ MinerConnect \/ MinerPoll \/ MinerRelease
  \/ SetBalanceLock \/ SetBalanceNull \/ SetBalanceRead \/ SetBalanceWrite
  \/ MinerReceived \/ CleanupUnlock \/ CleanupCrypt \/ CleanupClose

Fairness ==
  /\ WF_vars(~crashed /\ WorkStep)
  /\ \A x \in Xfers : SF_vars(~crashed /\ XferRuns(x))
  /\ SF_vars(~crashed /\ MinerRuns)

FairSpec == Spec /\ Fairness

-----------------------------------------------------------------------------
(* Properties *)

HoldsBlock(x) == pc[x] \in {"traverse", "sendcheck", "poolwait", "encrypt", "write",
                            "full", "made", "unlock"}
Sending(x)    == pc[x] \in {"encrypt", "write", "full"}
MinerHoldsPool == pc[Miner] \in {"connecting", "hello", "polled", "sb_lock", "sb_read",
                                 "sb_write", "received", "pollout"}
Quitting == pc[Miner] \in {"c_crypt", "c_close", "dead"}

\* block_mutex is held exactly by the transfer that is between
\* xdag_traverse_our_blocks's lock and unlock, whatever path it took in between.
BlockMutex ==
  \A t \in Threads : blockOwner = t <=> t \in Xfers /\ HoldsBlock(t)

\* While the miner thread has not begun to quit, g_pool_mutex is held exactly by
\* the thread inside send_to_pool or inside one turn of the miner's loop: every
\* return of send_to_pool has unlocked the mutex its caller locked.
PoolMutex ==
  ~Quitting =>
    /\ \A x \in Xfers : poolOwner = x <=> Sending(x)
    /\ poolOwner = Miner <=> MinerHoldsPool

\* A transfer stops at the first block without coins, so a light wallet can only
\* spend if every block with coins is the first of the list.
OnlyFirstFunded ==
  \A i \in 2 .. Len(ours) : amount[ours[i]] = 0

\* g_balance, which the user sees and a transfer is checked against, is the sum of
\* the amounts of our blocks, as long as the engine knows any (the two writes of one
\* report counted as one step).  A reset between the unlocked read and write of
\* xdag_set_balance leaves a balance behind, but no block to spend it from.
OursSum ==
  LET sum[n \in 0 .. Len(ours)] ==
        IF n = 0 THEN 0 ELSE (sum[n - 1] + amount[ours[n]]) % Wrap
  IN sum[Len(ours)]
BalanceIsSum == ours # <<>> => balance = OursSum

\* While a transfer walks the list of our blocks, the list only grows at its end:
\* the walk never loses its place.
WalkKept ==
  \A x \in Xfers :
    blockOwner = x /\ blockOwner' = x =>
      Len(ours') >= Len(ours) /\ SubSeq(ours', 1, Len(ours)) = ours
WalkIsStable == [][WalkKept]_vars

\* No block is linked into our list twice: a move to the front unlinks the block
\* first, and each transfer adds its own new block once.
OursDistinct ==
  \A i, j \in 1 .. Len(ours) : ours[i] = ours[j] => i = j

\* A transfer that has reached the block engine comes to an end.
TransfersEnd ==
  \A x \in Xfers : pc[x] = "lock" ~> pc[x] = "done"

\* The ways a transfer can hang: its sender waits for g_pool_mutex while the miner
\* thread, which holds it, waits for block_mutex; or the socket was closed under
\* the sender; or the pool stops reading for good while the sender polls; or the
\* process is gone.
DeadlyEmbrace ==
  /\ pc[Miner] = "sb_lock" /\ poolOwner = Miner
  /\ \E y \in Xfers : pc[y] = "poolwait" /\ blockOwner = y
SenderCutOff == ~open /\ \E y \in Xfers : pc[y] \in {"write", "full"}
SenderStalled == \E y \in Xfers : pc[y] = "full"

\* Whatever the pool and the storage do, a transfer that has reached the block
\* engine ends unless one of the four hangs above has happened: a pool that is
\* merely slow, or that stops reading and then breaks the connection, hangs nobody.
TransfersEndOrHang ==
  []<>~SenderStalled =>
    \A x \in Xfers :
      pc[x] = "lock" ~> pc[x] = "done" \/ DeadlyEmbrace \/ SenderCutOff \/ crashed

\* A reset that was asked for clears the blocks, unless a transfer writes its own
\* state over the request, or one of the four hangs above keeps block_mutex.
ResetCarriedOut ==
  []<>~SenderStalled =>
    (state = "REST" ~>
       ours = <<>> \/ state = "XFER" \/ DeadlyEmbrace \/ SenderCutOff \/ crashed)

\* Our block stays known to the engine as long as the pool may report on it.
NullBlockRefused == ~(pc[Miner] = "sb_lock" /\ crashed)

=============================================================================
