------------------------- MODULE WalletEngineProofs -------------------------
(***************************************************************************)
(* Theorems about WalletEngine, for every set of transfers, every local     *)
(* storage, every bound on the messages and with every fault switched on    *)
(* or off.  Each theorem is shown from an invariant preserved by every      *)
(* step, one case per action.                                               *)
(***************************************************************************)
EXTENDS WalletEngine, WellFoundedInduction, TLAPS

\* What the assumption on the constants says of the threads and the blocks,
\* without the definitions of Threads and Blocks.
LEMMA Actors ==
  /\ Miner \in Threads /\ Work \in Threads /\ Xfers \subseteq Threads
  /\ Miner \notin Xfers /\ Work \notin Xfers /\ Miner # Work
  /\ Xfers \subseteq Blocks /\ Own \in Blocks
  /\ \A i \in 1 .. Len(Stored) : Stored[i] \in Blocks
  /\ \A t \in Threads : t \in Xfers \/ t = Miner \/ t = Work
  /\ NoThread \notin Threads
  /\ Wrap \in Nat /\ Wrap > 0
  /\ Amounts \subseteq 0 .. Wrap - 1
  /\ Wants \subseteq 1 .. Wrap - 1
  /\ MaxMsgs \in Nat
  /\ Len(Stored) \in Nat
BY EngineAssumption DEF EngineAssumption, Threads, Blocks

-----------------------------------------------------------------------------
LEMMA TypingInit == Init => TypeOK
<1> SUFFICES ASSUME Init PROVE TypeOK
  OBVIOUS
<1> USE Actors DEF Init
<1>1. /\ pc \in [Threads -> XferPcs \cup MinerPcs \cup WorkPcs]
      /\ \A x \in Xfers : pc[x] \in XferPcs
      /\ pc[Miner] \in MinerPcs
      /\ pc[Work] \in WorkPcs
  BY DEF XferPcs, MinerPcs, WorkPcs
<1>2. /\ ours \in Seq(Blocks)
      /\ amount \in [Blocks -> 0 .. Wrap - 1]
      /\ want \in [Xfers -> 0 .. Wrap - 1] /\ done \in [Xfers -> 0 .. Wrap - 1]
  OBVIOUS
<1>3. /\ recvFresh \in BOOLEAN /\ xferRecent \in BOOLEAN /\ crashed \in BOOLEAN
      /\ open \in BOOLEAN /\ crypt \in BOOLEAN /\ syncOn \in BOOLEAN
  BY Zenon
<1>4. /\ blockOwner \in Threads \cup {NoThread} /\ poolOwner \in Threads \cup {NoThread}
      /\ state \in States
      /\ balance \in 0 .. Wrap - 1 /\ hash \in Blocks
      /\ mbal \in 0 .. Wrap - 1 /\ mnew \in 0 .. Wrap - 1 /\ msgs \in 0 .. MaxMsgs
      /\ sent \subseteq Blocks
  BY DEF States
<1> QED
  BY <1>1, <1>2, <1>3, <1>4, Zenon DEF TypeOK

LEMMA TypingStep == TypeOK /\ [Next]_vars => TypeOK'
<1> SUFFICES ASSUME TypeOK, [Next]_vars PROVE TypeOK'
  OBVIOUS
<1> USE Actors DEF TypeOK, Goto, Free, XferPcs, MinerPcs, WorkPcs, States,
        locks, coins, miners, conn, users, clocks
<1>1. CASE WorkStart
  BY <1>1 DEF WorkStart
<1>2. CASE WorkLoad
  BY <1>2 DEF WorkLoad
<1>3. CASE WorkLoaded
  BY <1>3 DEF WorkLoaded
<1>4. CASE WorkBegin
  BY <1>4 DEF WorkBegin
<1>5. CASE WorkTick
  BY <1>5 DEF WorkTick, ChosenState
<1>6. CASE WorkRest
  BY <1>6 DEF WorkRest
<1>7. CASE WorkClear
  BY <1>7 DEF WorkClear
<1>8. ASSUME NEW x \in Xfers, XferRefuse(x) PROVE TypeOK'
  <2>1. CASE Goto(x, "start", "done")
    BY <1>8, <2>1 DEF XferRefuse
  <2>2. CASE Goto(x, "password", "done")
    BY <1>8, <2>2 DEF XferRefuse
  <2> QED
    BY <1>8, <2>1, <2>2 DEF XferRefuse
<1>9. ASSUME NEW x \in Xfers, XferAccept(x) PROVE TypeOK'
  BY <1>9 DEF XferAccept
<1>10. ASSUME NEW x \in Xfers, XferBegin(x) PROVE TypeOK'
  BY <1>10 DEF XferBegin
<1>11. ASSUME NEW x \in Xfers, XferLock(x) PROVE TypeOK'
  BY <1>11 DEF XferLock
<1>12. ASSUME NEW x \in Xfers, XferNothing(x) PROVE TypeOK'
  BY <1>12 DEF XferNothing
<1>13. ASSUME NEW x \in Xfers, XferCreate(x) PROVE TypeOK'
  BY <1>13 DEF XferCreate, Covered
<1>14. ASSUME NEW x \in Xfers, XferUnreadable(x) PROVE TypeOK'
  BY <1>14 DEF XferUnreadable
<1>15. ASSUME NEW x \in Xfers, XferSendCheck(x) PROVE TypeOK'
  BY <1>15 DEF XferSendCheck
<1>16. ASSUME NEW x \in Xfers, XferPoolLock(x) PROVE TypeOK'
  BY <1>16 DEF XferPoolLock
<1>17. ASSUME NEW x \in Xfers, XferClosed(x) PROVE TypeOK'
  BY <1>17 DEF XferClosed
<1>18. ASSUME NEW x \in Xfers, XferEncrypt(x) PROVE TypeOK'
  BY <1>18 DEF XferEncrypt
<1>19. ASSUME NEW x \in Xfers, XferNullCrypt(x) PROVE TypeOK'
  BY <1>19 DEF XferNullCrypt
<1>20. ASSUME NEW x \in Xfers, XferWrite(x) PROVE TypeOK'
  BY <1>20 DEF XferWrite
<1>20a. ASSUME NEW x \in Xfers, XferStalls(x) PROVE TypeOK'
  BY <1>20a DEF XferStalls
<1>20b. ASSUME NEW x \in Xfers, XferDrains(x) PROVE TypeOK'
  BY <1>20b DEF XferDrains
<1>20c. ASSUME NEW x \in Xfers, XferBroken(x) PROVE TypeOK'
  BY <1>20c DEF XferBroken
<1>21. ASSUME NEW x \in Xfers, XferUnlock(x) PROVE TypeOK'
  BY <1>21 DEF XferUnlock
<1>22. CASE MinerWait
  BY <1>22 DEF MinerWait
<1>23. CASE MinerGetBlock
  BY <1>23 DEF MinerGetBlock
<1>24. CASE MinerNewBlock
  BY <1>24 DEF MinerNewBlock
<1>25. CASE MinerLook
  BY <1>25 DEF MinerLook
<1>26. CASE MinerFind
  BY <1>26 DEF MinerFind
<1>27. CASE MinerLoad
  BY <1>27 DEF MinerLoad
<1>28. CASE MinerUnreadable
  BY <1>28 DEF MinerUnreadable
<1>29. CASE MinerNoSocket
  BY <1>29 DEF MinerNoSocket
<1>30. CASE MinerSocket
  BY <1>30 DEF MinerSocket
<1>31. CASE MinerConnect
  BY <1>31 DEF MinerConnect
<1>32. CASE MinerPoll
  BY <1>32 DEF MinerPoll
<1>33. CASE MinerRelease
  BY <1>33 DEF MinerRelease
<1>34. CASE MinerFail
  BY <1>34 DEF MinerFail
<1>35. CASE MinerField
  BY <1>35 DEF MinerField
<1>36. CASE SetBalanceLock
  BY <1>36 DEF SetBalanceLock, MovedToFront
<1>37. CASE SetBalanceNull
  BY <1>37 DEF SetBalanceNull
<1>38. CASE SetBalanceRead
  <2>1. amount[hash] \in 0 .. Wrap - 1 /\ balance \in 0 .. Wrap - 1 /\ mbal \in 0 .. Wrap - 1
    OBVIOUS
  <2>2. mnew' \in 0 .. Wrap - 1
    <3>1. mnew' = (balance + mbal + Wrap - amount[hash]) % Wrap
      BY <1>38 DEF SetBalanceRead
    <3> HIDE DEF TypeOK
    <3> QED
      BY <2>1, <3>1, Actors
  <2>3. pc' \in [Threads -> XferPcs \cup MinerPcs \cup WorkPcs] /\ pc'[Miner] \in MinerPcs
        /\ pc'[Work] = pc[Work] /\ \A x \in Xfers : pc'[x] = pc[x]
    BY <1>38 DEF SetBalanceRead
  <2> HIDE Actors DEF XferPcs, MinerPcs, WorkPcs, States
  <2> QED
    BY <1>38, <2>2, <2>3, Zenon DEF SetBalanceRead
<1>39. CASE SetBalanceWrite
  BY <1>39 DEF SetBalanceWrite
<1>40. CASE MinerReceived
  BY <1>40 DEF MinerReceived
<1>41. CASE CleanupUnlock
  <2>1. poolOwner' \in Threads \cup {NoThread}
    BY <1>41 DEF CleanupUnlock
  <2>2. pc' \in [Threads -> XferPcs \cup MinerPcs \cup WorkPcs] /\ pc'[Miner] \in MinerPcs
        /\ pc'[Work] = pc[Work] /\ \A x \in Xfers : pc'[x] = pc[x]
    BY <1>41 DEF CleanupUnlock
  <2> HIDE Actors DEF XferPcs, MinerPcs, WorkPcs, States
  <2> QED
    BY <1>41, <2>1, <2>2, Zenon DEF CleanupUnlock
<1>42. CASE CleanupCrypt
  <2>1. crypt' \in BOOLEAN
    BY <1>42 DEF CleanupCrypt
  <2>2. pc' \in [Threads -> XferPcs \cup MinerPcs \cup WorkPcs] /\ pc'[Miner] \in MinerPcs
        /\ pc'[Work] = pc[Work] /\ \A x \in Xfers : pc'[x] = pc[x]
    BY <1>42 DEF CleanupCrypt
  <2> HIDE Actors DEF XferPcs, MinerPcs, WorkPcs, States
  <2> QED
    BY <1>42, <2>1, <2>2, Zenon DEF CleanupCrypt
<1>43. CASE CleanupClose
  <2>1. open' \in BOOLEAN
    BY <1>43 DEF CleanupClose
  <2>2. pc' \in [Threads -> XferPcs \cup MinerPcs \cup WorkPcs] /\ pc'[Miner] \in MinerPcs
        /\ pc'[Work] = pc[Work] /\ \A x \in Xfers : pc'[x] = pc[x]
    BY <1>43 DEF CleanupClose
  <2> HIDE Actors DEF XferPcs, MinerPcs, WorkPcs, States
  <2> QED
    BY <1>43, <2>1, <2>2, Zenon DEF CleanupClose
<1>44. CASE RecvStale
  <2>1. recvFresh' \in BOOLEAN
    BY <1>44 DEF RecvStale
  <2> HIDE Actors DEF XferPcs, MinerPcs, WorkPcs, States
  <2> QED
    BY <1>44, <2>1, Zenon DEF RecvStale
<1>45. CASE XferOld
  <2>1. xferRecent' \in BOOLEAN
    BY <1>45 DEF XferOld
  <2> HIDE Actors DEF XferPcs, MinerPcs, WorkPcs, States
  <2> QED
    BY <1>45, <2>1, Zenon DEF XferOld
<1>46. CASE UNCHANGED vars
  BY <1>46 DEF vars
<1> HIDE DEF TypeOK, Goto, Free, locks, coins, miners, conn, users, clocks
<1> QED
  BY <1>1, <1>2, <1>3, <1>4, <1>5, <1>6, <1>7, <1>8, <1>9, <1>10, <1>11, <1>12, <1>13,
     <1>14, <1>15, <1>16, <1>17, <1>18, <1>19, <1>20, <1>20a, <1>20b, <1>20c, <1>21, <1>22, <1>23, <1>24, <1>25,
     <1>26, <1>27, <1>28, <1>29, <1>30, <1>31, <1>32, <1>33, <1>34, <1>35, <1>36, <1>37,
     <1>38, <1>39, <1>40, <1>41, <1>42, <1>43, <1>44, <1>45, <1>46 DEF Next, WorkStep,
     XferStep, MinerStep, TimeStep

\* Every variable stays in its type; in particular g_balance and the amounts,
\* which are unsigned 64-bit integers in the code, stay below 2^64.
THEOREM TypeCorrect == Spec => []TypeOK
BY TypingInit, TypingStep, PTL DEF Spec

-----------------------------------------------------------------------------
(* The two mutexes.  Both invariants are inductive next to the types. *)

LEMMA MutexInit == Init => BlockMutex /\ PoolMutex
BY Actors DEF Init, BlockMutex, PoolMutex, HoldsBlock, Sending, MinerHoldsPool, Quitting

LEMMA BlockMutexStep == TypeOK /\ BlockMutex /\ [Next]_vars => BlockMutex'
<1> SUFFICES ASSUME TypeOK, BlockMutex, [Next]_vars PROVE BlockMutex'
  OBVIOUS
<1>a. pc \in [Threads -> XferPcs \cup MinerPcs \cup WorkPcs]
  BY DEF TypeOK
<1> USE <1>a, Actors DEF BlockMutex, HoldsBlock, Goto, Free, locks
<1>1. CASE WorkStart
  BY <1>1 DEF WorkStart
<1>2. CASE WorkLoad
  BY <1>2 DEF WorkLoad
<1>3. CASE WorkLoaded
  BY <1>3 DEF WorkLoaded
<1>4. CASE WorkBegin
  BY <1>4 DEF WorkBegin
<1>5. CASE WorkTick
  BY <1>5 DEF WorkTick
<1>6. CASE WorkRest
  BY <1>6 DEF WorkRest
<1>7. CASE WorkClear
  BY <1>7 DEF WorkClear
<1>8. ASSUME NEW x \in Xfers, XferRefuse(x) PROVE BlockMutex'
  BY <1>8 DEF XferRefuse
<1>9. ASSUME NEW x \in Xfers, XferAccept(x) PROVE BlockMutex'
  BY <1>9 DEF XferAccept
<1>10. ASSUME NEW x \in Xfers, XferBegin(x) PROVE BlockMutex'
  BY <1>10 DEF XferBegin
<1>11. ASSUME NEW x \in Xfers, XferLock(x) PROVE BlockMutex'
  BY <1>11 DEF XferLock
<1>12. ASSUME NEW x \in Xfers, XferNothing(x) PROVE BlockMutex'
  BY <1>12 DEF XferNothing
<1>13. ASSUME NEW x \in Xfers, XferCreate(x) PROVE BlockMutex'
  BY <1>13 DEF XferCreate
<1>14. ASSUME NEW x \in Xfers, XferUnreadable(x) PROVE BlockMutex'
  BY <1>14 DEF XferUnreadable
<1>15. ASSUME NEW x \in Xfers, XferSendCheck(x) PROVE BlockMutex'
  BY <1>15 DEF XferSendCheck
<1>16. ASSUME NEW x \in Xfers, XferPoolLock(x) PROVE BlockMutex'
  BY <1>16 DEF XferPoolLock
<1>17. ASSUME NEW x \in Xfers, XferClosed(x) PROVE BlockMutex'
  BY <1>17 DEF XferClosed
<1>18. ASSUME NEW x \in Xfers, XferEncrypt(x) PROVE BlockMutex'
  BY <1>18 DEF XferEncrypt
<1>19. ASSUME NEW x \in Xfers, XferNullCrypt(x) PROVE BlockMutex'
  BY <1>19 DEF XferNullCrypt
<1>20. ASSUME NEW x \in Xfers, XferWrite(x) PROVE BlockMutex'
  BY <1>20 DEF XferWrite
<1>20a. ASSUME NEW x \in Xfers, XferStalls(x) PROVE BlockMutex'
  BY <1>20a DEF XferStalls
<1>20b. ASSUME NEW x \in Xfers, XferDrains(x) PROVE BlockMutex'
  BY <1>20b DEF XferDrains
<1>20c. ASSUME NEW x \in Xfers, XferBroken(x) PROVE BlockMutex'
  BY <1>20c DEF XferBroken
<1>21. ASSUME NEW x \in Xfers, XferUnlock(x) PROVE BlockMutex'
  BY <1>21 DEF XferUnlock
<1>22. CASE MinerWait
  BY <1>22 DEF MinerWait
<1>23. CASE MinerGetBlock
  BY <1>23 DEF MinerGetBlock
<1>24. CASE MinerNewBlock
  BY <1>24 DEF MinerNewBlock
<1>25. CASE MinerLook
  BY <1>25 DEF MinerLook
<1>26. CASE MinerFind
  BY <1>26 DEF MinerFind
<1>27. CASE MinerLoad
  BY <1>27 DEF MinerLoad
<1>28. CASE MinerUnreadable
  BY <1>28 DEF MinerUnreadable
<1>29. CASE MinerNoSocket
  BY <1>29 DEF MinerNoSocket
<1>30. CASE MinerSocket
  BY <1>30 DEF MinerSocket
<1>31. CASE MinerConnect
  BY <1>31 DEF MinerConnect
<1>32. CASE MinerPoll
  BY <1>32 DEF MinerPoll
<1>33. CASE MinerRelease
  BY <1>33 DEF MinerRelease
<1>34. CASE MinerFail
  BY <1>34 DEF MinerFail
<1>35. CASE MinerField
  BY <1>35 DEF MinerField
<1>36. CASE SetBalanceLock
  BY <1>36 DEF SetBalanceLock
<1>37. CASE SetBalanceNull
  BY <1>37 DEF SetBalanceNull
<1>38. CASE SetBalanceRead
  BY <1>38 DEF SetBalanceRead
<1>39. CASE SetBalanceWrite
  BY <1>39 DEF SetBalanceWrite
<1>40. CASE MinerReceived
  BY <1>40 DEF MinerReceived
<1>41. CASE CleanupUnlock
  BY <1>41 DEF CleanupUnlock
<1>42. CASE CleanupCrypt
  BY <1>42 DEF CleanupCrypt
<1>43. CASE CleanupClose
  BY <1>43 DEF CleanupClose
<1>44. CASE RecvStale
  BY <1>44 DEF RecvStale
<1>45. CASE XferOld
  BY <1>45 DEF XferOld
<1>46. CASE UNCHANGED vars
  BY <1>46 DEF vars
<1> HIDE DEF BlockMutex, Goto, Free, locks
<1> QED
  BY <1>1, <1>2, <1>3, <1>4, <1>5, <1>6, <1>7, <1>8, <1>9, <1>10, <1>11, <1>12, <1>13,
     <1>14, <1>15, <1>16, <1>17, <1>18, <1>19, <1>20, <1>20a, <1>20b, <1>20c, <1>21, <1>22, <1>23, <1>24, <1>25,
     <1>26, <1>27, <1>28, <1>29, <1>30, <1>31, <1>32, <1>33, <1>34, <1>35, <1>36, <1>37,
     <1>38, <1>39, <1>40, <1>41, <1>42, <1>43, <1>44, <1>45, <1>46 DEF Next, WorkStep,
     XferStep, MinerStep, TimeStep

\* Whatever path a transfer takes through the block engine, block_mutex is locked
\* exactly while it is inside xdag_traverse_our_blocks.
THEOREM BlockMutexCorrect == Spec => []BlockMutex
BY TypingInit, TypingStep, MutexInit, BlockMutexStep, PTL DEF Spec

LEMMA PoolMutexStep == TypeOK /\ PoolMutex /\ [Next]_vars => PoolMutex'
<1> SUFFICES ASSUME TypeOK, PoolMutex, [Next]_vars PROVE PoolMutex'
  OBVIOUS
<1>a. /\ pc \in [Threads -> XferPcs \cup MinerPcs \cup WorkPcs]
      /\ pc[Work] \in WorkPcs
  BY DEF TypeOK
<1> USE <1>a, Actors DEF PoolMutex, Sending, MinerHoldsPool, Quitting, Goto, Free, locks
<1>1. CASE WorkStart
  BY <1>1 DEF WorkStart
<1>2. CASE WorkLoad
  BY <1>2 DEF WorkLoad
<1>3. CASE WorkLoaded
  BY <1>3 DEF WorkLoaded
<1>4. CASE WorkBegin
  BY <1>4 DEF WorkBegin
<1>5. CASE WorkTick
  BY <1>5 DEF WorkTick
<1>6. CASE WorkRest
  BY <1>6 DEF WorkRest
<1>7. CASE WorkClear
  BY <1>7 DEF WorkClear
<1>8. ASSUME NEW x \in Xfers, XferRefuse(x) PROVE PoolMutex'
  BY <1>8 DEF XferRefuse
<1>9. ASSUME NEW x \in Xfers, XferAccept(x) PROVE PoolMutex'
  BY <1>9 DEF XferAccept
<1>10. ASSUME NEW x \in Xfers, XferBegin(x) PROVE PoolMutex'
  BY <1>10 DEF XferBegin
<1>11. ASSUME NEW x \in Xfers, XferLock(x) PROVE PoolMutex'
  BY <1>11 DEF XferLock
<1>12. ASSUME NEW x \in Xfers, XferNothing(x) PROVE PoolMutex'
  BY <1>12 DEF XferNothing
<1>13. ASSUME NEW x \in Xfers, XferCreate(x) PROVE PoolMutex'
  BY <1>13 DEF XferCreate
<1>14. ASSUME NEW x \in Xfers, XferUnreadable(x) PROVE PoolMutex'
  BY <1>14 DEF XferUnreadable
<1>15. ASSUME NEW x \in Xfers, XferSendCheck(x) PROVE PoolMutex'
  BY <1>15 DEF XferSendCheck
<1>16. ASSUME NEW x \in Xfers, XferPoolLock(x) PROVE PoolMutex'
  BY <1>16 DEF XferPoolLock
<1>17. ASSUME NEW x \in Xfers, XferClosed(x) PROVE PoolMutex'
  BY <1>17 DEF XferClosed
<1>18. ASSUME NEW x \in Xfers, XferEncrypt(x) PROVE PoolMutex'
  BY <1>18 DEF XferEncrypt
<1>19. ASSUME NEW x \in Xfers, XferNullCrypt(x) PROVE PoolMutex'
  BY <1>19 DEF XferNullCrypt
<1>20. ASSUME NEW x \in Xfers, XferWrite(x) PROVE PoolMutex'
  BY <1>20 DEF XferWrite
<1>20a. ASSUME NEW x \in Xfers, XferStalls(x) PROVE PoolMutex'
  BY <1>20a DEF XferStalls
<1>20b. ASSUME NEW x \in Xfers, XferDrains(x) PROVE PoolMutex'
  BY <1>20b DEF XferDrains
<1>20c. ASSUME NEW x \in Xfers, XferBroken(x) PROVE PoolMutex'
  BY <1>20c DEF XferBroken
<1>21. ASSUME NEW x \in Xfers, XferUnlock(x) PROVE PoolMutex'
  BY <1>21 DEF XferUnlock
<1>22. CASE MinerWait
  BY <1>22 DEF MinerWait
<1>23. CASE MinerGetBlock
  BY <1>23 DEF MinerGetBlock
<1>24. CASE MinerNewBlock
  BY <1>24 DEF MinerNewBlock
<1>25. CASE MinerLook
  BY <1>25 DEF MinerLook
<1>26. CASE MinerFind
  BY <1>26 DEF MinerFind
<1>27. CASE MinerLoad
  BY <1>27 DEF MinerLoad
<1>28. CASE MinerUnreadable
  BY <1>28 DEF MinerUnreadable
<1>29. CASE MinerNoSocket
  BY <1>29 DEF MinerNoSocket
<1>30. CASE MinerSocket
  BY <1>30 DEF MinerSocket
<1>31. CASE MinerConnect
  BY <1>31 DEF MinerConnect
<1>32. CASE MinerPoll
  BY <1>32 DEF MinerPoll
<1>33. CASE MinerRelease
  BY <1>33 DEF MinerRelease
<1>34. CASE MinerFail
  BY <1>34 DEF MinerFail
<1>35. CASE MinerField
  BY <1>35 DEF MinerField
<1>36. CASE SetBalanceLock
  BY <1>36 DEF SetBalanceLock
<1>37. CASE SetBalanceNull
  BY <1>37 DEF SetBalanceNull
<1>38. CASE SetBalanceRead
  BY <1>38 DEF SetBalanceRead
<1>39. CASE SetBalanceWrite
  BY <1>39 DEF SetBalanceWrite
<1>40. CASE MinerReceived
  BY <1>40 DEF MinerReceived
<1>41. CASE CleanupUnlock
  BY <1>41 DEF CleanupUnlock
<1>42. CASE CleanupCrypt
  BY <1>42 DEF CleanupCrypt
<1>43. CASE CleanupClose
  BY <1>43 DEF CleanupClose
<1>44. CASE RecvStale
  BY <1>44 DEF RecvStale
<1>45. CASE XferOld
  BY <1>45 DEF XferOld
<1>46. CASE UNCHANGED vars
  BY <1>46 DEF vars
<1> HIDE DEF PoolMutex, Goto, Free, locks
<1> QED
  BY <1>1, <1>2, <1>3, <1>4, <1>5, <1>6, <1>7, <1>8, <1>9, <1>10, <1>11, <1>12, <1>13,
     <1>14, <1>15, <1>16, <1>17, <1>18, <1>19, <1>20, <1>20a, <1>20b, <1>20c, <1>21, <1>22, <1>23, <1>24, <1>25,
     <1>26, <1>27, <1>28, <1>29, <1>30, <1>31, <1>32, <1>33, <1>34, <1>35, <1>36, <1>37,
     <1>38, <1>39, <1>40, <1>41, <1>42, <1>43, <1>44, <1>45, <1>46 DEF Next, WorkStep,
     XferStep, MinerStep, TimeStep

\* Until the miner thread begins to quit, g_pool_mutex is locked exactly while a
\* thread is inside send_to_pool or inside one turn of the miner's loop.
THEOREM PoolMutexCorrect == Spec => []PoolMutex
BY TypingInit, TypingStep, MutexInit, PoolMutexStep, PTL DEF Spec

-----------------------------------------------------------------------------
(* The list of our blocks.  OnlyFirstFunded and OursDistinct are not inductive: *)
(* that the funded block stays first needs that it was first when the miner    *)
(* thread chose it, that the list loads before the miner looks, and that each  *)
(* transfer adds its block once.                                               *)

\* While the storage loads, the miner waits and the list is a prefix of it.
LoadsFirst ==
  pc[Work] \in {"init", "load"} =>
    /\ ~syncOn /\ pc[Miner] = "waitsync"
    /\ \A i \in 1 .. Len(ours) : i <= Len(Stored) /\ ours[i] = Stored[i]

\* The miner thread has not chosen its block yet.
Choosing == pc[Miner] \in {"waitsync", "getblock", "look"}

\* Only the miner's block has coins, none has any before it is chosen, and it is
\* the first of the list unless the list was cleared.
OneFunded ==
  /\ \A b \in Blocks : amount[b] # 0 => b = hash /\ ~Choosing
  /\ ours # <<>> /\ ~Choosing => ours[1] = hash

\* A transfer's block is in the list only once the transfer has made it, and a
\* transfer under way asks for something.
MadeOnce ==
  \A x \in Xfers :
    /\ Known(x) => pc[x] \in {"sendcheck", "poolwait", "encrypt", "write", "full",
                              "made", "unlock", "done"}
    /\ pc[x] \in {"password", "lock", "traverse"} => want[x] >= 1

ListInv == LoadsFirst /\ OneFunded /\ MadeOnce /\ OursDistinct

LEMMA ListInit == Init => ListInv
BY Actors DEF Init, ListInv, LoadsFirst, Choosing, OneFunded, MadeOnce, OursDistinct, Known

LEMMA StoredDistinct ==
  /\ \A i, j \in 1 .. Len(Stored) : Stored[i] = Stored[j] => i = j
  /\ \A i \in 1 .. Len(Stored) : Stored[i] \notin Xfers
  /\ Own \notin Xfers
BY EngineAssumption DEF EngineAssumption

LEMMA AppendFacts ==
  ASSUME NEW S, NEW s \in Seq(S), NEW e \in S
  PROVE  /\ Append(s, e) \in Seq(S) /\ Len(s) \in Nat
         /\ Len(Append(s, e)) = Len(s) + 1
         /\ \A i \in 1 .. Len(s) : Append(s, e)[i] = s[i]
         /\ Append(s, e)[Len(s) + 1] = e
OBVIOUS

\* The block the pool reports on is already the first: moving it changes nothing.
LEMMA MoveIsIdentity ==
  ASSUME TypeOK, ListInv, SetBalanceLock
  PROVE  UNCHANGED ours
<1>1. ours \in Seq(Blocks)
  BY DEF TypeOK
<1>2. PICK i \in 1 .. Len(ours) : ours[i] = hash /\ ours' = MovedToFront(ours, i)
  BY DEF SetBalanceLock
<1>3. ours[1] = hash
  BY <1>1, <1>2 DEF SetBalanceLock, Goto, ListInv, OneFunded, Choosing
<1>4. i = 1
  BY <1>1, <1>2, <1>3 DEF ListInv, OursDistinct
<1> QED
  BY <1>1, <1>2, <1>4 DEF MovedToFront

LEMMA ListStep == TypeOK /\ ListInv /\ [Next]_vars => ListInv'
<1> SUFFICES ASSUME TypeOK, ListInv, [Next]_vars PROVE ListInv'
  OBVIOUS
<1>a. /\ pc \in [Threads -> XferPcs \cup MinerPcs \cup WorkPcs]
      /\ \A x \in Xfers : pc[x] \in XferPcs
      /\ ours \in Seq(Blocks) /\ hash \in Blocks
      /\ amount \in [Blocks -> 0 .. Wrap - 1] /\ want \in [Xfers -> 0 .. Wrap - 1]
  BY DEF TypeOK
<1> USE <1>a, Actors DEF ListInv, LoadsFirst, Choosing, OneFunded, MadeOnce, OursDistinct,
        Known, Goto, Free, locks, coins, miners, conn, users, clocks
<1>1. CASE WorkStart
  BY <1>1 DEF WorkStart
<1>2. CASE WorkLoad
  <2>1. /\ pc' = pc /\ Len(ours') = Len(ours) + 1 /\ Len(ours) < Len(Stored)
        /\ \A i \in 1 .. Len(ours) : ours'[i] = ours[i]
        /\ ours'[Len(ours) + 1] = Stored[Len(ours) + 1]
    BY <1>2, AppendFacts DEF WorkLoad
  <2>2. LoadsFirst'
    BY <1>2, <2>1 DEF WorkLoad
  <2>3. OneFunded'
    BY <1>2, <2>1 DEF WorkLoad
  <2>4. MadeOnce'
    BY <1>2, <2>1, StoredDistinct DEF WorkLoad
  <2>5. OursDistinct'
    BY <1>2, <2>1, <2>2, StoredDistinct DEF WorkLoad
  <2> QED
    BY <2>2, <2>3, <2>4, <2>5
<1>3. CASE WorkLoaded
  BY <1>3 DEF WorkLoaded
<1>4. CASE WorkBegin
  BY <1>4 DEF WorkBegin
<1>5. CASE WorkTick
  BY <1>5 DEF WorkTick
<1>6. CASE WorkRest
  BY <1>6 DEF WorkRest
<1>7. CASE WorkClear
  BY <1>7 DEF WorkClear
<1>8. ASSUME NEW x \in Xfers, XferRefuse(x) PROVE ListInv'
  <2>1. LoadsFirst' /\ OneFunded'
    BY <1>8 DEF XferRefuse
  <2>2. MadeOnce'
    BY <1>8 DEF XferRefuse
  <2>3. OursDistinct'
    BY <1>8 DEF XferRefuse
  <2> QED
    BY <2>1, <2>2, <2>3
<1>9. ASSUME NEW x \in Xfers, XferAccept(x) PROVE ListInv'
  <2>1. LoadsFirst' /\ OneFunded'
    BY <1>9 DEF XferAccept
  <2>2. MadeOnce'
    BY <1>9 DEF XferAccept
  <2>3. OursDistinct'
    BY <1>9 DEF XferAccept
  <2> QED
    BY <2>1, <2>2, <2>3
<1>10. ASSUME NEW x \in Xfers, XferBegin(x) PROVE ListInv'
  BY <1>10 DEF XferBegin
<1>11. ASSUME NEW x \in Xfers, XferLock(x) PROVE ListInv'
  BY <1>11 DEF XferLock
<1>12. ASSUME NEW x \in Xfers, XferNothing(x) PROVE ListInv'
  BY <1>12 DEF XferNothing
<1>13. ASSUME NEW x \in Xfers, XferCreate(x) PROVE ListInv'
  <2>1. /\ x \in Blocks /\ ours # <<>> /\ Len(ours') = Len(ours) + 1
        /\ \A i \in 1 .. Len(ours) : ours'[i] = ours[i]
        /\ ours'[Len(ours) + 1] = x
    BY <1>13, AppendFacts DEF XferCreate, Covered
  <2>2. ours[1] \in Blocks /\ amount[ours[1]] # 0 /\ ~Choosing
    <3>1. Len(ours) \in Nat /\ Len(ours) >= 1 /\ Head(ours) = ours[1] /\ ours[1] \in
     Blocks
      BY <2>1
    <3>2. want[x] >= 1 /\ want[x] <= amount[ours[1]]
      BY <1>13, <3>1 DEF XferCreate, Covered
    <3> QED
      BY <3>1, <3>2
  <2>3. LoadsFirst' /\ OneFunded'
    BY <1>13, <2>1, <2>2 DEF XferCreate
  <2>4. MadeOnce'
    BY <1>13, <2>1 DEF XferCreate
  <2>5. ~Known(x)
    BY <1>13 DEF XferCreate
  <2>6. OursDistinct'
    BY <1>13, <2>1, <2>5 DEF XferCreate
  <2> QED
    BY <2>3, <2>4, <2>6
<1>14. ASSUME NEW x \in Xfers, XferUnreadable(x) PROVE ListInv'
  BY <1>14 DEF XferUnreadable
<1>15. ASSUME NEW x \in Xfers, XferSendCheck(x) PROVE ListInv'
  BY <1>15 DEF XferSendCheck
<1>16. ASSUME NEW x \in Xfers, XferPoolLock(x) PROVE ListInv'
  BY <1>16 DEF XferPoolLock
<1>17. ASSUME NEW x \in Xfers, XferClosed(x) PROVE ListInv'
  BY <1>17 DEF XferClosed
<1>18. ASSUME NEW x \in Xfers, XferEncrypt(x) PROVE ListInv'
  BY <1>18 DEF XferEncrypt
<1>19. ASSUME NEW x \in Xfers, XferNullCrypt(x) PROVE ListInv'
  BY <1>19 DEF XferNullCrypt
<1>20. ASSUME NEW x \in Xfers, XferWrite(x) PROVE ListInv'
  BY <1>20 DEF XferWrite
<1>20a. ASSUME NEW x \in Xfers, XferStalls(x) PROVE ListInv'
  BY <1>20a DEF XferStalls
<1>20b. ASSUME NEW x \in Xfers, XferDrains(x) PROVE ListInv'
  BY <1>20b DEF XferDrains
<1>20c. ASSUME NEW x \in Xfers, XferBroken(x) PROVE ListInv'
  BY <1>20c DEF XferBroken
<1>21. ASSUME NEW x \in Xfers, XferUnlock(x) PROVE ListInv'
  BY <1>21 DEF XferUnlock
<1>22. CASE MinerWait
  BY <1>22 DEF MinerWait
<1>23. CASE MinerGetBlock
  BY <1>23 DEF MinerGetBlock
<1>24. CASE MinerNewBlock
  <2>1. Len(ours') = 1 /\ ours'[1] = Own
    BY <1>24 DEF MinerNewBlock
  <2>2. LoadsFirst' /\ OneFunded' /\ OursDistinct'
    BY <1>24, <2>1 DEF MinerNewBlock
  <2>3. MadeOnce'
    BY <1>24, <2>1, StoredDistinct DEF MinerNewBlock
  <2> QED
    BY <2>2, <2>3
<1>25. CASE MinerLook
  BY <1>25 DEF MinerLook
<1>26. CASE MinerFind
  BY <1>26 DEF MinerFind
<1>27. CASE MinerLoad
  BY <1>27 DEF MinerLoad
<1>28. CASE MinerUnreadable
  BY <1>28 DEF MinerUnreadable
<1>29. CASE MinerNoSocket
  BY <1>29 DEF MinerNoSocket
<1>30. CASE MinerSocket
  BY <1>30 DEF MinerSocket
<1>31. CASE MinerConnect
  BY <1>31 DEF MinerConnect
<1>32. CASE MinerPoll
  BY <1>32 DEF MinerPoll
<1>33. CASE MinerRelease
  BY <1>33 DEF MinerRelease
<1>34. CASE MinerFail
  BY <1>34 DEF MinerFail
<1>35. CASE MinerField
  BY <1>35 DEF MinerField
<1>36. CASE SetBalanceLock
  <2>1. ours' = ours
    BY <1>36, MoveIsIdentity
  <2> QED
    BY <1>36, <2>1 DEF SetBalanceLock
<1>37. CASE SetBalanceNull
  BY <1>37 DEF SetBalanceNull
<1>38. CASE SetBalanceRead
  BY <1>38 DEF SetBalanceRead
<1>39. CASE SetBalanceWrite
  BY <1>39 DEF SetBalanceWrite
<1>40. CASE MinerReceived
  BY <1>40 DEF MinerReceived
<1>41. CASE CleanupUnlock
  BY <1>41 DEF CleanupUnlock
<1>42. CASE CleanupCrypt
  BY <1>42 DEF CleanupCrypt
<1>43. CASE CleanupClose
  BY <1>43 DEF CleanupClose
<1>44. CASE RecvStale
  BY <1>44 DEF RecvStale
<1>45. CASE XferOld
  BY <1>45 DEF XferOld
<1>46. CASE UNCHANGED vars
  BY <1>46 DEF vars
<1> HIDE DEF ListInv, Goto, Free, locks, coins, miners, conn, users, clocks
<1> QED
  BY <1>1, <1>2, <1>3, <1>4, <1>5, <1>6, <1>7, <1>8, <1>9, <1>10, <1>11, <1>12, <1>13,
     <1>14, <1>15, <1>16, <1>17, <1>18, <1>19, <1>20, <1>20a, <1>20b, <1>20c, <1>21, <1>22, <1>23, <1>24, <1>25,
     <1>26, <1>27, <1>28, <1>29, <1>30, <1>31, <1>32, <1>33, <1>34, <1>35, <1>36, <1>37,
     <1>38, <1>39, <1>40, <1>41, <1>42, <1>43, <1>44, <1>45, <1>46 DEF Next, WorkStep,
     XferStep, MinerStep, TimeStep

\* A light wallet's coins are all on the first of its blocks: the transfer, which
\* stops at the first block without coins, finds them whenever there are any.
THEOREM FirstFunded == Spec => []OnlyFirstFunded
<1>1. TypeOK /\ ListInv => OnlyFirstFunded
  <2> SUFFICES ASSUME TypeOK, ListInv, NEW i \in 2 .. Len(ours), amount[ours[i]] # 0
               PROVE  FALSE
    BY DEF OnlyFirstFunded
  <2>1. ours \in Seq(Blocks) /\ ours[i] \in Blocks /\ 1 \in 1 .. Len(ours) /\ ours # <<>>
    BY DEF TypeOK
  <2>2. ours[i] = hash /\ ours[1] = hash
    BY <2>1 DEF ListInv, OneFunded
  <2> QED
    BY <2>1, <2>2 DEF ListInv, OursDistinct
<1> QED
  BY <1>1, TypingInit, TypingStep, ListInit, ListStep, PTL DEF Spec

\* No block of ours is linked into the list twice.
THEOREM OursAreDistinct == Spec => []OursDistinct
<1>1. ListInv => OursDistinct
  BY DEF ListInv
<1> QED
  BY <1>1, TypingInit, TypingStep, ListInit, ListStep, PTL DEF Spec

-----------------------------------------------------------------------------
(* A walk of the list under block_mutex. *)

\* Every step that changes the list locks block_mutex, but for the transfer's own,
\* which holds it and appends.
LEMMA ListChanges ==
  ASSUME TypeOK, ListInv, Next, ours' # ours
  PROVE  Free(blockOwner) \/ \E x \in Xfers : XferCreate(x)
<1> USE DEF locks, coins, miners, conn, users, clocks
<1>1. CASE WorkStep
  BY <1>1, Zenon DEF WorkStep, WorkStart, WorkLoad, WorkLoaded, WorkBegin, WorkTick, WorkRest,
     WorkClear
<1>2. ASSUME NEW x \in Xfers, XferStep(x) PROVE XferCreate(x)
  BY <1>2, Zenon DEF XferStep, XferRefuse, XferAccept, XferBegin, XferLock, XferNothing,
     XferUnreadable, XferSendCheck, XferPoolLock, XferClosed, XferEncrypt, XferNullCrypt,
     XferWrite, XferStalls,
     XferDrains, XferBroken, XferUnlock
<1>3. CASE MinerStep
  BY <1>3, Zenon DEF MinerStep, MinerWait, MinerGetBlock, MinerNewBlock, MinerLook, MinerFind,
     MinerLoad, MinerUnreadable, MinerNoSocket, MinerSocket, MinerConnect, MinerPoll,
     MinerRelease, MinerFail, MinerField, SetBalanceLock, SetBalanceNull, SetBalanceRead,
     SetBalanceWrite, MinerReceived, CleanupUnlock, CleanupCrypt, CleanupClose
<1>4. CASE TimeStep
  BY <1>4, Zenon DEF TimeStep, RecvStale, XferOld
<1> QED
  BY <1>1, <1>2, <1>3, <1>4 DEF Next

LEMMA WalkStep == TypeOK /\ ListInv /\ [Next]_vars => WalkKept
<1> SUFFICES ASSUME TypeOK, ListInv, [Next]_vars, NEW x \in Xfers, blockOwner = x
             PROVE  Len(ours') >= Len(ours) /\ SubSeq(ours', 1, Len(ours)) = ours
  BY DEF WalkKept
<1>1. ours \in Seq(Blocks) /\ Len(ours) \in Nat
  BY DEF TypeOK
<1>2. ~Free(blockOwner)
  BY Actors DEF Free
<1>3. CASE ours' = ours
  BY <1>1, <1>3
<1>4. CASE ours' # ours
  <2>1. PICK y \in Xfers : XferCreate(y)
    BY <1>2, <1>4, ListChanges DEF vars, coins
  <2>2. /\ Len(ours') = Len(ours) + 1
        /\ \A i \in 1 .. Len(ours) : ours'[i] = ours[i]
    BY <1>1, <2>1, Actors, AppendFacts DEF XferCreate
  <2>3. ours' \in Seq(Blocks)
    BY TypingStep DEF TypeOK
  <2> QED
    BY <1>1, <2>2, <2>3
<1> QED
  BY <1>3, <1>4

\* While a transfer walks the list, the list grows only at its end: the node the
\* walk stands on, and everything before it, stays where it was.
THEOREM WalkStable == Spec => WalkIsStable
BY TypingInit, TypingStep, ListInit, ListStep, WalkStep, PTL DEF Spec, WalkIsStable

-----------------------------------------------------------------------------
(* The balance.  It is a sum over the list, so what it is for a list of any    *)
(* length is shown by induction, from the least number principle.              *)

LEMMA LeastMember ==
  ASSUME NEW T, T \subseteq Nat, T # {}
  PROVE  \E m \in T : \A k \in T : m <= k
<1>1. \E m \in T : \A k \in T : ~(<<k, m>> \in OpToRel(<, Nat))
  BY WFMin, NatLessThanWellFounded, Zenon
<1>2. PICK m \in T : \A k \in T : ~(<<k, m>> \in OpToRel(<, Nat))
  BY <1>1, Zenon
<1>3. \A k \in T : m <= k
  <2> TAKE k \in T
  <2>1. ~(k < m)
    BY <1>2 DEF OpToRel
  <2> QED
    BY <2>1
<1> QED
  BY <1>3

LEMMA Climbing ==
  ASSUME NEW T, NEW N \in Nat, 0 \in T, \A n \in 0 .. N : n < N /\ n \in T => n + 1 \in T
  PROVE  \A n \in 0 .. N : n \in T
<1> SUFFICES ASSUME NEW n \in 0 .. N, n \notin T PROVE FALSE
  OBVIOUS
<1> DEFINE U == {i \in Nat : i <= N /\ i \notin T}
<1>1. n \in U /\ U \subseteq Nat
  OBVIOUS
<1>2. PICK m \in U : \A k \in U : m <= k
  BY <1>1, LeastMember
<1>3. m # 0
  BY <1>2
<1>4. m - 1 \in 0 .. N /\ m - 1 < N /\ m - 1 \notin U
  BY <1>2, <1>3
<1>5. m \in T
  BY <1>4
<1> QED
  BY <1>5

\* Where only the first block has coins, the sum of the amounts is its amount.
LEMMA OneSummand ==
  ASSUME TypeOK, ours # <<>>, OnlyFirstFunded
  PROVE  OursSum = amount[ours[1]]
<1> DEFINE N == Len(ours)
           A == amount[ours[1]]
           IsSum(f) == f = [n \in 0 .. N |->
                              IF n = 0 THEN 0 ELSE (f[n - 1] + amount[ours[n]]) % Wrap]
           sum == CHOOSE f : IsSum(f)
<1>1. N \in Nat /\ N >= 1 /\ A \in 0 .. Wrap - 1 /\ Wrap \in Nat /\ Wrap > 0
  BY Actors DEF TypeOK
<1>2. \A n \in 2 .. N : amount[ours[n]] = 0
  BY DEF OnlyFirstFunded
<1>3. A % Wrap = A
  BY <1>1
<1>4. OursSum = sum[N]
  BY DEF OursSum
<1> HIDE DEF N, A
<1>5. \E f : IsSum(f)
  <2> DEFINE g == [n \in 0 .. N |-> IF n = 0 THEN 0 ELSE A]
  <2>1. ASSUME NEW n \in 0 .. N
        PROVE  g[n] = IF n = 0 THEN 0 ELSE (g[n - 1] + amount[ours[n]]) % Wrap
    <3>1. CASE n = 1
      BY <1>1, <1>3, <3>1 DEF A
    <3>2. CASE n # 1
      BY <1>1, <1>2, <1>3, <3>2
    <3> QED
      BY <3>1, <3>2
  <2>2. IsSum(g)
    BY <2>1
  <2> QED
    BY <2>2
<1>6. IsSum(sum)
  BY <1>5
<1> HIDE DEF sum
<1>7. sum[0] = 0 /\ \A n \in 1 .. N : sum[n] = (sum[n - 1] + amount[ours[n]]) % Wrap
  BY <1>1, <1>6
<1> DEFINE T == {n \in Nat : n # 0 => sum[n] = A}
<1>8. ASSUME NEW n \in 0 .. N, n < N, n \in T PROVE n + 1 \in T
  <2>1. n + 1 \in 1 .. N /\ sum[n + 1] = (sum[n] + amount[ours[n + 1]]) % Wrap
    BY <1>1, <1>7, <1>8
  <2>2. CASE n = 0
    BY <1>1, <1>3, <1>7, <2>1, <2>2 DEF A
  <2>3. CASE n # 0
    BY <1>1, <1>2, <1>3, <1>8, <2>1, <2>3
  <2> QED
    BY <2>2, <2>3
<1>9. N \in T
  <2>1. 0 \in T
    OBVIOUS
  <2>2. \A n \in 0 .. N : n \in T
    BY <1>1, <1>8, <2>1, Climbing
  <2> QED
    BY <1>1, <2>2
<1> QED
  BY <1>1, <1>4, <1>9 DEF A

\* g_balance is the amount of the miner's block, the only one with coins, as long as
\* the list holds any block; it is written as it was read.
Counted ==
  /\ Choosing => balance = 0
  /\ ours # <<>> => balance = amount[hash]
  /\ ours # <<>> /\ pc[Miner] = "sb_write" => mnew = mbal

LEMMA WrapsOnce == \A m \in 0 .. Wrap - 1 : (m + Wrap) % Wrap = m
<1> TAKE m \in 0 .. Wrap - 1
<1>1. Wrap \in Nat /\ Wrap > 0
  BY Actors
<1>2. m + Wrap = 1 * Wrap + m
  BY <1>1
<1> QED
  BY <1>1, <1>2

LEMMA CountedInit == Init => Counted
BY Actors DEF Init, Counted

LEMMA CountedStep == TypeOK /\ ListInv /\ Counted /\ [Next]_vars => Counted'
<1> SUFFICES ASSUME TypeOK, ListInv, Counted, [Next]_vars PROVE Counted'
  OBVIOUS
<1>a. /\ pc \in [Threads -> XferPcs \cup MinerPcs \cup WorkPcs]
      /\ ours \in Seq(Blocks) /\ hash \in Blocks
      /\ amount \in [Blocks -> 0 .. Wrap - 1] /\ mbal \in 0 .. Wrap - 1
  BY DEF TypeOK
<1>b. /\ Choosing => \A b \in Blocks : amount[b] = 0
      /\ pc[Work] \in {"init", "load"} => Choosing
  BY DEF ListInv, OneFunded, LoadsFirst, Choosing
<1> USE <1>a, <1>b, Actors DEF Counted, Choosing, Goto, locks, coins, miners, conn, users, clocks
<1>1. CASE WorkStart \/ WorkLoaded \/ WorkBegin \/ WorkTick \/ WorkRest
  BY <1>1 DEF WorkStart, WorkLoaded, WorkBegin, WorkTick, WorkRest
<1>2. CASE WorkLoad
  BY <1>2 DEF WorkLoad
<1>3. CASE WorkClear
  BY <1>3 DEF WorkClear
<1>4. ASSUME NEW x \in Xfers, XferStep(x) PROVE Counted'
  <2>1. /\ UNCHANGED <<amount, balance, hash, mbal, mnew>> /\ pc'[Miner] = pc[Miner]
        /\ ours' # <<>> => ours # <<>>
    <3>1. CASE XferCreate(x)
      BY <3>1 DEF XferCreate, Covered
    <3>2. CASE ~XferCreate(x)
      BY <1>4, <3>2 DEF XferStep, XferRefuse, XferAccept, XferBegin, XferLock, XferNothing,
         XferUnreadable, XferSendCheck, XferPoolLock, XferClosed, XferEncrypt, XferNullCrypt,
         XferWrite, XferStalls,
     XferDrains, XferBroken, XferUnlock
    <3> QED
      BY <3>1, <3>2
  <2> QED
    BY <2>1
<1>5. CASE MinerGetBlock
  BY <1>5 DEF MinerGetBlock
<1>6. CASE MinerNewBlock
  BY <1>6 DEF MinerNewBlock
<1>7. CASE MinerLook
  BY <1>7 DEF MinerLook
<1>8. CASE MinerWait \/ MinerFind \/ MinerLoad \/ MinerUnreadable \/ MinerNoSocket \/ MinerSocket
           \/ MinerConnect \/ MinerPoll \/ MinerRelease \/ MinerFail \/ MinerField \/ MinerReceived
           \/ CleanupUnlock \/ CleanupCrypt \/ CleanupClose
  BY <1>8 DEF MinerWait, MinerFind, MinerLoad, MinerUnreadable, MinerNoSocket, MinerSocket,
     MinerConnect, MinerPoll, MinerRelease, MinerFail, MinerField, MinerReceived, CleanupUnlock,
     CleanupCrypt, CleanupClose
<1>9. CASE SetBalanceLock
  <2>1. ours' = ours
    BY <1>9, MoveIsIdentity
  <2> QED
    BY <1>9, <2>1 DEF SetBalanceLock
<1>10. CASE SetBalanceNull
  BY <1>10 DEF SetBalanceNull
<1>11. CASE SetBalanceRead
  <2>1. ours # <<>> => mnew' = mbal
    <3> SUFFICES ASSUME ours # <<>> PROVE (balance + mbal + Wrap - amount[hash]) % Wrap = mbal
      BY <1>11 DEF SetBalanceRead
    <3>1. balance = amount[hash] /\ amount[hash] \in 0 .. Wrap - 1
      OBVIOUS
    <3>2. balance + mbal + Wrap - amount[hash] = mbal + Wrap
      BY <3>1
    <3>3. (mbal + Wrap) % Wrap = mbal
      BY WrapsOnce
    <3> QED
      BY <3>2, <3>3
  <2> QED
    BY <1>11, <2>1 DEF SetBalanceRead
<1>12. CASE SetBalanceWrite
  BY <1>12 DEF SetBalanceWrite
<1>13. CASE TimeStep
  BY <1>13 DEF TimeStep, RecvStale, XferOld
<1>14. CASE UNCHANGED vars
  BY <1>14 DEF vars
<1> HIDE DEF Counted, Goto
<1> QED
  BY <1>1, <1>2, <1>3, <1>4, <1>5, <1>6, <1>7, <1>8, <1>9, <1>10, <1>11, <1>12, <1>13, <1>14
     DEF Next, WorkStep, MinerStep

\* The balance the user sees, and a transfer is checked against, is the sum of the
\* amounts of our blocks, for a list of any length.
THEOREM BalanceIsTheSum == Spec => []BalanceIsSum
<1>1. TypeOK /\ ListInv /\ OnlyFirstFunded /\ Counted => BalanceIsSum
  <2> SUFFICES ASSUME TypeOK, ListInv, OnlyFirstFunded, Counted, ours # <<>>
               PROVE  balance = OursSum
    BY DEF BalanceIsSum
  <2>1. OursSum = amount[ours[1]] /\ ours[1] \in Blocks
    BY OneSummand DEF TypeOK
  <2>2. balance = amount[hash] /\ hash \in Blocks
    BY DEF Counted, TypeOK
  <2>3. amount[hash] = amount[ours[1]]
    BY <2>1, <2>2 DEF ListInv, OneFunded
  <2> QED
    BY <2>1, <2>2, <2>3
<1> QED
  BY <1>1, FirstFunded, TypingInit, TypingStep, ListInit, ListStep, CountedInit, CountedStep, PTL
     DEF Spec
=============================================================================
