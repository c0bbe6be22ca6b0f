------------------------ MODULE PacketStreamProofs ------------------------
(***************************************************************************)
(* A dnet connection and its mutex.  The ticket lock excludes, and implements *)
(* the abstract FIFO mutex, for any number of threads below W, so for every   *)
(* position of the two counters, wrapped or not.  For every number of threads *)
(* and every size of sector and packets, a connection uses its mutex as the   *)
(* ticket lock prescribes, no session is freed under a thread that stores     *)
(* into it, packets leave whole, and what is counted as sent has left.        *)
(***************************************************************************)
EXTENDS PacketStream, FiniteSetTheorems, SequenceTheorems, TLAPS

-----------------------------------------------------------------------------
(* The mutex *)

\* The tickets between head and tail are the callers', one each: a caller's
\* ticket lies between head and tail, no two callers have the same one, and
\* there are as many callers as tickets.
TicketInv ==
  /\ TypeOK
  /\ \A p \in Busy : Dist(ticket[p]) < Dist(tail)
  /\ \A p, q \in Busy : ticket[p] = ticket[q] => p = q
  /\ \A p \in Procs : pc[p] = "in" => ticket[p] = head
  /\ Dist(tail) = Cardinality(Busy)

LEMMA Counting ==
  /\ W \in Nat /\ Cardinality(Procs) \in Nat /\ Cardinality(Procs) < W
  /\ IsFiniteSet(Busy) /\ Cardinality(Busy) \in Nat
  /\ Cardinality(Busy) <= Cardinality(Procs)
  /\ \A p \in Procs \ Busy : Cardinality(Busy) < Cardinality(Procs)
<1>1. Busy \subseteq Procs /\ IsFiniteSet(Procs) /\ Cardinality(Procs) < W /\ W \in Nat
  BY TicketAssumption DEF TicketAssumption, Busy
<1>2. /\ IsFiniteSet(Busy) /\ Cardinality(Busy) <= Cardinality(Procs)
      /\ Cardinality(Busy) = Cardinality(Procs) => Busy = Procs
  BY <1>1, FS_Subset
<1>3. Cardinality(Busy) \in Nat /\ Cardinality(Procs) \in Nat
  BY <1>1, <1>2, FS_CardinalityType
<1> QED
  BY <1>1, <1>2, <1>3

LEMMA TicketInit == Init => TicketInv
<1> SUFFICES ASSUME Init PROVE TicketInv
  OBVIOUS
<1>1. Busy = {} /\ Cardinality(Busy) = 0
  BY FS_EmptySet DEF Init, Busy
<1>2. W > 0
  BY Counting
<1> QED
  BY <1>1, <1>2, Counting DEF Init, TicketInv, TypeOK, Dist

\* Drawing a ticket adds the caller whose ticket is the last.
LEMMA DrawStep ==
  ASSUME TicketInv, NEW p \in Procs, Draw(p)
  PROVE  TicketInv'
<1> USE Counting
<1>1. TypeOK'
  BY DEF TicketInv, TypeOK, Draw, Inc
<1>2. p \notin Busy /\ Busy' = Busy \cup {p}
  BY DEF TicketInv, TypeOK, Draw, Busy
<1>3. Cardinality(Busy') = Cardinality(Busy) + 1
  BY <1>2, FS_AddElement
<1>4. Dist(tail)' = Dist(tail) + 1
  <2>1. Dist(tail) + 1 < W
    BY <1>2 DEF TicketInv
  <2> QED
    BY <2>1 DEF TicketInv, TypeOK, Draw, Inc, Dist
<1>5. /\ head' = head /\ ticket'[p] = tail
      /\ \A q \in Busy : ticket'[q] = ticket[q] /\ ticket[q] \in 0 .. W - 1
  BY <1>2 DEF TicketInv, TypeOK, Draw, Busy
<1>6. \A q \in Busy' : Dist(ticket[q])' < Dist(tail)'
  <2> TAKE q \in Busy'
  <2>1. CASE q = p
    BY <2>1, <1>4, <1>5 DEF Dist, TicketInv, TypeOK
  <2>2. CASE q \in Busy
    BY <2>2, <1>4, <1>5 DEF Dist, TicketInv, TypeOK
  <2> QED
    BY <1>2, <2>1, <2>2
<1>7. \A q, r \in Busy' : ticket'[q] = ticket'[r] => q = r
  <2>1. \A q \in Busy : ticket[q] # tail
    BY DEF TicketInv, Dist
  <2> QED
    BY <1>2, <1>5, <2>1 DEF TicketInv
<1>8. \A q \in Procs : pc'[q] = "in" => ticket'[q] = head'
  BY DEF TicketInv, TypeOK, Draw
<1> QED
  BY <1>1, <1>3, <1>4, <1>6, <1>7, <1>8 DEF TicketInv

LEMMA EnterStep ==
  ASSUME TicketInv, NEW p \in Procs, Enter(p)
  PROVE  TicketInv'
<1>1. Busy' = Busy /\ UNCHANGED <<head, tail, ticket>>
  BY DEF TicketInv, TypeOK, Enter, Busy
<1> QED
  BY <1>1 DEF TicketInv, TypeOK, Enter, Dist

\* Leaving removes the caller whose ticket is the first, and brings every other
\* caller one closer.
LEMMA UnlockStep ==
  ASSUME TicketInv, NEW p \in Procs, Unlock(p)
  PROVE  TicketInv'
<1> USE Counting
<1>1. TypeOK'
  BY DEF TicketInv, TypeOK, Unlock, Inc
<1>2. p \in Busy /\ Busy' = Busy \ {p}
  BY DEF TicketInv, TypeOK, Unlock, Busy
<1>3. Cardinality(Busy') = Cardinality(Busy) - 1
  BY <1>2, FS_RemoveElement
<1>4. /\ ticket[p] = head /\ tail # head /\ UNCHANGED <<tail, ticket>>
      /\ \A q \in Busy' : ticket[q] # head /\ ticket[q] \in 0 .. W - 1
  BY <1>2 DEF TicketInv, TypeOK, Unlock, Busy, Dist
<1>5. \A n \in 0 .. W - 1 : n # head => Dist(n)' = Dist(n) - 1
  <2> TAKE n \in 0 .. W - 1
  <2> QED
    BY DEF TicketInv, TypeOK, Unlock, Inc, Dist
<1>6. Dist(tail)' = Dist(tail) - 1 /\ \A q \in Busy' : Dist(ticket[q])' = Dist(ticket[q]) - 1
  BY <1>4, <1>5 DEF TicketInv, TypeOK, Dist
<1>7. \A q \in Busy' : Dist(ticket[q]) \in Nat /\ Dist(ticket[q]) < Dist(tail) /\ Dist(tail) \in Nat
  BY <1>2, <1>4 DEF TicketInv, TypeOK, Dist
<1>8. \A q \in Procs : pc'[q] = "in" => ticket'[q] = head'
  BY <1>2, <1>4 DEF TicketInv, TypeOK, Unlock, Busy
<1> QED
  BY <1>1, <1>2, <1>3, <1>4, <1>6, <1>7, <1>8 DEF TicketInv

LEMMA TicketStep == TicketInv /\ [Next]_vars => TicketInv'
<1> SUFFICES ASSUME TicketInv, [Next]_vars PROVE TicketInv'
  OBVIOUS
<1>1. CASE Next
  BY <1>1, DrawStep, EnterStep, UnlockStep DEF Next
<1>2. CASE UNCHANGED vars
  BY <1>2 DEF vars, TicketInv, TypeOK, Busy, Dist
<1> QED
  BY <1>1, <1>2

\* At most one thread is between dthread_mutex_lock and dthread_mutex_unlock.
THEOREM MutualExclusion == Spec => []Mutex
<1>1. TicketInv => Mutex
  BY DEF TicketInv, Mutex, Busy
<1> QED
  BY <1>1, TicketInit, TicketStep, PTL DEF Spec

-----------------------------------------------------------------------------
(* First come, first served *)

\* Between head and tail every ticket has its caller.
FifoInv ==
  /\ TicketInv
  /\ \A i \in 1 .. Dist(tail) : \E p \in Busy : Dist(ticket[p]) = i - 1

\* The queue's i-th member is the one caller whose ticket is the i-th from head.
QueueIs ==
  /\ Dist(tail) \in Nat /\ Busy \subseteq Procs
  /\ queue \in Seq(Busy) /\ Len(queue) = Dist(tail)
  /\ \A i \in 1 .. Dist(tail) : queue[i] \in Busy /\ Dist(ticket[queue[i]]) = i - 1
  /\ \A p \in Busy : /\ Dist(ticket[p]) \in Nat /\ Dist(ticket[p]) < Dist(tail)
                     /\ queue[Dist(ticket[p]) + 1] = p

LEMMA QueueMembers == FifoInv => QueueIs
<1> SUFFICES ASSUME FifoInv PROVE QueueIs
  OBVIOUS
<1>1. /\ Dist(tail) \in Nat /\ Busy \subseteq Procs
      /\ \A p \in Busy : Dist(ticket[p]) \in Nat /\ Dist(ticket[p]) < Dist(tail)
  BY Counting DEF FifoInv, TicketInv, TypeOK, Dist, Busy
<1>2. \A p, q \in Busy : Dist(ticket[p]) = Dist(ticket[q]) => p = q
  <2> SUFFICES ASSUME NEW p \in Busy, NEW q \in Busy, Dist(ticket[p]) = Dist(ticket[q]) PROVE p = q
    OBVIOUS
  <2>1. ticket[p] \in 0 .. W - 1 /\ ticket[q] \in 0 .. W - 1 /\ head \in 0 .. W - 1 /\ W \in Nat
    BY <1>1, Counting DEF FifoInv, TicketInv, TypeOK
  <2>2. ticket[p] = ticket[q]
    BY <2>1 DEF Dist
  <2> QED
    BY <2>2 DEF FifoInv, TicketInv
<1>3. \A i \in 1 .. Dist(tail) : queue[i] \in Busy /\ Dist(ticket[queue[i]]) = i - 1
  <2> TAKE i \in 1 .. Dist(tail)
  <2>1. queue[i] = CHOOSE p \in Busy : Dist(ticket[p]) = i - 1
    BY DEF queue
  <2>2. \E p \in Busy : Dist(ticket[p]) = i - 1
    BY DEF FifoInv
  <2> QED
    BY <2>1, <2>2
<1>4. queue \in Seq(Busy) /\ Len(queue) = Dist(tail)
  BY <1>1, <1>3 DEF queue
<1>5. \A p \in Busy : queue[Dist(ticket[p]) + 1] = p
  BY <1>1, <1>2, <1>3
<1> QED
  BY <1>1, <1>3, <1>4, <1>5 DEF QueueIs

LEMMA QueueMembersNext == FifoInv' => QueueIs'
BY QueueMembers, PTL

LEMMA FifoStart == Init => FifoInv /\ Fifo!FifoInit
<1> SUFFICES ASSUME Init PROVE FifoInv /\ Fifo!FifoInit
  OBVIOUS
<1>1. TicketInv /\ Dist(tail) = 0
  BY TicketInit, Counting DEF Init, Dist
<1>2. FifoInv
  BY <1>1 DEF FifoInv
<1>3. queue = <<>>
  BY <1>1, <1>2, QueueMembers, EmptySeq DEF QueueIs
<1> QED
  BY <1>2, <1>3 DEF Init, Fifo!FifoInit

\* A caller who draws a ticket joins at the end.
LEMMA DrawJoins ==
  ASSUME FifoInv, NEW p \in Procs, Draw(p)
  PROVE  FifoInv' /\ Fifo!Join(p)
<1> USE Counting
<1>1. TicketInv'
  BY DrawStep DEF FifoInv
<1>2. p \notin Busy /\ Busy' = Busy \cup {p}
  BY DEF FifoInv, TicketInv, TypeOK, Draw, Busy
<1>3. /\ head' = head /\ ticket'[p] = tail
      /\ \A q \in Busy : ticket'[q] = ticket[q] /\ ticket[q] \in 0 .. W - 1
  BY <1>2 DEF FifoInv, TicketInv, TypeOK, Draw, Busy
<1>4. Dist(tail)' = Dist(tail) + 1 /\ Dist(tail) \in Nat
  <2>1. Dist(tail) + 1 < W
    BY <1>2 DEF FifoInv, TicketInv
  <2> QED
    BY <2>1 DEF FifoInv, TicketInv, TypeOK, Draw, Inc, Dist
<1>5. Dist(ticket[p])' = Dist(tail) /\ \A q \in Busy : Dist(ticket[q])' = Dist(ticket[q])
  BY <1>3 DEF Dist
<1>6. FifoInv'
  <2> SUFFICES ASSUME NEW i \in 1 .. Dist(tail)' PROVE \E q \in Busy' : Dist(ticket[q])' = i - 1
    BY <1>1 DEF FifoInv
  <2>1. CASE i = Dist(tail) + 1
    BY <2>1, <1>2, <1>4, <1>5
  <2>2. CASE i \in 1 .. Dist(tail)
    BY <2>2, <1>2, <1>5 DEF FifoInv
  <2> QED
    BY <2>1, <2>2, <1>4
<1>7. queue' = Append(queue, p)
  <2> DEFINE s == queue
             t == queue'
             S == Busy \cup {p}
             n == Dist(tail)
  <2>1. s \in Seq(S) /\ Len(s) = n /\ n \in Nat /\ p \in S
    BY QueueMembers DEF QueueIs
  <2>2. t \in Seq(S) /\ Len(t) = n + 1
    BY <1>2, <1>4, <1>6, QueueMembersNext DEF QueueIs
  <2>3. \A i \in 1 .. n : t[i] = s[i]
    <3> TAKE i \in 1 .. n
    <3>1. PICK q \in Busy : s[i] = q /\ Dist(ticket[q]) = i - 1
      BY QueueMembers DEF QueueIs
    <3>2. Dist(ticket[q])' = i - 1
      BY <3>1, <1>5
    <3> QED
      BY <3>1, <3>2, <1>2, <1>6, QueueMembersNext DEF QueueIs
  <2>4. t[n + 1] = p
    BY <1>2, <1>5, <1>6, QueueMembersNext DEF QueueIs
  <2> HIDE DEF s, t, S, n
  <2>5. t = Append(s, p)
    BY <2>1, <2>2, <2>3, <2>4, AppendProperties, SeqEqual
  <2> QED
    BY <2>5 DEF s, t
<1>8. UNCHANGED {q \in Procs : pc[q] = "in"}
  BY DEF FifoInv, TicketInv, TypeOK, Draw
<1>9. ~Fifo!Waits(p)
  BY <1>2, QueueMembers DEF QueueIs, Fifo!Waits
<1> QED
  BY <1>6, <1>7, <1>8, <1>9 DEF Fifo!Join

\* The caller whose ticket head shows is the first in the queue.
LEMMA FirstIsServed ==
  ASSUME FifoInv, NEW p \in Busy, ticket[p] = head
  PROVE  queue \in Seq(Busy) /\ queue # <<>> /\ Head(queue) = p
<1>1. Dist(ticket[p]) = 0 /\ Dist(ticket[p]) < Dist(tail) /\ Dist(tail) \in Nat
  BY QueueMembers DEF QueueIs, FifoInv, TicketInv, TypeOK, Dist
<1>2. queue \in Seq(Busy) /\ Len(queue) = Dist(tail) /\ queue[1] = p
  BY <1>1, QueueMembers DEF QueueIs
<1> QED
  BY <1>1, <1>2

LEMMA EnterServes ==
  ASSUME FifoInv, NEW p \in Procs, Enter(p)
  PROVE  FifoInv' /\ Fifo!Serve(p)
<1>1. Busy' = Busy /\ UNCHANGED <<head, tail, ticket>> /\ p \in Busy
  BY DEF FifoInv, TicketInv, TypeOK, Enter, Busy
<1>2. FifoInv'
  BY <1>1, EnterStep DEF FifoInv, Dist
<1>3. queue' = queue
  BY <1>1 DEF queue, Dist
<1>4. {q \in Procs : pc[q] = "in"}' = {q \in Procs : pc[q] = "in"} \cup {p}
  BY DEF FifoInv, TicketInv, TypeOK, Enter
<1>5. queue # <<>> /\ p = Head(queue)
  BY <1>1, FirstIsServed DEF Enter
<1> QED
  BY <1>2, <1>3, <1>4, <1>5 DEF Fifo!Serve, Enter

LEMMA UnlockLeaves ==
  ASSUME FifoInv, NEW p \in Procs, Unlock(p)
  PROVE  FifoInv' /\ Fifo!Leave(p)
<1> USE Counting
<1>1. TicketInv'
  BY UnlockStep DEF FifoInv
<1>2. p \in Busy /\ Busy' = Busy \ {p} /\ ticket[p] = head /\ UNCHANGED <<tail, ticket>>
  BY DEF FifoInv, TicketInv, TypeOK, Unlock, Busy
<1>3. \A q \in Busy' : ticket[q] # head /\ ticket[q] \in 0 .. W - 1
  BY <1>2 DEF FifoInv, TicketInv, TypeOK, Busy
<1>4. \A k \in 0 .. W - 1 : k # head => Dist(k)' = Dist(k) - 1
  BY DEF FifoInv, TicketInv, TypeOK, Unlock, Inc, Dist
<1>5. Dist(tail)' = Dist(tail) - 1 /\ \A q \in Busy' : Dist(ticket[q])' = Dist(ticket[q]) - 1
  <2>1. tail # head /\ tail \in 0 .. W - 1
    BY <1>2 DEF FifoInv, TicketInv, TypeOK, Dist
  <2> QED
    BY <2>1, <1>2, <1>3, <1>4
<1>6. Dist(ticket[p]) = 0 /\ Dist(tail) \in Nat
  BY <1>2 DEF FifoInv, TicketInv, TypeOK, Dist
<1>7. FifoInv'
  <2> SUFFICES ASSUME NEW i \in 1 .. Dist(tail)' PROVE \E q \in Busy' : Dist(ticket[q])' = i - 1
    BY <1>1 DEF FifoInv
  <2>1. i + 1 \in 1 .. Dist(tail)
    BY <1>5, <1>6
  <2>2. PICK q \in Busy : Dist(ticket[q]) = i
    BY <2>1 DEF FifoInv
  <2>3. q \in Busy'
    BY <2>2, <1>2, <1>6
  <2> QED
    BY <2>2, <2>3, <1>5
<1>8. queue \in Seq(Busy) /\ queue # <<>> /\ p = Head(queue)
  BY <1>2, FirstIsServed
<1>9. queue' = Tail(queue)
  <2> DEFINE s == queue
             t == queue'
             n == Dist(tail)
  <2>1. s \in Seq(Busy) /\ s # <<>> /\ Len(s) = n /\ n \in Nat
    BY <1>8, QueueMembers DEF QueueIs
  <2>2. t \in Seq(Busy) /\ Len(t) = n - 1
    BY <1>2, <1>5, <1>7, QueueMembersNext DEF QueueIs
  <2>3. \A i \in 1 .. n - 1 : t[i] = s[i + 1]
    <3> TAKE i \in 1 .. n - 1
    <3>1. PICK q \in Busy : s[i + 1] = q /\ Dist(ticket[q]) = i
      BY <2>1, QueueMembers DEF QueueIs
    <3>2. q \in Busy' /\ Dist(ticket[q])' = i - 1
      BY <3>1, <1>2, <1>5, <1>6
    <3>3. t[Dist(ticket[q])' + 1] = q
      BY <3>2, <1>7, QueueMembersNext DEF QueueIs
    <3> QED
      BY <3>1, <3>2, <3>3
  <2> HIDE DEF s, t, n
  <2>4. t = Tail(s)
    BY <2>1, <2>2, <2>3, HeadTailProperties, SeqEqual
  <2> QED
    BY <2>4 DEF s, t
<1>10. {q \in Procs : pc[q] = "in"}' = {q \in Procs : pc[q] = "in"} \ {p}
  BY DEF FifoInv, TicketInv, TypeOK, Unlock
<1> QED
  BY <1>7, <1>8, <1>9, <1>10 DEF Fifo!Leave, Unlock

LEMMA FifoStep ==
  FifoInv /\ [Next]_vars =>
    FifoInv' /\ [Fifo!FifoNext]_<<queue, {p \in Procs : pc[p] = "in"}>>
<1> SUFFICES ASSUME FifoInv, [Next]_vars
             PROVE  FifoInv' /\ [Fifo!FifoNext]_<<queue, {p \in Procs : pc[p] = "in"}>>
  OBVIOUS
<1>1. CASE Next
  BY <1>1, DrawJoins, EnterServes, UnlockLeaves DEF Next, Fifo!FifoNext
<1>2. CASE UNCHANGED vars
  <2>1. Busy' = Busy /\ UNCHANGED <<head, tail, ticket, pc>>
    BY <1>2 DEF vars, Busy
  <2>2. FifoInv'
    BY <1>2, <2>1, TicketStep DEF FifoInv, Dist
  <2>3. queue' = queue
    BY <2>1 DEF queue, Dist
  <2> QED
    BY <2>1, <2>2, <2>3
<1> QED
  BY <1>1, <1>2

\* The ticket lock implements the FIFO mutex of dthread.h: its callers form one
\* queue and are served in its order.
THEOREM ImplementsFifo == Spec => FifoOrder
BY FifoStart, FifoStep, PTL DEF Spec, FifoOrder, Fifo!FifoSpec

-----------------------------------------------------------------------------
(* The session *)

\* Senders that may touch the session.
Storing == {"packet", "pad", "padding"}

(* Where a thread is in dnet_send_packet or dnet_connection_main says where it *)
(* is in the mutex; the session is set between the reader's two assignments.   *)
Placed ==
  \A p \in Procs :
    /\ step[p] = "look" => pc[p] \in {"spin", "in"}
    /\ step[p] \in Storing \cup {"leave"} => pc[p] = "in"
    /\ step[p] = "none" /\ (p = Reader => phase # "free") => pc[p] = "out"

SessInv ==
  /\ TicketInv
  /\ step \in [Procs -> {"none", "look", "packet", "pad", "padding", "leave"}]
  /\ sess = (phase \notin {"create", "done"})
  /\ phase \in {"end", "free", "done", "create", "init", "keying"} => step[Reader] = "none"
  /\ Placed
  /\ \A p \in Procs : step[p] \in Storing => sess

-----------------------------------------------------------------------------
(* The lock under the stream *)

\* A step of a connection is a step of its mutex, or leaves the mutex alone.
LEMMA LockStep == [PacketNext]_<<vars, stream>> => [Next]_vars
<1> SUFFICES ASSUME [PacketNext]_<<vars, stream>> PROVE [Next]_vars
  OBVIOUS
<1> USE PacketAssumption DEF PacketAssumption
<1>1. ASSUME NEW p \in Procs, Send(p) \/ Lock(p) \/ Sends(p) PROVE [Next]_vars
  BY <1>1 DEF Next, vars, Send, Lock, Sends, NoSession, Look, Store, PadBegins, PadNothing, Leave
<1>2. CASE CreateSession \/ InitSession \/ ReadKey \/ KeySent \/ ReadEnds
  BY <1>2 DEF CreateSession, InitSession, ReadKey, KeySent, ReadEnds
<1>3. CASE EndLock \/ FreeSession
  BY <1>3 DEF Next, EndLock, FreeSession
<1>4. CASE UNCHANGED <<vars, stream>>
  BY <1>4
<1> QED
  BY <1>1, <1>2, <1>3, <1>4 DEF PacketNext

\* The connection implements the ticket lock.
THEOREM UsesLock == PacketSpec => Spec
<1>1. PacketInit => Init
  BY DEF PacketInit
<1> QED
  BY <1>1, LockStep, PTL DEF PacketSpec, Spec

\* The threads of a connection pass through its mutex in the order they came.
THEOREM PacketFifo == PacketSpec => FifoOrder
BY UsesLock, ImplementsFifo, PTL

-----------------------------------------------------------------------------
LEMMA OneInside ==
  ASSUME SessInv, NEW p \in Procs, NEW q \in Procs, pc[p] = "in", pc[q] = "in"
  PROVE  p = q
BY DEF SessInv, TicketInv, Mutex, Busy

LEMMA PcType == TicketInv => pc \in [Procs -> {"out", "spin", "in"}]
BY DEF TicketInv, TypeOK

LEMMA SessStart == PacketInit => SessInv
<1> SUFFICES ASSUME PacketInit PROVE SessInv
  OBVIOUS
<1>1. TicketInv
  BY TicketInit DEF PacketInit
<1> QED
  BY <1>1, PacketAssumption DEF PacketAssumption, PacketInit, Init, SessInv, Placed, Storing

\* dnet_send_packet, up to the mutex.
LEMMA SendStep ==
  ASSUME SessInv, NEW p \in Procs, Send(p) \/ Lock(p), TicketInv'
  PROVE  SessInv'
<1> USE PacketAssumption, PcType DEF PacketAssumption, SessInv, Placed, Storing
<1>1. CASE Send(p)
  BY <1>1 DEF Send, Draw
<1>2. CASE Lock(p)
  BY <1>2 DEF Lock, Enter, stream
<1> QED
  BY <1>1, <1>2

\* dnet_send_packet, inside.
LEMMA InsideStep ==
  ASSUME SessInv, NEW p \in Procs, Sends(p), TicketInv'
  PROVE  SessInv'
<1> USE PacketAssumption, PcType DEF PacketAssumption, SessInv, Placed, Storing
<1>1. CASE NoSession(p) \/ Leave(p)
  BY <1>1 DEF NoSession, Leave, Unlock
<1>2. CASE Look(p)
  BY <1>2 DEF Look, vars
<1>3. CASE Store(p)
  BY <1>3 DEF Store, vars
<1>4. CASE PadBegins(p) \/ PadNothing(p)
  BY <1>4 DEF PadBegins, PadNothing, vars
<1> QED
  BY <1>1, <1>2, <1>3, <1>4 DEF Sends

\* dnet_connection_main, without the mutex.
LEMMA ReaderStep ==
  ASSUME SessInv, CreateSession \/ InitSession \/ ReadKey \/ KeySent \/ ReadEnds \/ EndLock, TicketInv'
  PROVE  SessInv'
<1> USE PacketAssumption, PcType DEF PacketAssumption, SessInv, Placed, Storing
<1>1. CASE EndLock
  BY <1>1 DEF EndLock, Draw
<1>2. CASE CreateSession \/ InitSession \/ ReadKey \/ KeySent \/ ReadEnds
  BY <1>2 DEF CreateSession, InitSession, ReadKey, KeySent, ReadEnds, Reads, vars
<1> QED
  BY <1>1, <1>2

\* Its last lock: whoever stores is inside the mutex, and the reader is.
LEMMA FreeStep ==
  ASSUME SessInv, FreeSession, TicketInv'
  PROVE  SessInv'
<1>1. \A p \in Procs : step[p] \notin Storing
  <2> SUFFICES ASSUME NEW p \in Procs, step[p] \in Storing PROVE FALSE
    OBVIOUS
  <2>1. pc[p] = "in" /\ pc[Reader] = "in" /\ Reader \in Procs
    BY PacketAssumption DEF PacketAssumption, SessInv, Placed, FreeSession, Unlock
  <2>2. p = Reader
    BY <2>1, OneInside
  <2> QED
    BY <2>2 DEF SessInv, FreeSession, Storing
<1> QED
  BY <1>1, PacketAssumption, PcType
     DEF PacketAssumption, SessInv, Placed, FreeSession, Unlock

LEMMA SessStep == SessInv /\ [PacketNext]_<<vars, stream>> => SessInv'
<1> SUFFICES ASSUME SessInv, [PacketNext]_<<vars, stream>> PROVE SessInv'
  OBVIOUS
<1>1. TicketInv'
  BY LockStep, TicketStep DEF SessInv
<1>2. CASE UNCHANGED <<vars, stream>>
  BY <1>1, <1>2 DEF vars, stream, SessInv, Placed
<1> QED
  BY <1>1, <1>2, SendStep, InsideStep, ReaderStep, FreeStep DEF PacketNext

\* No thread stores into a session that is freed, nor two threads at once.
THEOREM SessionIsHeld == PacketSpec => []SessionHeld
<1>1. SessInv => SessionHeld
  <2> SUFFICES ASSUME SessInv, NEW p \in Procs, step[p] \in Storing
               PROVE  sess /\ \A q \in Procs \ {p} : step[q] \in {"none", "look"}
    BY DEF SessionHeld, Storing
  <2>1. \A q \in Procs : step[q] \in Storing \cup {"leave"} => q = p
    BY OneInside DEF SessInv, Placed
  <2> QED
    BY <2>1 DEF SessInv, Storing
<1> QED
  BY <1>1, SessStart, SessStep, PTL DEF PacketSpec

-----------------------------------------------------------------------------
(* What is stored *)

Writing == {"packet", "padding"}

\* Every write so far has succeeded.
up == socket = "open"

Unit    == Nat \X Nat

SocketStates == {"open", "broken", "shut"}

StreamType ==
  /\ phase \in {"create", "init", "read", "keying", "end", "free", "done"}
  /\ sentKeys \in {"none", "public", "both"} /\ socket \in SocketStates /\ alone \in BOOLEAN
  /\ part \in Seq(Unit) /\ wire \in Seq(Unit) /\ Len(part) < Sector
  /\ todo \in [Procs -> Seq(Unit)] /\ packet \in [Procs -> Nat]
  /\ length \in Seq(1 .. MaxLength) /\ counted \subseteq 1 .. Len(length)
  /\ \A p \in Procs : step[p] # "none" => packet[p] \in 1 .. Len(length)

\* Nothing is stored, nor counted, before the keys are exchanged.
KeysFirst ==
  /\ phase \in {"create", "init"} => sentKeys = "none"
  /\ counted # {} => Takes
  /\ \A p \in Procs : step[p] \in Writing => Takes /\ todo[p] # <<>>

\* After the first i units of s, of packets with the lengths l, nothing is cut off.
Ends(s, i, l) == i > 0 /\ s[i] # Pad => s[i][2] = l[s[i][1]]

\* The units of s follow one another as PacketsWhole says.
Fine(s, l) ==
  \A i \in 1 .. Len(s) :
    /\ s[i] # Pad => s[i][1] \in 1 .. Len(l)
    /\ IF s[i][2] > 1 THEN i > 1 /\ s[i - 1] = <<s[i][1], s[i][2] - 1>> ELSE Ends(s, i - 1, l)

Good(s, l) == Fine(s, l) /\ Ends(s, Len(s), l)

\* What the sectors will hold when the thread that stores has stored all it has.
WholeInv ==
  /\ Fine(wire, length)
  /\ up /\ (\A p \in Procs : step[p] \notin Writing) => Good(wire \o part, length)
  /\ \A p \in Procs : up /\ step[p] \in Writing => Good((wire \o part) \o todo[p], length)

\* The last unit of packet k, of length n, is in s.
HasEnd(s, k, n) == \E i \in 1 .. Len(s) : s[i] = <<k, n>>

\* While the socket takes data and no padding has gone out alone, a packet begins at
\* a sector's boundary and its padding ends at one.
Aligned ==
  /\ (\A p \in Procs : step[p] \notin Storing) => part = <<>>
  /\ \A p \in Procs : step[p] = "packet" =>
       \E q \in Nat : length[packet[p]] = q * Sector + Len(part) + Len(todo[p])
  /\ \A p \in Procs : step[p] = "pad" =>
       IF packet[p] \in counted THEN \E q \in Nat : length[packet[p]] = q * Sector + Len(part)
                                ELSE part = <<>>
  /\ \A p \in Procs : step[p] = "padding" => Len(part) + Len(todo[p]) = Sector

\* The end of a packet that is counted is in the sectors, or its padding will write it.
EndsSent ==
  /\ \A p \in Procs : step[p] = "packet" =>
       todo[p][Len(todo[p])] = <<packet[p], length[packet[p]]>>
  /\ \A p \in Procs : step[p] \in {"pad", "padding"} /\ packet[p] \in counted =>
       HasEnd(wire \o part, packet[p], length[packet[p]])
  /\ \A k \in counted : \/ HasEnd(wire, k, length[k])
                        \/ \E p \in Procs : step[p] \in {"pad", "padding"} /\ packet[p] = k

CountInv == up /\ ~alone => Aligned /\ EndsSent

StreamInv == StreamType /\ KeysFirst /\ WholeInv /\ CountInv

-----------------------------------------------------------------------------
(* Sequences of units *)

LEMMA UnitsAssociate == \A u, v, w \in Seq(Unit) : (u \o v) \o w = u \o (v \o w)
<1> TAKE u, v, w \in Seq(Unit)
<1> QED
  BY ConcatAssociative, SMTT(30)

LEMMA Regroup ==
  ASSUME NEW u \in Seq(Unit), NEW v \in Seq(Unit), NEW w \in Seq(Unit)
  PROVE  (u \o v) \o w = u \o (v \o w)
BY UnitsAssociate, Zenon

LEMMA NoUnits == \A s \in Seq(Unit) : Len(s) = 0 <=> s = <<>>
<1> TAKE s \in Seq(Unit)
<1> QED
  BY EmptySeq

\* What follows a sequence comes after its last unit.
LEMMA Joined ==
  ASSUME NEW s \in Seq(Unit), NEW t \in Seq(Unit)
  PROVE  /\ s \o t \in Seq(Unit) /\ Len(s \o t) = Len(s) + Len(t)
         /\ Len(s) \in Nat /\ Len(t) \in Nat
         /\ \A i \in 1 .. Len(s) : (s \o t)[i] = s[i]
         /\ \A i \in 1 .. Len(t) : (s \o t)[Len(s) + i] = t[i]
<1>1. /\ s \o t \in Seq(Unit) /\ Len(s \o t) = Len(s) + Len(t)
      /\ \A i \in 1 .. Len(s) + Len(t) : (s \o t)[i] = IF i <= Len(s) THEN s[i] ELSE t[i - Len(s)]
  BY ConcatProperties
<1>2. Len(s) \in Nat /\ Len(t) \in Nat
  BY LenProperties
<1>3. \A i \in 1 .. Len(s) : (s \o t)[i] = s[i]
  BY <1>1, <1>2
<1>4. ASSUME NEW i \in 1 .. Len(t) PROVE (s \o t)[Len(s) + i] = t[i]
  <2>1. Len(s) + i \in 1 .. Len(s) + Len(t) /\ ~(Len(s) + i <= Len(s)) /\ Len(s) + i - Len(s) = i
    BY <1>2
  <2>2. QED
    BY <1>1, <2>1
<1>5. QED
  BY <1>1, <1>2, <1>3, <1>4

\* A part of a stream whose units follow one another.
LEMMA FinePrefix ==
  ASSUME NEW s \in Seq(Unit), NEW t \in Seq(Unit), NEW l, Fine(s \o t, l)
  PROVE  Fine(s, l)
<1> DEFINE u == s \o t
<1>1. /\ Len(u) = Len(s) + Len(t) /\ Len(s) \in Nat /\ Len(t) \in Nat
      /\ \A i \in 1 .. Len(s) : u[i] = s[i]
  BY Joined
<1> HIDE DEF u
<1>2. ASSUME NEW i \in 1 .. Len(s)
      PROVE  /\ s[i] # Pad => s[i][1] \in 1 .. Len(l)
             /\ IF s[i][2] > 1 THEN i > 1 /\ s[i - 1] = <<s[i][1], s[i][2] - 1>> ELSE Ends(s, i - 1, l)
  <2>1. i \in 1 .. Len(u) /\ u[i] = s[i] /\ (i - 1 > 0 => i - 1 \in 1 .. Len(s) /\ u[i - 1] = s[i - 1])
    BY <1>1
  <2>2. /\ u[i] # Pad => u[i][1] \in 1 .. Len(l)
        /\ IF u[i][2] > 1 THEN i > 1 /\ u[i - 1] = <<u[i][1], u[i][2] - 1>> ELSE Ends(u, i - 1, l)
    BY <2>1 DEF Fine, u
  <2>3. s[i] # Pad => s[i][1] \in 1 .. Len(l)
    BY <2>1, <2>2, Zenon
  <2>4. CASE s[i][2] > 1
    <3>1. i > 1 /\ u[i - 1] = <<u[i][1], u[i][2] - 1>>
      BY <2>1, <2>2, <2>4, Zenon
    <3>2. u[i - 1] = s[i - 1]
      BY <2>1, <3>1
    <3>3. s[i - 1] = <<s[i][1], s[i][2] - 1>>
      BY <2>1, <3>1, <3>2, Zenon
    <3>4. QED
      BY <2>3, <2>4, <3>1, <3>3, Zenon
  <2>5. CASE ~(s[i][2] > 1)
    <3>1. Ends(u, i - 1, l)
      BY <2>1, <2>2, <2>5, Zenon
    <3>2. Ends(s, i - 1, l)
      BY <2>1, <3>1, Zenon DEF Ends
    <3>3. QED
      BY <2>3, <2>5, <3>2, Zenon
  <2>6. QED
    BY <2>4, <2>5
<1>3. QED
  BY <1>2 DEF Fine

\* Two streams in which nothing is cut off, one after the other.
LEMMA GoodJoins ==
  ASSUME NEW s \in Seq(Unit), NEW t \in Seq(Unit), NEW l, Good(s, l), Good(t, l)
  PROVE  Good(s \o t, l)
<1> DEFINE u == s \o t
<1>1. /\ Len(u) = Len(s) + Len(t) /\ Len(s) \in Nat /\ Len(t) \in Nat
      /\ \A i \in 1 .. Len(s) : u[i] = s[i]
      /\ \A i \in 1 .. Len(t) : u[Len(s) + i] = t[i]
  BY Joined
<1> HIDE DEF u
<1>2. ASSUME NEW i \in 1 .. Len(u)
      PROVE  /\ u[i] # Pad => u[i][1] \in 1 .. Len(l)
             /\ IF u[i][2] > 1 THEN i > 1 /\ u[i - 1] = <<u[i][1], u[i][2] - 1>> ELSE Ends(u, i - 1, l)
  <2>1. CASE i <= Len(s)
    <3>1. i \in 1 .. Len(s) /\ u[i] = s[i] /\ (i - 1 > 0 => u[i - 1] = s[i - 1])
      BY <1>1, <2>1
    <3>2. /\ s[i] # Pad => s[i][1] \in 1 .. Len(l)
          /\ IF s[i][2] > 1 THEN i > 1 /\ s[i - 1] = <<s[i][1], s[i][2] - 1>> ELSE Ends(s, i - 1, l)
      BY <3>1 DEF Good, Fine
    <3>3. i > 1 => u[i - 1] = s[i - 1]
      BY <3>1
    <3>4. Ends(s, i - 1, l) => Ends(u, i - 1, l)
      BY <3>1, Zenon DEF Ends
    <3>5. QED
      BY <3>1, <3>2, <3>3, <3>4, Zenon
  <2>2. CASE i > Len(s)
    <3>1. PICK j \in 1 .. Len(t) : i = Len(s) + j
      <4>1. i - Len(s) \in 1 .. Len(t) /\ i = Len(s) + (i - Len(s))
        BY <1>1, <2>2
      <4>2. QED
        BY <4>1
    <3>2. u[i] = t[j]
      BY <1>1, <3>1, Zenon
    <3>3. /\ t[j] # Pad => t[j][1] \in 1 .. Len(l)
          /\ IF t[j][2] > 1 THEN j > 1 /\ t[j - 1] = <<t[j][1], t[j][2] - 1>> ELSE Ends(t, j - 1, l)
      BY DEF Good, Fine
    <3>4. CASE j = 1
      <4>1. i - 1 = Len(s) /\ ~(j > 1) /\ (Len(s) > 0 => u[Len(s)] = s[Len(s)])
        BY <1>1, <3>1, <3>4
      <4>2. ~(t[j][2] > 1)
        BY <3>3, <4>1, Zenon
      <4>3. Ends(u, i - 1, l)
        BY <4>1, Zenon DEF Ends, Good
      <4>4. QED
        BY <3>2, <3>3, <4>2, <4>3, Zenon
    <3>5. CASE j # 1
      <4>1. j - 1 \in 1 .. Len(t) /\ j > 1 /\ i > 1 /\ j - 1 > 0 /\ i - 1 > 0 /\ i - 1 = Len(s) + (j - 1)
        BY <1>1, <3>1, <3>5
      <4>2. u[i - 1] = t[j - 1]
        BY <1>1, <4>1, Zenon
      <4>3. Ends(t, j - 1, l) => Ends(u, i - 1, l)
        BY <4>1, <4>2, Zenon DEF Ends
      <4>4. QED
        BY <3>2, <3>3, <4>1, <4>2, <4>3, Zenon
    <3>6. QED
      BY <3>4, <3>5
  <2>3. QED
    BY <1>1, <2>1, <2>2
<1>3. Ends(u, Len(u), l)
  <2>1. CASE Len(t) = 0
    <3>1. Len(u) = Len(s) /\ (Len(s) > 0 => u[Len(s)] = s[Len(s)])
      BY <1>1, <2>1
    <3>2. QED
      BY <3>1, Zenon DEF Ends, Good
  <2>2. CASE Len(t) # 0
    <3>1. Len(t) \in 1 .. Len(t) /\ Len(t) > 0
      BY <1>1, <2>2
    <3>2. u[Len(u)] = t[Len(t)]
      BY <1>1, <3>1, Zenon
    <3>3. QED
      BY <3>1, <3>2, Zenon DEF Ends, Good
  <2>3. QED
    BY <2>1, <2>2
<1>4. QED
  BY <1>2, <1>3 DEF Good, Fine, u

\* A packet that is whole, and a padding.
LEMMA PacketGood ==
  ASSUME NEW l, NEW k \in 1 .. Len(l), l[k] \in Nat \ {0},
         NEW t \in Seq(Unit), Len(t) = l[k], \A i \in 1 .. Len(t) : t[i] = <<k, i>>
  PROVE  Good(t, l)
<1>1. ASSUME NEW i \in 1 .. Len(t)
      PROVE  /\ t[i] # Pad => t[i][1] \in 1 .. Len(l)
             /\ IF t[i][2] > 1 THEN i > 1 /\ t[i - 1] = <<t[i][1], t[i][2] - 1>> ELSE Ends(t, i - 1, l)
  <2>1. t[i] = <<k, i>> /\ t[i][1] = k /\ t[i][2] = i
    OBVIOUS
  <2>2. CASE i = 1
    <3>1. ~(t[i][2] > 1) /\ ~(i - 1 > 0)
      BY <2>1, <2>2
    <3>2. QED
      BY <2>1, <3>1, Zenon DEF Ends
  <2>3. CASE i # 1
    <3>1. t[i][2] > 1 /\ i > 1 /\ i - 1 \in 1 .. Len(t)
      BY <2>1, <2>3
    <3>2. t[i - 1] = <<k, i - 1>>
      BY <3>1, Zenon
    <3>3. QED
      BY <2>1, <3>1, <3>2, Zenon
  <2>4. QED
    BY <2>2, <2>3
<1>2. Ends(t, Len(t), l)
  <2>1. Len(t) \in 1 .. Len(t)
    OBVIOUS
  <2>2. t[Len(t)] = <<k, Len(t)>>
    BY <2>1
  <2>3. t[Len(t)][1] = k /\ t[Len(t)][2] = Len(t)
    BY <2>2
  <2>4. QED
    BY <2>3, Zenon DEF Ends
<1>3. QED
  BY <1>1, <1>2 DEF Good, Fine

LEMMA PaddingGood ==
  ASSUME NEW l, NEW t \in Seq(Unit), \A i \in 1 .. Len(t) : t[i] = Pad
  PROVE  Good(t, l)
<1>1. Pad[2] = 0 /\ ~(0 > 1)
  BY DEF Pad
<1>2. Len(t) \in Nat
  BY LenProperties
<1>3. \A i \in 0 .. Len(t) : Ends(t, i, l)
  <2> TAKE i \in 0 .. Len(t)
  <2>1. i > 0 => i \in 1 .. Len(t)
    BY <1>2
  <2>2. QED
    BY <2>1, Zenon DEF Ends
<1>4. ASSUME NEW i \in 1 .. Len(t)
      PROVE  /\ t[i] # Pad => t[i][1] \in 1 .. Len(l)
             /\ IF t[i][2] > 1 THEN i > 1 /\ t[i - 1] = <<t[i][1], t[i][2] - 1>> ELSE Ends(t, i - 1, l)
  <2>1. t[i] = Pad /\ i - 1 \in 0 .. Len(t)
    BY <1>2
  <2>2. QED
    BY <1>1, <1>3, <2>1, Zenon
<1>5. Len(t) \in 0 .. Len(t)
  BY <1>2
<1>6. QED
  BY <1>3, <1>4, <1>5 DEF Good, Fine

\* Another packet's length changes nothing.
LEMMA GoodLonger ==
  ASSUME NEW s \in Seq(Unit), NEW l \in Seq(Nat), NEW n \in Nat
  PROVE  /\ Fine(s, l) => Fine(s, Append(l, n))
         /\ Good(s, l) => Good(s, Append(l, n))
<1> DEFINE m == Append(l, n)
<1>1. Len(m) = Len(l) + 1 /\ Len(l) \in Nat /\ \A i \in 1 .. Len(l) : m[i] = l[i]
  BY AppendProperties, LenProperties
<1> HIDE DEF m
<1>2. Len(s) \in Nat
  BY LenProperties
<1>3. ASSUME Fine(s, l) PROVE \A i \in 0 .. Len(s) : Ends(s, i, l) => Ends(s, i, m)
  <2> TAKE i \in 0 .. Len(s)
  <2>1. i > 0 => i \in 1 .. Len(s)
    BY <1>2
  <2>2. i > 0 /\ s[i] # Pad => s[i][1] \in 1 .. Len(l)
    BY <1>3, <2>1 DEF Fine
  <2>3. i > 0 /\ s[i] # Pad => m[s[i][1]] = l[s[i][1]]
    BY <1>1, <2>2, Zenon
  <2>4. QED
    BY <2>3, Zenon DEF Ends
<1>4. ASSUME Fine(s, l) PROVE Fine(s, m)
  <2>1. ASSUME NEW i \in 1 .. Len(s)
        PROVE  /\ s[i] # Pad => s[i][1] \in 1 .. Len(m)
               /\ IF s[i][2] > 1 THEN i > 1 /\ s[i - 1] = <<s[i][1], s[i][2] - 1>> ELSE Ends(s, i - 1, m)
    <3>1. /\ s[i] # Pad => s[i][1] \in 1 .. Len(l)
          /\ IF s[i][2] > 1 THEN i > 1 /\ s[i - 1] = <<s[i][1], s[i][2] - 1>> ELSE Ends(s, i - 1, l)
      BY <1>4 DEF Fine
    <3>2. i - 1 \in 0 .. Len(s) /\ \A k \in 1 .. Len(l) : k \in 1 .. Len(m)
      BY <1>1, <1>2
    <3>3. QED
      BY <1>3, <1>4, <3>1, <3>2, Zenon
  <2>2. QED
    BY <2>1 DEF Fine
<1>5. Len(s) \in 0 .. Len(s)
  BY <1>2
<1>6. QED
  BY <1>3, <1>4, <1>5 DEF Good, m

-----------------------------------------------------------------------------
(* What a sender stores *)

LEMMA Lengths ==
  ASSUME StreamType, NEW k \in 1 .. Len(length)
  PROVE  length[k] \in Nat \ {0} /\ k \in Nat
<1>1. length \in Seq(1 .. MaxLength) /\ MaxLength \in Nat /\ Len(length) \in Nat
  BY PacketAssumption, LenProperties DEF PacketAssumption, StreamType
<1>2. length[k] \in 1 .. MaxLength
  BY <1>1, ElementOfSeq
<1>3. QED
  BY <1>1, <1>2

LEMMA UnitsOf ==
  ASSUME StreamType, NEW k \in 1 .. Len(length)
  PROVE  /\ Units(k) \in Seq(Unit) /\ Len(Units(k)) = length[k] /\ Units(k) # <<>>
         /\ \A i \in 1 .. Len(Units(k)) : Units(k)[i] = <<k, i>>
         /\ Good(Units(k), length)
<1>1. length[k] \in Nat \ {0} /\ k \in Nat
  BY Lengths
<1>2. PICK n \in Nat \ {0} : n = length[k]
  BY <1>1
<1> DEFINE t == Units(k)
<1>3. t = [i \in 1 .. n |-> <<k, i>>]
  BY <1>2, Zenon DEF Units
<1> HIDE DEF t
<1>4. \A i \in 1 .. n : <<k, i>> \in Unit
  BY <1>1 DEF Unit
<1>5. t \in Seq(Unit) /\ Len(t) = n /\ \A i \in 1 .. n : t[i] = <<k, i>>
  BY <1>3, <1>4
<1>6. t # <<>>
  BY <1>5, EmptySeq
<1>7. Good(t, length)
  BY <1>1, <1>2, <1>5, PacketGood
<1>8. QED
  BY <1>2, <1>5, <1>6, <1>7, Zenon DEF t

LEMMA PaddingOf ==
  ASSUME StreamType, NEW k \in 1 .. Len(length)
  PROVE  /\ Padding(k) \in Seq(Unit)
         /\ Len(Padding(k)) = (Sector - (length[k] % Sector)) % Sector
         /\ Len(Padding(k)) \in 0 .. Sector - 1
         /\ Good(Padding(k), length)
<1>1. length[k] \in Nat /\ Sector \in Nat \ {0}
  BY Lengths, PacketAssumption DEF PacketAssumption
<1>2. \A n \in Nat : n % Sector \in 0 .. Sector - 1
  BY <1>1
<1>3. length[k] % Sector \in 0 .. Sector - 1
  BY <1>1, <1>2
<1>4. Sector - (length[k] % Sector) \in Nat
  BY <1>1, <1>3
<1>5. PICK n \in 0 .. Sector - 1 : n = (Sector - (length[k] % Sector)) % Sector
  BY <1>2, <1>4
<1> DEFINE t == Padding(k)
<1>6. t = [i \in 1 .. n |-> Pad]
  BY <1>5, Zenon DEF Padding
<1> HIDE DEF t
<1>7. Pad \in Unit
  BY DEF Pad, Unit
<1>8. n \in Nat
  BY <1>1
<1>9. t \in Seq(Unit) /\ Len(t) = n /\ \A i \in 1 .. n : t[i] = Pad
  BY <1>6, <1>7, <1>8
<1>10. Good(t, length)
  BY <1>9, PaddingGood
<1>11. QED
  BY <1>5, <1>9, <1>10, Zenon DEF t

\* The length of the padding, from what is in the sector after the packet.
LEMMA PaddingEnds ==
  ASSUME StreamType, NEW k \in 1 .. Len(length), NEW q \in Nat, length[k] = q * Sector + Len(part)
  PROVE  Len(Padding(k)) = IF Len(part) = 0 THEN 0 ELSE Sector - Len(part)
<1>1. Len(part) \in 0 .. Sector - 1 /\ Sector \in Nat \ {0}
  BY PacketAssumption, LenProperties DEF PacketAssumption, StreamType
<1>2. PICK S \in Nat \ {0} : S = Sector
  BY <1>1
<1>3. PICK r \in 0 .. S - 1 : r = Len(part)
  BY <1>1, <1>2
<1>4. PICK n : n = length[k]
  OBVIOUS
<1>5. n = q * S + r
  BY <1>2, <1>3, <1>4, Zenon
<1>6. Len(Padding(k)) = (S - (n % S)) % S
  BY <1>2, <1>4, PaddingOf, Zenon
<1>7. n % S = r
  BY <1>5
<1>8. (S - (n % S)) % S = IF r = 0 THEN 0 ELSE S - r
  <2>1. CASE r = 0
    <3>1. S - 0 = S /\ S % S = 0
      OBVIOUS
    <3>2. QED
      BY <1>7, <2>1, <3>1
  <2>2. CASE r # 0
    <3>1. r \in 1 .. S - 1
      BY <2>2
    <3>2. (S - r) % S = S - r
      BY <3>1
    <3>3. QED
      BY <1>7, <2>2, <3>2
  <2>3. QED
    BY <2>1, <2>2
<1>9. QED
  BY <1>2, <1>3, <1>6, <1>8, Zenon

\* Whoever is inside the mutex stores alone.
LEMMA StoresAlone ==
  ASSUME SessInv, NEW p \in Procs, step[p] \in Storing \/ pc[p] = "in"
  PROVE  \A q \in Procs : q # p => step[q] \notin Storing
<1>1. pc[p] = "in"
  BY DEF SessInv, Placed
<1>2. ASSUME NEW q \in Procs, q # p, step[q] \in Storing PROVE FALSE
  <2>1. pc[q] = "in"
    BY <1>2 DEF SessInv, Placed
  <2>2. QED
    BY <1>1, <1>2, <2>1, OneInside
<1>3. QED
  BY <1>2

LEMMA Apart == Writing \subseteq Storing /\ "none" \notin Storing /\ "look" \notin Storing /\ "leave" \notin Storing
BY DEF Writing, Storing

\* A step that leaves the units alone, and begins and ends no storing.
LEMMA StreamFrame ==
  ASSUME SessInv, WholeInv, CountInv, up' => up,
         UNCHANGED <<part, wire, todo, packet, length, counted, alone>>,
         \A q \in Procs : step'[q] = step[q] \/ (step[q] \notin Storing /\ step'[q] \notin Storing)
  PROVE  WholeInv' /\ CountInv'
<1>1. \A q \in Procs : /\ step'[q] \in Writing <=> step[q] \in Writing
                       /\ step'[q] \in Storing <=> step[q] \in Storing
                       /\ \A s \in Storing : step'[q] = s <=> step[q] = s
  BY Apart
<1>2. WholeInv'
  BY <1>1 DEF WholeInv
<1>3. \A q \in Procs : /\ step'[q] = "packet" <=> step[q] = "packet"
                       /\ step'[q] = "pad" <=> step[q] = "pad"
                       /\ step'[q] = "padding" <=> step[q] = "padding"
  BY <1>1 DEF Storing
<1>4. ASSUME up', ~alone' PROVE Aligned' /\ EndsSent'
  <2>1. Aligned /\ EndsSent
    BY <1>4 DEF CountInv
  <2>2. Aligned'
    BY <1>1, <1>3, <2>1, Zenon DEF Aligned
  <2>3. EndsSent'
    <3>1. \A q \in Procs : step'[q] \in {"pad", "padding"} <=> step[q] \in {"pad", "padding"}
      BY <1>3
    <3>2. QED
      BY <1>3, <2>1, <3>1, Zenon DEF EndsSent
  <2>4. QED
    BY <2>2, <2>3
<1>5. QED
  BY <1>2, <1>4 DEF CountInv

-----------------------------------------------------------------------------
(* One step *)

\* The steps that touch neither the sector nor what is to be stored.
LEMMA QuietStream ==
  ASSUME SessInv, StreamInv,
         \/ \E p \in Procs : Lock(p) \/ NoSession(p) \/ Leave(p)
         \/ CreateSession \/ InitSession \/ ReadKey \/ KeySent \/ ReadEnds \/ EndLock \/ FreeSession
  PROVE  StreamInv'
<1> USE PacketAssumption DEF PacketAssumption, StreamInv
<1>1. /\ UNCHANGED <<part, wire, todo, packet, length, counted, alone>>
      /\ up' => up
  BY DEF up, AfterWrite, Lock, stream, NoSession, Leave, CreateSession, InitSession, ReadKey, KeySent, ReadEnds,
         EndLock, FreeSession
<1>2. \A q \in Procs : step'[q] = step[q] \/ (step[q] \notin Storing /\ step'[q] = "none")
  <2>1. ASSUME NEW p \in Procs, NoSession(p) \/ Leave(p), NEW q \in Procs
        PROVE  step'[q] = step[q] \/ (step[q] \notin Storing /\ step'[q] = "none")
    BY <2>1, Apart DEF NoSession, Leave, SessInv
  <2>2. CASE \E p \in Procs : Lock(p)
    BY <2>2 DEF Lock, stream
  <2>3. CASE CreateSession \/ InitSession \/ ReadKey \/ KeySent \/ ReadEnds \/ EndLock \/ FreeSession
    BY <2>3 DEF CreateSession, InitSession, ReadKey, KeySent, ReadEnds, EndLock, FreeSession
  <2>4. QED
    BY <2>1, <2>2, <2>3
<1>3. WholeInv' /\ CountInv'
  BY <1>1, <1>2, StreamFrame, Apart DEF StreamType
<1>4. /\ phase' \in {"create", "init", "read", "keying", "end", "free", "done"}
      /\ sentKeys' \in {"none", "public", "both"} /\ socket' \in SocketStates
      /\ Takes => Takes'
      /\ phase' \in {"create", "init"} => sentKeys' = "none"
  BY DEF StreamType, SocketStates, AfterWrite, KeysFirst, Takes, Lock, stream, NoSession, Leave, CreateSession, InitSession,
         ReadKey, KeySent, ReadEnds, EndLock, FreeSession
<1>5. StreamType'
  <2>1. \A q \in Procs : step'[q] # "none" => packet'[q] \in 1 .. Len(length')
    BY <1>1, <1>2 DEF StreamType
  <2>2. QED
    BY <1>1, <1>4, <2>1 DEF StreamType
<1>6. KeysFirst'
  BY <1>1, <1>2, <1>4, Apart DEF KeysFirst, Writing
<1>7. QED
  BY <1>3, <1>5, <1>6

\* A packet begins: its number is new.
LEMMA SendStream ==
  ASSUME SessInv, StreamInv, NEW p \in Procs, Send(p)
  PROVE  StreamInv'
<1> USE PacketAssumption DEF PacketAssumption, StreamInv
<1>1. /\ step[p] = "none"
      /\ step' = [step EXCEPT ![p] = "look"] /\ packet' = [packet EXCEPT ![p] = Len(length) + 1]
      /\ UNCHANGED <<phase, sess, sentKeys, socket, part, wire, todo, counted, alone>>
  BY DEF Send
<1>2. PICK n \in 1 .. MaxLength : length' = Append(length, n)
  BY DEF Send
<1>3. length \in Seq(1 .. MaxLength) /\ Len(length) \in Nat /\ length \in Seq(Nat) /\ n \in Nat
  <2>1. length \in Seq(1 .. MaxLength)
    BY DEF StreamType
  <2>2. length \in Seq(Nat)
    <3>1. 1 .. MaxLength \subseteq Nat
      OBVIOUS
    <3>2. QED
      BY <2>1, <3>1
  <2>3. QED
    BY <2>1, <2>2, LenProperties
<1>4. /\ length' \in Seq(1 .. MaxLength) /\ Len(length') = Len(length) + 1
      /\ \A k \in 1 .. Len(length) : k \in 1 .. Len(length') /\ length'[k] = length[k]
  BY <1>2, <1>3, AppendProperties
<1>5. \A q \in Procs : q # p => step'[q] = step[q] /\ packet'[q] = packet[q]
  BY <1>1 DEF SessInv, StreamType
<1>6. step'[p] = "look" /\ packet'[p] = Len(length) + 1 /\ packet'[p] \in 1 .. Len(length')
  BY <1>1, <1>3, <1>4 DEF SessInv, StreamType
<1>7. StreamType'
  <2>1. \A q \in Procs : step'[q] # "none" => packet'[q] \in 1 .. Len(length')
    BY <1>4, <1>5, <1>6 DEF StreamType
  <2>2. packet' \in [Procs -> Nat]
    BY <1>1, <1>3 DEF StreamType
  <2>3. counted' \subseteq 1 .. Len(length')
    BY <1>1, <1>4 DEF StreamType
  <2>4. QED
    BY <1>1, <1>4, <2>1, <2>2, <2>3 DEF StreamType
<1>8. \A q \in Procs : \A s \in Storing : step'[q] = s => q # p /\ step[q] = s
  BY <1>5, <1>6, Apart
<1>9. \A q \in Procs : \A s \in Storing : step[q] = s => q # p /\ step'[q] = s
  BY <1>1, <1>5, Apart
<1>10. KeysFirst'
  BY <1>1, <1>8, Apart DEF KeysFirst, Takes, Writing
<1>11. WholeInv'
  <2>1. \A s \in Seq(Unit) : /\ Fine(s, length) => Fine(s, length')
                             /\ Good(s, length) => Good(s, length')
    BY <1>2, <1>3, GoodLonger
  <2>2. wire \in Seq(Unit) /\ part \in Seq(Unit) /\ todo \in [Procs -> Seq(Unit)]
    BY DEF StreamType
  <2>3. Fine(wire', length')
    BY <1>1, <2>1, <2>2 DEF WholeInv
  <2>4. wire \o part \in Seq(Unit)
    BY <2>2, Joined
  <2>5. ASSUME up', \A q \in Procs : step'[q] \notin Writing PROVE Good(wire' \o part', length')
    <3>1. \A q \in Procs : step[q] \notin Writing
      BY <1>9, <2>5, Apart
    <3>2. Good(wire \o part, length)
      BY <1>1, <2>5, <3>1 DEF WholeInv, up
    <3>3. QED
      BY <1>1, <2>1, <2>4, <3>2
  <2>6. ASSUME NEW q \in Procs, up', step'[q] \in Writing
        PROVE  Good((wire' \o part') \o todo'[q], length')
    <3>1. step[q] \in Writing
      BY <1>8, <2>6, Apart
    <3>2. Good((wire \o part) \o todo[q], length)
      BY <1>1, <2>6, <3>1 DEF WholeInv, up
    <3>3. (wire \o part) \o todo[q] \in Seq(Unit)
      BY <2>2, <2>4, Joined
    <3>4. QED
      BY <1>1, <2>1, <3>2, <3>3
  <2>7. QED
    BY <2>3, <2>5, <2>6 DEF WholeInv
<1>12. CountInv'
  <2> SUFFICES ASSUME up', ~alone' PROVE Aligned' /\ EndsSent'
    BY DEF CountInv
  <2>1. Aligned /\ EndsSent
    BY <1>1 DEF CountInv, up
  <2>2. \A q \in Procs : step'[q] \in Storing =>
          /\ step[q] = step'[q] /\ packet'[q] = packet[q] /\ length'[packet[q]] = length[packet[q]]
    <3>1. \A q \in Procs : step[q] \in Storing => packet[q] \in 1 .. Len(length)
      BY Apart DEF StreamType
    <3>2. QED
      BY <1>4, <1>5, <1>8, <3>1
  <2>3. Aligned'
    <3>1. (\A q \in Procs : step'[q] \notin Storing) => part' = <<>>
      BY <1>1, <1>9, <2>1 DEF Aligned
    <3>2. ASSUME NEW q \in Procs, step'[q] = "packet"
          PROVE  \E j \in Nat : length'[packet'[q]] = j * Sector + Len(part') + Len(todo'[q])
      <4>1. step[q] = "packet" /\ packet'[q] = packet[q] /\ length'[packet[q]] = length[packet[q]]
        BY <2>2, <3>2 DEF Storing
      <4>2. \E j \in Nat : length[packet[q]] = j * Sector + Len(part) + Len(todo[q])
        BY <2>1, <4>1, Zenon DEF Aligned
      <4>3. part' = part /\ todo' = todo
        BY <1>1
      <4>4. QED
        BY <4>1, <4>2, <4>3, Zenon
    <3>3. ASSUME NEW q \in Procs, step'[q] = "pad"
          PROVE  IF packet'[q] \in counted' THEN \E j \in Nat : length'[packet'[q]] = j * Sector + Len(part')
                                            ELSE part' = <<>>
      <4>1. step[q] = "pad" /\ packet'[q] = packet[q] /\ length'[packet[q]] = length[packet[q]]
        BY <2>2, <3>3 DEF Storing
      <4>2. IF packet[q] \in counted THEN \E j \in Nat : length[packet[q]] = j * Sector + Len(part)
                                     ELSE part = <<>>
        BY <2>1, <4>1, Zenon DEF Aligned
      <4>3. part' = part /\ counted' = counted
        BY <1>1
      <4>4. QED
        BY <4>1, <4>2, <4>3, Zenon
    <3>4. ASSUME NEW q \in Procs, step'[q] = "padding" PROVE Len(part') + Len(todo'[q]) = Sector
      BY <1>1, <2>1, <2>2, <3>4 DEF Aligned, Storing
    <3>5. QED
      BY <3>1, <3>2, <3>3, <3>4 DEF Aligned
  <2>4. EndsSent'
    <3>1. ASSUME NEW q \in Procs, step'[q] = "packet"
          PROVE  todo'[q][Len(todo'[q])] = <<packet'[q], length'[packet'[q]]>>
      BY <1>1, <2>1, <2>2, <3>1 DEF EndsSent, Storing
    <3>2. ASSUME NEW q \in Procs, step'[q] \in {"pad", "padding"} /\ packet'[q] \in counted'
          PROVE  HasEnd(wire' \o part', packet'[q], length'[packet'[q]])
      BY <1>1, <2>1, <2>2, <3>2 DEF EndsSent, Storing
    <3>3. ASSUME NEW k \in counted'
          PROVE  \/ HasEnd(wire', k, length'[k])
                 \/ \E q \in Procs : step'[q] \in {"pad", "padding"} /\ packet'[q] = k
      <4>1. length'[k] = length[k] /\ k \in counted
        BY <1>1, <1>4 DEF StreamType
      <4>2. CASE HasEnd(wire, k, length[k])
        BY <1>1, <4>1, <4>2
      <4>3. ASSUME NEW q \in Procs, step[q] \in {"pad", "padding"}, packet[q] = k
            PROVE  step'[q] \in {"pad", "padding"} /\ packet'[q] = k
        BY <1>5, <1>9, <4>3 DEF Storing
      <4>4. QED
        BY <2>1, <4>1, <4>2, <4>3 DEF EndsSent
    <3>4. QED
      BY <3>1, <3>2, <3>3 DEF EndsSent
  <2>5. QED
    BY <2>3, <2>4
<1>13. QED
  BY <1>7, <1>10, <1>11, <1>12

\* With the mutex a thread looks whether there is a session that takes data.
LEMMA LookStream ==
  ASSUME SessInv, StreamInv, NEW p \in Procs, Look(p)
  PROVE  StreamInv'
<1> USE PacketAssumption DEF PacketAssumption, StreamInv
<1>1. /\ pc[p] = "in" /\ step[p] = "look"
      /\ UNCHANGED <<phase, sess, sentKeys, socket, part, wire, packet, length, counted, alone>>
  BY DEF Look
<1>2. \A q \in Procs : step[q] \notin Storing
  BY <1>1, StoresAlone, Apart
<1>3. packet[p] \in 1 .. Len(length)
  BY <1>1 DEF StreamType
<1>4. wire \in Seq(Unit) /\ part \in Seq(Unit) /\ wire \o part \in Seq(Unit)
  BY Joined DEF StreamType
<1>5. up => Good(wire \o part, length)
  BY <1>2, Apart DEF WholeInv
<1>6. up /\ ~alone => part = <<>> /\ \A k \in counted : HasEnd(wire, k, length[k])
  <2>1. \A q \in Procs : step[q] \notin {"pad", "padding"}
    BY <1>2 DEF Storing
  <2>2. QED
    BY <1>2, <2>1, Zenon DEF CountInv, Aligned, EndsSent
<1>7. CASE Takes
  <2> DEFINE t == Units(packet[p])
  <2>1. step' = [step EXCEPT ![p] = "packet"] /\ todo' = [todo EXCEPT ![p] = t]
    BY <1>7 DEF Look
  <2>2. t \in Seq(Unit) /\ Len(t) = length[packet[p]] /\ t # <<>> /\ Good(t, length)
        /\ Len(t) \in 1 .. Len(t) /\ t[Len(t)] = <<packet[p], length[packet[p]]>>
    <3>1. /\ t \in Seq(Unit) /\ Len(t) = length[packet[p]] /\ t # <<>> /\ Good(t, length)
          /\ \A i \in 1 .. Len(t) : t[i] = <<packet[p], i>>
      BY <1>3, UnitsOf
    <3>2. Len(t) \in Nat \ {0}
      BY <1>3, <3>1, Lengths
    <3>3. Len(t) \in 1 .. Len(t)
      BY <3>2
    <3>4. QED
      BY <3>1, <3>3
  <2> HIDE DEF t
  <2>3. /\ step'[p] = "packet" /\ todo'[p] = t
        /\ \A q \in Procs : q # p => step'[q] = step[q] /\ todo'[q] = todo[q]
    BY <2>1 DEF SessInv, StreamType
  <2>4. \A q \in Procs : step'[q] \in Storing <=> q = p
    BY <1>2, <2>3 DEF Storing
  <2>5. StreamType'
    <3>1. todo' \in [Procs -> Seq(Unit)]
      BY <2>1, <2>2 DEF StreamType
    <3>2. \A q \in Procs : step'[q] # "none" => packet'[q] \in 1 .. Len(length')
      BY <1>1, <1>3, <2>3 DEF StreamType
    <3>3. QED
      BY <1>1, <3>1, <3>2 DEF StreamType
  <2>6. KeysFirst'
    BY <1>1, <1>7, <2>2, <2>3, <2>4, Apart DEF KeysFirst, Takes
  <2>7. WholeInv'
    <3>1. up => Good((wire \o part) \o t, length)
      BY <1>4, <1>5, <2>2, GoodJoins
    <3>2. step'[p] \in Writing /\ \A q \in Procs : step'[q] \in Writing => q = p
      BY <2>3, <2>4, Apart DEF Writing
    <3>3. QED
      BY <1>1, <2>3, <3>1, <3>2 DEF WholeInv, up
  <2>8. ASSUME up', ~alone' PROVE Aligned' /\ EndsSent'
    <3>1. part = <<>> /\ \A k \in counted : HasEnd(wire, k, length[k])
      BY <1>1, <1>6, <2>8 DEF up
    <3>2. \A q \in Procs : step'[q] \notin {"pad", "padding"} /\ (step'[q] = "packet" => q = p)
      BY <2>3, <2>4 DEF Storing
    <3>3. length[packet[p]] = 0 * Sector + Len(part) + Len(t)
      BY <1>3, <2>2, <3>1, Lengths, EmptySeq
    <3>4. step'[p] \in Storing
      BY <2>4
    <3>5. Aligned'
      BY <1>1, <2>3, <3>2, <3>3, <3>4 DEF Aligned
    <3>6. EndsSent'
      BY <1>1, <2>2, <2>3, <3>1, <3>2 DEF EndsSent
    <3>7. QED
      BY <3>5, <3>6
  <2>9. QED
    BY <2>5, <2>6, <2>7, <2>8 DEF CountInv
<1>8. CASE ~Takes
  <2>1. step' = [step EXCEPT ![p] = "pad"] /\ todo' = todo
    BY <1>8 DEF Look
  <2>2. step'[p] = "pad" /\ \A q \in Procs : q # p => step'[q] = step[q]
    BY <2>1 DEF SessInv
  <2>3. \A q \in Procs : step'[q] \in Storing <=> q = p
    BY <1>2, <2>2 DEF Storing
  <2>4. StreamType'
    <3>1. \A q \in Procs : step'[q] # "none" => packet'[q] \in 1 .. Len(length')
      BY <1>1, <1>3, <2>2 DEF StreamType
    <3>2. QED
      BY <1>1, <2>1, <3>1 DEF StreamType
  <2>5. \A q \in Procs : step'[q] \notin Writing
    BY <2>2, <2>3, Apart DEF Writing
  <2>6. KeysFirst'
    BY <1>1, <1>8, <2>5 DEF KeysFirst, Takes
  <2>7. WholeInv'
    BY <1>1, <1>5, <2>5 DEF WholeInv, up
  <2>8. ASSUME up', ~alone' PROVE Aligned' /\ EndsSent'
    <3>1. part = <<>> /\ \A k \in counted : HasEnd(wire, k, length[k])
      BY <1>1, <1>6, <2>8 DEF up
    <3>2. counted = {}
      BY <1>8 DEF KeysFirst
    <3>3. \A q \in Procs : step'[q] \notin {"packet", "padding"} /\ (step'[q] = "pad" => q = p)
      BY <2>2, <2>3 DEF Storing
    <3>4. Aligned'
      BY <1>1, <3>1, <3>2, <3>3 DEF Aligned
    <3>5. EndsSent'
      BY <1>1, <3>2, <3>3 DEF EndsSent
    <3>6. QED
      BY <3>4, <3>5
  <2>9. QED
    BY <2>4, <2>6, <2>7, <2>8 DEF CountInv
<1>9. QED
  BY <1>7, <1>8

\* A padding begins; it is alone when the session has just begun to take data.
LEMMA PadBeginsStream ==
  ASSUME SessInv, StreamInv, NEW p \in Procs, PadBegins(p)
  PROVE  StreamInv'
<1> USE PacketAssumption DEF PacketAssumption, StreamInv
<1> DEFINE t == Padding(packet[p])
<1>1. /\ step[p] = "pad" /\ Takes /\ t # <<>>
      /\ step' = [step EXCEPT ![p] = "padding"] /\ todo' = [todo EXCEPT ![p] = t]
      /\ alone' = (alone \/ packet[p] \notin counted)
      /\ UNCHANGED <<phase, sess, sentKeys, socket, part, wire, packet, length, counted>>
  BY DEF PadBegins
<1>2. step[p] \in Storing /\ \A q \in Procs : q # p => step[q] \notin Storing
  <2>1. step[p] \in Storing
    BY <1>1 DEF Storing
  <2>2. QED
    BY <2>1, StoresAlone
<1>3. packet[p] \in 1 .. Len(length)
  BY <1>1 DEF StreamType
<1>4. t \in Seq(Unit) /\ Good(t, length) /\ Len(t) = (Sector - (length[packet[p]] % Sector)) % Sector
  BY <1>3, PaddingOf
<1> HIDE DEF t
<1>5. wire \in Seq(Unit) /\ part \in Seq(Unit) /\ wire \o part \in Seq(Unit)
  BY Joined DEF StreamType
<1>6. up => Good(wire \o part, length)
  <2>1. \A q \in Procs : step[q] \notin Writing
    BY <1>1, <1>2, Apart DEF Writing
  <2>2. QED
    BY <2>1 DEF WholeInv
<1>7. /\ step'[p] = "padding" /\ todo'[p] = t
      /\ \A q \in Procs : q # p => step'[q] = step[q] /\ todo'[q] = todo[q]
  BY <1>1 DEF SessInv, StreamType
<1>8. \A q \in Procs : step'[q] \in Storing <=> q = p
  BY <1>2, <1>7 DEF Storing
<1>9. StreamType'
  <2>1. todo' \in [Procs -> Seq(Unit)]
    BY <1>1, <1>4 DEF StreamType
  <2>2. \A q \in Procs : step'[q] # "none" => packet'[q] \in 1 .. Len(length')
    BY <1>1, <1>3, <1>7 DEF StreamType
  <2>3. alone' \in BOOLEAN
    BY <1>1 DEF StreamType
  <2>4. QED
    BY <1>1, <2>1, <2>2, <2>3 DEF StreamType
<1>10. KeysFirst'
  BY <1>1, <1>7, <1>8, Apart DEF KeysFirst, Takes
<1>11. WholeInv'
  <2>1. up => Good((wire \o part) \o t, length)
    BY <1>4, <1>5, <1>6, GoodJoins
  <2>2. step'[p] \in Writing /\ \A q \in Procs : step'[q] \in Writing => q = p
    BY <1>7, <1>8, Apart DEF Writing
  <2>3. QED
    BY <1>1, <1>7, <2>1, <2>2 DEF WholeInv, up
<1>12. ASSUME up', ~alone' PROVE Aligned' /\ EndsSent'
  <2>1. Aligned /\ EndsSent /\ packet[p] \in counted
    BY <1>1, <1>12 DEF CountInv, up
  <2>2. PICK j \in Nat : length[packet[p]] = j * Sector + Len(part)
    BY <1>1, <2>1, Zenon DEF Aligned
  <2>3. Len(part) \in 0 .. Sector - 1 /\ Sector \in Nat \ {0}
    BY <1>5, LenProperties DEF StreamType
  <2>4. Len(t) = IF Len(part) = 0 THEN 0 ELSE Sector - Len(part)
    BY <1>1, <1>3, <2>2, PaddingEnds, Zenon DEF t
  <2>5. Len(t) # 0
    BY <1>1, <1>4, NoUnits, Zenon
  <2>6. Len(part) + Len(t) = Sector
    BY <2>3, <2>4, <2>5
  <2>7. \A q \in Procs : step'[q] \notin {"packet", "pad"} /\ (step'[q] = "padding" => q = p)
    BY <1>7, <1>8 DEF Storing
  <2>8. Aligned'
    BY <1>1, <1>7, <1>8, <2>6, <2>7 DEF Aligned
  <2>9. EndsSent'
    <3>1. HasEnd(wire \o part, packet[p], length[packet[p]])
      BY <1>1, <2>1 DEF EndsSent
    <3>2. ASSUME NEW k \in counted'
          PROVE  \/ HasEnd(wire', k, length'[k])
                 \/ \E q \in Procs : step'[q] \in {"pad", "padding"} /\ packet'[q] = k
      <4>1. CASE HasEnd(wire, k, length[k])
        BY <1>1, <4>1
      <4>2. ASSUME NEW q \in Procs, step[q] \in {"pad", "padding"}, packet[q] = k
            PROVE  step'[q] \in {"pad", "padding"} /\ packet'[q] = k
        BY <1>1, <1>7, <4>2
      <4>3. QED
        BY <1>1, <2>1, <4>1, <4>2 DEF EndsSent
    <3>3. QED
      BY <1>1, <1>7, <2>7, <3>1, <3>2 DEF EndsSent
  <2>10. QED
    BY <2>8, <2>9
<1>13. QED
  BY <1>9, <1>10, <1>11, <1>12 DEF CountInv

\* There is nothing to pad, or the session drops it.
LEMMA PadNothingStream ==
  ASSUME SessInv, StreamInv, NEW p \in Procs, PadNothing(p)
  PROVE  StreamInv'
<1> USE PacketAssumption DEF PacketAssumption, StreamInv
<1>1. /\ step[p] = "pad" /\ (~Takes \/ Padding(packet[p]) = <<>>)
      /\ step' = [step EXCEPT ![p] = "leave"]
      /\ UNCHANGED <<phase, sess, sentKeys, socket, part, wire, todo, packet, length, counted, alone>>
  BY DEF PadNothing
<1>2. \A q \in Procs : q # p => step[q] \notin Storing
  <2>1. step[p] \in Storing
    BY <1>1 DEF Storing
  <2>2. QED
    BY <2>1, StoresAlone
<1>3. packet[p] \in 1 .. Len(length)
  BY <1>1 DEF StreamType
<1>4. step'[p] = "leave" /\ \A q \in Procs : q # p => step'[q] = step[q]
  BY <1>1 DEF SessInv
<1>5. \A q \in Procs : step'[q] \notin Storing
  BY <1>2, <1>4, Apart
<1>6. StreamType'
  <2>1. \A q \in Procs : step'[q] # "none" => packet'[q] \in 1 .. Len(length')
    BY <1>1, <1>3, <1>4 DEF StreamType
  <2>2. QED
    BY <1>1, <2>1 DEF StreamType
<1>7. \A q \in Procs : step[q] \notin Writing /\ step'[q] \notin Writing
  BY <1>1, <1>2, <1>5, Apart DEF Writing
<1>8. KeysFirst'
  BY <1>1, <1>7 DEF KeysFirst, Takes
<1>9. WholeInv'
  BY <1>1, <1>7 DEF WholeInv, up
<1>10. ASSUME up', ~alone' PROVE Aligned' /\ EndsSent'
  <2>1. Aligned /\ EndsSent
    BY <1>1, <1>10 DEF CountInv, up
  <2>2. part = <<>>
    <3>1. CASE packet[p] \notin counted
      BY <1>1, <2>1, <3>1, Zenon DEF Aligned
    <3>2. CASE packet[p] \in counted
      <4>1. PICK j \in Nat : length[packet[p]] = j * Sector + Len(part)
        BY <1>1, <2>1, <3>2, Zenon DEF Aligned
      <4>2. part \in Seq(Unit) /\ Len(part) \in 0 .. Sector - 1 /\ Sector \in Nat \ {0}
        BY LenProperties DEF StreamType
      <4>3. Padding(packet[p]) = <<>>
        BY <1>1, <3>2 DEF KeysFirst
      <4>4. Len(Padding(packet[p])) = IF Len(part) = 0 THEN 0 ELSE Sector - Len(part)
        BY <1>3, <4>1, PaddingEnds, Zenon
      <4>5. Len(Padding(packet[p])) = 0
        BY <4>3, EmptySeq
      <4>6. Len(part) = 0
        BY <4>2, <4>4, <4>5
      <4>7. QED
        BY <4>2, <4>6, NoUnits, Zenon
    <3>3. QED
      BY <3>1, <3>2
  <2>3. Aligned'
    BY <1>1, <1>5, <2>2 DEF Aligned, Storing
  <2>4. ASSUME NEW k \in counted PROVE HasEnd(wire, k, length[k])
    <3>1. ASSUME NEW q \in Procs, step[q] \in {"pad", "padding"}, packet[q] = k
          PROVE  HasEnd(wire, k, length[k])
      <4>1. q = p
        BY <1>2, <3>1 DEF Storing
      <4>2. HasEnd(wire \o part, k, length[k])
        BY <2>1, <3>1 DEF EndsSent
      <4>3. wire \o <<>> = wire
        BY ConcatEmptySeq DEF StreamType
      <4>4. QED
        BY <2>2, <4>2, <4>3
    <3>2. QED
      BY <2>1, <3>1 DEF EndsSent
  <2>5. EndsSent'
    BY <1>1, <1>5, <2>4 DEF EndsSent, Storing
  <2>6. QED
    BY <2>3, <2>5
<1>11. QED
  BY <1>6, <1>8, <1>9, <1>10 DEF CountInv

-----------------------------------------------------------------------------
(* dnet_session_write, one sector's worth *)

LEMMA Cut ==
  ASSUME NEW s \in Seq(Unit), NEW k \in 0 .. Len(s)
  PROVE  /\ SubSeq(s, 1, k) \in Seq(Unit) /\ Len(SubSeq(s, 1, k)) = k
         /\ SubSeq(s, k + 1, Len(s)) \in Seq(Unit) /\ Len(SubSeq(s, k + 1, Len(s))) = Len(s) - k
         /\ SubSeq(s, 1, k) \o SubSeq(s, k + 1, Len(s)) = s
<1>1. Len(s) \in Nat /\ k \in Nat /\ \A i \in 1 .. Len(s) : s[i] \in Unit
  BY LenProperties, ElementOfSeq
<1>2. SubSeq(s, 1, k) \in Seq(Unit) /\ Len(SubSeq(s, 1, k)) = k
  <2>1. \A i \in 1 .. k : s[i] \in Unit
    BY <1>1
  <2>2. /\ SubSeq(s, 1, k) \in Seq(Unit)
        /\ Len(SubSeq(s, 1, k)) = IF 1 <= k THEN k - 1 + 1 ELSE 0
    BY <1>1, <2>1, SubSeqProperties
  <2>3. QED
    BY <1>1, <2>2
<1>3. SubSeq(s, k + 1, Len(s)) \in Seq(Unit) /\ Len(SubSeq(s, k + 1, Len(s))) = Len(s) - k
  <2>1. k + 1 \in Int /\ Len(s) \in Int /\ \A i \in k + 1 .. Len(s) : s[i] \in Unit
    BY <1>1
  <2>2. /\ SubSeq(s, k + 1, Len(s)) \in Seq(Unit)
        /\ Len(SubSeq(s, k + 1, Len(s))) = IF k + 1 <= Len(s) THEN Len(s) - (k + 1) + 1 ELSE 0
    BY <2>1, SubSeqProperties
  <2>3. QED
    BY <1>1, <2>2
<1>4. SubSeq(s, 1, k) \o SubSeq(s, k + 1, Len(s)) = s
  <2>1. 1 \in 1 .. Len(s) + 1 /\ k \in 1 - 1 .. Len(s) /\ Len(s) \in k .. Len(s)
    BY <1>1
  <2>2. SubSeq(s, 1, k) \o SubSeq(s, k + 1, Len(s)) = SubSeq(s, 1, Len(s))
    BY <2>1, ConcatAdjacentSubSeq
  <2>3. QED
    BY <2>2, SubSeqFull
<1>5. QED
  BY <1>2, <1>3, <1>4

\* What is in a sequence is in a longer one; so is the last unit of what is added.
LEMMA EndStays ==
  ASSUME NEW s \in Seq(Unit), NEW t \in Seq(Unit), NEW k, NEW n
  PROVE  /\ HasEnd(s, k, n) => HasEnd(s \o t, k, n)
         /\ t # <<>> /\ t[Len(t)] = <<k, n>> => HasEnd(s \o t, k, n)
<1> DEFINE u == s \o t
<1>1. /\ Len(u) = Len(s) + Len(t) /\ Len(s) \in Nat /\ Len(t) \in Nat
      /\ \A i \in 1 .. Len(s) : u[i] = s[i]
      /\ \A i \in 1 .. Len(t) : u[Len(s) + i] = t[i]
  BY Joined
<1> HIDE DEF u
<1>2. ASSUME NEW i \in 1 .. Len(s), s[i] = <<k, n>> PROVE HasEnd(u, k, n)
  <2>1. i \in 1 .. Len(u) /\ u[i] = s[i]
    BY <1>1
  <2>2. QED
    BY <1>2, <2>1, Zenon DEF HasEnd
<1>3. ASSUME t # <<>>, t[Len(t)] = <<k, n>> PROVE HasEnd(u, k, n)
  <2>1. Len(t) # 0
    BY <1>3, NoUnits, Zenon
  <2>2. Len(t) \in 1 .. Len(t) /\ Len(s) + Len(t) \in 1 .. Len(u)
    BY <1>1, <2>1
  <2>3. u[Len(s) + Len(t)] = <<k, n>>
    BY <1>1, <1>3, <2>2, Zenon
  <2>4. QED
    BY <2>2, <2>3, Zenon DEF HasEnd
<1>4. QED
  BY <1>2, <1>3, Zenon DEF HasEnd, u

\* A thread stores the units c of what it has to store; it has d left.
Stores(p, c, d) ==
  /\ step[p] \in Writing
  /\ todo[p] = c \o d
  /\ Len(c) = IF Len(todo[p]) < Sector - Len(part) THEN Len(todo[p]) ELSE Sector - Len(part)
  /\ part' = (IF Len(part \o c) = Sector THEN <<>> ELSE part \o c)
  /\ todo' = [todo EXCEPT ![p] = d]
  /\ step' = [step EXCEPT ![p] = IF d # <<>> THEN step[p]
                                 ELSE IF step[p] = "packet" THEN "pad" ELSE "leave"]
  /\ counted' = IF step[p] = "packet" /\ d = <<>> THEN counted \cup {packet[p]} ELSE counted
  /\ IF Len(part \o c) = Sector
     THEN socket' \in AfterWrite /\ wire' = IF up' THEN wire \o (part \o c) ELSE wire
     ELSE UNCHANGED <<socket, wire>>
  /\ UNCHANGED <<phase, sentKeys, packet, length, alone>>

LEMMA StoreParts ==
  ASSUME StreamType, NEW p \in Procs, Store(p)
  PROVE  \E c \in Seq(Unit), d \in Seq(Unit) : Stores(p, c, d)
<1>1. todo[p] \in Seq(Unit) /\ part \in Seq(Unit) /\ Sector \in Nat \ {0} /\ Len(part) < Sector
  BY PacketAssumption DEF PacketAssumption, StreamType
<1>2. Len(todo[p]) \in Nat /\ Len(part) \in Nat
  BY <1>1, LenProperties
<1>3. PICK n \in 0 .. Len(todo[p]) :
        n = IF Len(todo[p]) < Sector - Len(part) THEN Len(todo[p]) ELSE Sector - Len(part)
  BY <1>1, <1>2
<1> DEFINE c == SubSeq(todo[p], 1, n)
           d == SubSeq(todo[p], n + 1, Len(todo[p]))
<1>4. c \in Seq(Unit) /\ Len(c) = n /\ d \in Seq(Unit) /\ c \o d = todo[p]
  BY <1>1, Cut
<1>5. Chunk(p) = c /\ SubSeq(todo[p], Len(Chunk(p)) + 1, Len(todo[p])) = d
  BY <1>3, <1>4, Zenon DEF Chunk
<1> HIDE DEF c, d
<1>6. /\ step[p] \in Writing
      /\ part' = (IF Len(part \o c) = Sector THEN <<>> ELSE part \o c)
      /\ todo' = [todo EXCEPT ![p] = d]
      /\ step' = [step EXCEPT ![p] = IF d # <<>> THEN step[p]
                                     ELSE IF step[p] = "packet" THEN "pad" ELSE "leave"]
      /\ counted' = IF step[p] = "packet" /\ d = <<>> THEN counted \cup {packet[p]} ELSE counted
      /\ IF Len(part \o c) = Sector
         THEN socket' \in AfterWrite /\ wire' = IF socket' = "open" THEN wire \o (part \o c) ELSE wire
         ELSE UNCHANGED <<socket, wire>>
      /\ UNCHANGED <<phase, sentKeys, packet, length, alone>>
  BY <1>5, Zenon DEF Store, Writing
<1>7. IF Len(part \o c) = Sector
      THEN socket' \in AfterWrite /\ wire' = IF up' THEN wire \o (part \o c) ELSE wire
      ELSE UNCHANGED <<socket, wire>>
  BY <1>6 DEF up
<1>8. Stores(p, c, d)
  <2>1. Len(c) = IF Len(todo[p]) < Sector - Len(part) THEN Len(todo[p]) ELSE Sector - Len(part)
    BY <1>3, <1>4, Zenon
  <2>2. QED
    BY <1>4, <1>6, <1>7, <2>1, Zenon DEF Stores
<1>9. QED
  BY <1>4, <1>8, Zenon

\* What the step leaves in the sector and in the sectors that are written, and who stores.
Left(p, c, d) ==
  /\ part' \in Seq(Unit) /\ wire' \in Seq(Unit) /\ Len(part') < Sector /\ socket' \in SocketStates
  /\ todo' \in [Procs -> Seq(Unit)] /\ counted' \subseteq 1 .. Len(length')
  /\ up' => up /\ wire' \o part' = wire \o (part \o c)
  /\ up' => (wire' \o part') \o d = (wire \o part) \o todo[p]
  /\ wire' = wire \/ (up /\ wire' = wire \o (part \o c))
  /\ \E n \in {0, 1} : Len(part) + Len(todo[p]) = n * Sector + (Len(part') + Len(d))
  /\ Len(part) + Len(todo[p]) = Sector => d = <<>> /\ part' = <<>>
  /\ step'[p] = IF d # <<>> THEN step[p] ELSE IF step[p] = "packet" THEN "pad" ELSE "leave"
  /\ todo'[p] = d
  /\ \A q \in Procs : q # p => step'[q] = step[q] /\ step[q] \notin Storing

LEMMA StoreFacts ==
  ASSUME SessInv, StreamInv, NEW p \in Procs, NEW c \in Seq(Unit), NEW d \in Seq(Unit), Stores(p, c, d)
  PROVE  Left(p, c, d)
<1>1. /\ todo[p] \in Seq(Unit) /\ part \in Seq(Unit) /\ wire \in Seq(Unit)
      /\ Sector \in Nat \ {0} /\ Len(part) < Sector
      /\ socket \in SocketStates /\ todo \in [Procs -> Seq(Unit)]
  BY PacketAssumption DEF PacketAssumption, StreamInv, StreamType
<1> DEFINE s == part \o c
<1>2. /\ s \in Seq(Unit) /\ Len(s) = Len(part) + Len(c) /\ Len(part) \in Nat /\ Len(c) \in Nat
  BY <1>1, Joined
<1>3. Len(todo[p]) = Len(c) + Len(d) /\ Len(d) \in Nat /\ todo[p] = c \o d
  BY Joined DEF Stores
<1>4. Len(c) = IF Len(todo[p]) < Sector - Len(part) THEN Len(todo[p]) ELSE Sector - Len(part)
  BY DEF Stores
<1>5. Len(s) <= Sector /\ (Len(s) # Sector => Len(d) = 0)
  BY <1>1, <1>2, <1>3, <1>4
<1>6. wire \o s \in Seq(Unit) /\ wire \o part \in Seq(Unit)
  BY <1>1, <1>2, Joined
<1>7. /\ part' = (IF Len(s) = Sector THEN <<>> ELSE s)
      /\ IF Len(s) = Sector THEN socket' \in AfterWrite /\ wire' = IF up' THEN wire \o s ELSE wire
                            ELSE UNCHANGED <<socket, wire>>
  BY DEF Stores
<1> HIDE DEF s
<1>8. <<>> \in Seq(Unit) /\ Len(<<>>) = 0
  OBVIOUS
<1>9. socket' \in SocketStates /\ (up' => up)
  BY <1>1, <1>7 DEF SocketStates, AfterWrite, up
<1>10. part' \in Seq(Unit) /\ wire' \in Seq(Unit) /\ Len(part') < Sector
  <2>1. CASE Len(s) = Sector
    <3>1. part' = <<>> /\ wire' = IF up' THEN wire \o s ELSE wire
      BY <1>7, <2>1, Zenon
    <3>2. Len(part') < Sector
      BY <1>1, <1>8, <3>1
    <3>3. QED
      BY <1>1, <1>6, <1>8, <3>1, <3>2, Zenon
  <2>2. CASE Len(s) # Sector
    <3>1. part' = s /\ wire' = wire
      BY <1>7, <2>2, Zenon
    <3>2. Len(s) < Sector
      BY <1>1, <1>2, <1>5, <2>2
    <3>3. QED
      BY <1>1, <1>2, <3>1, <3>2, Zenon
  <2>3. QED
    BY <2>1, <2>2
<1>11. todo' \in [Procs -> Seq(Unit)] /\ todo'[p] = d
  BY <1>1 DEF Stores
<1>12. counted' \subseteq 1 .. Len(length')
  <2>1. step[p] # "none"
    BY DEF Stores, Writing
  <2>2. counted \subseteq 1 .. Len(length) /\ packet[p] \in 1 .. Len(length) /\ length' = length
    BY <2>1 DEF Stores, StreamInv, StreamType
  <2>3. QED
    BY <2>2 DEF Stores
<1>13. up' => wire' \o part' = wire \o s
  <2>1. CASE Len(s) = Sector
    <3>1. (wire \o s) \o <<>> = wire \o s
      BY <1>6, ConcatEmptySeq
    <3>2. QED
      BY <1>7, <2>1, <3>1, Zenon
  <2>2. CASE Len(s) # Sector
    BY <1>7, <2>2, Zenon
  <2>3. QED
    BY <2>1, <2>2
<1>14. up' => (wire' \o part') \o d = (wire \o part) \o todo[p]
  <2>1. wire \o s = (wire \o part) \o c
    <3>1. wire \in Seq(Unit) /\ part \in Seq(Unit) /\ c \in Seq(Unit)
      BY <1>1
    <3>2. QED
      BY <3>1, Regroup, ZenonT(30) DEF s
  <2>2. ((wire \o part) \o c) \o d = (wire \o part) \o (c \o d)
    <3>1. wire \o part \in Seq(Unit) /\ c \in Seq(Unit) /\ d \in Seq(Unit)
      BY <1>6
    <3>2. QED
      BY <3>1, Regroup, ZenonT(30)
  <2>3. QED
    BY <1>3, <1>13, <2>1, <2>2, Zenon
<1>15. wire' = wire \/ (up /\ wire' = wire \o s)
  BY <1>7, <1>9, Zenon
<1>16. \E n \in {0, 1} : Len(part) + Len(todo[p]) = n * Sector + (Len(part') + Len(d))
  <2>1. CASE Len(s) = Sector
    <3>1. Len(part') = 0
      BY <1>7, <1>8, <2>1, Zenon
    <3>2. Len(part) + (Len(c) + Len(d)) = 1 * Sector + (0 + Len(d))
      <4>1. Sector \in Nat /\ Len(part) \in Nat /\ Len(c) \in Nat /\ Len(d) \in Nat
        BY <1>1, <1>2, <1>3
      <4>2. Len(part) + Len(c) = Sector
        BY <1>2, <2>1, Zenon
      <4>3. QED
        BY <4>1, <4>2
    <3>3. QED
      BY <1>3, <3>1, <3>2
  <2>2. CASE Len(s) # Sector
    <3>1. Len(part') = Len(s)
      BY <1>7, <2>2, Zenon
    <3>2. Len(part) + Len(todo[p]) = 0 * Sector + (Len(part') + Len(d))
      BY <1>1, <1>2, <1>3, <2>2, <3>1
    <3>3. QED
      BY <3>2
  <2>3. QED
    BY <2>1, <2>2
<1>17. ASSUME Len(part) + Len(todo[p]) = Sector PROVE d = <<>> /\ part' = <<>>
  <2>1. Len(d) = 0 /\ Len(s) = Sector
    BY <1>1, <1>2, <1>3, <1>4, <1>17
  <2>2. d = <<>>
    BY <2>1, NoUnits, Zenon
  <2>3. QED
    BY <1>7, <2>1, <2>2, Zenon
<1>18. step'[p] = IF d # <<>> THEN step[p] ELSE IF step[p] = "packet" THEN "pad" ELSE "leave"
  BY DEF Stores, SessInv
<1>19. \A q \in Procs : q # p => step'[q] = step[q] /\ step[q] \notin Storing
  <2>1. step[p] \in Storing
    BY Apart DEF Stores
  <2>2. \A q \in Procs : q # p => step[q] \notin Storing
    BY <2>1, StoresAlone
  <2>3. \A q \in Procs : q # p => step'[q] = step[q]
    BY DEF Stores, SessInv
  <2>4. QED
    BY <2>2, <2>3
<1>20. QED
  BY <1>9, <1>10, <1>11, <1>12, <1>13, <1>14, <1>15, <1>16, <1>17, <1>18, <1>19, Zenon DEF s, Left

\* The sectors that are written, and what follows them, stay whole.
LEMMA StoreWhole ==
  ASSUME SessInv, StreamInv, NEW p \in Procs, NEW c \in Seq(Unit), NEW d \in Seq(Unit), Stores(p, c, d)
  PROVE  StreamType' /\ KeysFirst' /\ WholeInv'
<1>1. /\ part' \in Seq(Unit) /\ wire' \in Seq(Unit) /\ Len(part') < Sector /\ socket' \in SocketStates
      /\ todo' \in [Procs -> Seq(Unit)] /\ counted' \subseteq 1 .. Len(length')
      /\ up' => up /\ wire' \o part' = wire \o (part \o c)
      /\ up' => (wire' \o part') \o d = (wire \o part) \o todo[p]
      /\ wire' = wire \/ (up /\ wire' = wire \o (part \o c))
      /\ step'[p] = IF d # <<>> THEN step[p] ELSE IF step[p] = "packet" THEN "pad" ELSE "leave"
      /\ todo'[p] = d
      /\ \A q \in Procs : q # p => step'[q] = step[q] /\ step[q] \notin Storing
  <2>1. Left(p, c, d)
    BY StoreFacts
  <2>2. QED
    BY <2>1, Zenon DEF Left
<1>2. /\ step[p] \in Writing /\ todo[p] = c \o d
      /\ UNCHANGED <<phase, sentKeys, packet, length, alone>>
  BY DEF Stores
<1>3. StreamType'
  <2>1. \A q \in Procs : step'[q] # "none" => step[q] # "none"
    BY <1>1, <1>2 DEF Writing
  <2>2. \A q \in Procs : step'[q] # "none" => packet'[q] \in 1 .. Len(length')
    BY <1>2, <2>1 DEF StreamInv, StreamType
  <2>3. /\ phase \in {"create", "init", "read", "keying", "end", "free", "done"}
        /\ sentKeys \in {"none", "public", "both"} /\ alone \in BOOLEAN
        /\ packet \in [Procs -> Nat] /\ length \in Seq(1 .. MaxLength)
    BY DEF StreamInv, StreamType
  <2>4. QED
    BY <1>1, <1>2, <2>2, <2>3, Zenon DEF StreamType
<1>4. \A q \in Procs : step'[q] \in Writing => q = p /\ d # <<>>
  BY <1>1, <1>2 DEF Writing, Storing
<1>5. KeysFirst'
  <2>1. Takes /\ Takes'
    BY <1>2 DEF StreamInv, KeysFirst, Takes
  <2>2. phase' \in {"create", "init"} => sentKeys' = "none"
    BY <1>2 DEF StreamInv, KeysFirst
  <2>3. QED
    BY <1>1, <1>4, <2>1, <2>2, Zenon DEF KeysFirst
<1>6. wire \in Seq(Unit) /\ part \in Seq(Unit) /\ part \o c \in Seq(Unit) /\ wire \o (part \o c) \in Seq(Unit)
  BY Joined DEF StreamInv, StreamType
<1>7. up => Good((wire \o part) \o todo[p], length)
  BY <1>2, Zenon DEF StreamInv, WholeInv
<1>8. Fine(wire', length')
  <2>1. CASE wire' = wire
    BY <1>2, <2>1, Zenon DEF StreamInv, WholeInv
  <2>2. CASE up /\ wire' = wire \o (part \o c)
    <3>1. (wire \o (part \o c)) \o d = (wire \o part) \o (c \o d)
      <4>1. wire \o (part \o c) = (wire \o part) \o c
        <5>1. wire \in Seq(Unit) /\ part \in Seq(Unit) /\ c \in Seq(Unit)
          BY <1>6
        <5>2. (wire \o part) \o c = wire \o (part \o c)
          BY <5>1, Regroup, ZenonT(30)
        <5>3. QED
          BY <5>2, Zenon
      <4>2. wire \o part \in Seq(Unit)
        BY <1>6, Joined
      <4>3. QED
        <5>1. c \in Seq(Unit) /\ d \in Seq(Unit)
          OBVIOUS
        <5>2. ((wire \o part) \o c) \o d = (wire \o part) \o (c \o d)
          BY <4>2, <5>1, Regroup, ZenonT(30)
        <5>3. QED
          BY <4>1, <5>2, Zenon
    <3>2. Fine((wire \o (part \o c)) \o d, length)
      BY <1>2, <1>7, <2>2, <3>1, Zenon DEF Good
    <3>3. Fine(wire \o (part \o c), length)
      BY <1>6, <3>2, FinePrefix, Zenon
    <3>4. QED
      BY <1>2, <2>2, <3>3, Zenon
  <2>3. QED
    BY <1>1, <2>1, <2>2
<1>9. up' => Good((wire' \o part') \o d, length')
  BY <1>1, <1>2, <1>7, Zenon
<1>10. ASSUME up', \A q \in Procs : step'[q] \notin Writing PROVE Good(wire' \o part', length')
  <2>1. d = <<>>
    BY <1>1, <1>2, <1>10, Zenon
  <2>2. wire' \o part' \in Seq(Unit)
    BY <1>1, Joined
  <2>3. (wire' \o part') \o <<>> = wire' \o part'
    BY <2>2, ConcatEmptySeq
  <2>4. QED
    BY <1>9, <1>10, <2>1, <2>3, Zenon
<1>11. \A q \in Procs : up' /\ step'[q] \in Writing => Good((wire' \o part') \o todo'[q], length')
  BY <1>1, <1>4, <1>9, Zenon
<1>12. WholeInv'
  BY <1>8, <1>10, <1>11, Zenon DEF WholeInv
<1>13. QED
  BY <1>3, <1>5, <1>12

\* The boundary is kept and the end of the packet is kept.
LEMMA StoreCounts ==
  ASSUME SessInv, StreamInv, NEW p \in Procs, NEW c \in Seq(Unit), NEW d \in Seq(Unit), Stores(p, c, d)
  PROVE  CountInv'
<1> SUFFICES ASSUME up', ~alone' PROVE Aligned' /\ EndsSent'
  BY DEF CountInv
<1> DEFINE k == packet[p]
           n == length[packet[p]]
<1>1. /\ up /\ wire' \o part' = wire \o (part \o c)
      /\ (wire' \o part') \o d = (wire \o part) \o todo[p]
      /\ part' \in Seq(Unit) /\ wire' \in Seq(Unit) /\ Len(part') < Sector
      /\ wire' = wire \/ wire' = wire \o (part \o c)
      /\ Len(part) + Len(todo[p]) = Sector => d = <<>> /\ part' = <<>>
      /\ step'[p] = IF d # <<>> THEN step[p] ELSE IF step[p] = "packet" THEN "pad" ELSE "leave"
      /\ todo'[p] = d
      /\ \A q \in Procs : q # p => step'[q] = step[q] /\ step[q] \notin Storing
  <2>1. Left(p, c, d) /\ up'
    BY StoreFacts
  <2>2. QED
    BY <2>1, Zenon DEF Left
<1>2. \E m \in {0, 1} : Len(part) + Len(todo[p]) = m * Sector + (Len(part') + Len(d))
  BY StoreFacts, Zenon DEF Left
<1>3. /\ step[p] \in Writing /\ todo[p] = c \o d /\ todo[p] # <<>>
      /\ counted' = IF step[p] = "packet" /\ d = <<>> THEN counted \cup {k} ELSE counted
      /\ packet' = packet /\ length' = length /\ ~alone
  BY DEF Stores, StreamInv, KeysFirst
<1>4. Aligned /\ EndsSent
  BY <1>1, <1>3 DEF StreamInv, CountInv
<1>5. /\ wire \in Seq(Unit) /\ part \in Seq(Unit) /\ part \o c \in Seq(Unit)
      /\ wire \o part \in Seq(Unit) /\ wire' \o part' \in Seq(Unit)
  BY <1>1, Joined DEF StreamInv, StreamType
<1>6. \A j, l : HasEnd(wire, j, l) => HasEnd(wire', j, l)
  BY <1>1, <1>5, EndStays, Zenon
<1>7. \A q \in Procs : step'[q] \in Storing => q = p
  BY <1>1, Zenon
<1>8. \A j \in counted : HasEnd(wire, j, length[j]) \/ (step[p] = "padding" /\ k = j)
  <2>1. \A q \in Procs : step[q] \in {"pad", "padding"} => q = p /\ step[p] = "padding"
    BY <1>1, <1>3 DEF Storing, Writing
  <2>2. QED
    BY <1>4, <2>1, Zenon DEF EndsSent
<1>9. Len(d) \in Nat /\ Len(part') \in Nat /\ Len(<<>>) = 0 /\ Sector \in Nat
  BY <1>1, LenProperties, PacketAssumption DEF PacketAssumption
<1>10. CASE step[p] = "packet"
  <2>1. \E q \in Nat : n = q * Sector + Len(part) + Len(todo[p])
    BY <1>4, <1>10, Zenon DEF Aligned
  <2>2. \E q \in Nat : n = q * Sector + Len(part') + Len(d)
    <3>1. PICK q \in Nat : n = q * Sector + Len(part) + Len(todo[p])
      BY <2>1
    <3>2. PICK m \in {0, 1} : Len(part) + Len(todo[p]) = m * Sector + (Len(part') + Len(d))
      BY <1>2
    <3>3. Len(part) \in Nat /\ Len(todo[p]) \in Nat
      BY LenProperties DEF StreamInv, StreamType
    <3>4. q + m \in Nat /\ n = (q + m) * Sector + Len(part') + Len(d)
      <4>1. /\ q + m \in Nat
            /\ q * Sector + Len(part) + Len(todo[p]) = (q + m) * Sector + Len(part') + Len(d)
        <5>1. PICK a \in Nat, b \in Nat, x \in Nat, y \in Nat, S \in Nat :
                a = Len(part) /\ b = Len(todo[p]) /\ x = Len(part') /\ y = Len(d) /\ S = Sector
          BY <1>9, <3>3
        <5>2. a + b = m * S + (x + y)
          BY <3>2, <5>1, Zenon
        <5>3. q + m \in Nat /\ q * S + a + b = (q + m) * S + x + y
          BY <5>2
        <5>4. QED
          BY <5>1, <5>3, Zenon
      <4>2. QED
        BY <3>1, <4>1, Zenon
    <3>5. QED
      BY <3>4, Zenon
  <2>3. todo[p][Len(todo[p])] = <<k, n>>
    BY <1>4, <1>10, Zenon DEF EndsSent
  <2>4. CASE d # <<>>
    <3>1. /\ \A q \in Procs : /\ step'[q] \in Storing <=> q = p
                              /\ step'[q] = "packet" <=> q = p
                              /\ step'[q] \notin {"pad", "padding"}
          /\ counted' = counted
      BY <1>1, <1>3, <1>7, <1>10, <2>4 DEF Storing
    <3>2. Aligned'
      <4>1. \A q \in Procs : step'[q] = "packet" =>
               \E j \in Nat : length'[packet'[q]] = j * Sector + Len(part') + Len(todo'[q])
        BY <1>1, <1>3, <2>2, <3>1, Zenon
      <4>2. \A q \in Procs : step'[q] # "pad" /\ step'[q] # "padding"
        BY <3>1
      <4>3. QED
        BY <3>1, <4>1, <4>2, Zenon DEF Aligned
    <3>3. d[Len(d)] = <<k, n>>
      <4>1. Len(d) # 0
        BY <2>4, NoUnits, Zenon
      <4>2. Len(d) \in 1 .. Len(d)
        BY <1>9, <4>1
      <4>3. (c \o d)[Len(c) + Len(d)] = d[Len(d)] /\ Len(c \o d) = Len(c) + Len(d)
        BY <4>2, Joined
      <4>4. QED
        BY <1>3, <2>3, <4>3, Zenon
    <3>4. EndsSent'
      <4>1. \A q \in Procs : step'[q] = "packet" =>
              todo'[q][Len(todo'[q])] = <<packet'[q], length'[packet'[q]]>>
        BY <1>1, <1>3, <3>1, <3>3, Zenon
      <4>2. \A j \in counted' : HasEnd(wire', j, length'[j])
        BY <1>3, <1>6, <1>8, <1>10, <3>1
      <4>3. QED
        BY <3>1, <4>1, <4>2, Zenon DEF EndsSent
    <3>5. QED
      BY <3>2, <3>4
  <2>5. CASE d = <<>>
    <3>1. /\ \A q \in Procs : /\ step'[q] \in Storing <=> q = p
                              /\ step'[q] = "pad" <=> q = p
                              /\ step'[q] # "packet" /\ step'[q] # "padding"
          /\ counted' = counted \cup {k} /\ Len(d) = 0
      BY <1>1, <1>3, <1>7, <1>9, <1>10, <2>5 DEF Storing
    <3>2. Aligned'
      <4>1. \E j \in Nat : n = j * Sector + Len(part')
        <5>1. PICK j \in Nat : n = j * Sector + Len(part') + Len(d)
          BY <2>2
        <5>2. n = j * Sector + Len(part')
          BY <1>9, <3>1, <5>1
        <5>3. QED
          BY <5>2, Zenon
      <4>2. \A q \in Procs : step'[q] = "pad" =>
               IF packet'[q] \in counted'
               THEN \E j \in Nat : length'[packet'[q]] = j * Sector + Len(part')
               ELSE part' = <<>>
        BY <1>3, <3>1, <4>1
      <4>3. QED
        BY <3>1, <4>2, Zenon DEF Aligned
    <3>3. HasEnd(wire' \o part', k, n)
      <4>1. (wire' \o part') \o <<>> = wire' \o part'
        BY <1>5, ConcatEmptySeq
      <4>2. todo[p] \in Seq(Unit)
        BY DEF StreamInv, StreamType
      <4>3. HasEnd((wire \o part) \o todo[p], k, n)
        BY <1>3, <1>5, <2>3, <4>2, EndStays, Zenon
      <4>4. QED
        BY <1>1, <2>5, <4>1, <4>3, Zenon
    <3>4. EndsSent'
      <4>1. \A q \in Procs : step'[q] \in {"pad", "padding"} => q = p
        BY <3>1
      <4>2. step'[p] \in {"pad", "padding"}
        BY <3>1
      <4>3. \A j \in counted' : HasEnd(wire', j, length'[j]) \/ j = k
        BY <1>3, <1>6, <1>8, <1>10, <3>1
      <4>4. \A q \in Procs : step'[q] \in {"pad", "padding"} /\ packet'[q] \in counted' =>
               HasEnd(wire' \o part', packet'[q], length'[packet'[q]])
        BY <1>3, <3>3, <4>1, Zenon
      <4>5. \A j \in counted' : \/ HasEnd(wire', j, length'[j])
                                \/ \E q \in Procs : step'[q] \in {"pad", "padding"} /\ packet'[q] = j
        BY <1>3, <4>2, <4>3, Zenon
      <4>6. QED
        BY <3>1, <4>4, <4>5, Zenon DEF EndsSent
    <3>5. QED
      BY <3>2, <3>4
  <2>6. QED
    BY <2>4, <2>5
<1>11. CASE step[p] = "padding"
  <2>1. d = <<>> /\ part' = <<>>
    BY <1>1, <1>4, <1>11, Zenon DEF Aligned
  <2>2. \A q \in Procs : step'[q] \notin Storing
    BY <1>1, <1>11, <2>1 DEF Storing
  <2>3. Aligned'
    <3>1. \A q \in Procs : step'[q] # "packet" /\ step'[q] # "pad" /\ step'[q] # "padding"
      BY <2>2 DEF Storing
    <3>2. QED
      BY <2>1, <3>1, Zenon DEF Aligned
  <2>4. wire' = (wire \o part) \o c
    <3>1. wire' \o <<>> = wire'
      BY <1>1, ConcatEmptySeq
    <3>2. (wire \o part) \o c = wire \o (part \o c)
      <4>1. wire \in Seq(Unit) /\ part \in Seq(Unit) /\ c \in Seq(Unit)
        BY <1>5
      <4>2. QED
        BY <4>1, Regroup, ZenonT(30)
    <3>3. QED
      BY <1>1, <2>1, <3>1, <3>2, Zenon
  <2>5. k \in counted => HasEnd(wire', k, n)
    <3>1. k \in counted => HasEnd(wire \o part, k, n)
      BY <1>4, <1>11 DEF EndsSent
    <3>2. QED
      BY <1>5, <2>4, <3>1, EndStays, Zenon
  <2>6. counted' = counted
    BY <1>3, <1>11
  <2>7. EndsSent'
    <3>1. \A q \in Procs : step'[q] # "packet" /\ step'[q] \notin {"pad", "padding"}
      BY <2>2 DEF Storing
    <3>2. \A j \in counted' : HasEnd(wire', j, length'[j])
      BY <1>3, <1>6, <1>8, <2>5, <2>6, Zenon
    <3>3. QED
      BY <3>1, <3>2, Zenon DEF EndsSent
  <2>8. QED
    BY <2>3, <2>7
<1>12. QED
  BY <1>3, <1>10, <1>11 DEF Writing

LEMMA StoreStream ==
  ASSUME SessInv, StreamInv, NEW p \in Procs, Store(p)
  PROVE  StreamInv'
<1>1. PICK c \in Seq(Unit), d \in Seq(Unit) : Stores(p, c, d)
  BY StoreParts DEF StreamInv
<1>2. QED
  BY <1>1, StoreWhole, StoreCounts DEF StreamInv

-----------------------------------------------------------------------------
(* The stream, in every state *)

LEMMA StreamStart == PacketInit => StreamInv
<1> SUFFICES ASSUME PacketInit PROVE StreamInv
  OBVIOUS
<1>1. /\ phase = "create" /\ sentKeys = "none" /\ socket = "open" /\ part = <<>> /\ wire = <<>>
      /\ step = [p \in Procs |-> "none"] /\ todo = [p \in Procs |-> <<>>]
      /\ packet = [p \in Procs |-> 0] /\ length = <<>> /\ counted = {} /\ alone = FALSE
  BY DEF PacketInit
<1>2. <<>> \in Seq(Unit) /\ <<>> \in Seq(1 .. MaxLength) /\ Len(<<>>) = 0 /\ Sector \in Nat \ {0}
  BY PacketAssumption DEF PacketAssumption
<1>3. \A p \in Procs : step[p] = "none" /\ step[p] \notin Storing /\ step[p] \notin Writing
  BY <1>1 DEF Storing, Writing
<1>4. StreamType
  <2>1. todo \in [Procs -> Seq(Unit)] /\ packet \in [Procs -> Nat]
    BY <1>1, <1>2
  <2>2. Len(part) < Sector
    BY <1>1, <1>2
  <2>3. QED
    BY <1>1, <1>2, <1>3, <2>1, <2>2 DEF StreamType, SocketStates
<1>5. KeysFirst
  BY <1>1, <1>3 DEF KeysFirst
<1>6. WholeInv
  <2>1. <<>> \o <<>> = <<>>
    BY <1>2, ConcatEmptySeq
  <2>2. Good(<<>>, length)
    <3>1. \A i \in 1 .. Len(<<>>) : <<>>[i] = Pad
      BY <1>2
    <3>2. QED
      BY <1>2, <3>1, PaddingGood, Zenon
  <2>3. QED
    BY <1>1, <1>3, <2>1, <2>2 DEF WholeInv, Good
<1>7. Aligned /\ EndsSent
  BY <1>1, <1>3 DEF Aligned, EndsSent, Storing
<1>8. QED
  BY <1>4, <1>5, <1>6, <1>7 DEF StreamInv, CountInv

LEMMA StreamStep ==
  ASSUME SessInv, StreamInv, [PacketNext]_<<vars, stream>>
  PROVE  StreamInv'
<1>1. ASSUME NEW p \in Procs, Sends(p) PROVE StreamInv'
  BY <1>1, QuietStream, LookStream, StoreStream, PadBeginsStream, PadNothingStream DEF Sends
<1>2. ASSUME NEW p \in Procs, Send(p) PROVE StreamInv'
  BY <1>2, SendStream
<1>3. CASE UNCHANGED <<vars, stream>>
  BY <1>3, SMTT(30) DEF stream, StreamInv, StreamType, up, KeysFirst, Takes, WholeInv, CountInv, Aligned, EndsSent
<1>4. QED
  BY <1>1, <1>2, <1>3, QuietStream DEF PacketNext

LEMMA StreamHolds == PacketSpec => [](SessInv /\ StreamInv)
<1>1. PacketInit => SessInv /\ StreamInv
  BY SessStart, StreamStart
<1>2. SessInv /\ StreamInv /\ [PacketNext]_<<vars, stream>> => (SessInv /\ StreamInv)'
  BY SessStep, StreamStep
<1>3. QED
  BY <1>1, <1>2, PTL DEF PacketSpec

\* Whatever the threads send, in whatever order they come, the sectors the peer gets
\* hold whole packets, each unit after the one before it; only the last may be cut off.
THEOREM PacketsAreWhole == PacketSpec => []PacketsWhole
<1>1. StreamInv => PacketsWhole
  <2> SUFFICES ASSUME StreamInv, NEW i \in 1 .. Len(wire) PROVE Follows(wire, i)
    BY DEF PacketsWhole
  <2>1. IF wire[i][2] > 1 THEN i > 1 /\ wire[i - 1] = <<wire[i][1], wire[i][2] - 1>>
                          ELSE Ends(wire, i - 1, length)
    BY DEF StreamInv, WholeInv, Fine
  <2>2. i - 1 > 0 <=> i > 1
    OBVIOUS
  <2>3. QED
    BY <2>1, <2>2, Zenon DEF Follows, Ends
<1>2. QED
  BY <1>1, StreamHolds, PTL

\* A packet counted as sent has left when the sender unlocks the mutex, while the
\* socket takes data and no padding has gone out alone.
THEOREM CountedAreSent == PacketSpec => []CountedIsSent
<1>1. StreamInv => CountedIsSent
  <2> SUFFICES ASSUME StreamInv, NEW k \in counted, up, ~alone,
                      \A p \in Procs : packet[p] = k => step[p] = "none"
               PROVE  \E i \in 1 .. Len(wire) : wire[i] = <<k, length[k]>>
    BY DEF CountedIsSent, up
  <2>1. EndsSent
    BY DEF StreamInv, CountInv
  <2>2. ~\E p \in Procs : step[p] \in {"pad", "padding"} /\ packet[p] = k
    OBVIOUS
  <2>3. QED
    BY <2>1, <2>2, Zenon DEF EndsSent, HasEnd
<1>2. QED
  BY <1>1, StreamHolds, PTL
=============================================================================
