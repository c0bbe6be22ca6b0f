-------------------------- MODULE PoolStreamProofs --------------------------
(***************************************************************************)
(* The numbers of the fields on the pool's connection: for any number of      *)
(* transfers, of starts, of messages and of fields in a block, however reads    *)
(* and writes are cut, the two ends agree on them until the agreement is given up.*)
(***************************************************************************)
EXTENDS PoolStream, SequenceTheorems, TLAPS

-----------------------------------------------------------------------------
(* Who is doing what *)

Alive(m) == pc[m] \notin {"off", "gone"}
Holding  == {"hello", "share", "write", "send"}

\* One miner thread lives at a time; it has a complete key, and the socket is its own.
OneThread ==
  /\ \A m, n \in Miners : Alive(m) /\ Alive(n) => m = n
  /\ \A m \in Miners : m > starts => pc[m] = "off"
  /\ starting => starts < MaxStarts
  /\ \A m \in Miners : Alive(m) => ~starting /\ key = "good"
  /\ \A m \in Miners : pc[m] \notin {"want", "send", "idle"}
  /\ \A x \in Xfers : pc[x] \in {"want", "send", "idle", "write"}

ItsSocket ==
  /\ \A m \in Miners : sock = m => Alive(m) /\ pc[m] # "connect"
  /\ \A m \in Miners : pc[m] \in {"hello", "write", "loop", "share"} => sock = m
  /\ \A m \in Miners : conn[m] \in {"open", "fin"} => sock = m

\* Before the connection there is nothing in either direction.
Fresh ==
  /\ \A m \in Miners : pc[m] \in {"off", "connect"} =>
       wire[m] = <<>> /\ feed[m] = <<>> /\ in[m] = <<>> /\ want[m] = 2 /\ sent[m] = <<>>
       /\ got[m] = <<>> /\ count[m] = 0
  /\ \A m \in Miners : pc[m] = "hello" => wire[m] = <<>>

OneMiner == OneThread /\ ItsSocket /\ Fresh

\* The mutex is held by the thread that sends, and there are fields left to write
\* exactly while it writes.
OneSender ==
  /\ \A t \in Threads : pc[t] \in Holding <=> owner = t
  /\ Sending # {} => sock # None
  /\ \A t \in Threads : pc[t] = "write" <=> out[t] # <<>>

-----------------------------------------------------------------------------
(* What the wallet sends *)

\* Fields that follow one another as OutAgrees says.
WellNumbered(s, c) ==
  \A i \in 1 .. Len(s) :
    /\ s[i].ctr = i - 1 /\ s[i].key = "good"
    /\ s[i].idx > 1 => i > 1 /\ s[i - 1].from = s[i].from /\ s[i - 1].idx = s[i].idx - 1
    /\ i <= BLOCK_FIELDS => s[i].from = c /\ s[i].idx = i

\* What is on its way, and what the sender has enciphered and not written yet.
Left      == IF owner = None THEN <<>> ELSE out[owner]
Stream(c) == wire[c] \o Left

OutInv ==
  /\ \A c \in Miners : WellNumbered(wire[c], c)
  /\ \A c \in Miners : conn[c] = "open" =>
       /\ WellNumbered(Stream(c), c)
       /\ Len(Stream(c)) = nout
       /\ IF pc[c] = "hello" THEN nout = 0 ELSE nout >= BLOCK_FIELDS

-----------------------------------------------------------------------------
(* What the pool sends *)

Kinds     == {"balance", "task", "rest"}
KindMaps  == [Nat -> Kinds]
LabelMaps == [Nat -> Nat]

\* The n fields of the messages S: field f is K[f] and belongs to message L[f].
History(S, n, K, L) ==
  /\ n = 0 => Len(S) = 0
  /\ n > 0 => L[0] = 1 /\ K[0] # "rest" /\ L[n - 1] = Len(S) /\ K[n - 1] # "task"
  /\ \A f \in 0 .. n - 1 : L[f] \in 1 .. Len(S) /\ (S[L[f]] = "balance" <=> K[f] = "balance")
  /\ \A f \in 0 .. n - 1 : f + 1 < n =>
       IF K[f] = "task" THEN L[f + 1] = L[f] /\ K[f + 1] = "rest"
                        ELSE L[f + 1] = L[f] + 1 /\ K[f + 1] # "rest"

\* The halves P are those of the fields b .. n - 1.
HalfOf(f, p, K) == [num |-> f, part |-> p, of |-> K[f]]
Placed(P, b, n, K) ==
  /\ b <= n /\ Len(P) = 2 * (n - b)
  /\ \A f \in b .. n - 1 : /\ P[2 * (f - b) + 1] = HalfOf(f, 1, K)
                           /\ P[2 * (f - b) + 2] = HalfOf(f, 2, K)

\* Field b begins the message after the first g, if there is one.
Begins(b, n, g, S, K, L) ==
  IF b = n THEN g = Len(S) ELSE L[b] = g + 1 /\ K[b] # "rest"

Pending(c) == in[c] \o feed[c]
\* The number of the first field that is pending.
Base(c) == IF want[c] = 4 THEN nin - 1 ELSE nin

\* G is what the wallet took for the messages S so far.
TakenOf(G, S) == Len(G) <= Len(S) /\ \A i \in 1 .. Len(G) : G[i] = S[i]

\* What is pending begins at field b with the first message that was not taken.
Place(S, n, G, P, b, K, L) ==
  History(S, n, K, L) /\ b \in Nat /\ Placed(P, b, n, K) /\ Begins(b, n, Len(G), S, K, L)

Position(c, K, L) ==
  /\ Place(sent[c], count[c], got[c], Pending(c), Base(c), K, L)
  /\ want[c] = 4 => clear[c] /\ Len(in[c]) >= 2 /\ K[Base(c)] = "task"

InInv ==
  /\ \A c \in Miners : TakenOf(got[c], sent[c])
  /\ \A c \in Miners : conn[c] \in {"open", "fin"} =>
       \E K \in KindMaps : \E L \in LabelMaps : Position(c, K, L)

Control   == TypeOK /\ OneMiner /\ OneSender

-----------------------------------------------------------------------------
LEMMA Sets ==
  /\ Miners \subseteq Nat /\ Miners \subseteq Threads /\ Xfers \subseteq Threads
  /\ Threads = Xfers \cup Miners /\ Xfers \cap Miners = {} /\ None \notin Threads
  /\ BLOCK_FIELDS \in Nat /\ BLOCK_FIELDS >= 2 /\ MaxStarts \in Nat
  /\ \A i \in Nat : i \in Miners <=> i >= 1 /\ i <= MaxStarts
BY StreamAssumption DEF Miners, Threads

\* TypeOK, by the parts that the steps change together.
TypeControl ==
  /\ pc \in [Threads -> {"off", "connect", "hello", "write", "loop", "share", "exit",
                         "closing", "gone", "idle", "want", "send"}]
  /\ starts \in 0 .. MaxStarts /\ starting \in BOOLEAN
  /\ owner \in Threads \cup {None} /\ sock \in Miners \cup {None}
  /\ key \in {"none", "raw", "good"} /\ nin \in Nat /\ nout \in Nat
  /\ disturbed \in BOOLEAN
TypeReading ==
  /\ in \in [Miners -> Seq(Half)] /\ want \in [Miners -> {2, 4}]
  /\ \A m \in Miners : Len(in[m]) < want[m]
  /\ clear \in [Miners -> BOOLEAN] /\ due \in [Miners -> BOOLEAN]
  /\ got \in [Miners -> Seq(Message \cup {"junk"})]
TypePool ==
  /\ feed \in [Miners -> Seq(Half)] /\ sent \in [Miners -> Seq(Message)]
  /\ count \in [Miners -> Nat]
TypeOut  == out \in [Threads -> Seq(Field)]
TypeWire == wire \in [Miners -> Seq(Field)]
TypeConn == conn \in [Miners -> {"none", "open", "fin", "reset"}]

LEMMA TypeParts ==
  TypeOK <=> TypeControl /\ TypeReading /\ TypePool /\ TypeOut /\ TypeWire /\ TypeConn
BY DEF TypeOK, TypeControl, TypeReading, TypePool, TypeOut, TypeWire, TypeConn

LEMMA TypePartsNext ==
  TypeOK' <=> TypeControl' /\ TypeReading' /\ TypePool' /\ TypeOut' /\ TypeWire' /\ TypeConn'
BY DEF TypeOK, TypeControl, TypeReading, TypePool, TypeOut, TypeWire, TypeConn

\* What a step leaves alone keeps its type.
LEMMA TypeFrame ==
  /\ UNCHANGED reading => (TypeReading <=> TypeReading')
  /\ UNCHANGED pool    => (TypePool <=> TypePool')
  /\ UNCHANGED out     => (TypeOut <=> TypeOut')
  /\ UNCHANGED wire    => (TypeWire <=> TypeWire')
  /\ UNCHANGED conn    => (TypeConn <=> TypeConn')
BY DEF TypeReading, TypePool, TypeOut, TypeWire, TypeConn, reading, pool

-----------------------------------------------------------------------------
(* The threads, one at a time *)

\* crypt_start runs when no miner thread lives, or the agreement is given up.
LEMMA StartCryptControl ==
  ASSUME Control, ~disturbed, StartCrypt
  PROVE  TypeOK' /\ (~disturbed' => OneMiner' /\ OneSender')
<1> USE Sets DEF Control
<1>1. TypeOK'
  <2>1. TypeControl'
    BY TypeParts DEF TypeControl, StartCrypt, Disturb
  <2>2. QED
    BY <2>1, TypeParts, TypePartsNext, TypeFrame DEF StartCrypt
<1>2. ASSUME ~disturbed' PROVE OneMiner'
  <2>1. OneThread'
    BY <1>2, TypeParts DEF TypeControl, OneMiner, OneThread, Alive, StartCrypt, Disturb
  <2>2. ItsSocket'
    BY DEF OneMiner, ItsSocket, Alive, StartCrypt
  <2>3. Fresh'
    BY DEF OneMiner, Fresh, StartCrypt, reading, pool
  <2>4. QED
    BY <2>1, <2>2, <2>3 DEF OneMiner
<1>3. OneSender'
  BY DEF OneSender, StartCrypt, Sending
<1>4. QED
  BY <1>1, <1>2, <1>3

LEMMA StartThreadControl ==
  ASSUME Control, ~disturbed, StartThread
  PROVE  TypeOK' /\ OneMiner' /\ OneSender'
<1> USE Sets DEF Control
<1> DEFINE m == starts + 1
<1>1. /\ m \in Miners /\ m \in Threads /\ starts \in 0 .. MaxStarts /\ m \in 0 .. MaxStarts
      /\ m = starts + 1 /\ pc[m] = "off" /\ starting /\ \A n \in Miners : ~Alive(n)
      /\ pc' = [pc EXCEPT ![m] = "connect"] /\ starts' = m /\ key' = "good"
      /\ starting' = FALSE /\ nin' = 0 /\ nout' = 0
      /\ UNCHANGED <<owner, sock, out, reading, conn, wire, pool, disturbed>>
  BY TypeParts DEF TypeControl, OneMiner, OneThread, Alive, StartThread, Goto
<1> HIDE DEF m
<1>2. TypeOK'
  <2>1. TypeControl'
    BY <1>1, TypeParts DEF TypeControl
  <2>2. QED
    BY <1>1, <2>1, TypeParts, TypePartsNext, TypeFrame
<1>3. OneMiner'
  <2>1. OneThread'
    BY <1>1, TypeParts DEF TypeControl, OneMiner, OneThread, Alive
  <2>2. ItsSocket'
    BY <1>1, TypeParts DEF TypeControl, OneMiner, OneThread, ItsSocket, Alive
  <2>3. Fresh'
    BY <1>1, TypeParts DEF TypeControl, OneMiner, Fresh, reading, pool
  <2>4. QED
    BY <2>1, <2>2, <2>3 DEF OneMiner
<1>4. OneSender'
  BY <1>1, TypeParts DEF TypeControl, OneSender, Sending, Holding
<1>5. QED
  BY <1>2, <1>3, <1>4

\* A transfer takes the mutex only with a socket.
LEMMA XferStartControl ==
  ASSUME Control, NEW x \in Xfers, XferStart(x)
  PROVE  TypeOK' /\ OneMiner' /\ OneSender'
<1> USE Sets DEF Control
<1>1. /\ pc[x] = "idle" /\ pc' = [pc EXCEPT ![x] = "want"]
      /\ UNCHANGED <<starts, starting, shared, out, reading, conn, wire, pool, disturbed>>
  BY DEF XferStart, Goto
<1>2. TypeOK'
  <2>1. TypeControl'
    BY <1>1, TypeParts DEF TypeControl, shared
  <2>2. QED
    BY <1>1, <2>1, TypeParts, TypePartsNext, TypeFrame
<1>3. OneMiner'
  <2>1. OneThread'
    BY <1>1, TypeParts DEF TypeControl, OneMiner, OneThread, Alive, shared
  <2>2. ItsSocket'
    BY <1>1, TypeParts DEF TypeControl, OneMiner, ItsSocket, Alive, shared
  <2>3. Fresh'
    BY <1>1, TypeParts DEF TypeControl, OneMiner, Fresh, shared, reading, pool
  <2>4. QED
    BY <2>1, <2>2, <2>3 DEF OneMiner
<1>4. OneSender'
  BY <1>1, TypeParts DEF TypeControl, OneSender, Sending, Holding, shared
<1>5. QED
  BY <1>2, <1>3, <1>4

LEMMA XferLockControl ==
  ASSUME Control, NEW x \in Xfers, XferLock(x)
  PROVE  TypeOK' /\ OneMiner' /\ OneSender'
<1> USE Sets DEF Control
<1>1. /\ pc[x] = "want" /\ owner = None
      /\ \/ sock = None /\ owner' = None /\ pc' = [pc EXCEPT ![x] = "idle"]
         \/ sock # None /\ owner' = x /\ pc' = [pc EXCEPT ![x] = "send"]
      /\ UNCHANGED <<starts, starting, sock, key, nin, nout, out, reading, conn, wire, pool,
                     disturbed>>
  BY DEF XferLock, Lock, Goto
<1>2. TypeOK'
  <2>1. TypeControl'
    BY <1>1, TypeParts DEF TypeControl
  <2>2. QED
    BY <1>1, <2>1, TypeParts, TypePartsNext, TypeFrame
<1>3. OneMiner'
  <2>1. OneThread'
    BY <1>1, TypeParts DEF TypeControl, OneMiner, OneThread, Alive
  <2>2. ItsSocket'
    BY <1>1, TypeParts DEF TypeControl, OneMiner, ItsSocket, Alive
  <2>3. Fresh'
    BY <1>1, TypeParts DEF TypeControl, OneMiner, Fresh, reading, pool
  <2>4. QED
    BY <2>1, <2>2, <2>3 DEF OneMiner
<1>4. OneSender'
  BY <1>1, TypeParts DEF TypeControl, OneSender, Sending, Holding
<1>5. QED
  BY <1>2, <1>3, <1>4

-----------------------------------------------------------------------------
(* Sending *)

\* What send_to_pool enciphers is a sequence of n fields, numbered from nout.
Enciphered(t, n) ==
  [i \in 1 .. n |-> [ctr |-> nout + i - 1, key |-> key, from |-> t, idx |-> i]]

LEMMA EncipheredFields ==
  ASSUME TypeOK, NEW t \in Threads, NEW n \in 1 .. BLOCK_FIELDS, key # "none"
  PROVE  /\ Enciphered(t, n) \in Seq(Field) /\ Len(Enciphered(t, n)) = n
         /\ Enciphered(t, n) # <<>>
<1> USE Sets
<1>1. \A i \in 1 .. n : [ctr |-> nout + i - 1, key |-> key, from |-> t, idx |-> i] \in Field
  <2>1. nout \in Nat /\ key \in {"raw", "good"}
    BY TypeParts DEF TypeControl
  <2>2. \A i \in 1 .. n : nout + i - 1 \in Nat /\ i \in 1 .. BLOCK_FIELDS
    BY <2>1
  <2>3. QED
    BY <2>1, <2>2 DEF Field
<1>2. Enciphered(t, n) \in Seq(Field) /\ Len(Enciphered(t, n)) = n
  BY <1>1 DEF Enciphered
<1>3. QED
  BY <1>2, EmptySeq

\* The thread that enciphers holds the mutex, and goes on to write.
LEMMA EncipherControl ==
  ASSUME Control, NEW t \in Threads, NEW n \in 1 .. BLOCK_FIELDS,
         pc[t] \in {"hello", "share", "send"}, Encipher(t, n)
  PROVE  TypeOK' /\ OneMiner' /\ OneSender'
<1> USE Sets DEF Control
<1>1. /\ out' = [out EXCEPT ![t] = Enciphered(t, n)] /\ nout' = nout + n
      /\ pc' = [pc EXCEPT ![t] = "write"]
      /\ UNCHANGED <<starts, starting, owner, sock, key, nin, reading, conn, wire, pool,
                     disturbed>>
  BY DEF Encipher, Enciphered, Goto
<1>2. /\ Enciphered(t, n) \in Seq(Field) /\ Enciphered(t, n) # <<>>
  BY EncipheredFields DEF Encipher
<1> HIDE DEF Enciphered
<1>3. TypeOK'
  <2>1. TypeControl'
    BY <1>1, TypeParts DEF TypeControl
  <2>2. TypeOut'
    BY <1>1, <1>2, TypeParts DEF TypeOut
  <2>3. QED
    BY <1>1, <2>1, <2>2, TypeParts, TypePartsNext, TypeFrame
<1>4. OneMiner'
  <2>1. OneThread'
    BY <1>1, TypeParts DEF TypeControl, OneMiner, OneThread, Alive
  <2>2. ItsSocket'
    BY <1>1, TypeParts DEF TypeControl, OneMiner, OneThread, ItsSocket, Alive
  <2>3. Fresh'
    BY <1>1, TypeParts DEF TypeControl, OneMiner, Fresh, reading, pool
  <2>4. QED
    BY <2>1, <2>2, <2>3 DEF OneMiner
<1>5. OneSender'
  <2>1. pc[t] # "write" /\ owner = t
    BY DEF OneSender, Holding
  <2>2. \A u \in Threads : pc'[u] \in Holding <=> owner' = u
    BY <1>1, <2>1, TypeParts DEF TypeControl, OneSender, Holding
  <2>3. Sending' # {} => sock' # None
    BY <1>1, TypeParts DEF TypeControl, OneMiner, OneThread, ItsSocket, OneSender, Sending
  <2>4. \A u \in Threads : pc'[u] = "write" <=> out'[u] # <<>>
    BY <1>1, <1>2, TypeParts DEF TypeControl, TypeOut, OneSender
  <2>5. QED
    BY <2>2, <2>3, <2>4 DEF OneSender, Holding
<1>6. QED
  BY <1>3, <1>4, <1>5

LEMMA Updated ==
  ASSUME NEW A, NEW B, NEW f \in [A -> B], NEW a \in A, NEW b \in B
  PROVE  [f EXCEPT ![a] = b] \in [A -> B]
OBVIOUS

LEMMA Associates ==
  ASSUME NEW S PROVE \A u, v, w \in Seq(S) : (u \o v) \o w = u \o (v \o w)
<1> TAKE u, v, w \in Seq(S)
<1> QED
  BY ConcatAssociative, SMTT(30)

\* A sequence cut after k elements: what a write or a read takes, and what is left.
LEMMA Cut ==
  ASSUME NEW S, NEW s \in Seq(S), NEW k \in 1 .. Len(s)
  PROVE  /\ SubSeq(s, 1, k) \in Seq(S) /\ Len(SubSeq(s, 1, k)) = k
         /\ SubSeq(s, k + 1, Len(s)) \in Seq(S) /\ Len(SubSeq(s, k + 1, Len(s))) = Len(s) - k
         /\ SubSeq(s, 1, k) \o SubSeq(s, k + 1, Len(s)) = s
         /\ SubSeq(s, k + 1, Len(s)) = <<>> <=> k = Len(s)
<1>1. \A i \in 1 .. Len(s) : s[i] \in S
  BY ElementOfSeq
<1>2. SubSeq(s, 1, k) \in Seq(S) /\ Len(SubSeq(s, 1, k)) = k
  BY <1>1, SubSeqProperties
<1>3. SubSeq(s, k + 1, Len(s)) \in Seq(S) /\ Len(SubSeq(s, k + 1, Len(s))) = Len(s) - k
  <2>1. /\ \A i \in k + 1 .. Len(s) : s[i] \in S
        /\ k + 1 \in Int /\ Len(s) \in Int
    BY <1>1
  <2>2. /\ SubSeq(s, k + 1, Len(s)) \in Seq(S)
        /\ Len(SubSeq(s, k + 1, Len(s))) = IF k + 1 <= Len(s) THEN Len(s) - (k + 1) + 1 ELSE 0
    BY <2>1, SubSeqProperties
  <2>3. QED
    BY <2>2
<1>4. SubSeq(s, 1, k) \o SubSeq(s, k + 1, Len(s)) = s
  <2>1. SubSeq(s, 1, k) \o SubSeq(s, k + 1, Len(s)) = SubSeq(s, 1, Len(s))
    BY ConcatAdjacentSubSeq
  <2>2. QED
    BY <2>1, SubSeqFull
<1>5. SubSeq(s, k + 1, Len(s)) = <<>> <=> k = Len(s)
  <2> DEFINE u == SubSeq(s, k + 1, Len(s))
  <2>1. u \in Seq(S) /\ Len(u) = Len(s) - k /\ Len(s) \in Nat
    BY <1>3, LenProperties
  <2> HIDE DEF u
  <2>2. u = <<>> <=> Len(u) = 0
    BY <2>1, EmptySeq
  <2>3. u = <<>> <=> k = Len(s)
    BY <2>1, <2>2
  <2>4. QED
    BY <2>3 DEF u
<1>6. QED
  BY <1>2, <1>3, <1>4, <1>5

\* A write of k fields: the last one releases the mutex.
LEMMA WriteControl ==
  ASSUME Control, NEW t \in Threads, Write(t)
  PROVE  TypeOK' /\ OneMiner' /\ OneSender'
<1> USE Sets DEF Control
<1>1. /\ pc[t] = "write" /\ sock \in Miners /\ conn[sock] \in {"open", "fin"}
      /\ owner = t /\ out[t] \in Seq(Field)
      /\ t \in Miners => t = sock
  <2>1. pc[t] = "write" /\ sock # None /\ conn[sock] \in {"open", "fin"}
    BY DEF Write
  <2>2. sock \in Miners /\ out[t] \in Seq(Field)
    BY <2>1, TypeParts DEF TypeControl, TypeOut
  <2>3. owner = t
    BY <2>1 DEF OneSender, Holding
  <2>4. t \in Miners => t = sock
    BY <2>1 DEF OneMiner, ItsSocket
  <2>5. QED
    BY <2>1, <2>2, <2>3, <2>4
<1>2. PICK k \in 1 .. Len(out[t]) :
        /\ out' = [out EXCEPT ![t] = SubSeq(out[t], k + 1, Len(out[t]))]
        /\ wire' = IF conn[sock] = "open"
                   THEN [wire EXCEPT ![sock] = wire[sock] \o SubSeq(out[t], 1, k)] ELSE wire
        /\ conn' = IF conn[sock] = "fin" THEN [conn EXCEPT ![sock] = "reset"] ELSE conn
        /\ \/ /\ k = Len(out[t]) /\ pc' = [pc EXCEPT ![t] = AfterWrite(t)] /\ owner' = None
           \/ k # Len(out[t]) /\ UNCHANGED <<pc, owner>>
  BY DEF Write, Goto
<1> DEFINE first == SubSeq(out[t], 1, k)
           rest  == SubSeq(out[t], k + 1, Len(out[t]))
<1>3. UNCHANGED <<starts, starting, sock, key, nin, nout, reading, pool, disturbed>>
  BY DEF Write
<1>4. /\ first \in Seq(Field) /\ rest \in Seq(Field)
      /\ rest = <<>> <=> k = Len(out[t])
  BY <1>1, <1>2, Cut
<1> HIDE DEF first, rest
<1>5. /\ out' = [out EXCEPT ![t] = rest]
      /\ wire' = IF conn[sock] = "open" THEN [wire EXCEPT ![sock] = wire[sock] \o first] ELSE wire
  BY <1>2 DEF first, rest
<1>6. AfterWrite(t) = IF t \in Miners THEN "loop" ELSE "idle"
  BY DEF AfterWrite
<1>7. TypeOK'
  <2>1. TypeControl'
    BY <1>1, <1>2, <1>3, <1>6, TypeParts DEF TypeControl
  <2>2. TypeOut'
    BY <1>1, <1>4, <1>5, TypeParts DEF TypeOut
  <2>3. TypeWire'
    <3>1. wire[sock] \o first \in Seq(Field)
      BY <1>1, <1>4, ConcatProperties, TypeParts DEF TypeWire
    <3>2. QED
      BY <1>1, <1>5, <3>1, TypeParts DEF TypeWire
  <2>4. TypeConn'
    BY <1>2, TypeParts DEF TypeConn
  <2>5. TypeReading' /\ TypePool'
    BY <1>3, TypeParts, TypeFrame
  <2> HIDE Sets DEF Control
  <2>6. QED
    BY <2>1, <2>2, <2>3, <2>4, <2>5, TypePartsNext, Zenon
<1>8. OneMiner'
  <2>1. OneThread'
    <3>1. \A q \in Threads : pc'[q] = pc[q] \/ (q = t /\ pc'[q] = AfterWrite(t))
      BY <1>2, TypeParts DEF TypeControl
    <3>2. \A m \in Miners : /\ Alive(m)' => Alive(m)
                            /\ pc[m] = "off" => pc'[m] = "off"
                            /\ pc'[m] \in {pc[m], "loop"}
      BY <1>1, <1>6, <3>1 DEF Alive
    <3>3. \A x \in Xfers : pc'[x] \in {pc[x], "idle"}
      BY <1>6, <3>1
    <3>4. OneThread
      BY DEF OneMiner
    <3> HIDE Sets DEF Control
    <3>5. QED
      BY <1>3, <3>2, <3>3, <3>4 DEF OneThread
  <2>2. ItsSocket'
    <3>1. \A m \in Miners : sock' = m => Alive(m)' /\ pc'[m] # "connect"
      BY <1>1, <1>2, <1>3, <1>6, TypeParts DEF TypeControl, OneMiner, ItsSocket, Alive
    <3>2. \A m \in Miners : pc'[m] \in {"hello", "write", "loop", "share"} => sock' = m
      BY <1>1, <1>2, <1>3, <1>6, TypeParts DEF TypeControl, OneMiner, ItsSocket
    <3>3. \A m \in Miners : conn'[m] \in {"open", "fin"} => sock' = m
      BY <1>1, <1>2, <1>3, TypeParts DEF TypeConn, OneMiner, ItsSocket
    <3>4. QED
      BY <3>1, <3>2, <3>3 DEF ItsSocket
  <2>3. Fresh'
    <3>1. pc[sock] \notin {"off", "connect", "hello"}
      BY <1>1 DEF OneMiner, ItsSocket, Alive, OneSender, Holding
    <3>2. \A m \in Miners : pc'[m] \in {"off", "connect", "hello"} =>
            m # sock /\ pc'[m] = pc[m] /\ wire'[m] = wire[m]
      BY <1>1, <1>2, <1>5, <1>6, <3>1, TypeParts DEF TypeControl, TypeWire
    <3>3. QED
      BY <1>3, <3>2 DEF OneMiner, Fresh, reading, pool
  <2>4. QED
    BY <2>1, <2>2, <2>3 DEF OneMiner
<1>9. OneSender'
  <2>1. \A u \in Threads : pc'[u] \in Holding <=> owner' = u
    BY <1>1, <1>2, <1>6, TypeParts DEF TypeControl, OneSender, Holding
  <2>2. sock' # None
    BY <1>1, <1>3
  <2>3. ASSUME NEW u \in Threads PROVE pc'[u] = "write" <=> out'[u] # <<>>
    <3>1. CASE u = t
      <4>1. out'[t] = rest
        BY <1>5, TypeParts DEF TypeOut
      <4>2. pc'[t] = "write" <=> k # Len(out[t])
        BY <1>1, <1>2, <1>6, TypeParts DEF TypeControl
      <4>3. QED
        BY <1>4, <3>1, <4>1, <4>2
    <3>2. CASE u # t
      <4>1. out'[u] = out[u] /\ pc'[u] = pc[u]
        BY <1>2, <1>5, <3>2, TypeParts DEF TypeOut, TypeControl
      <4>2. QED
        BY <4>1 DEF OneSender
    <3>3. QED
      BY <3>1, <3>2
  <2>4. QED
    BY <2>1, <2>2, <2>3 DEF OneSender, Holding
<1>10. QED
  BY <1>7, <1>8, <1>9

\* A write that fails releases the mutex, and drops what was left.
LEMMA WriteFailsControl ==
  ASSUME Control, NEW t \in Threads, WriteFails(t)
  PROVE  TypeOK' /\ OneMiner' /\ OneSender'
<1> USE Sets DEF Control
<1>1. /\ pc[t] = "write" /\ sock # None
      /\ pc' = [pc EXCEPT ![t] = IF t \in Miners THEN "exit" ELSE "idle"]
      /\ owner' = None /\ out' = [out EXCEPT ![t] = <<>>]
      /\ UNCHANGED <<starts, starting, sock, key, nin, nout, reading, conn, wire, pool, disturbed>>
  BY DEF WriteFails, Goto
<1>2. owner = t
  BY <1>1 DEF OneSender, Holding
<1>3. TypeOK'
  <2>1. TypeControl'
    BY <1>1, TypeParts DEF TypeControl
  <2>2. TypeOut'
    BY <1>1, EmptySeq, TypeParts DEF TypeOut
  <2>3. QED
    BY <1>1, <2>1, <2>2, TypeParts, TypePartsNext, TypeFrame
<1>4. OneMiner'
  <2>1. OneThread'
    BY <1>1, TypeParts DEF TypeControl, OneMiner, OneThread, Alive
  <2>2. ItsSocket'
    BY <1>1, TypeParts DEF TypeControl, OneMiner, ItsSocket, Alive
  <2>3. Fresh'
    BY <1>1, TypeParts DEF TypeControl, OneMiner, Fresh, reading, pool
  <2>4. QED
    BY <2>1, <2>2, <2>3 DEF OneMiner
<1>5. OneSender'
  <2>1. \A u \in Threads : pc'[u] \in Holding <=> owner' = u
    BY <1>1, <1>2, TypeParts DEF TypeControl, OneSender, Holding
  <2>2. \A u \in Threads : pc'[u] = "write" <=> out'[u] # <<>>
    BY <1>1, TypeParts DEF TypeControl, TypeOut, OneSender
  <2>3. QED
    BY <1>1, <2>1, <2>2 DEF OneSender, Holding
<1>6. QED
  BY <1>3, <1>4, <1>5

-----------------------------------------------------------------------------
(* The miner thread *)

\* The connection is opened under the mutex, by the only thread there is.
LEMMA MinerConnectControl ==
  ASSUME Control, NEW m \in Miners, MinerConnect(m)
  PROVE  TypeOK' /\ OneMiner' /\ OneSender'
<1> USE Sets DEF Control
<1>1. /\ pc[m] = "connect" /\ owner = None /\ owner' = m /\ sock' = m
      /\ nin' = 0 /\ nout' = 0 /\ conn' = [conn EXCEPT ![m] = "open"]
      /\ pc' = [pc EXCEPT ![m] = "hello"]
      /\ UNCHANGED <<starts, starting, key, out, reading, wire, pool, disturbed>>
  BY DEF MinerConnect, Lock, Goto
<1>2. TypeOK'
  <2>1. TypeControl'
    BY <1>1, TypeParts DEF TypeControl
  <2>2. TypeConn'
    BY <1>1, TypeParts DEF TypeConn
  <2>3. QED
    BY <1>1, <2>1, <2>2, TypeParts, TypePartsNext, TypeFrame
<1>3. OneMiner'
  <2>1. OneThread'
    BY <1>1, TypeParts DEF TypeControl, OneMiner, OneThread, Alive
  <2>2. ItsSocket'
    <3>1. \A n \in Miners : n # m => pc[n] \in {"off", "gone"} /\ conn[n] \notin {"open", "fin"}
      BY <1>1, TypeParts DEF TypeControl, OneMiner, OneThread, ItsSocket, Alive
    <3>2. QED
      BY <1>1, <3>1, TypeParts DEF TypeControl, TypeConn, ItsSocket, Alive
  <2>3. Fresh'
    BY <1>1, TypeParts DEF TypeControl, OneMiner, Fresh, reading, pool
  <2>4. QED
    BY <2>1, <2>2, <2>3 DEF OneMiner
<1>4. OneSender'
  <2>1. \A u \in Threads : pc'[u] \in Holding <=> owner' = u
    BY <1>1, TypeParts DEF TypeControl, OneSender, Holding
  <2>2. \A u \in Threads : pc'[u] = "write" <=> out'[u] # <<>>
    BY <1>1, TypeParts DEF TypeControl, OneSender
  <2>3. QED
    BY <1>1, <2>1, <2>2 DEF OneSender, Holding
<1>5. QED
  BY <1>2, <1>3, <1>4

LEMMA MinerRefusedControl ==
  ASSUME Control, NEW m \in Miners, MinerRefused(m)
  PROVE  TypeOK' /\ OneMiner' /\ OneSender'
<1> USE Sets DEF Control
<1>1. /\ pc[m] = "connect" /\ owner = None /\ nin' = 0 /\ nout' = 0
      /\ pc' = [pc EXCEPT ![m] = "exit"]
      /\ \/ UNCHANGED <<sock, conn>>
         \/ sock' = m /\ conn' = [conn EXCEPT ![m] = "reset"]
      /\ UNCHANGED <<starts, starting, owner, key, out, reading, wire, pool, disturbed>>
  BY DEF MinerRefused, Goto
<1>2. TypeOK'
  <2>1. TypeControl'
    BY <1>1, TypeParts DEF TypeControl
  <2>2. TypeConn'
    BY <1>1, TypeParts DEF TypeConn
  <2>3. QED
    BY <1>1, <2>1, <2>2, TypeParts, TypePartsNext, TypeFrame
<1>3. OneMiner'
  <2>1. OneThread'
    BY <1>1, TypeParts DEF TypeControl, OneMiner, OneThread, Alive
  <2>2. ItsSocket'
    <3>1. \A n \in Miners : n # m => pc[n] \in {"off", "gone"}
      BY <1>1, TypeParts DEF TypeControl, OneMiner, OneThread, Alive
    <3>2. \A n \in Miners : conn[n] \notin {"open", "fin"} /\ sock # n
      BY <1>1, <3>1 DEF OneMiner, ItsSocket, Alive
    <3>3. QED
      BY <1>1, <3>1, <3>2, TypeParts DEF TypeControl, TypeConn, ItsSocket, Alive
  <2>3. Fresh'
    BY <1>1, TypeParts DEF TypeControl, OneMiner, Fresh, reading, pool
  <2>4. QED
    BY <2>1, <2>2, <2>3 DEF OneMiner
<1>4. OneSender'
  <2>1. \A u \in Threads : pc'[u] \in Holding <=> owner' = u
    BY <1>1, TypeParts DEF TypeControl, OneSender, Holding
  <2>2. \A u \in Threads : pc'[u] = "write" <=> out'[u] # <<>>
    BY <1>1, TypeParts DEF TypeControl, OneSender
  <2>3. Sending' = Sending
    BY <1>1, TypeParts DEF TypeControl, Sending
  <2>4. QED
    BY <1>1, <2>1, <2>2, <2>3 DEF OneSender, Holding
<1>5. QED
  BY <1>2, <1>3, <1>4

\* A share is sent with the mutex kept.
LEMMA MinerDueControl ==
  ASSUME Control, NEW m \in Miners, MinerDue(m)
  PROVE  TypeOK' /\ OneMiner' /\ OneSender'
<1> USE Sets DEF Control
<1>1. /\ pc[m] = "loop" /\ owner = None /\ owner' = m /\ sock # None
      /\ pc' = [pc EXCEPT ![m] = "share"] /\ due' = [due EXCEPT ![m] = FALSE]
      /\ UNCHANGED <<starts, starting, sock, key, nin, nout, out, in, want, clear, got, conn,
                     wire, pool, disturbed>>
  BY DEF MinerDue, Lock, Goto
<1>2. TypeOK'
  <2>1. TypeControl'
    BY <1>1, TypeParts DEF TypeControl
  <2>2. TypeReading'
    BY <1>1, TypeParts DEF TypeReading
  <2>3. QED
    BY <1>1, <2>1, <2>2, TypeParts, TypePartsNext, TypeFrame
<1>3. OneMiner'
  <2>1. OneThread'
    BY <1>1, TypeParts DEF TypeControl, OneMiner, OneThread, Alive
  <2>2. ItsSocket'
    BY <1>1, TypeParts DEF TypeControl, OneMiner, ItsSocket, Alive
  <2>3. Fresh'
    BY <1>1, TypeParts DEF TypeControl, OneMiner, Fresh, pool
  <2>4. QED
    BY <2>1, <2>2, <2>3 DEF OneMiner
<1>4. OneSender'
  <2>1. \A u \in Threads : pc'[u] \in Holding <=> owner' = u
    BY <1>1, TypeParts DEF TypeControl, OneSender, Holding
  <2>2. \A u \in Threads : pc'[u] = "write" <=> out'[u] # <<>>
    BY <1>1, TypeParts DEF TypeControl, OneSender
  <2>3. QED
    BY <1>1, <2>1, <2>2 DEF OneSender, Holding
<1>5. QED
  BY <1>2, <1>3, <1>4

LEMMA MinerFailsControl ==
  ASSUME Control, NEW m \in Miners, MinerFails(m)
  PROVE  TypeOK' /\ OneMiner' /\ OneSender'
<1> USE Sets DEF Control
<1>1. /\ pc[m] = "loop" /\ owner = None /\ pc' = [pc EXCEPT ![m] = "exit"]
      /\ UNCHANGED <<starts, starting, shared, out, reading, conn, wire, pool, disturbed>>
  BY DEF MinerFails, Goto
<1>2. TypeOK'
  <2>1. TypeControl'
    BY <1>1, TypeParts DEF TypeControl, shared
  <2>2. QED
    BY <1>1, <2>1, TypeParts, TypePartsNext, TypeFrame
<1>3. OneMiner'
  <2>1. OneThread'
    BY <1>1, TypeParts DEF TypeControl, OneMiner, OneThread, Alive, shared
  <2>2. ItsSocket'
    BY <1>1, TypeParts DEF TypeControl, OneMiner, ItsSocket, Alive, shared
  <2>3. Fresh'
    BY <1>1, TypeParts DEF TypeControl, OneMiner, Fresh, reading, pool
  <2>4. QED
    BY <2>1, <2>2, <2>3 DEF OneMiner
<1>4. OneSender'
  BY <1>1, TypeParts DEF TypeControl, OneSender, Sending, Holding, shared
<1>5. QED
  BY <1>2, <1>3, <1>4

\* The cleanup unlocks the mutex whoever holds it: nobody does, unless a transfer is
\* sending, and then the agreement is given up.
LEMMA CleanupUnlockControl ==
  ASSUME Control, NEW m \in Miners, CleanupUnlock(m)
  PROVE  TypeOK' /\ (~disturbed' => OneMiner' /\ OneSender')
<1> USE Sets DEF Control
<1>1. /\ pc[m] = "exit" /\ owner' = None /\ pc' = [pc EXCEPT ![m] = "closing"]
      /\ disturbed' = (disturbed \/ Sending # {})
      /\ UNCHANGED <<starts, starting, sock, key, nin, nout, out, reading, conn, wire, pool>>
  BY DEF CleanupUnlock, Goto, Disturb
<1>2. TypeOK'
  <2>1. TypeControl'
    BY <1>1, TypeParts DEF TypeControl
  <2>2. QED
    BY <1>1, <2>1, TypeParts, TypePartsNext, TypeFrame
<1>3. OneMiner'
  <2>1. OneThread'
    BY <1>1, TypeParts DEF TypeControl, OneMiner, OneThread, Alive
  <2>2. ItsSocket'
    BY <1>1, TypeParts DEF TypeControl, OneMiner, ItsSocket, Alive
  <2>3. Fresh'
    BY <1>1, TypeParts DEF TypeControl, OneMiner, Fresh, reading, pool
  <2>4. QED
    BY <2>1, <2>2, <2>3 DEF OneMiner
<1>4. ASSUME ~disturbed' PROVE OneSender'
  <2>1. \A u \in Threads : pc[u] \notin Holding
    <3>1. \A x \in Xfers : pc[x] \notin Holding
      BY <1>1, <1>4 DEF OneMiner, OneThread, Sending, Holding
    <3>2. \A n \in Miners : pc[n] \notin Holding
      BY <1>1 DEF OneMiner, OneThread, Alive, Holding
    <3>3. QED
      BY <3>1, <3>2
  <2>2. QED
    BY <1>1, <2>1, TypeParts DEF TypeControl, OneSender, Sending, Holding
<1>5. QED
  BY <1>2, <1>3, <1>4

\* It then closes the socket and frees the key: nobody uses them any more.
LEMMA CleanupCloseControl ==
  ASSUME Control, NEW m \in Miners, CleanupClose(m)
  PROVE  TypeOK' /\ (~disturbed' => OneMiner' /\ OneSender')
<1> USE Sets DEF Control
<1>1. /\ pc[m] = "closing" /\ key' = "none" /\ sock' = None /\ pc' = [pc EXCEPT ![m] = "gone"]
      /\ conn' = IF sock = None THEN conn ELSE [conn EXCEPT ![sock] = "reset"]
      /\ disturbed' = (disturbed \/ Sending # {})
      /\ UNCHANGED <<starts, starting, owner, nin, nout, out, reading, wire, pool>>
  BY DEF CleanupClose, Goto, Disturb
<1>2. TypeOK'
  <2>1. TypeControl'
    BY <1>1, TypeParts DEF TypeControl
  <2>2. TypeConn'
    BY <1>1, TypeParts DEF TypeConn
  <2>3. QED
    BY <1>1, <2>1, <2>2, TypeParts, TypePartsNext, TypeFrame
<1>3. OneMiner'
  <2>1. \A n \in Miners : n # m => pc[n] \in {"off", "gone"}
    BY <1>1, TypeParts DEF TypeControl, OneMiner, OneThread, Alive
  <2>2. OneThread'
    BY <1>1, <2>1, TypeParts DEF TypeControl, OneMiner, OneThread, Alive
  <2>3. ItsSocket'
    <3>1. \A n \in Miners : conn'[n] \notin {"open", "fin"}
      BY <1>1, TypeParts DEF TypeConn, TypeControl, OneMiner, ItsSocket
    <3>2. QED
      BY <1>1, <2>1, <3>1, TypeParts DEF TypeControl, ItsSocket, Alive
  <2>4. Fresh'
    BY <1>1, TypeParts DEF TypeControl, OneMiner, Fresh, reading, pool
  <2>5. QED
    BY <2>2, <2>3, <2>4 DEF OneMiner
<1>4. ASSUME ~disturbed' PROVE OneSender'
  BY <1>1, <1>4, TypeParts DEF TypeControl, OneSender, Sending, Holding
<1>5. QED
  BY <1>2, <1>3, <1>4

-----------------------------------------------------------------------------
(* The pool *)

LEMMA PoolGoesControl ==
  ASSUME Control, NEW c \in Miners, PoolGoes(c)
  PROVE  TypeOK' /\ OneMiner' /\ OneSender'
<1> USE Sets DEF Control
<1>1. /\ conn[c] \in {"open", "fin"}
      /\ \E how \in {"fin", "reset"} : conn' = [conn EXCEPT ![c] = how]
      /\ UNCHANGED <<pc, starts, starting, shared, out, reading, wire, pool, disturbed>>
  BY DEF PoolGoes
<1>2. TypeOK'
  <2>1. TypeControl'
    BY <1>1, TypeParts DEF TypeControl, shared
  <2>2. TypeConn'
    BY <1>1, TypeParts DEF TypeConn
  <2>3. QED
    BY <1>1, <2>1, <2>2, TypeParts, TypePartsNext, TypeFrame
<1>3. OneMiner'
  <2>1. OneThread'
    BY <1>1 DEF OneMiner, OneThread, Alive, shared
  <2>2. ItsSocket'
    BY <1>1, TypeParts DEF TypeConn, OneMiner, ItsSocket, Alive, shared
  <2>3. Fresh'
    BY <1>1 DEF OneMiner, Fresh, shared, reading, pool
  <2>4. QED
    BY <2>1, <2>2, <2>3 DEF OneMiner
<1>4. OneSender'
  BY <1>1 DEF OneSender, Sending, Holding, shared
<1>5. QED
  BY <1>2, <1>3, <1>4

\* The halves of one message of the pool, whose first field is number b.
IsMessage(M, b, kind) ==
  /\ M \in Seq(Half)
  /\ IF kind = "task"
     THEN /\ Len(M) = 4
          /\ M[1] = [num |-> b, part |-> 1, of |-> "task"]
          /\ M[2] = [num |-> b, part |-> 2, of |-> "task"]
          /\ M[3] = [num |-> b + 1, part |-> 1, of |-> "rest"]
          /\ M[4] = [num |-> b + 1, part |-> 2, of |-> "rest"]
     ELSE /\ Len(M) = 2
          /\ M[1] = [num |-> b, part |-> 1, of |-> "balance"]
          /\ M[2] = [num |-> b, part |-> 2, of |-> "balance"]

Halves(b, kind) ==
  [i \in 1 .. 2 * Len(Fields(kind)) |->
    [num |-> b + (i - 1) \div 2, part |-> 2 - (i % 2), of |-> Fields(kind)[(i + 1) \div 2]]]

LEMMA FieldsOfMessage ==
  /\ Len(Fields("task")) = 2 /\ Fields("task")[1] = "task" /\ Fields("task")[2] = "rest"
  /\ Len(Fields("balance")) = 1 /\ Fields("balance")[1] = "balance"
BY DEF Fields

LEMMA HalvesAreMessage ==
  ASSUME NEW b \in Nat, NEW kind \in Message
  PROVE  IsMessage(Halves(b, kind), b, kind)
<1> USE FieldsOfMessage
<1>1. CASE kind = "task"
  <2> DEFINE M == Halves(b, kind)
         n == 2 * Len(Fields(kind))
  <2>1. n = 4
    <3>1. Fields(kind) = Fields("task")
      BY <1>1, Zenon
    <3>2. Len(Fields(kind)) = 2
      BY <3>1
    <3>3. QED
      BY <3>2
  <2>2. /\ \A i \in 1 .. 4 : M[i] = [num |-> b + (i - 1) \div 2, part |-> 2 - (i % 2),
                                     of |-> Fields("task")[(i + 1) \div 2]]
        /\ M = [i \in 1 .. 4 |-> M[i]]
    <3>1. /\ \A i \in 1 .. n : M[i] = [num |-> b + (i - 1) \div 2, part |-> 2 - (i % 2),
                                      of |-> Fields(kind)[(i + 1) \div 2]]
          /\ M = [i \in 1 .. n |-> M[i]]
      BY DEF Halves
    <3> HIDE DEF M, n
    <3>2. QED
      BY <1>1, <2>1, <3>1
  <2>3. /\ M[1] = [num |-> b, part |-> 1, of |-> "task"]
        /\ M[2] = [num |-> b, part |-> 2, of |-> "task"]
        /\ M[3] = [num |-> b + 1, part |-> 1, of |-> "rest"]
        /\ M[4] = [num |-> b + 1, part |-> 2, of |-> "rest"]
    <3>1. /\ 0 \div 2 = 0 /\ 1 \div 2 = 0 /\ 2 \div 2 = 1 /\ 3 \div 2 = 1 /\ 4 \div 2 = 2 /\ 5 \div 2 = 2
          /\ 1 % 2 = 1 /\ 2 % 2 = 0 /\ 3 % 2 = 1 /\ 4 % 2 = 0
      OBVIOUS
    <3>2. /\ (1 - 1) \div 2 = 0 /\ (1 + 1) \div 2 = 1 /\ (2 - 1) \div 2 = 0 /\ (2 + 1) \div 2 = 1
          /\ (3 - 1) \div 2 = 1 /\ (3 + 1) \div 2 = 2 /\ (4 - 1) \div 2 = 1 /\ (4 + 1) \div 2 = 2
          /\ 2 - (1 % 2) = 1 /\ 2 - (2 % 2) = 2 /\ 2 - (3 % 2) = 1 /\ 2 - (4 % 2) = 2
      BY <3>1
    <3>3. /\ M[1] = [num |-> b + 0, part |-> 1, of |-> Fields("task")[1]]
          /\ M[2] = [num |-> b + 0, part |-> 2, of |-> Fields("task")[1]]
          /\ M[3] = [num |-> b + 1, part |-> 1, of |-> Fields("task")[2]]
          /\ M[4] = [num |-> b + 1, part |-> 2, of |-> Fields("task")[2]]
      BY <2>2, <3>2
    <3>4. b + 0 = b
      OBVIOUS
    <3>5. QED
      BY <3>3, <3>4
  <2>4. M \in Seq(Half) /\ Len(M) = 4
    <3>1. \A i \in 1 .. 4 : M[i] \in Half
      <4>1. M[1] \in Half /\ M[2] \in Half /\ M[3] \in Half /\ M[4] \in Half
        BY <2>3 DEF Half
      <4>2. \A i \in 1 .. 4 : i = 1 \/ i = 2 \/ i = 3 \/ i = 4
        OBVIOUS
      <4>3. QED
        BY <4>1, <4>2
    <3> HIDE DEF M
    <3>2. M = [i \in 1 .. 4 |-> M[i]]
      BY <2>2
    <3>3. QED
      BY <3>1, <3>2
  <2>5. QED
    BY <1>1, <2>3, <2>4 DEF IsMessage
<1>2. CASE kind = "balance"
  <2> DEFINE M == Halves(b, kind)
         n == 2 * Len(Fields(kind))
  <2>1. n = 2
    <3>1. Fields(kind) = Fields("balance")
      BY <1>2, Zenon
    <3>2. Len(Fields(kind)) = 1
      BY <3>1
    <3>3. QED
      BY <3>2
  <2>2. /\ \A i \in 1 .. 2 : M[i] = [num |-> b + (i - 1) \div 2, part |-> 2 - (i % 2),
                                     of |-> Fields("balance")[(i + 1) \div 2]]
        /\ M = [i \in 1 .. 2 |-> M[i]]
    <3>1. /\ \A i \in 1 .. n : M[i] = [num |-> b + (i - 1) \div 2, part |-> 2 - (i % 2),
                                      of |-> Fields(kind)[(i + 1) \div 2]]
          /\ M = [i \in 1 .. n |-> M[i]]
      BY DEF Halves
    <3> HIDE DEF M, n
    <3>2. QED
      BY <1>2, <2>1, <3>1
  <2>3. /\ M[1] = [num |-> b, part |-> 1, of |-> "balance"]
        /\ M[2] = [num |-> b, part |-> 2, of |-> "balance"]
    <3>1. /\ 0 \div 2 = 0 /\ 1 \div 2 = 0 /\ 2 \div 2 = 1 /\ 3 \div 2 = 1 /\ 1 % 2 = 1 /\ 2 % 2 = 0
      OBVIOUS
    <3>2. /\ (1 - 1) \div 2 = 0 /\ (1 + 1) \div 2 = 1 /\ (2 - 1) \div 2 = 0 /\ (2 + 1) \div 2 = 1
          /\ 2 - (1 % 2) = 1 /\ 2 - (2 % 2) = 2
      BY <3>1
    <3>3. /\ M[1] = [num |-> b + 0, part |-> 1, of |-> Fields("balance")[1]]
          /\ M[2] = [num |-> b + 0, part |-> 2, of |-> Fields("balance")[1]]
      BY <2>2, <3>2
    <3>4. b + 0 = b
      OBVIOUS
    <3>5. QED
      BY <3>3, <3>4
  <2>4. M \in Seq(Half) /\ Len(M) = 2
    <3>1. \A i \in 1 .. 2 : M[i] \in Half
      BY <2>3 DEF Half
    <3> HIDE DEF M
    <3>2. M = [i \in 1 .. 2 |-> M[i]]
      BY <2>2
    <3>3. QED
      BY <3>1, <3>2
  <2>5. QED
    BY <1>2, <2>3, <2>4 DEF IsMessage
<1>3. QED
  BY <1>1, <1>2 DEF Message

\* What PoolSends does, with the message spelled out.
LEMMA PoolSendsMessage ==
  ASSUME TypeOK, NEW c \in Miners, PoolSends(c)
  PROVE  /\ conn[c] = "open" /\ wire[c] # <<>>
         /\ \E kind \in Message : \E M \in Seq(Half) :
              /\ IsMessage(M, count[c], kind)
              /\ feed' = [feed EXCEPT ![c] = feed[c] \o M]
              /\ sent' = [sent EXCEPT ![c] = Append(sent[c], kind)]
              /\ count' = [count EXCEPT ![c] = count[c] + IF kind = "task" THEN 2 ELSE 1]
         /\ UNCHANGED <<pc, starts, starting, shared, out, reading, conn, wire, disturbed>>
<1>1. PICK kind \in Message :
        /\ feed' = [feed EXCEPT ![c] = feed[c] \o Halves(count[c], kind)]
        /\ sent' = [sent EXCEPT ![c] = Append(sent[c], kind)]
        /\ count' = [count EXCEPT ![c] = count[c] + Len(Fields(kind))]
  BY DEF PoolSends, Halves
<1>2. count[c] \in Nat
  BY TypeParts DEF TypePool
<1>3. IsMessage(Halves(count[c], kind), count[c], kind)
  BY <1>2, HalvesAreMessage
<1>4. Len(Fields(kind)) = IF kind = "task" THEN 2 ELSE 1
  BY FieldsOfMessage DEF Message
<1>5. Halves(count[c], kind) \in Seq(Half)
  BY <1>3 DEF IsMessage
<1>6. /\ conn[c] = "open" /\ wire[c] # <<>>
      /\ UNCHANGED <<pc, starts, starting, shared, out, reading, conn, wire, disturbed>>
  BY DEF PoolSends
<1>7. QED
  BY <1>1, <1>3, <1>4, <1>5, <1>6

LEMMA PoolSendsControl ==
  ASSUME Control, NEW c \in Miners, PoolSends(c)
  PROVE  TypeOK' /\ OneMiner' /\ OneSender'
<1> USE Sets DEF Control
<1>1. /\ conn[c] = "open"
      /\ UNCHANGED <<pc, starts, starting, shared, out, reading, conn, wire, disturbed>>
  BY PoolSendsMessage
<1>2. PICK kind \in Message : \E M \in Seq(Half) :
        /\ IsMessage(M, count[c], kind)
        /\ feed' = [feed EXCEPT ![c] = feed[c] \o M]
        /\ sent' = [sent EXCEPT ![c] = Append(sent[c], kind)]
        /\ count' = [count EXCEPT ![c] = count[c] + IF kind = "task" THEN 2 ELSE 1]
  BY PoolSendsMessage
<1>3. PICK M \in Seq(Half) : feed' = [feed EXCEPT ![c] = feed[c] \o M]
  BY <1>2
<1>4. TypeOK'
  <2>1. TypeControl'
    BY <1>1, TypeParts DEF TypeControl, shared
  <2>2. TypePool'
    <3>1. feed[c] \o M \in Seq(Half)
      BY ConcatProperties, TypeParts DEF TypePool
    <3>2. Append(sent[c], kind) \in Seq(Message)
      BY AppendProperties, TypeParts DEF TypePool
    <3>3. feed' \in [Miners -> Seq(Half)]
      BY <1>3, <3>1, TypeParts DEF TypePool
    <3>4. sent' \in [Miners -> Seq(Message)]
      <4> DEFINE s == Append(sent[c], kind)
      <4>1. sent' = [sent EXCEPT ![c] = s] /\ s \in Seq(Message)
        BY <1>2, <3>2
      <4>2. sent \in [Miners -> Seq(Message)]
        BY TypeParts DEF TypePool
      <4> HIDE Sets DEF s, Control
      <4>3. QED
        BY <4>1, <4>2, Updated
    <3>5. count' \in [Miners -> Nat]
      BY <1>2, TypeParts DEF TypePool
    <3>6. QED
      BY <3>3, <3>4, <3>5 DEF TypePool
  <2>3. QED
    BY <1>1, <2>1, <2>2, TypeParts, TypePartsNext, TypeFrame
<1>5. OneMiner'
  <2>1. OneThread'
    BY <1>1 DEF OneMiner, OneThread, Alive, shared
  <2>2. ItsSocket'
    BY <1>1 DEF OneMiner, ItsSocket, Alive, shared
  <2>3. Fresh'
    <3>1. pc[c] \notin {"off", "connect"}
      BY <1>1 DEF OneMiner, ItsSocket, Alive
    <3>2. \A m \in Miners : m # c => feed'[m] = feed[m] /\ sent'[m] = sent[m] /\ count'[m] = count[m]
      BY <1>2, <1>3, TypeParts DEF TypePool
    <3>3. QED
      BY <1>1, <3>1, <3>2 DEF OneMiner, Fresh, shared, reading
  <2>4. QED
    BY <2>1, <2>2, <2>3 DEF OneMiner
<1>6. OneSender'
  BY <1>1 DEF OneSender, Sending, Holding, shared
<1>7. QED
  BY <1>4, <1>5, <1>6

-----------------------------------------------------------------------------
(* Reading *)

\* The last two halves of a buffer.
LastTwo(H) == SubSeq(H, Len(H) - 1, Len(H))

\* What a read leaves behind when the buffer holds the halves H, case by case.
Outcome(m, H) ==
  IF Len(H) < want[m]
  THEN in' = [in EXCEPT ![m] = H] /\ UNCHANGED <<want, clear, got, nin, due>>
  ELSE LET t == Took(m, H)
       IN /\ nin' = nin + 1
          /\ in' = [in EXCEPT ![m] = t.in] /\ want' = [want EXCEPT ![m] = t.want]
          /\ clear' = [clear EXCEPT ![m] = t.clear]
          /\ got' = [got EXCEPT ![m] = got[m] \o t.msg]
          /\ due' = [due EXCEPT ![m] = due[m] \/ (want[m] = 4 /\ t.msg # <<"balance">>)]

\* A full buffer becomes a message or waits for a second field.
LEMMA TookType ==
  ASSUME NEW m \in Miners, NEW H \in Seq(Half), TypeReading, Len(H) = want[m]
  PROVE  LET t == Took(m, H)
         IN /\ t.in \in Seq(Half) /\ t.want \in {2, 4} /\ Len(t.in) < t.want
            /\ t.clear \in BOOLEAN /\ t.msg \in Seq(Message \cup {"junk"})
<1> DEFINE t == Took(m, H)
           L == LastTwo(H)
           junk == IF clear[m] /\ Right(L) /\ H[1].of = "task" THEN "task" ELSE "junk"
<1>1. /\ \A msg \in {"balance", "task", "junk"} : <<msg>> \in Seq(Message \cup {"junk"})
      /\ <<>> \in Seq(Message \cup {"junk"})
      /\ <<>> \in Seq(Half) /\ Len(<<>>) = 0
  BY DEF Message
<1>2. CASE Right(L) /\ L[1].of = "balance"
  <2>1. t = [in |-> <<>>, want |-> 2, clear |-> FALSE, msg |-> <<"balance">>]
    BY <1>2, Zenon DEF Took, Balance, LastTwo
  <2>2. QED
    BY <1>1, <2>1
<1>3. CASE ~(Right(L) /\ L[1].of = "balance") /\ want[m] = 4
  <2>1. t = [in |-> <<>>, want |-> 2, clear |-> FALSE, msg |-> <<junk>>]
    BY <1>3, Zenon DEF Took, Task, LastTwo
  <2>2. junk \in {"task", "junk"}
    OBVIOUS
  <2> HIDE DEF junk
  <2>3. QED
    BY <1>1, <2>1, <2>2
<1>4. CASE ~(Right(L) /\ L[1].of = "balance") /\ want[m] # 4
  <2>1. t = [in |-> H, want |-> 4, clear |-> Right(L), msg |-> <<>>]
    BY <1>4, Zenon DEF Took, LastTwo
  <2>2. Right(L) \in BOOLEAN
    BY Zenon DEF Right
  <2>3. want[m] = 2
    BY <1>4 DEF TypeReading
  <2> DEFINE r == Right(L)
  <2>4. r \in BOOLEAN /\ t = [in |-> H, want |-> 4, clear |-> r, msg |-> <<>>]
    BY <2>1, <2>2, Zenon
  <2> HIDE DEF r, t
  <2>5. t.in = H /\ t.want = 4 /\ t.msg = <<>> /\ t.clear \in BOOLEAN
    BY <2>4
  <2>6. t.in \in Seq(Half) /\ t.want \in {2, 4} /\ t.msg \in Seq(Message \cup {"junk"})
    BY <1>1, <2>5
  <2>7. Len(t.in) < t.want
    <3>1. Len(t.in) = Len(H)
      BY <2>5
    <3>2. Len(H) = 2 /\ t.want = 4
      BY <2>3, <2>5
    <3>3. Len(t.in) = 2
      BY <3>1, <3>2
    <3>4. QED
      BY <3>2, <3>3
  <2>8. QED
    BY <2>5, <2>6, <2>7 DEF t
<1>5. QED
  BY <1>2, <1>3, <1>4

\* What MinerRead does, with the socket's owner spelled out.
LEMMA MinerReads ==
  ASSUME Control, NEW m \in Miners, MinerRead(m)
  PROVE  /\ pc[m] = "loop" /\ sock = m /\ conn[m] \in {"open", "fin"}
         /\ \E k \in 1 .. Len(feed[m]) : \E H \in Seq(Half) :
              /\ H = in[m] \o SubSeq(feed[m], 1, k)
              /\ Len(H) = Len(in[m]) + k /\ Len(H) <= want[m]
              /\ feed' = [feed EXCEPT ![m] = SubSeq(feed[m], k + 1, Len(feed[m]))]
              /\ Outcome(m, H)
         /\ UNCHANGED <<pc, starts, starting, owner, sock, key, nout, out, conn, wire, sent, count,
                        disturbed>>
<1> USE Sets DEF Control
<1>1. /\ pc[m] = "loop" /\ conn[sock] \in {"open", "fin"}
      /\ UNCHANGED <<pc, starts, starting, owner, sock, key, nout, out, conn, wire, sent, count,
                     disturbed>>
  BY DEF MinerRead
<1>2. sock = m
  BY <1>1 DEF OneMiner, ItsSocket
<1>3. PICK k \in 1 .. Len(feed[m]) : k <= want[m] - Len(in[m]) /\ Read(m, k)
  BY <1>2 DEF MinerRead
<1> DEFINE H == in[m] \o SubSeq(feed[m], 1, k)
<1>4. /\ feed[m] \in Seq(Half) /\ in[m] \in Seq(Half) /\ want[m] \in Nat
      /\ Len(in[m]) \in Nat
  <2>1. feed[m] \in Seq(Half)
    BY TypeParts DEF TypePool
  <2>2. in[m] \in Seq(Half) /\ want[m] \in {2, 4}
    BY TypeParts DEF TypeReading
  <2>3. QED
    BY <2>1, <2>2
<1>5. SubSeq(feed[m], 1, k) \in Seq(Half) /\ Len(SubSeq(feed[m], 1, k)) = k
  BY <1>4, Cut
<1>6. H \in Seq(Half) /\ Len(H) = Len(in[m]) + k /\ Len(H) <= want[m]
  BY <1>3, <1>4, <1>5, ConcatProperties
<1>7. /\ feed' = [feed EXCEPT ![m] = SubSeq(feed[m], k + 1, Len(feed[m]))]
      /\ Outcome(m, H)
  BY <1>2, <1>3, Zenon DEF Read, Outcome
<1>8. QED
  BY <1>1, <1>2, <1>6, <1>7

LEMMA MinerReadControl ==
  ASSUME Control, NEW m \in Miners, MinerRead(m)
  PROVE  TypeOK' /\ OneMiner' /\ OneSender'
<1> USE Sets DEF Control
<1>1. /\ pc[m] = "loop" /\ sock = m
      /\ UNCHANGED <<pc, starts, starting, owner, sock, key, nout, out, conn, wire, sent, count,
                     disturbed>>
  BY MinerReads
<1>2. PICK k \in 1 .. Len(feed[m]) : \E H \in Seq(Half) :
        /\ H = in[m] \o SubSeq(feed[m], 1, k)
        /\ Len(H) = Len(in[m]) + k /\ Len(H) <= want[m]
        /\ feed' = [feed EXCEPT ![m] = SubSeq(feed[m], k + 1, Len(feed[m]))]
        /\ Outcome(m, H)
  BY MinerReads
<1>3. PICK H \in Seq(Half) : Len(H) <= want[m] /\ Outcome(m, H)
  BY <1>2
<1>4. /\ feed[m] \in Seq(Half) /\ in[m] \in Seq(Half) /\ want[m] \in Nat /\ nin \in Nat
      /\ got[m] \in Seq(Message \cup {"junk"}) /\ Len(H) \in Nat
  <2>1. feed[m] \in Seq(Half)
    BY TypeParts DEF TypePool
  <2>2. in[m] \in Seq(Half) /\ want[m] \in {2, 4} /\ got[m] \in Seq(Message \cup {"junk"})
    BY TypeParts DEF TypeReading
  <2>3. nin \in Nat
    BY TypeParts DEF TypeControl
  <2>4. QED
    BY <2>1, <2>2, <2>3
<1>5. TypeOK'
  <2>1. TypePool'
    <3> DEFINE rest == SubSeq(feed[m], k + 1, Len(feed[m]))
    <3>1. rest \in Seq(Half)
      BY <1>4, Cut
    <3>2. feed' = [feed EXCEPT ![m] = rest] /\ UNCHANGED <<sent, count>>
      BY <1>1, <1>2
    <3> HIDE DEF rest
    <3>3. QED
      BY <3>1, <3>2, TypeParts DEF TypePool
  <2>2. CASE Len(H) < want[m]
    <3>1. in' = [in EXCEPT ![m] = H] /\ UNCHANGED <<want, clear, got, nin, due>>
      BY <1>3, <2>2 DEF Outcome
    <3>2. TypeReading'
      BY <2>2, <3>1, TypeParts DEF TypeReading
    <3>3. TypeControl'
      BY <1>1, <3>1, TypeParts DEF TypeControl
    <3>4. QED
      BY <1>1, <2>1, <3>2, <3>3, TypeParts, TypePartsNext, TypeFrame
  <2>3. CASE ~(Len(H) < want[m])
    <3> DEFINE t == Took(m, H)
    <3>1. /\ nin' = nin + 1
          /\ in' = [in EXCEPT ![m] = t.in] /\ want' = [want EXCEPT ![m] = t.want]
          /\ clear' = [clear EXCEPT ![m] = t.clear]
          /\ got' = [got EXCEPT ![m] = got[m] \o t.msg]
          /\ due' = [due EXCEPT ![m] = due[m] \/ (want[m] = 4 /\ t.msg # <<"balance">>)]
      BY <1>3, <2>3 DEF Outcome
    <3>2. Len(H) = want[m]
      BY <1>3, <1>4, <2>3
    <3>3. /\ t.in \in Seq(Half) /\ t.want \in {2, 4} /\ Len(t.in) < t.want
          /\ t.clear \in BOOLEAN /\ t.msg \in Seq(Message \cup {"junk"})
      BY <3>2, TookType, TypeParts
    <3> HIDE DEF t
    <3>4. got[m] \o t.msg \in Seq(Message \cup {"junk"})
      BY <1>4, <3>3, ConcatProperties
    <3>5. TypeReading'
      <4>1. in' \in [Miners -> Seq(Half)] /\ want' \in [Miners -> {2, 4}]
        BY <3>1, <3>3, TypeParts DEF TypeReading
      <4>2. \A n \in Miners : Len(in'[n]) < want'[n]
        BY <3>1, <3>3, TypeParts DEF TypeReading
      <4>3. clear' \in [Miners -> BOOLEAN]
        BY <3>1, <3>3, TypeParts DEF TypeReading
      <4>4. due' \in [Miners -> BOOLEAN]
        BY <3>1, TypeParts DEF TypeReading
      <4>5. got' \in [Miners -> Seq(Message \cup {"junk"})]
        BY <3>1, <3>4, TypeParts DEF TypeReading
      <4>6. QED
        BY <4>1, <4>2, <4>3, <4>4, <4>5 DEF TypeReading
    <3>6. TypeControl'
      BY <1>1, <3>1, TypeParts DEF TypeControl
    <3>7. QED
      BY <1>1, <2>1, <3>5, <3>6, TypeParts, TypePartsNext, TypeFrame
  <2>4. QED
    BY <2>2, <2>3
<1>6. \A n \in Miners : n # m =>
        in'[n] = in[n] /\ want'[n] = want[n] /\ got'[n] = got[n] /\ feed'[n] = feed[n]
  <2>1. \A n \in Miners : n # m => in'[n] = in[n] /\ want'[n] = want[n] /\ got'[n] = got[n]
    BY <1>3, TypeParts DEF TypeReading, Outcome
  <2>2. \A n \in Miners : n # m => feed'[n] = feed[n]
    BY <1>2, TypeParts DEF TypePool
  <2>3. QED
    BY <2>1, <2>2
<1>7. OneMiner'
  <2>1. OneThread'
    BY <1>1 DEF OneMiner, OneThread, Alive
  <2>2. ItsSocket'
    BY <1>1 DEF OneMiner, ItsSocket, Alive
  <2>3. Fresh'
    BY <1>1, <1>6 DEF OneMiner, Fresh
  <2>4. QED
    BY <2>1, <2>2, <2>3 DEF OneMiner
<1>8. OneSender'
  BY <1>1 DEF OneSender, Sending, Holding
<1>9. QED
  BY <1>5, <1>7, <1>8

-----------------------------------------------------------------------------
(* All the steps *)

LEMMA ControlStep ==
  ASSUME Control, Next
  PROVE  TypeOK' /\ (~disturbed' => OneMiner' /\ OneSender')
<1> USE Sets
<1>0. ~disturbed
  BY DEF Next
<1>1. CASE StartCrypt
  BY <1>0, <1>1, StartCryptControl
<1>2. CASE StartThread
  BY <1>0, <1>2, StartThreadControl
<1>3. ASSUME NEW t \in Threads, Write(t) \/ WriteFails(t)
      PROVE  TypeOK' /\ OneMiner' /\ OneSender'
  BY <1>3, WriteControl, WriteFailsControl
<1>4. ASSUME NEW x \in Xfers, XferStart(x) \/ XferLock(x) \/ XferSend(x)
      PROVE  TypeOK' /\ OneMiner' /\ OneSender'
  <2>1. CASE XferSend(x)
    <3>1. pc[x] = "send" /\ Encipher(x, BLOCK_FIELDS)
      BY <2>1 DEF XferSend
    <3>2. QED
      BY <3>1, EncipherControl
  <2>2. QED
    BY <1>4, <2>1, XferStartControl, XferLockControl
<1>5. ASSUME NEW m \in Miners, MinerConnect(m) \/ MinerRefused(m) \/ MinerHello(m) \/ MinerShare(m)
      PROVE  TypeOK' /\ OneMiner' /\ OneSender'
  <2>1. CASE MinerHello(m)
    <3>1. pc[m] = "hello" /\ Encipher(m, BLOCK_FIELDS)
      BY <2>1 DEF MinerHello
    <3>2. QED
      BY <3>1, EncipherControl
  <2>2. CASE MinerShare(m)
    <3>1. pc[m] = "share" /\ Encipher(m, 1)
      BY <2>2 DEF MinerShare
    <3>2. QED
      BY <3>1, EncipherControl
  <2>3. QED
    BY <1>5, <2>1, <2>2, MinerConnectControl, MinerRefusedControl
<1>6. ASSUME NEW m \in Miners, MinerRead(m) \/ MinerDue(m) \/ MinerFails(m)
      PROVE  TypeOK' /\ OneMiner' /\ OneSender'
  BY <1>6, MinerReadControl, MinerDueControl, MinerFailsControl
<1>7. ASSUME NEW m \in Miners, CleanupUnlock(m) \/ CleanupClose(m)
      PROVE  TypeOK' /\ (~disturbed' => OneMiner' /\ OneSender')
  BY <1>7, CleanupUnlockControl, CleanupCloseControl
<1>8. ASSUME NEW c \in Miners, PoolSends(c) \/ PoolGoes(c)
      PROVE  TypeOK' /\ OneMiner' /\ OneSender'
  BY <1>8, PoolSendsControl, PoolGoesControl
<1>9. QED
  BY <1>1, <1>2, <1>3, <1>4, <1>5, <1>6, <1>7, <1>8 DEF Next, XferStep, MinerStep

-----------------------------------------------------------------------------
(* What the wallet sends: the streams *)

\* A part of the stream is numbered like the whole.
LEMMA PrefixNumbered ==
  ASSUME NEW s \in Seq(Field), NEW t \in Seq(Field), NEW c, WellNumbered(s \o t, c)
  PROVE  WellNumbered(s, c)
<1>1. /\ Len(s) \in Nat /\ Len(t) \in Nat /\ Len(s \o t) = Len(s) + Len(t)
      /\ \A i \in 1 .. Len(s) : (s \o t)[i] = s[i]
  BY ConcatProperties, LenProperties
<1>2. ASSUME NEW i \in 1 .. Len(s)
      PROVE  /\ s[i].ctr = i - 1 /\ s[i].key = "good"
             /\ s[i].idx > 1 => i > 1 /\ s[i - 1].from = s[i].from /\ s[i - 1].idx = s[i].idx - 1
             /\ i <= BLOCK_FIELDS => s[i].from = c /\ s[i].idx = i
  <2>1. i \in 1 .. Len(s \o t) /\ (s \o t)[i] = s[i] /\ (i > 1 => (s \o t)[i - 1] = s[i - 1])
    BY <1>1
  <2>2. QED
    BY <2>1 DEF WellNumbered
<1>3. QED
  BY <1>2 DEF WellNumbered

\* A whole message continues a stream that has our hello, or is that hello.
LEMMA MessageNumbered ==
  ASSUME NEW s \in Seq(Field), NEW e \in Seq(Field), NEW c, NEW t, WellNumbered(s, c),
         \A j \in 1 .. Len(e) :
           e[j] = [ctr |-> Len(s) + j - 1, key |-> "good", from |-> t, idx |-> j],
         Len(s) >= BLOCK_FIELDS \/ (Len(s) = 0 /\ t = c)
  PROVE  WellNumbered(s \o e, c)
<1> USE Sets
<1> DEFINE w == s \o e
<1>1. /\ Len(s) \in Nat /\ Len(e) \in Nat /\ Len(w) = Len(s) + Len(e)
      /\ \A i \in 1 .. Len(s) + Len(e) : w[i] = IF i <= Len(s) THEN s[i] ELSE e[i - Len(s)]
  BY ConcatProperties, LenProperties
<1> HIDE DEF w
<1>2. ASSUME NEW i \in 1 .. Len(w)
      PROVE  /\ w[i].ctr = i - 1 /\ w[i].key = "good"
             /\ w[i].idx > 1 => i > 1 /\ w[i - 1].from = w[i].from /\ w[i - 1].idx = w[i].idx - 1
             /\ i <= BLOCK_FIELDS => w[i].from = c /\ w[i].idx = i
  <2>1. CASE i <= Len(s)
    <3>1. i \in 1 .. Len(s) /\ w[i] = s[i] /\ (i > 1 => w[i - 1] = s[i - 1])
      <4>1. \A h \in 1 .. Len(s) : w[h] = s[h]
        BY <1>1
      <4>2. i \in 1 .. Len(s) /\ (i > 1 => i - 1 \in 1 .. Len(s))
        BY <1>1, <2>1
      <4>3. QED
        BY <4>1, <4>2
    <3>2. /\ s[i].ctr = i - 1 /\ s[i].key = "good"
          /\ s[i].idx > 1 => i > 1 /\ s[i - 1].from = s[i].from /\ s[i - 1].idx = s[i].idx - 1
          /\ i <= BLOCK_FIELDS => s[i].from = c /\ s[i].idx = i
      BY <3>1 DEF WellNumbered
    <3>3. QED
      BY <3>1, <3>2, Zenon
  <2>2. CASE i > Len(s)
    <3>1. PICK j \in 1 .. Len(e) : i = Len(s) + j /\ i - Len(s) = j /\ i - 1 - Len(s) = j - 1
      <4>1. i - Len(s) \in 1 .. Len(e) /\ i = Len(s) + (i - Len(s)) /\ i - 1 - Len(s) = i - Len(s) - 1
        BY <1>1, <2>2
      <4>2. QED
        BY <4>1
    <3>2. w[i] = [ctr |-> i - 1, key |-> "good", from |-> t, idx |-> j]
      <4>1. w[i] = e[j]
        BY <1>1, <2>2, <3>1
      <4>2. Len(s) + j - 1 = i - 1
        BY <3>1
      <4>3. QED
        BY <4>1, <4>2
    <3>3. j > 1 => w[i - 1].from = t /\ w[i - 1].idx = j - 1
      <4>1. ASSUME j > 1 PROVE w[i - 1] = e[j - 1] /\ j - 1 \in 1 .. Len(e)
        BY <1>1, <3>1, <4>1
      <4>2. j > 1 => e[j - 1] = [ctr |-> Len(s) + (j - 1) - 1, key |-> "good", from |-> t, idx |-> j - 1]
        BY <4>1
      <4>3. QED
        BY <4>1, <4>2
    <3>4. i <= BLOCK_FIELDS => t = c /\ j = i
      BY <1>1, <2>2, <3>1
    <3>5. w[i].ctr = i - 1 /\ w[i].key = "good" /\ w[i].from = t /\ w[i].idx = j
      BY <3>2
    <3>6. j > 1 => i > 1
      BY <1>1, <3>1
    <3>7. QED
      BY <3>3, <3>4, <3>5, <3>6
  <2>3. QED
    BY <1>1, <2>1, <2>2
<1>3. QED
  BY <1>2 DEF WellNumbered, w

\* A step that leaves the fields, the mutex and the counter alone, and opens nothing.
LEMMA OutFrame ==
  ASSUME OutInv, wire' = wire, Left' = Left, nout' = nout,
         \A c \in Miners : conn'[c] = "open" =>
           conn[c] = "open" /\ (pc'[c] = "hello" <=> pc[c] = "hello")
  PROVE  OutInv'
BY DEF OutInv, Stream

\* With no connection there is nothing to agree on.
LEMMA OutNone ==
  ASSUME OutInv, wire' = wire, \A c \in Miners : conn'[c] # "open"
  PROVE  OutInv'
BY DEF OutInv, Stream

\* send_to_pool enciphers a whole message where the stream ends.
LEMMA EncipherOut ==
  ASSUME Control, OutInv, NEW t \in Threads, NEW n \in 1 .. BLOCK_FIELDS,
         pc[t] \in {"hello", "share", "send"}, pc[t] = "hello" => n = BLOCK_FIELDS, Encipher(t, n)
  PROVE  OutInv'
<1> USE Sets DEF Control
<1> DEFINE e == Enciphered(t, n)
<1>1. /\ out' = [out EXCEPT ![t] = e] /\ nout' = nout + n
      /\ pc' = [pc EXCEPT ![t] = "write"]
      /\ UNCHANGED <<owner, wire, conn>>
  BY DEF Encipher, Enciphered, Goto
<1>2. owner = t /\ out[t] = <<>>
  BY DEF OneSender, Holding
<1>3. Left = <<>> /\ Left' = e
  BY <1>1, <1>2, TypeParts DEF Left, TypeOut
<1>4. e \in Seq(Field) /\ Len(e) = n
  BY EncipheredFields DEF Encipher
<1>5. \A j \in 1 .. Len(e) : e[j] = [ctr |-> nout + j - 1, key |-> key, from |-> t, idx |-> j]
  BY <1>4 DEF Enciphered
<1> HIDE DEF e
<1>6. ASSUME NEW c \in Miners, conn[c] = "open"
      PROVE  /\ WellNumbered(wire[c] \o e, c) /\ Len(wire[c] \o e) = nout + n
             /\ nout + n >= BLOCK_FIELDS
  <2>1. wire[c] \in Seq(Field) /\ nout \in Nat
    BY TypeParts DEF TypeWire, TypeControl
  <2>2. Stream(c) = wire[c]
    BY <1>3, <2>1, ConcatEmptySeq DEF Stream
  <2>3. /\ WellNumbered(wire[c], c) /\ Len(wire[c]) = nout
        /\ IF pc[c] = "hello" THEN nout = 0 ELSE nout >= BLOCK_FIELDS
    BY <1>6, <2>2 DEF OutInv
  <2>4. key = "good" /\ (pc[c] = "hello" => c = t)
    <3>1. Alive(c) /\ (pc[c] = "hello" => owner = c)
      BY <1>6 DEF OneMiner, ItsSocket, OneSender, Holding
    <3>2. QED
      BY <1>2, <3>1 DEF OneMiner, OneThread
  <2>5. nout >= BLOCK_FIELDS \/ (nout = 0 /\ t = c /\ n = BLOCK_FIELDS)
    BY <2>3, <2>4
  <2>6. WellNumbered(wire[c] \o e, c)
    <3>1. \A j \in 1 .. Len(e) :
            e[j] = [ctr |-> Len(wire[c]) + j - 1, key |-> "good", from |-> t, idx |-> j]
      BY <1>5, <2>3, <2>4
    <3>2. Len(wire[c]) >= BLOCK_FIELDS \/ (Len(wire[c]) = 0 /\ t = c)
      BY <2>3, <2>5
    <3> DEFINE w == wire[c]
    <3>3. w \in Seq(Field) /\ e \in Seq(Field) /\ WellNumbered(w, c)
      BY <1>4, <2>1, <2>3
    <3>4. /\ \A j \in 1 .. Len(e) :
               e[j] = [ctr |-> Len(w) + j - 1, key |-> "good", from |-> t, idx |-> j]
          /\ Len(w) >= BLOCK_FIELDS \/ (Len(w) = 0 /\ t = c)
      BY <3>1, <3>2
    <3> HIDE DEF w
    <3>5. WellNumbered(w \o e, c)
      BY <3>3, <3>4, MessageNumbered
    <3>6. QED
      BY <3>5 DEF w
  <2>7. Len(wire[c] \o e) = nout + n
    <3>1. \A u, v \in Seq(Field) : Len(u \o v) = Len(u) + Len(v)
      BY ConcatProperties
    <3>2. Len(wire[c] \o e) = Len(wire[c]) + Len(e)
      BY <1>4, <2>1, <3>1, Zenon
    <3>3. QED
      BY <1>4, <2>3, <3>2
  <2>8. nout + n >= BLOCK_FIELDS
    BY <2>1, <2>5
  <2>9. QED
    BY <2>6, <2>7, <2>8
<1>7. ASSUME NEW c \in Miners, conn'[c] = "open"
      PROVE  /\ WellNumbered(Stream(c)', c) /\ Len(Stream(c)') = nout'
             /\ IF pc'[c] = "hello" THEN nout' = 0 ELSE nout' >= BLOCK_FIELDS
  <2>1. conn[c] = "open" /\ Stream(c)' = wire[c] \o e
    BY <1>1, <1>3, <1>7 DEF Stream
  <2>2. pc'[c] # "hello"
    <3>1. CASE c = t
      BY <1>1, <3>1, TypeParts DEF TypeControl
    <3>2. CASE c # t
      <4>1. pc[c] # "hello"
        BY <1>2, <3>2 DEF OneSender, Holding
      <4>2. QED
        BY <1>1, <3>2, <4>1, TypeParts DEF TypeControl
    <3>3. QED
      BY <3>1, <3>2
  <2>3. /\ WellNumbered(wire[c] \o e, c) /\ Len(wire[c] \o e) = nout + n
        /\ nout + n >= BLOCK_FIELDS
    BY <1>6, <2>1
  <2>4. WellNumbered(Stream(c)', c) /\ Len(Stream(c)') = nout'
    BY <1>1, <2>1, <2>3, Zenon
  <2>5. QED
    BY <1>1, <2>2, <2>3, <2>4
<1>8. \A c \in Miners : WellNumbered(wire'[c], c)
  BY <1>1 DEF OutInv
<1>9. QED
  BY <1>7, <1>8 DEF OutInv

\* A write moves fields from the sender to the wire and leaves the stream as it is.
LEMMA WriteOut ==
  ASSUME Control, OutInv, NEW t \in Threads, Write(t)
  PROVE  OutInv'
<1> USE Sets DEF Control
<1>1. /\ pc[t] = "write" /\ sock \in Miners /\ conn[sock] \in {"open", "fin"}
      /\ owner = t /\ out[t] \in Seq(Field)
  <2>1. pc[t] = "write" /\ sock # None /\ conn[sock] \in {"open", "fin"}
    BY DEF Write
  <2>2. sock \in Miners /\ out[t] \in Seq(Field)
    BY <2>1, TypeParts DEF TypeControl, TypeOut
  <2>3. owner = t
    BY <2>1 DEF OneSender, Holding
  <2>4. QED
    BY <2>1, <2>2, <2>3
<1>2. PICK k \in 1 .. Len(out[t]) :
        /\ out' = [out EXCEPT ![t] = SubSeq(out[t], k + 1, Len(out[t]))]
        /\ wire' = IF conn[sock] = "open"
                   THEN [wire EXCEPT ![sock] = wire[sock] \o SubSeq(out[t], 1, k)] ELSE wire
        /\ conn' = IF conn[sock] = "fin" THEN [conn EXCEPT ![sock] = "reset"] ELSE conn
        /\ \/ /\ k = Len(out[t]) /\ pc' = [pc EXCEPT ![t] = AfterWrite(t)] /\ owner' = None
           \/ k # Len(out[t]) /\ UNCHANGED <<pc, owner>>
  BY DEF Write, Goto
<1> DEFINE first == SubSeq(out[t], 1, k)
           rest  == SubSeq(out[t], k + 1, Len(out[t]))
<1>3. /\ first \in Seq(Field) /\ rest \in Seq(Field) /\ first \o rest = out[t]
      /\ rest = <<>> <=> k = Len(out[t])
  BY <1>1, <1>2, Cut
<1>4. nout' = nout
  BY DEF Write
<1> HIDE DEF first, rest
<1>5. /\ out' = [out EXCEPT ![t] = rest]
      /\ wire' = IF conn[sock] = "open" THEN [wire EXCEPT ![sock] = wire[sock] \o first] ELSE wire
  BY <1>2 DEF first, rest
<1>6. CASE conn[sock] = "fin"
  <2>1. \A c \in Miners : conn[c] = "open" => c = sock
    BY DEF OneMiner, ItsSocket
  <2>2. wire' = wire /\ \A c \in Miners : conn'[c] # "open"
    BY <1>2, <1>6, <2>1, TypeParts DEF TypeConn
  <2>3. QED
    BY <2>2, OutNone
<1>7. CASE conn[sock] = "open"
  <2>1. Left = first \o rest
    BY <1>1, <1>3 DEF Left
  <2>2. Left' = rest
    <3>1. CASE k = Len(out[t])
      BY <1>2, <1>3, <3>1 DEF Left
    <3>2. CASE k # Len(out[t])
      BY <1>1, <1>2, <1>5, <3>2, TypeParts DEF Left, TypeOut
    <3>3. QED
      BY <3>1, <3>2
  <2>3. /\ wire'[sock] = wire[sock] \o first /\ wire[sock] \in Seq(Field)
        /\ \A c \in Miners : c # sock => wire'[c] = wire[c] /\ conn'[c] # "open"
        /\ conn' = conn
    <3>1. \A c \in Miners : conn[c] = "open" => c = sock
      BY DEF OneMiner, ItsSocket
    <3>2. conn' = conn
      BY <1>2, <1>7
    <3>3. QED
      BY <1>1, <1>5, <1>7, <3>1, <3>2, TypeParts DEF TypeWire
  <2>4. Stream(sock) = wire'[sock] \o rest /\ Stream(sock)' = Stream(sock)
    <3>1. (wire[sock] \o first) \o rest = wire[sock] \o (first \o rest)
      <4> DEFINE w == wire[sock]
      <4>1. w \in Seq(Field) /\ first \in Seq(Field) /\ rest \in Seq(Field)
        BY <1>3, <2>3
      <4> HIDE DEF w
      <4>2. (w \o first) \o rest = w \o (first \o rest)
        BY <4>1, Associates, SMTT(30)
      <4>3. QED
        BY <4>2 DEF w
    <3>2. Stream(sock) = wire[sock] \o (first \o rest)
      BY <2>1, Zenon DEF Stream
    <3>3. sock' = sock
      BY DEF Write
    <3>4. Stream(sock)' = wire'[sock] \o rest
      BY <2>2, <3>3, Zenon DEF Stream
    <3>5. QED
      BY <2>3, <3>1, <3>2, <3>4, Zenon
  <2>5. /\ WellNumbered(Stream(sock), sock) /\ Len(Stream(sock)) = nout
        /\ IF pc[sock] = "hello" THEN nout = 0 ELSE nout >= BLOCK_FIELDS
    BY <1>1, <1>7 DEF OutInv
  <2>6. WellNumbered(wire'[sock], sock)
    <3>1. wire'[sock] \in Seq(Field)
      BY <1>3, <2>3, ConcatProperties
    <3>2. WellNumbered(wire'[sock] \o rest, sock)
      BY <2>4, <2>5, Zenon
    <3>3. QED
      BY <1>3, <3>1, <3>2, PrefixNumbered
  <2>7. pc[sock] # "hello" /\ pc'[sock] # "hello"
    <3>1. pc[sock] # "hello"
      BY <1>1 DEF OneSender, Holding
    <3>2. QED
      BY <1>1, <1>2, <3>1, TypeParts DEF TypeControl, AfterWrite
  <2>8. \A c \in Miners : WellNumbered(wire'[c], c)
    <3>1. \A c \in Miners : WellNumbered(wire[c], c)
      BY DEF OutInv
    <3>2. QED
      BY <2>3, <2>6, <3>1, Zenon
  <2>9. ASSUME NEW c \in Miners, conn'[c] = "open"
        PROVE  /\ WellNumbered(Stream(c)', c) /\ Len(Stream(c)') = nout'
               /\ IF pc'[c] = "hello" THEN nout' = 0 ELSE nout' >= BLOCK_FIELDS
    <3>1. c = sock /\ sock' = sock
      BY <2>3, <2>9 DEF Write
    <3>2. Stream(c)' = Stream(sock)
      BY <2>4, <3>1, Zenon
    <3>3. nout >= BLOCK_FIELDS /\ pc'[c] # "hello"
      BY <2>5, <2>7, <3>1
    <3>4. QED
      BY <1>4, <2>5, <3>1, <3>2, <3>3
  <2>10. QED
    BY <2>8, <2>9 DEF OutInv
<1>8. QED
  BY <1>1, <1>6, <1>7

\* A new connection has an empty stream in either direction.
LEMMA MinerConnectOut ==
  ASSUME Control, OutInv, NEW m \in Miners, MinerConnect(m)
  PROVE  OutInv'
<1> USE Sets DEF Control
<1>1. /\ pc[m] = "connect" /\ owner' = m /\ nout' = 0 /\ conn' = [conn EXCEPT ![m] = "open"]
      /\ pc' = [pc EXCEPT ![m] = "hello"] /\ wire' = wire /\ out' = out
  BY DEF MinerConnect, Lock, Goto
<1>2. wire[m] = <<>> /\ out[m] = <<>>
  BY <1>1 DEF OneMiner, Fresh, OneSender
<1>3. Left' = <<>>
  BY <1>1, <1>2 DEF Left
<1>4. Stream(m)' = <<>> /\ Len(<<>>) = 0 /\ WellNumbered(<<>>, m)
  <2>1. Stream(m)' = <<>> \o <<>>
    BY <1>1, <1>2, <1>3 DEF Stream
  <2>2. <<>> \o <<>> = <<>> /\ Len(<<>>) = 0
    BY EmptySeq, ConcatEmptySeq
  <2>3. QED
    BY <2>1, <2>2 DEF WellNumbered
<1>5. \A c \in Miners : conn'[c] = "open" => c = m
  <2>1. \A c \in Miners : conn[c] # "open"
    BY <1>1 DEF OneMiner, OneThread, ItsSocket, Alive
  <2>2. QED
    BY <1>1, <2>1, TypeParts DEF TypeConn
<1>6. pc'[m] = "hello"
  BY <1>1, TypeParts DEF TypeControl
<1>7. QED
  BY <1>1, <1>4, <1>5, <1>6 DEF OutInv

\* The steps that only move threads, take the mutex or close the connection.
LEMMA QuietOut ==
  ASSUME Control, OutInv,
         \/ StartCrypt
         \/ \E x \in Xfers : XferStart(x) \/ XferLock(x)
         \/ \E m \in Miners : MinerRead(m) \/ MinerDue(m) \/ MinerFails(m) \/ CleanupUnlock(m)
         \/ \E c \in Miners : PoolSends(c) \/ PoolGoes(c)
  PROVE  ~disturbed' => OutInv'
<1> USE Sets DEF Control
<1>1. CASE StartCrypt
  <2>1. UNCHANGED <<wire, owner, out, nout, conn, pc>>
    BY <1>1 DEF StartCrypt
  <2>2. QED
    BY <2>1, OutFrame DEF Left
<1>2. ASSUME NEW x \in Xfers, XferStart(x) PROVE OutInv'
  <2>1. UNCHANGED <<wire, owner, out, nout, conn>> /\ pc' = [pc EXCEPT ![x] = "want"]
    BY <1>2 DEF XferStart, shared, Goto
  <2>2. \A c \in Miners : pc'[c] = pc[c]
    BY <2>1, TypeParts DEF TypeControl
  <2>3. QED
    BY <2>1, <2>2, OutFrame DEF Left
<1>3. ASSUME NEW x \in Xfers, XferLock(x) PROVE OutInv'
  <2>1. /\ UNCHANGED <<wire, out, nout, conn>> /\ owner = None /\ owner' \in {None, x}
        /\ pc[x] = "want" /\ \E l \in {"idle", "send"} : pc' = [pc EXCEPT ![x] = l]
    BY <1>3 DEF XferLock, Lock, Goto
  <2>2. \A c \in Miners : pc'[c] = pc[c]
    BY <2>1, TypeParts DEF TypeControl
  <2>3. out[x] = <<>>
    BY <2>1 DEF OneSender
  <2>4. Left' = Left
    BY <2>1, <2>3 DEF Left
  <2>5. QED
    BY <2>1, <2>2, <2>4, OutFrame
<1>4. ASSUME NEW m \in Miners, MinerRead(m) PROVE OutInv'
  <2>1. UNCHANGED <<wire, owner, out, nout, conn, pc>>
    BY <1>4 DEF MinerRead
  <2>2. QED
    BY <2>1, OutFrame DEF Left
<1>5. ASSUME NEW m \in Miners, MinerDue(m) PROVE OutInv'
  <2>1. /\ UNCHANGED <<wire, out, nout, conn>> /\ owner = None /\ owner' = m
        /\ pc[m] = "loop" /\ pc' = [pc EXCEPT ![m] = "share"]
    BY <1>5 DEF MinerDue, Lock, Goto
  <2>2. \A c \in Miners : pc'[c] = "hello" <=> pc[c] = "hello"
    BY <2>1, TypeParts DEF TypeControl
  <2>3. out[m] = <<>>
    BY <2>1 DEF OneSender
  <2>4. Left' = Left
    BY <2>1, <2>3 DEF Left
  <2>5. QED
    BY <2>1, <2>2, <2>4, OutFrame
<1>6. ASSUME NEW m \in Miners, MinerFails(m) PROVE OutInv'
  <2>1. /\ UNCHANGED <<wire, owner, out, nout, conn>>
        /\ pc[m] = "loop" /\ pc' = [pc EXCEPT ![m] = "exit"]
    BY <1>6 DEF MinerFails, shared, Goto
  <2>2. \A c \in Miners : pc'[c] = "hello" <=> pc[c] = "hello"
    BY <2>1, TypeParts DEF TypeControl
  <2>3. QED
    BY <2>1, <2>2, OutFrame DEF Left
<1>7. ASSUME NEW m \in Miners, CleanupUnlock(m), ~disturbed' PROVE OutInv'
  <2>1. /\ UNCHANGED <<wire, out, nout, conn>> /\ owner' = None /\ Sending = {}
        /\ pc[m] = "exit" /\ pc' = [pc EXCEPT ![m] = "closing"]
    BY <1>7 DEF CleanupUnlock, Goto, Disturb
  <2>2. \A c \in Miners : pc'[c] = "hello" <=> pc[c] = "hello"
    BY <2>1, TypeParts DEF TypeControl
  <2>3. owner = None
    <3>1. \A x \in Xfers : owner # x
      BY <2>1 DEF OneMiner, OneThread, OneSender, Sending, Holding
    <3>2. \A n \in Miners : owner # n
      BY <2>1 DEF OneMiner, OneThread, OneSender, Alive, Holding
    <3>3. QED
      BY <3>1, <3>2, TypeParts DEF TypeControl
  <2>4. QED
    BY <2>1, <2>2, <2>3, OutFrame DEF Left
<1>8. ASSUME NEW c \in Miners, PoolSends(c) PROVE OutInv'
  <2>1. UNCHANGED <<wire, owner, out, nout, conn, pc>>
    BY <1>8, PoolSendsMessage DEF shared
  <2>2. QED
    BY <2>1, OutFrame DEF Left
<1>9. ASSUME NEW c \in Miners, PoolGoes(c) PROVE OutInv'
  <2>1. /\ UNCHANGED <<wire, owner, out, nout, pc>>
        /\ \E how \in {"fin", "reset"} : conn' = [conn EXCEPT ![c] = how]
    BY <1>9 DEF PoolGoes, shared
  <2>2. \A d \in Miners : conn'[d] = "open" => conn[d] = "open"
    BY <2>1, TypeParts DEF TypeConn
  <2>3. QED
    BY <2>1, <2>2, OutFrame DEF Left
<1>10. QED
  BY <1>1, <1>2, <1>3, <1>4, <1>5, <1>6, <1>7, <1>8, <1>9

\* The steps after which no connection is open.
LEMMA ClosedOut ==
  ASSUME Control, OutInv,
         \/ StartThread
         \/ \E t \in Threads : WriteFails(t)
         \/ \E m \in Miners : MinerRefused(m) \/ CleanupClose(m)
  PROVE  OutInv'
<1> USE Sets DEF Control
<1>1. \A c \in Miners : conn[c] = "open" => sock = c /\ Alive(c) /\ pc[c] # "connect"
  BY DEF OneMiner, ItsSocket
<1>2. CASE StartThread
  <2>1. UNCHANGED <<wire, conn>> /\ starting
    BY <1>2 DEF StartThread
  <2>2. \A c \in Miners : conn[c] # "open"
    BY <1>1, <2>1 DEF OneMiner, OneThread
  <2>3. QED
    BY <2>1, <2>2, OutNone
<1>3. ASSUME NEW t \in Threads, WriteFails(t) PROVE OutInv'
  <2>1. UNCHANGED <<wire, conn>> /\ conn[sock] = "reset"
    BY <1>3 DEF WriteFails
  <2>2. \A c \in Miners : conn[c] # "open"
    BY <1>1, <2>1
  <2>3. QED
    BY <2>1, <2>2, OutNone
<1>4. ASSUME NEW m \in Miners, MinerRefused(m) PROVE OutInv'
  <2>1. /\ pc[m] = "connect" /\ wire' = wire
        /\ conn' = conn \/ conn' = [conn EXCEPT ![m] = "reset"]
    BY <1>4 DEF MinerRefused
  <2>2. \A c \in Miners : conn[c] # "open"
    BY <1>1, <2>1 DEF OneMiner, OneThread, Alive
  <2>3. \A c \in Miners : conn'[c] # "open"
    BY <2>1, <2>2, TypeParts DEF TypeConn
  <2>4. QED
    BY <2>1, <2>3, OutNone
<1>5. ASSUME NEW m \in Miners, CleanupClose(m) PROVE OutInv'
  <2>1. /\ wire' = wire
        /\ conn' = IF sock = None THEN conn ELSE [conn EXCEPT ![sock] = "reset"]
    BY <1>5 DEF CleanupClose
  <2>2. \A c \in Miners : conn'[c] # "open"
    BY <1>1, <2>1, TypeParts DEF TypeConn
  <2>3. QED
    BY <2>1, <2>2, OutNone
<1>6. QED
  BY <1>2, <1>3, <1>4, <1>5

LEMMA OutStep ==
  ASSUME Control, OutInv, Next
  PROVE  ~disturbed' => OutInv'
<1> USE Sets
<1>1. ASSUME NEW x \in Xfers, XferSend(x) PROVE OutInv'
  <2>1. pc[x] = "send" /\ Encipher(x, BLOCK_FIELDS)
    BY <1>1 DEF XferSend
  <2>2. QED
    BY <2>1, EncipherOut
<1>2. ASSUME NEW m \in Miners, MinerHello(m) \/ MinerShare(m) PROVE OutInv'
  <2>1. CASE MinerHello(m)
    <3>1. pc[m] = "hello" /\ Encipher(m, BLOCK_FIELDS)
      BY <2>1 DEF MinerHello
    <3>2. QED
      BY <3>1, EncipherOut
  <2>2. CASE MinerShare(m)
    <3>1. pc[m] = "share" /\ Encipher(m, 1)
      BY <2>2 DEF MinerShare
    <3>2. QED
      BY <3>1, EncipherOut
  <2>3. QED
    BY <1>2, <2>1, <2>2
<1>3. ASSUME NEW t \in Threads, Write(t) PROVE OutInv'
  BY <1>3, WriteOut
<1>4. ASSUME NEW m \in Miners, MinerConnect(m) PROVE OutInv'
  BY <1>4, MinerConnectOut
<1>5. QED
  BY <1>1, <1>2, <1>3, <1>4, QuietOut, ClosedOut DEF Next, XferStep, MinerStep

\* Nothing is connected, sent or read at the start.
LEMMA InitOut ==
  ASSUME Init
  PROVE  TypeOK /\ OneMiner /\ OneSender /\ OutInv
<1> USE Sets
<1>1. TypeOK
  <2>1. TypeControl
    <3>1. pc = [t \in Threads |-> IF t \in Miners THEN "off" ELSE "idle"]
      BY DEF Init
    <3>2. \A t \in Threads : pc[t] = "off" \/ pc[t] = "idle"
      BY <3>1
    <3>3. pc \in [Threads -> {"off", "idle"}]
      BY <3>1
    <3>4. pc \in [Threads -> {"off", "connect", "hello", "write", "loop", "share", "exit",
                             "closing", "gone", "idle", "want", "send"}]
      BY <3>3
    <3>5. /\ starts = 0 /\ starting = FALSE /\ owner = None /\ sock = None /\ key = "none"
          /\ nin = 0 /\ nout = 0 /\ disturbed = FALSE
      BY DEF Init
    <3>6. starts \in 0 .. MaxStarts /\ starting \in BOOLEAN
      <4>1. MaxStarts \in Nat
        OBVIOUS
      <4>2. 0 \in 0 .. MaxStarts
        BY <4>1
      <4>3. QED
        BY <3>5, <4>2, Zenon
    <3>7. /\ owner \in Threads \cup {None} /\ sock \in Miners \cup {None}
          /\ key \in {"none", "raw", "good"} /\ nin \in Nat /\ nout \in Nat /\ disturbed \in BOOLEAN
      BY <3>5
    <3>8. QED
      BY <3>4, <3>6, <3>7, Zenon DEF TypeControl
  <2>2. /\ <<>> \in Seq(Half) /\ <<>> \in Seq(Field) /\ <<>> \in Seq(Message)
        /\ <<>> \in Seq(Message \cup {"junk"}) /\ Len(<<>>) = 0
    BY EmptySeq
  <2>3. TypeReading /\ TypePool /\ TypeOut /\ TypeWire /\ TypeConn
    <3>1. TypeReading
      BY <2>2 DEF Init, TypeReading
    <3>2. TypePool
      BY <2>2 DEF Init, TypePool
    <3>3. TypeOut /\ TypeWire /\ TypeConn
      BY <2>2 DEF Init, TypeOut, TypeWire, TypeConn
    <3>4. QED
      BY <3>1, <3>2, <3>3
  <2>4. QED
    BY <2>1, <2>3, TypeParts
<1>2. OneMiner
  BY DEF Init, OneMiner, OneThread, ItsSocket, Fresh, Alive
<1>3. OneSender
  BY DEF Init, OneSender, Sending, Holding
<1>4. OutInv
  BY DEF Init, OutInv, WellNumbered
<1>5. QED
  BY <1>1, <1>2, <1>3, <1>4

\* The bytes of the pool's connection as send_to_pool produces them.
SendInv == TypeOK /\ (~disturbed => OneMiner /\ OneSender /\ OutInv)

LEMMA SendInvAlways == Spec => []SendInv
<1>1. Init => SendInv
  BY InitOut DEF SendInv
<1>2. SendInv /\ [Next]_vars => SendInv'
  <2> SUFFICES ASSUME SendInv, [Next]_vars PROVE SendInv'
    OBVIOUS
  <2>1. CASE Next
    <3>1. ~disturbed
      BY <2>1 DEF Next
    <3>2. Control /\ OutInv
      BY <3>1 DEF SendInv, Control
    <3>3. TypeOK' /\ (~disturbed' => OneMiner' /\ OneSender' /\ OutInv')
      BY <2>1, <3>2, ControlStep, OutStep
    <3>4. QED
      BY <3>3 DEF SendInv
  <2>2. CASE UNCHANGED vars
    <3>1. UNCHANGED <<pc, starts, starting, owner, sock, key, nin, nout, out, in, want, clear, due,
                      got, conn, wire, feed, sent, count, disturbed>>
      BY <2>2 DEF vars, shared, reading, pool
    <3>2. TypeOK'
      BY <3>1 DEF SendInv, TypeOK
    <3>3. ASSUME ~disturbed' PROVE OneMiner' /\ OneSender'
      BY <3>1, <3>3 DEF SendInv, OneMiner, OneThread, ItsSocket, Fresh, Alive, OneSender, Sending, Holding
    <3>4. ASSUME ~disturbed' PROVE OutInv'
      BY <3>1, <3>4, OutFrame DEF SendInv, Left
    <3>5. QED
      BY <3>2, <3>3, <3>4 DEF SendInv
  <2>3. QED
    BY <2>1, <2>2
<1>3. QED
  BY <1>1, <1>2, PTL DEF Spec

\* What the variables hold: every thread at one of its steps, the buffer shorter than
\* what it waits for, and the numbers of the fields natural, for any number of
\* transfers, starts and fields in a block.
THEOREM TypeCorrect == Spec => []TypeOK
<1>1. SendInv => TypeOK
  BY DEF SendInv
<1>2. QED
  BY <1>1, SendInvAlways, PTL

\* send_to_pool and miner_net_thread_proc number the fields as the pool will: without a
\* gap and from 0 on every connection, under a complete key, our hello first and every
\* block whole, however the writes are cut and whoever sends.
THEOREM OutNumbersAgree == Spec => []OutAgrees
<1>1. SendInv => OutAgrees
  <2> SUFFICES ASSUME SendInv, ~disturbed, NEW c \in Miners, NEW i \in 1 .. Len(wire[c])
               PROVE  LET f == wire[c][i]
                      IN /\ f.ctr = i - 1 /\ f.key = "good"
                         /\ f.idx > 1 => wire[c][i - 1].from = f.from /\ wire[c][i - 1].idx = f.idx - 1
                         /\ i <= BLOCK_FIELDS => f.from = c /\ f.idx = i
    BY DEF OutAgrees
  <2>1. WellNumbered(wire[c], c)
    BY DEF SendInv, OutInv
  <2>2. QED
    BY <2>1, Zenon DEF WellNumbered
<1>2. QED
  BY <1>1, SendInvAlways, PTL

-----------------------------------------------------------------------------
(* What the wallet takes *)

\* The fields that are left when d of them are taken.
LEMMA PlacedDrop ==
  ASSUME NEW P, NEW Q, NEW b \in Nat, NEW n \in Nat, NEW K, NEW d \in 1 .. 2,
         Placed(P, b, n, K), b + d <= n, Len(Q) = Len(P) - 2 * d,
         \A i \in 1 .. Len(Q) : Q[i] = P[2 * d + i]
  PROVE  Placed(Q, b + d, n, K)
<1>1. Len(P) = 2 * (n - b) /\ Len(Q) = 2 * (n - (b + d))
  BY DEF Placed
<1>2. ASSUME NEW f \in b + d .. n - 1
      PROVE  /\ Q[2 * (f - (b + d)) + 1] = HalfOf(f, 1, K)
             /\ Q[2 * (f - (b + d)) + 2] = HalfOf(f, 2, K)
  <2>1. f \in b .. n - 1
    OBVIOUS
  <2>2. P[2 * (f - b) + 1] = HalfOf(f, 1, K) /\ P[2 * (f - b) + 2] = HalfOf(f, 2, K)
    BY <2>1 DEF Placed
  <2>3. /\ 2 * (f - (b + d)) + 1 \in 1 .. Len(Q)
        /\ 2 * (f - (b + d)) + 2 \in 1 .. Len(Q)
        /\ 2 * d + (2 * (f - (b + d)) + 1) = 2 * (f - b) + 1
        /\ 2 * d + (2 * (f - (b + d)) + 2) = 2 * (f - b) + 2
    BY <1>1
  <2>4. /\ Q[2 * (f - (b + d)) + 1] = P[2 * (f - b) + 1]
        /\ Q[2 * (f - (b + d)) + 2] = P[2 * (f - b) + 2]
    BY <2>3
  <2>5. QED
    BY <2>2, <2>4
<1>3. QED
  BY <1>1, <1>2 DEF Placed

\* The first field that is pending, and the second.
LEMMA PlacedFirst ==
  ASSUME NEW P, NEW b \in Nat, NEW n \in Nat, NEW K, Placed(P, b, n, K)
  PROVE  /\ b < n => P[1] = HalfOf(b, 1, K) /\ P[2] = HalfOf(b, 2, K)
         /\ b + 1 < n => P[3] = HalfOf(b + 1, 1, K) /\ P[4] = HalfOf(b + 1, 2, K)
<1>1. ASSUME b < n PROVE P[1] = HalfOf(b, 1, K) /\ P[2] = HalfOf(b, 2, K)
  <2>1. b \in b .. n - 1 /\ 2 * (b - b) + 1 = 1 /\ 2 * (b - b) + 2 = 2
    BY <1>1
  <2>2. P[2 * (b - b) + 1] = HalfOf(b, 1, K) /\ P[2 * (b - b) + 2] = HalfOf(b, 2, K)
    BY <2>1 DEF Placed
  <2>3. QED
    BY <2>1, <2>2
<1>2. ASSUME b + 1 < n PROVE P[3] = HalfOf(b + 1, 1, K) /\ P[4] = HalfOf(b + 1, 2, K)
  <2>1. b + 1 \in b .. n - 1 /\ 2 * (b + 1 - b) + 1 = 3 /\ 2 * (b + 1 - b) + 2 = 4
    BY <1>2
  <2>2. P[2 * (b + 1 - b) + 1] = HalfOf(b + 1, 1, K) /\ P[2 * (b + 1 - b) + 2] = HalfOf(b + 1, 2, K)
    BY <2>1 DEF Placed
  <2>3. QED
    BY <2>1, <2>2
<1>3. QED
  BY <1>1, <1>2

\* After a balance of one field, or a task of two, the next message begins.
LEMMA NextBegins ==
  ASSUME NEW S, Len(S) \in Nat, NEW n \in Nat, NEW b \in Nat, NEW g \in Nat,
         NEW K \in KindMaps, NEW L \in LabelMaps,
         History(S, n, K, L), Begins(b, n, g, S, K, L), b < n
  PROVE  /\ L[b] = g + 1 /\ g + 1 \in 1 .. Len(S) /\ K[b] # "rest"
         /\ S[g + 1] = "balance" <=> K[b] = "balance"
         /\ K[b] # "task" => Begins(b + 1, n, g + 1, S, K, L)
         /\ K[b] = "task" => b + 1 < n /\ K[b + 1] = "rest" /\ Begins(b + 2, n, g + 1, S, K, L)
<1> USE DEF KindMaps, LabelMaps
<1>1. L[b] = g + 1 /\ K[b] # "rest"
  BY DEF Begins
<1>2. b \in 0 .. n - 1
  OBVIOUS
<1>3. g + 1 \in 1 .. Len(S) /\ (S[g + 1] = "balance" <=> K[b] = "balance")
  BY <1>1, <1>2 DEF History
<1>4. ASSUME K[b] # "task" PROVE Begins(b + 1, n, g + 1, S, K, L)
  <2>1. CASE b + 1 = n
    <3>1. L[n - 1] = Len(S) /\ n - 1 = b
      BY <2>1 DEF History
    <3>2. QED
      BY <1>1, <2>1, <3>1 DEF Begins
  <2>2. CASE b + 1 # n
    <3>1. b + 1 < n
      BY <2>2
    <3>2. L[b + 1] = L[b] + 1 /\ K[b + 1] # "rest"
      BY <1>2, <1>4, <3>1 DEF History
    <3>3. QED
      BY <1>1, <2>2, <3>2 DEF Begins
  <2>3. QED
    BY <2>1, <2>2
<1>5. ASSUME K[b] = "task"
      PROVE  b + 1 < n /\ K[b + 1] = "rest" /\ Begins(b + 2, n, g + 1, S, K, L)
  <2>1. b + 1 < n
    <3>1. ASSUME b + 1 = n PROVE FALSE
      <4>1. K[n - 1] # "task" /\ n - 1 = b
        BY <3>1 DEF History
      <4>2. QED
        BY <1>5, <4>1
    <3>2. QED
      BY <3>1
  <2>2. L[b + 1] = L[b] /\ K[b + 1] = "rest"
    BY <1>2, <1>5, <2>1 DEF History
  <2>3. CASE b + 2 = n
    <3>1. L[n - 1] = Len(S) /\ n - 1 = b + 1
      BY <2>3 DEF History
    <3>2. QED
      BY <1>1, <2>1, <2>2, <2>3, <3>1 DEF Begins
  <2>4. CASE b + 2 # n
    <3>1. b + 1 + 1 < n /\ b + 1 \in 0 .. n - 1 /\ b + 1 + 1 = b + 2
      BY <2>1, <2>4
    <3>2. L[b + 1 + 1] = L[b + 1] + 1 /\ K[b + 1 + 1] # "rest"
      BY <2>2, <3>1 DEF History
    <3>3. QED
      BY <1>1, <2>1, <2>2, <2>4, <3>1, <3>2 DEF Begins
  <2>5. QED
    BY <2>1, <2>2, <2>3, <2>4
<1>6. QED
  BY <1>1, <1>3, <1>4, <1>5

\* The last two halves of a full buffer are the field that was read last.
LEMMA LastHalves ==
  ASSUME NEW H \in Seq(Half), Len(H) >= 2
  PROVE  LastTwo(H)[1] = H[Len(H) - 1] /\ LastTwo(H)[2] = H[Len(H)]
<1>1. Len(H) - 1 \in Int /\ Len(H) \in Int /\ Len(H) - 1 + 1 - 1 = Len(H) - 1 /\ Len(H) - 1 + 2 - 1 = Len(H)
  BY LenProperties
<1>2. \A i \in Len(H) - 1 .. Len(H) : H[i] \in Half
  BY <1>1, ElementOfSeq
<1>3. \A i \in 1 .. Len(H) - (Len(H) - 1) + 1 :
        SubSeq(H, Len(H) - 1, Len(H))[i] = H[Len(H) - 1 + i - 1]
  BY <1>1, <1>2, SubSeqProperties
<1>4. 1 \in 1 .. Len(H) - (Len(H) - 1) + 1 /\ 2 \in 1 .. Len(H) - (Len(H) - 1) + 1
  BY <1>1
<1>5. QED
  BY <1>1, <1>3, <1>4 DEF LastTwo

\* What the thread makes of a field that arrived under its own number.
LEMMA TookRight ==
  ASSUME NEW m \in Miners, NEW H \in Seq(Half), Len(H) \in {2, 4}, Len(H) = want[m],
         NEW K, H[Len(H) - 1] = HalfOf(nin, 1, K), H[Len(H)] = HalfOf(nin, 2, K)
  PROVE  /\ K[nin] = "balance" =>
              Took(m, H) = [in |-> <<>>, want |-> 2, clear |-> FALSE, msg |-> <<"balance">>]
         /\ K[nin] # "balance" /\ want[m] = 2 =>
              Took(m, H) = [in |-> H, want |-> 4, clear |-> TRUE, msg |-> <<>>]
         /\ K[nin] # "balance" /\ want[m] = 4 /\ clear[m] /\ H[1].of = "task" =>
              Took(m, H) = [in |-> <<>>, want |-> 2, clear |-> FALSE, msg |-> <<"task">>]
<1> DEFINE L == LastTwo(H)
<1>1. L[1] = HalfOf(nin, 1, K) /\ L[2] = HalfOf(nin, 2, K)
  BY LastHalves
<1>2. /\ L[1].num = nin /\ L[1].part = 1 /\ L[1].of = K[nin]
      /\ L[2].num = nin /\ L[2].part = 2
  BY <1>1 DEF HalfOf
<1>3. Right(L) /\ L[1].of = K[nin]
  BY <1>2, Zenon DEF Right
<1>4. ASSUME K[nin] = "balance"
      PROVE  Took(m, H) = [in |-> <<>>, want |-> 2, clear |-> FALSE, msg |-> <<"balance">>]
  BY <1>3, <1>4, Zenon DEF Took, Balance, LastTwo
<1>5. ASSUME K[nin] # "balance", want[m] = 2
      PROVE  Took(m, H) = [in |-> H, want |-> 4, clear |-> TRUE, msg |-> <<>>]
  <2>1. want[m] # 4
    BY <1>5
  <2>2. Took(m, H) = [in |-> H, want |-> 4, clear |-> Right(L), msg |-> <<>>]
    BY <1>3, <1>5, <2>1, Zenon DEF Took, LastTwo
  <2>3. Right(L) = TRUE
    BY <1>3, Zenon DEF Right
  <2>4. QED
    BY <2>2, <2>3, Zenon
<1>6. ASSUME K[nin] # "balance", want[m] = 4, clear[m], H[1].of = "task"
      PROVE  Took(m, H) = [in |-> <<>>, want |-> 2, clear |-> FALSE, msg |-> <<"task">>]
  BY <1>3, <1>6, Zenon DEF Took, Task, LastTwo
<1>7. QED
  BY <1>4, <1>5, <1>6

\* What the wallet may take a message for.
Takings == Message \cup {"junk"}

LEMMA HalvesAssociate == \A u, v, w \in Seq(Half) : (u \o v) \o w = u \o (v \o w)
BY Associates, SMTT(30)

\* The halves P are H and then R.
SplitIn(P, H, R) ==
  /\ Len(P) = Len(H) + Len(R) /\ Len(H) \in Nat /\ Len(R) \in Nat
  /\ \A i \in 1 .. Len(H) : P[i] = H[i]
  /\ \A i \in 1 .. Len(R) : P[Len(H) + i] = R[i]

\* A buffer and what is left of the feed are what was pending.
LEMMA ReadParts ==
  ASSUME NEW B \in Seq(Half), NEW F \in Seq(Half), NEW k \in 1 .. Len(F)
  PROVE  LET H == B \o SubSeq(F, 1, k)
             R == SubSeq(F, k + 1, Len(F))
         IN /\ H \in Seq(Half) /\ R \in Seq(Half) /\ H \o R = B \o F /\ B \o F \in Seq(Half)
            /\ SplitIn(B \o F, H, R)
<1> DEFINE T == SubSeq(F, 1, k)
           H == B \o T
           R == SubSeq(F, k + 1, Len(F))
<1>1. T \in Seq(Half) /\ R \in Seq(Half) /\ T \o R = F
  BY Cut
<1> HIDE DEF T, R
<1>2. H \in Seq(Half)
  BY <1>1, ConcatProperties
<1>3. H \o R = B \o F
  <2>1. \A u, v, w \in Seq(Half) : (u \o v) \o w = u \o (v \o w)
    BY HalvesAssociate
  <2>2. (B \o T) \o R = B \o (T \o R)
    <3>1. T \in Seq(Half) /\ R \in Seq(Half)
      BY <1>1
    <3>2. QED
      BY <2>1, <3>1, Zenon
  <2>3. QED
    BY <1>1, <2>2, Zenon
<1> HIDE DEF H
<1>4. /\ Len(H \o R) = Len(H) + Len(R) /\ H \o R \in Seq(Half)
      /\ \A i \in 1 .. Len(H) + Len(R) : (H \o R)[i] = IF i <= Len(H) THEN H[i] ELSE R[i - Len(H)]
  BY <1>1, <1>2, ConcatProperties
<1>5. Len(H) \in Nat /\ Len(R) \in Nat
  BY <1>1, <1>2, LenProperties
<1>6. \A i \in 1 .. Len(H) : (H \o R)[i] = H[i]
  BY <1>4, <1>5
<1>7. ASSUME NEW i \in 1 .. Len(R) PROVE (H \o R)[Len(H) + i] = R[i]
  <2>1. Len(H) + i \in 1 .. Len(H) + Len(R) /\ ~(Len(H) + i <= Len(H)) /\ Len(H) + i - Len(H) = i
    BY <1>5
  <2>2. QED
    BY <1>4, <2>1
<1>8. SplitIn(H \o R, H, R)
  BY <1>4, <1>5, <1>6, <1>7 DEF SplitIn
<1>9. QED
  BY <1>1, <1>2, <1>3, <1>4, <1>8, Zenon DEF H, R, T

\* The next message of the pool, taken for what it is.
LEMMA TakenRight ==
  ASSUME NEW G \in Seq(Takings), NEW S \in Seq(Message), NEW kind \in Message,
         Len(G) + 1 \in 1 .. Len(S), S[Len(G) + 1] = kind, TakenOf(G, S)
  PROVE  Len(G \o <<kind>>) = Len(G) + 1 /\ TakenOf(G \o <<kind>>, S)
<1> DEFINE D == G \o <<kind>>
<1>1. <<kind>> \in Seq(Takings) /\ Len(<<kind>>) = 1 /\ <<kind>>[1] = kind
  BY DEF Takings
<1>2. /\ Len(D) = Len(G) + 1 /\ Len(G) \in Nat
      /\ \A i \in 1 .. Len(G) + 1 : D[i] = IF i <= Len(G) THEN G[i] ELSE <<kind>>[i - Len(G)]
  BY <1>1, ConcatProperties, LenProperties
<1> HIDE DEF D
<1>3. ASSUME NEW i \in 1 .. Len(D) PROVE D[i] = S[i]
  <2>0. \A j \in 1 .. Len(G) : G[j] = S[j]
    BY DEF TakenOf
  <2>1. CASE i <= Len(G)
    <3>1. i \in 1 .. Len(G) /\ i \in 1 .. Len(G) + 1
      BY <1>2, <2>1
    <3>2. QED
      BY <1>2, <2>0, <2>1, <3>1
  <2>2. CASE i > Len(G)
    <3>1. i = Len(G) + 1 /\ i - Len(G) = 1 /\ ~(i <= Len(G))
      BY <1>2, <2>2
    <3>2. QED
      BY <1>1, <1>2, <3>1
  <2>3. QED
    BY <1>2, <2>1, <2>2
<1>4. TakenOf(D, S)
  BY <1>2, <1>3 DEF TakenOf
<1>5. QED
  BY <1>2, <1>4 DEF D

\* A read of the stream P has filled the buffer H of w halves; N is its last field.
Filled(P, H, rest, b, n, w, N, G, S, K, L) ==
  /\ H \in Seq(Half) /\ SplitIn(P, H, rest) /\ Len(H) = w
  /\ b \in Nat /\ n \in Nat /\ w \in {2, 4} /\ N = IF w = 4 THEN b + 1 ELSE b
  /\ G \in Seq(Takings) /\ S \in Seq(Message) /\ K \in KindMaps /\ L \in LabelMaps
  /\ Place(S, n, G, P, b, K, L) /\ (w = 4 => K[b] = "task") /\ TakenOf(G, S)

\* A buffer H that is full, in the stream P: it ends with a field under its own number N,
\* and it is a balance, the first field of a task, or a task.
LEMMA FullBuffer ==
  ASSUME NEW P, NEW H, NEW rest, NEW b, NEW n, NEW w, NEW N, NEW G, NEW S, NEW K, NEW L,
         Filled(P, H, rest, b, n, w, N, G, S, K, L)
  PROVE  /\ H[Len(H) - 1] = HalfOf(N, 1, K) /\ H[Len(H)] = HalfOf(N, 2, K)
         /\ \/ /\ w = 2 /\ K[N] = "balance" /\ N + 1 = b + 1
               /\ TakenOf(G \o <<"balance">>, S)
               /\ Place(S, n, G \o <<"balance">>, rest, b + 1, K, L)
            \/ w = 2 /\ K[N] = "task" /\ N = b
            \/ /\ w = 4 /\ K[N] = "rest" /\ H[1].of = "task" /\ N + 1 = b + 2
               /\ TakenOf(G \o <<"task">>, S)
               /\ Place(S, n, G \o <<"task">>, rest, b + 2, K, L)
<1>0. /\ H \in Seq(Half) /\ SplitIn(P, H, rest) /\ Len(H) = w
      /\ b \in Nat /\ n \in Nat /\ w \in {2, 4} /\ N = IF w = 4 THEN b + 1 ELSE b
      /\ G \in Seq(Takings) /\ S \in Seq(Message) /\ K \in KindMaps /\ L \in LabelMaps
      /\ Place(S, n, G, P, b, K, L) /\ (w = 4 => K[b] = "task") /\ TakenOf(G, S)
  BY DEF Filled
<1> USE <1>0
<1>1. /\ History(S, n, K, L) /\ Placed(P, b, n, K) /\ Begins(b, n, Len(G), S, K, L)
      /\ Len(G) \in Nat /\ Len(S) \in Nat
  BY LenProperties DEF Place
<1>2. Len(P) = 2 * (n - b) /\ b <= n
  BY <1>1 DEF Placed
<1>3. b < n
  <2>1. Len(P) >= 2
    BY DEF SplitIn
  <2>2. QED
    BY <1>2, <2>1
<1>4. /\ Len(G) + 1 \in 1 .. Len(S) /\ K[b] # "rest"
      /\ S[Len(G) + 1] = "balance" <=> K[b] = "balance"
      /\ K[b] # "task" => Begins(b + 1, n, Len(G) + 1, S, K, L)
      /\ K[b] = "task" => b + 1 < n /\ K[b + 1] = "rest" /\ Begins(b + 2, n, Len(G) + 1, S, K, L)
  BY <1>1, <1>3, NextBegins
<1>5. P[1] = HalfOf(b, 1, K) /\ P[2] = HalfOf(b, 2, K)
  BY <1>1, <1>3, PlacedFirst
<1>6. \A d \in 1 .. 2 : b + d <= n /\ Len(H) = 2 * d => Placed(rest, b + d, n, K)
  <2>1. ASSUME NEW d \in 1 .. 2, b + d <= n, Len(H) = 2 * d PROVE Placed(rest, b + d, n, K)
    <3>1. Len(rest) = Len(P) - 2 * d /\ \A i \in 1 .. Len(rest) : rest[i] = P[2 * d + i]
      BY <2>1 DEF SplitIn
    <3>2. QED
      BY <1>1, <2>1, <3>1, PlacedDrop
  <2>2. QED
    BY <2>1
<1>7. \A kind \in Message : S[Len(G) + 1] = kind =>
        Len(G \o <<kind>>) = Len(G) + 1 /\ TakenOf(G \o <<kind>>, S)
  BY <1>4, TakenRight
<1>8. CASE w = 2
  <2>1. N = b /\ Len(H) = 2 /\ H[1] = P[1] /\ H[2] = P[2]
    BY <1>8 DEF SplitIn
  <2>2. H[Len(H) - 1] = HalfOf(N, 1, K) /\ H[Len(H)] = HalfOf(N, 2, K)
    BY <1>5, <2>1
  <2>3. K[b] \in Kinds
    BY DEF KindMaps
  <2>4. CASE K[b] = "balance"
    <3>1. /\ "balance" \in Message /\ S[Len(G) + 1] = "balance" /\ 1 \in 1 .. 2 /\ b + 1 <= n
          /\ Len(H) = 2 * 1 /\ b + 1 \in Nat
      BY <1>3, <1>4, <2>1, <2>4 DEF Message
    <3>2. Len(G \o <<"balance">>) = Len(G) + 1 /\ TakenOf(G \o <<"balance">>, S)
      BY <1>7, <3>1
    <3>3. Placed(rest, b + 1, n, K)
      BY <1>6, <3>1
    <3>4. Begins(b + 1, n, Len(G) + 1, S, K, L)
      BY <1>4, <2>4
    <3>5. Place(S, n, G \o <<"balance">>, rest, b + 1, K, L)
      BY <1>1, <3>1, <3>2, <3>3, <3>4 DEF Place
    <3>6. QED
      BY <1>8, <2>1, <2>2, <2>4, <3>2, <3>5
  <2>5. CASE K[b] # "balance"
    BY <1>4, <1>8, <2>1, <2>2, <2>3, <2>5 DEF Kinds
  <2>6. QED
    BY <2>4, <2>5
<1>9. CASE w = 4
  <2>1. N = b + 1 /\ Len(H) = 4 /\ K[b] = "task" /\ b + 1 < n /\ K[N] = "rest"
    BY <1>4, <1>9
  <2>2. P[3] = HalfOf(N, 1, K) /\ P[4] = HalfOf(N, 2, K)
    BY <1>1, <2>1, PlacedFirst
  <2>3. H[1] = P[1] /\ H[3] = P[3] /\ H[4] = P[4]
    BY <2>1 DEF SplitIn
  <2>4. H[Len(H) - 1] = HalfOf(N, 1, K) /\ H[Len(H)] = HalfOf(N, 2, K)
    BY <2>1, <2>2, <2>3
  <2>5. H[1].of = "task"
    BY <1>5, <2>1, <2>3 DEF HalfOf
  <2>6. S[Len(G) + 1] = "task" /\ "task" \in Message
    <3>1. S[Len(G) + 1] \in Message
      BY <1>4, ElementOfSeq
    <3>2. S[Len(G) + 1] # "balance"
      BY <1>4, <2>1
    <3>3. QED
      BY <3>1, <3>2 DEF Message
  <2>7. Len(G \o <<"task">>) = Len(G) + 1 /\ TakenOf(G \o <<"task">>, S)
    BY <1>7, <2>6
  <2>8. 2 \in 1 .. 2 /\ b + 2 <= n /\ Len(H) = 2 * 2 /\ b + 2 \in Nat
    BY <2>1
  <2>9. Placed(rest, b + 2, n, K)
    BY <1>6, <2>8
  <2>10. Place(S, n, G \o <<"task">>, rest, b + 2, K, L)
    BY <1>1, <1>4, <2>1, <2>7, <2>8, <2>9 DEF Place
  <2>11. N + 1 = b + 2
    BY <2>1
  <2>12. QED
    BY <1>9, <2>1, <2>4, <2>5, <2>7, <2>10, <2>11
<1>10. QED
  BY <1>8, <1>9

\* A step that leaves both ends of the pool's messages alone, and opens nothing.
LEMMA InFrame ==
  ASSUME InInv, UNCHANGED <<in, want, clear, got, feed, sent, count>>,
         \A c \in Miners : conn'[c] \in {"open", "fin"} =>
           conn[c] \in {"open", "fin"} /\ nin' = nin
  PROVE  InInv'
<1>1. \A c \in Miners : TakenOf(got'[c], sent'[c])
  BY DEF InInv
<1>2. ASSUME NEW c \in Miners, conn'[c] \in {"open", "fin"}
      PROVE  \E K \in KindMaps : \E L \in LabelMaps : Position(c, K, L)'
  <2>1. PICK K \in KindMaps : \E L \in LabelMaps : Position(c, K, L)
    BY <1>2 DEF InInv
  <2>2. PICK L \in LabelMaps : Position(c, K, L)
    BY <2>1
  <2>3. Position(c, K, L)'
    BY <1>2, <2>2 DEF Position, Pending, Base
  <2>4. QED
    BY <2>3
<1>3. QED
  BY <1>1, <1>2 DEF InInv

\* A read, however it is cut: the buffer keeps what it has, or the next message is
\* taken for what the pool sent.
LEMMA MinerReadPosition ==
  ASSUME Control, InInv, NEW m \in Miners, MinerRead(m)
  PROVE  /\ TakenOf(got'[m], sent'[m])
         /\ \E K \in KindMaps : \E L \in LabelMaps : Position(m, K, L)'
<1> USE Sets DEF Control
<1>1. /\ conn[m] \in {"open", "fin"} /\ UNCHANGED <<sent, count>>
  BY MinerReads
<1>2. PICK k \in 1 .. Len(feed[m]) : \E H \in Seq(Half) :
        /\ H = in[m] \o SubSeq(feed[m], 1, k)
        /\ Len(H) = Len(in[m]) + k /\ Len(H) <= want[m]
        /\ feed' = [feed EXCEPT ![m] = SubSeq(feed[m], k + 1, Len(feed[m]))]
        /\ Outcome(m, H)
  BY MinerReads
<1>3. PICK H \in Seq(Half) :
        /\ H = in[m] \o SubSeq(feed[m], 1, k)
        /\ Len(H) = Len(in[m]) + k /\ Len(H) <= want[m]
        /\ feed' = [feed EXCEPT ![m] = SubSeq(feed[m], k + 1, Len(feed[m]))]
        /\ Outcome(m, H)
  BY <1>2
<1>4. PICK K \in KindMaps : \E L \in LabelMaps : Position(m, K, L)
  BY <1>1 DEF InInv
<1>5. PICK L \in LabelMaps : Position(m, K, L)
  BY <1>4
<1>6. /\ feed[m] \in Seq(Half) /\ sent[m] \in Seq(Message) /\ count[m] \in Nat
  BY TypeParts DEF TypePool
<1>7. /\ in[m] \in Seq(Half) /\ want[m] \in {2, 4} /\ got[m] \in Seq(Takings)
  BY TypeParts DEF TypeReading, Takings
<1>8. Base(m) \in Nat /\ nin \in Nat
  BY <1>5, TypeParts DEF Position, Place, TypeControl
<1>9. PICK rest \in Seq(Half) :
        /\ rest = SubSeq(feed[m], k + 1, Len(feed[m])) /\ H \o rest = Pending(m)
        /\ SplitIn(Pending(m), H, rest)
  <2>1. PICK B \in Seq(Half), F \in Seq(Half) : B = in[m] /\ F = feed[m]
    BY <1>6, <1>7
  <2>2. H = B \o SubSeq(F, 1, k) /\ k \in 1 .. Len(F)
    BY <1>2, <1>3, <2>1
  <2> DEFINE rest == SubSeq(F, k + 1, Len(F))
  <2>3. rest \in Seq(Half) /\ H \o rest = B \o F /\ SplitIn(B \o F, H, rest)
    BY <2>2, ReadParts
  <2>4. Pending(m) = B \o F
    BY <2>1 DEF Pending
  <2>5. QED
    BY <2>1, <2>3, <2>4
<1>10. feed'[m] = rest
  BY <1>3, <1>9, TypeParts DEF TypePool
<1>11. PICK b \in Nat, n \in Nat, w \in {2, 4}, N \in Nat, G \in Seq(Takings), S \in Seq(Message) :
         /\ b = Base(m) /\ n = count[m] /\ w = want[m] /\ N = nin /\ G = got[m] /\ S = sent[m]
  BY <1>6, <1>7, <1>8
<1>12. PICK P : P = Pending(m)
  OBVIOUS
<1>13. Place(S, n, G, P, b, K, L) /\ (w = 4 => clear[m] /\ Len(in[m]) >= 2 /\ K[b] = "task")
  BY <1>5, <1>11, <1>12, Zenon DEF Position
<1>14. TakenOf(G, S)
  BY <1>11 DEF InInv
<1>15. N = IF w = 4 THEN b + 1 ELSE b
  <2>1. b = IF w = 4 THEN N - 1 ELSE N
    BY <1>11 DEF Base
  <2>2. QED
    BY <2>1
<1>16. count'[m] = n /\ sent'[m] = S
  BY <1>1, <1>11
<1>17. CASE Len(H) < want[m]
  <2>1. in'[m] = H /\ want'[m] = w /\ clear'[m] = clear[m] /\ got'[m] = G /\ nin' = N
    BY <1>3, <1>11, <1>17, TypeParts DEF Outcome, TypeReading
  <2>2. Pending(m)' = P
    BY <1>9, <1>10, <1>12, <2>1, Zenon DEF Pending
  <2>3. Base(m)' = b
    BY <1>11, <2>1, Zenon DEF Base
  <2>4. w = 4 => Len(in'[m]) >= 2
    <3>1. Len(H) >= Len(in[m]) /\ Len(in[m]) \in Nat
      BY <1>3, <1>7
    <3>2. Len(in'[m]) = Len(H) /\ Len(H) \in Nat
      BY <2>1
    <3>3. QED
      BY <1>13, <3>1, <3>2
  <2>5. Position(m, K, L)'
    BY <1>13, <1>16, <2>1, <2>2, <2>3, <2>4, Zenon DEF Position
  <2>6. TakenOf(got'[m], sent'[m])
    BY <1>14, <1>16, <2>1, Zenon
  <2>7. QED
    BY <2>5, <2>6
<1>18. CASE Len(H) = want[m]
  <2>1. PICK t : t = Took(m, H)
    OBVIOUS
  <2>2. /\ nin' = N + 1 /\ in'[m] = t.in /\ want'[m] = t.want /\ clear'[m] = t.clear
        /\ got'[m] = G \o t.msg
    <3>1. ~(Len(H) < want[m])
      BY <1>7, <1>18
    <3>2. /\ nin' = nin + 1
          /\ in' = [in EXCEPT ![m] = t.in] /\ want' = [want EXCEPT ![m] = t.want]
          /\ clear' = [clear EXCEPT ![m] = t.clear]
          /\ got' = [got EXCEPT ![m] = got[m] \o t.msg]
      BY <1>3, <2>1, <3>1, Zenon DEF Outcome
    <3>3. QED
      BY <1>11, <3>2, TypeParts DEF TypeReading
  <2>3. SplitIn(P, H, rest) /\ Len(H) = w /\ (w = 4 => K[b] = "task")
    BY <1>9, <1>11, <1>12, <1>13, <1>18
  <2>4. /\ H[Len(H) - 1] = HalfOf(N, 1, K) /\ H[Len(H)] = HalfOf(N, 2, K)
        /\ \/ /\ w = 2 /\ K[N] = "balance" /\ N + 1 = b + 1
              /\ TakenOf(G \o <<"balance">>, S)
              /\ Place(S, n, G \o <<"balance">>, rest, b + 1, K, L)
           \/ w = 2 /\ K[N] = "task" /\ N = b
           \/ /\ w = 4 /\ K[N] = "rest" /\ H[1].of = "task" /\ N + 1 = b + 2
              /\ TakenOf(G \o <<"task">>, S)
              /\ Place(S, n, G \o <<"task">>, rest, b + 2, K, L)
    <3>1. Filled(P, H, rest, b, n, w, N, G, S, K, L)
      BY <1>13, <1>14, <1>15, <2>3 DEF Filled
    <3>2. QED
      BY <3>1, FullBuffer
  <2>5. /\ K[N] = "balance" => t = [in |-> <<>>, want |-> 2, clear |-> FALSE, msg |-> <<"balance">>]
        /\ K[N] # "balance" /\ w = 2 => t = [in |-> H, want |-> 4, clear |-> TRUE, msg |-> <<>>]
        /\ K[N] # "balance" /\ w = 4 /\ clear[m] /\ H[1].of = "task" =>
             t = [in |-> <<>>, want |-> 2, clear |-> FALSE, msg |-> <<"task">>]
    <3>1. /\ Len(H) \in {2, 4} /\ H[Len(H) - 1] = HalfOf(nin, 1, K) /\ H[Len(H)] = HalfOf(nin, 2, K)
      BY <1>11, <2>3, <2>4
    <3>2. QED
      BY <1>11, <1>18, <2>1, <3>1, TookRight
  \* The message is complete.
  <2>6. ASSUME NEW kind, NEW e \in Nat, N + 1 = e,
               t = [in |-> <<>>, want |-> 2, clear |-> FALSE, msg |-> <<kind>>],
               TakenOf(G \o <<kind>>, S), Place(S, n, G \o <<kind>>, rest, e, K, L)
        PROVE  TakenOf(got'[m], sent'[m]) /\ Position(m, K, L)'
    <3>1. in'[m] = <<>> /\ want'[m] = 2 /\ got'[m] = G \o <<kind>>
      BY <2>2, <2>6
    <3>2. Pending(m)' = rest
      <4>1. <<>> \o rest = rest
        BY ConcatEmptySeq
      <4>2. QED
        BY <1>10, <3>1, <4>1, Zenon DEF Pending
    <3>3. Base(m)' = e
      BY <2>2, <2>6, <3>1 DEF Base
    <3>4. want'[m] # 4
      BY <3>1
    <3>5. QED
      BY <1>16, <2>6, <3>1, <3>2, <3>3, <3>4, Zenon DEF Position
  <2>7. CASE w = 2 /\ K[N] = "balance"
    <3>1. t = [in |-> <<>>, want |-> 2, clear |-> FALSE, msg |-> <<"balance">>]
      BY <2>5, <2>7
    <3>2. /\ N + 1 = b + 1 /\ b + 1 \in Nat /\ TakenOf(G \o <<"balance">>, S)
          /\ Place(S, n, G \o <<"balance">>, rest, b + 1, K, L)
      BY <2>4, <2>7
    <3>3. QED
      BY <2>6, <3>1, <3>2
  <2>8. CASE w = 2 /\ K[N] = "task" /\ N = b
    <3>1. t = [in |-> H, want |-> 4, clear |-> TRUE, msg |-> <<>>]
      BY <2>5, <2>8
    <3>2. t.in = H /\ t.want = 4 /\ t.clear = TRUE /\ t.msg = <<>>
      BY <3>1
    <3>3. G \o <<>> = G
      BY ConcatEmptySeq
    <3>4. in'[m] = H /\ want'[m] = 4 /\ clear'[m] = TRUE /\ got'[m] = G
      BY <2>2, <3>2, <3>3, Zenon
    <3>5. Pending(m)' = P
      BY <1>9, <1>10, <1>12, <3>4, Zenon DEF Pending
    <3>6. Base(m)' = b
      <4>1. nin' - 1 = b
        BY <2>2, <2>8
      <4>2. QED
        BY <3>4, <4>1 DEF Base
    <3>7. Len(in'[m]) >= 2 /\ clear'[m] /\ K[b] = "task"
      <4>1. Len(H) = 2
        BY <2>3, <2>8
      <4>2. Len(in'[m]) = 2
        BY <3>4, <4>1
      <4>3. K[b] = "task"
        BY <2>8
      <4>4. clear'[m]
        BY <3>4
      <4>5. QED
        BY <4>2, <4>3, <4>4
    <3>8. Position(m, K, L)'
      BY <1>13, <1>16, <3>4, <3>5, <3>6, <3>7, Zenon DEF Position
    <3>9. QED
      BY <1>14, <1>16, <3>4, <3>8, Zenon
  <2>9. CASE w = 4
    <3>1. /\ K[N] = "rest" /\ H[1].of = "task" /\ N + 1 = b + 2 /\ b + 2 \in Nat
          /\ TakenOf(G \o <<"task">>, S) /\ Place(S, n, G \o <<"task">>, rest, b + 2, K, L)
      BY <2>4, <2>9
    <3>2. t = [in |-> <<>>, want |-> 2, clear |-> FALSE, msg |-> <<"task">>]
      BY <1>13, <2>5, <2>9, <3>1
    <3>3. QED
      BY <2>6, <3>1, <3>2
  <2>10. QED
    BY <2>4, <2>7, <2>8, <2>9
<1>19. QED
  BY <1>3, <1>7, <1>17, <1>18

LEMMA MinerReadIn ==
  ASSUME Control, InInv, NEW m \in Miners, MinerRead(m)
  PROVE  InInv'
<1> USE Sets DEF Control
<1>1. /\ sock = m /\ UNCHANGED <<conn, sent>>
  BY MinerReads
<1>2. \A c \in Miners : c # m => got'[c] = got[c]
  <2>1. PICK k \in 1 .. Len(feed[m]) : \E H \in Seq(Half) : Outcome(m, H)
    BY MinerReads
  <2>2. QED
    BY <2>1, TypeParts DEF Outcome, TypeReading
<1>3. ASSUME NEW c \in Miners, c # m PROVE TakenOf(got'[c], sent'[c]) /\ conn'[c] \notin {"open", "fin"}
  <2>1. conn'[c] \notin {"open", "fin"}
    BY <1>1, <1>3 DEF OneMiner, ItsSocket
  <2>2. QED
    BY <1>1, <1>2, <1>3, <2>1 DEF InInv
<1>4. QED
  BY <1>3, MinerReadPosition DEF InInv

-----------------------------------------------------------------------------
(* A message of the pool *)

\* The messages S, of n fields, and one more: S1, of e fields.
Added(S, n, K, L, kind, S1, e, K1, L1) ==
  /\ n \in Nat /\ kind \in Message /\ e = n + IF kind = "task" THEN 2 ELSE 1
  /\ Len(S) \in Nat /\ Len(S1) = Len(S) + 1 /\ S1[Len(S) + 1] = kind
  /\ \A i \in 1 .. Len(S) : S1[i] = S[i]
  /\ \A f \in 0 .. n - 1 : K1[f] = K[f] /\ L1[f] = L[f]
  /\ K1[n] = kind /\ L1[n] = Len(S) + 1
  /\ kind = "task" => K1[n + 1] = "rest" /\ L1[n + 1] = Len(S) + 1

LEMMA HistoryGrows ==
  ASSUME NEW S, NEW n, NEW K, NEW L, NEW kind, NEW S1, NEW e, NEW K1, NEW L1,
         Added(S, n, K, L, kind, S1, e, K1, L1), History(S, n, K, L)
  PROVE  History(S1, e, K1, L1)
<1>1. n \in Nat /\ Len(S) \in Nat /\ Len(S1) = Len(S) + 1 /\ (kind = "task" \/ kind = "balance")
  BY DEF Added, Message
<1>2. /\ kind = "task" => e = n + 2
      /\ kind # "task" => e = n + 1
  BY DEF Added
<1>3. ASSUME NEW f \in 0 .. n - 1
      PROVE  L1[f] \in 1 .. Len(S1) /\ (S1[L1[f]] = "balance" <=> K1[f] = "balance")
  <2>1. L1[f] = L[f] /\ K1[f] = K[f] /\ L[f] \in 1 .. Len(S) /\ (S[L[f]] = "balance" <=> K[f] = "balance")
    BY DEF Added, History
  <2>2. S1[L[f]] = S[L[f]]
    BY <2>1 DEF Added
  <2>3. QED
    BY <1>1, <2>1, <2>2
<1>4. /\ L1[n] = Len(S) + 1 /\ K1[n] = kind /\ S1[Len(S) + 1] = kind
      /\ kind = "task" => L1[n + 1] = Len(S) + 1 /\ K1[n + 1] = "rest"
  BY DEF Added
<1>5. ASSUME NEW f \in 0 .. e - 1
      PROVE  L1[f] \in 1 .. Len(S1) /\ (S1[L1[f]] = "balance" <=> K1[f] = "balance")
  <2>1. f \in 0 .. n - 1 \/ f = n \/ (kind = "task" /\ f = n + 1)
    BY <1>1, <1>2
  <2>2. CASE f = n
    BY <1>1, <1>4, <2>2
  <2>3. CASE kind = "task" /\ f = n + 1
    BY <1>1, <1>4, <2>3
  <2>4. QED
    BY <1>3, <2>1, <2>2, <2>3
<1>6. ASSUME NEW f \in 0 .. e - 1, f + 1 < e
      PROVE  IF K1[f] = "task" THEN L1[f + 1] = L1[f] /\ K1[f + 1] = "rest"
                               ELSE L1[f + 1] = L1[f] + 1 /\ K1[f + 1] # "rest"
  <2>1. (f \in 0 .. n - 1 /\ f + 1 < n) \/ (f \in 0 .. n - 1 /\ f + 1 = n) \/ (kind = "task" /\ f = n)
    BY <1>1, <1>2, <1>6
  <2>2. CASE f \in 0 .. n - 1 /\ f + 1 < n
    <3>1. IF K[f] = "task" THEN L[f + 1] = L[f] /\ K[f + 1] = "rest"
                           ELSE L[f + 1] = L[f] + 1 /\ K[f + 1] # "rest"
      BY <2>2 DEF History
    <3>2. f + 1 \in 0 .. n - 1
      BY <1>1, <2>2
    <3>3. K1[f] = K[f] /\ L1[f] = L[f] /\ K1[f + 1] = K[f + 1] /\ L1[f + 1] = L[f + 1]
      BY <2>2, <3>2 DEF Added
    <3>4. QED
      BY <3>1, <3>3
  <2>3. CASE f \in 0 .. n - 1 /\ f + 1 = n
    <3>1. L[n - 1] = Len(S) /\ K[n - 1] # "task" /\ f = n - 1
      BY <1>1, <2>3 DEF History
    <3>2. K1[f] = K[f] /\ L1[f] = L[f]
      BY <2>3 DEF Added
    <3>3. kind # "rest"
      BY <1>1
    <3>4. QED
      BY <1>4, <2>3, <3>1, <3>2, <3>3
  <2>4. CASE kind = "task" /\ f = n
    BY <1>4, <2>4
  <2>5. QED
    BY <2>1, <2>2, <2>3, <2>4
<1>7. L1[0] = 1 /\ K1[0] # "rest"
  <2>1. CASE n = 0
    <3>1. Len(S) = 0
      BY <2>1 DEF History
    <3>2. QED
      BY <1>1, <1>4, <2>1, <3>1
  <2>2. CASE n # 0
    <3>1. 0 \in 0 .. n - 1 /\ n > 0
      BY <1>1, <2>2
    <3>2. K1[0] = K[0] /\ L1[0] = L[0]
      BY <3>1 DEF Added
    <3>3. QED
      BY <3>1, <3>2 DEF History
  <2>3. QED
    BY <2>1, <2>2
<1>8. L1[e - 1] = Len(S1) /\ K1[e - 1] # "task"
  <2>1. CASE kind = "task"
    <3>1. e - 1 = n + 1
      BY <1>1, <1>2, <2>1
    <3>2. QED
      BY <1>1, <1>4, <2>1, <3>1
  <2>2. CASE kind # "task"
    <3>1. e - 1 = n
      BY <1>1, <1>2, <2>2
    <3>2. QED
      BY <1>1, <1>4, <2>2, <3>1
  <2>3. QED
    BY <2>1, <2>2
<1>9. e # 0
  BY <1>1, <1>2
<1>10. QED
  BY <1>5, <1>6, <1>7, <1>8, <1>9 DEF History

LEMMA BeginsGrows ==
  ASSUME NEW S, NEW n, NEW K, NEW L, NEW kind, NEW S1, NEW e, NEW K1, NEW L1,
         Added(S, n, K, L, kind, S1, e, K1, L1),
         NEW b \in Nat, NEW g, Begins(b, n, g, S, K, L), b <= n
  PROVE  Begins(b, e, g, S1, K1, L1)
<1>1. n \in Nat /\ Len(S) \in Nat /\ Len(S1) = Len(S) + 1 /\ (kind = "task" \/ kind = "balance")
  BY DEF Added, Message
<1>2. b # e
  BY <1>1 DEF Added
<1>3. CASE b = n
  <2>1. g = Len(S) /\ L1[b] = Len(S) + 1 /\ K1[b] = kind
    BY <1>3 DEF Begins, Added
  <2>2. QED
    BY <1>1, <1>2, <2>1 DEF Begins
<1>4. CASE b # n
  <2>1. b \in 0 .. n - 1
    BY <1>1, <1>4
  <2>2. K1[b] = K[b] /\ L1[b] = L[b]
    BY <2>1 DEF Added
  <2>3. QED
    BY <1>2, <1>4, <2>2 DEF Begins
<1>5. QED
  BY <1>3, <1>4

\* The halves of the new message follow those that were pending.
LEMMA PlacedGrows ==
  ASSUME NEW S, NEW n, NEW K, NEW L, NEW kind, NEW S1, NEW e, NEW K1, NEW L1,
         Added(S, n, K, L, kind, S1, e, K1, L1),
         NEW P \in Seq(Half), NEW M \in Seq(Half), IsMessage(M, n, kind),
         NEW b \in Nat, Placed(P, b, n, K)
  PROVE  Placed(P \o M, b, e, K1)
<1> DEFINE Q == P \o M
<1>1. n \in Nat /\ (kind = "task" \/ kind = "balance") /\ b <= n /\ Len(P) = 2 * (n - b)
  BY DEF Added, Message, Placed
<1>2. /\ kind = "task" => e = n + 2 /\ Len(M) = 4 /\ K1[n + 1] = "rest"
      /\ kind # "task" => e = n + 1 /\ Len(M) = 2
      /\ K1[n] = kind
  BY DEF Added, IsMessage
<1>3. /\ Len(Q) = Len(P) + Len(M)
      /\ \A i \in 1 .. Len(P) + Len(M) : Q[i] = IF i <= Len(P) THEN P[i] ELSE M[i - Len(P)]
  BY ConcatProperties
<1>4. Len(P) \in Nat /\ Len(M) \in Nat
  BY LenProperties
<1> HIDE DEF Q
<1>5. ASSUME NEW f \in b .. n - 1
      PROVE  Q[2 * (f - b) + 1] = HalfOf(f, 1, K1) /\ Q[2 * (f - b) + 2] = HalfOf(f, 2, K1)
  <2>1. P[2 * (f - b) + 1] = HalfOf(f, 1, K) /\ P[2 * (f - b) + 2] = HalfOf(f, 2, K)
    BY DEF Placed
  <2>2. f \in 0 .. n - 1
    BY <1>1
  <2>3. K1[f] = K[f]
    BY <2>2 DEF Added
  <2>4. /\ 2 * (f - b) + 1 \in 1 .. Len(P) + Len(M) /\ 2 * (f - b) + 1 <= Len(P)
        /\ 2 * (f - b) + 2 \in 1 .. Len(P) + Len(M) /\ 2 * (f - b) + 2 <= Len(P)
    BY <1>1, <1>4
  <2>5. Q[2 * (f - b) + 1] = P[2 * (f - b) + 1] /\ Q[2 * (f - b) + 2] = P[2 * (f - b) + 2]
    BY <1>3, <2>4
  <2>6. QED
    BY <2>1, <2>3, <2>5 DEF HalfOf
<1>6. \A i \in 1 .. Len(M) : Q[Len(P) + i] = M[i]
  <2>1. ASSUME NEW i \in 1 .. Len(M) PROVE Q[Len(P) + i] = M[i]
    <3>1. /\ Len(P) + i \in 1 .. Len(P) + Len(M) /\ ~(Len(P) + i <= Len(P))
          /\ Len(P) + i - Len(P) = i
      BY <1>4
    <3>2. QED
      BY <1>3, <3>1
  <2>2. QED
    BY <2>1
<1>7. /\ M[1] = HalfOf(n, 1, K1) /\ M[2] = HalfOf(n, 2, K1)
      /\ kind = "task" => M[3] = HalfOf(n + 1, 1, K1) /\ M[4] = HalfOf(n + 1, 2, K1)
  <2>1. CASE kind = "task"
    <3>1. /\ M[1] = [num |-> n, part |-> 1, of |-> "task"] /\ M[2] = [num |-> n, part |-> 2, of |-> "task"]
          /\ M[3] = [num |-> n + 1, part |-> 1, of |-> "rest"]
          /\ M[4] = [num |-> n + 1, part |-> 2, of |-> "rest"]
      BY <2>1 DEF IsMessage
    <3>2. K1[n] = "task" /\ K1[n + 1] = "rest"
      BY <1>2, <2>1
    <3>3. QED
      BY <3>1, <3>2, Zenon DEF HalfOf
  <2>2. CASE kind # "task"
    <3>1. /\ M[1] = [num |-> n, part |-> 1, of |-> "balance"]
          /\ M[2] = [num |-> n, part |-> 2, of |-> "balance"]
      BY <2>2 DEF IsMessage
    <3>2. K1[n] = "balance"
      BY <1>1, <1>2, <2>2
    <3>3. QED
      BY <2>2, <3>1, <3>2, Zenon DEF HalfOf
  <2>3. QED
    BY <2>1, <2>2
<1>8. ASSUME NEW f \in b .. e - 1
      PROVE  Q[2 * (f - b) + 1] = HalfOf(f, 1, K1) /\ Q[2 * (f - b) + 2] = HalfOf(f, 2, K1)
  <2>1. f \in b .. n - 1 \/ f = n \/ (kind = "task" /\ f = n + 1)
    BY <1>1, <1>2
  <2>2. CASE f = n
    <3>1. 1 \in 1 .. Len(M) /\ 2 \in 1 .. Len(M)
      <4>1. Len(M) = 4 \/ Len(M) = 2
        BY <1>2
      <4>2. \A l \in {2, 4} : 1 \in 1 .. l /\ 2 \in 1 .. l
        OBVIOUS
      <4>3. QED
        BY <4>1, <4>2
    <3>2. Q[Len(P) + 1] = HalfOf(n, 1, K1) /\ Q[Len(P) + 2] = HalfOf(n, 2, K1)
      <4>1. Q[Len(P) + 1] = M[1] /\ Q[Len(P) + 2] = M[2]
        BY <1>6, <3>1, Zenon
      <4>2. QED
        BY <1>7, <4>1, Zenon
    <3>3. 2 * (f - b) + 1 = Len(P) + 1 /\ 2 * (f - b) + 2 = Len(P) + 2
      BY <1>1, <2>2
    <3>4. QED
      BY <2>2, <3>2, <3>3, Zenon
  <2>3. CASE kind = "task" /\ f = n + 1
    <3>1. 3 \in 1 .. Len(M) /\ 4 \in 1 .. Len(M)
      <4>1. Len(M) = 4
        BY <1>2, <2>3
      <4>2. 3 \in 1 .. 4 /\ 4 \in 1 .. 4
        OBVIOUS
      <4>3. QED
        BY <4>1, <4>2, Zenon
    <3>2. Q[Len(P) + 3] = HalfOf(n + 1, 1, K1) /\ Q[Len(P) + 4] = HalfOf(n + 1, 2, K1)
      <4>1. Q[Len(P) + 3] = M[3] /\ Q[Len(P) + 4] = M[4]
        BY <1>6, <3>1, Zenon
      <4>2. QED
        BY <1>7, <2>3, <4>1, Zenon
    <3>3. 2 * (f - b) + 1 = Len(P) + 3 /\ 2 * (f - b) + 2 = Len(P) + 4
      BY <1>1, <2>3
    <3>4. QED
      BY <2>3, <3>2, <3>3, Zenon
  <2>4. QED
    BY <1>5, <2>1, <2>2, <2>3
<1>9. b <= e /\ Len(Q) = 2 * (e - b)
  <2>1. CASE kind = "task"
    <3>1. e = n + 2 /\ Len(Q) = Len(P) + 4
      BY <1>2, <1>3, <2>1
    <3>2. QED
      BY <1>1, <3>1
  <2>2. CASE kind # "task"
    <3>1. e = n + 1 /\ Len(Q) = Len(P) + 2
      BY <1>2, <1>3, <2>2
    <3>2. QED
      BY <1>1, <3>1
  <2>3. QED
    BY <2>1, <2>2
<1>10. QED
  BY <1>8, <1>9 DEF Placed, Q

\* The place of what is pending, after the message.
LEMMA PlaceGrows ==
  ASSUME NEW S, NEW n, NEW K, NEW L, NEW kind, NEW S1, NEW e, NEW K1, NEW L1,
         Added(S, n, K, L, kind, S1, e, K1, L1),
         NEW P \in Seq(Half), NEW M \in Seq(Half), IsMessage(M, n, kind),
         NEW b, NEW G, Place(S, n, G, P, b, K, L)
  PROVE  Place(S1, e, G, P \o M, b, K1, L1)
<1>1. /\ History(S, n, K, L) /\ b \in Nat /\ Placed(P, b, n, K)
      /\ Begins(b, n, Len(G), S, K, L) /\ b <= n
  BY DEF Place, Placed
<1>2. History(S1, e, K1, L1)
  BY <1>1, HistoryGrows
<1>3. Placed(P \o M, b, e, K1)
  BY <1>1, PlacedGrows
<1>4. Begins(b, e, Len(G), S1, K1, L1)
  BY <1>1, BeginsGrows
<1>5. QED
  BY <1>1, <1>2, <1>3, <1>4 DEF Place

\* The maps of the fields, after the message.
LEMMA MapsGrow ==
  ASSUME NEW S \in Seq(Message), NEW n \in Nat, NEW K \in KindMaps, NEW L \in LabelMaps,
         NEW kind \in Message
  PROVE  \E K1 \in KindMaps : \E L1 \in LabelMaps :
           Added(S, n, K, L, kind, Append(S, kind), n + IF kind = "task" THEN 2 ELSE 1, K1, L1)
<1> DEFINE l == Len(S) + 1
           K1 == [f \in Nat |-> IF f = n THEN kind
                                ELSE IF f = n + 1 /\ kind = "task" THEN "rest" ELSE K[f]]
           L1 == [f \in Nat |-> IF f = n THEN l
                                ELSE IF f = n + 1 /\ kind = "task" THEN l ELSE L[f]]
<1>1. l \in Nat
  BY LenProperties
<1>2. K1 \in KindMaps
  BY DEF KindMaps, Kinds, Message
<1>3. L1 \in LabelMaps
  <2> HIDE DEF l
  <2>1. QED
    BY <1>1 DEF LabelMaps
<1>4. /\ \A f \in 0 .. n - 1 : K1[f] = K[f] /\ L1[f] = L[f]
      /\ K1[n] = kind /\ L1[n] = l
      /\ kind = "task" => K1[n + 1] = "rest" /\ L1[n + 1] = l
  <2> HIDE DEF l
  <2>1. QED
    OBVIOUS
<1>5. /\ Len(S) \in Nat /\ Len(Append(S, kind)) = Len(S) + 1 /\ Append(S, kind)[Len(S) + 1] = kind
      /\ \A i \in 1 .. Len(S) : Append(S, kind)[i] = S[i]
  BY AppendProperties, LenProperties
<1> HIDE DEF K1, L1
<1>6. Added(S, n, K, L, kind, Append(S, kind), n + IF kind = "task" THEN 2 ELSE 1, K1, L1)
  BY <1>4, <1>5 DEF Added
<1>7. QED
  BY <1>2, <1>3, <1>6

\* The pool sends a message: it is pending whole, under the numbers that follow.
LEMMA PoolSendsIn ==
  ASSUME Control, InInv, NEW c \in Miners, PoolSends(c)
  PROVE  InInv'
<1> USE Sets DEF Control
<1>1. conn[c] = "open" /\ UNCHANGED <<nin, reading, conn>>
  BY PoolSendsMessage DEF shared
<1>2. PICK kind \in Message : \E M \in Seq(Half) :
        /\ IsMessage(M, count[c], kind)
        /\ feed' = [feed EXCEPT ![c] = feed[c] \o M]
        /\ sent' = [sent EXCEPT ![c] = Append(sent[c], kind)]
        /\ count' = [count EXCEPT ![c] = count[c] + IF kind = "task" THEN 2 ELSE 1]
  BY PoolSendsMessage
<1>3. PICK M \in Seq(Half) :
        /\ IsMessage(M, count[c], kind)
        /\ feed' = [feed EXCEPT ![c] = feed[c] \o M]
  BY <1>2
<1>4. /\ feed[c] \in Seq(Half) /\ sent[c] \in Seq(Message) /\ count[c] \in Nat /\ in[c] \in Seq(Half)
      /\ Len(got[c]) \in Nat
  <2>1. feed[c] \in Seq(Half) /\ sent[c] \in Seq(Message) /\ count[c] \in Nat
    BY TypeParts DEF TypePool
  <2>2. in[c] \in Seq(Half) /\ got[c] \in Seq(Takings)
    BY TypeParts DEF TypeReading, Takings
  <2>3. QED
    BY <2>1, <2>2, LenProperties
<1>5. /\ feed'[c] = feed[c] \o M /\ sent'[c] = Append(sent[c], kind)
      /\ count'[c] = count[c] + IF kind = "task" THEN 2 ELSE 1
      /\ \A m \in Miners : m # c => feed'[m] = feed[m] /\ sent'[m] = sent[m] /\ count'[m] = count[m]
  <2> DEFINE F == feed[c] \o M
             S == Append(sent[c], kind)
             n == count[c] + IF kind = "task" THEN 2 ELSE 1
  <2>1. feed' = [feed EXCEPT ![c] = F] /\ sent' = [sent EXCEPT ![c] = S] /\ count' = [count EXCEPT ![c] = n]
    BY <1>2, <1>3
  <2>2. DOMAIN feed = Miners /\ DOMAIN sent = Miners /\ DOMAIN count = Miners
    BY TypeParts DEF TypePool
  <2> HIDE DEF F, S, n
  <2>3. /\ feed'[c] = F /\ sent'[c] = S /\ count'[c] = n
        /\ \A m \in Miners : m # c => feed'[m] = feed[m] /\ sent'[m] = sent[m] /\ count'[m] = count[m]
    BY <2>1, <2>2, Zenon
  <2>4. QED
    BY <2>3, Zenon DEF F, S, n
<1>6. /\ nin' = nin /\ in' = in /\ want' = want /\ clear' = clear /\ got' = got /\ conn' = conn
  BY <1>1 DEF reading
<1>7. ASSUME NEW m \in Miners PROVE TakenOf(got'[m], sent'[m])
  <2>1. TakenOf(got[m], sent[m])
    BY DEF InInv
  <2>2. CASE m = c
    <3>1. /\ Len(sent'[c]) = Len(sent[c]) + 1 /\ Len(sent[c]) \in Nat
          /\ \A i \in 1 .. Len(sent[c]) : sent'[c][i] = sent[c][i]
      BY <1>4, <1>5, AppendProperties, LenProperties
    <3>2. Len(got[c]) <= Len(sent[c]) /\ \A i \in 1 .. Len(got[c]) : got[c][i] = sent[c][i]
      BY <2>1, <2>2 DEF TakenOf
    <3>3. Len(got[c]) <= Len(sent'[c]) /\ \A i \in 1 .. Len(got[c]) : i \in 1 .. Len(sent[c])
      BY <1>4, <3>1, <3>2
    <3>4. QED
      BY <1>6, <2>2, <3>1, <3>2, <3>3 DEF TakenOf
  <2>3. CASE m # c
    <3>1. got'[m] = got[m] /\ sent'[m] = sent[m]
      BY <1>5, <1>6, <2>3
    <3>2. QED
      BY <2>1, <3>1
  <2>4. QED
    BY <2>2, <2>3
<1>8. \A m \in Miners : conn'[m] \in {"open", "fin"} => m = c
  BY <1>1, <1>6 DEF OneMiner, ItsSocket
<1>9. \E K \in KindMaps : \E L \in LabelMaps : Position(c, K, L)'
  <2>1. PICK K \in KindMaps : \E L \in LabelMaps : Position(c, K, L)
    BY <1>1 DEF InInv
  <2>2. PICK L \in LabelMaps : Position(c, K, L)
    BY <2>1
  <2>3. PICK S \in Seq(Message), n \in Nat, F \in Seq(Half), B \in Seq(Half) :
          S = sent[c] /\ n = count[c] /\ F = feed[c] /\ B = in[c]
    BY <1>4
  <2>4. PICK G, b, w : G = got[c] /\ b = Base(c) /\ w = want[c]
    OBVIOUS
  <2>5. /\ Place(S, n, G, B \o F, b, K, L)
        /\ w = 4 => clear[c] /\ Len(B) >= 2 /\ K[b] = "task"
    BY <2>2, <2>3, <2>4, Zenon DEF Position, Pending
  <2> DEFINE S1 == Append(S, kind)
             e  == n + IF kind = "task" THEN 2 ELSE 1
  <2>6. PICK K1 \in KindMaps : \E L1 \in LabelMaps : Added(S, n, K, L, kind, S1, e, K1, L1)
    BY MapsGrow
  <2>7. PICK L1 \in LabelMaps : Added(S, n, K, L, kind, S1, e, K1, L1)
    BY <2>6
  <2>8. sent'[c] = S1 /\ count'[c] = e /\ IsMessage(M, n, kind)
    BY <1>3, <1>5, <2>3, Zenon
  <2> HIDE DEF S1, e
  <2>9. Place(S1, e, G, (B \o F) \o M, b, K1, L1)
    <3>1. PICK P \in Seq(Half) : P = B \o F
      <4>1. B \o F \in Seq(Half)
        BY ConcatProperties
      <4>2. QED
        BY <4>1
    <3>2. Place(S, n, G, P, b, K, L)
      BY <2>5, <3>1, Zenon
    <3>3. Place(S1, e, G, P \o M, b, K1, L1)
      BY <2>7, <2>8, <3>2, PlaceGrows
    <3>4. QED
      BY <3>1, <3>3, Zenon
  <2>10. Pending(c)' = (B \o F) \o M
    <3>1. (B \o F) \o M = B \o (F \o M)
      BY HalvesAssociate
    <3>2. in'[c] = B /\ feed'[c] = F \o M
      BY <1>5, <1>6, <2>3, Zenon
    <3>3. QED
      BY <3>1, <3>2, Zenon DEF Pending
  <2>11. Base(c)' = b /\ want'[c] = w /\ got'[c] = G /\ clear'[c] = clear[c] /\ in'[c] = B
    BY <1>6, <2>3, <2>4, Zenon DEF Base
  <2>12. w = 4 => K1[b] = "task"
    <3>1. SUFFICES ASSUME w = 4 PROVE K1[b] = "task"
      OBVIOUS
    <3>2. K[b] = "task" /\ Len(B) >= 2
      BY <2>5, <3>1
    <3>3. b \in Nat /\ b <= n /\ Len(B \o F) = 2 * (n - b)
      BY <2>5 DEF Place, Placed
    <3>4. Len(B \o F) = Len(B) + Len(F) /\ Len(B) \in Nat /\ Len(F) \in Nat
      BY ConcatProperties, LenProperties
    <3>5. b \in 0 .. n - 1
      BY <3>2, <3>3, <3>4
    <3>6. QED
      BY <2>7, <3>2, <3>5 DEF Added
  <2>13. Position(c, K1, L1)'
    BY <2>5, <2>8, <2>9, <2>10, <2>11, <2>12, Zenon DEF Position
  <2>14. QED
    BY <2>13
<1>10. QED
  BY <1>7, <1>8, <1>9 DEF InInv

\* A connection begins with nothing pending and nothing taken.
LEMMA MinerConnectIn ==
  ASSUME Control, InInv, NEW m \in Miners, MinerConnect(m)
  PROVE  InInv'
<1> USE Sets DEF Control
<1>1. /\ pc[m] = "connect" /\ nin' = 0 /\ conn' = [conn EXCEPT ![m] = "open"]
      /\ in' = in /\ want' = want /\ clear' = clear /\ got' = got
      /\ feed' = feed /\ sent' = sent /\ count' = count
  BY DEF MinerConnect, reading, pool
<1>2. /\ feed[m] = <<>> /\ in[m] = <<>> /\ want[m] = 2 /\ sent[m] = <<>> /\ got[m] = <<>>
      /\ count[m] = 0
  BY <1>1 DEF OneMiner, Fresh
<1>3. \A c \in Miners : conn'[c] \in {"open", "fin"} => c = m
  <2>1. \A c \in Miners : conn[c] \notin {"open", "fin"}
    BY <1>1 DEF OneMiner, OneThread, ItsSocket, Alive
  <2>2. QED
    BY <1>1, <2>1, TypeParts DEF TypeConn
<1>4. \E K \in KindMaps : \E L \in LabelMaps : Position(m, K, L)'
  <2>1. PICK K \in KindMaps : TRUE
    <3>1. [f \in Nat |-> "rest"] \in KindMaps
      BY DEF KindMaps, Kinds
    <3>2. QED
      BY <3>1
  <2>2. PICK L \in LabelMaps : TRUE
    <3>1. [f \in Nat |-> 0] \in LabelMaps
      BY DEF LabelMaps
    <3>2. QED
      BY <3>1
  <2>3. Pending(m)' = <<>>
    <3>1. Pending(m)' = <<>> \o <<>>
      BY <1>1, <1>2, Zenon DEF Pending
    <3>2. <<>> \o <<>> = <<>>
      BY EmptySeq, ConcatEmptySeq
    <3>3. QED
      BY <3>1, <3>2
  <2>4. Base(m)' = 0 /\ want'[m] # 4
    BY <1>1, <1>2 DEF Base
  <2>5. Len(<<>>) = 0
    BY EmptySeq
  <2>6. Place(<<>>, 0, <<>>, <<>>, 0, K, L)
    <3>1. History(<<>>, 0, K, L)
      BY <2>5 DEF History
    <3>2. Placed(<<>>, 0, 0, K)
      BY <2>5 DEF Placed
    <3>3. Begins(0, 0, 0, <<>>, K, L)
      BY <2>5 DEF Begins
    <3>4. QED
      BY <2>5, <3>1, <3>2, <3>3 DEF Place
  <2>7. sent'[m] = <<>> /\ got'[m] = <<>> /\ count'[m] = 0
    BY <1>1, <1>2
  <2>8. Position(m, K, L)'
    BY <2>3, <2>4, <2>6, <2>7, Zenon DEF Position
  <2>9. QED
    BY <2>8
<1>5. \A c \in Miners : TakenOf(got'[c], sent'[c])
  BY <1>1 DEF InInv
<1>6. QED
  BY <1>3, <1>4, <1>5 DEF InInv

\* The other steps leave the pool's messages alone; those that reset the number of the
\* field find no connection.
LEMMA QuietIn ==
  ASSUME Control, InInv,
         \/ StartCrypt \/ StartThread
         \/ \E x \in Xfers : XferStart(x) \/ XferLock(x) \/ XferSend(x)
         \/ \E t \in Threads : Write(t) \/ WriteFails(t)
         \/ \E m \in Miners :
              \/ MinerRefused(m) \/ MinerHello(m) \/ MinerShare(m) \/ MinerDue(m) \/ MinerFails(m)
              \/ CleanupUnlock(m) \/ CleanupClose(m) \/ PoolGoes(m)
  PROVE  InInv'
<1> USE Sets DEF Control
<1>1. UNCHANGED <<in, want, clear, got, feed, sent, count>>
  BY DEF StartCrypt, StartThread, XferStart, XferLock, XferSend, Encipher, Write, WriteFails,
         MinerRefused, MinerHello, MinerShare, MinerDue, MinerFails, CleanupUnlock, CleanupClose,
         PoolGoes, reading, pool, shared
<1>2. SUFFICES ASSUME NEW c \in Miners, conn'[c] \in {"open", "fin"}
               PROVE  conn[c] \in {"open", "fin"} /\ nin' = nin
  BY <1>1, InFrame
<1>3. CASE StartThread
  <2>1. conn' = conn /\ starting
    BY <1>3 DEF StartThread
  <2>2. conn[c] \notin {"open", "fin"}
    BY <2>1 DEF OneMiner, OneThread, ItsSocket
  <2>3. QED
    BY <1>2, <2>1, <2>2
<1>4. ASSUME NEW m \in Miners, MinerRefused(m) PROVE FALSE
  <2>1. conn[c] \notin {"open", "fin"}
    BY <1>4 DEF MinerRefused, OneMiner, OneThread, ItsSocket, Alive
  <2>2. conn' = conn \/ conn' = [conn EXCEPT ![m] = "reset"]
    BY <1>4 DEF MinerRefused
  <2>3. conn'[c] \notin {"open", "fin"}
    BY <2>1, <2>2, TypeParts DEF TypeConn
  <2>4. QED
    BY <1>2, <2>3
<1>5. CASE StartCrypt
  BY <1>2, <1>5 DEF StartCrypt
<1>6. ASSUME NEW x \in Xfers, XferStart(x) \/ XferLock(x) \/ XferSend(x)
      PROVE  conn[c] \in {"open", "fin"} /\ nin' = nin
  BY <1>2, <1>6 DEF XferStart, XferLock, XferSend, Encipher, shared
<1>7. ASSUME NEW t \in Threads, Write(t) \/ WriteFails(t)
      PROVE  conn[c] \in {"open", "fin"} /\ nin' = nin
  <2>1. nin' = nin /\ (conn' = conn \/ conn' = [conn EXCEPT ![sock] = "reset"])
    BY <1>7 DEF Write, WriteFails
  <2>2. QED
    BY <1>2, <2>1, TypeParts DEF TypeConn
<1>8. ASSUME NEW m \in Miners, MinerHello(m) \/ MinerShare(m) \/ MinerDue(m) \/ MinerFails(m)
      PROVE  conn[c] \in {"open", "fin"} /\ nin' = nin
  BY <1>2, <1>8 DEF MinerHello, MinerShare, MinerDue, MinerFails, Encipher, shared
<1>9. ASSUME NEW m \in Miners, CleanupUnlock(m) \/ CleanupClose(m)
      PROVE  conn[c] \in {"open", "fin"} /\ nin' = nin
  <2>1. nin' = nin /\ (conn' = conn \/ conn' = [conn EXCEPT ![sock] = "reset"])
    BY <1>9 DEF CleanupUnlock, CleanupClose
  <2>2. QED
    BY <1>2, <2>1, TypeParts DEF TypeConn
<1>10. ASSUME NEW m \in Miners, PoolGoes(m)
       PROVE  conn[c] \in {"open", "fin"} /\ nin' = nin
  <2>1. /\ nin' = nin /\ conn[m] \in {"open", "fin"}
        /\ \E how \in {"fin", "reset"} : conn' = [conn EXCEPT ![m] = how]
    BY <1>10 DEF PoolGoes, shared
  <2>2. QED
    BY <1>2, <2>1, TypeParts DEF TypeConn
<1>11. QED
  BY <1>3, <1>4, <1>5, <1>6, <1>7, <1>8, <1>9, <1>10

LEMMA InStep ==
  ASSUME Control, InInv, Next
  PROVE  InInv'
<1> USE Sets
<1>1. ASSUME NEW m \in Miners, MinerConnect(m) \/ MinerRead(m) PROVE InInv'
  BY <1>1, MinerConnectIn, MinerReadIn
<1>2. ASSUME NEW c \in Miners, PoolSends(c) PROVE InInv'
  BY <1>2, PoolSendsIn
<1>3. QED
  BY <1>1, <1>2, QuietIn DEF Next, XferStep, MinerStep

LEMMA InitIn == Init => InInv
<1> SUFFICES ASSUME Init PROVE InInv
  OBVIOUS
<1>1. Len(<<>>) = 0
  BY EmptySeq
<1>2. \A c \in Miners : got[c] = <<>> /\ sent[c] = <<>> /\ conn[c] = "none"
  BY DEF Init
<1>3. \A c \in Miners : TakenOf(got[c], sent[c])
  BY <1>1, <1>2 DEF TakenOf
<1>4. QED
  BY <1>2, <1>3 DEF InInv

\* The numbers of the fields that are pending are those the wallet will expect.
StreamInv == SendInv /\ (~disturbed => InInv)

LEMMA StreamInvAlways == Spec => []StreamInv
<1>1. Init => InInv
  BY InitIn
<1>2. SendInv /\ (~disturbed => InInv) /\ [Next]_vars => (~disturbed' => InInv')
  <2> SUFFICES ASSUME SendInv, ~disturbed => InInv, [Next]_vars, ~disturbed' PROVE InInv'
    OBVIOUS
  <2>1. CASE Next
    <3>1. ~disturbed
      BY <2>1 DEF Next
    <3>2. Control /\ InInv
      BY <3>1 DEF SendInv, Control
    <3>3. QED
      BY <2>1, <3>2, InStep
  <2>2. CASE UNCHANGED vars
    <3>1. UNCHANGED <<nin, in, want, clear, got, conn, feed, sent, count, disturbed>>
      BY <2>2 DEF vars, shared, reading, pool
    <3>2. QED
      BY <3>1, InFrame
  <2>3. QED
    BY <2>1, <2>2
<1>3. QED
  BY <1>1, <1>2, SendInvAlways, PTL DEF Spec, StreamInv

LEMMA TakenIsPrefix ==
  ASSUME NEW G \in Seq(Takings), NEW S \in Seq(Message), TakenOf(G, S)
  PROVE  IsPrefix(G, S)
<1>1. Len(G) \in Nat /\ Len(S) \in Nat /\ Len(G) <= Len(S) /\ \A i \in 1 .. Len(G) : G[i] = S[i]
  BY LenProperties DEF TakenOf
<1>2. \A i \in 1 .. Len(G) : G[i] \in Takings /\ S[i] \in Takings
  <2>1. \A i \in 1 .. Len(G) : G[i] \in Takings
    BY ElementOfSeq
  <2>2. QED
    BY <1>1, <2>1
<1> DEFINE U == SubSeq(G, 1, Len(G))
           V == SubSeq(S, 1, Len(G))
<1>3. U \in Seq(Takings) /\ Len(U) = Len(G) /\ \A i \in 1 .. Len(G) : U[i] = G[i]
  BY <1>1, <1>2, SubSeqProperties
<1>4. V \in Seq(Takings) /\ Len(V) = Len(G) /\ \A i \in 1 .. Len(G) : V[i] = S[i]
  BY <1>1, <1>2, SubSeqProperties
<1> HIDE DEF U, V
<1>5. U = V
  BY <1>1, <1>3, <1>4, SeqEqual
<1>6. QED
  BY <1>1, <1>5 DEF U, V, IsPrefix

\* The wallet's loop in miner_net_thread_proc numbers the fields it reads as the pool
\* does: however the reads are cut, it takes the messages for what they are, in order,
\* and none for a message the pool did not send.
THEOREM InMessagesAgree == Spec => []InAgrees
<1>1. StreamInv => InAgrees
  <2> SUFFICES ASSUME StreamInv, ~disturbed, NEW c \in Miners PROVE IsPrefix(got[c], sent[c])
    BY DEF InAgrees
  <2>1. TakenOf(got[c], sent[c])
    BY DEF StreamInv, InInv
  <2>2. TypeOK
    BY DEF StreamInv, SendInv
  <2>3. got[c] \in Seq(Takings)
    BY <2>2, TypeParts DEF TypeReading, Takings
  <2>4. sent[c] \in Seq(Message)
    BY <2>2, TypeParts DEF TypePool
  <2>5. QED
    BY <2>1, <2>3, <2>4, TakenIsPrefix
<1>2. QED
  BY <1>1, StreamInvAlways, PTL
=============================================================================
