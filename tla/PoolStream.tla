----------------------------- MODULE PoolStream -----------------------------
(***************************************************************************)
(* The byte stream between the wallet and its pool (client/pool.c).  Both    *)
(* directions are sequences of fields, each enciphered with the number of     *)
(* the field in its direction: the wallet counts with nfield_out and          *)
(* nfield_in of g_local_miner, and the pool must count the same.  The miner   *)
(* thread opens the connection, says hello with a block of ours, reads        *)
(* balances and tasks and sends shares; transfers send blocks through the     *)
(* same socket.  xdag_main may run again (the service lost the connection):   *)
(* it replaces the key and the counters and starts another miner thread.      *)
(*                                                                         *)
(* The socket of miner thread m is named m.  What the pool sends arrives in   *)
(* halves of fields, so that a read may end anywhere; a write may take any    *)
(* number of fields.  A block is BLOCK_FIELDS fields.                         *)
(***************************************************************************)
EXTENDS Naturals, Sequences, SequencesExt

CONSTANTS
  Xfers,         (* threads that send a block                                *)
  None,          (* no socket, no owner                                      *)
  MaxStarts,     (* bound: runs of xdag_main                                 *)
  MaxMessages,   (* bound: messages of the pool                              *)
  MaxFields,     (* bound: transfers start below this number of fields sent  *)
  BLOCK_FIELDS

Miners  == 1 .. MaxStarts
Threads == Xfers \cup Miners
Message == {"balance", "task"}

ASSUME StreamAssumption ==
  /\ MaxStarts \in Nat \ {0} /\ MaxMessages \in Nat /\ MaxFields \in Nat /\ BLOCK_FIELDS \in Nat \ {0, 1}
  /\ \A x \in Xfers : x \notin Miners
  /\ None \notin Threads

VARIABLES
  pc,
  starts,     (* runs of xdag_main so far                                    *)
  starting,   (* is one of them between crypt_start and pthread_create?      *)
  owner,      (* holder of g_pool_mutex                                      *)
  sock,       (* g_socket                                                    *)
  key,        (* g_crypt: none, raw (allocated only) or good                 *)
  nin, nout,  (* nfield_in, nfield_out                                       *)
  out,        (* out[t]: enciphered fields t has not written yet             *)
  in, want,   (* in[m]: halves read; want[m]: maxndata, in halves            *)
  clear,      (* clear[m]: was the first field of a pair deciphered right?   *)
  due,        (* due[m]: a share is due, after a task                        *)
  conn,       (* conn[m]: none, open, fin (closed by the pool) or reset      *)
  wire,       (* wire[m]: fields on their way to the pool                    *)
  feed,       (* feed[m]: halves on their way from the pool                  *)
  sent,       (* sent[m]: the pool's messages                                *)
  count,      (* count[m]: fields the pool has enciphered for m              *)
  got,        (* got[m]: what the wallet took them for                       *)
  disturbed   (* history: see Disturb                                        *)

shared  == <<owner, sock, key, nin, nout>>
reading == <<in, want, clear, due, got>>
pool    == <<feed, sent, count>>
vars == <<pc, starts, starting, shared, out, reading, conn, wire, pool, disturbed>>

Field == [ctr : Nat, key : {"raw", "good"}, from : Threads, idx : 1 .. BLOCK_FIELDS]
Half  == [num : Nat, part : {1, 2}, of : {"balance", "task", "rest"}]

TypeOK ==
  /\ pc \in [Threads -> {"off", "connect", "hello", "write", "loop", "share", "exit",
                         "closing", "gone", "idle", "want", "send"}]
  /\ starts \in 0 .. MaxStarts /\ starting \in BOOLEAN
  /\ owner \in Threads \cup {None} /\ sock \in Miners \cup {None}
  /\ key \in {"none", "raw", "good"} /\ nin \in Nat /\ nout \in Nat
  /\ out \in [Threads -> Seq(Field)]
  /\ in \in [Miners -> Seq(Half)] /\ want \in [Miners -> {2, 4}]
  /\ \A m \in Miners : Len(in[m]) < want[m]
  /\ clear \in [Miners -> BOOLEAN] /\ due \in [Miners -> BOOLEAN]
  /\ conn \in [Miners -> {"none", "open", "fin", "reset"}]
  /\ wire \in [Miners -> Seq(Field)] /\ feed \in [Miners -> Seq(Half)]
  /\ sent \in [Miners -> Seq(Message)] /\ got \in [Miners -> Seq(Message \cup {"junk"})]
  /\ count \in [Miners -> Nat]
  /\ disturbed \in BOOLEAN

Init ==
  /\ pc = [t \in Threads |-> IF t \in Miners THEN "off" ELSE "idle"]
  /\ starts = 0 /\ starting = FALSE
  /\ owner = None /\ sock = None /\ key = "none" /\ nin = 0 /\ nout = 0
  /\ out = [t \in Threads |-> <<>>]
  /\ in = [m \in Miners |-> <<>>] /\ want = [m \in Miners |-> 2]
  /\ clear = [m \in Miners |-> FALSE] /\ due = [m \in Miners |-> FALSE]
  /\ conn = [m \in Miners |-> "none"]
  /\ wire = [m \in Miners |-> <<>>] /\ feed = [m \in Miners |-> <<>>]
  /\ sent = [m \in Miners |-> <<>>] /\ got = [m \in Miners |-> <<>>]
  /\ count = [m \in Miners |-> 0]
  /\ disturbed = FALSE

Goto(t, label) == pc' = [pc EXCEPT ![t] = label]
Lock(t) == owner = None /\ owner' = t

\* Two things end the agreement, and the properties stop there: xdag_main runs
\* while an earlier miner thread lives, or a miner thread closes the socket
\* under a transfer that is sending (its cleanup unlocks the mutex of others).
Sending == {x \in Xfers : pc[x] \in {"send", "write"}}
Disturb(cause) == disturbed' = (disturbed \/ cause)

-----------------------------------------------------------------------------
(* xdag_start_wallet_mainthread *)

\* crypt_start publishes the new key before it is computed.
StartCrypt ==
  /\ ~starting /\ starts < MaxStarts
  /\ starting' = TRUE /\ key' = "raw"
  /\ Disturb((\E m \in Miners : pc[m] \notin {"off", "gone"}) \/ Sending # {})
  /\ UNCHANGED <<pc, starts, owner, sock, nin, nout, out, reading, conn, wire, pool>>

StartThread ==
  /\ starting
  /\ starting' = FALSE /\ starts' = starts + 1
  /\ key' = "good" /\ nin' = 0 /\ nout' = 0
  /\ Goto(starts + 1, "connect")
  /\ UNCHANGED <<owner, sock, out, reading, conn, wire, pool, disturbed>>

-----------------------------------------------------------------------------
(* Sending: send_to_pool, called with the mutex held *)

\* With the key gone (a miner thread has cleaned up) the process crashes here.
Encipher(t, n) ==
  /\ key # "none"
  /\ out' = [out EXCEPT ![t] =
       [i \in 1 .. n |-> [ctr |-> nout + i - 1, key |-> key, from |-> t, idx |-> i]]]
  /\ nout' = nout + n
  /\ Goto(t, "write")
  /\ UNCHANGED <<starts, starting, owner, sock, key, nin, reading, conn, wire, pool, disturbed>>

AfterWrite(t) == IF t \in Miners THEN "loop" ELSE "idle"

\* One write of k fields; the last one releases the mutex.  A peer that has
\* closed answers with a reset.
Write(t) ==
  /\ pc[t] = "write" /\ sock # None
  /\ conn[sock] \in {"open", "fin"}
  /\ \E k \in 1 .. Len(out[t]) :
       /\ out' = [out EXCEPT ![t] = SubSeq(@, k + 1, Len(@))]
       /\ wire' = IF conn[sock] = "open"
                  THEN [wire EXCEPT ![sock] = @ \o SubSeq(out[t], 1, k)] ELSE wire
       /\ conn' = IF conn[sock] = "fin" THEN [conn EXCEPT ![sock] = "reset"] ELSE conn
       /\ IF k = Len(out[t]) THEN Goto(t, AfterWrite(t)) /\ owner' = None
                             ELSE UNCHANGED <<pc, owner>>
  /\ UNCHANGED <<starts, starting, sock, key, nin, nout, reading, pool, disturbed>>

\* Mutant of WriteFails: the mutex stays locked.
WriteFailsLocked(t) ==
  /\ pc[t] = "write" /\ sock # None /\ conn[sock] = "reset"
  /\ Goto(t, IF t \in Miners THEN "exit" ELSE "idle")
  /\ out' = [out EXCEPT ![t] = <<>>]
  /\ UNCHANGED <<starts, starting, shared, reading, conn, wire, pool, disturbed>>

\* The fields that are left are dropped; the counter stays advanced.
WriteFails(t) ==
  /\ pc[t] = "write" /\ sock # None /\ conn[sock] = "reset"
  /\ Goto(t, IF t \in Miners THEN "exit" ELSE "idle")
  /\ owner' = None /\ out' = [out EXCEPT ![t] = <<>>]
  /\ UNCHANGED <<starts, starting, sock, key, nin, nout, reading, conn, wire, pool, disturbed>>

-----------------------------------------------------------------------------
(* A transfer: xdag_send_block_via_pool *)

\* g_socket is tested before the mutex is taken, and again under it.
XferStart(x) ==
  /\ pc[x] = "idle" /\ sock # None /\ nout < MaxFields
  /\ Goto(x, "want")
  /\ UNCHANGED <<starts, starting, shared, out, reading, conn, wire, pool, disturbed>>

XferLock(x) ==
  /\ pc[x] = "want"
  /\ IF sock = None THEN owner = None /\ Goto(x, "idle") /\ UNCHANGED owner
                    ELSE Lock(x) /\ Goto(x, "send")
  /\ UNCHANGED <<starts, starting, sock, key, nin, nout, out, reading, conn, wire, pool, disturbed>>

XferSend(x) == pc[x] = "send" /\ Encipher(x, BLOCK_FIELDS)

-----------------------------------------------------------------------------
(* The miner thread *)

\* Mutant of MinerConnect: the mutex is taken only to send.
MinerConnectUnlocked(m) ==
  /\ pc[m] = "connect" /\ owner = None
  /\ owner' = None /\ sock' = m /\ nin' = 0 /\ nout' = 0
  /\ conn' = [conn EXCEPT ![m] = "open"]
  /\ Goto(m, "hello")
  /\ UNCHANGED <<starts, starting, key, out, reading, wire, pool, disturbed>>

\* The counters are reset, then the socket is opened and connected under the
\* mutex, which is kept until the hello is sent.
MinerConnect(m) ==
  /\ pc[m] = "connect" /\ Lock(m)
  /\ sock' = m /\ nin' = 0 /\ nout' = 0
  /\ conn' = [conn EXCEPT ![m] = "open"]
  /\ Goto(m, "hello")
  /\ UNCHANGED <<starts, starting, key, out, reading, wire, pool, disturbed>>

\* No block of ours, no address, no connection: the socket may be left open.
MinerRefused(m) ==
  /\ pc[m] = "connect" /\ owner = None
  /\ nin' = 0 /\ nout' = 0
  /\ \/ UNCHANGED <<sock, conn>>
     \/ sock' = m /\ conn' = [conn EXCEPT ![m] = "reset"]
  /\ Goto(m, "exit")
  /\ UNCHANGED <<starts, starting, owner, key, out, reading, wire, pool, disturbed>>

MinerHello(m) == pc[m] = "hello" /\ Encipher(m, BLOCK_FIELDS)
MinerShare(m) == pc[m] = "share" /\ Encipher(m, 1)

\* Is the field of these two halves deciphered with its own number?
Right(h) == h[1].num = nin /\ h[2].num = nin /\ h[1].part = 1 /\ h[2].part = 2

\* What comes of a message: the next value of ndata, maxndata and clear.
\* (Mutant of Balance: it leaves maxndata at two fields.)
BalanceWide(H) == [in |-> <<>>, want |-> 4, clear |-> FALSE, msg |-> <<"balance">>]
Balance(H)     == [in |-> <<>>, want |-> 2, clear |-> FALSE, msg |-> <<"balance">>]
Task(H, msg)   == [in |-> <<>>, want |-> 2, clear |-> FALSE, msg |-> <<msg>>]

\* What the thread makes of a buffer that is full: our hash means a balance,
\* a second field makes a task, a first field waits for its second.
Took(m, H) ==
  LET last == SubSeq(H, Len(H) - 1, Len(H))
  IN IF Right(last) /\ last[1].of = "balance" THEN Balance(H)
     ELSE IF want[m] = 4
     THEN Task(H, IF clear[m] /\ Right(last) /\ H[1].of = "task" THEN "task" ELSE "junk")
     ELSE [in |-> H, want |-> 4, clear |-> Right(last), msg |-> <<>>]

\* A read of k halves.  At the end of a closed stream it returns 0 and nothing
\* happens, as often as the thread comes by.
Read(m, k) ==
  LET H == in[m] \o SubSeq(feed[sock], 1, k)
      t == Took(m, H)
  IN /\ feed' = [feed EXCEPT ![sock] = SubSeq(@, k + 1, Len(@))]
     /\ IF Len(H) < want[m]
        THEN in' = [in EXCEPT ![m] = H] /\ UNCHANGED <<want, clear, got, nin, due>>
        ELSE /\ nin' = nin + 1
             /\ in' = [in EXCEPT ![m] = t.in] /\ want' = [want EXCEPT ![m] = t.want]
             /\ clear' = [clear EXCEPT ![m] = t.clear]
             /\ got' = [got EXCEPT ![sock] = @ \o t.msg]
             /\ due' = [due EXCEPT ![m] = @ \/ (want[m] = 4 /\ t.msg # <<"balance">>)]

\* One turn of the loop finds something to read.
MinerRead(m) ==
  /\ pc[m] = "loop" /\ owner = None /\ sock # None /\ conn[sock] \in {"open", "fin"}
  /\ \E k \in 1 .. Len(feed[sock]) : k <= want[m] - Len(in[m]) /\ Read(m, k)
  /\ UNCHANGED <<pc, starts, starting, owner, sock, key, nout, out, conn, wire, sent, count,
                 disturbed>>

\* One turn sends a share; the mutex stays with it.
MinerDue(m) ==
  /\ pc[m] = "loop" /\ sock # None /\ conn[sock] \in {"open", "fin"} /\ due[m]
  /\ Lock(m) /\ due' = [due EXCEPT ![m] = FALSE]
  /\ Goto(m, "share")
  /\ UNCHANGED <<starts, starting, sock, key, nin, nout, out, in, want, clear, got, conn,
                 wire, pool, disturbed>>

\* One turn finds the socket closed, hung up or in error.
MinerFails(m) ==
  /\ pc[m] = "loop" /\ owner = None
  /\ sock # None => conn[sock] = "reset"
  /\ Goto(m, "exit")
  /\ UNCHANGED <<starts, starting, shared, out, reading, conn, wire, pool, disturbed>>

\* miner_net_thread_cleanup: the mutex is released whoever holds it.
CleanupUnlock(m) ==
  /\ pc[m] = "exit"
  /\ owner' = None /\ Goto(m, "closing")
  /\ Disturb(Sending # {})
  /\ UNCHANGED <<starts, starting, sock, key, nin, nout, out, reading, conn, wire, pool>>

CleanupClose(m) ==
  /\ pc[m] = "closing"
  /\ key' = "none" /\ sock' = None /\ Goto(m, "gone")
  /\ conn' = IF sock = None THEN conn ELSE [conn EXCEPT ![sock] = "reset"]
  /\ Disturb(Sending # {})
  /\ UNCHANGED <<starts, starting, owner, nin, nout, out, reading, wire, pool>>

-----------------------------------------------------------------------------
(* The pool *)

\* A field of our hash and its amount, or the two fields of a task.
Fields(kind) == IF kind = "task" THEN <<"task", "rest">> ELSE <<"balance">>

PoolSends(c) ==
  /\ conn[c] = "open" /\ wire[c] # <<>>
  /\ FoldFunction(LAMBDA s, n : Len(s) + n, 0, sent) < MaxMessages
  /\ \E kind \in Message :
       LET half(i) == [num |-> count[c] + (i - 1) \div 2, part |-> 2 - (i % 2),
                       of |-> Fields(kind)[(i + 1) \div 2]]
       IN /\ feed' = [feed EXCEPT ![c] = @ \o [i \in 1 .. 2 * Len(Fields(kind)) |-> half(i)]]
          /\ sent' = [sent EXCEPT ![c] = Append(@, kind)]
          /\ count' = [count EXCEPT ![c] = @ + Len(Fields(kind))]
  /\ UNCHANGED <<pc, starts, starting, shared, out, reading, conn, wire, disturbed>>

\* The pool closes in order, or the connection breaks.
PoolGoes(c) ==
  /\ conn[c] \in {"open", "fin"}
  /\ \E how \in {"fin", "reset"} : how # conn[c] /\ conn' = [conn EXCEPT ![c] = how]
  /\ UNCHANGED <<pc, starts, starting, shared, out, reading, wire, pool, disturbed>>

-----------------------------------------------------------------------------
XferStep(x) == XferLock(x) \/ XferSend(x) \/ Write(x) \/ WriteFails(x)
MinerStep(m) ==
  \/ MinerHello(m) \/ MinerShare(m) \/ Write(m) \/ WriteFails(m)
  \/ MinerRead(m) \/ MinerDue(m) \/ MinerFails(m) \/ CleanupUnlock(m) \/ CleanupClose(m)

\* (Bound: the model ends where the agreement does.)
Next ==
  /\ ~disturbed
  /\ \/ StartCrypt \/ StartThread
     \/ \E x \in Xfers : XferStart(x) \/ XferStep(x)
     \/ \E m \in Miners : MinerConnect(m) \/ MinerRefused(m) \/ MinerStep(m)
     \/ \E c \in Miners : PoolSends(c) \/ PoolGoes(c)

Spec == Init /\ [][Next]_vars

FairSpec ==
  /\ Spec
  /\ \A x \in Xfers : WF_vars(XferStep(x))
  /\ \A m \in Miners : WF_vars(MinerStep(m))

-----------------------------------------------------------------------------
(* Properties *)

\* What the pool receives it deciphers with the numbers the wallet used: on
\* every connection the fields are numbered from 0 without a gap, under a
\* complete key, a block's fields together, and our hello comes first.
OutAgrees ==
  ~disturbed => \A c \in Miners : \A i \in 1 .. Len(wire[c]) :
    LET f == wire[c][i]
    IN /\ f.ctr = i - 1 /\ f.key = "good"
       /\ f.idx > 1 => wire[c][i - 1].from = f.from /\ wire[c][i - 1].idx = f.idx - 1
       /\ i <= BLOCK_FIELDS => f.from = c /\ f.idx = i

\* However reads are cut, the wallet takes the pool's messages for what they
\* are, in order.
InAgrees == ~disturbed => \A c \in Miners : IsPrefix(got[c], sent[c])

\* A miner thread whose connection breaks ends, and so does one whose pool
\* closed in order, if a share is due.  (Without one it reads the end of the
\* stream again and again.)
LossNoticed ==
  \A m \in Miners :
    (pc[m] = "loop" /\ sock = m /\ (conn[m] = "reset" \/ (conn[m] = "fin" /\ due[m])))
      ~> (pc[m] = "gone" \/ disturbed)

=============================================================================
