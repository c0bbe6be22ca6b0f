------------------------------ MODULE FifoMutex ------------------------------
(***************************************************************************)
(* What dthread_mutex promises (dthread.h calls it a FIFO mutex): callers    *)
(* form one queue, only its first member is served, and it stays first until *)
(* it leaves.                                                                *)
(***************************************************************************)
EXTENDS Sequences

CONSTANT Procs

VARIABLES
  queue,    (* callers of lock that have not called unlock, oldest first *)
  served    (* the callers whose call of lock has returned               *)

FifoInit == queue = <<>> /\ served = {}

Waits(p) == \E i \in DOMAIN queue : queue[i] = p

Join(p) ==
  /\ ~Waits(p)
  /\ queue' = Append(queue, p)
  /\ UNCHANGED served

Serve(p) ==
  /\ queue # <<>> /\ p = Head(queue) /\ p \notin served
  /\ served' = served \cup {p}
  /\ UNCHANGED queue

Leave(p) ==
  /\ queue # <<>> /\ p = Head(queue) /\ p \in served
  /\ queue' = Tail(queue)
  /\ served' = served \ {p}

FifoNext == \E p \in Procs : Join(p) \/ Serve(p) \/ Leave(p)

FifoSpec == FifoInit /\ [][FifoNext]_<<queue, served>>
=============================================================================
