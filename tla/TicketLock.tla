----------------------------- MODULE TicketLock -----------------------------
(***************************************************************************)
(* dthread_mutex of dnet/dthread.h: the mutex of a dnet connection.  A      *)
(* caller of lock draws a ticket from tail and spins until head shows it;   *)
(* unlock advances head.  Both counters are unsigned integers of the        *)
(* machine's width and wrap at W; reads and increments are atomic.          *)
(***************************************************************************)
EXTENDS Naturals, FiniteSets

CONSTANTS
  Procs,    (* threads that use the mutex *)
  W         (* 2^32 in the code           *)

ASSUME TicketAssumption ==
  W \in Nat /\ IsFiniteSet(Procs) /\ Cardinality(Procs) < W

VARIABLES
  head,     (* mutex->head: the ticket being served           *)
  tail,     (* mutex->tail: the next ticket to draw           *)
  ticket,   (* each caller's local ticket                     *)
  pc        (* out of the mutex, spinning in lock, or inside  *)

vars == <<head, tail, ticket, pc>>

TypeOK ==
  /\ head \in 0 .. W - 1
  /\ tail \in 0 .. W - 1
  /\ ticket \in [Procs -> 0 .. W - 1]
  /\ pc \in [Procs -> {"out", "spin", "in"}]

Init ==
  /\ head = 0 /\ tail = 0
  /\ ticket = [p \in Procs |-> 0]
  /\ pc = [p \in Procs |-> "out"]

Inc(n) == IF n = W - 1 THEN 0 ELSE n + 1

Draw(p) ==
  /\ pc[p] = "out"
  /\ ticket' = [ticket EXCEPT ![p] = tail]
  /\ tail' = Inc(tail)
  /\ pc' = [pc EXCEPT ![p] = "spin"]
  /\ UNCHANGED head

\* Mutant of Enter: the spin ends whenever nobody is inside.
EnterAny(p) ==
  /\ pc[p] = "spin" /\ \A q \in Procs : pc[q] # "in"
  /\ pc' = [pc EXCEPT ![p] = "in"]
  /\ UNCHANGED <<head, tail, ticket>>

Enter(p) ==
  /\ pc[p] = "spin" /\ head = ticket[p]
  /\ pc' = [pc EXCEPT ![p] = "in"]
  /\ UNCHANGED <<head, tail, ticket>>

\* Mutant of Unlock: the counters are reset when the mutex looks idle.
UnlockReset(p) ==
  /\ pc[p] = "in"
  /\ head' = IF Inc(head) = tail THEN 0 ELSE Inc(head)
  /\ pc' = [pc EXCEPT ![p] = "out"]
  /\ UNCHANGED <<tail, ticket>>

Unlock(p) ==
  /\ pc[p] = "in"
  /\ head' = Inc(head)
  /\ pc' = [pc EXCEPT ![p] = "out"]
  /\ UNCHANGED <<tail, ticket>>

Next == \E p \in Procs : Draw(p) \/ Enter(p) \/ Unlock(p)

Spec == Init /\ [][Next]_vars

(* sched_yield lets every spinning thread run again, and the critical sections *)
(* of dnet_send_packet and dnet_connection_main end.                           *)
Fairness == \A p \in Procs : WF_vars(Enter(p)) /\ WF_vars(Unlock(p))

FairSpec == Spec /\ Fairness

-----------------------------------------------------------------------------
\* At most one thread is between lock and unlock, also after the counters wrap.
Mutex == \A p, q \in Procs : pc[p] = "in" /\ pc[q] = "in" => p = q

\* A thread that has drawn a ticket is served: nobody starves.
Served == \A p \in Procs : pc[p] = "spin" ~> pc[p] = "in"

-----------------------------------------------------------------------------
(* The promise: a queue of callers, in the order of their tickets. *)

Busy == {p \in Procs : pc[p] # "out"}

\* How many calls of unlock before head shows n.
Dist(n) == IF n >= head THEN n - head ELSE n + W - head

queue == [i \in 1 .. Dist(tail) |-> CHOOSE p \in Busy : Dist(ticket[p]) = i - 1]

Fifo == INSTANCE FifoMutex WITH served <- {p \in Procs : pc[p] = "in"}

\* The ticket lock is a FIFO mutex.
FifoOrder == Fifo!FifoSpec
=============================================================================
