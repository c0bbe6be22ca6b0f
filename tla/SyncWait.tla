------------------------------ MODULE SyncWait ------------------------------
(***************************************************************************)
(* Blocks that arrive before the blocks they link to (client/sync.c, and the   *)
(* calls of client/transport.c it uses).  A block with a missing link waits     *)
(* under the hash of that link; the link is asked of other hosts, and a block   *)
(* that enters the engine releases the blocks that wait for it.  Threads of     *)
(* several connections do this at once; g_sync_hash_mutex covers each look at   *)
(* the lists, and not what happens between two of them.                       *)
(*                                                                         *)
(* Calls nest (a released block is added, and releases others), so a thread has  *)
(* a stack of frames.  A request is answered with the block; the network may    *)
(* lose either.                                                             *)
(*                                                                         *)
(* The engine may refuse a block for another reason than a missing link, and    *)
(* while synchronisation is off (g_xdag_sync_on: until the blocks are loaded, and *)
(* during a reset, which empties the engine and not the lists) a block that lacks *)
(* a link is dropped.  Nobody tells the blocks that wait for such a block.      *)
(***************************************************************************)
EXTENDS Naturals, Sequences, SequencesExt

CONSTANTS
  Blocks, Links,   (* Links[b]: the blocks that b links to, in field order    *)
  Threads, None,
  MaxTrouble       (* bound on refusals and resets together                   *)

ASSUME SyncAssumption ==
  Links \in [Blocks -> Seq(Blocks)] /\ None \notin Threads /\ MaxTrouble \in Nat

VARIABLES
  store,      (* blocks in the engine                                        *)
  waiting,    (* the lists: [block, under, fresh], the newest first; fresh:   *)
              (* less than REQ_PERIOD ago                                    *)
  mutex,      (* holder of g_sync_hash_mutex                                 *)
  stack,      (* stack[t]: frames of t, the innermost last                    *)
  asked,      (* requests under way                                          *)
  net,        (* blocks under way to us                                      *)
  sync,       (* "on": g_xdag_sync_on; "off" until the engine is empty;       *)
              (* "starting" until the work thread begins (again)             *)
  refused,    (* history: blocks whose last addition was refused or dropped   *)
  trouble,    (* history: how many refusals and resets there were            *)
  lost        (* history: something got lost, or a malloc failed              *)

engine == <<sync, refused, trouble>>
vars == <<store, waiting, mutex, stack, asked, net, engine, lost>>

Entry == [block : Blocks, under : Blocks, fresh : BOOLEAN]

\* A frame: the call's block, and the hash it is looking at; own says whether the
\* hash is a field of that block or of an entry of the lists.
Frame == [op : {"add", "decide", "push", "chase", "hop", "request", "pop"},
          block : Blocks, hash : Blocks, own : Seq(Entry)]
Call(op, b, h) == [op |-> op, block |-> b, hash |-> h, own |-> <<>>]

TypeOK ==
  /\ store \subseteq Blocks /\ waiting \in Seq(Entry)
  /\ mutex \in Threads \cup {None}
  /\ stack \in [Threads -> Seq(Frame)]
  /\ asked \subseteq Blocks /\ net \subseteq Blocks /\ lost \in BOOLEAN
  /\ sync \in {"on", "off", "starting"} /\ refused \subseteq Blocks
  /\ trouble \in 0 .. MaxTrouble

\* Hosts announce some blocks.
Init ==
  /\ store = {} /\ waiting = <<>> /\ mutex = None
  /\ stack = [t \in Threads |-> <<>>]
  /\ asked = {} /\ net \in SUBSET Blocks \ {{}} /\ lost = FALSE
  /\ sync = "starting" /\ refused = {} /\ trouble = 0

Idle(t)   == stack[t] = <<>>
Top(t)    == stack[t][Len(stack[t])]
At(t, op) == ~Idle(t) /\ Top(t).op = op
Become(t, frame) == stack' = [stack EXCEPT ![t] = Append(Front(@), frame)]
Return(t)        == stack' = [stack EXCEPT ![t] = Front(@)]
Enter(t, frame)  == stack' = [stack EXCEPT ![t] = Append(@, frame)]

-----------------------------------------------------------------------------
(* The network *)

Arrive(t) ==
  /\ Idle(t)
  /\ \E b \in net : net' = net \ {b} /\ Enter(t, Call("add", b, b))
  /\ UNCHANGED <<store, waiting, mutex, asked, engine, lost>>

Answer ==
  /\ \E b \in asked : asked' = asked \ {b} /\ net' = net \cup {b}
  /\ UNCHANGED <<store, waiting, mutex, stack, engine, lost>>

\* The next request of a block that waits is made when it arrives again.
Lose ==
  /\ \E b \in asked \cup net : asked' = asked \ {b} /\ net' = net \ {b}
  /\ lost' = TRUE
  /\ UNCHANGED <<store, waiting, mutex, stack, engine>>

\* REQ_PERIOD passes for an entry.
Age ==
  /\ mutex = None
  /\ \E i \in 1 .. Len(waiting) :
       waiting[i].fresh /\ waiting' = [waiting EXCEPT ![i].fresh = FALSE]
  /\ UNCHANGED <<store, mutex, stack, asked, net, engine, lost>>

-----------------------------------------------------------------------------
(* The engine *)

\* work_thread: the blocks are loaded, or a reset is over.
SyncOn ==
  /\ sync = "starting" /\ sync' = "on"
  /\ UNCHANGED <<store, waiting, mutex, stack, asked, net, refused, trouble, lost>>

\* A reset begins; (bound) MaxTrouble.
SyncOff ==
  /\ sync = "on" /\ sync' = "off"
  /\ trouble < MaxTrouble /\ trouble' = trouble + 1
  /\ UNCHANGED <<store, waiting, mutex, stack, asked, net, refused, lost>>

\* The reset frees the blocks, and not those that wait.
Clear ==
  /\ sync = "off" /\ sync' = "starting" /\ store' = {}
  /\ UNCHANGED <<waiting, mutex, stack, asked, net, refused, trouble, lost>>

-----------------------------------------------------------------------------
(* xdag_sync_add_block *)

Missing(b) == {i \in 1 .. Len(Links[b]) : Links[b][i] \notin store}
FirstMissing(b) == Links[b][CHOOSE i \in Missing(b) : \A j \in Missing(b) : i <= j]

\* Mutant of Add: a block that is there already releases nothing.
AddOnce(t) ==
  /\ At(t, "add")
  /\ LET b == Top(t).block
     IN IF Missing(b) = {}
        THEN /\ store' = store \cup {b} /\ refused' = refused \ {b}
             /\ IF b \in store THEN Return(t) ELSE Become(t, Call("pop", b, b))
        ELSE Become(t, Call("decide", b, FirstMissing(b))) /\ UNCHANGED <<store, refused>>
  /\ UNCHANGED <<waiting, mutex, asked, net, sync, trouble, lost>>

\* Add: xdag_add_block takes the block, or names the first link it lacks.
Add(t) ==
  /\ At(t, "add")
  /\ LET b == Top(t).block
     IN IF Missing(b) = {}
        THEN /\ store' = store \cup {b} /\ refused' = refused \ {b}
             /\ Become(t, Call("pop", b, b))
        ELSE Become(t, Call("decide", b, FirstMissing(b))) /\ UNCHANGED <<store, refused>>
  /\ UNCHANGED <<waiting, mutex, asked, net, sync, trouble, lost>>

\* Or xdag_add_block refuses a block it does not have for another reason (its
\* type, time, signatures, amounts; the disk), and that is the end of it.
Refuse(t) ==
  /\ At(t, "add") /\ Top(t).block \notin store
  /\ trouble < MaxTrouble /\ trouble' = trouble + 1
  /\ refused' = refused \cup {Top(t).block} /\ Return(t)
  /\ UNCHANGED <<store, waiting, mutex, asked, net, sync, lost>>

\* A block with a missing link is kept only while g_xdag_sync_on, which is read
\* without a mutex.
Decide(t) ==
  /\ At(t, "decide")
  /\ IF sync = "on"
     THEN Become(t, [Top(t) EXCEPT !.op = "push"]) /\ refused' = refused \ {Top(t).block}
     ELSE Return(t) /\ refused' = refused \cup {Top(t).block}
  /\ UNCHANGED <<store, waiting, mutex, asked, net, sync, trouble, lost>>

Found(Test(_)) == {i \in 1 .. Len(waiting) : Test(waiting[i])}
Newest(S) == CHOOSE i \in S : \A j \in S : i <= j

\* push_block: the block waits already, for less than REQ_PERIOD or more; or it
\* is entered.
Push(t) ==
  /\ At(t, "push") /\ mutex = None
  /\ LET b == Top(t).block  h == Top(t).hash
         found == Found(LAMBDA e : e.block = b /\ e.under = h)
         chase == Become(t, Call("chase", b, h))
     IN IF found = {}
        THEN /\ waiting' = <<[block |-> b, under |-> h, fresh |-> TRUE]>> \o waiting
             /\ chase
        ELSE /\ waiting' = [waiting EXCEPT ![Newest(found)].fresh = TRUE]
             /\ IF waiting[Newest(found)].fresh THEN Return(t) ELSE chase
  /\ UNCHANGED <<store, mutex, asked, net, engine, lost>>

\* There is no memory for the entry, and the mutex stays locked; -1 is taken
\* for a block to be asked for.
PushFails(t) ==
  /\ At(t, "push") /\ mutex = None
  /\ Found(LAMBDA e : e.block = Top(t).block /\ e.under = Top(t).hash) = {}
  /\ mutex' = t /\ lost' = TRUE
  /\ Become(t, Call("chase", Top(t).block, Top(t).hash))
  /\ UNCHANGED <<store, waiting, asked, net, engine>>

Chase(t) ==
  /\ At(t, "chase") /\ mutex = None
  /\ mutex' = t /\ Become(t, [Top(t) EXCEPT !.op = "hop"])
  /\ UNCHANGED <<store, waiting, asked, net, engine, lost>>

\* Follows what the missing link waits for, to the one that waits for nothing.
Hop(t) ==
  /\ At(t, "hop") /\ mutex = t
  /\ LET found == Found(LAMBDA e : e.block = Top(t).hash)
         e == waiting[Newest(found)]
     IN IF found = {}
        THEN mutex' = None /\ Become(t, [Top(t) EXCEPT !.op = "request"]) /\ UNCHANGED waiting
        ELSE IF e.fresh THEN mutex' = None /\ Return(t) /\ UNCHANGED waiting
        ELSE /\ waiting' = [waiting EXCEPT ![Newest(found)].fresh = TRUE]
             /\ Become(t, [Top(t) EXCEPT !.hash = e.under, !.own = <<e>>])
             /\ UNCHANGED mutex
  /\ UNCHANGED <<store, asked, net, engine, lost>>

\* xdag_request_block is given a pointer into the entry, without the mutex: if
\* the entry has been released, any hash may be asked for, or none that exists.
Freed(f) ==
  f.own # <<>> /\ Found(LAMBDA e : e.block = f.own[1].block /\ e.under = f.own[1].under) = {}

Request(t) ==
  /\ At(t, "request")
  /\ IF Freed(Top(t)) THEN \E S \in SUBSET Blocks :
                             (\A a, b \in S : a = b) /\ asked' = asked \cup S
                      ELSE asked' = asked \cup {Top(t).hash}
  /\ Return(t)
  /\ UNCHANGED <<store, waiting, mutex, net, engine, lost>>

-----------------------------------------------------------------------------
(* xdag_sync_pop_block *)

\* Mutant of Pop: one waiting block is released.
PopOne(t) ==
  /\ At(t, "pop") /\ mutex = None
  /\ LET found == Found(LAMBDA e : e.under = Top(t).block)
     IN IF found = {} THEN Return(t) /\ UNCHANGED waiting
        ELSE LET b == waiting[Newest(found)].block
             IN /\ waiting' = RemoveAt(waiting, Newest(found))
                /\ Become(t, Call("add", b, b))
  /\ UNCHANGED <<store, mutex, asked, net, engine, lost>>

\* Releases a block that waits, adds it, and begins again.
Pop(t) ==
  /\ At(t, "pop") /\ mutex = None
  /\ LET found == Found(LAMBDA e : e.under = Top(t).block)
     IN IF found = {} THEN Return(t) /\ UNCHANGED waiting
        ELSE LET b == waiting[Newest(found)].block
             IN /\ waiting' = RemoveAt(waiting, Newest(found))
                /\ Enter(t, Call("add", b, b))
  /\ UNCHANGED <<store, mutex, asked, net, engine, lost>>

-----------------------------------------------------------------------------
ThreadStep(t) ==
  Add(t) \/ Decide(t) \/ Push(t) \/ Chase(t) \/ Hop(t) \/ Request(t) \/ Pop(t)

\* (Bound: the model ends when something is lost.)
Next ==
  /\ ~lost
  /\ \/ \E t \in Threads : Arrive(t) \/ ThreadStep(t) \/ Refuse(t) \/ PushFails(t)
     \/ Answer \/ Lose \/ Age \/ SyncOn \/ SyncOff \/ Clear

Spec == Init /\ [][Next]_vars

FairSpec ==
  /\ Spec /\ WF_vars(Answer)
  /\ \A t \in Threads : WF_vars(Arrive(t)) /\ WF_vars(ThreadStep(t))

-----------------------------------------------------------------------------
(* Properties *)

Busy(op, b) == \E t \in Threads : \E i \in 1 .. Len(stack[t]) :
                 LET f == stack[t][i] IN f.op \in op /\ f.block = b

\* No block waits for a block that is there already and that nobody will bring
\* up again: the threads enter and release blocks between the looks at the lists,
\* but then one of them is still releasing, or has asked, or is about to ask,
\* or the block that is there still waits itself and will be released once more.
NoneForgotten ==
  ~lost => \A i \in 1 .. Len(waiting) :
    LET e == waiting[i]
    IN e.under \in store =>
         \/ \E j \in 1 .. Len(waiting) : waiting[j].block = e.under
         \/ Busy({"pop", "add"}, e.under) \/ e.under \in asked \cup net
         \/ Busy({"chase", "hop", "request"}, e.block)

\* Somebody releases what waits for a block that a reset has taken away: what he
\* releases lacks the block, and waits for it again, and he finds it again.
Spinning ==
  \E t \in Threads : \E i \in 1 .. Len(stack[t]) :
    stack[t][i].op = "pop" /\ stack[t][i].block \notin store

\* Nothing is under way, no thread is stuck, and a block that still waits does so
\* for a refused block, or for one that waits itself.  (Links have no cycles, so
\* the last one of them waits for a refused block.)
Settled ==
  /\ net = {} /\ asked = {} /\ \A t \in Threads : Idle(t)
  /\ \A i \in 1 .. Len(waiting) :
       \/ waiting[i].under \in refused
       \/ \E j \in 1 .. Len(waiting) : waiting[j].block = waiting[i].under

\* Every block that arrives enters the engine in the end, with all it links to, in
\* whatever order they come, unless it or one of them was refused or dropped, a
\* message is lost, or a thread spins after a reset.
AllEnter == <>(lost \/ Settled) \/ <>[]Spinning

=============================================================================
