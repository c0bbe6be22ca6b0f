----------------------------- MODULE MainChain -----------------------------
(***************************************************************************)
(* The block graph of client/block.c: adding a block (add_block_nolock),    *)
(* choosing the heaviest chain, turning its blocks into main blocks, paying  *)
(* them and carrying the transfers they confirm (apply_block), and taking    *)
(* all of that back when a heavier chain wins (unwind_main, unapply_block).  *)
(*                                                                         *)
(* The candidate blocks are constants: what each links to, when it was made  *)
(* and how hard its hash is.  They arrive in any order that has the linked    *)
(* blocks first; a block refused (a missing link, an unreadable input) is a  *)
(* block that has not arrived.  All of it happens under block_mutex, so an   *)
(* action is one call.  Modes says whether g_light_mode may be 0: the app    *)
(* is built with 1, which ignores outgoing links and makes no main block.    *)
(***************************************************************************)
EXTENDS Integers, Sequences, FiniteSets, FiniteSetsExt, SequencesExt

CONSTANTS
  Blocks, None,
  Time,       (* Time[b]: when b was made                                    *)
  Work,       (* Work[b]: the difficulty of b's own hash                     *)
  Fee,        (* Fee[b]                                                      *)
  Fields,     (* Fields[b]: sequence of links [to, amount, in]               *)
  Ours,       (* blocks signed with a key of the wallet                      *)
  Modes,      (* values of g_light_mode                                      *)
  Start, BigPeriod,       (* reward of a main block, and how many get it      *)
  PERIOD, QUARTER, WAIT,  (* a chain period, a quarter of it, two seconds     *)
  Word,                   (* amounts are kept modulo Word                    *)
  MaxNow                  (* bound of the clock                              *)

ASSUME ChainAssumption ==
  /\ IsFiniteSet(Blocks) /\ None \notin Blocks /\ Ours \subseteq Blocks
  /\ Modes \subseteq BOOLEAN
  /\ {Start, BigPeriod, PERIOD, Word} \subseteq Nat \ {0}
  /\ {QUARTER, WAIT, MaxNow} \subseteq Nat
  /\ Time \in [Blocks -> Nat] /\ Work \in [Blocks -> Nat \ {0}]
  /\ Fee \in [Blocks -> 0 .. Word - 1]
  /\ Fields \in [Blocks -> Seq([to : Blocks, amount : 0 .. Word - 1, in : BOOLEAN])]

VARIABLES
  light,    (* g_light_mode                                                  *)
  now,      (* the clock                                                     *)
  known,    (* blocks in the tree `root`                                     *)
  node,     (* of each known block: difficulty and link[max_diff_link]       *)
  top, pretop,     (* top_main_chain, pretop_main_chain                      *)
  chain,    (* blocks flagged BI_MAIN_CHAIN                                  *)
  main,     (* blocks flagged BI_MAIN                                        *)
  linked,   (* blocks flagged BI_REF                                         *)
  norefs,   (* noref_first and noref_last                                    *)
  ledger    (* what else set_main and unset_main change, see Ledger          *)

graph == <<known, node, top, pretop, chain, linked, norefs>>
vars  == <<light, now, graph, main, ledger>>

Period(t) == t \div PERIOD
Plus(x, y)  == (x + y) % Word
Minus(x, y) == (x - y) % Word

\* x after n steps, the i-th of them y |-> F[i][y]: the loops of the code.
Iterate(F, x, n) ==
  LET after[i \in Nat] == IF i = 0 THEN x ELSE F[i][after[i - 1]]
  IN after[n]

\* The links that count: a light wallet ignores the outgoing ones.
Used(b)    == {i \in 1 .. Len(Fields[b]) : light => Fields[b][i].in}
LinkSet(b) == {Fields[b][i] : i \in Used(b)}
HasInput(b) == \E l \in LinkSet(b) : l.in

SumOf(b, in) ==
  Iterate([i \in 1 .. Len(Fields[b]) |-> [s \in Nat |->
             IF i \in Used(b) /\ Fields[b][i].in = in THEN s + Fields[b][i].amount ELSE s]],
          0, Len(Fields[b]))

BlockOrNone == Blocks \cup {None}

\* amount, balance: bi->amount and g_balance; first, last, prev, next: the
\* list of our blocks; nmain: the number of main blocks; applied, mainRef: the
\* flags BI_APPLIED, BI_MAIN_REF; ref: the pointer that serves the list of
\* unlinked blocks first and names the block that applied this one later.
\* unearned: history, a fee was taken back that had never been paid.
Ledger ==
  [amount : [Blocks -> 0 .. Word - 1], balance : 0 .. Word - 1,
   first : BlockOrNone, last : BlockOrNone,
   prev : [Blocks -> BlockOrNone], next : [Blocks -> BlockOrNone],
   nmain : Int, applied : SUBSET Blocks, mainRef : SUBSET Blocks,
   ref : [Blocks -> BlockOrNone], unearned : BOOLEAN]

LedgerInit ==
  [amount |-> [b \in Blocks |-> 0], balance |-> 0,
   first |-> None, last |-> None,
   prev |-> [b \in Blocks |-> None], next |-> [b \in Blocks |-> None],
   nmain |-> 0, applied |-> {}, mainRef |-> {},
   ref |-> [b \in Blocks |-> None], unearned |-> FALSE]

NodeInit == [diff |-> [b \in Blocks |-> 0], parent |-> [b \in Blocks |-> None]]

Init ==
  /\ light \in Modes /\ now = 0
  /\ known = {} /\ top = None /\ pretop = None /\ chain = {} /\ main = {} /\ linked = {}
  /\ node = NodeInit
  /\ norefs = [first |-> None, last |-> None]
  /\ ledger = LedgerInit

-----------------------------------------------------------------------------
(* Amounts and the list of our blocks *)

\* a stands just before b in our list: afterwards b stands just before a.
Swap(L, a, b) ==
  LET before == L.prev[a]
      after  == L.next[b]
  IN [L EXCEPT
        !.prev = [x \in Blocks |-> CASE x = a -> b [] x = b -> before
                                     [] x = after -> a [] OTHER -> @[x]],
        !.next = [x \in Blocks |-> CASE x = a -> after [] x = b -> a
                                     [] x = before -> b [] OTHER -> @[x]],
        !.first = IF before = None THEN b ELSE @,
        !.last  = IF after = None THEN a ELSE @]

\* The two loops of accept_amount: while b is richer than the block before it,
\* and while it is poorer than the one after it.
MoveUp(L, b) ==
  Iterate([i \in 1 .. Cardinality(Ours) |-> [A \in Ledger |->
             LET t == A.prev[b]
             IN IF t # None /\ A.amount[b] > A.amount[t] THEN Swap(A, t, b) ELSE A]],
          L, Cardinality(Ours))
MoveDown(L, b) ==
  Iterate([i \in 1 .. Cardinality(Ours) |-> [A \in Ledger |->
             LET t == A.next[b]
             IN IF t # None /\ A.amount[b] < A.amount[t] THEN Swap(A, b, t) ELSE A]],
          L, Cardinality(Ours))

\* Mutant of Accept: the list is only sorted when an amount has grown.
AcceptUp(L, b, sum) ==
  LET paid == [L EXCEPT !.amount[b] = Plus(@, sum)]
  IN IF b \in Ours THEN MoveUp([paid EXCEPT !.balance = Plus(@, sum)], b) ELSE paid

\* accept_amount
Accept(L, b, sum) ==
  LET paid == [L EXCEPT !.amount[b] = Plus(@, sum)]
  IN IF b \in Ours /\ sum # 0
     THEN MoveDown(MoveUp([paid EXCEPT !.balance = Plus(@, sum)], b), b)
     ELSE paid

\* Every link of b receives (or gives back, with sign -1) what b carries.
Carry(L, b, sign) ==
  Iterate([i \in 1 .. Len(Fields[b]) |-> [A \in Ledger |->
             LET l == Fields[b][i]
             IN IF i \in Used(b)
                THEN Accept(A, l.to, Minus(0, sign * (IF l.in THEN l.amount ELSE -l.amount)))
                ELSE A]],
          L, Len(Fields[b]))

-----------------------------------------------------------------------------
(* Main blocks *)

\* The checks of apply_block: funds, and sums that do not overflow.
Covered(L, b) ==
  /\ \A l \in LinkSet(b) : l.in => L.amount[l.to] >= l.amount
  /\ SumOf(b, TRUE) + L.amount[b] < Word /\ SumOf(b, FALSE) + Fee[b] < Word
  /\ SumOf(b, TRUE) + L.amount[b] >= SumOf(b, FALSE) + Fee[b]

Carried(L, b) ==
  [Accept(Carry(L, b, 1), b, Minus(SumOf(b, TRUE), SumOf(b, FALSE) + Fee[b]))
     EXCEPT !.applied = @ \cup {b}]

\* apply_block returns -1, as an unsigned number, for a block that has been
\* visited, 0 for one that is not covered, and else the fee.
Visited == Word - 1

\* Its loop over the links of x, with what apply_block does below.
ApplyLinks(below, x) ==
  [i \in 1 .. Len(Fields[x]) |-> [A \in Ledger |->
     LET y == Fields[x][i].to
         r == below[A][y]
         R == [r.led EXCEPT !.ref[y] = x]
     IN IF i \notin Used(x) THEN A
        ELSE IF r.fee = Visited THEN r.led
        ELSE IF Plus(R.amount[x], r.fee) >= R.amount[x] THEN Accept(R, x, r.fee) ELSE R]]

ApplyOne(below, L, b) ==
  LET M == Iterate(ApplyLinks(below, b), [L EXCEPT !.mainRef = @ \cup {b}], Len(Fields[b]))
  IN IF b \in L.mainRef THEN [led |-> L, fee |-> Visited]
     ELSE IF Covered(M, b) THEN [led |-> Carried(M, b), fee |-> Fee[b]]
     ELSE [led |-> M, fee |-> 0]

\* apply_block.  Links go to older blocks: it descends no deeper than Time[b].
Apply(L, b) ==
  LET go[n \in 0 .. Time[b]] ==
        [A \in Ledger |-> [x \in Blocks |-> ApplyOne(IF n = 0 THEN <<>> ELSE go[n - 1], A, x)]]
  IN go[Time[b]][L][b]

\* What unapply_block does for a block that was applied.
Undone(L, b) ==
  [Accept(Carry(L, b, -1), b, Minus(SumOf(b, FALSE) + Fee[b], SumOf(b, TRUE)))
     EXCEPT !.applied = @ \ {b}]

Undo(L, b) ==
  LET U == IF b \in L.applied THEN Undone(L, b)
           ELSE [L EXCEPT !.unearned = @ \/ Fee[b] > 0]
  IN [U EXCEPT !.mainRef = @ \ {b}]

\* Mutant of Unapply: the blocks below are left applied.
UnapplyOnly(L, b) == Undo(L, b)

\* Its loop over the links of x.
UnapplyLinks(below, x) ==
  [i \in 1 .. Len(Fields[x]) |-> [A \in Ledger |->
     LET y == Fields[x][i].to
     IN IF i \in Used(x) /\ A.ref[y] = x /\ y \in A.mainRef
        THEN Accept(below[A][y], x, Minus(0, Fee[y]))
        ELSE A]]

UnapplyOne(below, L, b) == Iterate(UnapplyLinks(below, b), Undo(L, b), Len(Fields[b]))

\* unapply_block
Unapply(L, b) ==
  LET go[n \in 0 .. Time[b]] ==
        [A \in Ledger |-> [x \in Blocks |-> UnapplyOne(IF n = 0 THEN <<>> ELSE go[n - 1], A, x)]]
  IN go[Time[b]][L][b]

\* The reward of the n-th main block, counted from 0: halved every BigPeriod.
Reward(n) ==
  Iterate([i \in 1 .. n |-> [x \in Nat |-> x \div 2]], Start, n \div BigPeriod)

SetMain(L, b) ==
  LET r == Apply(Accept([L EXCEPT !.nmain = @ + 1], b, Reward(L.nmain)), b)
  IN Accept(r.led, b, r.fee)

\* Mutant of UnsetMain: the reward is computed before the count goes down.
UnsetMainLate(L, b) ==
  LET less == [L EXCEPT !.nmain = @ - 1]
  IN Accept(Unapply(Accept(less, b, Minus(0, Reward(L.nmain))), b), b, Minus(0, Fee[b]))

UnsetMain(L, b) ==
  LET less == [L EXCEPT !.nmain = @ - 1]
  IN Accept(Unapply(Accept(less, b, Minus(0, Reward(less.nmain))), b), b, Minus(0, Fee[b]))

-----------------------------------------------------------------------------
(* The way down *)

\* The blocks met from a block downwards over link[max_diff_link], which leads
\* to an older block each time: the walks of the code, as sets.
PathFrom(N) ==
  LET path[x \in Blocks] == {x} \cup IF N.parent[x] = None THEN {} ELSE path[N.parent[x]]
  IN path
Path(N, b) == IF b = None THEN {} ELSE PathFrom(N)[b]

\* The first and the last block of a way down that lie in S.
Youngest(S) == IF S = {} THEN None ELSE CHOOSE x \in S : \A y \in S : Time[y] <= Time[x]
Oldest(S)   == IF S = {} THEN None ELSE CHOOSE x \in S : \A y \in S : Time[x] <= Time[y]

\* What the walk of check_new_main counts, from the top down to the first main
\* block.
Waiting ==
  {x \in Path(node, top) \cap chain : \A y \in Path(node, top) \cap main : Time[y] < Time[x]}

\* check_new_main, if it has something to do.
Ripe ==
  ~light /\ Cardinality(Waiting) > 1 /\ now >= Time[Oldest(Waiting)] + WAIT

NewMain ==
  IF Ripe THEN [main |-> main \cup {Oldest(Waiting)}, led |-> SetMain(ledger, Oldest(Waiting))]
          ELSE [main |-> main, led |-> ledger]

-----------------------------------------------------------------------------
(* Adding a block *)

\* Mutant of Through: the work of a second block of a period is added too.
ThroughAll(b, x) == Work[b] + node.diff[x]

\* The difficulty a block gets through its link to x: a period counts once, so
\* it comes on top of the first block below that is of another period.
Through(b, x) ==
  LET q == Youngest({y \in Path(node, x) : Period(Time[y]) # Period(Time[b])})
  IN IF q = x THEN Work[b] + node.diff[x]
     ELSE IF q = None THEN node.diff[x]
     ELSE Max({node.diff[x], Work[b] + node.diff[q]})

\* The difficulty of b and its link[max_diff_link]: the first that gives more
\* than b's own work, else the first of all.
Total(b) == Max({Work[b]} \cup {Through(b, l.to) : l \in LinkSet(b)})
Best(b) ==
  LET best == {i \in Used(b) : Total(b) \in {Work[b], Through(b, Fields[b][i].to)}}
  IN IF best = {} THEN None ELSE Fields[b][Min(best)].to

\* A light wallet adds the blocks it made, and these again from its storage.
Accepted(b) ==
  /\ light => b \in Ours
  /\ b \notin known /\ Time[b] <= now + QUARTER
  /\ \A l \in LinkSet(b) : l.to \in known /\ Time[l.to] < Time[b]
  /\ SumOf(b, TRUE) < Word /\ SumOf(b, FALSE) + Fee[b] < Word
  /\ IF HasInput(b) THEN SumOf(b, TRUE) >= SumOf(b, FALSE) + Fee[b]
                    ELSE SumOf(b, FALSE) = 0

\* On the way down from b, as far as no block is marked: those heavier than the
\* block below, the first of each period, are marked.
Marks(N, b) ==
  LET fresh == {x \in Path(N, b) : \A y \in Path(N, b) \cap chain : Time[y] < Time[x]}
      heavy == {x \in fresh : N.parent[x] # None => N.diff[x] > N.diff[N.parent[x]]}
  IN {x \in heavy : \A y \in heavy :
        Period(Time[y]) = Period(Time[x]) => Time[y] <= Time[x]}

\* Mutant of StopAt: the block below is not skipped.
StopBelow(N, b) == Youngest(Path(N, b) \cap chain)

\* Where unwinding stops: at the first marked block, or below it if it is of
\* the same period as the last one marked, which has just taken its place.
StopAt(N, b) ==
  LET stop == Youngest(Path(N, b) \cap chain)
      last == Oldest(Marks(N, b))
  IN IF stop # None /\ last # None /\ Period(Time[stop]) = Period(Time[last])
     THEN N.parent[stop] ELSE stop

\* What unwind_main leaves behind: the way from the top down to stop.
Away(stop) ==
  {x \in Path(node, top) : stop \in Path(node, top) => Time[stop] < Time[x]}

\* unwind_main takes back the main blocks on it, the youngest first.
Unwind(M, away) ==
  LET down == [i \in 1 .. Cardinality(away) |-> [S \in [led : Ledger, t : BlockOrNone] |->
                 [led |-> IF S.t \in M.main THEN UnsetMain(S.led, S.t) ELSE S.led,
                  t |-> node.parent[S.t]]]]
  IN Iterate(down, [led |-> M.led, t |-> top], Cardinality(away)).led

-----------------------------------------------------------------------------
\* The list of unlinked blocks: flags, pointers, ends.
Lists == [linked : SUBSET Blocks, led : Ledger, norefs : [first : BlockOrNone, last : BlockOrNone]]

\* The block that points at b in the list of unlinked blocks.
Before(S, b) ==
  IF S.norefs.first = b THEN None ELSE CHOOSE x \in known \ S.linked : S.led.ref[x] = b

\* Mutant of Unlist: noref_last is left alone when the last block goes.
UnlistKeepsLast(S, b) ==
  LET p == Before(S, b)
  IN [linked |-> S.linked \cup {b},
      led    |-> IF p = None THEN S.led ELSE [S.led EXCEPT !.ref[p] = S.led.ref[b]],
      norefs |-> [S.norefs EXCEPT !.first = IF p = None THEN S.led.ref[b] ELSE @]]

\* Takes b out of the list.
Unlist(S, b) ==
  LET p == Before(S, b)
  IN [linked |-> S.linked \cup {b},
      led    |-> IF p = None THEN S.led ELSE [S.led EXCEPT !.ref[p] = S.led.ref[b]],
      norefs |-> [first |-> IF p = None THEN S.led.ref[b] ELSE S.norefs.first,
                  last  |-> IF S.norefs.last = b THEN p ELSE S.norefs.last]]

\* The blocks b links to leave the list.
UnlistLinks(L, b) ==
  Iterate([i \in 1 .. Len(Fields[b]) |-> [S \in Lists |->
             IF i \notin Used(b) \/ Fields[b][i].to \in S.linked THEN S
             ELSE Unlist(S, Fields[b][i].to)]],
          [linked |-> linked, led |-> L, norefs |-> norefs], Len(Fields[b]))

\* b joins it at its end.
Enlist(S, b) ==
  [S EXCEPT !.led.ref = IF S.norefs.last = None THEN @ ELSE [@ EXCEPT ![S.norefs.last] = b],
            !.norefs = [first |-> IF S.norefs.last = None THEN b ELSE @.first, last |-> b]]

\* A block of ours joins the end of our list.
Own(L, b) ==
  IF b \notin Ours THEN L
  ELSE [L EXCEPT !.prev[b] = L.last, !.last = b,
                 !.next = IF L.last = None THEN @ ELSE [@ EXCEPT ![L.last] = b],
                 !.first = IF L.last = None THEN b ELSE @]

\* What happens to a new block in any case, once the chain is settled.
Join(L, b) ==
  LET s == Enlist(UnlistLinks(Own(L, b), b), b)
  IN ledger' = s.led /\ linked' = s.linked /\ norefs' = s.norefs

\* set_pretop
Pretop(N, old, b) ==
  IF b # None /\ Period(Time[b]) < Period(now) /\ (old = None \/ N.diff[b] > N.diff[old])
  THEN b ELSE old

Difficulty == IF top = None THEN 0 ELSE node.diff[top]

\* b is the heaviest block so far: the main chain now leads to it.
Lead(N, b, M) ==
  LET away == Away(StopAt(N, b))
  IN /\ top' = b
     /\ chain' = (chain \cup Marks(N, b)) \ away
     /\ main' = M.main \ away
     /\ Join(Unwind(M, away), b)

\* A block that is not stays beside it.
Follow(b, M) == UNCHANGED <<top, chain>> /\ main' = M.main /\ Join(M.led, b)

\* add_block_nolock
AddBlock(b) ==
  /\ Accepted(b)
  /\ UNCHANGED <<light, now>>
  /\ known' = known \cup {b}
  /\ LET N == [node EXCEPT !.diff[b] = Total(b), !.parent[b] = Best(b)]
     IN /\ node' = N
        /\ pretop' = Pretop(N, Pretop(N, pretop, b), top)
        /\ IF Total(b) > Difficulty THEN Lead(N, b, NewMain) ELSE Follow(b, NewMain)

\* check_new_main, called for its own sake by work_thread.
CheckNewMain ==
  /\ Ripe
  /\ ledger' = NewMain.led /\ main' = NewMain.main
  /\ UNCHANGED <<light, now, graph>>

\* The reset of work_thread: everything is forgotten.
Clear ==
  /\ known # {}
  /\ known' = {} /\ top' = None /\ pretop' = None /\ chain' = {} /\ main' = {} /\ linked' = {}
  /\ node' = NodeInit
  /\ norefs' = [first |-> None, last |-> None]
  /\ ledger' = LedgerInit
  /\ UNCHANGED <<light, now>>

Tick == now < MaxNow /\ now' = now + 1 /\ UNCHANGED <<light, graph, main, ledger>>

Next == (\E b \in Blocks : AddBlock(b)) \/ CheckNewMain \/ Clear \/ Tick

Spec == Init /\ [][Next]_vars

-----------------------------------------------------------------------------
(* Properties *)

TypeOK ==
  /\ light \in Modes /\ now \in 0 .. MaxNow
  /\ known \subseteq Blocks /\ chain \subseteq known /\ main \subseteq chain
  /\ linked \subseteq known /\ {top, pretop} \subseteq known \cup {None}
  /\ node \in [diff : [Blocks -> Nat], parent : [Blocks -> BlockOrNone]]
  /\ norefs \in [first : BlockOrNone, last : BlockOrNone]
  /\ ledger \in Ledger /\ ledger.applied \cup ledger.mainRef \subseteq known

\* The marked blocks lie on the way down from the top, one per period, and the
\* main blocks are the oldest of them: unwinding ends where it should.
ChainOnPath ==
  /\ chain \subseteq Path(node, top)
  /\ \A x, y \in chain : x # y => Period(Time[x]) # Period(Time[y])
  /\ \A x \in main, y \in chain \ main : Time[x] < Time[y]

\* The work of a set of blocks counts the hardest block of each period.
Hardest(S, p) == Max({0} \cup {Work[x] : x \in {y \in S : Period(Time[y]) = p}})
Weight(S, n) ==
  Iterate([p \in 1 .. n |-> [w \in Nat |-> w + Hardest(S, p - 1)]], 0, n)

\* The difficulty of a block is the work of its way down, the heaviest of those
\* that go on from one of its links, and no block is heavier than the top.
TopIsHeaviest ==
  /\ \A b \in known :
       LET Weigh(S) == Weight(S, Period(Time[b]) + 1)
       IN /\ node.diff[b] = Weigh(Path(node, b))
          /\ \A l \in LinkSet(b) : node.diff[b] >= Weigh({b} \cup Path(node, l.to))
  /\ Difficulty = Max({0} \cup {node.diff[b] : b \in known})

\* What is paid out is what the main blocks earned.
Supply == MapThenSumSet(Reward, 0 .. ledger.nmain - 1)
Conserved ==
  ~ledger.unearned =>
    MapThenSumSet(LAMBDA b : ledger.amount[b], Blocks) % Word = Supply % Word

\* Reorganisations leave no trace: the amounts are those that confirming the
\* main blocks one after the other gives.
Mains == SetToSortSeq(main, LAMBDA x, y : Time[x] < Time[y])
Replay == FoldLeft(SetMain, LedgerInit, Mains)
LedgerIsReplay ==
  ~ledger.unearned =>
    /\ ledger.nmain = Cardinality(main)
    /\ ledger.amount = Replay.amount
    /\ ledger.applied = Replay.applied /\ ledger.mainRef = Replay.mainRef

\* The blocks of a list: n of them from `first` on, in the order of `link`.
Walk(link, first, n) ==
  LET walk[i \in 1 .. n] == IF i = 1 THEN first ELSE link[walk[i - 1]]
  IN walk

\* Our list, forwards and backwards, holds our blocks once, richest first, and
\* the balance is their sum.
OursSorted ==
  LET n == Cardinality(known \cap Ours)
      s == Walk(ledger.next, ledger.first, n)
      r == Walk(ledger.prev, ledger.last, n)
  IN /\ ToSet(s) = known \cap Ours /\ \A i \in 1 .. n : r[i] = s[n + 1 - i]
     /\ IF n = 0 THEN ledger.first = None /\ ledger.last = None
                 ELSE ledger.next[s[n]] = None /\ ledger.prev[r[n]] = None
     /\ \A i \in 1 .. n - 1 : ledger.amount[s[i]] >= ledger.amount[s[i + 1]]
     /\ ledger.balance = MapThenSumSet(LAMBDA b : ledger.amount[b], known \cap Ours) % Word

\* The list of unlinked blocks holds exactly these, once.
NorefsExact ==
  LET n == Cardinality(known \ linked)
      s == Walk(ledger.ref, norefs.first, n)
  IN /\ ToSet(s) = known \ linked
     /\ norefs.last = IF n = 0 THEN None ELSE s[n]
     /\ n = 0 => norefs.first = None
     /\ linked = {l.to : l \in UNION {LinkSet(b) : b \in known}}

=============================================================================
