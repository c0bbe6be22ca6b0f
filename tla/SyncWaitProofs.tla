--------------------------- MODULE SyncWaitProofs ---------------------------
(***************************************************************************)
(* For any blocks, links and threads: no block that waits is forgotten, in      *)
(* whatever order the threads of sync.c look at the lists and change them.      *)
(***************************************************************************)
EXTENDS SyncWait, SequenceTheorems, WellFoundedInduction, TLAPS

Waits(b, h) == \E i \in 1 .. Len(waiting) : waiting[i].block = b /\ waiting[i].under = h

\* The calls under way, whichever thread makes them.
Frames == UNION {{stack[t][i] : i \in 1 .. Len(stack[t])} : t \in Threads}

\* Somebody is adding b, or releasing what waits for it.
Releasing(b) == \E f \in Frames : f.op \in {"pop", "add"} /\ f.block = b

\* Somebody who has just entered b under h is about to ask for h, if h does not
\* wait itself; h is still read from b's own fields.
Looking(b, h) ==
  \E f \in Frames : f.op \in {"chase", "hop", "request"} /\ f.block = b /\ f.hash = h
                    /\ f.own = <<>>

\* A block enters the engine after all its links.
LinksFirst == \A b \in store : \A i \in 1 .. Len(Links[b]) : Links[b][i] \in store

\* Why a block that waits for a block that is there will still be released.
Reason(b, h) ==
  \/ \E u \in Blocks : Waits(h, u)
  \/ Releasing(h) \/ h \in asked \cup net \/ Looking(b, h)

Remembered == ~lost => \A b, h \in Blocks : Waits(b, h) /\ h \in store => Reason(b, h)

SyncInv == TypeOK /\ LinksFirst /\ Remembered

-----------------------------------------------------------------------------
(* Sequences *)

\* Any numbers have a least one.
LEMMA Least ==
  ASSUME NEW S \in SUBSET Nat, S # {}
  PROVE  \E i \in S : \A j \in S : i <= j
<1> DEFINE R == {ij \in Nat \X Nat : ij[1] < ij[2]}
<1>1. IsWellFoundedOn(R, Nat)
  BY NatLessThanWellFounded DEF OpToRel
<1>2. \A i, j \in Nat : i < j => <<i, j>> \in R
  OBVIOUS
<1> HIDE DEF R
<1>3. PICK i \in S : \A j \in S : <<j, i>> \notin R
  BY <1>1, WFMin
<1>4. ASSUME NEW j \in S PROVE i <= j
  <2>1. i \in Nat /\ j \in Nat
    OBVIOUS
  <2>2. ~(j < i)
    BY <1>2, <1>3, <2>1
  <2>3. QED
    BY <2>1, <2>2
<1>5. QED
  BY <1>4

\* The newest entry of those found is one of them.
LEMMA NewestFound ==
  ASSUME NEW S \in SUBSET Nat, S # {}
  PROVE  Newest(S) \in S
BY Least DEF Newest

\* A block that cannot be added lacks a block it links to.
LEMMA Lacks ==
  ASSUME NEW b \in Blocks, Missing(b) # {}
  PROVE  FirstMissing(b) \in Blocks
<1>1. Links[b] \in Seq(Blocks)
  BY SyncAssumption
<1>2. Missing(b) \subseteq Nat /\ Missing(b) \subseteq 1 .. Len(Links[b])
  BY DEF Missing
<1>3. \E i \in Missing(b) : \A j \in Missing(b) : i <= j
  BY <1>2, Least
<1>4. (CHOOSE i \in Missing(b) : \A j \in Missing(b) : i <= j) \in 1 .. Len(Links[b])
  BY <1>2, <1>3
<1>5. QED
  BY <1>1, <1>4, ElementOfSeq DEF FirstMissing

\* The front of a stack.
LEMMA FrontOf ==
  ASSUME NEW S, NEW s \in Seq(S), s # <<>>
  PROVE  /\ Front(s) \in Seq(S) /\ Len(Front(s)) = Len(s) - 1 /\ Len(s) \in Nat \ {0}
         /\ \A i \in 1 .. Len(s) - 1 : Front(s)[i] = s[i]
         /\ s[Len(s)] \in S
<1>1. Len(s) \in Nat \ {0}
  BY EmptySeq, LenProperties
<1>2. \A i \in 1 .. Len(s) : s[i] \in S
  BY ElementOfSeq
<1> DEFINE n == Len(s) - 1
<1>3. /\ SubSeq(s, 1, n) \in Seq(S)
      /\ Len(SubSeq(s, 1, n)) = n
      /\ \A i \in 1 .. n : SubSeq(s, 1, n)[i] = s[i]
  <2>1. n \in Nat /\ 1 \in Int /\ \A i \in 1 .. n : s[i] \in S
    BY <1>1, <1>2
  <2> HIDE DEF n
  <2>2. /\ SubSeq(s, 1, n) \in Seq(S)
        /\ Len(SubSeq(s, 1, n)) = IF 1 <= n THEN n - 1 + 1 ELSE 0
        /\ \A i \in 1 .. n - 1 + 1 : SubSeq(s, 1, n)[i] = s[1 + i - 1]
    BY <2>1, SubSeqProperties
  <2>3. n - 1 + 1 = n /\ \A i \in 1 .. n : 1 + i - 1 = i
    BY <2>1
  <2>4. QED
    BY <2>1, <2>2, <2>3
<1>4. QED
  BY <1>1, <1>2, <1>3 DEF Front

\* A list without its entry k: the other entries stay, and none comes.
LEMMA Removed ==
  ASSUME NEW S, NEW s \in Seq(S), NEW k \in 1 .. Len(s)
  PROVE  /\ RemoveAt(s, k) \in Seq(S)
         /\ \A i \in 1 .. Len(s) : i # k =>
              \E j \in 1 .. Len(RemoveAt(s, k)) : RemoveAt(s, k)[j] = s[i]
         /\ \A j \in 1 .. Len(RemoveAt(s, k)) :
              \E i \in 1 .. Len(s) : RemoveAt(s, k)[j] = s[i]
<1> DEFINE u == SubSeq(s, 1, k - 1)
           v == SubSeq(s, k + 1, Len(s))
<1>1. Len(s) \in Nat /\ k \in Nat /\ k >= 1 /\ k <= Len(s)
  BY LenProperties
<1>2. \A i \in 1 .. Len(s) : s[i] \in S
  BY ElementOfSeq
<1>3. u \in Seq(S) /\ Len(u) = k - 1 /\ \A i \in 1 .. k - 1 : u[i] = s[i]
  <2>1. \A i \in 1 .. k - 1 : s[i] \in S
    BY <1>1, <1>2
  <2>2. 1 \in Int /\ k - 1 \in Int
    BY <1>1
  <2>3. /\ u \in Seq(S)
        /\ Len(u) = IF 1 <= k - 1 THEN (k - 1) - 1 + 1 ELSE 0
        /\ \A i \in 1 .. (k - 1) - 1 + 1 : u[i] = s[1 + i - 1]
    BY <2>1, <2>2, SubSeqProperties
  <2>4. QED
    BY <1>1, <2>3
<1>4. v \in Seq(S) /\ Len(v) = Len(s) - k /\ \A i \in 1 .. Len(s) - k : v[i] = s[k + i]
  <2>1. \A i \in k + 1 .. Len(s) : s[i] \in S
    BY <1>1, <1>2
  <2>2. k + 1 \in Int /\ Len(s) \in Int
    BY <1>1
  <2>3. /\ v \in Seq(S)
        /\ Len(v) = IF k + 1 <= Len(s) THEN Len(s) - (k + 1) + 1 ELSE 0
        /\ \A i \in 1 .. Len(s) - (k + 1) + 1 : v[i] = s[(k + 1) + i - 1]
    BY <2>1, <2>2, SubSeqProperties
  <2>4. QED
    BY <1>1, <2>3
<1>5. RemoveAt(s, k) = u \o v
  BY DEF RemoveAt
<1> HIDE DEF u, v
<1>6. /\ u \o v \in Seq(S) /\ Len(u \o v) = Len(s) - 1
      /\ \A i \in 1 .. Len(s) - 1 : (u \o v)[i] = IF i <= k - 1 THEN s[i] ELSE s[i + 1]
  <2>1. /\ u \o v \in Seq(S) /\ Len(u \o v) = Len(u) + Len(v)
        /\ \A i \in 1 .. Len(u) + Len(v) :
             (u \o v)[i] = IF i <= Len(u) THEN u[i] ELSE v[i - Len(u)]
    BY <1>3, <1>4, ConcatProperties
  <2>2. ASSUME NEW i \in 1 .. Len(s) - 1
        PROVE  (u \o v)[i] = IF i <= k - 1 THEN s[i] ELSE s[i + 1]
    <3>1. CASE i <= k - 1
      BY <1>1, <1>3, <1>4, <2>1, <3>1
    <3>2. CASE ~(i <= k - 1)
      <4>1. i - (k - 1) \in 1 .. Len(s) - k /\ k + (i - (k - 1)) = i + 1
        BY <1>1, <3>2
      <4>2. (u \o v)[i] = v[i - (k - 1)]
        BY <1>1, <1>3, <1>4, <2>1, <3>2
      <4>3. QED
        BY <1>4, <3>2, <4>1, <4>2
    <3>3. QED
      BY <3>1, <3>2
  <2>3. QED
    BY <1>1, <1>3, <1>4, <2>1, <2>2
<1>7. ASSUME NEW i \in 1 .. Len(s), i # k
      PROVE  \E j \in 1 .. Len(s) - 1 : (u \o v)[j] = s[i]
  <2>1. CASE i < k
    <3>1. i \in 1 .. Len(s) - 1 /\ i <= k - 1
      BY <1>1, <2>1
    <3>2. QED
      BY <1>6, <3>1
  <2>2. CASE i > k
    <3>1. i - 1 \in 1 .. Len(s) - 1 /\ ~(i - 1 <= k - 1) /\ (i - 1) + 1 = i
      BY <1>1, <2>2
    <3>2. QED
      BY <1>6, <3>1
  <2>3. i < k \/ i > k
    BY <1>1, <1>7
  <2>4. QED
    BY <2>1, <2>2, <2>3
<1>8. ASSUME NEW j \in 1 .. Len(s) - 1
      PROVE  \E i \in 1 .. Len(s) : (u \o v)[j] = s[i]
  <2>1. j \in 1 .. Len(s) /\ j + 1 \in 1 .. Len(s)
    BY <1>1
  <2>2. QED
    BY <1>6, <2>1
<1>9. QED
  BY <1>5, <1>6, <1>7, <1>8

-----------------------------------------------------------------------------
(* Stacks *)

\* The innermost call of a thread is one of the calls under way.
LEMMA TopFrame ==
  ASSUME TypeOK, NEW t \in Threads, ~Idle(t)
  PROVE  Top(t) \in Frame /\ Top(t) \in Frames
<1>1. stack[t] \in Seq(Frame) /\ stack[t] # <<>>
  BY DEF TypeOK, Idle
<1>2. Len(stack[t]) \in Nat \ {0} /\ stack[t][Len(stack[t])] \in Frame
  BY <1>1, FrontOf
<1>3. Len(stack[t]) \in 1 .. Len(stack[t])
  BY <1>2
<1>4. QED
  BY <1>2, <1>3 DEF Top, Frames

\* A call that becomes another leaves the calls around it, and so does one that returns.
LEMMA Becomes ==
  ASSUME TypeOK, NEW t \in Threads, ~Idle(t), NEW f \in Frame, Become(t, f)
  PROVE  /\ stack' \in [Threads -> Seq(Frame)] /\ f \in Frames'
         /\ \A g \in Frames : g = Top(t) \/ g \in Frames'
<1> DEFINE s == stack[t]
           new == Append(Front(s), f)
<1>1. s \in Seq(Frame) /\ s # <<>>
  BY DEF TypeOK, Idle
<1>2. /\ Front(s) \in Seq(Frame) /\ Len(Front(s)) = Len(s) - 1 /\ Len(s) \in Nat \ {0}
      /\ \A i \in 1 .. Len(s) - 1 : Front(s)[i] = s[i]
  BY <1>1, FrontOf
<1>3. /\ new \in Seq(Frame) /\ Len(new) = Len(s) /\ new[Len(s)] = f
      /\ \A i \in 1 .. Len(s) - 1 : new[i] = s[i]
  <2>1. /\ new \in Seq(Frame) /\ Len(new) = Len(Front(s)) + 1
        /\ \A i \in 1 .. Len(Front(s)) : new[i] = Front(s)[i]
        /\ new[Len(Front(s)) + 1] = f
    BY <1>2, AppendProperties
  <2>2. Len(s) - 1 + 1 = Len(s)
    BY <1>2
  <2>3. QED
    BY <1>2, <2>1, <2>2
<1>4. stack' = [stack EXCEPT ![t] = new]
  BY DEF Become
<1> HIDE DEF new
<1>5. stack' \in [Threads -> Seq(Frame)] /\ stack'[t] = new
      /\ \A u \in Threads : u # t => stack'[u] = stack[u]
  BY <1>3, <1>4 DEF TypeOK
<1>6. f \in Frames'
  <2>1. Len(s) \in 1 .. Len(new)
    BY <1>2, <1>3
  <2>2. QED
    BY <1>3, <1>5, <2>1 DEF Frames
<1>7. ASSUME NEW g \in Frames, g # Top(t) PROVE g \in Frames'
  <2>0. PICK u \in Threads : \E i \in 1 .. Len(stack[u]) : g = stack[u][i]
    BY DEF Frames
  <2>1. PICK i \in 1 .. Len(stack[u]) : g = stack[u][i]
    BY <2>0
  <2>2. CASE u # t
    BY <1>5, <2>1, <2>2 DEF Frames
  <2>3. CASE u = t
    <3>1. i \in 1 .. Len(s) - 1
      BY <1>2, <1>7, <2>1, <2>3 DEF Top
    <3>2. i \in 1 .. Len(stack'[t]) /\ g = stack'[t][i]
      BY <1>2, <1>3, <1>5, <2>1, <2>3, <3>1
    <3>3. QED
      BY <3>2 DEF Frames
  <2>4. QED
    BY <2>2, <2>3
<1>8. QED
  BY <1>5, <1>6, <1>7

LEMMA Returns ==
  ASSUME TypeOK, NEW t \in Threads, ~Idle(t), Return(t)
  PROVE  /\ stack' \in [Threads -> Seq(Frame)]
         /\ \A g \in Frames : g = Top(t) \/ g \in Frames'
<1> DEFINE s == stack[t]
<1>1. s \in Seq(Frame) /\ s # <<>>
  BY DEF TypeOK, Idle
<1>2. /\ Front(s) \in Seq(Frame) /\ Len(Front(s)) = Len(s) - 1 /\ Len(s) \in Nat \ {0}
      /\ \A i \in 1 .. Len(s) - 1 : Front(s)[i] = s[i]
  BY <1>1, FrontOf
<1>3. stack' \in [Threads -> Seq(Frame)] /\ stack'[t] = Front(s)
      /\ \A u \in Threads : u # t => stack'[u] = stack[u]
  BY <1>2 DEF TypeOK, Return
<1>4. ASSUME NEW g \in Frames, g # Top(t) PROVE g \in Frames'
  <2>0. PICK u \in Threads : \E i \in 1 .. Len(stack[u]) : g = stack[u][i]
    BY DEF Frames
  <2>1. PICK i \in 1 .. Len(stack[u]) : g = stack[u][i]
    BY <2>0
  <2>2. CASE u # t
    BY <1>3, <2>1, <2>2 DEF Frames
  <2>3. CASE u = t
    <3>1. i \in 1 .. Len(s) - 1
      BY <1>2, <1>4, <2>1, <2>3 DEF Top
    <3>2. i \in 1 .. Len(stack'[t]) /\ g = stack'[t][i]
      BY <1>2, <1>3, <2>1, <2>3, <3>1
    <3>3. QED
      BY <3>2 DEF Frames
  <2>4. QED
    BY <2>2, <2>3
<1>5. QED
  BY <1>3, <1>4

\* A call that makes another stays.
LEMMA Enters ==
  ASSUME TypeOK, NEW t \in Threads, NEW f \in Frame, Enter(t, f)
  PROVE  /\ stack' \in [Threads -> Seq(Frame)] /\ f \in Frames'
         /\ Frames \subseteq Frames'
<1> DEFINE s == stack[t]
           new == Append(s, f)
<1>1. s \in Seq(Frame) /\ Len(s) \in Nat
  BY LenProperties DEF TypeOK
<1>2. /\ new \in Seq(Frame) /\ Len(new) = Len(s) + 1 /\ new[Len(s) + 1] = f
      /\ \A i \in 1 .. Len(s) : new[i] = s[i]
  BY <1>1, AppendProperties
<1>3. stack' = [stack EXCEPT ![t] = new]
  BY DEF Enter
<1> HIDE DEF new
<1>4. stack' \in [Threads -> Seq(Frame)] /\ stack'[t] = new
      /\ \A u \in Threads : u # t => stack'[u] = stack[u]
  BY <1>2, <1>3 DEF TypeOK
<1>5. f \in Frames'
  <2>1. Len(s) + 1 \in 1 .. Len(new)
    BY <1>1, <1>2
  <2>2. QED
    BY <1>2, <1>4, <2>1 DEF Frames
<1>6. ASSUME NEW g \in Frames PROVE g \in Frames'
  <2>0. PICK u \in Threads : \E i \in 1 .. Len(stack[u]) : g = stack[u][i]
    BY DEF Frames
  <2>1. PICK i \in 1 .. Len(stack[u]) : g = stack[u][i]
    BY <2>0
  <2>2. CASE u # t
    BY <1>4, <2>1, <2>2 DEF Frames
  <2>3. CASE u = t
    <3>1. i \in 1 .. Len(new) /\ g = new[i]
      BY <1>1, <1>2, <2>1, <2>3
    <3>2. QED
      BY <1>4, <2>3, <3>1 DEF Frames
  <2>4. QED
    BY <2>2, <2>3
<1>7. QED
  BY <1>4, <1>5, <1>6

-----------------------------------------------------------------------------
(* The lists *)

\* Time that passes changes nothing of who waits for what.
LEMMA Refreshed ==
  ASSUME TypeOK, NEW k \in 1 .. Len(waiting), NEW v \in BOOLEAN,
         waiting' = [waiting EXCEPT ![k].fresh = v]
  PROVE  waiting' \in Seq(Entry) /\ \A b, h : Waits(b, h)' <=> Waits(b, h)
<1> DEFINE e == [waiting[k] EXCEPT !.fresh = v]
<1>1. waiting \in Seq(Entry) /\ waiting[k] \in Entry
  BY ElementOfSeq DEF TypeOK
<1>2. e \in Entry /\ e.block = waiting[k].block /\ e.under = waiting[k].under
  BY <1>1 DEF Entry
<1>3. waiting' = [waiting EXCEPT ![k] = e]
  OBVIOUS
<1> HIDE DEF e
<1>4. /\ waiting' \in Seq(Entry) /\ Len(waiting') = Len(waiting)
      /\ \A j \in 1 .. Len(waiting) : waiting'[j] = IF j = k THEN e ELSE waiting[j]
  BY <1>1, <1>2, <1>3, ExceptSeq
<1>5. \A j \in 1 .. Len(waiting) :
        waiting'[j].block = waiting[j].block /\ waiting'[j].under = waiting[j].under
  BY <1>2, <1>4
<1>6. QED
  BY <1>4, <1>5 DEF Waits

LEMMA OneEntered ==
  ASSUME TypeOK, NEW e \in Entry, waiting' = <<e>> \o waiting
  PROVE  /\ waiting' \in Seq(Entry)
         /\ \A b, h : Waits(b, h)' <=> Waits(b, h) \/ (e.block = b /\ e.under = h)
<1>1. waiting \in Seq(Entry) /\ Len(waiting) \in Nat /\ <<e>> \in Seq(Entry) /\ Len(<<e>>) = 1
  BY LenProperties DEF TypeOK
<1>2. /\ waiting' \in Seq(Entry) /\ Len(waiting') = 1 + Len(waiting)
      /\ \A i \in 1 .. 1 + Len(waiting) : waiting'[i] = IF i <= 1 THEN <<e>>[i] ELSE waiting[i - 1]
  BY <1>1, ConcatProperties
<1>3. waiting'[1] = e /\ \A j \in 1 .. Len(waiting) : waiting'[j + 1] = waiting[j]
  <2>1. waiting'[1] = e
    BY <1>1, <1>2
  <2>2. ASSUME NEW j \in 1 .. Len(waiting) PROVE waiting'[j + 1] = waiting[j]
    <3>1. j + 1 \in 1 .. 1 + Len(waiting) /\ ~(j + 1 <= 1) /\ (j + 1) - 1 = j
      BY <1>1
    <3>2. QED
      BY <1>2, <3>1
  <2>3. QED
    BY <2>1, <2>2
<1>4. ASSUME NEW b, NEW h, Waits(b, h) \/ (e.block = b /\ e.under = h) PROVE Waits(b, h)'
  <2>1. 1 \in 1 .. Len(waiting') /\ \A j \in 1 .. Len(waiting) : j + 1 \in 1 .. Len(waiting')
    BY <1>1, <1>2
  <2>2. QED
    BY <1>3, <1>4, <2>1 DEF Waits
<1>5. ASSUME NEW b, NEW h, Waits(b, h)' PROVE Waits(b, h) \/ (e.block = b /\ e.under = h)
  <2>1. PICK i \in 1 .. Len(waiting') : waiting'[i].block = b /\ waiting'[i].under = h
    BY <1>5 DEF Waits
  <2>2. CASE i = 1
    BY <1>3, <2>1, <2>2
  <2>3. CASE i # 1
    <3>1. i - 1 \in 1 .. Len(waiting) /\ waiting'[i] = waiting[i - 1]
      BY <1>1, <1>2, <2>3
    <3>2. QED
      BY <2>1, <3>1 DEF Waits
  <2>4. QED
    BY <2>2, <2>3
<1>6. QED
  BY <1>2, <1>4, <1>5

LEMMA OneReleased ==
  ASSUME TypeOK, NEW k \in 1 .. Len(waiting), waiting' = RemoveAt(waiting, k)
  PROVE  /\ waiting' \in Seq(Entry)
         /\ \A b, h : Waits(b, h)' => Waits(b, h)
         /\ \A b, h : Waits(b, h) => Waits(b, h)' \/ b = waiting[k].block
<1>1. /\ waiting' \in Seq(Entry)
      /\ \A i \in 1 .. Len(waiting) : i # k => \E j \in 1 .. Len(waiting') : waiting'[j] = waiting[i]
      /\ \A j \in 1 .. Len(waiting') : \E i \in 1 .. Len(waiting) : waiting'[j] = waiting[i]
  BY Removed DEF TypeOK
<1>2. ASSUME NEW b, NEW h, Waits(b, h)' PROVE Waits(b, h)
  <2>1. PICK j \in 1 .. Len(waiting') : waiting'[j].block = b /\ waiting'[j].under = h
    BY <1>2 DEF Waits
  <2>2. PICK i \in 1 .. Len(waiting) : waiting'[j] = waiting[i]
    BY <1>1
  <2>3. QED
    BY <2>1, <2>2 DEF Waits
<1>3. ASSUME NEW b, NEW h, Waits(b, h), b # waiting[k].block PROVE Waits(b, h)'
  <2>1. PICK i \in 1 .. Len(waiting) : waiting[i].block = b /\ waiting[i].under = h
    BY <1>3 DEF Waits
  <2>2. PICK j \in 1 .. Len(waiting') : waiting'[j] = waiting[i]
    BY <1>1, <1>3, <2>1
  <2>3. QED
    BY <2>1, <2>2 DEF Waits
<1>4. QED
  BY <1>1, <1>2, <1>3

-----------------------------------------------------------------------------
(* The steps *)

LEMMA CallFrame ==
  ASSUME NEW op \in {"add", "decide", "push", "chase", "hop", "request", "pop"},
         NEW b \in Blocks, NEW h \in Blocks
  PROVE  /\ Call(op, b, h) \in Frame
         /\ Call(op, b, h).op = op /\ Call(op, b, h).block = b
         /\ Call(op, b, h).hash = h /\ Call(op, b, h).own = <<>>
BY EmptySeq DEF Call, Frame

LEMMA ArriveStep ==
  ASSUME SyncInv, NEW t \in Threads, Arrive(t)
  PROVE  SyncInv'
<1>0. TypeOK /\ LinksFirst /\ Remembered
  BY DEF SyncInv
<1>1. PICK b \in net : net' = net \ {b} /\ Enter(t, Call("add", b, b))
  BY DEF Arrive
<1>2. b \in Blocks
  BY <1>0 DEF TypeOK
<1> DEFINE f == Call("add", b, b)
<1>3. f \in Frame /\ f.op = "add" /\ f.block = b
  BY <1>2, CallFrame
<1> HIDE DEF f
<1>4. stack' \in [Threads -> Seq(Frame)] /\ f \in Frames' /\ Frames \subseteq Frames'
  BY <1>0, <1>1, <1>3, Enters DEF f
<1>5. UNCHANGED <<store, waiting, mutex, asked, engine, lost>>
  BY DEF Arrive
<1>6. \A c, h : Waits(c, h)' = Waits(c, h)
  BY <1>5 DEF Waits
<1>7. \A c, h : Reason(c, h) => Reason(c, h)'
  BY <1>1, <1>3, <1>4, <1>5, <1>6 DEF Reason, Releasing, Looking
<1>8. Remembered'
  BY <1>0, <1>5, <1>6, <1>7 DEF Remembered
<1>9. TypeOK'
  BY <1>0, <1>1, <1>4, <1>5 DEF TypeOK, engine
<1>10. LinksFirst'
  BY <1>0, <1>5 DEF LinksFirst
<1>11. QED
  BY <1>8, <1>9, <1>10 DEF SyncInv

\* A block that is added is about to release what waits for it; one that lacks a
\* link was not in the engine, so nobody counted on it.
LEMMA AddStep ==
  ASSUME SyncInv, NEW t \in Threads, Add(t)
  PROVE  SyncInv'
<1>0. TypeOK /\ LinksFirst /\ Remembered
  BY DEF SyncInv
<1> DEFINE b == Top(t).block
<1>1. ~Idle(t) /\ Top(t).op = "add" /\ UNCHANGED <<waiting, mutex, asked, net, sync, trouble, lost>>
  BY DEF Add, At
<1>2. Top(t) \in Frames /\ b \in Blocks
  BY <1>0, <1>1, TopFrame DEF Frame
<1>3. \A c, h : Waits(c, h)' = Waits(c, h)
  BY <1>1 DEF Waits
<1>4. PICK f \in Frame : Become(t, f) /\ f \in Frames'
                         /\ \/ /\ Missing(b) = {} /\ store' = store \cup {b}
                               /\ f.op = "pop" /\ f.block = b
                            \/ Missing(b) # {} /\ store' = store
  <2>1. CASE Missing(b) = {}
    <3>1. store' = store \cup {b} /\ Become(t, Call("pop", b, b))
      BY <2>1 DEF Add
    <3>2. QED
      BY <1>0, <1>1, <1>2, <2>1, <3>1, CallFrame, Becomes
  <2>2. CASE Missing(b) # {}
    <3>1. store' = store /\ Become(t, Call("decide", b, FirstMissing(b)))
      BY <2>2 DEF Add
    <3>2. FirstMissing(b) \in Blocks
      BY <1>2, <2>2, Lacks
    <3>3. QED
      BY <1>0, <1>1, <1>2, <2>2, <3>1, <3>2, CallFrame, Becomes
  <2>3. QED
    BY <2>1, <2>2
<1>5. stack' \in [Threads -> Seq(Frame)] /\ \A g \in Frames : g = Top(t) \/ g \in Frames'
  BY <1>0, <1>1, <1>4, Becomes
<1>6. Missing(b) = {} \/ b \notin store
  BY <1>0 DEF LinksFirst, Missing
<1>7. ASSUME NEW c \in Blocks, NEW h \in Blocks, ~lost', Waits(c, h)', h \in store'
      PROVE  Reason(c, h)'
  <2>1. CASE Missing(b) = {} /\ h = b
    BY <1>4, <2>1 DEF Reason, Releasing
  <2>2. CASE ~(Missing(b) = {} /\ h = b)
    <3>1. h \in store /\ h # b
      BY <1>4, <1>6, <1>7, <2>2
    <3>2. Reason(c, h)
      BY <1>0, <1>1, <1>3, <1>7, <3>1 DEF Remembered
    <3>3. Releasing(h) => Releasing(h)'
      BY <1>5, <3>1 DEF Releasing
    <3>4. Looking(c, h) => Looking(c, h)'
      BY <1>1, <1>5 DEF Looking
    <3>5. QED
      BY <1>1, <1>3, <3>2, <3>3, <3>4 DEF Reason
  <2>3. QED
    BY <2>1, <2>2
<1>8. Remembered'
  BY <1>7 DEF Remembered
<1>9. TypeOK'
  <2>1. refused' \subseteq Blocks
    BY <1>0 DEF Add, TypeOK
  <2>2. QED
    BY <1>0, <1>1, <1>2, <1>4, <1>5, <2>1 DEF TypeOK
<1>10. LinksFirst'
  <2>1. Missing(b) = {} => \A i \in 1 .. Len(Links[b]) : Links[b][i] \in store
    BY DEF Missing
  <2>2. QED
    BY <1>0, <1>4, <2>1 DEF LinksFirst
<1>11. QED
  BY <1>8, <1>9, <1>10 DEF SyncInv

\* A block that is refused was not in the engine, so nobody counted on it.
LEMMA RefuseStep ==
  ASSUME SyncInv, NEW t \in Threads, Refuse(t)
  PROVE  SyncInv'
<1>0. TypeOK /\ LinksFirst /\ Remembered
  BY DEF SyncInv
<1>1. /\ ~Idle(t) /\ Top(t).op = "add" /\ Top(t).block \notin store /\ Return(t)
      /\ UNCHANGED <<store, waiting, mutex, asked, net, sync, lost>>
  BY DEF Refuse, At
<1>2. Top(t).block \in Blocks
  BY <1>0, <1>1, TopFrame DEF Frame
<1>3. /\ stack' \in [Threads -> Seq(Frame)]
      /\ \A g \in Frames : g = Top(t) \/ g \in Frames'
  BY <1>0, <1>1, Returns
<1>4. \A c, h : Waits(c, h)' = Waits(c, h)
  BY <1>1 DEF Waits
<1>5. ASSUME NEW c, NEW h \in store, Reason(c, h) PROVE Reason(c, h)'
  <2>1. Releasing(h) => Releasing(h)'
    BY <1>1, <1>3 DEF Releasing
  <2>2. Looking(c, h) => Looking(c, h)'
    BY <1>1, <1>3 DEF Looking
  <2>3. QED
    BY <1>1, <1>4, <1>5, <2>1, <2>2 DEF Reason
<1>6. Remembered'
  BY <1>0, <1>1, <1>4, <1>5 DEF Remembered
<1>7. refused' \subseteq Blocks /\ trouble' \in 0 .. MaxTrouble
  BY <1>0, <1>2, SyncAssumption DEF Refuse, TypeOK
<1>8. TypeOK' /\ LinksFirst'
  BY <1>0, <1>1, <1>3, <1>7 DEF TypeOK, LinksFirst
<1>9. QED
  BY <1>6, <1>8 DEF SyncInv

\* What a step must leave alone for the reasons to stay: the store, who waits for
\* what, the requests, and all calls but one that is not releasing nor looking.
LEMMA ReasonsStay ==
  ASSUME Remembered, lost' = lost, store' = store,
         \A c, h : Waits(c, h)' <=> Waits(c, h),
         asked \cup net \subseteq asked' \cup net',
         NEW top, \A g \in Frames : g = top \/ g \in Frames',
         top.op \in {"push", "decide"}
  PROVE  Remembered'
<1>1. \A c, h : Reason(c, h) => Reason(c, h)'
  <2> SUFFICES ASSUME NEW c, NEW h, Reason(c, h) PROVE Reason(c, h)'
    OBVIOUS
  <2>1. Releasing(h) => Releasing(h)'
    BY DEF Releasing
  <2>2. Looking(c, h) => Looking(c, h)'
    BY DEF Looking
  <2>3. QED
    BY <2>1, <2>2 DEF Reason
<1>2. QED
  BY <1>1 DEF Remembered

\* Whether the block is kept or dropped: nobody counted on it yet.
LEMMA DecideStep ==
  ASSUME SyncInv, NEW t \in Threads, Decide(t)
  PROVE  SyncInv'
<1>0. TypeOK /\ LinksFirst /\ Remembered
  BY DEF SyncInv
<1>1. /\ ~Idle(t) /\ Top(t).op = "decide"
      /\ UNCHANGED <<store, waiting, mutex, asked, net, sync, trouble, lost>>
  BY DEF Decide, At
<1>2. Top(t) \in Frame
  BY <1>0, <1>1, TopFrame
<1>3. PICK f \in Frame : f = [Top(t) EXCEPT !.op = "push"]
  BY <1>2 DEF Frame
<1>4. Return(t) \/ Become(t, f)
  BY <1>3 DEF Decide
<1>5. /\ stack' \in [Threads -> Seq(Frame)]
      /\ \A g \in Frames : g = Top(t) \/ g \in Frames'
  BY <1>0, <1>1, <1>4, Becomes, Returns
<1>6. \A c, h : Waits(c, h)' <=> Waits(c, h)
  BY <1>1 DEF Waits
<1>7. Remembered'
  BY <1>0, <1>1, <1>5, <1>6, ReasonsStay
<1>8. refused' \subseteq Blocks
  <2>1. Top(t).block \in Blocks
    BY <1>2 DEF Frame
  <2>2. QED
    BY <1>0, <2>1 DEF Decide, TypeOK
<1>9. TypeOK' /\ LinksFirst'
  BY <1>0, <1>1, <1>5, <1>8 DEF TypeOK, LinksFirst
<1>10. QED
  BY <1>7, <1>9 DEF SyncInv

\* A block that is entered is looked for by the thread that entered it.
LEMMA PushStep ==
  ASSUME SyncInv, NEW t \in Threads, Push(t)
  PROVE  SyncInv'
<1>0. TypeOK /\ LinksFirst /\ Remembered
  BY DEF SyncInv
<1> DEFINE found == Found(LAMBDA e : e.block = Top(t).block /\ e.under = Top(t).hash)
<1>1. ~Idle(t) /\ Top(t).op = "push" /\ UNCHANGED <<store, mutex, asked, net, engine, lost>>
  BY DEF Push, At
<1>2. PICK b \in Blocks, h \in Blocks : b = Top(t).block /\ h = Top(t).hash
  BY <1>0, <1>1, TopFrame DEF Frame
<1>3. PICK f \in Frame : /\ f = Call("chase", Top(t).block, Top(t).hash)
                         /\ f.op = "chase" /\ f.block = b /\ f.hash = h /\ f.own = <<>>
  BY <1>2, CallFrame
<1>4. found \subseteq 1 .. Len(waiting) /\ found \subseteq Nat
  BY DEF Found
<1>5. CASE found = {}
  <2> DEFINE e == [block |-> b, under |-> h, fresh |-> TRUE]
  <2>1. waiting' = <<e>> \o waiting /\ Become(t, f)
    BY <1>2, <1>3, <1>5 DEF Push
  <2>2. e \in Entry /\ e.block = b /\ e.under = h
    BY <1>2 DEF Entry
  <2> HIDE DEF e
  <2>3. waiting' \in Seq(Entry) /\ \A c, k : Waits(c, k)' <=> Waits(c, k) \/ (b = c /\ h = k)
    BY <1>0, <2>1, <2>2, OneEntered
  <2>4. /\ stack' \in [Threads -> Seq(Frame)] /\ f \in Frames'
        /\ \A g \in Frames : g = Top(t) \/ g \in Frames'
    BY <1>0, <1>1, <1>3, <2>1, Becomes
  <2>5. Looking(b, h)'
    BY <1>3, <2>4 DEF Looking
  <2>6. ASSUME NEW c, NEW k, Reason(c, k) PROVE Reason(c, k)'
    <3>1. Releasing(k) => Releasing(k)'
      BY <1>1, <2>4 DEF Releasing
    <3>2. Looking(c, k) => Looking(c, k)'
      BY <1>1, <2>4 DEF Looking
    <3>3. QED
      BY <1>1, <2>3, <2>6, <3>1, <3>2 DEF Reason
  <2>7. ASSUME NEW c \in Blocks, NEW k \in Blocks, ~lost', Waits(c, k)', k \in store'
        PROVE  Reason(c, k)'
    <3>1. CASE Waits(c, k)
      BY <1>0, <1>1, <2>6, <2>7, <3>1 DEF Remembered
    <3>2. CASE c = b /\ k = h
      BY <2>5, <3>2 DEF Reason
    <3>3. QED
      BY <2>3, <2>7, <3>1, <3>2
  <2>8. Remembered'
    BY <2>7 DEF Remembered
  <2>9. TypeOK' /\ LinksFirst'
    BY <1>0, <1>1, <2>3, <2>4 DEF TypeOK, engine, LinksFirst
  <2>10. QED
    BY <2>8, <2>9 DEF SyncInv
<1>6. CASE found # {}
  <2> DEFINE k == Newest(found)
  <2>1. k \in 1 .. Len(waiting)
    BY <1>4, <1>6, NewestFound
  <2>2. waiting' = [waiting EXCEPT ![k].fresh = TRUE] /\ (Return(t) \/ Become(t, f))
    BY <1>3, <1>6 DEF Push
  <2> HIDE DEF k
  <2>3. waiting' \in Seq(Entry) /\ \A c, g : Waits(c, g)' <=> Waits(c, g)
    BY <1>0, <2>1, <2>2, Refreshed
  <2>4. /\ stack' \in [Threads -> Seq(Frame)]
        /\ \A g \in Frames : g = Top(t) \/ g \in Frames'
    BY <1>0, <1>1, <1>3, <2>2, Becomes, Returns
  <2>5. Remembered'
    BY <1>0, <1>1, <2>3, <2>4, ReasonsStay
  <2>6. TypeOK' /\ LinksFirst'
    BY <1>0, <1>1, <2>3, <2>4 DEF TypeOK, engine, LinksFirst
  <2>7. QED
    BY <2>5, <2>6 DEF SyncInv
<1>7. QED
  BY <1>5, <1>6

\* Without memory for the entry, only the bookkeeping goes on.
LEMMA PushFailsStep ==
  ASSUME SyncInv, NEW t \in Threads, PushFails(t)
  PROVE  SyncInv'
<1>0. TypeOK /\ LinksFirst
  BY DEF SyncInv
<1>1. ~Idle(t) /\ lost' = TRUE /\ mutex' = t /\ UNCHANGED <<store, waiting, asked, net, engine>>
  BY DEF PushFails, At
<1>2. PICK b \in Blocks, h \in Blocks : b = Top(t).block /\ h = Top(t).hash
  BY <1>0, <1>1, TopFrame DEF Frame
<1>3. PICK f \in Frame : Become(t, f)
  BY <1>2, CallFrame DEF PushFails
<1>4. stack' \in [Threads -> Seq(Frame)]
  BY <1>0, <1>1, <1>3, Becomes
<1>5. TypeOK' /\ LinksFirst'
  BY <1>0, <1>1, <1>4 DEF TypeOK, engine, LinksFirst
<1>6. Remembered'
  BY <1>1 DEF Remembered
<1>7. QED
  BY <1>5, <1>6 DEF SyncInv

\* A call that goes on looking, for the same hash, is still a reason.
LEMMA LooksOn ==
  ASSUME SyncInv, NEW t \in Threads, ~Idle(t), Top(t).op \in {"chase", "hop"},
         NEW op \in {"hop", "request"}, Become(t, [Top(t) EXCEPT !.op = op]),
         UNCHANGED <<store, waiting, asked, net, engine, lost>>, mutex' \in Threads \cup {None}
  PROVE  SyncInv'
<1>0. TypeOK /\ LinksFirst /\ Remembered
  BY DEF SyncInv
<1>1. Top(t) \in Frame
  BY <1>0, TopFrame
<1>2. PICK f \in Frame : /\ f = [Top(t) EXCEPT !.op = op] /\ f.op = op
                         /\ f.block = Top(t).block /\ f.hash = Top(t).hash /\ f.own = Top(t).own
  BY <1>1 DEF Frame
<1>3. /\ stack' \in [Threads -> Seq(Frame)] /\ f \in Frames'
      /\ \A g \in Frames : g = Top(t) \/ g \in Frames'
  BY <1>0, <1>2, Becomes
<1>4. \A c, h : Waits(c, h)' = Waits(c, h)
  BY DEF Waits
<1>5. ASSUME NEW c, NEW h, Reason(c, h) PROVE Reason(c, h)'
  <2>1. Releasing(h) => Releasing(h)'
    BY <1>3 DEF Releasing
  <2>2. Looking(c, h) => Looking(c, h)'
    BY <1>2, <1>3 DEF Looking
  <2>3. QED
    BY <1>4, <1>5, <2>1, <2>2 DEF Reason
<1>6. Remembered'
  BY <1>0, <1>4, <1>5 DEF Remembered
<1>7. TypeOK' /\ LinksFirst'
  BY <1>0, <1>3 DEF TypeOK, engine, LinksFirst
<1>8. QED
  BY <1>6, <1>7 DEF SyncInv

LEMMA ChaseStep ==
  ASSUME SyncInv, NEW t \in Threads, Chase(t)
  PROVE  SyncInv'
<1>1. /\ ~Idle(t) /\ Top(t).op = "chase" /\ mutex' = t
      /\ Become(t, [Top(t) EXCEPT !.op = "hop"])
      /\ UNCHANGED <<store, waiting, asked, net, engine, lost>>
  BY DEF Chase, At
<1>2. QED
  BY <1>1, LooksOn

\* A call that finds that the hash waits itself can forget about it: who waits for
\* the hash is released when the hash is.
LEMMA HopStep ==
  ASSUME SyncInv, NEW t \in Threads, Hop(t)
  PROVE  SyncInv'
<1>0. TypeOK /\ LinksFirst /\ Remembered
  BY DEF SyncInv
<1> DEFINE found == Found(LAMBDA e : e.block = Top(t).hash)
           k == Newest(found)
<1>1. ~Idle(t) /\ Top(t).op = "hop" /\ mutex = t /\ UNCHANGED <<store, asked, net, engine, lost>>
  BY DEF Hop, At
<1>2. Top(t) \in Frame
  BY <1>0, <1>1, TopFrame
<1>3. CASE found = {}
  <2>1. mutex' = None /\ Become(t, [Top(t) EXCEPT !.op = "request"]) /\ UNCHANGED waiting
    BY <1>3 DEF Hop
  <2>2. QED
    BY <1>1, <2>1, LooksOn
<1>4. CASE found # {}
  <2>1. k \in 1 .. Len(waiting) /\ waiting[k].block = Top(t).hash
    <3>1. found \subseteq Nat
      BY DEF Found
    <3>2. k \in found
      BY <1>4, <3>1, NewestFound
    <3>3. QED
      BY <3>2 DEF Found
  <2>2. waiting[k] \in Entry
    BY <1>0, <2>1, ElementOfSeq DEF TypeOK
  <2>3. /\ waiting' \in Seq(Entry) /\ \A c, h : Waits(c, h)' <=> Waits(c, h)
        /\ mutex' \in {mutex, None}
        /\ stack' \in [Threads -> Seq(Frame)]
        /\ \A g \in Frames : g = Top(t) \/ g \in Frames'
    <3>1. CASE waiting[k].fresh
      <4>1. mutex' = None /\ Return(t) /\ waiting' = waiting
        BY <1>4, <3>1 DEF Hop
      <4>2. QED
        BY <1>0, <1>1, <4>1, Returns DEF Waits, TypeOK
    <3>2. CASE ~waiting[k].fresh
      <4>1. /\ waiting' = [waiting EXCEPT ![k].fresh = TRUE] /\ mutex' = mutex
            /\ Become(t, [Top(t) EXCEPT !.hash = waiting[k].under, !.own = <<waiting[k]>>])
        BY <1>4, <3>2 DEF Hop
      <4>2. [Top(t) EXCEPT !.hash = waiting[k].under, !.own = <<waiting[k]>>] \in Frame
        <5>1. <<waiting[k]>> \in Seq(Entry)
          BY <2>2
        <5>2. waiting[k].under \in Blocks
          BY <2>2 DEF Entry
        <5>3. Top(t) \in Frame
          BY <1>0, <1>1, TopFrame
        <5>4. QED
          BY <5>1, <5>2, <5>3 DEF Frame
      <4>3. /\ stack' \in [Threads -> Seq(Frame)]
            /\ \A g \in Frames : g = Top(t) \/ g \in Frames'
        BY <1>0, <1>1, <4>1, <4>2, Becomes
      <4>4. waiting' \in Seq(Entry) /\ \A c, h : Waits(c, h)' <=> Waits(c, h)
        BY <1>0, <2>1, <4>1, Refreshed
      <4>5. QED
        BY <4>1, <4>3, <4>4
    <3>3. QED
      BY <3>1, <3>2
  <2>4. \E u \in Blocks : Waits(Top(t).hash, u)
    BY <2>1, <2>2 DEF Waits, Entry
  <2>5. ASSUME NEW c, NEW h, Reason(c, h) PROVE Reason(c, h)'
    <3>1. Releasing(h) => Releasing(h)'
      BY <1>1, <2>3 DEF Releasing
    <3>2. Looking(c, h) => Looking(c, h)' \/ h = Top(t).hash
      BY <2>3 DEF Looking
    <3>3. h = Top(t).hash => \E u \in Blocks : Waits(h, u)'
      BY <2>3, <2>4
    <3>4. QED
      BY <1>1, <2>3, <2>5, <3>1, <3>2, <3>3 DEF Reason
  <2>6. Remembered'
    BY <1>0, <1>1, <2>3, <2>5 DEF Remembered
  <2>7. TypeOK' /\ LinksFirst'
    BY <1>0, <1>1, <2>3 DEF TypeOK, engine, LinksFirst
  <2>8. QED
    BY <2>6, <2>7 DEF SyncInv
<1>5. QED
  BY <1>3, <1>4

\* A hash read from the block's own fields is the hash that is asked for.
LEMMA RequestStep ==
  ASSUME SyncInv, NEW t \in Threads, Request(t)
  PROVE  SyncInv'
<1>0. TypeOK /\ LinksFirst /\ Remembered
  BY DEF SyncInv
<1>1. ~Idle(t) /\ Top(t).op = "request" /\ Return(t) /\ UNCHANGED <<store, waiting, mutex, net, engine, lost>>
  BY DEF Request, At
<1>2. Top(t) \in Frame
  BY <1>0, <1>1, TopFrame
<1>3. /\ stack' \in [Threads -> Seq(Frame)]
      /\ \A g \in Frames : g = Top(t) \/ g \in Frames'
  BY <1>0, <1>1, Returns
<1>4. /\ asked' \subseteq Blocks /\ asked \subseteq asked'
      /\ Top(t).own = <<>> => Top(t).hash \in asked'
  <2>1. CASE Freed(Top(t))
    BY <1>0, <2>1 DEF Request, Freed, TypeOK
  <2>2. CASE ~Freed(Top(t))
    <3>1. Top(t).hash \in Blocks
      BY <1>2 DEF Frame
    <3>2. QED
      BY <1>0, <2>2, <3>1 DEF Request, TypeOK
  <2>3. QED
    BY <2>1, <2>2
<1>5. \A c, h : Waits(c, h)' = Waits(c, h)
  BY <1>1 DEF Waits
<1>6. ASSUME NEW c, NEW h, Reason(c, h) PROVE Reason(c, h)'
  <2>1. Releasing(h) => Releasing(h)'
    BY <1>1, <1>3 DEF Releasing
  <2>2. Looking(c, h) => Looking(c, h)' \/ h \in asked'
    BY <1>3, <1>4 DEF Looking
  <2>3. QED
    BY <1>1, <1>4, <1>5, <1>6, <2>1, <2>2 DEF Reason
<1>7. Remembered'
  BY <1>0, <1>1, <1>5, <1>6 DEF Remembered
<1>8. TypeOK' /\ LinksFirst'
  BY <1>0, <1>1, <1>3, <1>4 DEF TypeOK, engine, LinksFirst
<1>9. QED
  BY <1>7, <1>8 DEF SyncInv

\* Releasing ends when nothing waits any more, and a block that is taken off the
\* lists is added before anything else is released.
LEMMA PopStep ==
  ASSUME SyncInv, NEW t \in Threads, Pop(t)
  PROVE  SyncInv'
<1>0. TypeOK /\ LinksFirst /\ Remembered
  BY DEF SyncInv
<1> DEFINE found == Found(LAMBDA e : e.under = Top(t).block)
           k == Newest(found)
<1>1. ~Idle(t) /\ Top(t).op = "pop" /\ UNCHANGED <<store, mutex, asked, net, engine, lost>>
  BY DEF Pop, At
<1>2. CASE found = {}
  <2>1. Return(t) /\ waiting' = waiting
    BY <1>2 DEF Pop
  <2>2. /\ stack' \in [Threads -> Seq(Frame)]
        /\ \A g \in Frames : g = Top(t) \/ g \in Frames'
    BY <1>0, <1>1, <2>1, Returns
  <2>3. \A c : ~Waits(c, Top(t).block)
    BY <1>2 DEF Found, Waits
  <2>4. \A c, h : Waits(c, h)' = Waits(c, h)
    BY <2>1 DEF Waits
  <2>5. ASSUME NEW c, NEW h, Reason(c, h), Waits(c, h) PROVE Reason(c, h)'
    <3>1. Releasing(h) => Releasing(h)'
      BY <2>2, <2>3, <2>5 DEF Releasing
    <3>2. Looking(c, h) => Looking(c, h)'
      BY <1>1, <2>2 DEF Looking
    <3>3. QED
      BY <1>1, <2>4, <2>5, <3>1, <3>2 DEF Reason
  <2>6. Remembered'
    BY <1>0, <1>1, <2>4, <2>5 DEF Remembered
  <2>7. TypeOK' /\ LinksFirst'
    BY <1>0, <1>1, <2>1, <2>2 DEF TypeOK, engine, LinksFirst
  <2>8. QED
    BY <2>6, <2>7 DEF SyncInv
<1>3. CASE found # {}
  <2>1. k \in 1 .. Len(waiting)
    <3>1. found \subseteq Nat
      BY DEF Found
    <3>2. k \in found
      BY <1>3, <3>1, NewestFound
    <3>3. QED
      BY <3>2 DEF Found
  <2>2. PICK b \in Blocks : b = waiting[k].block
    <3>1. waiting[k] \in Entry
      BY <1>0, <2>1, ElementOfSeq DEF TypeOK
    <3>2. QED
      BY <3>1 DEF Entry
  <2>3. waiting' = RemoveAt(waiting, k) /\ Enter(t, Call("add", b, b))
    BY <1>3, <2>2 DEF Pop
  <2>4. /\ waiting' \in Seq(Entry)
        /\ \A c, h : Waits(c, h)' => Waits(c, h)
        /\ \A c, h : Waits(c, h) => Waits(c, h)' \/ c = b
    BY <1>0, <2>1, <2>2, <2>3, OneReleased
  <2>5. PICK f \in Frame : f = Call("add", b, b) /\ f.op = "add" /\ f.block = b
    <3>1. /\ Call("add", b, b) \in Frame
          /\ Call("add", b, b).op = "add" /\ Call("add", b, b).block = b
      BY CallFrame
    <3>2. QED
      BY <3>1
  <2>6. stack' \in [Threads -> Seq(Frame)] /\ f \in Frames' /\ Frames \subseteq Frames'
    BY <1>0, <2>3, <2>5, Enters
  <2>7. Releasing(b)'
    BY <2>5, <2>6 DEF Releasing
  <2>8. ASSUME NEW c, NEW h, Reason(c, h) PROVE Reason(c, h)'
    <3>1. Releasing(h) => Releasing(h)'
      BY <2>6 DEF Releasing
    <3>2. Looking(c, h) => Looking(c, h)'
      BY <2>6 DEF Looking
    <3>3. (\E u \in Blocks : Waits(h, u)) => (\E u \in Blocks : Waits(h, u)') \/ Releasing(h)'
      BY <2>4, <2>7
    <3>4. QED
      BY <1>1, <2>8, <3>1, <3>2, <3>3 DEF Reason
  <2>9. Remembered'
    BY <1>0, <1>1, <2>4, <2>8 DEF Remembered
  <2>10. TypeOK' /\ LinksFirst'
    BY <1>0, <1>1, <2>4, <2>6 DEF TypeOK, engine, LinksFirst
  <2>11. QED
    BY <2>9, <2>10 DEF SyncInv
<1>4. QED
  BY <1>2, <1>3

\* The network moves requests and blocks, and time passes.
LEMMA OutsideStep ==
  ASSUME SyncInv, Answer \/ Lose \/ Age \/ UNCHANGED vars
  PROVE  SyncInv'
<1>0. TypeOK /\ LinksFirst /\ Remembered
  BY DEF SyncInv
<1>1. UNCHANGED <<store, mutex, stack, engine>>
  BY DEF Answer, Lose, Age, vars
<1>2. waiting' \in Seq(Entry) /\ \A c, h : Waits(c, h)' <=> Waits(c, h)
  <2>1. CASE Age
    <3>1. PICK i \in 1 .. Len(waiting) : waiting' = [waiting EXCEPT ![i].fresh = FALSE]
      BY <2>1 DEF Age
    <3>2. QED
      BY <1>0, <3>1, Refreshed
  <2>2. CASE Answer \/ Lose \/ UNCHANGED vars
    BY <1>0, <2>2 DEF Answer, Lose, vars, Waits, TypeOK
  <2>3. QED
    BY <2>1, <2>2
<1>3. asked' \subseteq Blocks /\ net' \subseteq Blocks /\ lost' \in BOOLEAN
  BY <1>0 DEF Answer, Lose, Age, vars, TypeOK
<1>4. lost' \/ (lost' = lost /\ asked' \cup net' = asked \cup net)
  BY DEF Answer, Lose, Age, vars
<1>5. \A g : g \in Frames <=> g \in Frames'
  BY <1>1 DEF Frames
<1>6. ASSUME NEW c, NEW h, Reason(c, h), ~lost' PROVE Reason(c, h)'
  <2>1. (Releasing(h) => Releasing(h)') /\ (Looking(c, h) => Looking(c, h)')
    BY <1>5 DEF Releasing, Looking
  <2>2. QED
    BY <1>2, <1>4, <1>6, <2>1 DEF Reason
<1>7. Remembered'
  BY <1>0, <1>1, <1>2, <1>4, <1>6 DEF Remembered
<1>8. TypeOK' /\ LinksFirst'
  BY <1>0, <1>1, <1>2, <1>3 DEF TypeOK, engine, LinksFirst
<1>9. QED
  BY <1>7, <1>8 DEF SyncInv

\* An engine that a reset has emptied holds nothing that others wait for.
LEMMA ResetStep ==
  ASSUME SyncInv, SyncOn \/ SyncOff \/ Clear
  PROVE  SyncInv'
<1>0. TypeOK /\ LinksFirst /\ Remembered
  BY DEF SyncInv
<1>1. UNCHANGED <<waiting, mutex, stack, asked, net, refused, lost>>
  BY DEF SyncOn, SyncOff, Clear
<1>2. store' = store \/ store' = {}
  BY DEF SyncOn, SyncOff, Clear
<1>3. sync' \in {"on", "off", "starting"} /\ trouble' \in 0 .. MaxTrouble
  BY <1>0, SyncAssumption DEF SyncOn, SyncOff, Clear, TypeOK
<1>4. ASSUME NEW c, NEW h PROVE (Waits(c, h)' <=> Waits(c, h)) /\ (Reason(c, h)' <=> Reason(c, h))
  <2>1. Frames' = Frames
    BY <1>1 DEF Frames
  <2>2. \A d, k : Waits(d, k)' <=> Waits(d, k)
    BY <1>1 DEF Waits
  <2>3. QED
    BY <1>1, <2>1, <2>2 DEF Reason, Releasing, Looking
<1>5. Remembered'
  BY <1>0, <1>1, <1>2, <1>4 DEF Remembered
<1>6. TypeOK' /\ LinksFirst'
  BY <1>0, <1>1, <1>2, <1>3 DEF TypeOK, LinksFirst
<1>7. QED
  BY <1>5, <1>6 DEF SyncInv

-----------------------------------------------------------------------------
LEMMA SyncInit == Init => SyncInv
<1> SUFFICES ASSUME Init PROVE SyncInv
  OBVIOUS
<1>1. \A t \in Threads : stack[t] = <<>>
  BY DEF Init
<1>2. stack \in [Threads -> Seq(Frame)] /\ waiting \in Seq(Entry)
  BY EmptySeq DEF Init
<1>3. TypeOK
  <2>1. 0 \in 0 .. MaxTrouble
    BY SyncAssumption
  <2>2. QED
    BY <1>2, <2>1 DEF Init, TypeOK
<1>4. LinksFirst
  BY DEF Init, LinksFirst
<1>5. Remembered
  BY DEF Init, Remembered
<1>6. QED
  BY <1>3, <1>4, <1>5 DEF SyncInv

LEMMA SyncStep == SyncInv /\ [Next]_vars => SyncInv'
<1> SUFFICES ASSUME SyncInv, [Next]_vars PROVE SyncInv'
  OBVIOUS
<1>1. ASSUME NEW t \in Threads, Arrive(t) \/ ThreadStep(t) \/ Refuse(t) \/ PushFails(t)
      PROVE  SyncInv'
  BY <1>1, ArriveStep, AddStep, RefuseStep, DecideStep, PushStep, PushFailsStep, ChaseStep,
     HopStep, RequestStep, PopStep
     DEF ThreadStep
<1>2. QED
  BY <1>1, OutsideStep, ResetStep DEF Next

\* The lists hold blocks, and every thread's calls are calls on blocks.
THEOREM TypeCorrect == Spec => []TypeOK
<1>1. SyncInv => TypeOK
  BY DEF SyncInv
<1>2. QED
  BY <1>1, SyncInit, SyncStep, PTL DEF Spec

\* For any blocks, links and threads: a block that waits for one that is there
\* is about to be released, or what it waits for has been asked for or waits.
THEOREM NobodyIsForgotten == Spec => []NoneForgotten
<1>1. SyncInv => NoneForgotten
  <2> SUFFICES ASSUME SyncInv, ~lost, NEW i \in 1 .. Len(waiting), waiting[i].under \in store
               PROVE  \/ \E j \in 1 .. Len(waiting) : waiting[j].block = waiting[i].under
                      \/ Busy({"pop", "add"}, waiting[i].under)
                      \/ waiting[i].under \in asked \cup net
                      \/ Busy({"chase", "hop", "request"}, waiting[i].block)
    BY DEF NoneForgotten
  <2> DEFINE b == waiting[i].block
             h == waiting[i].under
  <2>1. b \in Blocks /\ h \in Blocks /\ Waits(b, h)
    <3>1. waiting[i] \in Entry
      BY ElementOfSeq DEF SyncInv, TypeOK
    <3>2. Waits(b, h)
      BY DEF Waits
    <3>3. QED
      BY <3>1, <3>2 DEF Entry
  <2>2. Reason(b, h)
    BY <2>1 DEF SyncInv, Remembered
  <2>3. Releasing(h) => Busy({"pop", "add"}, h)
    BY DEF Releasing, Frames, Busy
  <2>4. Looking(b, h) => Busy({"chase", "hop", "request"}, b)
    BY DEF Looking, Frames, Busy
  <2>5. (\E u \in Blocks : Waits(h, u)) => \E j \in 1 .. Len(waiting) : waiting[j].block = h
    BY DEF Waits
  <2>6. QED
    BY <2>2, <2>3, <2>4, <2>5 DEF Reason
<1>2. QED
  BY <1>1, SyncInit, SyncStep, PTL DEF Spec
=============================================================================
