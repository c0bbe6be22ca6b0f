----------------------------- MODULE XferSelect -----------------------------
(***************************************************************************)
(* How a transfer gathers its coins (xdag_xfer_coin and its callback in        *)
(* client/xdagmain.c, the size check of xdag_create_block in client/block.c).   *)
(* The walk visits our blocks in the order of the list and collects inputs     *)
(* until a block is full or the amount is reached, then makes a block of them.  *)
(* A block has XDAG_BLOCK_FIELDS fields: a header, an output, one per input,    *)
(* a key and two signature fields for each different key of the inputs, and    *)
(* two more when the default key is not among them.                           *)
(*                                                                         *)
(* A wallet in light mode has coins in one block only; the walk over several   *)
(* is the code's for a full node, with the list in the order MainChain shows.  *)
(***************************************************************************)
EXTENDS Naturals, Sequences, FiniteSets, SequencesExt

CONSTANTS
  Keys, Default,       (* key numbers, the default one                       *)
  MaxAmount, MaxOurs,  (* bounds: coins of a block, blocks of ours            *)
  XDAG_BLOCK_FIELDS,
  XFER_MAX_IN          (* inputs the buffer has room for, before the output  *)

ASSUME SelectAssumption ==
  /\ Default \in Keys /\ MaxAmount \in Nat \ {0} /\ MaxOurs \in Nat
  /\ XFER_MAX_IN \in Nat /\ XDAG_BLOCK_FIELDS = XFER_MAX_IN + 5
  /\ XFER_MAX_IN >= 3    \* room for one input whose key is not the default one

VARIABLES
  pc,
  ours,      (* our blocks in the order of the list: [amount, key]            *)
  asked,     (* the amount the user entered                                  *)
  at,        (* blocks the walk has visited                                  *)
  fields,    (* inputs gathered: [block, amount]                             *)
  keys,      (* their keys                                                   *)
  outsig,    (* does the default key still have to sign?                     *)
  todo, done, remains,
  made,      (* blocks made: sequences of inputs                             *)
  moved      (* history: was a balance reported under the password dialog,
                or did making a block fail?                                  *)

gathered == <<fields, keys, outsig, todo, done, remains>>
vars == <<pc, ours, asked, at, gathered, made, moved>>

\* The coins of the first n blocks of a list, for every n.
Sums(s)  == LET sum[n \in 0 .. Len(s)] == IF n = 0 THEN 0 ELSE sum[n - 1] + s[n].amount
            IN sum
Total(s) == Sums(s)[Len(s)]

Block == [amount : 0 .. MaxAmount, key : Keys]
Input == [block : 1 .. Len(ours), amount : 1 .. MaxAmount]

\* The array of inputs and the array of keys end with the output and the
\* default key, which an input too many would overwrite.
TypeOK ==
  /\ pc \in {"idle", "dialog", "walk", "end"}
  /\ ours \in Seq(Block) /\ asked \in Nat /\ at \in 0 .. Len(ours)
  /\ fields \in Seq(Input) /\ made \in Seq(Seq(Input))
  /\ Len(fields) <= XFER_MAX_IN
  /\ keys \subseteq Keys /\ Cardinality(keys) <= XFER_MAX_IN
  /\ outsig \in BOOLEAN /\ moved \in BOOLEAN
  /\ todo \in Nat /\ done \in Nat /\ remains \in Nat

\* The list is in descending order of the amounts.
Init ==
  /\ pc = "idle" /\ asked = 0 /\ at = 0
  /\ ours \in UNION {[1 .. n -> [amount : 1 .. MaxAmount, key : Keys]] : n \in 0 .. MaxOurs}
  /\ \A i \in 1 .. Len(ours) - 1 : ours[i].amount >= ours[i + 1].amount
  /\ fields = <<>> /\ keys = {} /\ outsig = TRUE
  /\ todo = 0 /\ done = 0 /\ remains = 0 /\ made = <<>> /\ moved = FALSE

-----------------------------------------------------------------------------
(* Until the walk *)

\* xdag_xfer_coin: the amount is checked against the balance before the user is
\* asked for the password.
Ask ==
  /\ pc = "idle" /\ pc' = "dialog"
  /\ \E a \in 1 .. Total(ours) : asked' = a /\ remains' = a
  /\ UNCHANGED <<ours, at, fields, keys, outsig, todo, done, made, moved>>

\* Meanwhile the pool reports on a block of ours, which comes to the front.
\* (Bound: once.)
Report ==
  /\ pc = "dialog" /\ ~moved
  /\ \E i \in 1 .. Len(ours), a \in 0 .. MaxAmount :
       ours' = <<[ours[i] EXCEPT !.amount = a]>> \o RemoveAt(ours, i)
  /\ moved' = TRUE
  /\ UNCHANGED <<pc, asked, at, gathered, made>>

Walk ==
  /\ pc = "dialog" /\ pc' = "walk"
  /\ UNCHANGED <<ours, asked, at, gathered, made, moved>>

-----------------------------------------------------------------------------
(* One call of xfer_coin_callback *)

\* Mutant of Nfields: the header is forgotten.
NfieldsBody(n, ks, sig) == 1 + n + 3 * Cardinality(ks) + (IF sig THEN 2 ELSE 0)
Nfields(n, ks, sig)     == 2 + n + 3 * Cardinality(ks) + (IF sig THEN 2 ELSE 0)

\* xdag_create_block counts the keys of the inputs itself.
KeysOf(inputs) == {ours[f.block].key : f \in Range(inputs)}
Fits(inputs) ==
  Nfields(Len(inputs), KeysOf(inputs), Default \notin KeysOf(inputs)) <= XDAG_BLOCK_FIELDS

\* Mutant of Part: the whole block is taken.
PartAll(amount, left) == amount
Part(amount, left)    == IF amount < left THEN amount ELSE left

\* The walk at block i: what is gathered is made into a block first when the
\* block's key would not fit; the input is added; and a full block, or the last
\* one, is made at once.
First(i) ==
  LET k == ours[i].key
  IN Nfields(Len(fields), keys \cup {k}, outsig /\ k # Default) > XDAG_BLOCK_FIELDS

\* What is left of the inputs, with its mutant, and of their amount.
InputsKept(i) == fields
Inputs(i) == IF First(i) THEN <<>> ELSE fields
Todo(i)   == IF First(i) THEN 0 ELSE todo

Gather(i, ok) ==
  LET k == ours[i].key
      part == Part(ours[i].amount, remains)
      input == [block |-> i, amount |-> part]
      F  == Append(Inputs(i), input)
      K  == IF First(i) THEN {k} ELSE keys \cup {k}
      S  == (First(i) \/ outsig) /\ k # Default
      T  == Todo(i) + part
      D  == IF First(i) THEN done + todo ELSE done
      M  == IF First(i) THEN Append(made, fields) ELSE made
      full == remains = part \/ Nfields(Len(F), K, S) = XDAG_BLOCK_FIELDS
      made_ok == ok /\ Fits(F)
  IN /\ remains' = remains - part
     /\ IF full /\ made_ok
        THEN /\ fields' = <<>> /\ keys' = {} /\ outsig' = TRUE
             /\ todo' = 0 /\ done' = D + T /\ made' = Append(M, F)
        ELSE /\ fields' = F /\ keys' = K /\ outsig' = S
             /\ todo' = T /\ done' = D /\ made' = M
     /\ pc' = IF (full /\ ~made_ok) \/ remains = part THEN "end" ELSE "walk"
     /\ moved' = (moved \/ (full /\ ~ok))

Visit ==
  /\ pc = "walk" /\ at < Len(ours) /\ ours[at + 1].amount # 0
  /\ First(at + 1) => Fits(fields)
  /\ at' = at + 1 /\ \E ok \in BOOLEAN : Gather(at + 1, ok)
  /\ UNCHANGED <<ours, asked>>

\* The block that has to be made first is too large, or refused.
VisitFails ==
  /\ pc = "walk" /\ at < Len(ours) /\ ours[at + 1].amount # 0
  /\ First(at + 1)
  /\ pc' = "end" /\ moved' = (moved \/ Fits(fields))
  /\ UNCHANGED <<ours, asked, at, gathered, made>>

\* The walk stops at the first block without coins, or after the last.
WalkEnds ==
  /\ pc = "walk" /\ (at < Len(ours) => ours[at + 1].amount = 0)
  /\ pc' = "end"
  /\ UNCHANGED <<ours, asked, at, gathered, made, moved>>

Next == Ask \/ Report \/ Walk \/ Visit \/ VisitFails \/ WalkEnds
Spec == Init /\ [][Next]_vars

-----------------------------------------------------------------------------
(* Properties *)

\* No block of ours is an input twice, or for more than it holds, and every
\* block made fits its fields.
InputsCovered ==
  LET all == Append(made, fields)
  IN /\ \A m, n \in 1 .. Len(all) : \A i \in 1 .. Len(all[m]), j \in 1 .. Len(all[n]) :
          all[m][i].block = all[n][j].block => m = n /\ i = j
     /\ \A n \in 1 .. Len(all) : \A i \in 1 .. Len(all[n]) :
          all[n][i].amount <= ours[all[n][i].block].amount
     /\ \A n \in 1 .. Len(made) : Fits(made[n])

\* A wallet whose coins are all under one key transfers all that was asked,
\* unless the coins changed under the password dialog or a block was refused.
AllTransferred ==
  (pc = "end" /\ ~moved /\ \A b, c \in Range(ours) : b.key = c.key) => done = asked

=============================================================================
