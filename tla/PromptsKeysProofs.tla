------------------------- MODULE PromptsKeysProofs -------------------------
(***************************************************************************)
(* Theorems about what the service's handler thread works with when it        *)
(* connects: the answers of the user (UiPrompts), for any number of transfers *)
(* and of connects, and the wallet's keys (WalletKeys), for any number of      *)
(* keys, records and starts.                                                *)
(***************************************************************************)
EXTENDS UiPrompts, WalletKeys, SequenceTheorems, TLAPS

-----------------------------------------------------------------------------
(* UiPrompts *)

Active(t)  == pc[t] \in {"wait", "woken"}
Waiting(a) == pc[a[1]] = "wait" /\ prompt[a[1]] = a[2]

\* The strengthening of OwnAnswer: a question is in one place at a time, in an
\* event, in a dialog or in the slot, and its asker is the only thread that waits.
OneAsker    == \A t, u \in Threads : Active(t) /\ Active(u) => t = u
EventsAsked == \A i \in 1 .. Len(events) : Waiting(events[i])
OneEvent    == Len(events) <= 1
OneDialog   == \A d \in dialogs : Waiting(d) /\ events = <<>>
SlotAsked   == slot # Nobody => \E t \in Threads : pc[t] = "woken"
SlotFound   == \A t \in Threads : pc[t] = "woken" => slot = <<t, prompt[t]>>
Solo == OneAsker /\ EventsAsked /\ OneEvent /\ OneDialog /\ SlotAsked /\ SlotFound

IInv == TypeOK /\ (~mixed => Solo)

LEMMA ConnIsThread == Conn \in Threads /\ \A x \in Xfers : x \in Threads /\ x # Conn
  BY PromptAssumption DEF Threads

\* Notify leaves the types alone.
LEMMA NotifyTyped ==
  ASSUME TypeOK, NEW a \in Asks, NEW ok \in BOOLEAN, Notify(a, ok)
  PROVE  /\ slot' \in Asks \cup {Nobody} /\ right' \in BOOLEAN
         /\ pc' \in [Threads -> {"idle", "ask", "wait", "woken", "accepted", "refused"}]
         /\ pc'[Conn] \notin {"accepted", "refused"}
  BY ConnIsThread DEF TypeOK, Notify

\* Return leaves the types alone.
LEMMA ReturnTyped ==
  ASSUME TypeOK, NEW t \in Threads, NEW k \in Kinds,
         NEW n \in {"idle", "ask", "accepted", "refused"},
         t = Conn => n \in {"idle", "ask"}, Return(t, n, k)
  PROVE  /\ pc' \in [Threads -> {"idle", "ask", "wait", "woken", "accepted", "refused"}]
         /\ pc'[Conn] \notin {"accepted", "refused"}
         /\ prompt' \in [Threads -> Kinds]
  BY ConnIsThread DEF TypeOK, Return

\* Failures are counted to their bound.
LEMMA FaultTyped ==
  ASSUME TypeOK, FileFault \/ UNCHANGED faults
  PROVE  faults' \in 0 .. MaxFaults
  BY PromptAssumption DEF TypeOK, FileFault

LEMMA InitTyped == Init => TypeOK
<1> SUFFICES ASSUME Init PROVE TypeOK
  OBVIOUS
<1>1. pc[Conn] \notin {"accepted", "refused"} /\ pc \in [Threads -> {"idle"}]
  BY ConnIsThread DEF Init
<1>2. prompt \in [Threads -> Kinds]
  BY DEF Init, Kinds
<1>3. events \in Seq(Asks) /\ dialogs \subseteq Asks
  BY DEF Init
<1>4. asked \in 0 .. MaxConnects /\ connects \in 0 .. asked /\ faults \in 0 .. MaxFaults
  BY PromptAssumption DEF Init
<1> QED BY <1>1, <1>2, <1>3, <1>4 DEF Init, TypeOK, Screens

LEMMA NextTyped == TypeOK /\ [Next]_vars => TypeOK'
<1> SUFFICES ASSUME TypeOK, [Next]_vars PROVE TypeOK'
  OBVIOUS
<1> USE ConnIsThread
<1>1. ASSUME NEW t \in Threads, Ask(t) PROVE TypeOK'
  <2>1. <<t, prompt[t]>> \in Asks
    BY DEF TypeOK, Asks
  <2>2. events' \in Seq(Asks)
    BY <1>1, <2>1 DEF TypeOK, Ask
  <2> QED BY <1>1, <2>2 DEF TypeOK, Ask, serv, answer, keyfile
<1>2. ASSUME NEW t \in Threads, WakeAlone(t) PROVE TypeOK'
  BY <1>2 DEF TypeOK, WakeAlone, ui, answer, serv, keyfile
<1>3. ASSUME NEW x \in Xfers, XferRefused(x) \/ XferAccepted(x) PROVE TypeOK'
  <2>1. PICK n \in {"accepted", "refused"} : Return(x, n, prompt[x])
    BY <1>3 DEF XferRefused, XferAccepted
  <2>2. prompt[x] \in Kinds /\ x \in Threads /\ x # Conn
    BY DEF TypeOK
  <2>3. UNCHANGED <<ui, serv, keyfile, mixed>> /\ TakeSlot
    BY <1>3 DEF XferRefused, XferAccepted
  <2> QED BY <2>1, <2>2, <2>3, ReturnTyped DEF TypeOK, TakeSlot, ui, serv, keyfile
<1>4. CASE ConnStart
  <2>1. faults' \in 0 .. MaxFaults
    BY <1>4, FaultTyped DEF ConnStart, KeyRead, KeyMade, KeyNotMade, keyfile
  <2>2. CASE UNCHANGED <<pc, prompt, key>>
    BY <1>4, <2>1, <2>2 DEF TypeOK, ConnStart, ui, answer
  <2>3. CASE KeyRead \/ KeyMade
    <3>1. /\ pc' = [pc EXCEPT ![Conn] = "ask"]
          /\ prompt' \in [Threads -> Kinds] /\ key' \in {"short", "good"}
      BY <2>3 DEF TypeOK, KeyRead, KeyMade, keyfile, Kinds
    <3> QED BY <1>4, <2>1, <3>1 DEF TypeOK, ConnStart, ui, answer
  <2> QED BY <1>4, <2>2, <2>3 DEF ConnStart, KeyNotMade, keyfile
<1>5. CASE ConnRefused \/ ConnNext \/ ConnDone \/ ConnFails
  <2>1. PICK n \in {"idle", "ask"}, k \in Kinds : Return(Conn, n, k)
    BY <1>5 DEF ConnRefused, ConnNext, ConnDone, ConnFails, TypeOK, Kinds
  <2>2. /\ pc' \in [Threads -> {"idle", "ask", "wait", "woken", "accepted", "refused"}]
        /\ pc'[Conn] \notin {"accepted", "refused"}
        /\ prompt' \in [Threads -> Kinds]
    BY <2>1, ReturnTyped
  <2>3. faults' \in 0 .. MaxFaults
    BY <1>5, FaultTyped DEF ConnRefused, ConnNext, ConnDone, ConnFails, keyfile
  <2>4. key' \in {"none", "short", "good"}
    BY <1>5 DEF ConnRefused, ConnNext, ConnDone, ConnFails, keyfile, TypeOK
  <2>5. started' \in BOOLEAN
    BY <1>5 DEF ConnRefused, ConnNext, ConnDone, ConnFails, serv, TypeOK
  <2>6. TakeSlot /\ UNCHANGED <<ui, connected, connects, asked, mixed>>
    BY <1>5 DEF ConnRefused, ConnNext, ConnDone, ConnFails, serv
  <2> QED BY <2>2, <2>3, <2>4, <2>5, <2>6 DEF TypeOK, TakeSlot, ui
<1>6. CASE EventAnswered
  <2>1. Head(events) \in Asks /\ events' \in Seq(Asks)
    BY <1>6 DEF TypeOK, EventAnswered
  <2>2. PICK ok \in OwnWords(Head(events)[2]) : Notify(Head(events), ok)
    BY <1>6 DEF EventAnswered
  <2>3. ok \in BOOLEAN
    BY <2>2 DEF OwnWords
  <2> QED BY <1>6, <2>1, <2>2, <2>3, NotifyTyped DEF TypeOK, EventAnswered, serv, keyfile
<1>7. CASE EventDialog \/ EventIgnored
  <2>1. Head(events) \in Asks /\ events' \in Seq(Asks)
    <3>1. events \in Seq(Asks) /\ events # <<>> /\ events' = Tail(events)
      BY <1>7 DEF TypeOK, EventDialog, EventIgnored
    <3> QED BY <3>1
  <2> QED BY <1>7, <2>1 DEF TypeOK, EventDialog, EventIgnored, native, answer, serv, keyfile
<1>8. CASE DialogAnswered
  <2>1. PICK d \in dialogs, ok \in BOOLEAN : Notify(d, ok) /\ dialogs' = dialogs \ {d}
    BY <1>8 DEF DialogAnswered
  <2>2. d \in Asks
    BY <2>1 DEF TypeOK
  <2> QED BY <1>8, <2>1, <2>2, NotifyTyped DEF TypeOK, DialogAnswered, serv, keyfile
<1>9. CASE StateEvent
  BY <1>9 DEF TypeOK, StateEvent, native, ui, answer, keyfile
<1>10. CASE UserStep
  <2>1. ASSUME NEW s \in Screens, GoTo(s) PROVE TypeOK'
    BY <2>1, PromptAssumption DEF TypeOK, GoTo, Request, native, answer, keyfile
  <2>2. ASSUME AppStarts \/ CreateWallet \/ LoadWallet PROVE TypeOK'
    BY <2>2, PromptAssumption
    DEF TypeOK, AppStarts, CreateWallet, LoadWallet, Request, native, ui, answer, keyfile
  <2>3. ASSUME NEW x \in Xfers, Transfer(x) PROVE TypeOK'
    BY <2>3 DEF TypeOK, Transfer, ui, answer, serv, keyfile
  <2> QED BY <1>10, <2>1, <2>2, <2>3 DEF UserStep
<1>11. CASE UNCHANGED vars
  BY <1>11 DEF TypeOK, vars, native, ui, answer, serv, keyfile
<1> QED BY <1>1, <1>2, <1>3, <1>4, <1>5, <1>6, <1>7, <1>8, <1>9, <1>10, <1>11
        DEF Next, NativeStep, UiStep

\* No thread, event, dialog or connect message ever leaves the ranges the code
\* gives it; in particular the handler thread always returns to its messages.
THEOREM TypeCorrect == Spec => []TypeOK
  BY InitTyped, NextTyped, PTL DEF Spec

-----------------------------------------------------------------------------
(* OwnAnswer *)

LEMMA InitSolo == Init => Solo
  BY DEF Init, Solo, Active, Waiting, OneAsker, EventsAsked, OneEvent, OneDialog,
         SlotAsked, SlotFound

\* While nobody waits nothing is pending.
LEMMA NothingPending ==
  ASSUME TypeOK, Solo, \A t \in Threads : pc[t] # "wait"
  PROVE  events = <<>> /\ dialogs = {}
<1>1. \A a \in Asks : a[1] \in Threads /\ ~Waiting(a)
  BY DEF Asks, Waiting
<1>2. dialogs = {}
  BY <1>1 DEF TypeOK, Solo, OneDialog
<1>3. ~ (1 \in 1 .. Len(events))
  BY <1>1 DEF TypeOK, Solo, EventsAsked
<1> QED BY <1>2, <1>3 DEF TypeOK

\* An answer reaches the thread whose question it answers.
LEMMA NotifySolo ==
  ASSUME TypeOK, Solo, NEW a \in Asks, NEW ok, Waiting(a), Notify(a, ok),
         prompt' = prompt, events' = <<>>, dialogs' = {}
  PROVE  Solo'
<1> DEFINE w == a[1]
<1>1. w \in Threads /\ a = <<w, prompt[w]>> /\ pc[w] = "wait"
  BY DEF Asks, Waiting
<1>2. \A t \in Threads : Active(t) => t = w
  BY <1>1 DEF Solo, OneAsker, Active
<1>3. slot = Nobody
  BY <1>1, <1>2 DEF Solo, SlotAsked, Active
<1>4. slot' = a /\ pc' = [pc EXCEPT ![w] = "woken"]
  BY <1>1, <1>2, <1>3 DEF Notify, Active
<1>5. \A t \in Threads : pc'[t] \in {"wait", "woken"} => t = w
  BY <1>1, <1>2, <1>4 DEF Active, TypeOK
<1>6. pc'[w] = "woken"
  BY <1>1, <1>4 DEF TypeOK
<1>7. OneAsker' /\ SlotAsked' /\ SlotFound'
  BY <1>1, <1>4, <1>5, <1>6 DEF OneAsker, SlotAsked, SlotFound, Active
<1>8. EventsAsked' /\ OneEvent' /\ OneDialog'
  BY DEF EventsAsked, OneEvent, OneDialog
<1> QED BY <1>7, <1>8 DEF Solo

\* A thread that takes its answer leaves nothing behind for the next question.
LEMMA ReturnSolo ==
  ASSUME TypeOK, Solo, NEW t \in Threads, NEW n \in {"idle", "ask", "accepted", "refused"},
         NEW k, Return(t, n, k), TakeSlot, events' = events, dialogs' = dialogs
  PROVE  Solo'
<1>1. \A u \in Threads : Active(u) => u = t
  BY DEF Return, Solo, OneAsker, Active
<1>2. events = <<>> /\ dialogs = {}
  BY <1>1, NothingPending DEF Return, Active
<1>3. \A u \in Threads : pc'[u] \notin {"wait", "woken"}
  BY <1>1 DEF Return, Active, TypeOK
<1>4. OneAsker' /\ SlotAsked' /\ SlotFound'
  BY <1>3 DEF OneAsker, SlotAsked, SlotFound, Active, TakeSlot
<1>5. EventsAsked' /\ OneEvent' /\ OneDialog'
  BY <1>2 DEF EventsAsked, OneEvent, OneDialog
<1> QED BY <1>4, <1>5 DEF Solo

\* A thread that sets out to ask disturbs no question that is pending.
LEMMA StartSolo ==
  ASSUME TypeOK, Solo, NEW t \in Threads, pc[t] = "idle",
         pc' = [pc EXCEPT ![t] = "ask"], prompt' = [prompt EXCEPT ![t] = prompt'[t]],
         events' = events, dialogs' = dialogs, slot' = slot
  PROVE  Solo'
<1>1. \A u \in Threads : (pc'[u] \in {"wait", "woken"} <=> Active(u))
                          /\ (Active(u) => pc'[u] = pc[u] /\ prompt'[u] = prompt[u])
  BY DEF Active, TypeOK
<1>2. \A a \in Asks : Waiting(a) => Waiting(a)'
  BY <1>1 DEF Asks, Waiting, Active
<1>3. OneAsker' /\ SlotAsked' /\ SlotFound'
  BY <1>1 DEF Solo, OneAsker, SlotAsked, SlotFound, Active
<1>4. OneEvent'
  BY DEF Solo, OneEvent
<1>5. OneDialog'
  BY <1>2 DEF Solo, OneDialog, TypeOK
<1>6. EventsAsked'
  BY <1>2 DEF Solo, EventsAsked, TypeOK
<1> QED BY <1>3, <1>4, <1>5, <1>6 DEF Solo

\* A step that touches no question, answer or thread keeps Solo.
LEMMA SameSolo ==
  ASSUME Solo, UNCHANGED <<pc, prompt, events, dialogs, slot>>
  PROVE  Solo'
  BY DEF Solo, OneAsker, EventsAsked, OneEvent, OneDialog, SlotAsked, SlotFound,
         Active, Waiting

LEMMA AskSolo ==
  ASSUME TypeOK, Solo, NEW t \in Threads, Ask(t), ~mixed'
  PROVE  Solo'
<1>1. \A u \in Threads : pc[u] \notin {"wait", "woken"}
  BY DEF Ask
<1>2. events = <<>> /\ dialogs = {} /\ slot = Nobody
  BY <1>1, NothingPending DEF Solo, SlotAsked
<1>3. events' = << <<t, prompt[t]>> >> /\ dialogs' = {} /\ slot' = Nobody
  BY <1>2 DEF Ask, answer
<1>4. pc'[t] = "wait" /\ prompt' = prompt
      /\ \A u \in Threads : pc'[u] \in {"wait", "woken"} => u = t
  BY <1>1 DEF Ask, TypeOK
<1>5. OneAsker' /\ SlotAsked' /\ SlotFound'
  BY <1>3, <1>4 DEF OneAsker, SlotAsked, SlotFound, Active
<1>6. EventsAsked' /\ OneEvent' /\ OneDialog'
  BY <1>3, <1>4 DEF EventsAsked, OneEvent, OneDialog, Waiting
<1> QED BY <1>5, <1>6 DEF Solo

LEMMA NextSolo == IInv /\ [Next]_vars => (~mixed => Solo)'
<1> SUFFICES ASSUME IInv, [Next]_vars, ~mixed' PROVE Solo'
  OBVIOUS
<1> USE ConnIsThread
<1>1. ~mixed
  BY DEF Next, NativeStep, Ask, WakeAlone, XferRefused, XferAccepted, ConnStart,
     ConnRefused, ConnNext, ConnDone, ConnFails, UiStep, EventAnswered, EventDialog, EventIgnored,
     DialogAnswered, StateEvent, UserStep, GoTo, AppStarts, CreateWallet, LoadWallet,
     Transfer, vars
<1>2. TypeOK /\ Solo
  BY <1>1 DEF IInv
<1>3. ASSUME NEW t \in Threads, Ask(t) \/ WakeAlone(t) PROVE Solo'
  BY <1>2, <1>3, AskSolo DEF WakeAlone
<1>4. ASSUME NEW x \in Xfers, XferRefused(x) \/ XferAccepted(x) PROVE Solo'
  <2>1. PICK n \in {"accepted", "refused"} : Return(x, n, prompt[x])
    BY <1>4 DEF XferRefused, XferAccepted
  <2>2. TakeSlot /\ events' = events /\ dialogs' = dialogs
    BY <1>4 DEF XferRefused, XferAccepted, ui
  <2> QED BY <1>2, <2>1, <2>2, ReturnSolo
<1>5. CASE ConnStart
  <2>1. CASE connected
    BY <1>2, <1>5, <2>1, SameSolo DEF ConnStart, ui, answer
  <2>2. CASE ~connected
    <3>1. CASE KeyRead \/ KeyMade
      <4>1. /\ pc[Conn] = "idle" /\ pc' = [pc EXCEPT ![Conn] = "ask"]
            /\ prompt' = [prompt EXCEPT ![Conn] = prompt'[Conn]]
        BY <1>2, <1>5, <3>1 DEF ConnStart, KeyRead, KeyMade, TypeOK
      <4> QED BY <1>2, <1>5, <4>1, StartSolo DEF ConnStart, ui, answer
    <3>2. CASE KeyNotMade
      BY <1>2, <1>5, <3>2, SameSolo DEF ConnStart, KeyNotMade, ui, answer
    <3> QED BY <1>5, <2>2, <3>1, <3>2 DEF ConnStart
  <2> QED BY <2>1, <2>2
<1>6. CASE ConnRefused \/ ConnNext \/ ConnDone \/ ConnFails
  <2>1. PICK n \in {"idle", "ask"}, k \in Kinds : Return(Conn, n, k)
    BY <1>2, <1>6 DEF ConnRefused, ConnNext, ConnDone, ConnFails, TypeOK, Kinds
  <2>2. TakeSlot /\ events' = events /\ dialogs' = dialogs
    BY <1>6 DEF ConnRefused, ConnNext, ConnDone, ConnFails, ui
  <2> QED BY <1>2, <2>1, <2>2, ReturnSolo
<1>7. ASSUME events # <<>>
      PROVE  /\ Head(events) \in Asks /\ Waiting(Head(events))
             /\ Tail(events) = <<>> /\ dialogs = {}
  <2>0. events \in Seq(Asks) /\ Len(events) <= 1
    BY <1>2 DEF Solo, OneEvent, TypeOK
  <2>1. Len(events) = 1 /\ Head(events) = events[1] /\ Head(events) \in Asks
    <3>1. Head(events) \in Asks
      BY <1>7, <2>0
    <3>2. Len(events) = 1
      <4>1. Len(events) \in Nat \ {0}
        BY <1>7, <2>0, EmptySeq
      <4>2. \A n \in Nat \ {0} : n <= 1 => n = 1
        OBVIOUS
      <4>3. Len(events) <= 1
        BY <2>0
      <4> QED BY <4>1, <4>2, <4>3
    <3>3. Head(events) = events[1]
      BY <1>7, <2>0
    <3> QED BY <3>1, <3>2, <3>3
  <2>2. Tail(events) \in Seq(Asks) /\ Len(Tail(events)) = 0
    BY <1>2, <1>7, <2>1, HeadTailProperties DEF TypeOK
  <2>3. Tail(events) = <<>>
    BY <2>2, EmptySeq
  <2>4. Waiting(events[1])
    BY <1>2, <2>1 DEF Solo, EventsAsked
  <2> QED BY <1>2, <1>7, <2>1, <2>3, <2>4 DEF Solo, OneDialog
<1>8. CASE EventAnswered
  <2>1. PICK ok \in OwnWords(Head(events)[2]) : Notify(Head(events), ok)
    BY <1>8 DEF EventAnswered
  <2> QED BY <1>2, <1>7, <1>8, <2>1, NotifySolo DEF EventAnswered
<1>9. CASE EventDialog \/ EventIgnored
  <2>1. /\ events # <<>> /\ events' = <<>> /\ dialogs' \subseteq {Head(events)}
        /\ UNCHANGED <<pc, prompt, slot>>
    BY <1>7, <1>9 DEF EventDialog, EventIgnored, native, answer
  <2>2. \A d \in dialogs' : pc'[d[1]] = "wait" /\ prompt'[d[1]] = d[2]
    BY <1>7, <2>1 DEF Waiting
  <2>3. OneDialog' /\ EventsAsked' /\ OneEvent'
    BY <2>1, <2>2 DEF OneDialog, EventsAsked, OneEvent, Waiting
  <2>4. OneAsker' /\ SlotAsked' /\ SlotFound'
    BY <1>2, <2>1 DEF Solo, OneAsker, SlotAsked, SlotFound, Active
  <2> QED BY <2>3, <2>4 DEF Solo
<1>10. CASE DialogAnswered
  <2>1. PICK d \in dialogs, ok \in BOOLEAN : Notify(d, ok) /\ dialogs' = dialogs \ {d}
    BY <1>10 DEF DialogAnswered
  <2>2. d \in Asks /\ Waiting(d) /\ events = <<>>
    BY <1>2, <2>1 DEF Solo, OneDialog, TypeOK
  <2>3. ASSUME NEW c \in dialogs PROVE c = d
    <3>1. c \in Asks /\ Waiting(c)
      BY <1>2 DEF Solo, OneDialog, TypeOK
    <3> QED BY <1>2, <2>2, <3>1 DEF Asks, Waiting, Solo, OneAsker, Active
  <2>4. dialogs' = {}
    BY <2>1, <2>3
  <2> QED BY <1>2, <1>10, <2>1, <2>2, <2>4, NotifySolo DEF DialogAnswered
<1>11. CASE StateEvent
  BY <1>2, <1>11, SameSolo DEF StateEvent, native, ui, answer
<1>12. CASE UserStep
  <2>1. ASSUME NEW s \in Screens, GoTo(s) PROVE Solo'
    BY <1>2, <2>1, SameSolo DEF GoTo, native, answer
  <2>2. ASSUME AppStarts \/ CreateWallet \/ LoadWallet PROVE Solo'
    BY <1>2, <2>2, SameSolo DEF AppStarts, CreateWallet, LoadWallet, native, ui, answer
  <2>3. ASSUME NEW x \in Xfers, Transfer(x) PROVE Solo'
    <3>1. /\ pc[x] = "idle" /\ pc' = [pc EXCEPT ![x] = "ask"]
          /\ prompt' = [prompt EXCEPT ![x] = prompt'[x]]
      BY <1>2, <2>3 DEF Transfer, TypeOK
    <3> QED BY <1>2, <2>3, <3>1, StartSolo DEF Transfer, ui, answer
  <2> QED BY <1>12, <2>1, <2>2, <2>3 DEF UserStep
<1>13. CASE UNCHANGED vars
  BY <1>2, <1>13, SameSolo DEF vars, native, ui, answer
<1> QED BY <1>3, <1>4, <1>5, <1>6, <1>8, <1>9, <1>10, <1>11, <1>12, <1>13
        DEF Next, NativeStep, UiStep

\* Whatever the number of transfers, a thread that asked alone and was woken by a
\* signal finds the answer to the question it asked last.
THEOREM OwnAnswerCorrect == Spec => []OwnAnswer
<1>1. Init => IInv
  BY InitTyped, InitSolo DEF IInv
<1>2. IInv /\ [Next]_vars => IInv'
  BY NextTyped, NextSolo DEF IInv
<1>3. IInv => OwnAnswer
  BY DEF IInv, Solo, SlotFound, OwnAnswer
<1> QED BY <1>1, <1>2, <1>3, PTL DEF Spec

\* Only a wallet the user loads over it, or a failure to open, read or write the file,
\* takes a good key file away: no answer, right or wrong, no cancelled question and no
\* number of connects does.
THEOREM KeyIsSafe == Spec => KeySafe
<1>1. ASSUME TypeOK, [Next]_vars
      PROVE  [key = "good" /\ key' # "good" =>
                \/ screen = "load" /\ asked' > asked
                \/ faults' > faults]_vars
  <2> SUFFICES ASSUME key = "good", key' # "good"
               PROVE  (screen = "load" /\ asked' > asked) \/ faults' > faults
    OBVIOUS
  <2>1. LoadWallet \/ ConnStart \/ ConnFails
    BY <1>1 DEF Next, NativeStep, Ask, WakeAlone, XferRefused, XferAccepted,
     ConnRefused, ConnNext, ConnDone, UiStep, EventAnswered, EventDialog, EventIgnored,
     DialogAnswered, StateEvent, UserStep, GoTo, AppStarts, CreateWallet,
     Transfer, vars, keyfile
  <2>2. CASE LoadWallet
    BY <1>1, <2>2 DEF LoadWallet, Request, TypeOK
  <2>3. CASE ConnStart \/ ConnFails
    <3>1. FileFault
      BY <2>3 DEF ConnStart, ConnFails, KeyRead, KeyMade, KeyNotMade, keyfile
    <3> QED BY <1>1, <3>1 DEF FileFault, TypeOK
  <2> QED BY <2>1, <2>2, <2>3
<1> QED BY <1>1, TypeCorrect, PTL DEF Spec, KeySafe

-----------------------------------------------------------------------------
(* WalletKeys: the numbers of the records are those a start will decipher them *)
(* with, so no key of the wallet is lost and its default key stays the last      *)
(* record.                                                                    *)

FileKeys == {file[i].key : i \in 1 .. Len(file)}

\* The record in hand, and the file it is in.
TypeInv ==
  /\ KeysTyped
  /\ step \in {"append", "enter", "reopen", "load"} => exists
  /\ step \in {"append", "enter"} => newKey \in Key

\* Record i is enciphered with i - 1, and whatever the wallet works with, or
\* has worked with, is the key of some record.
Numbered == \A i \in 1 .. Len(file) : file[i].sector = i - 1

InFile ==
  /\ \A i \in 1 .. Len(keys) : keys[i] \in FileKeys
  /\ used \subseteq FileKeys

\* Keys and records are equally many, unless odd says why not; add_key counts on it.
Counted ==
  /\ odd = {} /\ step = "ready" => Len(keys) = Len(file)
  /\ odd = {} /\ step = "load" => Len(keys) = at
  /\ step = "load" => number = at
  /\ step \in {"create", "append"} => Len(keys) = Len(file) /\ (caller = "init" => file = <<>>)
  /\ step = "enter" => /\ Len(file) = Len(keys) + 1 /\ file[Len(file)].key = newKey
                       /\ caller = "init" => keys = <<>>
  /\ step = "reopen" => Len(file) = 1 /\ Len(keys) = 1 /\ keys[1] = file[1].key
  /\ step \in {"append", "enter"} => good \/ "gap" \in odd

\* Unless a record was not entered, the last key is the last record's.
LastIsLast ==
  "gap" \notin odd =>
    /\ (step = "ready" \/ (step \in {"create", "append"} /\ caller = "new")) /\ keys # <<>>
         => file # <<>> /\ file[Len(file)].key = keys[Len(keys)]
    /\ step = "load" /\ at > 0 => keys # <<>> /\ file[at].key = keys[Len(keys)]

KeysInv == TypeInv /\ (~lost => Numbered /\ InFile /\ Counted /\ LastIsLast)

LEMMA KeysStart == KeysInit => KeysInv
<1> SUFFICES ASSUME KeysInit PROVE KeysInv
  OBVIOUS
<1>1. file \in Seq(Record) /\ keys \in Seq(Key \cup {Garbage})
  BY EmptySeq DEF KeysInit
<1>2. TypeInv
  BY <1>1 DEF KeysInit, TypeInv, KeysTyped
<1> QED
  BY <1>2 DEF KeysInit, KeysInv, Numbered, InFile, Counted, LastIsLast

\* The actions that change neither the file nor the keys.
Quiet ==
  \/ Kill \/ InitOpens \/ InitMisses \/ NewKey \/ Create \/ CreateFails \/ AppendFails
  \/ Refuse \/ EnterFails \/ Reopen \/ ReopenFails \/ LoadFails \/ Loaded

LEMMA QuietKeeps == Quiet => UNCHANGED <<file, keys>>
BY DEF Quiet, Kill, InitOpens, InitMisses, NewKey, Create, CreateFails, AppendFails,
       Refuse, EnterFails, Reopen, ReopenFails, LoadFails, Loaded

LEMMA QuietType ==
  ASSUME TypeInv, Quiet
  PROVE  TypeInv'
<1> USE DEF TypeInv, KeysTyped
<1>1. CASE Kill \/ InitOpens \/ InitMisses \/ NewKey
  <2>1. CASE Kill \/ NewKey
    BY <2>1 DEF Kill, NewKey
  <2>2. CASE InitOpens
    <3>1. at' <= Len(file)
      BY <2>2 DEF InitOpens
    <3>2. odd' \subseteq {"twice", "gap"}
      BY <2>2 DEF InitOpens, Again
    <3> QED
      BY <2>2, <3>1, <3>2 DEF InitOpens
  <2>3. CASE InitMisses
    <3>1. odd' \subseteq {"twice", "gap"}
      BY <2>3 DEF InitMisses, Again
    <3> QED
      BY <2>3, <3>1 DEF InitMisses
  <2> QED
    BY <1>1, <2>1, <2>2, <2>3
<1>2. CASE Create \/ CreateFails
  <2>1. CASE Create
    <3>1. PICK k \in Key \ drawn, ok \in BOOLEAN :
            /\ newKey' = k /\ good' = ok /\ drawn' = drawn \cup {k}
            /\ odd' = IF ok THEN odd ELSE odd \cup {"gap"}
      BY <2>1 DEF Create
    <3>2. /\ exists' = TRUE /\ step' = "append"
          /\ UNCHANGED <<file, caller, keys, at, number, used, lost>>
      BY <2>1 DEF Create
    <3> QED
      BY <3>1, <3>2
  <2>2. CASE CreateFails
    BY <2>2 DEF CreateFails, Fail
  <2> QED
    BY <1>2, <2>1, <2>2
<1>3. CASE AppendFails \/ Refuse \/ EnterFails
  <2>1. CASE AppendFails
    BY <2>1 DEF AppendFails, Fail
  <2>2. CASE Refuse
    BY <2>2 DEF Refuse, Fail
  <2>3. CASE EnterFails
    BY <2>3 DEF EnterFails, Fail
  <2> QED
    BY <1>3, <2>1, <2>2, <2>3
<1>4. CASE Reopen \/ ReopenFails
  <2>1. CASE Reopen
    <3>1. at' \in Nat /\ number' \in Nat /\ at' <= Len(file)
      BY <2>1 DEF Reopen
    <3> QED
      BY <2>1, <3>1 DEF Reopen
  <2>2. CASE ReopenFails
    BY <2>2 DEF ReopenFails
  <2> QED
    BY <1>4, <2>1, <2>2
<1>5. CASE LoadFails
  <2>1. at' \in Nat /\ number' \in Nat /\ at' <= Len(file)
    BY <1>5 DEF LoadFails
  <2> QED
    BY <1>5, <2>1 DEF LoadFails
<1>6. CASE Loaded
  <2>1. keys # <<>> => keys[Len(keys)] \in Key \cup {Garbage}
    OBVIOUS
  <2> QED
    BY <1>6, <2>1 DEF Loaded
<1> QED
  BY <1>1, <1>2, <1>3, <1>4, <1>5, <1>6 DEF Quiet

LEMMA QuietStep ==
  ASSUME KeysInv, ~lost, Quiet
  PROVE  KeysInv'
<1>1. TypeInv'
  BY QuietType DEF KeysInv
<1>2. Numbered' /\ FileKeys' = FileKeys
  BY QuietKeeps DEF KeysInv, Numbered, FileKeys
<1>3. InFile'
  <2>1. used' \subseteq FileKeys
    <3>1. CASE Loaded
      <4>1. keys # <<>> => Len(keys) \in 1 .. Len(keys)
        BY DEF KeysInv, TypeInv, KeysTyped
      <4> QED
        BY <3>1, <4>1 DEF Loaded, KeysInv, InFile
    <3>2. CASE ~Loaded
      BY <3>2 DEF Quiet, Kill, InitOpens, InitMisses, NewKey, Create, CreateFails, AppendFails,
                  Refuse, EnterFails, Reopen, ReopenFails, LoadFails, KeysInv, InFile
    <3> QED
      BY <3>1, <3>2
  <2> QED
    BY <2>1, <1>2, QuietKeeps DEF KeysInv, InFile
<1>4. ~lost' => Counted'
  <2> USE DEF KeysInv, TypeInv, KeysTyped, InFile, FileKeys, Counted
  <2>1. CASE Kill \/ InitOpens \/ NewKey
    <3>1. CASE Kill
      BY <3>1 DEF Kill
    <3>2. CASE InitOpens
      <4>1. keys = <<>> => Len(keys) = 0
        OBVIOUS
      <4> QED
        BY <3>2, <4>1 DEF InitOpens, Again
    <3>3. CASE NewKey
      BY <3>3 DEF NewKey
    <3> QED
      BY <2>1, <3>1, <3>2, <3>3
  <2>2. CASE InitMisses
    <3>1. ~lost' => file = <<>> /\ keys = <<>>
      BY <2>2 DEF InitMisses
    <3> QED
      BY <2>2, <3>1 DEF InitMisses
  <2>3. CASE Create \/ CreateFails
    BY <2>3 DEF Create, CreateFails, Fail
  <2>4. CASE AppendFails \/ Refuse \/ EnterFails
    BY <2>4 DEF AppendFails, Refuse, EnterFails, Fail
  <2>5. CASE Reopen \/ ReopenFails
    BY <2>5 DEF Reopen, ReopenFails
  <2>6. CASE LoadFails \/ Loaded
    BY <2>6 DEF LoadFails, Loaded
  <2> QED
    BY <2>1, <2>2, <2>3, <2>4, <2>5, <2>6 DEF Quiet
<1>5. ~lost' => LastIsLast'
  <2> USE DEF KeysInv, TypeInv, KeysTyped, InFile, FileKeys, Counted, LastIsLast
  <2>1. CASE Kill \/ InitOpens \/ InitMisses \/ NewKey
    BY <2>1 DEF Kill, InitOpens, InitMisses, NewKey, Again
  <2>2. CASE Create \/ CreateFails
    BY <2>2 DEF Create, CreateFails, Fail
  <2>3. CASE AppendFails \/ Refuse \/ EnterFails
    BY <2>3 DEF AppendFails, Refuse, EnterFails, Fail
  <2>4. CASE Reopen \/ ReopenFails
    BY <2>4 DEF Reopen, ReopenFails
  <2>5. CASE LoadFails \/ Loaded
    BY <2>5 DEF LoadFails, Loaded
  <2> QED
    BY <2>1, <2>2, <2>3, <2>4, <2>5 DEF Quiet
<1> QED
  BY <1>1, <1>2, <1>3, <1>4, <1>5 DEF KeysInv

LEMMA StartStep ==
  ASSUME KeysInv, ~lost, Start
  PROVE  KeysInv'
<1>1. TypeInv' /\ keys' = <<>> /\ Len(keys') = 0
  BY DEF KeysInv, TypeInv, KeysTyped, Start
<1> QED
  BY <1>1 DEF KeysInv, Numbered, InFile, FileKeys, Counted, LastIsLast, Start

\* The record is the next, and its number is the count of keys, so of records.
LEMMA AppendStep ==
  ASSUME KeysInv, ~lost, AppendRecord
  PROVE  KeysInv'
<1> DEFINE r == Written(newKey)
<1>1. /\ file \in Seq(Record) /\ r \in Record /\ r.key = newKey /\ r.sector = Len(file)
      /\ keys \in Seq(Key \cup {Garbage}) /\ file' = Append(file, r)
  BY DEF KeysInv, TypeInv, KeysTyped, Counted, AppendRecord, Written, Record
<1>2. /\ file' \in Seq(Record) /\ Len(file') = Len(file) + 1 /\ Len(file) \in Nat
      /\ file'[Len(file) + 1] = r /\ \A i \in 1 .. Len(file) : file'[i] = file[i]
  BY <1>1, AppendProperties, LenProperties
<1> HIDE DEF r
<1>3. TypeInv'
  BY <1>2 DEF KeysInv, TypeInv, KeysTyped, AppendRecord
<1>4. Numbered'
  BY <1>1, <1>2 DEF KeysInv, Numbered
<1>5. InFile'
  <2>1. FileKeys \subseteq FileKeys'
    BY <1>2 DEF FileKeys
  <2> QED
    BY <2>1 DEF KeysInv, InFile, AppendRecord
<1>6. Counted'
  BY <1>1, <1>2 DEF KeysInv, Counted, AppendRecord
<1>7. LastIsLast'
  BY DEF LastIsLast, AppendRecord
<1> QED
  BY <1>3, <1>4, <1>5, <1>6, <1>7 DEF KeysInv

\* A key that joins the others, the key of a record.
LEMMA KeyJoins ==
  ASSUME KeysInv, ~lost, NEW k \in FileKeys, keys' = Append(keys, k), UNCHANGED file
  PROVE  /\ keys' \in Seq(Key \cup {Garbage}) /\ Len(keys') = Len(keys) + 1 /\ Len(keys) \in Nat
         /\ keys' # <<>> /\ keys'[Len(keys')] = k
         /\ Numbered' /\ FileKeys' = FileKeys
         /\ \A i \in 1 .. Len(keys') : keys'[i] \in FileKeys
<1>1. k \in Key /\ keys \in Seq(Key \cup {Garbage})
  <2>1. file \in Seq(Record) /\ keys \in Seq(Key \cup {Garbage})
    BY DEF KeysInv, TypeInv, KeysTyped
  <2>2. PICK i \in 1 .. Len(file) : k = file[i].key
    BY DEF FileKeys
  <2>3. file[i] \in Record
    BY <2>1, <2>2, ElementOfSeq
  <2> QED
    BY <2>1, <2>2, <2>3 DEF Record
<1>2. /\ keys' \in Seq(Key \cup {Garbage}) /\ keys' # <<>>
      /\ Len(keys') = Len(keys) + 1 /\ Len(keys) \in Nat /\ keys'[Len(keys) + 1] = k
      /\ \A i \in 1 .. Len(keys) : keys'[i] = keys[i]
  BY <1>1, AppendProperties, LenProperties
<1>3. \A i \in 1 .. Len(keys') : keys'[i] \in FileKeys
  BY <1>2 DEF KeysInv, InFile
<1> QED
  BY <1>2, <1>3 DEF KeysInv, Numbered, FileKeys

LEMMA EnterStep ==
  ASSUME KeysInv, ~lost, Enter
  PROVE  KeysInv'
<1>1. /\ file \in Seq(Record) /\ Len(file) \in Nat /\ Len(file) = Len(keys) + 1
      /\ file[Len(file)].key = newKey /\ keys \in Seq(Key \cup {Garbage})
      /\ caller = "init" => keys = <<>>
  BY DEF KeysInv, TypeInv, KeysTyped, Counted, Enter
<1>2. Len(keys) \in Nat /\ (keys = <<>> => Len(keys) = 0)
  BY <1>1
<1>3. newKey \in FileKeys
  BY <1>1, <1>2 DEF FileKeys
<1>4. /\ keys' \in Seq(Key \cup {Garbage}) /\ Len(keys') = Len(keys) + 1
      /\ keys' # <<>> /\ keys'[Len(keys')] = newKey
      /\ Numbered' /\ FileKeys' = FileKeys
      /\ \A i \in 1 .. Len(keys') : keys'[i] \in FileKeys
  BY <1>3, KeyJoins DEF Enter
<1>5. TypeInv'
  BY <1>4 DEF KeysInv, TypeInv, KeysTyped, Enter
<1>6. InFile'
  BY <1>3, <1>4 DEF KeysInv, InFile, Enter
<1>7. Counted' /\ LastIsLast'
  <2>1. CASE caller = "init"
    BY <2>1, <1>1, <1>2, <1>4 DEF Counted, LastIsLast, Enter
  <2>2. CASE caller # "init"
    BY <2>2, <1>1, <1>2, <1>4 DEF Counted, LastIsLast, Enter
  <2> QED
    BY <2>1, <2>2
<1> QED
  BY <1>4, <1>5, <1>6, <1>7 DEF KeysInv

\* A record is deciphered with its own number.
LEMMA LoadStep ==
  ASSUME KeysInv, ~lost, Load
  PROVE  KeysInv'
<1>1. at + 1 \in 1 .. Len(file) /\ number = at /\ at \in Nat
  BY DEF KeysInv, TypeInv, KeysTyped, Counted, Load
<1>2. Decrypt(file[at + 1], number) = file[at + 1].key
  BY <1>1 DEF KeysInv, Numbered, Decrypt
<1>3. file[at + 1].key \in FileKeys
  BY <1>1 DEF FileKeys
<1>4. /\ keys' \in Seq(Key \cup {Garbage}) /\ Len(keys') = Len(keys) + 1 /\ Len(keys) \in Nat
      /\ keys' # <<>> /\ keys'[Len(keys')] = file[at + 1].key
      /\ Numbered' /\ FileKeys' = FileKeys
      /\ \A i \in 1 .. Len(keys') : keys'[i] \in FileKeys
  BY <1>2, <1>3, KeyJoins DEF Load
<1>5. TypeInv'
  BY <1>1, <1>4 DEF KeysInv, TypeInv, KeysTyped, Load
<1>6. InFile'
  BY <1>4 DEF KeysInv, InFile, Load
<1>7. Counted' /\ LastIsLast'
  BY <1>1, <1>4 DEF KeysInv, Counted, LastIsLast, Load
<1> QED
  BY <1>4, <1>5, <1>6, <1>7 DEF KeysInv

LEMMA KeysStep == KeysInv /\ [KeysNext]_keyVars => KeysInv'
<1> SUFFICES ASSUME KeysInv, [KeysNext]_keyVars PROVE KeysInv'
  OBVIOUS
<1>1. CASE KeysNext
  BY <1>1, QuietStep, StartStep, AppendStep, EnterStep, LoadStep DEF KeysNext, Quiet
<1>2. CASE UNCHANGED keyVars
  BY <1>2 DEF keyVars, KeysInv, TypeInv, KeysTyped, Numbered, InFile, FileKeys, Counted, LastIsLast
<1> QED
  BY <1>1, <1>2

-----------------------------------------------------------------------------
\* A start deciphers every record with the number it was enciphered with.
LEMMA RestoredKeys ==
  ASSUME KeysInv, ~lost, NEW i \in 1 .. Len(file)
  PROVE  Restored[i] = file[i].key
BY DEF KeysInv, Numbered, Restored, Decrypt

\* The state of the key file and of the process stays in its type.
THEOREM KeysTypeCorrect == KeysSpec => []KeysTyped
<1>1. KeysInv => KeysTyped
  BY DEF KeysInv, TypeInv
<1> QED
  BY <1>1, KeysStart, KeysStep, PTL DEF KeysSpec

\* No key the wallet has worked with is lost, short of the three things named.
THEOREM NoKeyIsLost == KeysSpec => []KeysKept
<1>1. KeysInv => KeysKept
  BY RestoredKeys DEF KeysInv, KeysKept, InFile, FileKeys
<1> QED
  BY <1>1, KeysStart, KeysStep, PTL DEF KeysSpec

\* The default key is the one the next start takes.
THEOREM DefaultIsKept == KeysSpec => []DefaultStays
<1>1. KeysInv => DefaultStays
  <2> SUFFICES ASSUME KeysInv, ~lost, "gap" \notin odd, step = "ready", keys # <<>>
               PROVE  file # <<>> /\ Restored[Len(file)] = keys[Len(keys)]
    BY DEF DefaultStays
  <2>1. file # <<>> /\ file[Len(file)].key = keys[Len(keys)]
    BY DEF KeysInv, LastIsLast
  <2>2. Len(file) \in 1 .. Len(file)
    BY <2>1 DEF KeysInv, TypeInv, KeysTyped
  <2> QED
    BY <2>1, <2>2, RestoredKeys
<1> QED
  BY <1>1, KeysStart, KeysStep, PTL DEF KeysSpec
=============================================================================
