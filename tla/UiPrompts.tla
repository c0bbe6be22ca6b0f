------------------------------ MODULE UiPrompts ------------------------------
(***************************************************************************)
(* How native threads ask the user for passwords.  A native thread that     *)
(* needs an answer calls XdagWalletProcessCallback (libxdag_jni.cpp): it     *)
(* locks gWaitUiMutex, posts an event to the UI thread and waits on          *)
(* gWaitUiCond, without a predicate, for whatever is in gAuthInfoMap when    *)
(* it wakes.  The screen in front answers the event, or opens a dialog, or   *)
(* ignores it; an answer goes into the one slot of gAuthInfoMap and signals  *)
(* the condition once.                                                      *)
(*                                                                         *)
(* Two kinds of threads ask: the service's handler thread inside xdag_main   *)
(* (opening the key file, or making one), and one thread per confirmed       *)
(* transfer.  gWaitUiMutex is held from before the event is posted until     *)
(* the wait begins, so asking is one step.  A screen behind the front one    *)
(* is stopped and opens no dialog; a dialog cannot be cancelled.             *)
(***************************************************************************)
EXTENDS Naturals, Sequences

CONSTANTS
  Xfers,        (* threads started by SendCoinActivity                       *)
  Conn,         (* the handler thread of XdagService                         *)
  Nobody,       (* no answer, no asker                                       *)
  MaxConnects,  (* bound: connect messages sent to the handler thread        *)
  MaxFaults,    (* bound: failures of opening, reading or writing the key    *)
  Spurious,     (* may a wait end without a signal?                          *)
  UserLeaves    (* may the user leave the screen while a thread asks?        *)

Threads == Xfers \cup {Conn}
Kinds   == {"type_pwd", "set_pwd", "retype_pwd", "set_rdm"}
Screens == {"main", "create", "load", "send"}
Asks    == Threads \X Kinds

ASSUME PromptAssumption ==
  /\ Conn \notin Xfers /\ Nobody \notin Asks
  /\ MaxConnects \in Nat /\ MaxFaults \in Nat
  /\ Spurious \in BOOLEAN /\ UserLeaves \in BOOLEAN

VARIABLES
  pc,         (* idle, ask, wait, woken, or how the thread's call ended      *)
  prompt,     (* what each thread asks for                                   *)
  events,     (* events posted to the UI thread                              *)
  dialogs,    (* questions with a dialog on the screen                       *)
  slot,       (* gAuthInfoMap: the question it holds an answer to, or Nobody *)
  right,      (* is the answer in the slot the right password?               *)
  screen,     (* the activity in front                                       *)
  connected,  (* isConnected of XdagService                                  *)
  started,    (* xdag_main has come to its end once                          *)
  connects,   (* connect messages waiting in the handler thread's queue      *)
  asked,      (* connect messages sent so far                                *)
  key,        (* dnet_key.dat: none, short (unusable) or good                *)
  faults,     (* failures of opening, reading or writing it                  *)
  mixed       (* history: two threads waited at once, or one woke by itself  *)

native  == <<pc, prompt>>
ui      == <<events, dialogs, screen>>
answer  == <<slot, right>>
serv    == <<connected, started, connects, asked>>
keyfile == <<key, faults>>
vars    == <<native, ui, answer, serv, keyfile, mixed>>

TypeOK ==
  /\ pc \in [Threads -> {"idle", "ask", "wait", "woken", "accepted", "refused"}]
  /\ pc[Conn] \notin {"accepted", "refused"}
  /\ prompt \in [Threads -> Kinds]
  /\ events \in Seq(Asks) /\ dialogs \subseteq Asks
  /\ slot \in Asks \cup {Nobody} /\ right \in BOOLEAN
  /\ screen \in Screens
  /\ connected \in BOOLEAN /\ started \in BOOLEAN
  /\ asked \in 0 .. MaxConnects /\ connects \in 0 .. asked
  /\ key \in {"none", "short", "good"} /\ mixed \in BOOLEAN
  /\ faults \in 0 .. MaxFaults

Init ==
  /\ pc = [t \in Threads |-> "idle"] /\ prompt = [t \in Threads |-> "type_pwd"]
  /\ events = <<>> /\ dialogs = {} /\ slot = Nobody /\ right = FALSE
  /\ screen = "main"
  /\ connected = FALSE /\ started = FALSE /\ connects = 0 /\ asked = 0
  /\ key \in {"none", "good"} /\ faults = 0 /\ mixed = FALSE

-----------------------------------------------------------------------------
(* The native side *)

\* en_event_type_pwd and its like: lock, post, wait.
Ask(t) ==
  /\ pc[t] = "ask"
  /\ pc' = [pc EXCEPT ![t] = "wait"]
  /\ events' = Append(events, <<t, prompt[t]>>)
  /\ mixed' = (mixed \/ \E u \in Threads : pc[u] \in {"wait", "woken"})
  /\ UNCHANGED <<prompt, dialogs, screen, answer, serv, keyfile>>

WakeAlone(t) ==
  /\ Spurious
  /\ pc[t] = "wait"
  /\ pc' = [pc EXCEPT ![t] = "woken"]
  /\ mixed' = TRUE
  /\ UNCHANGED <<prompt, ui, answer, serv, keyfile>>

\* What t does with the answer it found: next is its new pc, kind its next question.
Return(t, next, kind) ==
  /\ pc[t] = "woken"
  /\ pc' = [pc EXCEPT ![t] = next]
  /\ prompt' = [prompt EXCEPT ![t] = kind]

\* Mutant of TakeSlot: the answer stays in the map.
KeepSlot == slot' = slot /\ right' = right

TakeSlot == slot' = Nobody /\ right' = FALSE

\* No answer in the map, or a wrong password: the caller gives up.
XferRefused(x) ==
  /\ Return(x, "refused", prompt[x])
  /\ slot = Nobody \/ ~right
  /\ TakeSlot
  /\ UNCHANGED <<ui, serv, keyfile, mixed>>

XferAccepted(x) ==
  /\ slot # Nobody /\ right
  /\ Return(x, "accepted", prompt[x])
  /\ TakeSlot
  /\ UNCHANGED <<ui, serv, keyfile, mixed>>

FileFault == faults < MaxFaults /\ faults' = faults + 1

\* The key file is read.
KeyRead ==
  /\ key = "good"
  /\ pc' = [pc EXCEPT ![Conn] = "ask"]
  /\ prompt' = [prompt EXCEPT ![Conn] = "type_pwd"]
  /\ UNCHANGED keyfile

\* Mutant of KeyMade: it is opened for writing before it was read.
KeyMadeUnread ==
  /\ pc' = [pc EXCEPT ![Conn] = "ask"]
  /\ prompt' = [prompt EXCEPT ![Conn] = "set_pwd"]
  /\ key' = "short" /\ UNCHANGED faults

\* If it is not there, or if opening or reading it fails, it is opened for writing,
\* and what it held is gone.
KeyMade ==
  /\ IF key = "good" THEN FileFault ELSE UNCHANGED faults
  /\ pc' = [pc EXCEPT ![Conn] = "ask"]
  /\ prompt' = [prompt EXCEPT ![Conn] = "set_pwd"]
  /\ key' = "short"

\* That fails as well: xdag_main returns.
KeyNotMade == FileFault /\ UNCHANGED <<pc, prompt, key>>

\* xdag_main.
ConnStart ==
  /\ pc[Conn] = "idle" /\ connects > 0
  /\ connects' = connects - 1
  /\ IF connected THEN UNCHANGED <<pc, prompt, keyfile>>
     ELSE KeyRead \/ KeyMade \/ KeyNotMade
  /\ UNCHANGED <<ui, answer, connected, started, asked, mixed>>

\* Mutant of ConnRefused: the handler thread does not go back to its messages.
ConnRefusedForGood ==
  /\ Return(Conn, "refused", prompt[Conn])
  /\ slot = Nobody \/ (~right /\ prompt[Conn] \in {"type_pwd", "retype_pwd"})
  /\ TakeSlot
  /\ UNCHANGED <<ui, serv, keyfile, mixed>>

\* Cancelled, a wrong password, or two passwords that differ.
ConnRefused ==
  /\ Return(Conn, "idle", prompt[Conn])
  /\ slot = Nobody \/ (~right /\ prompt[Conn] \in {"type_pwd", "retype_pwd"})
  /\ TakeSlot
  /\ UNCHANGED <<ui, serv, keyfile, mixed>>

ConnNext ==
  /\ slot # Nobody
  /\ \/ prompt[Conn] = "set_pwd" /\ Return(Conn, "ask", "retype_pwd")
     \/ right /\ prompt[Conn] = "retype_pwd" /\ Return(Conn, "ask", "set_rdm")
  /\ TakeSlot
  /\ UNCHANGED <<ui, serv, keyfile, mixed>>

\* The password was right, or the new key is written.
ConnDone ==
  /\ slot # Nobody
  /\ \/ right /\ prompt[Conn] = "type_pwd"
     \/ prompt[Conn] = "set_rdm"
  /\ Return(Conn, "idle", prompt[Conn])
  /\ key' = (IF prompt[Conn] = "set_rdm" THEN "good" ELSE key)
  /\ started' = TRUE
  /\ TakeSlot
  /\ UNCHANGED <<ui, connected, connects, asked, faults, mixed>>

\* It is not written, or not all of it.
ConnFails ==
  /\ slot # Nobody /\ prompt[Conn] = "set_rdm"
  /\ Return(Conn, "idle", prompt[Conn])
  /\ FileFault /\ key' \in {"short", key}
  /\ TakeSlot
  /\ UNCHANGED <<ui, serv, mixed>>

-----------------------------------------------------------------------------
(* The UI thread *)

\* XdagNotifyNativeMsg: insert keeps what the map already holds; the signal wakes
\* one waiting thread, if there is one.
Notify(ask, ok) ==
  /\ slot' = (IF slot = Nobody THEN ask ELSE slot)
  /\ right' = (IF slot = Nobody THEN ok ELSE right)
  /\ \/ /\ \E t \in Threads : pc[t] = "wait" /\ pc' = [pc EXCEPT ![t] = "woken"]
     \/ /\ \A t \in Threads : pc[t] # "wait"
        /\ pc' = pc

\* Mutant of AnswersItself: the new wallet's password is not typed a second time.
AnswersOnce(kind) ==
  \/ screen = "create" /\ kind # "retype_pwd"
  \/ screen = "load" /\ kind \in {"type_pwd", "retype_pwd"}

\* Which screen answers which event by itself, and which opens a dialog.
AnswersItself(kind) ==
  \/ screen = "create"
  \/ screen = "load" /\ kind \in {"type_pwd", "retype_pwd"}
OpensDialog(kind) ==
  /\ kind # "set_pwd"
  /\ \/ screen = "main" /\ ~connected
     \/ screen = "send"

\* What a screen answers by itself may be wrong, except that CreateWalletActivity has
\* compared the new password with the one typed again.
OwnWords(kind) ==
  IF screen = "create" /\ kind # "type_pwd" THEN {TRUE} ELSE BOOLEAN

\* ProcessXdagEvent passes the event on to the screens.
EventAnswered ==
  /\ events # <<>> /\ AnswersItself(Head(events)[2])
  /\ events' = Tail(events)
  /\ \E ok \in OwnWords(Head(events)[2]) : Notify(Head(events), ok)
  /\ UNCHANGED <<prompt, dialogs, screen, serv, keyfile, mixed>>

EventDialog ==
  /\ events # <<>> /\ OpensDialog(Head(events)[2])
  /\ events' = Tail(events)
  /\ dialogs' = dialogs \cup {Head(events)}
  /\ UNCHANGED <<native, screen, answer, serv, keyfile, mixed>>

EventIgnored ==
  /\ events # <<>>
  /\ ~AnswersItself(Head(events)[2]) /\ ~OpensDialog(Head(events)[2])
  /\ events' = Tail(events)
  /\ UNCHANGED <<native, dialogs, screen, answer, serv, keyfile, mixed>>

\* onAuthInputComplete.
DialogAnswered ==
  /\ \E d \in dialogs, ok \in BOOLEAN : Notify(d, ok) /\ dialogs' = dialogs \ {d}
  /\ UNCHANGED <<prompt, events, screen, serv, keyfile, mixed>>

\* The service hears of the program's state.
StateEvent ==
  /\ started /\ connected' \in BOOLEAN
  /\ UNCHANGED <<native, ui, answer, started, connects, asked, keyfile, mixed>>

-----------------------------------------------------------------------------
(* The user *)

Request == asked < MaxConnects /\ asked' = asked + 1 /\ connects' = connects + 1

Busy ==
  \/ events # <<>> \/ connects > 0
  \/ \E t \in Threads : pc[t] \in {"ask", "wait", "woken"}

\* Another screen comes to the front; XdagMainActivity asks for a connection if
\* there is none and the wallet's files are there.
GoTo(s) ==
  /\ s # screen /\ dialogs = {} /\ (UserLeaves \/ ~Busy)
  /\ screen' = s
  /\ IF s = "main" /\ ~connected /\ key # "none" THEN Request \/ UNCHANGED <<asked, connects>>
     ELSE UNCHANGED <<asked, connects>>
  /\ UNCHANGED <<native, events, dialogs, answer, connected, started, keyfile, mixed>>

\* onServiceConnectedToBinder of XdagMainActivity.
AppStarts ==
  /\ screen = "main" /\ asked = 0 /\ key # "none" /\ Request
  /\ UNCHANGED <<native, ui, answer, connected, started, keyfile, mixed>>

CreateWallet ==
  /\ screen = "create" /\ Request
  /\ UNCHANGED <<native, ui, answer, connected, started, keyfile, mixed>>

\* The files the user picked are copied over; they need not hold a key.
LoadWallet ==
  /\ screen = "load" /\ (UserLeaves \/ ~Busy) /\ Request
  /\ key' \in {"short", "good"}
  /\ UNCHANGED <<native, ui, answer, connected, started, faults, mixed>>

Transfer(x) ==
  /\ screen = "send" /\ started /\ dialogs = {} /\ pc[x] = "idle"
  /\ pc' = [pc EXCEPT ![x] = "ask"]
  /\ UNCHANGED <<prompt, ui, answer, serv, keyfile, mixed>>

-----------------------------------------------------------------------------
NativeStep(t) ==
  \/ Ask(t)
  \/ t \in Xfers /\ (XferRefused(t) \/ XferAccepted(t))
  \/ t = Conn /\ (ConnStart \/ ConnRefused \/ ConnNext \/ ConnDone \/ ConnFails)

UiStep == EventAnswered \/ EventDialog \/ EventIgnored

UserStep ==
  \/ \E s \in Screens : GoTo(s)
  \/ AppStarts \/ CreateWallet \/ LoadWallet
  \/ \E x \in Xfers : Transfer(x)

Next ==
  \/ \E t \in Threads : NativeStep(t) \/ WakeAlone(t)
  \/ UiStep \/ DialogAnswered \/ StateEvent \/ UserStep

Spec == Init /\ [][Next]_vars

(* Threads and the UI thread keep running; a user answers the dialog in front of *)
(* him, which he cannot dismiss.                                               *)
Fairness ==
  /\ \A t \in Threads : WF_vars(NativeStep(t))
  /\ WF_vars(UiStep)
  /\ WF_vars(DialogAnswered)

FairSpec == Spec /\ Fairness

-----------------------------------------------------------------------------
(* Properties *)

\* As long as never two threads waited at once and no wait ended by itself, a thread
\* that wakes finds the answer to its own latest question: no answer is missing, left
\* over from the question before, or meant for somebody else.
OwnAnswer ==
  ~mixed => \A t \in Threads : pc[t] = "woken" => slot = <<t, prompt[t]>>

\* A key file that holds a key stays good, whatever is answered, wrong or not at all,
\* and however often the program connects, unless the user loads other files over it
\* or opening, reading or writing the file fails in this very step.
KeySafe ==
  [][key = "good" /\ key' # "good" =>
       \/ screen = "load" /\ asked' > asked
       \/ faults' > faults]_vars

\* A user who stays on the screen he started from sees his dialogue end: the whole
\* sequence of questions on CreateWalletActivity, the password of a transfer on
\* SendCoinActivity.
DialogueEnds ==
  /\ pc[Conn] = "ask" /\ screen = "create" ~>
       pc[Conn] = "idle" \/ screen # "create" \/ mixed
  /\ \A x \in Xfers :
       pc[x] = "ask" /\ screen = "send" ~>
         pc[x] \in {"accepted", "refused"} \/ screen # "send" \/ mixed
=============================================================================
