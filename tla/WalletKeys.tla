----------------------------- MODULE WalletKeys -----------------------------
(***************************************************************************)
(* The wallet's private keys (client/wallet.c).  wallet.dat is a sequence of  *)
(* records, one key each, enciphered with the number of keys the process held  *)
(* when it appended the record; a start deciphers record n with the number n.  *)
(* The two must agree for every key the wallet has used, through failing calls *)
(* and processes killed at any point.                                        *)
(*                                                                         *)
(* One thread at a time runs these operations (the service's handler, which    *)
(* runs xdag_main again after the connection is lost).  A record is 32 bytes   *)
(* and never straddles a block of the file system: it is written or it is not. *)
(* (No name of this module is one of UiPrompts, whose handler thread it is.)     *)
(***************************************************************************)
EXTENDS Naturals, Sequences

CONSTANTS
  Key,          (* private keys                                              *)
  Garbage,      (* what a record deciphered with another number gives        *)
  MaxRecords    (* bound: records of the file, half the keys of the process  *)

ASSUME KeysAssumption == Garbage \notin Key /\ MaxRecords \in Nat

VARIABLES
  exists,    (* is there a file wallet.dat?                                  *)
  file,      (* its records                                                  *)
  step,
  caller,    (* who called add_key: init or new                              *)
  newKey,    (* the key add_key works on                                     *)
  good,      (* did xdag_create_key return it?                               *)
  keys,      (* keys_arr, nkeys entries                                      *)
  at, number,  (* init: records read, the number of the next                 *)
  drawn,     (* keys generated so far                                        *)
  used,      (* history: default keys the wallet has worked with             *)
  odd,       (* history: why nkeys may not be the number of records: the file
                was loaded twice, or a record was not entered (gap)          *)
  lost       (* history: one of the three things happened that cost a key    *)

keyVars == <<exists, file, step, caller, newKey, good, keys, at, number, drawn, used, odd, lost>>

Record == [key : Key, sector : Nat]

KeysTyped ==
  /\ exists \in BOOLEAN /\ file \in Seq(Record) /\ (~exists => file = <<>>)
  /\ step \in {"off", "idle", "create", "append", "enter", "reopen", "load", "ready"}
  /\ caller \in {"init", "new"} /\ newKey \in Key \cup {Garbage} /\ good \in BOOLEAN
  /\ keys \in Seq(Key \cup {Garbage})
  /\ at \in Nat /\ number \in Nat /\ (step = "load" => at <= Len(file))
  /\ drawn \subseteq Key /\ used \subseteq Key \cup {Garbage}
  /\ odd \subseteq {"twice", "gap"} /\ lost \in BOOLEAN

KeysInit ==
  /\ exists = FALSE /\ file = <<>> /\ step = "off" /\ caller = "init" /\ newKey = Garbage /\ good = FALSE
  /\ keys = <<>> /\ at = 0 /\ number = 0 /\ drawn = {} /\ used = {}
  /\ odd = {} /\ lost = FALSE

Start ==
  /\ step = "off" /\ step' = "idle"
  /\ keys' = <<>> /\ odd' = {}
  /\ UNCHANGED <<exists, file, caller, newKey, good, at, number, drawn, used, lost>>

Kill ==
  /\ step # "off" /\ step' = "off"
  /\ UNCHANGED <<exists, file, caller, newKey, good, keys, at, number, drawn, used, odd, lost>>

\* The call returns -1; the wallet may be initialised again, or keys be added.
Fail == step' = IF caller = "init" THEN "idle" ELSE "ready"

-----------------------------------------------------------------------------
(* xdag_wallet_init, xdag_wallet_new_key *)

\* Keys of an earlier call are not forgotten.
Again == odd' = IF keys = <<>> THEN odd ELSE odd \cup {"twice"}

\* Mutant of InitOpens: the first record is always skipped.
InitOpensSkip ==
  /\ step \in {"idle", "ready"} /\ exists
  /\ step' = "load" /\ caller' = "init" /\ at' = 1 /\ number' = 1
  /\ Again
  /\ UNCHANGED <<exists, file, newKey, good, keys, drawn, used, lost>>

\* The file opens.
InitOpens ==
  /\ step \in {"idle", "ready"} /\ exists
  /\ step' = "load" /\ caller' = "init" /\ at' = 0 /\ number' = 0
  /\ Again
  /\ UNCHANGED <<exists, file, newKey, good, keys, drawn, used, lost>>

\* It does not: there is none, or the system refused (the first thing that
\* costs a key: the wallet is taken for a new one).
InitMisses ==
  /\ step \in {"idle", "ready"}
  /\ step' = "create" /\ caller' = "init"
  /\ Again /\ lost' = (lost \/ exists)
  /\ UNCHANGED <<exists, file, newKey, good, keys, at, number, drawn, used>>

\* (The second: a key is appended whose number is not its record's.)
NewKey ==
  /\ step = "ready"
  /\ step' = "create" /\ caller' = "new" /\ lost' = (lost \/ odd # {})
  /\ UNCHANGED <<exists, file, newKey, good, keys, at, number, drawn, used, odd>>

-----------------------------------------------------------------------------
(* add_key without a key to add *)

\* Mutant of Create: the file is opened for writing.
CreateTruncates ==
  /\ step = "create"
  /\ \E k \in Key \ drawn, ok \in BOOLEAN :
       /\ newKey' = k /\ good' = ok /\ drawn' = drawn \cup {k}
       /\ odd' = IF ok THEN odd ELSE odd \cup {"gap"}
  /\ exists' = TRUE /\ file' = <<>> /\ step' = "append"
  /\ UNCHANGED <<caller, keys, at, number, used, lost>>

\* The key is generated, and the file opened for appending, which creates it.
\* A key whose number is short is not returned, but is written like another.
Create ==
  /\ step = "create"
  /\ \E k \in Key \ drawn, ok \in BOOLEAN :
       /\ newKey' = k /\ good' = ok /\ drawn' = drawn \cup {k}
       /\ odd' = IF ok THEN odd ELSE odd \cup {"gap"}
  /\ exists' = TRUE /\ step' = "append"
  /\ UNCHANGED <<file, caller, keys, at, number, used, lost>>

\* No memory, or the file does not open.
CreateFails ==
  /\ step = "create" /\ Fail
  /\ UNCHANGED <<exists, file, caller, newKey, good, keys, at, number, drawn, used, odd, lost>>

\* Mutant of Written: the key is entered before its number is taken.
WrittenLate(k) == [key |-> k, sector |-> Len(keys) + 1]
Written(k)     == [key |-> k, sector |-> Len(keys)]

AppendRecord ==
  /\ step = "append" /\ Len(file) < MaxRecords
  /\ file' = Append(file, Written(newKey)) /\ step' = "enter"
  /\ UNCHANGED <<exists, caller, newKey, good, keys, at, number, drawn, used, odd, lost>>

\* The disk is full: fwrite says so, or (the third) fclose does and nobody asks.
AppendFails ==
  /\ step = "append"
  /\ \/ Fail /\ UNCHANGED lost
     \/ step' = "enter" /\ lost' = TRUE
  /\ UNCHANGED <<exists, file, caller, newKey, good, keys, at, number, drawn, used, odd>>

\* A record whose key was not returned stays in the file.
Refuse ==
  /\ step = "enter" /\ ~good /\ Fail
  /\ UNCHANGED <<exists, file, caller, newKey, good, keys, at, number, drawn, used, odd, lost>>

Enter ==
  /\ step = "enter" /\ good
  /\ keys' = Append(keys, newKey)
  /\ IF caller = "init" THEN step' = "reopen" /\ UNCHANGED used
                        ELSE step' = "ready" /\ used' = used \cup {newKey}
  /\ UNCHANGED <<exists, file, caller, newKey, good, at, number, drawn, odd, lost>>

\* The array cannot grow.
EnterFails ==
  /\ step = "enter" /\ good /\ Fail
  /\ odd' = odd \cup {"gap"}
  /\ UNCHANGED <<exists, file, caller, newKey, good, keys, at, number, drawn, used, lost>>

-----------------------------------------------------------------------------
(* The rest of xdag_wallet_init *)

Reopen ==
  /\ step = "reopen"
  /\ step' = "load" /\ at' = (IF file = <<>> THEN 0 ELSE 1) /\ number' = 1
  /\ UNCHANGED <<exists, file, caller, newKey, good, keys, drawn, used, odd, lost>>

ReopenFails ==
  /\ step = "reopen" /\ step' = "idle"
  /\ UNCHANGED <<exists, file, caller, newKey, good, keys, at, number, drawn, used, odd, lost>>

Decrypt(r, i) == IF r.sector = i THEN r.key ELSE Garbage

Load ==
  /\ step = "load" /\ at < Len(file) /\ Len(keys) < 2 * MaxRecords
  /\ keys' = Append(keys, Decrypt(file[at + 1], number))
  /\ at' = at + 1 /\ number' = number + 1
  /\ UNCHANGED <<exists, file, step, caller, newKey, good, drawn, used, odd, lost>>

\* The key is not entered, and nobody asks.
LoadFails ==
  /\ step = "load" /\ at < Len(file)
  /\ at' = at + 1 /\ number' = number + 1 /\ odd' = odd \cup {"gap"}
  /\ UNCHANGED <<exists, file, step, caller, newKey, good, keys, drawn, used, lost>>

\* The last key is the default key from here on.
Loaded ==
  /\ step = "load" /\ at = Len(file)
  /\ step' = "ready"
  /\ used' = IF keys = <<>> THEN used ELSE used \cup {keys[Len(keys)]}
  /\ UNCHANGED <<exists, file, caller, newKey, good, keys, at, number, drawn, odd, lost>>

-----------------------------------------------------------------------------
\* (Bound: the model ends when a key may have been lost.)
KeysNext ==
  /\ ~lost
  /\ \/ Start \/ Kill \/ InitOpens \/ InitMisses \/ NewKey
     \/ Create \/ CreateFails \/ AppendRecord \/ AppendFails
     \/ Refuse \/ Enter \/ EnterFails
     \/ Reopen \/ ReopenFails \/ Load \/ LoadFails \/ Loaded

KeysSpec == KeysInit /\ [][KeysNext]_keyVars

-----------------------------------------------------------------------------
(* Properties *)

\* What a start of the wallet makes of the file.
Restored == [i \in 1 .. Len(file) |-> Decrypt(file[i], i - 1)]

\* No key the wallet has worked with is lost: the next start finds it in the
\* file, wherever the process is killed and whichever other call fails, as long
\* as none of the three things marked above happens.
KeysKept == ~lost => \A k \in used : \E i \in 1 .. Len(file) : Restored[i] = k

\* Nor is the default key replaced by another: the key new blocks are signed
\* with is the one the next start will take.
DefaultStays ==
  (~lost /\ "gap" \notin odd /\ step = "ready" /\ keys # <<>>) =>
    file # <<>> /\ Restored[Len(file)] = keys[Len(keys)]
=============================================================================
