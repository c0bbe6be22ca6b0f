----------------------------- MODULE StorageSums -----------------------------
(***************************************************************************)
(* The local storage of blocks (storage.c).  A block is appended to the     *)
(* file of its time; the files hang in a tree of directories, and every     *)
(* directory has a file sums.dat with one entry per child: the size and the *)
(* sum of all blocks below that child.  Saving a block adds it to one entry *)
(* per level, from the file's own entry up to the root.  Loading compares   *)
(* the blocks read with the file's own entry and corrects it.               *)
(*                                                                         *)
(* An entry is named by the path of its child, and counts blocks; a sums    *)
(* file by the path of its directory.  One thread saves at a time           *)
(* (xdag_storage_save is called with block_mutex held), one loads.  The     *)
(* process may be killed at any point; a completed write survives that.     *)
(***************************************************************************)
EXTENDS Naturals, Sequences, FiniteSets

CONSTANTS
  Blocks,      (* blocks that may be saved                                   *)
  FileOf,      (* the path of each block's file, one step per level          *)
  Depth,       (* levels of the tree: 4 in the code                          *)
  None,        (* no block, no file                                          *)
  MaxTrouble,  (* bound: kills, failures and blocks missed together          *)
  Serving,     (* are blocks also loaded while the wallet runs, for a peer?  *)
  Faults       (* may opening, reading and writing a file fail?              *)

Dir(file, k) == SubSeq(file, 1, k)
Files   == {FileOf[b] : b \in Blocks}
Entries == {Dir(FileOf[b], k) : b \in Blocks, k \in 1 .. Depth}
Dirs    == {Dir(FileOf[b], k) : b \in Blocks, k \in 0 .. Depth - 1}

\* The directory whose sums file has the entry e.
DirOf(e) == Dir(e, Len(e) - 1)

ASSUME StorageAssumption ==
  /\ IsFiniteSet(Blocks)
  /\ Depth \in Nat \ {0}
  /\ \A b \in Blocks : FileOf[b] \in Seq(Nat) /\ Len(FileOf[b]) = Depth
  /\ None \notin Files /\ None \notin Blocks
  /\ MaxTrouble \in Nat
  /\ Serving \in BOOLEAN /\ Faults \in BOOLEAN

VARIABLES
  stored,    (* blocks in their files                                        *)
  made,      (* files of blocks that exist                                   *)
  ghosts,    (* files whose entry counts a block they have not               *)
  table,     (* the sums files (States below)                                *)
  sums,      (* their entries; 0 in a sums file that is not there            *)
  phase,     (* boot: the start-up load is not over                          *)
  step,      (* what the holder of storage_mutex does next; free: nobody     *)
  level,     (* the level whose entry it comes to, Depth while nobody does    *)
  saving,    (* the block xdag_storage_save works on                         *)
  todo,      (* files the load has not come to                               *)
  loading,   (* the file whose blocks were read                              *)
  loadSum,   (* what the blocks read sum up to                               *)
  kills,     (* kills while the mutex was held                               *)
  faults,    (* failures of opening, reading or writing a file               *)
  missed,    (* blocks a correction left out of the entry of a file          *)
  hurt       (* history: something failed since the process was started      *)

files  == <<stored, made, ghosts, table, sums>>
loader == <<todo, loading, loadSum>>
events == <<kills, faults, missed, hurt>>
vars   == <<files, phase, step, level, saving, loader, events>>

\* A sums file is created or truncated (empty, cut) before it is written (whole,
\* wiped: the entries it had were lost).
States == {"absent", "empty", "whole", "cut", "wiped"}
Unreadable == {"empty", "cut"}

InFile(f) == {b \in stored : FileOf[b] = f}
Below(e)  == {b \in stored : Dir(FileOf[b], Len(e)) = e}

Held    == step # "free"
Trouble == kills + faults + missed

TypeOK ==
  /\ stored \subseteq Blocks /\ made \subseteq Files /\ ghosts \subseteq Files
  /\ table \in [Dirs -> States] /\ sums \in [Entries -> Nat]
  /\ phase \in {"boot", "run"}
  /\ step \in {"free", "append", "open", "write"} /\ level \in 1 .. Depth
  /\ saving \in Blocks \cup {None}
  /\ todo \subseteq Files /\ loading \in Files \cup {None} /\ loadSum \in Nat
  /\ kills \in Nat /\ faults \in Nat /\ missed \in Nat /\ hurt \in BOOLEAN

Init ==
  /\ stored = {} /\ made = {} /\ ghosts = {}
  /\ table = [d \in Dirs |-> "absent"] /\ sums = [e \in Entries |-> 0]
  /\ phase = "boot" /\ step = "free" /\ level = Depth /\ saving = None
  /\ todo = Files /\ loading = None /\ loadSum = 0
  /\ kills = 0 /\ faults = 0 /\ missed = 0 /\ hurt = FALSE

Fault ==
  /\ Faults
  /\ faults' = faults + 1 /\ hurt' = TRUE
  /\ UNCHANGED <<kills, missed>>

-----------------------------------------------------------------------------
(* xdag_storage_save: append, then add 1 at every level from the file up. *)

\* The file is opened, and created if need be.
Save(b) ==
  /\ phase = "run" /\ ~Held
  /\ b \notin stored
  /\ made' = made \cup {FileOf[b]}
  /\ saving' = b /\ step' = "append"
  /\ UNCHANGED <<stored, ghosts, table, sums, phase, level, loader, events>>

\* What fwrite returns is not asked: without the block, its sum is added all the same.
SaveAppend ==
  /\ step = "append"
  /\ step' = "open"
  /\ \/ stored' = stored \cup {saving} /\ UNCHANGED <<ghosts, events>>
     \/ ghosts' = ghosts \cup {FileOf[saving]} /\ Fault /\ UNCHANGED stored
  /\ UNCHANGED <<made, table, sums, phase, level, saving, loader>>

-----------------------------------------------------------------------------
(* correct_storage_sums, for whoever holds storage_mutex: correct_storage_sum   *)
(* once for each level.                                                      *)

JobFile == IF saving # None THEN FileOf[saving] ELSE loading
JobSum  == IF saving # None THEN 1 ELSE loadSum
JobDir  == Dir(JobFile, level - 1)

\* The argument add: only the entry of a file that was loaded is compared.
Adding == saving # None \/ level < Depth

Finish ==
  /\ step' = "free" /\ level' = Depth /\ saving' = None
  /\ IF saving # None THEN UNCHANGED loader
     ELSE todo' = todo \ {loading} /\ loading' = None /\ loadSum' = 0

\* -1 is returned: the save fails, the load breaks off where it is.
Stop ==
  /\ step' = "free" /\ level' = Depth /\ saving' = None
  /\ IF saving # None THEN UNCHANGED <<phase, loader>>
     ELSE phase' = "run" /\ todo' = {} /\ loading' = None /\ loadSum' = 0

OpenSums ==
  /\ step = "open" /\ table[JobDir] \in {"whole", "wiped"}
  /\ step' = "write"
  /\ UNCHANGED <<files, phase, level, saving, loader, events>>

CreateSums ==
  /\ step = "open" /\ table[JobDir] = "absent"
  /\ table' = [table EXCEPT ![JobDir] = "empty"]
  /\ step' = "write"
  /\ UNCHANGED <<stored, made, ghosts, sums, phase, level, saving, loader, events>>

\* A file that has not 256 entries is corrupted for good.
RejectSums ==
  /\ step = "open" /\ table[JobDir] \in Unreadable
  /\ Stop
  /\ UNCHANGED <<files, events>>

\* The file cannot be opened to be read, so it is created anew.
TruncateSums ==
  /\ step = "open" /\ table[JobDir] # "absent"
  /\ Fault
  /\ table' = [table EXCEPT ![JobDir] = "cut"]
  /\ sums' = [e \in Entries |-> IF DirOf(e) = JobDir THEN 0 ELSE sums[e]]
  /\ step' = "write"
  /\ UNCHANGED <<stored, made, ghosts, phase, level, saving, loader>>

\* It cannot be created or read.
OpenFails ==
  /\ step = "open"
  /\ Fault
  /\ Stop
  /\ UNCHANGED files

\* An entry is written to be added to, or if it differs.  The sums of the blocks
\* differ if their numbers do; with as many blocks they do if the load counted other
\* blocks than the saves (a part of the file) or an append had failed.
Needed ==
  ~Adding =>
    sums[loading] # loadSum \/ loadSum < Cardinality(InFile(loading)) \/ loading \in ghosts

Agree ==
  /\ step = "write" /\ ~Adding
  /\ sums[loading] = loadSum
  /\ Finish
  /\ UNCHANGED <<files, phase, events>>

\* Mutant of Written: the wrong entry is not zeroed before the sum is added.
WrittenOnTop == [sums EXCEPT ![Dir(JobFile, level)] = @ + JobSum]

\* Mutant of Written: a load compares, and replaces, at every level.
WrittenOver ==
  [sums EXCEPT ![Dir(JobFile, level)] = (IF saving # None THEN @ ELSE 0) + JobSum]

\* A wrong entry of the file is replaced; the levels above get the whole sum added.
Written == [sums EXCEPT ![Dir(JobFile, level)] = (IF Adding THEN @ ELSE 0) + JobSum]

\* Mutants of Up: the sums file of the root is left out; the level is not left.
UpBelowRoot ==
  IF level <= 2 THEN Finish
  ELSE step' = "open" /\ level' = level - 1 /\ UNCHANGED <<saving, loader>>
UpPastRoot ==
  IF level = 0 THEN Finish
  ELSE step' = "open" /\ level' = level - 1 /\ UNCHANGED <<saving, loader>>

\* The next level, to the root.
Up ==
  IF level = 1 THEN Finish
  ELSE step' = "open" /\ level' = level - 1 /\ UNCHANGED <<saving, loader>>

Write ==
  /\ step = "write" /\ Needed
  /\ sums' = Written
  /\ table' = [table EXCEPT ![JobDir] = IF @ \in {"cut", "wiped"} THEN "wiped" ELSE "whole"]
  /\ ghosts' = IF Adding THEN ghosts ELSE ghosts \ {loading}
  /\ missed' = IF Adding THEN missed ELSE missed + (Cardinality(InFile(loading)) - loadSum)
  /\ Up
  /\ UNCHANGED <<stored, made, phase, kills, faults, hurt>>

\* Nothing is written: fwrite says so, or fclose does and is not asked.
WriteFails ==
  /\ step = "write" /\ Needed
  /\ Fault
  /\ \/ Stop
     \/ Up /\ UNCHANGED phase
  /\ UNCHANGED files

-----------------------------------------------------------------------------
(* xdag_load_blocks *)

\* The blocks are read under storage_mutex, which is released before they are used.
\* Blocks outside the interval a peer asks for are not counted.
LoadRead(f) ==
  /\ loading = None /\ f \in todo /\ f \in made /\ ~Held
  /\ loading' = f
  /\ \E n \in 0 .. Cardinality(InFile(f)) :
       /\ loadSum' = n
       /\ \/ n = Cardinality(InFile(f)) /\ UNCHANGED events
          \/ phase = "run" /\ UNCHANGED events
          \/ Fault
  /\ UNCHANGED <<files, phase, step, level, saving, todo>>

\* A file that does not exist, or cannot be opened, is skipped.
LoadSkip(f) ==
  /\ loading = None /\ f \in todo /\ ~Held
  /\ \/ f \notin made /\ UNCHANGED events
     \/ Fault
  /\ todo' = todo \ {f}
  /\ UNCHANGED <<files, phase, step, level, saving, loading, loadSum>>

LoadCorrect ==
  /\ loading # None /\ ~Held
  /\ step' = "open"
  /\ UNCHANGED <<files, phase, level, saving, loader, events>>

LoadDone ==
  /\ phase = "boot" /\ todo = {}
  /\ phase' = "run"
  /\ UNCHANGED <<files, step, level, saving, loader, events>>

\* send_thread of transport.c loads the blocks of an interval for a peer.
Serve ==
  /\ Serving
  /\ phase = "run" /\ todo = {}
  /\ todo' \in (SUBSET Files) \ {{}}
  /\ UNCHANGED <<files, phase, step, level, saving, loading, loadSum, events>>

-----------------------------------------------------------------------------
\* The process is killed, or ends, and is started again.
Kill ==
  /\ kills' = IF Held THEN kills + 1 ELSE kills
  /\ hurt' = FALSE
  /\ phase' = "boot" /\ todo' = Files
  /\ saving' = None /\ step' = "free" /\ level' = Depth
  /\ loading' = None /\ loadSum' = 0
  /\ UNCHANGED <<files, faults, missed>>

Next ==
  /\ \/ \E b \in Blocks : Save(b)
     \/ SaveAppend
     \/ OpenSums \/ CreateSums \/ RejectSums \/ TruncateSums \/ OpenFails
     \/ Agree \/ Write \/ WriteFails
     \/ \E f \in Files : LoadRead(f) \/ LoadSkip(f)
     \/ LoadCorrect \/ LoadDone \/ Serve \/ Kill
  /\ Trouble' <= MaxTrouble

Spec == Init /\ [][Next]_vars

-----------------------------------------------------------------------------
\* Whenever nobody changes the sums, every entry of every sums file is the sum of
\* the blocks below it: what xdag_load_sums hands out for an interval is what
\* the interval holds.
SumsExact == ~Held => \A e \in Entries : sums[e] = Cardinality(Below(e))

\* That holds whatever is saved and loaded in whatever order, over any number of
\* starts that judge what the starts before have stored, until the process is
\* killed inside a save or a correction, a file fails, or a correction leaves out
\* blocks: those saved since they were counted, or outside the interval asked for.
ExactUndisturbed == Trouble = 0 => SumsExact

\* A start-up load that comes to its end (and is not stopped at a sums file it
\* cannot read), and that meets no failure itself, leaves the entry of every file in
\* agreement with the file, wherever the process was killed, and whatever failed
\* or was left out, before.
LeavesRepaired ==
  [][phase = "boot" /\ phase' = "run" /\ todo = {} /\ ~hurt =>
       \A f \in Files : sums[f] = Cardinality(InFile(f))]_vars

\* The sums files an entry depends on: its own, and those below it.
Supports(e) == {d \in Dirs : d = DirOf(e) \/ (Len(d) >= Len(e) /\ Dir(d, Len(e)) = e)}

\* None of them was left unreadable, or emptied.
Sound(e) == \A d \in Supports(e) : table[d] \in {"absent", "whole"}

\* A sound entry never falls further below what it should be than by one block for each
\* kill, failure or block left out: all else that kills, races and repairs in any
\* order do to it is to count blocks twice.
LossBounded ==
  ~Held => \A e \in Entries :
    Sound(e) => sums[e] + Trouble >= Cardinality(Below(e))
=============================================================================
