-------------------------- MODULE StorageSumsProofs --------------------------
(* What StorageSums.tla promises of the sums files, for every set of blocks,   *)
(* every tree of files and every number of kills and failures.               *)
EXTENDS StorageSums, FiniteSetTheorems, SequenceTheorems, TLAPS

Correcting == step \in {"open", "write"}

\* What the save under way still has to add to an entry.
Owed(e) ==
  IF saving # None /\ Correcting /\ Len(e) <= level /\ Dir(FileOf[saving], Len(e)) = e
    THEN 1 ELSE 0

\* How the saver and the loader relate to the files.
Shape ==
  /\ saving # None => Held /\ phase = "run" /\ FileOf[saving] \in made
  /\ step = "append" => saving # None /\ saving \notin stored
  /\ Correcting => saving # None \/ loading # None
  /\ ~Correcting => level = Depth
  /\ loading # None => /\ loading \in todo /\ loading \in made
                       /\ loadSum <= Cardinality(InFile(loading))
  /\ \A f \in Files : f \notin made => InFile(f) = {} /\ sums[f] = 0
  /\ \A e \in Entries : table[DirOf(e)] \in {"absent", "empty", "cut"} => sums[e] = 0

TypeInv == TypeOK /\ Shape

\* A sums file that was just created is empty until its holder writes it.
Coming(d) == step = "write" /\ d = JobDir /\ table[d] = "empty"
Usable(d) == table[d] \in {"absent", "whole"} \/ Coming(d)
Intact(e) == \A d \in Supports(e) : Usable(d)

\* An intact entry has lost at most one block for each kill, failure or block missed.
FewLost ==
  \A e \in Entries : Intact(e) => sums[e] + Trouble + Owed(e) >= Cardinality(Below(e))

\* Without any of these each entry is what lies below it, but for the addition the
\* saver is about to make, and a load finds nothing to correct.
Untroubled ==
  Trouble = 0 =>
    /\ \A e \in Entries : sums[e] + Owed(e) = Cardinality(Below(e))
    /\ \A d \in Dirs : Usable(d)
    /\ \A f \in made : InFile(f) # {} \/ (step = "append" /\ FileOf[saving] = f)
    /\ ghosts = {}
    /\ saving = None => level = Depth

\* During a start-up load that met no failure, the files it is done with agree with
\* their entries.
Clean ==
  phase = "boot" /\ ~hurt =>
    /\ loading # None => loadSum = Cardinality(InFile(loading))
    /\ Correcting /\ level < Depth => sums[loading] = loadSum
    /\ \A f \in Files \ todo : sums[f] = Cardinality(InFile(f))

Inv == TypeInv /\ FewLost /\ Untroubled /\ Clean

-----------------------------------------------------------------------------
\* The tree: the entry of a file is the file's own path, and a path cut at a
\* level of the tree names an entry of that level, which stands in the directory
\* the path has one level above.
LEMMA Tree ==
  /\ \A f \in Files : f \in Seq(Nat) /\ Len(f) = Depth /\ Dir(f, Depth) = f /\ f \in Entries
  /\ \A f \in Files, k \in 1 .. Depth : Dir(f, k) \in Entries /\ Len(Dir(f, k)) = k
  /\ \A e \in Entries : Len(e) \in 1 .. Depth
  /\ \A b \in Blocks : FileOf[b] \in Files
  /\ \A f \in Files, k \in 0 .. Depth : \A j \in 0 .. k : Dir(Dir(f, k), j) = Dir(f, j)
  /\ \A f \in Files, k \in 1 .. Depth :
       /\ Dir(f, k - 1) \in Dirs /\ Len(Dir(f, k - 1)) = k - 1
       /\ DirOf(Dir(f, k)) = Dir(f, k - 1)
<1>1. \A b \in Blocks : FileOf[b] \in Files
  BY DEF Files
<1>2. \A f \in Files : f \in Seq(Nat) /\ Len(f) = Depth
  BY StorageAssumption DEF Files
<1>3. ASSUME NEW f \in Files, NEW k \in 1 .. Depth
      PROVE  Dir(f, k) \in Entries /\ Len(Dir(f, k)) = k
  <2>1. Dir(f, k) \in Entries
    BY DEF Files, Entries
  <2>2. Len(SubSeq(f, 1, k)) = k
    BY <1>2, StorageAssumption, SubSeqProperties
  <2>3. QED
    BY <2>1, <2>2 DEF Dir
<1>4. \A e \in Entries : Len(e) \in 1 .. Depth
  <2>1. ASSUME NEW e \in Entries PROVE Len(e) \in 1 .. Depth
    <3>1. PICK b \in Blocks, k \in 1 .. Depth : e = Dir(FileOf[b], k)
      BY DEF Entries
    <3>2. Len(e) = k
      BY <3>1, <1>1, <1>3
    <3>3. QED
      BY <3>2
  <2>2. QED
    BY <2>1
<1>5. ASSUME NEW f \in Files PROVE Dir(f, Depth) = f /\ f \in Entries
  <2>1. SubSeq(f, 1, Len(f)) = f
    BY <1>2, SubSeqProperties
  <2>2. Dir(f, Depth) = f
    BY <2>1, <1>2 DEF Dir
  <2>3. Depth \in 1 .. Depth
    BY StorageAssumption
  <2>4. QED
    BY <2>2, <2>3, <1>3
<1>6. \A f \in Files, k \in 0 .. Depth : \A j \in 0 .. k :
        /\ Len(Dir(f, k)) = k
        /\ Dir(Dir(f, k), j) = Dir(f, j)
  <2>1. ASSUME NEW f \in Files, NEW k \in 0 .. Depth, NEW j \in 0 .. k
        PROVE  Len(Dir(f, k)) = k /\ Dir(Dir(f, k), j) = Dir(f, j)
    <3>1. Len(SubSeq(f, 1, k)) = k /\ SubSeq(f, 1, k) \in Seq(Nat)
      BY <1>2, StorageAssumption, SubSeqProperties
    <3>2. \A i \in 1 .. k : SubSeq(f, 1, k)[i] = f[i]
      BY <1>2, StorageAssumption, SubSeqProperties
    <3>3. /\ SubSeq(f, 1, j) \in Seq(Nat) /\ Len(SubSeq(f, 1, j)) = j
          /\ \A i \in 1 .. j : SubSeq(f, 1, j)[i] = f[i]
      BY <1>2, StorageAssumption, SubSeqProperties
    <3>4. DEFINE p == SubSeq(f, 1, k)
    <3>5. /\ SubSeq(p, 1, j) \in Seq(Nat) /\ Len(SubSeq(p, 1, j)) = j
          /\ \A i \in 1 .. j : SubSeq(p, 1, j)[i] = p[i]
      <4> HIDE DEF p
      <4>1. p \in Seq(Nat) /\ Len(p) = k
        BY <3>1 DEF p
      <4>2. QED
        BY <4>1, SubSeqProperties, StorageAssumption
    <3>6. SubSeq(p, 1, j) = SubSeq(f, 1, j)
      <4> HIDE DEF p
      <4>1. \A i \in 1 .. j : p[i] = f[i]
        BY <3>2 DEF p
      <4>2. QED
        BY <3>3, <3>5, <4>1, SeqEqual
    <3>7. QED
      BY <3>1, <3>6 DEF Dir
  <2>2. QED
    BY <2>1
<1>7. ASSUME NEW f \in Files, NEW k \in 1 .. Depth
      PROVE  /\ Dir(f, k - 1) \in Dirs /\ Len(Dir(f, k - 1)) = k - 1
             /\ DirOf(Dir(f, k)) = Dir(f, k - 1)
  <2>1. k - 1 \in 0 .. Depth - 1 /\ k - 1 \in 0 .. k /\ k \in 0 .. Depth /\ k - 1 \in 0 .. Depth
    BY StorageAssumption
  <2>2. Dir(f, k - 1) \in Dirs
    BY <2>1 DEF Files, Dirs
  <2>3. QED
    BY <2>1, <2>2, <1>6 DEF DirOf
<1>8. QED
  BY <1>1, <1>2, <1>3, <1>4, <1>5, <1>6, <1>7

\* The sums file of each level that a path's entry is below, or stands in, supports it.
LEMMA PathSupports ==
  ASSUME NEW f \in Files, NEW e \in Entries, Dir(f, Len(e)) = e,
         NEW k \in 1 .. Depth, Len(e) <= k
  PROVE  Dir(f, k - 1) \in Supports(e)
<1>1. PICK n \in 1 .. Depth : n = Len(e)
  BY Tree
<1>2. Dir(f, k - 1) \in Dirs /\ Len(Dir(f, k - 1)) = k - 1
  BY Tree
<1>3. CASE k = n
  BY <1>1, <1>2, <1>3, Tree DEF Supports
<1>4. CASE k # n
  <2>1. n \in 0 .. k - 1 /\ k - 1 \in 0 .. Depth
    BY <1>1, <1>4, StorageAssumption
  <2>2. Dir(Dir(f, k - 1), n) = Dir(f, n)
    BY <2>1, Tree
  <2>3. QED
    BY <1>1, <1>2, <2>1, <2>2 DEF Supports
<1>5. QED
  BY <1>3, <1>4

\* Every sum of blocks is a number, and below a file's own entry are its blocks.
LEMMA Counts ==
  ASSUME stored \subseteq Blocks
  PROVE  /\ \A e : IsFiniteSet(Below(e)) /\ Cardinality(Below(e)) \in Nat
         /\ \A f : IsFiniteSet(InFile(f)) /\ Cardinality(InFile(f)) \in Nat
         /\ \A f \in Files : Below(f) = InFile(f)
<1>1. \A S \in SUBSET Blocks : IsFiniteSet(S) /\ Cardinality(S) \in Nat
  BY StorageAssumption, FS_Subset, FS_CardinalityType
<1>2. \A e : Below(e) \in SUBSET Blocks
  BY DEF Below
<1>3. \A f : InFile(f) \in SUBSET Blocks
  BY DEF InFile
<1>4. ASSUME NEW f \in Files PROVE Below(f) = InFile(f)
  <2>1. Len(f) = Depth
    BY Tree
  <2>2. \A b \in stored : Dir(FileOf[b], Depth) = FileOf[b]
    BY Tree
  <2>3. QED
    BY <2>1, <2>2 DEF Below, InFile
<1>5. QED
  BY <1>1, <1>2, <1>3, <1>4

\* A saved block is one more below each directory on its path, and below no other.
LEMMA OneMore ==
  ASSUME stored \subseteq Blocks, NEW b \in Blocks, b \notin stored,
         stored' = stored \cup {b}, NEW e
  PROVE  Cardinality(Below(e)') =
           Cardinality(Below(e)) + IF Dir(FileOf[b], Len(e)) = e THEN 1 ELSE 0
<1>1. IsFiniteSet(Below(e)) /\ Cardinality(Below(e)) \in Nat
  BY Counts
<1>2. CASE Dir(FileOf[b], Len(e)) = e
  <2>1. Below(e)' = Below(e) \cup {b}
    BY <1>2 DEF Below
  <2>2. b \notin Below(e)
    BY DEF Below
  <2>3. Cardinality(Below(e) \cup {b}) = Cardinality(Below(e)) + 1
    BY <1>1, <2>2, FS_AddElement
  <2>4. QED
    BY <1>2, <2>1, <2>3
<1>3. CASE Dir(FileOf[b], Len(e)) # e
  <2>1. Below(e)' = Below(e)
    BY <1>3 DEF Below
  <2>2. QED
    BY <1>1, <1>3, <2>1
<1>4. QED
  BY <1>2, <1>3


-----------------------------------------------------------------------------
\* Whoever corrects the sums comes to an entry of the tree, in the sums file of the
\* directory it stands in.
LEMMA Job ==
  ASSUME TypeInv, Correcting
  PROVE  /\ JobFile \in Files /\ JobFile \in made /\ JobSum \in Nat
         /\ Dir(JobFile, level) \in Entries /\ Len(Dir(JobFile, level)) = level
         /\ JobDir \in Dirs /\ DirOf(Dir(JobFile, level)) = JobDir
         /\ saving = None => loading # None /\ JobFile = loading /\ JobSum = loadSum
         /\ saving # None => JobFile = FileOf[saving] /\ JobSum = 1
<1>1. /\ saving # None => saving \in Blocks /\ FileOf[saving] \in made
      /\ saving = None => loading \in Files /\ loading \in made /\ loading # None
      /\ level \in 1 .. Depth /\ loadSum \in Nat
  BY DEF TypeInv, TypeOK, Shape
<1>2. JobFile \in Files /\ JobFile \in made
  BY <1>1, Tree DEF JobFile
<1>3. JobSum \in Nat
  BY <1>1 DEF JobSum
<1>4. QED
  BY <1>1, <1>2, <1>3, Tree DEF JobFile, JobSum, JobDir

\* What the end of a correction, its failure and the way to the next level do to the
\* saver and the loader.
LEMMA MoveOn ==
  ASSUME TypeInv, Correcting, Stop \/ (Finish /\ phase' = phase) \/ (Up /\ phase' = phase)
  PROVE  /\ phase' \in {"boot", "run"} /\ step' \in {"free", "open"} /\ level' \in 1 .. Depth
         /\ saving' \in {saving, None} /\ loading' \in {loading, None}
         /\ todo' \subseteq todo /\ loadSum' \in Nat
         /\ saving' # None => step' = "open" /\ phase' = phase /\ saving # None
         /\ step' = "open" => saving' = saving /\ loading' = loading
         /\ step' = "free" => level' = Depth /\ saving' = None
         /\ loading' # None => loading' = loading /\ loadSum' = loadSum /\ todo' = todo
<1>1. /\ phase \in {"boot", "run"} /\ level \in 1 .. Depth /\ loadSum \in Nat
      /\ Depth \in 1 .. Depth
  BY StorageAssumption DEF TypeInv, TypeOK
<1>2. CASE Stop
  BY <1>1, <1>2 DEF Stop, loader
<1>3. CASE Finish /\ phase' = phase
  BY <1>1, <1>3 DEF Finish, loader
<1>4. CASE Up /\ phase' = phase
  <2>1. CASE level = 1
    BY <1>1, <1>3, <1>4, <2>1 DEF Up
  <2>2. CASE level # 1
    BY <1>1, <1>4, <2>2 DEF Up, loader
  <2>3. QED
    BY <2>1, <2>2
<1>5. QED
  BY <1>2, <1>3, <1>4

\* A step of a correction keeps the types if what it does to the sums files does.
LEMMA TypeMoved ==
  ASSUME TypeInv, Correcting, Stop \/ (Finish /\ phase' = phase) \/ (Up /\ phase' = phase),
         UNCHANGED <<stored, made>>, ghosts' \subseteq Files, table' \in [Dirs -> States],
         sums' \in [Entries -> Nat],
         kills' \in Nat, faults' \in Nat, missed' \in Nat, hurt' \in BOOLEAN,
         \A f \in Files : f \notin made => sums'[f] = sums[f],
         \A e \in Entries : table'[DirOf(e)] \in {"absent", "empty", "cut"} => sums'[e] = 0
  PROVE  TypeInv'
<1>1. TypeOK'
  BY MoveOn DEF TypeInv, TypeOK
<1>2. Shape'
  <2>1. \A f : InFile(f)' = InFile(f)
    BY DEF InFile
  <2>2. \A f \in Files : f \notin made' => InFile(f)' = {} /\ sums'[f] = 0
    BY <2>1 DEF TypeInv, Shape
  <2>3. loading' # None => /\ loading' \in todo' /\ loading' \in made'
                           /\ loadSum' <= Cardinality(InFile(loading)')
    BY <2>1, MoveOn DEF TypeInv, Shape
  <2>4. /\ saving' # None => Held' /\ phase' = "run" /\ FileOf[saving'] \in made'
        /\ step' # "append"
        /\ Correcting' => saving' # None \/ loading' # None
        /\ ~Correcting' => level' = Depth
    BY MoveOn DEF TypeInv, Shape, Held, Correcting
  <2>5. loading' # None => loading' = loading
    BY MoveOn
  <2>6. QED
    BY <2>2, <2>3, <2>4, <2>5 DEF Shape
<1>3. QED
  BY <1>1, <1>2 DEF TypeInv

\* The counters stay counters.
LEMMA Counted ==
  ASSUME TypeInv, Fault \/ UNCHANGED events
  PROVE  kills' \in Nat /\ faults' \in Nat /\ missed' \in Nat /\ hurt' \in BOOLEAN
<1>1. kills \in Nat /\ faults \in Nat /\ missed \in Nat /\ hurt \in BOOLEAN
  BY DEF TypeInv, TypeOK
<1>2. CASE Fault
  <2>1. hurt' = TRUE /\ faults' = faults + 1 /\ kills' = kills /\ missed' = missed
    BY <1>2 DEF Fault
  <2>2. hurt' \in BOOLEAN
    BY <2>1
  <2>3. QED
    BY <1>1, <2>1, <2>2
<1>3. CASE UNCHANGED events
  BY <1>1, <1>3 DEF events
<1>4. QED
  BY <1>2, <1>3

LEMMA TypeInit == Init => TypeInv
<1> SUFFICES ASSUME Init PROVE TypeOK /\ Shape
  BY DEF TypeInv
<1> USE DEF Init
<1>1. /\ \A e \in Entries : sums[e] = 0
      /\ \A f \in Files : sums[f] = 0
  BY Tree
<1>2. Depth \in 1 .. Depth
  BY StorageAssumption
<1>3. TypeOK
  BY <1>2 DEF TypeOK, States
<1>4. \A f : InFile(f) = {}
  BY DEF InFile
<1>5. Shape
  BY <1>1, <1>4 DEF Shape, Correcting
<1>6. QED
  BY <1>3, <1>5

\* Every action keeps the types.
LEMMA TypeStep == TypeInv /\ [Next]_vars => TypeInv'
<1> SUFFICES ASSUME TypeInv, [Next]_vars PROVE TypeInv'
  OBVIOUS
<1>1. TypeOK /\ Shape
  BY DEF TypeInv
<1>a. /\ \A f : IsFiniteSet(InFile(f)) /\ Cardinality(InFile(f)) \in Nat
      /\ stored \subseteq Blocks
  BY <1>1, Counts DEF TypeOK
<1>2. ASSUME NEW b \in Blocks, Save(b) PROVE TypeInv'
  <2>1. FileOf[b] \in Files
    BY Tree
  <2>2. TypeOK'
    BY <1>1, <1>2, <2>1 DEF Save, TypeOK, loader, events
  <2>3. \A f : InFile(f)' = InFile(f)
    BY <1>2 DEF Save, InFile
  <2>4. Shape'
    BY <1>1, <1>2, <2>3, StorageAssumption DEF Save, Shape, Held, Correcting, loader, events
  <2>5. QED
    BY <2>2, <2>4 DEF TypeInv
<1>3. CASE SaveAppend
  <2> USE <1>3 DEF SaveAppend, loader
  <2>0. kills' \in Nat /\ faults' \in Nat /\ missed' \in Nat /\ hurt' \in BOOLEAN
    BY Counted
  <2>1. saving \in Blocks /\ FileOf[saving] \in Files /\ FileOf[saving] \in made /\ saving \notin stored
    BY <1>1, Tree DEF TypeOK, Shape
  <2>2. TypeOK'
    BY <1>1, <2>0, <2>1 DEF TypeOK
  <2>3. stored' = stored \/ (stored \notin {stored'} /\ stored' = stored \cup {saving})
    BY <2>1
  <2>4. \A f \in Files : f \notin made => InFile(f)' = InFile(f)
    BY <2>1, <2>3 DEF InFile
  <2>5. \A f : Cardinality(InFile(f)') \in Nat /\ Cardinality(InFile(f)') >= Cardinality(InFile(f))
    <3>1. stored' \subseteq Blocks /\ IsFiniteSet(Blocks) /\ stored \subseteq stored'
      BY <1>a, <2>1, <2>3, StorageAssumption
    <3>2. \A f : InFile(f)' \subseteq Blocks /\ InFile(f) \subseteq InFile(f)'
      BY <3>1 DEF InFile
    <3>3. QED
      BY <3>1, <3>2, FS_Subset, FS_CardinalityType
  <2>6. loading' # None => /\ loading' \in todo' /\ loading' \in made' /\ loading' = loading
                           /\ loadSum' <= Cardinality(InFile(loading)')
    BY <1>1, <1>a, <2>5 DEF Shape, TypeOK
  <2>7. Shape'
    BY <1>1, <2>1, <2>4, <2>6 DEF Shape, Held, Correcting
  <2>8. QED
    BY <2>2, <2>7 DEF TypeInv
<1>4. CASE OpenSums \/ CreateSums
  <2> USE <1>4 DEF OpenSums, CreateSums, files, loader, events
  <2>0. Correcting
    BY DEF Correcting
  <2>1. JobDir \in Dirs
    BY <2>0, Job
  <2>2. TypeOK'
    BY <1>1, <2>1 DEF TypeOK, States
  <2>3. \A f : InFile(f)' = InFile(f)
    BY DEF InFile
  <2>4. \A e \in Entries : table'[DirOf(e)] \in {"absent", "empty", "cut"} => sums'[e] = 0
    <3>1. ASSUME NEW e \in Entries, table'[DirOf(e)] \in {"absent", "empty", "cut"}
          PROVE  table[DirOf(e)] \in {"absent", "empty", "cut"}
      <4>1. CASE table' = table
        BY <3>1, <4>1
      <4>2. CASE CreateSums
        BY <1>1, <2>1, <3>1, <4>2 DEF TypeOK
      <4>3. QED
        BY <4>1, <4>2
    <3>2. QED
      BY <1>1, <3>1 DEF Shape
  <2>5. Shape'
    BY <1>1, <2>3, <2>4 DEF Shape, Held, Correcting
  <2>6. QED
    BY <2>2, <2>5 DEF TypeInv
<1>5. CASE RejectSums \/ OpenFails
  <2>0. kills' \in Nat /\ faults' \in Nat /\ missed' \in Nat /\ hurt' \in BOOLEAN
    BY <1>5, Counted DEF RejectSums, OpenFails
  <2> USE <1>5 DEF RejectSums, OpenFails, files
  <2>1. /\ Correcting /\ Stop /\ UNCHANGED files
        /\ kills' \in Nat /\ faults' \in Nat /\ missed' \in Nat /\ hurt' \in BOOLEAN
    BY <1>1, <2>0 DEF Correcting
  <2>2. QED
    BY <1>1, <2>1, TypeMoved DEF TypeOK, Shape
<1>6. CASE TruncateSums
  <2>a. kills' \in Nat /\ faults' \in Nat /\ missed' \in Nat /\ hurt' \in BOOLEAN
    BY <1>6, Counted DEF TruncateSums
  <2> USE <1>6 DEF TruncateSums, loader
  <2>0. Correcting
    BY DEF Correcting
  <2>1. JobDir \in Dirs
    BY <2>0, Job
  <2>2. TypeOK'
    BY <1>1, <2>1, <2>a DEF TypeOK, States
  <2>3. \A f : InFile(f)' = InFile(f)
    BY DEF InFile
  <2>4. \A e \in Entries : table'[DirOf(e)] \in {"absent", "empty", "cut"} => sums'[e] = 0
    BY <1>1, <2>1 DEF Shape, TypeOK
  <2>5. \A f \in Files : sums[f] = 0 => sums'[f] = 0
    BY Tree
  <2>6. Shape'
    BY <1>1, <2>3, <2>4, <2>5 DEF Shape, Held, Correcting
  <2>7. QED
    BY <2>2, <2>6 DEF TypeInv
<1>7. CASE Agree
  <2>1. /\ Correcting /\ Finish /\ UNCHANGED <<files, phase, events>>
    BY <1>7 DEF Agree, Correcting
  <2>2. QED
    BY <1>1, <2>1, TypeMoved DEF TypeOK, Shape, files, events
<1>8. CASE Write
  <2> USE <1>8 DEF Write
  <2>0. Correcting
    BY DEF Correcting
  <2>1. /\ JobFile \in made /\ JobDir \in Dirs /\ JobSum \in Nat
        /\ Dir(JobFile, level) \in Entries /\ DirOf(Dir(JobFile, level)) = JobDir
        /\ Len(Dir(JobFile, level)) = level /\ JobFile \in Files
    BY <2>0, Job
  <2>2. sums' \in [Entries -> Nat] /\ \A e \in Entries \ {Dir(JobFile, level)} : sums'[e] = sums[e]
    BY <1>1, <2>1 DEF TypeOK, Written
  <2>3. table' \in [Dirs -> States] /\ table'[JobDir] \in {"whole", "wiped"}
    BY <1>1, <2>1 DEF TypeOK, States
  <2>4. missed' \in Nat
    <3>1. CASE Adding
      BY <1>1, <3>1 DEF TypeOK
    <3>2. CASE ~Adding
      <4>1. loading # None
        BY <2>0, <3>2, Job DEF Adding
      <4>2. loadSum <= Cardinality(InFile(loading)) /\ Cardinality(InFile(loading)) \in Nat
        BY <1>1, <1>a, <4>1 DEF Shape
      <4>3. loadSum \in Nat /\ missed \in Nat
        BY <1>1 DEF TypeOK
      <4>4. QED
        BY <3>2, <4>2, <4>3
    <3>3. QED
      BY <3>1, <3>2
  <2>5. \A f \in Files : f \notin made => sums'[f] = sums[f]
    <3>1. ASSUME NEW f \in Files, f = Dir(JobFile, level) PROVE f = JobFile
      BY <2>1, <3>1, Tree
    <3>2. QED
      BY <2>1, <2>2, <3>1, Tree
  <2>6. \A e \in Entries : table'[DirOf(e)] \in {"absent", "empty", "cut"} => sums'[e] = 0
    BY <1>1, <2>1, <2>2, <2>3 DEF Shape, TypeOK
  <2>7. /\ kills' \in Nat /\ faults' \in Nat /\ hurt' \in BOOLEAN /\ ghosts' \subseteq Files
    BY <1>1 DEF TypeOK
  <2>8. QED
    BY <1>1, <2>0, <2>2, <2>3, <2>4, <2>5, <2>6, <2>7, TypeMoved DEF TypeInv
<1>9. CASE WriteFails
  <2>0. kills' \in Nat /\ faults' \in Nat /\ missed' \in Nat /\ hurt' \in BOOLEAN
    BY <1>9, Counted DEF WriteFails
  <2> USE <1>9 DEF WriteFails, files
  <2>1. /\ Correcting /\ UNCHANGED files
        /\ Stop \/ (Up /\ phase' = phase)
        /\ kills' \in Nat /\ faults' \in Nat /\ missed' \in Nat /\ hurt' \in BOOLEAN
    BY <2>0 DEF Correcting
  <2>2. QED
    BY <1>1, <2>1, TypeMoved DEF TypeOK, Shape
<1>10. ASSUME NEW f \in Files, LoadRead(f) PROVE TypeInv'
  <2>0. kills' \in Nat /\ faults' \in Nat /\ missed' \in Nat /\ hurt' \in BOOLEAN
    BY <1>10, Counted DEF LoadRead
  <2> USE <1>10 DEF LoadRead, files
  <2>1. /\ loadSum' \in Nat /\ loadSum' <= Cardinality(InFile(f)) /\ loading' = f
        /\ f \in todo /\ f \in made
    BY <1>a
  <2>2. TypeOK'
    BY <1>1, <2>0, <2>1 DEF TypeOK
  <2>3. \A g : InFile(g)' = InFile(g)
    BY DEF InFile
  <2>4. Shape'
    BY <1>1, <2>1, <2>3 DEF Shape, Held, Correcting
  <2>5. QED
    BY <2>2, <2>4 DEF TypeInv
<1>11. ASSUME NEW f \in Files, LoadSkip(f) PROVE TypeInv'
  <2>0. kills' \in Nat /\ faults' \in Nat /\ missed' \in Nat /\ hurt' \in BOOLEAN
    BY <1>11, Counted DEF LoadSkip
  <2> USE <1>11 DEF LoadSkip, files
  <2>1. TypeOK'
    BY <1>1, <2>0 DEF TypeOK
  <2>2. \A g : InFile(g)' = InFile(g)
    BY DEF InFile
  <2>3. Shape'
    BY <1>1, <2>2 DEF Shape, Held, Correcting
  <2>4. QED
    BY <2>1, <2>3 DEF TypeInv
<1>12. CASE LoadCorrect
  <2> USE <1>12 DEF LoadCorrect, files, loader, events
  <2>1. TypeOK'
    BY <1>1 DEF TypeOK
  <2>2. \A g : InFile(g)' = InFile(g)
    BY DEF InFile
  <2>3. Shape'
    BY <1>1, <2>2 DEF Shape, Held, Correcting
  <2>4. QED
    BY <2>1, <2>3 DEF TypeInv
<1>13. CASE LoadDone \/ Serve
  <2> USE <1>13 DEF LoadDone, Serve, files, loader, events
  <2>1. TypeOK'
    BY <1>1 DEF TypeOK
  <2>2. \A g : InFile(g)' = InFile(g)
    BY DEF InFile
  <2>3. Shape'
    BY <1>1, <2>2 DEF Shape, Held, Correcting
  <2>4. QED
    BY <2>1, <2>3 DEF TypeInv
<1>14. CASE Kill
  <2> USE <1>14 DEF Kill, files
  <2>0. kills' \in Nat /\ faults' \in Nat /\ missed' \in Nat /\ hurt' \in BOOLEAN
    <3>1. kills \in Nat /\ faults \in Nat /\ missed \in Nat /\ hurt' = FALSE
      BY <1>1 DEF TypeOK
    <3>2. hurt' \in BOOLEAN
      BY <3>1
    <3>3. QED
      BY <3>1, <3>2
  <2>1. TypeOK'
    BY <1>1, <2>0, StorageAssumption DEF TypeOK
  <2>2. \A g : InFile(g)' = InFile(g)
    BY DEF InFile
  <2>3. Shape'
    BY <1>1, <2>2 DEF Shape, Held, Correcting
  <2>4. QED
    BY <2>1, <2>3 DEF TypeInv
<1>15. CASE UNCHANGED vars
  <2> USE <1>15 DEF vars, files, loader, events
  <2>1. TypeOK'
    BY <1>1 DEF TypeOK
  <2>2. \A g : InFile(g)' = InFile(g)
    BY DEF InFile
  <2>3. Shape'
    BY <1>1, <2>2 DEF Shape, Held, Correcting
  <2>4. QED
    BY <2>1, <2>3 DEF TypeInv
<1>16. QED
  BY <1>2, <1>3, <1>4, <1>5, <1>6, <1>7, <1>8, <1>9, <1>10, <1>11, <1>12, <1>13, <1>14, <1>15
     DEF Next

\* Blocks, files, sums files and their entries, and whatever the saver and the loader
\* keep, are always of their types.
THEOREM TypeCorrect == Spec => []TypeOK
<1>1. TypeInv => TypeOK
  BY DEF TypeInv
<1>2. QED
  BY TypeInit, TypeStep, <1>1, PTL DEF Spec

-----------------------------------------------------------------------------
\* The numbers the promises compare.
LEMMA Numbers ==
  ASSUME TypeInv
  PROVE  /\ Trouble \in Nat
         /\ \A e \in Entries : /\ sums[e] \in Nat /\ Owed(e) \in {0, 1}
                               /\ Cardinality(Below(e)) \in Nat
         /\ \A f \in Files : /\ sums[f] \in Nat /\ Below(f) = InFile(f)
                             /\ Cardinality(InFile(f)) \in Nat
         /\ loading # None => /\ loading \in Files /\ loadSum \in Nat
                              /\ loadSum <= Cardinality(InFile(loading))
<1>1. Trouble \in Nat
  BY DEF TypeInv, TypeOK, Trouble
<1>2. \A e \in Entries : sums[e] \in Nat /\ Owed(e) \in {0, 1}
  BY DEF TypeInv, TypeOK, Owed
<1>3. QED
  BY <1>1, <1>2, Counts, Tree DEF TypeInv, TypeOK, Shape

LEMMA TroubleNext == TypeInv' => Trouble' \in Nat
<1> SUFFICES ASSUME TypeInv' PROVE kills' + faults' + missed' \in Nat
  BY DEF Trouble
<1>1. kills' \in Nat /\ faults' \in Nat /\ missed' \in Nat
  BY DEF TypeInv, TypeOK
<1>2. \A i, j, k \in Nat : i + j + k \in Nat
  OBVIOUS
<1>3. QED
  BY <1>1, <1>2

\* One failure is one more trouble.
LEMMA OneFault == ASSUME TypeInv, Fault PROVE Trouble' = Trouble + 1 /\ hurt' = TRUE
  BY DEF TypeInv, TypeOK, Fault, Trouble

\* An entry that waits for a saved block is supported by the sums file that is opened.
LEMMA OwedAt ==
  ASSUME TypeInv, NEW e \in Entries, Owed(e) = 1
  PROVE  JobDir \in Supports(e) /\ saving # None /\ Correcting
<1>1. /\ saving # None /\ Correcting /\ Len(e) <= level /\ Dir(FileOf[saving], Len(e)) = e
  BY DEF Owed
<1>2. saving \in Blocks /\ level \in 1 .. Depth
  BY <1>1 DEF TypeInv, TypeOK
<1>3. FileOf[saving] \in Files
  BY <1>2, Tree
<1>4. QED
  BY <1>1, <1>2, <1>3, PathSupports DEF JobDir, JobFile

\* What is usable, but for the file its holder is about to write, was usable before
\* if the sums files are what they were.
LEMMA UsableBack ==
  ASSUME table' = table, step' # "write"
  PROVE  \A d \in Dirs : Usable(d)' => Usable(d)
  BY DEF Usable, Coming

\* A step that leaves what an entry has, waits for and is allowed keeps it in bounds.
LEMMA Kept ==
  ASSUME TypeInv, FewLost, NEW e \in Entries, stored' = stored,
         \A d \in Dirs : Usable(d)' => Usable(d),
         sums'[e] + Trouble' + Owed(e)' >= sums[e] + Trouble + Owed(e),
         sums'[e] + Trouble' + Owed(e)' \in Nat,
         Intact(e)'
  PROVE  sums'[e] + Trouble' + Owed(e)' >= Cardinality(Below(e)')
<1>1. Intact(e)
  BY DEF Intact, Supports
<1>2. sums[e] + Trouble + Owed(e) >= Cardinality(Below(e))
  BY <1>1 DEF FewLost
<1>3. Below(e)' = Below(e)
  BY DEF Below
<1>4. /\ sums[e] + Trouble + Owed(e) \in Nat
      /\ Cardinality(Below(e)) \in Nat
  BY Numbers
<1>5. QED
  BY <1>2, <1>3, <1>4

\* What a write does to the entries: the one it comes to gets the sum, and the block
\* that is saved is no longer owed to it.
LEMMA WriteAdds ==
  ASSUME TypeInv, Write, NEW e \in Entries
  PROVE  /\ e # Dir(JobFile, level) => sums'[e] = sums[e]
         /\ sums'[Dir(JobFile, level)] =
              (IF Adding THEN sums[Dir(JobFile, level)] ELSE 0) + JobSum
         /\ saving # None => sums'[e] + Owed(e)' = sums[e] + Owed(e)
         /\ saving = None => Owed(e) = 0 /\ Owed(e)' = 0
<1> DEFINE x == Dir(JobFile, level)
<1>0. Correcting
  BY DEF Write, Correcting
<1>1. /\ x \in Entries /\ Len(x) = level /\ level \in 1 .. Depth
      /\ saving # None => JobFile = FileOf[saving] /\ JobSum = 1
  BY <1>0, Job DEF TypeInv, TypeOK
<1>2. sums \in [Entries -> Nat] /\ sums' = Written
  BY DEF TypeInv, TypeOK, Write
<1>3. e # x => sums'[e] = sums[e]
  BY <1>1, <1>2 DEF Written
<1>4. sums'[x] = (IF Adding THEN sums[x] ELSE 0) + JobSum
  BY <1>1, <1>2 DEF Written
<1>5. Finish \/ Up
  BY DEF Write
<1>6. saving = None => Owed(e) = 0 /\ Owed(e)' = 0
  <2>1. saving = None => saving' = None
    BY <1>5 DEF Finish, Up
  <2>2. QED
    BY <2>1 DEF Owed
<1>7. ASSUME saving # None PROVE sums'[e] + Owed(e)' = sums[e] + Owed(e)
  <2>1. Adding
    BY <1>7 DEF Adding
  <2>2. Len(e) \in 1 .. Depth /\ sums[e] \in Nat
    BY <1>2, Tree
  <2>3. Owed(e)' = IF level > 1 /\ Len(e) <= level - 1 /\ Dir(FileOf[saving], Len(e)) = e
                     THEN 1 ELSE 0
    <3>1. CASE level = 1
      <4>1. Finish
        BY <3>1 DEF Write, Up
      <4>2. saving' = None
        BY <4>1 DEF Finish
      <4>3. QED
        BY <3>1, <4>2 DEF Owed
    <3>2. CASE level # 1
      <4>1. step' = "open" /\ level' = level - 1 /\ saving' = saving
        BY <3>2 DEF Write, Up
      <4>2. QED
        BY <1>1, <1>7, <3>2, <4>1 DEF Owed, Correcting
    <3>3. QED
      BY <3>1, <3>2
  <2>4. Owed(e) = IF Len(e) <= level /\ Dir(FileOf[saving], Len(e)) = e THEN 1 ELSE 0
    BY <1>0, <1>7 DEF Owed
  <2>5. CASE e = x
    <3>1. Dir(FileOf[saving], Len(e)) = e /\ Len(e) = level
      BY <1>1, <1>7, <2>5
    <3>2. Owed(e) = 1 /\ Owed(e)' = 0
      BY <1>1, <2>3, <2>4, <3>1
    <3>3. QED
      BY <1>1, <1>4, <1>7, <2>1, <2>2, <2>5, <3>2
  <2>6. CASE e # x
    <3>1. Dir(FileOf[saving], Len(e)) = e => Len(e) # level
      BY <1>1, <1>7, <2>6
    <3>2. Owed(e)' = Owed(e)
      BY <1>1, <2>2, <2>3, <2>4, <3>1
    <3>3. QED
      BY <1>3, <2>6, <3>2
  <2>7. QED
    BY <2>5, <2>6
<1>8. QED
  BY <1>3, <1>4, <1>6, <1>7

\* A write makes the sums file whole that it was created for, and no other.
LEMMA WriteUsable ==
  ASSUME TypeInv, Write
  PROVE  \A d \in Dirs : Usable(d)' <=> Usable(d)
<1>0. Correcting
  BY DEF Write, Correcting
<1>1. JobDir \in Dirs /\ table \in [Dirs -> States] /\ step = "write"
  BY <1>0, Job DEF TypeInv, TypeOK, Write
<1>2. step' # "write"
  BY <1>0, MoveOn DEF Write
<1>3. ASSUME NEW d \in Dirs, d # JobDir PROVE Usable(d)' <=> Usable(d)
  BY <1>1, <1>2, <1>3 DEF Usable, Coming, Write
<1>4. ASSUME NEW d \in Dirs, d = JobDir PROVE Usable(d)' <=> Usable(d)
  <2>1. table'[d] = IF table[d] \in {"cut", "wiped"} THEN "wiped" ELSE "whole"
    BY <1>1, <1>4 DEF Write
  <2>2. table[d] \in {"absent", "empty", "whole", "cut", "wiped"}
    BY <1>1 DEF States
  <2>3. Usable(d) <=> table[d] \in {"absent", "empty", "whole"}
    BY <1>1, <1>4 DEF Usable, Coming
  <2>4. Usable(d)' <=> table'[d] \in {"absent", "whole"}
    BY <1>2 DEF Usable, Coming
  <2>5. QED
    BY <2>1, <2>2, <2>3, <2>4
<1>5. QED
  BY <1>3, <1>4

\* A correction of a file's entry leaves out no more than it counts as missed.
LEMMA WriteMisses ==
  ASSUME TypeInv, Write
  PROVE  /\ Trouble' >= Trouble
         /\ ~Adding => Trouble' + loadSum = Trouble + Cardinality(InFile(loading))
<1>1. kills \in Nat /\ faults \in Nat /\ missed \in Nat /\ kills' = kills /\ faults' = faults
  BY DEF TypeInv, TypeOK, Write
<1>2. CASE Adding
  BY <1>1, <1>2 DEF Write, Trouble
<1>3. CASE ~Adding
  <2>1. loading # None
    BY <1>3, Job DEF Adding, Write, Correcting
  <2>2. loadSum \in Nat /\ loadSum <= Cardinality(InFile(loading))
        /\ Cardinality(InFile(loading)) \in Nat
    BY <2>1, Numbers
  <2>3. missed' = missed + (Cardinality(InFile(loading)) - loadSum)
    BY <1>3 DEF Write
  <2>4. QED
    BY <1>1, <2>2, <2>3 DEF Trouble
<1>4. QED
  BY <1>2, <1>3

\* Every action keeps the loss in bounds.
LEMMA FewLostStep == TypeInv /\ FewLost /\ [Next]_vars => FewLost'
<1> SUFFICES ASSUME TypeInv, FewLost, [Next]_vars, NEW e \in Entries, Intact(e)'
             PROVE  sums'[e] + Trouble' + Owed(e)' >= Cardinality(Below(e)')
  BY DEF FewLost
<1>0. /\ TypeInv'
      /\ Trouble \in Nat /\ Trouble' \in Nat /\ sums[e] \in Nat /\ sums'[e] \in Nat
      /\ Owed(e) \in {0, 1} /\ Owed(e)' \in {0, 1}
      /\ Cardinality(Below(e)) \in Nat
  <2>1. TypeInv'
    BY TypeStep
  <2>2. sums' \in [Entries -> Nat] /\ Trouble' \in Nat
    BY <2>1, TroubleNext DEF TypeInv, TypeOK
  <2>3. Owed(e)' \in {0, 1}
    BY DEF Owed
  <2>4. QED
    BY <2>1, <2>2, <2>3, Numbers
<1>1. ASSUME stored' = stored, \A d \in Dirs : Usable(d)' => Usable(d),
             sums'[e] + Trouble' + Owed(e)' >= sums[e] + Trouble + Owed(e)
      PROVE  sums'[e] + Trouble' + Owed(e)' >= Cardinality(Below(e)')
  BY <1>0, <1>1, Kept
<1>2. ASSUME NEW b \in Blocks, Save(b) PROVE sums'[e] + Trouble' + Owed(e)' >= Cardinality(Below(e)')
  <2>1. \A d \in Dirs : Usable(d)' => Usable(d)
    BY <1>2, UsableBack DEF Save
  <2>2. Owed(e) = 0 /\ Trouble' = Trouble /\ sums' = sums /\ stored' = stored
    BY <1>2 DEF Save, Owed, Held, Correcting, Trouble, events
  <2>3. QED
    BY <1>0, <1>1, <2>1, <2>2
<1>3. CASE SaveAppend
  <2>1. /\ step = "append" /\ step' = "open" /\ saving \in Blocks /\ saving \notin stored
        /\ saving # None /\ saving' = saving /\ level' = level /\ level = Depth
        /\ table' = table /\ sums' = sums
    BY <1>3 DEF SaveAppend, TypeInv, TypeOK, Shape, Correcting
  <2>2. \A d \in Dirs : Usable(d)' => Usable(d)
    BY <2>1, UsableBack
  <2>3. Owed(e) = 0 /\ Owed(e)' = IF Dir(FileOf[saving], Len(e)) = e THEN 1 ELSE 0
    BY <2>1, Tree DEF Owed, Correcting
  <2>4. CASE stored' = stored \cup {saving} /\ UNCHANGED events
    <3>1. Cardinality(Below(e)') = Cardinality(Below(e)) + Owed(e)'
      BY <2>1, <2>3, <2>4, OneMore DEF TypeInv, TypeOK
    <3>2. Trouble' = Trouble
      BY <2>4 DEF Trouble, events
    <3>3. Intact(e)
      BY <2>2 DEF Intact, Supports
    <3>4. sums[e] + Trouble + Owed(e) >= Cardinality(Below(e))
      BY <3>3 DEF FewLost
    <3>5. QED
      BY <1>0, <2>1, <2>3, <3>1, <3>2, <3>4
  <2>5. CASE Fault /\ stored' = stored
    <3>1. Trouble' = Trouble + 1
      BY <2>5, OneFault
    <3>2. QED
      BY <1>0, <1>1, <2>1, <2>2, <2>3, <2>5, <3>1
  <2>6. QED
    BY <1>3, <2>4, <2>5 DEF SaveAppend
<1>4. CASE OpenSums \/ CreateSums
  <2>1. /\ step = "open" /\ step' = "write" /\ sums' = sums /\ stored' = stored /\ Trouble' = Trouble
        /\ level' = level /\ saving' = saving /\ loading' = loading
    BY <1>4 DEF OpenSums, CreateSums, files, loader, events, Trouble
  <2>2. JobDir' = JobDir /\ Owed(e)' = Owed(e)
    BY <2>1 DEF JobDir, JobFile, Owed, Correcting
  <2>3. ASSUME NEW d \in Dirs, Usable(d)' PROVE Usable(d)
    <3>1. CASE OpenSums
      BY <2>2, <2>3, <3>1 DEF OpenSums, files, Usable, Coming
    <3>2. CASE CreateSums
      <4>1. CASE d = JobDir
        BY <3>2, <4>1 DEF CreateSums, Usable
      <4>2. CASE d # JobDir
        BY <2>2, <2>3, <3>2, <4>2 DEF CreateSums, Usable, Coming, TypeInv, TypeOK
      <4>3. QED
        BY <4>1, <4>2
    <3>3. QED
      BY <1>4, <3>1, <3>2
  <2>4. QED
    BY <1>0, <1>1, <2>1, <2>2, <2>3
<1>5. CASE RejectSums
  <2>1. /\ step = "open" /\ table[JobDir] \in {"empty", "cut"} /\ table' = table /\ Stop
        /\ sums' = sums /\ stored' = stored /\ Trouble' = Trouble /\ step' = "free"
    BY <1>5 DEF RejectSums, Unreadable, files, events, Stop, Trouble
  <2>2. Owed(e) # 1
    <3>1. ASSUME Owed(e) = 1 PROVE FALSE
      <4>1. JobDir \in Supports(e)
        BY <3>1, OwedAt
      <4>2. \A d \in Supports(e) : Usable(d)'
        BY DEF Intact, Supports
      <4>3. \A d : d = JobDir => ~Usable(d)'
        BY <2>1 DEF Usable, Coming
      <4>4. QED
        BY <4>1, <4>2, <4>3
    <3>2. QED
      BY <3>1
  <2>3. QED
    BY <1>0, <1>1, <2>1, <2>2, UsableBack
<1>6. CASE TruncateSums
  <2>1. /\ step = "open" /\ step' = "write" /\ stored' = stored /\ Trouble' = Trouble + 1
        /\ level' = level /\ saving' = saving /\ loading' = loading
    BY <1>6, OneFault DEF TruncateSums, loader
  <2>2. JobDir' = JobDir /\ Owed(e)' = Owed(e)
    BY <2>1 DEF JobDir, JobFile, Owed, Correcting
  <2>3. JobDir \in Dirs /\ table \in [Dirs -> States]
    BY <2>1, Job DEF Correcting, TypeInv, TypeOK
  <2>4. \A d : d = JobDir => ~Usable(d)'
    BY <1>6, <2>2, <2>3 DEF TruncateSums, Usable, Coming
  <2>5. \A d \in Dirs : Usable(d)' => Usable(d)
    <3>1. ASSUME NEW d \in Dirs, Usable(d)' PROVE Usable(d)
      <4>1. d # JobDir
        BY <2>4, <3>1
      <4>2. QED
        BY <1>6, <2>2, <2>3, <3>1, <4>1 DEF TruncateSums, Usable, Coming
    <3>2. QED
      BY <3>1
  <2>6. JobDir \notin Supports(e)
    BY <2>4 DEF Intact, Supports
  <2>7. DirOf(e) # JobDir
    BY <2>3, <2>6 DEF Supports
  <2>8. sums'[e] = sums[e]
    BY <1>6, <2>7 DEF TruncateSums
  <2>9. QED
    BY <1>0, <1>1, <2>1, <2>2, <2>5, <2>8
<1>7. CASE OpenFails \/ WriteFails
  <2>1. /\ Correcting /\ table' = table /\ sums' = sums /\ stored' = stored
        /\ Trouble' = Trouble + 1
        /\ Stop \/ (Up /\ phase' = phase)
    BY <1>7, OneFault DEF OpenFails, WriteFails, files, Correcting
  <2>2. step' # "write"
    BY <2>1, MoveOn
  <2>3. QED
    BY <1>0, <1>1, <2>1, <2>2, UsableBack
<1>8. CASE Agree
  <2>1. /\ Correcting /\ Finish /\ phase' = phase /\ table' = table /\ sums' = sums
        /\ stored' = stored /\ Trouble' = Trouble /\ saving = None
    BY <1>8 DEF Agree, files, events, Correcting, Adding, Trouble
  <2>2. step' # "write" /\ Owed(e) = 0
    BY <2>1 DEF Finish, Owed
  <2>3. QED
    BY <1>0, <1>1, <2>1, <2>2, UsableBack
<1>9. CASE Write
  <2>1. stored' = stored /\ \A d \in Dirs : Usable(d)' => Usable(d)
    BY <1>9, WriteUsable DEF Write
  <2>2. Trouble' >= Trouble
    BY <1>9, WriteMisses
  <2>3. CASE saving # None
    <3>1. sums'[e] + Owed(e)' = sums[e] + Owed(e)
      BY <1>9, <2>3, WriteAdds
    <3>2. QED
      BY <1>0, <1>1, <2>1, <2>2, <3>1
  <2>4. CASE saving = None
    <3>0. Correcting /\ Owed(e) = 0 /\ Owed(e)' = 0
      BY <1>9, <2>4, WriteAdds DEF Write, Correcting
    <3>1. /\ loading # None /\ JobFile = loading /\ JobSum = loadSum
          /\ loading \in Files /\ loadSum \in Nat /\ Below(loading) = InFile(loading)
      BY <3>0, <2>4, Job, Numbers
    <3>2. CASE e # Dir(JobFile, level)
      <4>1. sums'[e] = sums[e]
        BY <1>9, <3>2, WriteAdds
      <4>2. QED
        BY <1>0, <1>1, <2>1, <2>2, <3>0, <4>1
    <3>3. CASE e = Dir(JobFile, level) /\ Adding
      <4>1. sums'[e] = sums[e] + loadSum
        BY <1>9, <3>1, <3>3, WriteAdds
      <4>2. QED
        BY <1>0, <1>1, <2>1, <2>2, <3>0, <3>1, <4>1
    <3>4. CASE e = Dir(JobFile, level) /\ ~Adding
      <4>1. level = Depth /\ e = loading
        <5>1. ~(level < Depth) /\ level \in 1 .. Depth /\ Depth \in Nat
          BY <3>4, StorageAssumption DEF Adding, TypeInv, TypeOK
        <5>2. level = Depth
          BY <5>1
        <5>3. QED
          BY <3>1, <3>4, <5>2, Tree
      <4>2. sums'[e] = loadSum
        BY <1>9, <3>1, <3>4, WriteAdds
      <4>3. Trouble' + loadSum = Trouble + Cardinality(InFile(loading))
        BY <1>9, <3>4, WriteMisses
      <4>4. Below(e)' = InFile(loading)
        BY <2>1, <3>1, <4>1 DEF Below
      <4>5. Cardinality(InFile(loading)) \in Nat
        BY <3>1, Numbers
      <4>6. QED
        BY <1>0, <3>0, <3>1, <4>2, <4>3, <4>4, <4>5
    <3>5. QED
      BY <3>2, <3>3, <3>4
  <2>5. QED
    BY <2>3, <2>4
<1>10. ASSUME NEW f \in Files, LoadRead(f) \/ LoadSkip(f)
       PROVE  sums'[e] + Trouble' + Owed(e)' >= Cardinality(Below(e)')
  <2>1. /\ step = "free" /\ step' = "free" /\ table' = table /\ sums' = sums /\ stored' = stored
        /\ UNCHANGED events \/ Fault
    BY <1>10 DEF LoadRead, LoadSkip, Held, files
  <2>2. Trouble' >= Trouble /\ Owed(e) = 0
    <3>1. Trouble' = Trouble \/ Trouble' = Trouble + 1
      BY <2>1, OneFault DEF Trouble, events
    <3>2. QED
      BY <1>0, <2>1, <3>1 DEF Owed, Correcting
  <2>3. QED
    BY <1>0, <1>1, <2>1, <2>2, UsableBack
<1>11. CASE LoadCorrect
  <2>1. /\ step = "free" /\ step' = "open" /\ table' = table /\ sums' = sums /\ stored' = stored
        /\ Trouble' = Trouble
    BY <1>11 DEF LoadCorrect, Held, files, events, Trouble
  <2>2. Owed(e) = 0
    BY <2>1 DEF Owed, Correcting
  <2>3. QED
    BY <1>0, <1>1, <2>1, <2>2, UsableBack
<1>12. CASE LoadDone \/ Serve \/ UNCHANGED vars
  <2>1. UNCHANGED <<files, step, level, saving, loading, events>>
    BY <1>12 DEF LoadDone, Serve, vars, loader
  <2>2. /\ Owed(e)' = Owed(e) /\ Trouble' = Trouble /\ sums' = sums /\ stored' = stored
        /\ \A d \in Dirs : Usable(d)' => Usable(d)
    BY <2>1 DEF files, events, Owed, Correcting, Trouble, Usable, Coming, JobDir, JobFile
  <2>3. QED
    BY <1>0, <1>1, <2>2
<1>13. CASE Kill
  <2>1. step' = "free" /\ table' = table /\ sums' = sums /\ stored' = stored
    BY <1>13 DEF Kill, files
  <2>2. Trouble' = IF step # "free" THEN Trouble + 1 ELSE Trouble
    BY <1>13 DEF Kill, Held, Trouble, TypeInv, TypeOK
  <2>3. step = "free" => Owed(e) = 0
    BY DEF Owed, Correcting
  <2>4. QED
    BY <1>0, <1>1, <2>1, <2>2, <2>3, UsableBack
<1>14. QED
  BY <1>2, <1>3, <1>4, <1>5, <1>6, <1>7, <1>8, <1>9, <1>10, <1>11, <1>12, <1>13 DEF Next

-----------------------------------------------------------------------------
\* Without trouble a load finds its file's entry as it should be, in a whole sums file.
LEMMA LoaderFinds ==
  ASSUME TypeInv, Untroubled, Trouble = 0, saving = None, Correcting
  PROVE  /\ level = Depth /\ JobFile = loading /\ loading \in Files /\ ~Adding
         /\ sums[loading] = Cardinality(InFile(loading)) /\ sums[loading] # 0
         /\ table[JobDir] = "whole" /\ loading \notin ghosts
<1>1. /\ loading # None /\ JobFile = loading /\ loading \in Files /\ level = Depth
      /\ loading \in made
  BY Job, Numbers DEF Untroubled
<1>2. ~Adding
  BY <1>1, StorageAssumption DEF Adding
<1>3. step # "append"
  BY DEF TypeInv, Shape
<1>4. InFile(loading) # {} /\ IsFiniteSet(InFile(loading))
  BY <1>1, <1>3, Counts DEF Untroubled, TypeInv, TypeOK
<1>5. Cardinality(InFile(loading)) # 0
  BY <1>4, FS_EmptySet
<1>6. loading \in Entries /\ Below(loading) = InFile(loading) /\ Owed(loading) = 0
  BY <1>1, Numbers, Tree DEF Owed
<1>7. sums[loading] = Cardinality(InFile(loading))
  BY <1>1, <1>6, Numbers DEF Untroubled
<1>8. JobDir \in Dirs /\ DirOf(loading) = JobDir
  BY <1>1, Job, Tree
<1>9. table[JobDir] \notin {"absent", "empty", "cut"}
  BY <1>5, <1>6, <1>7, <1>8 DEF TypeInv, Shape
<1>10. Usable(JobDir)
  BY <1>8 DEF Untroubled
<1>11. table[JobDir] = "whole"
  BY <1>9, <1>10 DEF Usable, Coming
<1>12. QED
  BY <1>1, <1>2, <1>5, <1>7, <1>11 DEF Untroubled

\* A step that leaves the blocks, the files and what is owed keeps them so.
LEMMA StillUntroubled ==
  ASSUME TypeInv, Untroubled, Trouble = 0, UNCHANGED <<stored, made, ghosts>>,
         \A e \in Entries : sums'[e] + Owed(e)' = sums[e] + Owed(e),
         \A d \in Dirs : Usable(d) => Usable(d)',
         step # "append", saving' = None => level' = Depth
  PROVE  Untroubled'
<1>1. \A e : Below(e)' = Below(e) /\ InFile(e)' = InFile(e)
  BY DEF Below, InFile
<1>2. \A e \in Entries : sums'[e] + Owed(e)' = Cardinality(Below(e)')
  BY <1>1 DEF Untroubled
<1>3. \A f \in made' : InFile(f)' # {}
  BY <1>1 DEF Untroubled
<1>4. ghosts' = {} /\ \A d \in Dirs : Usable(d)'
  BY DEF Untroubled
<1>5. QED
  BY <1>2, <1>3, <1>4 DEF Untroubled

\* Nothing takes the counts of the past back.
LEMMA UntroubledStep == TypeInv /\ Untroubled /\ [Next]_vars => Untroubled'
<1> SUFFICES ASSUME TypeInv, Untroubled, [Next]_vars, Trouble' = 0 PROVE Untroubled'
  BY DEF Untroubled
<1>0. /\ TypeInv' /\ Trouble \in Nat /\ Depth \in Nat
      /\ \A e \in Entries : sums[e] \in Nat /\ Owed(e) \in {0, 1} /\ Cardinality(Below(e)) \in Nat
  BY TypeStep, Numbers, StorageAssumption
<1>f. ~Fault
  <2>1. Trouble + 1 # 0
    BY <1>0
  <2>2. QED
    BY <2>1, OneFault
<1>q. ASSUME Trouble = 0, step # "write", table' = table PROVE \A d \in Dirs : Usable(d) => Usable(d)'
  BY <1>q DEF Usable, Coming
<1>1. ASSUME NEW b \in Blocks, Save(b) PROVE Untroubled'
  <2> USE <1>1 DEF Save, loader, events
  <2>1. Trouble = 0 /\ step = "free" /\ step' = "append" /\ saving' = b /\ saving' # None
    BY StorageAssumption DEF Trouble, Held
  <2>2. \A e : Below(e)' = Below(e) /\ InFile(e)' = InFile(e)
    BY DEF Below, InFile
  <2>3. \A e : Owed(e) = 0 /\ Owed(e)' = 0
    BY <2>1 DEF Owed, Correcting
  <2>4. \A e \in Entries : sums'[e] + Owed(e)' = Cardinality(Below(e)')
    BY <2>1, <2>2, <2>3 DEF Untroubled
  <2>5. \A d \in Dirs : Usable(d)'
    BY <1>q, <2>1 DEF Untroubled
  <2>6. \A f \in made' : InFile(f)' # {} \/ (step' = "append" /\ FileOf[saving'] = f)
    BY <2>1, <2>2 DEF Untroubled
  <2>7. ghosts' = {}
    BY <2>1 DEF Untroubled
  <2>8. QED
    BY <2>1, <2>4, <2>5, <2>6, <2>7 DEF Untroubled
<1>2. CASE SaveAppend
  <2>1. /\ step = "append" /\ step' = "open" /\ stored' = stored \cup {saving}
        /\ UNCHANGED <<made, ghosts, table, sums, saving, level, events>>
        /\ saving \in Blocks /\ saving \notin stored /\ saving # None /\ level = Depth
    BY <1>2, <1>f DEF SaveAppend, TypeInv, TypeOK, Shape, Correcting
  <2>2. Trouble = 0
    BY <2>1 DEF Trouble, events
  <2>3. ASSUME NEW e \in Entries PROVE sums'[e] + Owed(e)' = Cardinality(Below(e)')
    <3>1. Owed(e) = 0 /\ Owed(e)' = IF Dir(FileOf[saving], Len(e)) = e THEN 1 ELSE 0
      BY <2>1, Tree DEF Owed, Correcting
    <3>2. Cardinality(Below(e)') = Cardinality(Below(e)) + Owed(e)'
      BY <2>1, <3>1, OneMore DEF TypeInv, TypeOK
    <3>3. QED
      BY <1>0, <2>1, <2>2, <3>1, <3>2 DEF Untroubled
  <2>4. \A d \in Dirs : Usable(d)'
    BY <1>q, <2>1, <2>2 DEF Untroubled
  <2>5. \A f \in made' : InFile(f)' # {}
    <3>1. \A f \in made : InFile(f) # {} \/ FileOf[saving] = f
      BY <2>2 DEF Untroubled
    <3>2. saving \in stored' /\ stored \subseteq stored'
      BY <2>1
    <3>3. QED
      BY <2>1, <3>1, <3>2 DEF InFile
  <2>6. ghosts' = {} /\ saving' # None
    BY <2>1, <2>2 DEF Untroubled
  <2>7. QED
    BY <2>3, <2>4, <2>5, <2>6 DEF Untroubled
<1>3. CASE OpenSums \/ CreateSums
  <2>1. /\ step = "open" /\ step' = "write" /\ UNCHANGED <<stored, made, ghosts, sums>>
        /\ level' = level /\ saving' = saving /\ loading' = loading /\ Trouble = 0
        /\ Correcting
    BY <1>3 DEF OpenSums, CreateSums, files, loader, events, Trouble, Correcting
  <2>2. JobDir' = JobDir /\ \A e : Owed(e)' = Owed(e)
    BY <2>1 DEF JobDir, JobFile, Owed, Correcting
  <2>3. ASSUME NEW d \in Dirs, Usable(d) PROVE Usable(d)'
    <3>1. table[d] \in {"absent", "whole"}
      BY <2>1, <2>3 DEF Usable, Coming
    <3>2. CASE table' = table
      BY <3>1, <3>2 DEF Usable
    <3>3. CASE CreateSums
      <4>1. table' = [table EXCEPT ![JobDir] = "empty"] /\ table \in [Dirs -> States]
        BY <3>3 DEF CreateSums, TypeInv, TypeOK
      <4>2. CASE d = JobDir
        BY <2>1, <2>2, <4>1, <4>2 DEF Usable, Coming
      <4>3. CASE d # JobDir
        BY <3>1, <4>1, <4>3 DEF Usable
      <4>4. QED
        BY <4>2, <4>3
    <3>4. QED
      BY <1>3, <3>2, <3>3 DEF OpenSums, files
  <2>4. saving' = None => level' = Depth
    BY <2>1 DEF Untroubled
  <2>5. QED
    BY <2>1, <2>2, <2>3, <2>4, StillUntroubled
<1>4. CASE RejectSums
  <2>1. /\ step = "open" /\ table[JobDir] \in {"empty", "cut"} /\ Trouble = 0 /\ Correcting
    BY <1>4 DEF RejectSums, Unreadable, events, Trouble, Correcting
  <2>2. JobDir \in Dirs
    BY <2>1, Job
  <2>3. Usable(JobDir)
    BY <2>1, <2>2 DEF Untroubled
  <2>4. QED
    BY <2>1, <2>3 DEF Usable, Coming
<1>5. CASE TruncateSums \/ OpenFails \/ WriteFails
  BY <1>5, <1>f DEF TruncateSums, OpenFails, WriteFails
<1>6. CASE Agree
  <2>1. /\ Correcting /\ Finish /\ UNCHANGED files /\ step = "write"
        /\ Trouble = 0 /\ saving = None
    BY <1>6 DEF Agree, events, Correcting, Adding, Trouble
  <2>2. \A e : Owed(e) = 0 /\ Owed(e)' = 0
    BY <2>1 DEF Finish, Owed
  <2>3. table[JobDir] = "whole"
    BY <2>1, LoaderFinds
  <2>4. \A d \in Dirs : Usable(d) => Usable(d)'
    BY <2>1, <2>3 DEF Usable, Coming, files
  <2>5. QED
    BY <2>1, <2>2, <2>4, StillUntroubled DEF files, Finish
<1>7. CASE Write
  <2>1. Correcting /\ step = "write" /\ UNCHANGED <<stored, made>>
    BY <1>7 DEF Write, Correcting
  <2>2. Trouble = 0
    BY <1>0, <1>7, WriteMisses
  <2>3. ASSUME saving = None PROVE FALSE
    <3>1. ~Adding /\ sums[loading] = Cardinality(InFile(loading)) /\ loading \notin ghosts
          /\ loading \in Files
      BY <2>1, <2>2, <2>3, LoaderFinds
    <3>2. Trouble' + loadSum = Trouble + Cardinality(InFile(loading))
      BY <1>7, <3>1, WriteMisses
    <3>3. loadSum \in Nat /\ Cardinality(InFile(loading)) \in Nat
      BY <3>1, Numbers DEF TypeInv, TypeOK
    <3>4. loadSum = Cardinality(InFile(loading))
      BY <2>2, <3>2, <3>3
    <3>5. QED
      BY <1>7, <3>1, <3>3, <3>4 DEF Write, Needed
  <2>4. Adding
    BY <2>3 DEF Adding
  <2>5. \A e \in Entries : sums'[e] + Owed(e)' = sums[e] + Owed(e)
    BY <1>7, <2>3, WriteAdds
  <2>6. \A d \in Dirs : Usable(d) => Usable(d)'
    BY <1>7, WriteUsable
  <2>7. saving' = None => level' = Depth
    BY <1>7, <2>1, <2>3, MoveOn DEF Write, Finish, Up
  <2>8. ghosts' = ghosts
    BY <1>7, <2>4 DEF Write
  <2>9. QED
    BY <2>1, <2>2, <2>5, <2>6, <2>7, <2>8, StillUntroubled
<1>8. ASSUME NEW f \in Files, LoadRead(f) \/ LoadSkip(f) PROVE Untroubled'
  <2>1. /\ step = "free" /\ step' = "free" /\ UNCHANGED <<files, events, saving, level>>
    BY <1>8, <1>f DEF LoadRead, LoadSkip, Held
  <2>2. Trouble = 0 /\ \A e : Owed(e) = 0 /\ Owed(e)' = 0
    BY <2>1 DEF events, Trouble, Owed, Correcting
  <2>3. saving' = None => level' = Depth
    BY <2>1, <2>2 DEF Untroubled
  <2>4. QED
    BY <1>q, <2>1, <2>2, <2>3, StillUntroubled DEF files
<1>9. CASE LoadCorrect
  <2>1. /\ step = "free" /\ UNCHANGED <<files, events, saving, level>> /\ saving = None
    BY <1>9 DEF LoadCorrect, Held, TypeInv, Shape
  <2>2. Trouble = 0 /\ \A e : Owed(e) = 0 /\ Owed(e)' = 0
    BY <2>1 DEF events, Trouble, Owed
  <2>3. saving' = None => level' = Depth
    BY <2>1, <2>2 DEF Untroubled
  <2>4. QED
    BY <1>q, <2>1, <2>2, <2>3, StillUntroubled DEF files
<1>10. CASE LoadDone \/ Serve \/ UNCHANGED vars
  <2>1. UNCHANGED <<files, step, level, saving, loading, events>>
    BY <1>10 DEF LoadDone, Serve, vars, loader
  <2>2. /\ Trouble = 0
        /\ \A e : Owed(e)' = Owed(e) /\ Below(e)' = Below(e) /\ InFile(e)' = InFile(e)
        /\ \A d : Usable(d)' <=> Usable(d)
    BY <2>1 DEF files, events, Owed, Correcting, Trouble, Usable, Coming, JobDir, JobFile,
                Below, InFile
  <2>3. QED
    BY <2>1, <2>2 DEF Untroubled, files
<1>11. CASE Kill
  <2>1. /\ step' = "free" /\ UNCHANGED files /\ level' = Depth
        /\ Trouble' = IF step # "free" THEN Trouble + 1 ELSE Trouble
    BY <1>11 DEF Kill, Held, Trouble, TypeInv, TypeOK
  <2>2. step = "free" /\ Trouble = 0
    BY <1>0, <2>1
  <2>3. \A e : Owed(e) = 0 /\ Owed(e)' = 0
    BY <2>1, <2>2 DEF Owed, Correcting
  <2>4. QED
    BY <1>q, <2>1, <2>2, <2>3, StillUntroubled DEF files
<1>12. QED
  BY <1>1, <1>2, <1>3, <1>4, <1>5, <1>6, <1>7, <1>8, <1>9, <1>10, <1>11 DEF Next

-----------------------------------------------------------------------------
\* Every action keeps the start-up load right about the files it has come to.
LEMMA CleanStep == TypeInv /\ Clean /\ [Next]_vars => Clean'
<1> SUFFICES ASSUME TypeInv, Clean, [Next]_vars, phase' = "boot", ~hurt' PROVE Clean'
  BY DEF Clean
<1>0. /\ \A f \in Files : sums[f] \in Nat /\ Cardinality(InFile(f)) \in Nat
      /\ loading # None => loading \in Files /\ loading \in todo
      /\ Depth \in Nat /\ level \in 1 .. Depth
  BY Numbers, StorageAssumption DEF TypeInv, TypeOK, Shape
<1>f. ~Fault
  BY OneFault
<1>s. saving # None => phase = "run"
  BY DEF TypeInv, Shape
<1>1. ASSUME NEW b \in Blocks, Save(b) PROVE Clean'
  BY <1>1 DEF Save
<1>2. CASE SaveAppend
  BY <1>2, <1>s DEF SaveAppend, TypeInv, Shape
<1>3. CASE OpenSums \/ CreateSums
  <2>1. /\ UNCHANGED <<stored, sums, phase, level, loader, events>> /\ Correcting
    BY <1>3 DEF OpenSums, CreateSums, files, Correcting
  <2>2. \A f : InFile(f)' = InFile(f)
    BY <2>1 DEF InFile
  <2>3. QED
    BY <2>1, <2>2 DEF Clean, loader, events
<1>4. CASE RejectSums
  BY <1>4, <1>s DEF RejectSums, Stop
<1>5. CASE TruncateSums \/ OpenFails \/ WriteFails
  BY <1>5, <1>f DEF TruncateSums, OpenFails, WriteFails
<1>6. CASE Agree
  <2>1. /\ Correcting /\ Finish /\ UNCHANGED <<files, phase, events>> /\ saving = None
        /\ sums[loading] = loadSum
    BY <1>6 DEF Agree, Correcting, Adding
  <2>2. \A f : InFile(f)' = InFile(f)
    BY <2>1 DEF InFile, files
  <2>3. loading # None /\ loadSum = Cardinality(InFile(loading))
        /\ \A f \in Files \ todo : sums[f] = Cardinality(InFile(f))
    BY <2>1, Job DEF Clean, events
  <2>4. \A f \in Files \ todo' : sums'[f] = Cardinality(InFile(f)')
    BY <2>1, <2>2, <2>3 DEF Finish, files
  <2>5. loading' = None /\ ~Correcting'
    BY <2>1 DEF Finish, Correcting
  <2>6. QED
    BY <2>4, <2>5 DEF Clean
<1>7. CASE Write
  <2>1. /\ Correcting /\ step = "write" /\ stored' = stored /\ phase = "boot" /\ ~hurt
        /\ sums' = Written /\ sums \in [Entries -> Nat]
    BY <1>7 DEF Write, Correcting, TypeInv, TypeOK
  <2>2. /\ saving = None /\ loading # None /\ JobFile = loading /\ JobSum = loadSum
        /\ loading \in Files /\ loading \in todo
        /\ Dir(JobFile, level) \in Entries /\ Len(Dir(JobFile, level)) = level
    BY <1>0, <1>s, <2>1, Job
  <2>3. /\ loadSum = Cardinality(InFile(loading))
        /\ level < Depth => sums[loading] = loadSum
        /\ \A f \in Files \ todo : sums[f] = Cardinality(InFile(f))
    BY <2>1, <2>2 DEF Clean
  <2>4. /\ level < Depth => sums'[loading] = sums[loading]
        /\ \A f \in Files \ {loading} : sums'[f] = sums[f]
    <3>1. ASSUME NEW f \in Files, f = Dir(JobFile, level) PROVE f = loading /\ level = Depth
      BY <2>2, <3>1, Tree
    <3>2. \A f \in Files : f # Dir(JobFile, level) => sums'[f] = sums[f]
      BY <2>1, Tree DEF Written
    <3>3. level < Depth => loading # Dir(JobFile, level)
      BY <1>0, <2>2, <3>1
    <3>4. QED
      BY <2>2, <3>1, <3>2, <3>3
  <2>5. level = Depth => sums'[loading] = loadSum
    <3>1. ASSUME level = Depth PROVE sums'[loading] = loadSum
      <4>1. ~Adding /\ Dir(JobFile, level) = loading
        BY <1>0, <2>2, <3>1, Tree DEF Adding
      <4>2. loadSum \in Nat
        BY DEF TypeInv, TypeOK
      <4>3. QED
        BY <2>1, <2>2, <4>1, <4>2, Tree DEF Written
    <3>2. QED
      BY <3>1
  <2>6. sums'[loading] = loadSum
    BY <1>0, <2>3, <2>4, <2>5
  <2>7. \A f : InFile(f)' = InFile(f)
    BY <2>1 DEF InFile
  <2>8. CASE Finish
    <3>1. todo' = todo \ {loading} /\ loading' = None /\ step' = "free"
      BY <2>2, <2>8 DEF Finish
    <3>2. \A f \in Files \ todo' : sums'[f] = Cardinality(InFile(f)')
      BY <2>3, <2>4, <2>6, <2>7, <3>1
    <3>3. QED
      BY <3>1, <3>2 DEF Clean, Correcting
  <2>9. CASE UNCHANGED <<saving, loader>>
    <3>1. todo' = todo /\ loading' = loading /\ loadSum' = loadSum
      BY <2>9 DEF loader
    <3>2. \A f \in Files \ todo' : sums'[f] = Cardinality(InFile(f)')
      BY <2>2, <2>3, <2>4, <2>7, <3>1
    <3>3. QED
      BY <2>3, <2>6, <2>7, <3>1, <3>2 DEF Clean
  <2>10. QED
    BY <1>7, <2>8, <2>9 DEF Write, Up
<1>8. ASSUME NEW f \in Files, LoadRead(f) PROVE Clean'
  <2>1. /\ UNCHANGED <<files, events, step, level, todo, phase>> /\ loading' = f
        /\ loadSum' = Cardinality(InFile(f)) /\ step = "free"
    BY <1>8, <1>f DEF LoadRead, Held
  <2>2. \A g : InFile(g)' = InFile(g)
    BY <2>1 DEF InFile, files
  <2>3. QED
    BY <2>1, <2>2 DEF Clean, Correcting, files, events
<1>9. ASSUME NEW f \in Files, LoadSkip(f) PROVE Clean'
  <2>1. /\ UNCHANGED <<files, events, step, level, loading, loadSum, phase>>
        /\ todo' = todo \ {f} /\ f \notin made /\ step = "free"
    BY <1>9, <1>f DEF LoadSkip, Held
  <2>2. \A g : InFile(g)' = InFile(g)
    BY <2>1 DEF InFile, files
  <2>3. sums[f] = 0 /\ Cardinality(InFile(f)) = 0
    BY <2>1, FS_EmptySet DEF TypeInv, Shape
  <2>4. QED
    BY <2>1, <2>2, <2>3 DEF Clean, Correcting, files, events
<1>10. CASE LoadCorrect
  <2>1. /\ UNCHANGED <<files, events, level, loader, phase>> /\ level = Depth
    BY <1>10 DEF LoadCorrect, Held, TypeInv, Shape, Correcting
  <2>2. \A g : InFile(g)' = InFile(g)
    BY <2>1 DEF InFile, files
  <2>3. ~(level' < Depth)
    BY <1>0, <2>1
  <2>4. QED
    BY <2>1, <2>2, <2>3 DEF Clean, loader, files, events
<1>11. CASE LoadDone \/ Serve
  BY <1>11 DEF LoadDone, Serve
<1>12. CASE Kill
  BY <1>12 DEF Kill, Clean, Correcting, TypeInv, TypeOK
<1>13. CASE UNCHANGED vars
  <2>1. \A g : InFile(g)' = InFile(g)
    BY <1>13 DEF InFile, vars, files
  <2>2. QED
    BY <1>13, <2>1 DEF Clean, Correcting, vars, loader, files, events
<1>14. QED
  BY <1>1, <1>2, <1>3, <1>4, <1>5, <1>6, <1>7, <1>8, <1>9, <1>10, <1>11, <1>12, <1>13 DEF Next

LEMMA InvInit == Init => Inv
<1> SUFFICES ASSUME Init PROVE Inv
  OBVIOUS
<1>1. TypeInv
  BY TypeInit
<1>2. \A e : Below(e) = {} /\ InFile(e) = {}
  BY DEF Init, Below, InFile
<1>3. \A e \in Entries : sums[e] = 0 /\ Owed(e) = 0 /\ Cardinality(Below(e)) = 0
  BY <1>2, FS_EmptySet DEF Init, Owed
<1>4. Trouble = 0
  BY DEF Init, Trouble
<1>5. FewLost
  BY <1>3, <1>4 DEF FewLost
<1>6. Untroubled
  BY <1>3 DEF Init, Untroubled, Usable
<1>7. Clean
  BY DEF Init, Clean, Correcting
<1>8. QED
  BY <1>1, <1>5, <1>6, <1>7 DEF Inv

LEMMA InvStep == Inv /\ [Next]_vars => Inv'
  BY TypeStep, FewLostStep, UntroubledStep, CleanStep DEF Inv

\* Until the process is killed inside a save or a correction, a file fails or a
\* correction leaves blocks out, every entry is the sum of the blocks below it
\* whenever nobody works on the sums: saves, loads by the wallet and for its peers,
\* and the starts that check what was stored, in any order.
THEOREM SumsStayExact == Spec => []ExactUndisturbed
<1>1. Inv => ExactUndisturbed
  <2> SUFFICES ASSUME Inv, Trouble = 0, ~Held, NEW e \in Entries
               PROVE  sums[e] = Cardinality(Below(e))
    BY DEF ExactUndisturbed, SumsExact
  <2>1. Owed(e) = 0
    BY DEF Owed, Held, Correcting
  <2>2. sums[e] \in Nat
    BY Numbers DEF Inv
  <2>3. QED
    BY <2>1, <2>2 DEF Inv, Untroubled
<1>2. QED
  BY InvInit, InvStep, <1>1, PTL DEF Spec

\* Every kill, failure or block left out costs an entry at most one block, unless it
\* left a sums file that the entry depends on unreadable or without its entries.
THEOREM FewAreLost == Spec => []LossBounded
<1>1. Inv => LossBounded
  <2> SUFFICES ASSUME Inv, ~Held, NEW e \in Entries, Sound(e)
               PROVE  sums[e] + Trouble >= Cardinality(Below(e))
    BY DEF LossBounded
  <2>1. Owed(e) = 0
    BY DEF Owed, Held, Correcting
  <2>2. Intact(e)
    BY DEF Intact, Sound, Usable
  <2>3. sums[e] \in Nat /\ Trouble \in Nat
    BY Numbers DEF Inv
  <2>4. QED
    BY <2>1, <2>2, <2>3 DEF Inv, FewLost
<1>2. QED
  BY InvInit, InvStep, <1>1, PTL DEF Spec

\* A start-up load that comes to its end without a failure of its own leaves every
\* file's entry as the blocks in the file say, whatever happened before.
THEOREM LoadRepairs == Spec => LeavesRepaired
<1>1. Inv /\ [Next]_vars =>
        [phase = "boot" /\ phase' = "run" /\ todo = {} /\ ~hurt =>
           \A f \in Files : sums[f] = Cardinality(InFile(f))]_vars
  BY DEF Inv, Clean
<1>2. QED
  BY InvInit, InvStep, <1>1, PTL DEF Spec, LeavesRepaired
=============================================================================
