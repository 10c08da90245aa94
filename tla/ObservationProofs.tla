------------------------- MODULE ObservationProofs -------------------------
(***************************************************************************)
(* What holds of the observation of a repository for every tree of         *)
(* directories, every set of files and contents, every chunk size, cap and *)
(* bound: the watches stay within their budget, a quiet service has seen   *)
(* what it watches, a backend shows only manifests that were published     *)
(* whole, ends with the newest of them, and ends with the strongest        *)
(* evidence of every read.                                                 *)
(***************************************************************************)
EXTENDS Observation, FiniteSetTheorems, SequenceTheorems, WellFoundedInduction, TLAPS

-----------------------------------------------------------------------------
\* The budget of watches.

\* A set of naturals that is not empty has a least element.
LEMMA Least ==
  ASSUME NEW S \in SUBSET Nat, S # {}
  PROVE  \E x \in S : \A y \in S : x <= y
<1> DEFINE R == OpToRel(<, Nat)
<1>1. IsWellFoundedOn(R, Nat)
  BY NatLessThanWellFounded
<1>2. \A x, y \in Nat : y < x => <<y, x>> \in R
  BY DEF OpToRel
<1> HIDE DEF R
<1>3. PICK x \in S : \A y \in S : ~(<<y, x>> \in R)
  BY <1>1, WFMin
<1>4. ASSUME NEW y \in S PROVE x <= y
  <2>1. x \in Nat /\ y \in Nat /\ ~(y < x)
    BY <1>2, <1>3
  <2> QED
    BY <2>1
<1> QED
  BY <1>4

\* The elements before e in a walk.
Before(tree, e) == {f \in tree : f < e}

\* At most k of the directories of a walk have fewer than k before them.
LEMMA RankBound ==
  ASSUME NEW tree \in SUBSET Nat, IsFiniteSet(tree), NEW k \in Nat
  PROVE  Cardinality({e \in tree : Cardinality(Before(tree, e)) < k}) <= k
<1> DEFINE R == {e \in tree : Cardinality(Before(tree, e)) < k}
<1>1. \A e \in tree : IsFiniteSet(Before(tree, e)) /\ Cardinality(Before(tree, e)) \in Nat
  BY FS_Subset, FS_CardinalityType DEF Before
<1>2. IsFiniteSet(R) /\ Cardinality(R) \in Nat
  BY FS_Subset, FS_CardinalityType
<1>3. CASE R = {}
  BY <1>3, FS_EmptySet
<1>4. CASE R # {}
  <2> DEFINE S == {k - Cardinality(Before(tree, e)) : e \in R}
  <2>0. \A g \in R : g \in tree /\ g \in Nat /\ k - Cardinality(Before(tree, g)) \in Nat
    BY <1>1
  <2>1. S \in SUBSET Nat /\ S # {}
    BY <1>4, <2>0
  <2>2. PICK x \in S : \A y \in S : x <= y
    BY <2>1, Least
  <2>3. PICK e \in R : x = k - Cardinality(Before(tree, e))
    BY <2>2
  <2>4. \A g \in R : Cardinality(Before(tree, g)) <= Cardinality(Before(tree, e))
    BY <1>1, <2>2, <2>3
  <2>5. ASSUME NEW g \in R, g > e PROVE FALSE
    <3>1. Before(tree, e) \cup {e} \in SUBSET Before(tree, g) /\ e \notin Before(tree, e)
      <4> HIDE DEF R
      <4>1. e \in tree /\ e \in Nat /\ g \in Nat /\ ~(e < e) /\ e < g
        BY <2>0, <2>5
      <4>2. \A f \in tree : f < e => f < g
        BY <4>1
      <4> QED
        BY <4>1, <4>2 DEF Before
    <3>2. Cardinality(Before(tree, e) \cup {e}) = Cardinality(Before(tree, e)) + 1
      BY <1>1, <3>1, FS_AddElement
    <3>3. Cardinality(Before(tree, e) \cup {e}) <= Cardinality(Before(tree, g))
      BY <1>1, <3>1, FS_Subset
    <3> QED
      BY <1>1, <2>4, <3>2, <3>3
  <2>6. R \ {e} \in SUBSET Before(tree, e)
    <3> HIDE DEF R
    <3>1. \A g \in R : g = e \/ g < e
      BY <2>0, <2>5
    <3> QED
      BY <2>0, <3>1 DEF Before
  <2>7. Cardinality(R \ {e}) = Cardinality(R) - 1
    BY <1>2, FS_RemoveElement
  <2>8. Cardinality(R \ {e}) <= Cardinality(Before(tree, e))
    BY <1>1, <2>6, FS_Subset
  <2> QED
    BY <1>1, <1>2, <2>7, <2>8
<1> QED
  BY <1>3, <1>4

\* The budget, with the types of what it counts.
Budget == WatchTypeOK /\ DescriptorBudget

\* Watching another tree spends at most what is left.
LEMMA AddTreeBudget ==
  ASSUME Budget, NEW tree \in SUBSET onDisk, AddTree(tree)
  PROVE  /\ list' \subseteq onDisk /\ watched' \in Nat
         /\ DescriptorBudget'
<1> DEFINE R == Registered(tree)
           k == MaxDirs - watched
<1>1. /\ onDisk \subseteq Dirs /\ list \subseteq onDisk /\ watched \in Nat /\ watched <= MaxDirs /\ MaxDirs \in Nat
      /\ k \in Nat /\ Cardinality(list) <= watched /\ Dirs \subseteq Nat /\ IsFiniteSet(Dirs)
  BY TreeAssumption DEF Budget, WatchTypeOK, DescriptorBudget
<1>2. IsFiniteSet(list) /\ IsFiniteSet(tree) /\ Cardinality(list) \in Nat /\ tree \in SUBSET Nat
  <2>1. list \in SUBSET Dirs /\ tree \in SUBSET Dirs
    BY <1>1
  <2> QED
    BY <1>1, <2>1, FS_Subset, FS_CardinalityType
<1>3. R \in SUBSET tree
  BY DEF Registered
<1>4. IsFiniteSet(R) /\ Cardinality(R) \in Nat
  BY <1>2, <1>3, FS_Subset, FS_CardinalityType
<1>5. R = {e \in tree : Cardinality(Before(tree, e)) < k}
  <2>1. \A e \in tree : Cardinality(Before(tree, e)) \in Nat
    BY <1>2, FS_Subset, FS_CardinalityType DEF Before
  <2>2. \A e \in tree : watched + Cardinality(Before(tree, e)) < MaxDirs <=> Cardinality(Before(tree, e)) < k
    BY <1>1, <2>1
  <2> HIDE DEF k
  <2> QED
    BY <2>2 DEF Registered, Before
<1>6. Cardinality(R) <= k
  BY <1>1, <1>2, <1>5, RankBound
<1>7. list' = list \cup R /\ watched' = watched + Cardinality(R)
  BY DEF AddTree
<1> HIDE DEF R
<1>8. Cardinality(list \cup R) = Cardinality(list) + Cardinality(R) - Cardinality(list \cap R)
  BY <1>2, <1>4, FS_Union
<1>9. Cardinality(list \cap R) \in Nat
  BY <1>2, FS_Intersection, FS_CardinalityType
<1>10. Cardinality(list') <= watched' /\ watched' <= MaxDirs /\ watched' \in Nat
  BY <1>1, <1>2, <1>4, <1>6, <1>7, <1>8, <1>9
<1> QED
  BY <1>1, <1>3, <1>7, <1>10 DEF DescriptorBudget

\* What Remove gives back is what it releases.
LEMMA RemoveBudget ==
  ASSUME Budget, NEW r \in Repos, Remove(r)
  PROVE  /\ list' \subseteq onDisk /\ watched' \in Nat
         /\ DescriptorBudget'
<1> DEFINE gone == {d \in list : Within[d, r]}
<1>1. /\ onDisk \subseteq Dirs /\ list \subseteq onDisk /\ watched \in Nat /\ watched <= MaxDirs /\ MaxDirs \in Nat
      /\ Cardinality(list) <= watched /\ IsFiniteSet(Dirs)
  BY TreeAssumption DEF Budget, WatchTypeOK, DescriptorBudget
<1>2. IsFiniteSet(list) /\ Cardinality(list) \in Nat
  <2>1. list \in SUBSET Dirs
    BY <1>1
  <2> QED
    BY <1>1, <2>1, FS_Subset, FS_CardinalityType
<1>3. gone \in SUBSET list /\ list \cap gone = gone /\ list' = list \ gone
  BY DEF Remove
<1>4. watched' = IF watched - Cardinality(gone) < 0 THEN 0 ELSE watched - Cardinality(gone)
  BY DEF Remove
<1> HIDE DEF gone
<1>5. IsFiniteSet(gone) /\ Cardinality(gone) \in Nat /\ Cardinality(gone) <= Cardinality(list)
  BY <1>2, <1>3, FS_Subset, FS_CardinalityType
<1>6. Cardinality(list \ gone) = Cardinality(list) - Cardinality(gone)
  BY <1>2, <1>3, FS_Difference
<1>7. Cardinality(list') <= watched' /\ watched' <= MaxDirs /\ watched' \in Nat
  BY <1>1, <1>2, <1>3, <1>4, <1>5, <1>6
<1> QED
  BY <1>1, <1>3, <1>7 DEF DescriptorBudget

\* A watch that is dropped, or a budget that is not touched.
LEMMA DroppedBudget ==
  ASSUME Budget, list' \subseteq list, watched' = watched
  PROVE  DescriptorBudget'
<1>1. IsFiniteSet(list) /\ list' \in SUBSET list
  BY TreeAssumption, FS_Subset DEF Budget, WatchTypeOK
<1>2. Cardinality(list') <= Cardinality(list) /\ Cardinality(list') \in Nat /\ Cardinality(list) \in Nat
  BY <1>1, FS_Subset, FS_CardinalityType
<1> QED
  BY <1>2, TreeAssumption DEF Budget, WatchTypeOK, DescriptorBudget

\* What a step does to the watches.
WatchMoves ==
  \/ UNCHANGED <<onDisk, roots, list, watched, created>> /\ timer' \in {TRUE, FALSE, timer}
  \/ \E d \in Dirs : MakeDir(d) \/ RemoveDir(d) \/ HandleCreated(d)
  \/ \E r \in Repos : Add(r) \/ Remove(r)
  \/ Boot
  \/ WatchStop

\* Every step is one of these for the watches.
LEMMA WatchCases == [Next]_vars => WatchMoves
<1> SUFFICES ASSUME [Next]_vars PROVE WatchMoves
  OBVIOUS
<1>1. CASE MemberStep
  BY <1>1 DEF MemberStep, Edit, Stage, Commit, ChangeDirs, Connect, Schedule, watchVars, WatchMoves
<1>2. CASE ServiceStep
  BY <1>2 DEF ServiceStep, Created, StartScan, ReadLayer, ScanUnchanged, PublishManifest, Extract, ScanRecord,
     ScanReport, ScanStep, watchVars, WatchMoves
<1>3. CASE ReadSetStep
  BY <1>3 DEF ReadSetStep, StartReads, SeedRecord, SeedReport, ReadRecord, ReadReport, ReaderStep, watchVars, WatchMoves
<1>4. CASE Stop \/ StoreFails \/ Deliver \/ Refuse \/ Move \/ UNCHANGED vars
  BY <1>4 DEF Stop, StoreFails, Deliver, Refuse, Move, vars, watchVars, WatchMoves
<1> QED
  BY <1>1, <1>2, <1>3, <1>4 DEF Next

\* Every step keeps the budget.
LEMMA BudgetStep == Budget /\ [Next]_vars => Budget'
<1> SUFFICES ASSUME Budget, [Next]_vars PROVE Budget'
  OBVIOUS
<1>0. /\ onDisk \subseteq Dirs /\ roots \subseteq Repos /\ list \subseteq onDisk /\ watched \in Nat
      /\ created \subseteq Dirs /\ timer \in BOOLEAN
  BY DEF Budget, WatchTypeOK
<1>1. CASE UNCHANGED <<onDisk, roots, list, watched, created>> /\ timer' \in {TRUE, FALSE, timer}
  BY <1>0, <1>1, DroppedBudget DEF Budget, WatchTypeOK
<1>2. ASSUME NEW d \in Dirs, MakeDir(d) PROVE Budget'
  <2>1. /\ onDisk' = onDisk \cup {d} /\ UNCHANGED <<roots, list, watched, timer>>
        /\ created' \subseteq created \cup {d}
    BY <1>2 DEF MakeDir
  <2> QED
    BY <1>0, <2>1, DroppedBudget DEF Budget, WatchTypeOK
<1>3. ASSUME NEW d \in Dirs, RemoveDir(d) PROVE Budget'
  <2>1. /\ onDisk' \subseteq onDisk /\ list' \subseteq list /\ list' \subseteq onDisk'
        /\ UNCHANGED <<roots, watched, created>> /\ timer' \in BOOLEAN
    BY <1>0, <1>3 DEF RemoveDir
  <2> QED
    BY <1>0, <2>1, DroppedBudget DEF Budget, WatchTypeOK
<1>4. ASSUME NEW d \in Dirs, HandleCreated(d) PROVE Budget'
  <2>1. created' \subseteq created /\ timer' = TRUE /\ UNCHANGED <<onDisk, roots>>
    BY <1>4 DEF HandleCreated
  <2>2. CASE d \in onDisk
    <3>1. AddTree(Walk(d, HasRules(d))) /\ Walk(d, HasRules(d)) \in SUBSET onDisk
      BY <1>4, <2>2 DEF HandleCreated, Walk
    <3>2. list' \subseteq onDisk /\ watched' \in Nat /\ DescriptorBudget'
      BY <3>1, AddTreeBudget
    <3> QED
      BY <1>0, <2>1, <3>2 DEF Budget, WatchTypeOK
  <2>3. CASE d \notin onDisk
    BY <1>0, <1>4, <2>1, <2>3, DroppedBudget DEF HandleCreated, Budget, WatchTypeOK
  <2> QED
    BY <2>2, <2>3
<1>5. ASSUME NEW r \in Repos, Add(r) PROVE Budget'
  <2>1. AddTree(Walk(r, TRUE)) /\ Walk(r, TRUE) \in SUBSET onDisk /\ roots' = roots \cup {r}
        /\ UNCHANGED <<onDisk, created, timer>>
    BY <1>5 DEF Add, Walk
  <2>2. list' \subseteq onDisk /\ watched' \in Nat /\ DescriptorBudget'
    BY <2>1, AddTreeBudget
  <2> QED
    BY <1>0, <2>1, <2>2 DEF Budget, WatchTypeOK
<1>6. ASSUME NEW r \in Repos, Remove(r) PROVE Budget'
  <2>1. roots' \subseteq roots /\ UNCHANGED <<onDisk, created, timer>>
    BY <1>6 DEF Remove
  <2>2. list' \subseteq onDisk /\ watched' \in Nat /\ DescriptorBudget'
    BY <1>6, RemoveBudget
  <2> QED
    BY <1>0, <2>1, <2>2 DEF Budget, WatchTypeOK
<1>7. CASE Boot
  <2> DEFINE tree == UNION {Walk(r, TRUE) : r \in Repos}
  <2>1. AddTree(tree) /\ roots' = Repos /\ UNCHANGED <<onDisk, created, timer>>
    BY <1>7 DEF Boot
  <2>2. tree \in SUBSET onDisk
    BY DEF Walk
  <2> HIDE DEF tree
  <2>3. list' \subseteq onDisk /\ watched' \in Nat /\ DescriptorBudget'
    BY <2>1, <2>2, AddTreeBudget
  <2> QED
    BY <1>0, <2>1, <2>3 DEF Budget, WatchTypeOK
<1>8. CASE WatchStop
  <2>1. roots' = {} /\ list' = {} /\ watched' = 0 /\ created' = {} /\ timer' = FALSE /\ onDisk' = onDisk
    BY <1>8 DEF WatchStop
  <2>2. Cardinality(list') = 0
    BY <2>1, FS_EmptySet
  <2>3. watched' = 0
    BY <2>1
  <2>4. DescriptorBudget'
    BY <2>2, <2>3, TreeAssumption DEF DescriptorBudget
  <2> QED
    BY <1>0, <2>1, <2>4 DEF Budget, WatchTypeOK
<1> QED
  BY <1>1, <1>2, <1>3, <1>4, <1>5, <1>6, <1>7, <1>8, WatchCases DEF WatchMoves

\* At first nothing is watched.
LEMMA BudgetInit == Init => Budget
<1> SUFFICES ASSUME Init PROVE Budget
  OBVIOUS
<1>1. Cardinality(list) = 0
  BY FS_EmptySet DEF Init, WatchInit
<1>2. watched = 0
  BY DEF Init, WatchInit
<1>3. DescriptorBudget
  BY <1>1, <1>2, TreeAssumption DEF DescriptorBudget
<1> QED
  BY <1>3, TreeAssumption DEF Init, WatchInit, Budget, WatchTypeOK

\* maxWatchedDirectories "caps how many directories one Watcher will register": no
\* sequence of connections, disconnections, new and deleted trees and restarts
\* leaves more watches than the budget counts, nor more than the cap.
THEOREM BudgetKept == Spec => []DescriptorBudget
<1>1. Budget => DescriptorBudget
  BY DEF Budget
<1> QED
  BY <1>1, BudgetInit, BudgetStep, PTL DEF Spec

-----------------------------------------------------------------------------
\* Types of what the service holds.

Stages == Layers \cup {"idle", "publish", "extract", "record", "report"}
Scans == [pc : Stages, man : Manifest, files : [Files -> Int]]
Revisions == [rev : Nat, man : Manifest]
Evidence == [hash : Int, fidelity : 0..3]
ReaderRecords == [pc : {"idle", "seed", "seedReport", "record", "report"}, file : Files \cup {0}, hash : Int,
                  fidelity : 0..3]

RepoTyped == head \in [Files -> Contents] /\ index \in [Files -> Contents] /\ work \in [Files -> Contents]
ScanTyped == scan \in Scans /\ active \in Revisions /\ up \in BOOLEAN /\ blind \subseteq Files
ReaderTyped ==
  /\ fp \in [Files -> Int] /\ reads \in [Files -> Evidence] /\ reader \in [Readers -> ReaderRecords]
  /\ \A r \in Readers : reader[r].pc # "idle" => reader[r].file \in Files
CountsTyped == ops \in Nat /\ readCount \in Nat /\ faults \in Nat /\ moves \in Nat

ServiceTyped == RepoTyped /\ ScanTyped /\ ReaderTyped /\ CountsTyped

\* What there is at the beginning, and after a scan or a report.
LEMMA BlankTypes ==
  /\ IdleScan \in Scans /\ IdleScan.pc = "idle" /\ \A f \in Files : IdleScan.man[f] = {}
  /\ NoManifest \in Revisions /\ NoManifest.rev = 0
  /\ IdleReader \in ReaderRecords /\ IdleReader.pc = "idle"
  /\ NoRead \in Evidence /\ NoRead.fidelity = 0 /\ NoFiles \in [Files -> Int]
<1>1. NoManifest \in Revisions /\ NoManifest.rev = 0 /\ \A f \in Files : NoManifest.man[f] = {}
  BY DEF NoManifest, Revisions, Manifest
<1>2. NoFiles \in [Files -> Int]
  BY DEF NoFiles, NoSurface
<1>3. IdleReader \in ReaderRecords /\ IdleReader.pc = "idle" /\ NoRead \in Evidence /\ NoRead.fidelity = 0
  BY DEF IdleReader, ReaderRecords, NoRead, Evidence, NoSurface
<1>4. NoManifest.man \in Manifest
  BY <1>1 DEF Revisions
<1>5. IdleScan \in Scans /\ IdleScan.pc = "idle" /\ IdleScan.man = NoManifest.man
  BY <1>2, <1>4 DEF IdleScan, Scans, Stages
<1> QED
  BY <1>1, <1>2, <1>3, <1>5

\* The steps of a scan.
Scanning ==
  ReadLayer \/ ScanUnchanged \/ PublishManifest \/ Extract \/ ScanRecord \/ ScanReport

\* What one layer adds to a manifest is a manifest.
LEMMA MergeTyped ==
  ASSUME NEW man \in Manifest, NEW layer \in Layers
  PROVE  Merge(man, layer) \in Manifest
BY DEF Merge, Manifest

\* A scan goes through its stages.
LEMMA ScanBecomes ==
  ASSUME ServiceTyped
  PROVE  /\ ReadLayer => /\ scan' \in Scans /\ scan'.man = Merge(scan.man, scan.pc)
                         /\ scan'.pc = NextLayer[scan.pc] /\ scan'.pc \in {"worktree", "index", "publish"}
         /\ PublishManifest => scan' \in Scans /\ scan'.pc = "extract" /\ scan'.man = scan.man
         /\ Extract => scan' \in Scans /\ scan'.pc = "record" /\ scan'.man = scan.man
         /\ ScanRecord => scan' \in Scans /\ (scan' = IdleScan \/ (scan'.pc = "report" /\ scan'.man = scan.man))
         /\ StartScan \/ Boot => scan' \in Scans /\ scan'.pc = "baseline" /\ \A f \in Files : scan'.man[f] = {}
<1>0. scan \in Scans /\ scan.man \in Manifest /\ scan.files \in [Files -> Int]
  BY DEF ServiceTyped, ScanTyped, Scans
<1>1. /\ "worktree" \in Stages /\ "index" \in Stages /\ "publish" \in Stages /\ "extract" \in Stages
      /\ "record" \in Stages /\ "report" \in Stages /\ "baseline" \in Stages
  BY DEF Stages, Layers
<1>2. ASSUME ReadLayer
      PROVE  /\ scan' \in Scans /\ scan'.man = Merge(scan.man, scan.pc)
             /\ scan'.pc = NextLayer[scan.pc] /\ scan'.pc \in {"worktree", "index", "publish"}
  <2>1. scan.pc \in Layers /\ Merge(scan.man, scan.pc) \in Manifest
    BY <1>0, <1>2, MergeTyped DEF ReadLayer
  <2>2. NextLayer[scan.pc] \in {"worktree", "index", "publish"} /\ NextLayer[scan.pc] \in Stages
    BY <1>1, <2>1 DEF NextLayer, Layers
  <2>3. scan' = [scan EXCEPT !.man = Merge(scan.man, scan.pc), !.pc = NextLayer[scan.pc]]
    BY <1>2 DEF ReadLayer
  <2> QED
    BY <1>0, <2>1, <2>2, <2>3 DEF Scans
<1>3. ASSUME PublishManifest PROVE scan' \in Scans /\ scan'.pc = "extract" /\ scan'.man = scan.man
  BY <1>0, <1>1, <1>3 DEF PublishManifest, Scans
<1>4. ASSUME Extract PROVE scan' \in Scans /\ scan'.pc = "record" /\ scan'.man = scan.man
  <2> DEFINE files == [f \in Files |-> IF f \in Changed(scan.man) THEN Surface[work[f]] ELSE NoSurface]
  <2>1. files \in [Files -> Int]
    BY ObservationAssumption DEF ServiceTyped, RepoTyped, NoSurface
  <2>2. scan' = [scan EXCEPT !.pc = "record", !.files = files]
    BY <1>4 DEF Extract
  <2> HIDE DEF files
  <2> QED
    BY <1>0, <1>1, <2>1, <2>2 DEF Scans
<1>5. ASSUME ScanRecord
      PROVE  scan' \in Scans /\ (scan' = IdleScan \/ (scan'.pc = "report" /\ scan'.man = scan.man))
  <2> DEFINE files == [f \in Files |-> IF f \in News(scan.files) THEN scan.files[f] ELSE NoSurface]
  <2>1. files \in [Files -> Int]
    BY <1>0 DEF NoSurface
  <2>2. scan' = IdleScan \/ scan' = [scan EXCEPT !.pc = "report", !.files = files]
    BY <1>5 DEF ScanRecord
  <2> HIDE DEF files
  <2> QED
    BY <1>0, <1>1, <2>1, <2>2, BlankTypes DEF Scans
<1>6. ASSUME StartScan \/ Boot
      PROVE  scan' \in Scans /\ scan'.pc = "baseline" /\ \A f \in Files : scan'.man[f] = {}
  <2>1. scan' = [IdleScan EXCEPT !.pc = "baseline"]
    BY <1>6 DEF StartScan, Boot
  <2>2. scan' \in Scans /\ scan'.pc = "baseline" /\ scan'.man = IdleScan.man
    BY <1>1, <2>1, BlankTypes DEF Scans
  <2> QED
    BY <2>2, BlankTypes
<1> QED
  BY <1>2, <1>3, <1>4, <1>5, <1>6

\* What a report of reads is after a step.
ReaderIs(r, x) ==
  /\ x \in ReaderRecords /\ (x.pc # "idle" => x.file \in Files)
  /\ reader' = [reader EXCEPT ![r] = x]

\* Every step of a report of reads.
LEMMA ReaderBecomes ==
  ASSUME ServiceTyped, NEW r \in Readers
  PROVE  /\ \A f \in Files : StartReads(r, f) =>
              \E x : ReaderIs(r, x) /\ x.pc \in {"seed", "record"} /\ x.file = f /\ x.fidelity = r
         /\ SeedRecord(r) =>
              \E x : /\ ReaderIs(r, x) /\ x.pc \in {"record", "seedReport"} /\ x.file = reader[r].file
                     /\ x.fidelity = reader[r].fidelity
         /\ SeedReport(r) =>
              \E x : ReaderIs(r, x) /\ x.pc = "record" /\ x.file = reader[r].file /\ x.fidelity = reader[r].fidelity
         /\ ReadRecord(r) =>
              \E x, kept :
                 /\ ReaderIs(r, x) /\ kept \in Evidence
                 /\ reads' = [reads EXCEPT ![reader[r].file] = kept]
                 /\ kept.fidelity = Stronger(reads[reader[r].file].fidelity, reader[r].fidelity)
                 /\ \/ x = IdleReader /\ kept = reads[reader[r].file]
                    \/ x.pc = "report" /\ x.file = reader[r].file /\ x.fidelity = kept.fidelity
         /\ ReadReport(r) => ReaderIs(r, IdleReader)
<1> DEFINE k == reader[r]
<1>0. /\ k \in ReaderRecords /\ k.pc # "idle" => k.file \in Files
      /\ reader \in [Readers -> ReaderRecords] /\ reads \in [Files -> Evidence]
      /\ r \in 0..3 /\ NoSurface \in Int
  BY ObservationAssumption DEF ServiceTyped, ReaderTyped, NoSurface
<1>1. ASSUME NEW f \in Files, StartReads(r, f)
      PROVE  \E x : ReaderIs(r, x) /\ x.pc \in {"seed", "record"} /\ x.file = f /\ x.fidelity = r
  <2>1. Surface[work[f]] \in Int /\ fp[f] \in Int
    BY ObservationAssumption DEF ServiceTyped, RepoTyped, ReaderTyped
  <2>2. PICK x \in {[pc |-> "seed", file |-> f, hash |-> Surface[work[f]], fidelity |-> r],
                    [pc |-> "record", file |-> f, hash |-> fp[f], fidelity |-> r]} :
             reader' = [reader EXCEPT ![r] = x]
    BY <1>1 DEF StartReads
  <2>3. x \in ReaderRecords /\ x.pc \in {"seed", "record"} /\ x.file = f /\ x.fidelity = r
    BY <1>0, <2>1, <2>2 DEF ReaderRecords
  <2> QED
    BY <2>2, <2>3 DEF ReaderIs
<1>2. ASSUME SeedRecord(r)
      PROVE  \E x : /\ ReaderIs(r, x) /\ x.pc \in {"record", "seedReport"} /\ x.file = k.file
                    /\ x.fidelity = k.fidelity
  <2>1. PICK pc \in {"record", "seedReport"} : reader' = [reader EXCEPT ![r].pc = pc]
    BY <1>2 DEF SeedRecord
  <2>2. k.file \in Files /\ reader' = [reader EXCEPT ![r] = [k EXCEPT !.pc = pc]]
    BY <1>0, <1>2, <2>1 DEF SeedRecord
  <2>3. /\ [k EXCEPT !.pc = pc] \in ReaderRecords /\ [k EXCEPT !.pc = pc].file = k.file
        /\ [k EXCEPT !.pc = pc].fidelity = k.fidelity /\ [k EXCEPT !.pc = pc].pc = pc
    BY <1>0 DEF ReaderRecords
  <2> QED
    BY <2>2, <2>3 DEF ReaderIs
<1>3. ASSUME SeedReport(r)
      PROVE  \E x : ReaderIs(r, x) /\ x.pc = "record" /\ x.file = k.file /\ x.fidelity = k.fidelity
  <2>1. k.file \in Files /\ reader' = [reader EXCEPT ![r] = [k EXCEPT !.pc = "record"]]
    BY <1>0, <1>3 DEF SeedReport
  <2>2. /\ [k EXCEPT !.pc = "record"] \in ReaderRecords /\ [k EXCEPT !.pc = "record"].file = k.file
        /\ [k EXCEPT !.pc = "record"].fidelity = k.fidelity /\ [k EXCEPT !.pc = "record"].pc = "record"
    BY <1>0 DEF ReaderRecords
  <2> QED
    BY <2>1, <2>2 DEF ReaderIs
<1>4. ASSUME ReadRecord(r)
      PROVE  \E x, kept :
                /\ ReaderIs(r, x) /\ kept \in Evidence
                /\ reads' = [reads EXCEPT ![k.file] = kept]
                /\ kept.fidelity = Stronger(reads[k.file].fidelity, k.fidelity)
                /\ \/ x = IdleReader /\ kept = reads[k.file]
                   \/ x.pc = "report" /\ x.file = k.file /\ x.fidelity = kept.fidelity
  <2> DEFINE best == Stronger(reads[k.file].fidelity, k.fidelity)
             kept == [hash |-> k.hash, fidelity |-> best]
             news == [k EXCEPT !.pc = "report", !.fidelity = kept.fidelity]
  <2>1. k.file \in Files
    BY <1>0, <1>4 DEF ReadRecord
  <2>2. best \in 0..3
    BY <1>0, <2>1 DEF Stronger, Evidence, ReaderRecords
  <2>3. /\ reads' = [reads EXCEPT ![k.file] = kept]
        /\ reader' = [reader EXCEPT ![r] = IF kept = reads[k.file] THEN IdleReader ELSE news]
    BY <1>4 DEF ReadRecord
  <2> HIDE DEF best
  <2>4. kept \in Evidence /\ kept.fidelity = best
    BY <1>0, <2>2 DEF Evidence, ReaderRecords
  <2> HIDE DEF kept
  <2>5. news \in ReaderRecords /\ news.pc = "report" /\ news.file = k.file /\ news.fidelity = kept.fidelity
    BY <1>0, <2>2, <2>4 DEF ReaderRecords
  <2> HIDE DEF news
  <2>6. CASE kept = reads[k.file]
    <3>1. reader' = [reader EXCEPT ![r] = IdleReader]
      BY <2>3, <2>6
    <3>2. ReaderIs(r, IdleReader)
      BY <3>1, BlankTypes DEF ReaderIs
    <3> QED
      BY <2>3, <2>4, <2>6, <3>2 DEF best
  <2>7. CASE kept # reads[k.file]
    <3>1. reader' = [reader EXCEPT ![r] = news]
      BY <2>3, <2>7
    <3>2. ReaderIs(r, news)
      BY <2>1, <2>5, <3>1 DEF ReaderIs
    <3> QED
      BY <2>3, <2>4, <2>5, <3>2 DEF best
  <2> QED
    BY <2>6, <2>7
<1>5. ASSUME ReadReport(r) PROVE ReaderIs(r, IdleReader)
  BY <1>5, BlankTypes DEF ReadReport, ReaderIs
<1> QED
  BY <1>1, <1>2, <1>3, <1>4, <1>5

\* A reader is exchanged for another one.
LEMMA ReaderSet ==
  ASSUME ServiceTyped, NEW r \in Readers, NEW x, ReaderIs(r, x)
  PROVE  /\ reader' \in [Readers -> ReaderRecords] /\ reader'[r] = x
         /\ \A q \in Readers : q # r => reader'[q] = reader[q]
         /\ \A q \in Readers : reader'[q].pc # "idle" => reader'[q].file \in Files
BY DEF ServiceTyped, ReaderTyped, ReaderIs

\* Which steps change what the service holds.
LEMMA ServiceCases ==
  ASSUME [Next]_vars
  PROVE  /\ \/ UNCHANGED <<head, index, work>> \/ Commit
            \/ \E f \in Files : Stage(f) \/ \E c \in Contents : Edit(f, c)
         /\ \/ UNCHANGED <<scan, active, up, blind>> \/ Scanning
            \/ Commit \/ Connect \/ Boot \/ Stop \/ StartScan \/ StoreFails \/ \E f \in Files : Stage(f)
         /\ \/ UNCHANGED <<fp, reads, reader>> \/ ScanRecord \/ Stop \/ StoreFails \/ ReadSetStep
         /\ \/ UNCHANGED <<reads, reader>> \/ Stop \/ StoreFails \/ ReadSetStep
         /\ ops' \in {ops, ops + 1} /\ readCount' \in {readCount, readCount + 1}
         /\ faults' \in {faults, faults + 1} /\ moves' \in {moves, moves + 1}
<1>1. CASE MemberStep
  <2>1. CASE \E f \in Files, c \in Contents : Edit(f, c)
    BY <2>1 DEF Edit, OthersUnchanged, Operate, storeVars
  <2>2. CASE (\E f \in Files : Stage(f)) \/ Commit \/ ChangeDirs \/ Connect
    BY <2>2 DEF Stage, Commit, ChangeDirs, Connect, OthersUnchanged, Operate, storeVars, repoVars
  <2> QED
    BY <1>1, <2>1, <2>2 DEF MemberStep
<1>2. CASE ServiceStep
  BY <1>2 DEF ServiceStep, Scanning, Boot, Created, StartScan, ReadLayer, ScanUnchanged, PublishManifest, Extract,
     ScanRecord, ScanReport, ScanStep, storeVars, repoVars, countVars, historyVars
<1>3. CASE ReadSetStep
  BY <1>3 DEF ReadSetStep, StartReads, SeedRecord, SeedReport, ReadRecord, ReadReport, ReaderStep, repoVars, historyVars
<1>4. CASE Stop \/ StoreFails \/ Deliver \/ Refuse \/ Move \/ UNCHANGED vars
  BY <1>4 DEF Stop, StoreFails, Deliver, Refuse, Move, Fault, vars, storeVars, repoVars, countVars, historyVars
<1> QED
  BY <1>1, <1>2, <1>3, <1>4 DEF Next

\* The types hold at first.
LEMMA ServiceTypedInit == Init => ServiceTyped
<1> SUFFICES ASSUME Init PROVE ServiceTyped
  OBVIOUS
<1>1. RepoTyped /\ CountsTyped
  BY ObservationAssumption DEF Init, RepoTyped, CountsTyped
<1>2. ScanTyped
  BY BlankTypes DEF Init, ScanTyped
<1>3. ReaderTyped
  BY BlankTypes DEF Init, ReaderTyped
<1> QED
  BY <1>1, <1>2, <1>3 DEF ServiceTyped

\* Every step keeps these types.
LEMMA ServiceTypedStep == ServiceTyped /\ [Next]_vars => ServiceTyped'
<1> SUFFICES ASSUME ServiceTyped, [Next]_vars PROVE ServiceTyped'
  OBVIOUS
<1>1. RepoTyped'
  <2>1. ASSUME NEW f \in Files, Stage(f) \/ \E c \in Contents : Edit(f, c) PROVE RepoTyped'
    BY <2>1 DEF Stage, Edit, ServiceTyped, RepoTyped
  <2>2. CASE Commit \/ UNCHANGED <<head, index, work>>
    BY <2>2 DEF Commit, ServiceTyped, RepoTyped
  <2> QED
    BY <2>1, <2>2, ServiceCases
<1>2. ScanTyped'
  <2>0. scan \in Scans /\ active \in Revisions /\ up \in BOOLEAN /\ blind \subseteq Files
    BY DEF ServiceTyped, ScanTyped
  <2>1. CASE UNCHANGED <<scan, active, up, blind>>
    BY <2>0, <2>1 DEF ScanTyped
  <2>2. CASE Scanning
    <3>1. scan' \in Scans
      BY <2>0, <2>2, ScanBecomes, BlankTypes DEF Scanning, ScanUnchanged, ScanReport
    <3>2. UNCHANGED <<up, blind>>
      BY <2>2 DEF Scanning, ReadLayer, ScanUnchanged, PublishManifest, Extract, ScanRecord, ScanReport, ScanStep
    <3>3. active' \in Revisions
      <4>1. CASE PublishManifest
        <5>1. active' = [rev |-> active.rev + 1, man |-> scan.man] /\ active.rev \in Nat /\ scan.man \in Manifest
          BY <2>0, <4>1 DEF PublishManifest, Revisions, Scans
        <5> QED
          BY <5>1 DEF Revisions
      <4>2. CASE ~PublishManifest
        BY <2>0, <2>2, <4>2 DEF Scanning, ReadLayer, ScanUnchanged, Extract, ScanRecord, ScanReport, storeVars
      <4> QED
        BY <4>1, <4>2
    <3> QED
      BY <2>0, <3>1, <3>2, <3>3 DEF ScanTyped
  <2>3. CASE Commit \/ Connect \/ \E f \in Files : Stage(f)
    <3>1. UNCHANGED <<scan, active, up>> /\ blind' \subseteq Files
      BY <2>0, <2>3 DEF Commit, Connect, Stage, OthersUnchanged, storeVars
    <3> QED
      BY <2>0, <3>1 DEF ScanTyped
  <2>4. CASE Boot \/ StartScan
    <3>1. scan' \in Scans /\ active' = active /\ up' \in BOOLEAN /\ blind' = {}
      BY <2>0, <2>4, ScanBecomes DEF Boot, StartScan, storeVars
    <3> QED
      BY <2>0, <3>1 DEF ScanTyped
  <2>5. CASE Stop \/ StoreFails
    <3>1. scan' \in {scan, IdleScan} /\ active' = active /\ up' \in BOOLEAN /\ blind' \subseteq Files
      BY <2>0, <2>5 DEF Stop, StoreFails, storeVars, historyVars
    <3> QED
      BY <2>0, <3>1, BlankTypes DEF ScanTyped
  <2> QED
    BY <2>1, <2>2, <2>3, <2>4, <2>5, ServiceCases
<1>3. ReaderTyped'
  <2>0. /\ fp \in [Files -> Int] /\ reads \in [Files -> Evidence] /\ reader \in [Readers -> ReaderRecords]
        /\ \A r \in Readers : reader[r].pc # "idle" => reader[r].file \in Files
    BY DEF ServiceTyped, ReaderTyped
  <2>1. CASE UNCHANGED <<fp, reads, reader>>
    BY <2>0, <2>1 DEF ReaderTyped
  <2>2. \A files \in [Files -> Int] : Recorded(files) \in [Files -> Int]
    BY <2>0 DEF Recorded
  <2>3. CASE ScanRecord
    <3>1. fp' = Recorded(scan.files) /\ UNCHANGED <<reads, reader>> /\ scan.files \in [Files -> Int]
      BY <2>3 DEF ScanRecord, ScanStep, ServiceTyped, ScanTyped, Scans
    <3> QED
      BY <2>0, <2>2, <3>1 DEF ReaderTyped
  <2>4. CASE Stop
    <3>1. UNCHANGED <<fp, reads>> /\ reader' = [r \in Readers |-> IdleReader]
      BY <2>4 DEF Stop, storeVars
    <3> QED
      BY <2>0, <3>1, BlankTypes DEF ReaderTyped
  <2>5. CASE StoreFails
    <3>1. UNCHANGED <<fp, reads>> /\ (reader' = reader \/ \E r \in Readers : reader' = [reader EXCEPT ![r] = IdleReader])
      BY <2>5 DEF StoreFails, storeVars
    <3> QED
      BY <2>0, <3>1, BlankTypes DEF ReaderTyped
  <2>6. ASSUME NEW r \in Readers,
               (\E f \in Files : StartReads(r, f)) \/ SeedRecord(r) \/ SeedReport(r) \/ ReadRecord(r) \/ ReadReport(r)
        PROVE  ReaderTyped'
    <3>1. PICK x : ReaderIs(r, x)
      BY <2>6, ReaderBecomes
    <3>2. /\ reader' \in [Readers -> ReaderRecords]
          /\ \A q \in Readers : reader'[q].pc # "idle" => reader'[q].file \in Files
      BY <3>1, ReaderSet
    <3>3. fp' \in [Files -> Int]
      <4>1. CASE SeedRecord(r)
        <5>1. Seen(r) \in [Files -> Int]
          BY <2>0 DEF Seen, ReaderRecords, NoSurface
        <5> QED
          BY <2>2, <4>1, <5>1 DEF SeedRecord
      <4>2. CASE ~SeedRecord(r)
        BY <2>0, <2>6, <4>2 DEF StartReads, SeedReport, ReadRecord, ReadReport
      <4> QED
        BY <4>1, <4>2
    <3>4. reads' \in [Files -> Evidence]
      <4>1. CASE ReadRecord(r)
        <5>1. PICK kept \in Evidence : reads' = [reads EXCEPT ![reader[r].file] = kept]
          BY <4>1, ReaderBecomes
        <5> QED
          BY <2>0, <5>1
      <4>2. CASE ~ReadRecord(r)
        BY <2>0, <2>6, <4>2 DEF StartReads, SeedRecord, SeedReport, ReadReport
      <4> QED
        BY <4>1, <4>2
    <3> QED
      BY <3>2, <3>3, <3>4 DEF ReaderTyped
  <2> QED
    BY <2>1, <2>3, <2>4, <2>5, <2>6, ServiceCases DEF ReadSetStep
<1>4. CountsTyped'
  BY ServiceCases DEF ServiceTyped, CountsTyped
<1> QED
  BY <1>1, <1>2, <1>3, <1>4 DEF ServiceTyped

-----------------------------------------------------------------------------
\* A quiet service has seen what it watches.

\* The layers git would name for a file now.
Now(f) == {l \in Layers : f \in Diff(l)}

\* A scan is still to come.
Pending == timer = TRUE \/ created # {}

\* A watched file is seen: by the part of the scan that is done, or in the active
\* manifest.
SeenSoFar(f) ==
  \/ scan.pc = "baseline" /\ scan.man[f] = {}
  \/ scan.pc = "worktree" /\ scan.man[f] = Now(f) \cap {"baseline"}
  \/ scan.pc = "index" /\ scan.man[f] = Now(f) \cap {"baseline", "worktree"}
  \/ scan.pc = "publish" /\ scan.man[f] = Now(f)
  \/ scan.pc \in {"idle", "extract", "record", "report"} /\ active.man[f] = Now(f)

Observed ==
  up = TRUE => \A f \in Files : f \notin blind /\ DirOf[f] \in list => Pending \/ SeenSoFar(f)

\* What git names depends on the three contents of the file.
LEMMA NowLayers ==
  ASSUME NEW f \in Files
  PROVE  /\ "baseline" \in Now(f) <=> head[f] # 0
         /\ "worktree" \in Now(f) <=> work[f] # index[f]
         /\ "index" \in Now(f) <=> index[f] # head[f]
         /\ Now(f) \subseteq {"baseline", "worktree", "index"}
BY DEF Now, Diff, Layers

\* The same of the next state, for a file that does not change.
LEMMA NowSame ==
  ASSUME NEW f \in Files, head'[f] = head[f], index'[f] = index[f], work'[f] = work[f]
  PROVE  Now(f)' = Now(f)
BY DEF Now, Diff, Layers

\* Reading a layer adds it exactly when git names it now.
LEMMA MergeSees ==
  ASSUME ServiceTyped, NEW f \in Files, ReadLayer, SeenSoFar(f)
  PROVE  SeenSoFar(f)'
<1>1. scan.pc \in {"baseline", "worktree", "index"} /\ UNCHANGED <<head, index, work, active>>
  BY DEF ReadLayer, Layers, ScanStep, repoVars, storeVars
<1>2. Now(f)' = Now(f)
  BY <1>1, NowSame
<1>3. scan'.man = Merge(scan.man, scan.pc) /\ scan'.pc = NextLayer[scan.pc]
  BY ScanBecomes
<1>4. /\ NextLayer["baseline"] = "worktree" /\ NextLayer["worktree"] = "index" /\ NextLayer["index"] = "publish"
  BY DEF NextLayer
<1>5. scan'.man[f] = IF scan.pc \in Now(f) THEN scan.man[f] \cup {scan.pc} ELSE scan.man[f]
  BY <1>1, <1>3 DEF Merge, Now, Layers
<1>6. Now(f) \subseteq {"baseline", "worktree", "index"}
  BY NowLayers
<1>7. CASE scan.pc = "baseline"
  <2>1. scan'.pc = "worktree" /\ scan'.man[f] = Now(f) \cap {"baseline"}
    BY <1>3, <1>4, <1>5, <1>7 DEF SeenSoFar
  <2> QED
    BY <1>2, <2>1 DEF SeenSoFar
<1>8. CASE scan.pc = "worktree"
  <2>1. scan'.pc = "index" /\ scan'.man[f] = Now(f) \cap {"baseline", "worktree"}
    BY <1>3, <1>4, <1>5, <1>8 DEF SeenSoFar
  <2> QED
    BY <1>2, <2>1 DEF SeenSoFar
<1>9. CASE scan.pc = "index"
  <2>1. scan'.pc = "publish" /\ scan'.man[f] = Now(f)
    BY <1>3, <1>4, <1>5, <1>6, <1>9 DEF SeenSoFar
  <2> QED
    BY <1>2, <2>1 DEF SeenSoFar
<1> QED
  BY <1>1, <1>7, <1>8, <1>9

\* Every step keeps it: whatever could hide a change schedules a scan.
LEMMA ObservedStep == Budget /\ ServiceTyped /\ Observed /\ [Next]_vars => Observed'
<1> SUFFICES ASSUME Budget, ServiceTyped, Observed, [Next]_vars, up' = TRUE,
                    NEW f \in Files, f \notin blind', DirOf[f] \in list'
             PROVE  Pending' \/ SeenSoFar(f)'
  BY DEF Observed
<1>0. timer \in BOOLEAN /\ scan \in Scans /\ active \in Revisions /\ up \in BOOLEAN
  BY DEF Budget, WatchTypeOK, ServiceTyped, ScanTyped
<1>1. ASSUME head'[f] = head[f], index'[f] = index[f], work'[f] = work[f], UNCHANGED <<scan, active>>, SeenSoFar(f)
      PROVE  SeenSoFar(f)'
  <2>1. Now(f)' = Now(f)
    BY <1>1, NowSame
  <2> QED
    BY <1>1, <2>1 DEF SeenSoFar
<1>2. ASSUME up' = up, f \notin blind, DirOf[f] \in list, Pending => Pending',
             head'[f] = head[f], index'[f] = index[f], work'[f] = work[f], UNCHANGED <<scan, active>>
      PROVE  Pending' \/ SeenSoFar(f)'
  BY <1>1, <1>2 DEF Observed
<1>3. ASSUME NEW g \in Files, NEW c \in Contents, Edit(g, c) PROVE Pending' \/ SeenSoFar(f)'
  <2>1. /\ UNCHANGED <<head, index, up, scan, active, list, created, blind>> /\ work' = [work EXCEPT ![g] = c]
        /\ DirOf[g] \in list => timer' = TRUE
        /\ timer' = TRUE \/ timer' = timer
    BY <1>3 DEF Edit, Schedule, OthersUnchanged, storeVars
  <2>2. CASE timer' = TRUE
    BY <2>2 DEF Pending
  <2>3. CASE timer' # TRUE
    <3>1. f # g /\ timer' = timer
      BY <2>1, <2>3
    <3>2. work'[f] = work[f]
      BY <2>1, <3>1 DEF ServiceTyped, RepoTyped
    <3> QED
      BY <1>2, <2>1, <3>1, <3>2 DEF Pending
  <2> QED
    BY <2>2, <2>3
<1>4. ASSUME NEW g \in Files, Stage(g) PROVE Pending' \/ SeenSoFar(f)'
  <2>1. /\ UNCHANGED <<head, work, up, scan, active, list, created, timer>> /\ index' = [index EXCEPT ![g] = work[g]]
        /\ blind' = blind \cup {g}
    BY <1>4 DEF Stage, OthersUnchanged, storeVars, watchVars
  <2>2. index'[f] = index[f] /\ f \notin blind
    BY <2>1 DEF ServiceTyped, RepoTyped
  <2> QED
    BY <1>2, <2>1, <2>2 DEF Pending
<1>5. CASE Commit
  <2>1. /\ UNCHANGED <<index, work, up, scan, active, list, created, timer>> /\ head' = index
        /\ blind' = blind \cup {g \in Files : head[g] # index[g]}
    BY <1>5 DEF Commit, OthersUnchanged, storeVars, watchVars
  <2>2. head'[f] = head[f] /\ f \notin blind
    BY <2>1
  <2> QED
    BY <1>2, <2>1, <2>2 DEF Pending
<1>6. CASE ChangeDirs
  <2>1. UNCHANGED <<head, index, work, up, scan, active, blind>>
    BY <1>6 DEF ChangeDirs, OthersUnchanged, storeVars, repoVars
  <2>2. list' \subseteq list /\ created \subseteq created' /\ (timer = TRUE => timer' = TRUE)
    <3>1. ASSUME NEW d \in Dirs, MakeDir(d) \/ RemoveDir(d)
          PROVE  list' \subseteq list /\ created \subseteq created' /\ (timer = TRUE => timer' = TRUE)
      BY <3>1 DEF MakeDir, RemoveDir
    <3> QED
      BY <1>6, <3>1 DEF ChangeDirs
  <2>3. f \notin blind /\ DirOf[f] \in list /\ (Pending => Pending')
    BY <2>1, <2>2 DEF Pending
  <2> QED
    BY <1>2, <2>1, <2>3
<1>7. CASE Connect
  <2>1. /\ UNCHANGED <<head, index, work, up, scan, active, created, timer>>
        /\ blind' = blind \cup {g \in Files : DirOf[g] \in list' \ list}
    BY <1>7 DEF Connect, Add, Remove, OthersUnchanged, storeVars, repoVars
  <2>2. f \notin blind /\ DirOf[f] \in list
    BY <2>1
  <2> QED
    BY <1>2, <2>1, <2>2 DEF Pending
<1>8. CASE Boot \/ StartScan
  BY <1>8, ScanBecomes DEF SeenSoFar
<1>9. CASE Created
  <2>1. timer' = TRUE
    BY <1>9 DEF Created, HandleCreated
  <2> QED
    BY <2>1 DEF Pending
<1>10. CASE Scanning
  <2>1. UNCHANGED <<head, index, work, up, list, created, timer, blind>>
    BY <1>10 DEF Scanning, ReadLayer, ScanUnchanged, PublishManifest, Extract, ScanRecord, ScanReport, ScanStep,
       repoVars, watchVars
  <2>2. Now(f)' = Now(f)
    BY <2>1, NowSame
  <2>3. Pending \/ SeenSoFar(f)
    BY <2>1 DEF Observed
  <2>4. CASE Pending
    BY <2>1, <2>4 DEF Pending
  <2>5. CASE SeenSoFar(f)
    <3>1. CASE ReadLayer
      BY <2>5, <3>1, MergeSees
    <3>2. CASE ScanUnchanged
      <4>1. scan.pc = "publish" /\ scan.man = active.man /\ scan' = IdleScan /\ active' = active
        BY <3>2 DEF ScanUnchanged, Hash, storeVars
      <4> QED
        BY <2>2, <2>5, <4>1, BlankTypes DEF SeenSoFar
    <3>3. CASE PublishManifest
      <4>1. scan.pc = "publish" /\ active'.man = scan.man /\ scan'.pc = "extract"
        BY <3>3, ScanBecomes DEF PublishManifest
      <4> QED
        BY <2>2, <2>5, <4>1 DEF SeenSoFar
    <3>4. CASE Extract \/ ScanRecord \/ ScanReport
      <4>1. scan.pc \in {"extract", "record", "report"} /\ active' = active
        BY <3>4 DEF Extract, ScanRecord, ScanReport, storeVars
      <4>2. scan'.pc \in {"idle", "record", "report"}
        BY <3>4, ScanBecomes, BlankTypes DEF ScanReport
      <4> QED
        BY <2>2, <2>5, <4>1, <4>2 DEF SeenSoFar
    <3> QED
      BY <1>10, <3>1, <3>2, <3>3, <3>4 DEF Scanning
  <2> QED
    BY <2>3, <2>4, <2>5
<1>11. CASE StoreFails
  <2>1. UNCHANGED <<head, index, work, up, list, created, timer, active>>
    BY <1>11 DEF StoreFails, repoVars, watchVars, storeVars
  <2>2. CASE scan.pc \in {"publish", "record", "report"} /\ scan' = IdleScan /\ blind' = IF scan.pc = "publish" THEN Files ELSE blind
    <3>1. scan.pc \in {"record", "report"} /\ f \notin blind
      BY <2>2
    <3>2. Pending \/ SeenSoFar(f)
      BY <2>1, <3>1 DEF Observed
    <3>3. Now(f)' = Now(f)
      BY <2>1, NowSame
    <3> QED
      BY <2>1, <2>2, <3>1, <3>2, <3>3, BlankTypes DEF SeenSoFar, Pending
  <2>3. CASE UNCHANGED <<scan, blind>>
    BY <1>2, <2>1, <2>3 DEF Pending
  <2> QED
    BY <1>11, <2>2, <2>3 DEF StoreFails
<1>12. CASE Stop
  BY <1>12 DEF Stop
<1>13. CASE ReadSetStep \/ Deliver \/ Refuse \/ Move \/ UNCHANGED vars
  <2>1. UNCHANGED <<head, index, work, up, list, created, timer, active, scan, blind>>
    <3>1. CASE ReadSetStep
      BY <3>1 DEF ReadSetStep, StartReads, SeedRecord, SeedReport, ReadRecord, ReadReport, ReaderStep,
         repoVars, historyVars, watchVars
    <3>2. CASE Deliver \/ Refuse \/ Move \/ UNCHANGED vars
      BY <3>2 DEF Deliver, Refuse, Move, vars, watchVars, repoVars, storeVars, historyVars
    <3> QED
      BY <1>13, <3>1, <3>2
  <2> QED
    BY <1>2, <2>1 DEF Pending
<1> QED
  BY <1>3, <1>4, <1>5, <1>6, <1>7, <1>8, <1>9, <1>10, <1>11, <1>12, <1>13
     DEF Next, MemberStep, ServiceStep, Scanning

\* With nothing left to scan, the active manifest is what git would report now of
\* every file in a watched directory, but for what changed below .git: the debounce
\* timer, the scan that runs and the Create events together forget no edit, for
\* every tree, budget and order of steps.
THEOREM QuietHasSeen == Spec => []QuietMeansObserved
<1>1. Init => Observed
  BY DEF Init, Observed
<1>2. ASSUME Budget, ServiceTyped, Observed PROVE QuietMeansObserved
  <2> SUFFICES ASSUME Quiet, NEW f \in Files, f \notin blind, DirOf[f] \in list
               PROVE  active.man[f] = Now(f)
    BY DEF QuietMeansObserved, Now
  <2>1. up = TRUE /\ timer = FALSE /\ created = {} /\ scan.pc = "idle"
    BY <1>2 DEF Quiet, Budget, WatchTypeOK, ServiceTyped, ScanTyped
  <2> QED
    BY <1>2, <2>1 DEF Observed, Pending, SeenSoFar
<1> QED
  BY <1>1, <1>2, BudgetInit, ServiceTypedInit, BudgetStep, ServiceTypedStep, ObservedStep, PTL DEF Spec

-----------------------------------------------------------------------------
\* Events, their queue and what a backend makes of them.

Entries == Files \X SUBSET Layers
StartedEvents == [type : {"started"}, rev : Nat, count : Nat]
ChunkEvents == [type : {"chunk"}, rev : Nat, at : Nat, entries : SUBSET Entries]
CompletedEvents == [type : {"completed"}, rev : Nat, hash : Manifest]
FingerprintEvents == [type : {"fingerprints"}, files : [Files -> Int]]
ReadEvents == [type : {"read"}, file : Files, hash : Int, fidelity : 0..3]
Events == StartedEvents \cup ChunkEvents \cup CompletedEvents \cup FingerprintEvents \cup ReadEvents

Staged == [rev : Nat, count : Nat, got : SUBSET Nat, entries : SUBSET Entries]
Backends == [staged : SUBSET Staged, active : Revisions, fp : [Files -> Int], reads : [Files -> Evidence]]

DeliveryTyped ==
  /\ queue \in Seq(Events) /\ published \in Seq(Manifest) /\ active.rev = Len(published)
  /\ backend \in Backends

\* The kinds of event are told apart by their type.
LEMMA EventKinds ==
  ASSUME NEW e \in Events
  PROVE  /\ e.type = "started" <=> e \in StartedEvents
         /\ e.type = "chunk" <=> e \in ChunkEvents
         /\ e.type = "completed" <=> e \in CompletedEvents
         /\ e.type = "fingerprints" <=> e \in FingerprintEvents
         /\ e.type = "read" <=> e \in ReadEvents
         /\ e.type \in {"started", "chunk", "completed", "fingerprints", "read"}
<1>1. e \in StartedEvents => e.type = "started"
  BY DEF StartedEvents
<1>2. e \in ChunkEvents => e.type = "chunk"
  BY DEF ChunkEvents
<1>3. e \in CompletedEvents => e.type = "completed"
  BY DEF CompletedEvents
<1>4. e \in FingerprintEvents => e.type = "fingerprints"
  BY DEF FingerprintEvents
<1>5. e \in ReadEvents => e.type = "read"
  BY DEF ReadEvents
<1> QED
  BY <1>1, <1>2, <1>3, <1>4, <1>5 DEF Events

\* Chunks are counted from zero, and every changed file lies in one of them.
LEMMA Division ==
  ASSUME NEW a \in Nat, NEW n \in Nat, NEW k \in Nat \ {0}
  PROVE  /\ a \div k \in Nat
         /\ (n + k - 1) \div k \in Nat
         /\ a < n => a \div k < (n + k - 1) \div k
<1>1. a \div k \in Nat
  BY Z3
<1>2. (n + k - 1) \div k \in Nat
  BY Z3
<1>3. a < n => a \div k < (n + k - 1) \div k
  BY Z3
<1> QED
  BY <1>1, <1>2, <1>3

\* The events of a manifest: its start, its chunks in order, its completion.
LEMMA ManifestQueued ==
  ASSUME NEW rev \in Nat, NEW man \in Manifest
  PROVE  LET n == ChunkCount(man)
             ev == ManifestEvents(rev, man)
         IN /\ n \in Nat /\ ev \in Seq(Events) /\ Len(ev) = n + 2
            /\ ev[1] = [type |-> "started", rev |-> rev, count |-> n]
            /\ \A i \in 1..n : ev[i + 1] = [type |-> "chunk", rev |-> rev, at |-> i - 1, entries |-> Chunk(man, i - 1)]
            /\ ev[n + 2] = [type |-> "completed", rev |-> rev, hash |-> man]
<1> DEFINE n == ChunkCount(man)
           first == [type |-> "started", rev |-> rev, count |-> n]
           last == [type |-> "completed", rev |-> rev, hash |-> man]
           piece(i) == [type |-> "chunk", rev |-> rev, at |-> i - 1, entries |-> Chunk(man, i - 1)]
           mid == [i \in 1..n |-> piece(i)]
<1>1. n \in Nat
  <2>1. IsFiniteSet(Changed(man)) /\ Cardinality(Changed(man)) \in Nat
    BY ObservationAssumption, FS_Subset, FS_CardinalityType DEF Changed
  <2> QED
    BY <2>1, Division, ObservationAssumption DEF ChunkCount
<1>2. first \in Events /\ last \in Events
  <2>1. first \in StartedEvents
    BY <1>1 DEF StartedEvents
  <2>2. last \in CompletedEvents
    BY DEF CompletedEvents
  <2> QED
    BY <2>1, <2>2 DEF Events
<1>3. \A i \in 1..n : piece(i) \in Events
  <2> TAKE i \in 1..n
  <2>0. \A f \in Files : <<f, man[f]>> \in Entries
    BY DEF Entries, Manifest
  <2>1. Chunk(man, i - 1) \in SUBSET Entries
    BY <2>0 DEF Chunk, Changed
  <2>2. piece(i) \in ChunkEvents
    BY <1>1, <2>1 DEF ChunkEvents
  <2> QED
    BY <2>2 DEF Events
<1>4. ManifestEvents(rev, man) = (<<first>> \o mid) \o <<last>>
  BY DEF ManifestEvents, Hash
<1> HIDE DEF first, last, piece, n
<1>5. mid \in Seq(Events) /\ Len(mid) = n /\ \A i \in 1..n : mid[i] = piece(i)
  BY <1>1, <1>3
<1> HIDE DEF mid
<1>6. <<first>> \in Seq(Events) /\ Len(<<first>>) = 1 /\ <<last>> \in Seq(Events) /\ Len(<<last>>) = 1
      /\ <<first>>[1] = first /\ <<last>>[1] = last
  BY <1>2
<1> DEFINE s == <<first>> \o mid
<1>7. /\ s \in Seq(Events) /\ Len(s) = n + 1 /\ s[1] = first
      /\ \A i \in 1..n : s[i + 1] = piece(i)
  <2>1. /\ s \in Seq(Events) /\ Len(s) = 1 + n
        /\ \A i \in 1..(1 + n) : s[i] = IF i <= 1 THEN <<first>>[i] ELSE mid[i - 1]
    BY <1>5, <1>6, ConcatProperties
  <2> HIDE DEF s
  <2>2. s[1] = first
    BY <1>1, <1>6, <2>1
  <2>3. ASSUME NEW i \in 1..n PROVE s[i + 1] = piece(i)
    <3>1. i + 1 \in 1..(1 + n) /\ ~(i + 1 <= 1) /\ i + 1 - 1 = i
      BY <1>1
    <3> QED
      BY <1>5, <2>1, <3>1
  <2> QED
    BY <1>1, <2>1, <2>2, <2>3
<1> HIDE DEF s
<1> DEFINE t == s \o <<last>>
<1>8. /\ t \in Seq(Events) /\ Len(t) = n + 2
      /\ \A i \in 1..(n + 2) : t[i] = IF i <= n + 1 THEN s[i] ELSE <<last>>[i - (n + 1)]
  BY <1>1, <1>6, <1>7, ConcatProperties
<1>9. ManifestEvents(rev, man) = t
  BY <1>4 DEF s
<1> HIDE DEF t
<1>10. t[1] = first /\ t[n + 2] = last
  <2>1. 1 \in 1..(n + 2) /\ 1 <= n + 1 /\ n + 2 \in 1..(n + 2) /\ ~(n + 2 <= n + 1) /\ n + 2 - (n + 1) = 1
    BY <1>1
  <2>2. t[1] = s[1]
    BY <1>8, <2>1
  <2>3. ASSUME NEW j, j = n + 2 PROVE t[j] = last
    <3>1. j \in 1..(n + 2) /\ ~(j <= n + 1) /\ j - (n + 1) = 1
      BY <1>1, <2>3
    <3>2. t[j] = <<last>>[j - (n + 1)]
      BY <1>8, <3>1
    <3> QED
      BY <1>6, <3>1, <3>2
  <2> QED
    BY <1>7, <2>2, <2>3
<1>11. ASSUME NEW i \in 1..n PROVE t[i + 1] = piece(i)
  <2>1. i + 1 \in 1..(n + 2) /\ i + 1 <= n + 1
    BY <1>1
  <2> QED
    BY <1>7, <1>8, <2>1
<1> QED
  BY <1>1, <1>8, <1>9, <1>10, <1>11 DEF n, first, last, piece

\* Every event of a manifest is a part of its revision.
LEMMA ManifestParts ==
  ASSUME NEW rev \in Nat, NEW man \in Manifest
  PROVE  LET n == ChunkCount(man)
             ev == ManifestEvents(rev, man)
         IN /\ n \in Nat /\ ev \in Seq(Events) /\ Len(ev) = n + 2
            /\ \A j \in 1..Len(ev) : ev[j].rev = rev /\ ev[j].type \in {"started", "chunk", "completed"}
<1> DEFINE n == ChunkCount(man)
           ev == ManifestEvents(rev, man)
<1>1. /\ n \in Nat /\ ev \in Seq(Events) /\ Len(ev) = n + 2
      /\ ev[1] = [type |-> "started", rev |-> rev, count |-> n]
      /\ \A i \in 1..n : ev[i + 1] = [type |-> "chunk", rev |-> rev, at |-> i - 1, entries |-> Chunk(man, i - 1)]
      /\ ev[n + 2] = [type |-> "completed", rev |-> rev, hash |-> man]
  BY ManifestQueued
<1> HIDE DEF ev, n
<1>2. ASSUME NEW j \in 1..Len(ev) PROVE ev[j].rev = rev /\ ev[j].type \in {"started", "chunk", "completed"}
  <2>1. CASE j = 1 \/ j = n + 2
    BY <1>1, <2>1
  <2>2. CASE j # 1 /\ j # n + 2
    <3>0. j \in Int
      OBVIOUS
    <3>1. PICK i \in Int : i = j - 1
      BY <3>0
    <3>2. i \in 1..n /\ j = i + 1
      BY <1>1, <1>2, <2>2, <3>1
    <3>3. PICK at, es : ev[j] = [type |-> "chunk", rev |-> rev, at |-> at, entries |-> es]
      BY <1>1, <3>2
    <3> QED
      BY <3>3
  <2> QED
    BY <2>1, <2>2
<1> QED
  BY <1>1, <1>2 DEF n, ev

\* The staged manifest that an event is about.
Of(e) == CHOOSE m \in backend.staged : m.rev = e.rev

\* What the projection of an event changes.
LEMMA Projected ==
  ASSUME DeliveryTyped, NEW e \in Events, Accepts(e)
  PROVE  /\ Project(e) \in Backends
         /\ e.type = "started" =>
              /\ Project(e).staged = backend.staged \cup
                   {[rev |-> e.rev, count |-> e.count, got |-> {}, entries |-> {}]}
              /\ Project(e).active = backend.active /\ Project(e).reads = backend.reads
         /\ e.type = "chunk" =>
              /\ Of(e) \in backend.staged /\ Of(e).rev = e.rev
              /\ Project(e).staged = (backend.staged \ {Of(e)}) \cup
                   {[Of(e) EXCEPT !.got = @ \cup {e.at}, !.entries = @ \cup e.entries]}
              /\ Project(e).active = backend.active /\ Project(e).reads = backend.reads
         /\ e.type = "completed" =>
              /\ Of(e) \in backend.staged /\ Of(e).rev = e.rev
              /\ Project(e).staged = backend.staged \ {Of(e)}
              /\ Project(e).active = IF Newer(Of(e)) THEN [rev |-> e.rev, man |-> Assembled(Of(e))] ELSE backend.active
              /\ Project(e).reads = backend.reads
         /\ e.type = "fingerprints" =>
              /\ Project(e).staged = backend.staged /\ Project(e).active = backend.active
              /\ Project(e).reads = backend.reads
         /\ e.type = "read" =>
              /\ Project(e).staged = backend.staged /\ Project(e).active = backend.active
              /\ Project(e).reads = [backend.reads EXCEPT ![e.file] = KeptAtBackend(backend.reads[e.file], e)]
<1> DEFINE m == Of(e)
<1>0. /\ backend \in Backends /\ backend.staged \in SUBSET Staged /\ backend.active \in Revisions
      /\ backend.fp \in [Files -> Int] /\ backend.reads \in [Files -> Evidence]
  BY DEF DeliveryTyped, Backends
<1>1. CASE e.type = "started"
  <2> DEFINE new == [rev |-> e.rev, count |-> e.count, got |-> {}, entries |-> {}]
             st == backend.staged \cup {new}
  <2>0. e \in StartedEvents
    BY <1>1, EventKinds
  <2>1. new \in Staged
    BY <2>0 DEF StartedEvents, Staged
  <2>2. st \in SUBSET Staged
    BY <1>0, <2>1
  <2>3. Project(e) = [backend EXCEPT !.staged = st]
    BY <1>1 DEF Project
  <2> HIDE DEF st
  <2>4. /\ Project(e) \in Backends /\ Project(e).staged = st /\ Project(e).active = backend.active
        /\ Project(e).reads = backend.reads
    BY <1>0, <2>2, <2>3 DEF Backends
  <2> QED
    BY <1>1, <2>4 DEF st
<1>2. CASE e.type = "chunk"
  <2> DEFINE new == [m EXCEPT !.got = @ \cup {e.at}, !.entries = @ \cup e.entries]
             st == (backend.staged \ {m}) \cup {new}
  <2>1. m \in backend.staged /\ m.rev = e.rev /\ e \in ChunkEvents
    BY <1>2, EventKinds DEF Accepts, Of
  <2>2. m \in Staged /\ e.at \in Nat /\ e.entries \in SUBSET Entries
    BY <1>0, <2>1 DEF ChunkEvents
  <2> HIDE DEF m
  <2>3. new \in Staged
    BY <2>2 DEF Staged
  <2>4. st \in SUBSET Staged
    BY <1>0, <2>3
  <2>5. Project(e) = [backend EXCEPT !.staged = st]
    BY <1>2 DEF Project, m, Of
  <2> HIDE DEF st
  <2>6. /\ Project(e) \in Backends /\ Project(e).staged = st /\ Project(e).active = backend.active
        /\ Project(e).reads = backend.reads
    BY <1>0, <2>4, <2>5 DEF Backends
  <2> QED
    BY <1>2, <2>1, <2>6 DEF st, m
<1>3. CASE e.type = "completed"
  <2> DEFINE st == backend.staged \ {m}
             new == IF Newer(m) THEN [rev |-> m.rev, man |-> Assembled(m)] ELSE backend.active
  <2>1. m \in backend.staged /\ m.rev = e.rev
    BY <1>3 DEF Accepts, Of, Whole
  <2>2. m \in Staged
    BY <1>0, <2>1
  <2> HIDE DEF m
  <2>3. Assembled(m) \in Manifest
    BY <2>2 DEF Assembled, Staged, Entries, Manifest
  <2>4. new \in Revisions /\ st \in SUBSET Staged
    BY <1>0, <2>2, <2>3 DEF Revisions, Staged
  <2>5. Project(e) = [backend EXCEPT !.staged = st, !.active = new]
    BY <1>3 DEF Project, m, Of
  <2>6. new = IF Newer(m) THEN [rev |-> e.rev, man |-> Assembled(m)] ELSE backend.active
    BY <2>1
  <2> HIDE DEF st, new
  <2>7. /\ Project(e) \in Backends /\ Project(e).staged = st /\ Project(e).active = new
        /\ Project(e).reads = backend.reads
    BY <1>0, <2>4, <2>5 DEF Backends
  <2> QED
    BY <1>3, <2>1, <2>6, <2>7 DEF st, m
<1>4. CASE e.type = "fingerprints"
  <2> DEFINE new == [f \in Files |-> IF e.files[f] # NoSurface THEN e.files[f] ELSE backend.fp[f]]
  <2>1. e \in FingerprintEvents
    BY <1>4, EventKinds
  <2>2. new \in [Files -> Int]
    BY <1>0, <2>1 DEF FingerprintEvents
  <2>3. Project(e) = [backend EXCEPT !.fp = new]
    BY <1>4 DEF Project
  <2> HIDE DEF new
  <2> QED
    BY <1>0, <1>4, <2>2, <2>3 DEF Backends
<1>5. CASE e.type = "read"
  <2> DEFINE kept == KeptAtBackend(backend.reads[e.file], e)
             new == [backend.reads EXCEPT ![e.file] = kept]
  <2>1. e \in ReadEvents
    BY <1>5, EventKinds
  <2>2. e.file \in Files /\ e.hash \in Int /\ e.fidelity \in 0..3 /\ backend.reads[e.file].fidelity \in 0..3
    BY <1>0, <2>1 DEF ReadEvents, Evidence
  <2>3. kept \in Evidence
    BY <2>2 DEF KeptAtBackend, Stronger, Evidence
  <2>4. Project(e) = [backend EXCEPT !.reads = new]
    BY <1>5 DEF Project
  <2> HIDE DEF kept
  <2>5. new \in [Files -> Evidence]
    BY <1>0, <2>3
  <2> HIDE DEF new
  <2>6. /\ Project(e) \in Backends /\ Project(e).staged = backend.staged /\ Project(e).active = backend.active
        /\ Project(e).reads = new
    BY <1>0, <2>4, <2>5 DEF Backends
  <2> QED
    BY <1>5, <2>6 DEF new, kept
<1> QED
  BY <1>1, <1>2, <1>3, <1>4, <1>5, EventKinds

\* What a step does to the queue and to what is behind it.
Rests == UNCHANGED <<queue, backend, published, refused, active>>
Reports ==
  \E e \in FingerprintEvents \cup ReadEvents :
    /\ queue' = Append(queue, e) /\ UNCHANGED <<backend, published, refused, active>>
    /\ e.type = "read" =>
         \E r \in Readers : ReadReport(r) /\ e.file = reader[r].file /\ e.fidelity = reader[r].fidelity

\* Every step is one of these for the queue.
LEMMA QueueCases ==
  ASSUME ServiceTyped, [Next]_vars
  PROVE  Rests \/ PublishManifest \/ Reports \/ Deliver \/ Refuse \/ Move
<1>1. CASE MemberStep
  BY <1>1 DEF MemberStep, Edit, Stage, Commit, ChangeDirs, Connect, OthersUnchanged, storeVars, Rests
<1>2. CASE ScanReport
  <2>1. scan.files \in [Files -> Int]
    BY DEF ServiceTyped, ScanTyped, Scans
  <2>2. [type |-> "fingerprints", files |-> scan.files] \in FingerprintEvents
    BY <2>1 DEF FingerprintEvents
  <2>3. queue' = Append(queue, [type |-> "fingerprints", files |-> scan.files])
        /\ UNCHANGED <<backend, published, refused, active>>
    BY <1>2 DEF ScanReport, ScanStep
  <2> QED
    BY <2>2, <2>3 DEF Reports
<1>3. CASE ServiceStep /\ ~ScanReport /\ ~PublishManifest
  BY <1>3 DEF ServiceStep, Boot, Created, StartScan, ReadLayer, ScanUnchanged, Extract, ScanRecord, ScanStep,
     storeVars, historyVars, Rests
<1>4. ASSUME NEW r \in Readers, SeedReport(r) PROVE Reports
  <2>1. Seen(r) \in [Files -> Int]
    BY DEF Seen, ServiceTyped, ReaderTyped, ReaderRecords, NoSurface
  <2>2. [type |-> "fingerprints", files |-> Seen(r)] \in FingerprintEvents
    BY <2>1 DEF FingerprintEvents
  <2>3. queue' = Append(queue, [type |-> "fingerprints", files |-> Seen(r)])
        /\ UNCHANGED <<backend, published, refused, active>>
    BY <1>4 DEF SeedReport, ReaderStep, historyVars
  <2> QED
    BY <2>2, <2>3 DEF Reports
<1>5. ASSUME NEW r \in Readers, ReadReport(r) PROVE Reports
  <2> DEFINE e == [type |-> "read", file |-> reader[r].file, hash |-> reader[r].hash, fidelity |-> reader[r].fidelity]
  <2>1. reader[r] \in ReaderRecords /\ reader[r].file \in Files
    BY <1>5 DEF ReadReport, ServiceTyped, ReaderTyped
  <2>2. e \in ReadEvents
    BY <2>1 DEF ReadEvents, ReaderRecords
  <2>3. /\ queue' = Append(queue, e) /\ UNCHANGED <<backend, published, refused, active>>
        /\ e.file = reader[r].file /\ e.fidelity = reader[r].fidelity
    BY <1>5 DEF ReadReport, ReaderStep, historyVars
  <2> QED
    BY <1>5, <2>2, <2>3 DEF Reports
<1>6. ASSUME NEW r \in Readers, (\E f \in Files : StartReads(r, f)) \/ SeedRecord(r) \/ ReadRecord(r) PROVE Rests
  BY <1>6 DEF StartReads, SeedRecord, ReadRecord, ReaderStep, historyVars, Rests
<1>7. CASE Stop \/ StoreFails \/ UNCHANGED vars
  BY <1>7 DEF Stop, StoreFails, vars, storeVars, historyVars, Rests
<1> QED
  BY <1>1, <1>2, <1>3, <1>4, <1>5, <1>6, <1>7 DEF Next, ServiceStep, ReadSetStep

\* The first event leaves the queue.
LEMMA Shifted ==
  ASSUME DeliveryTyped, Deliver \/ Refuse
  PROVE  /\ queue # <<>> /\ Len(queue) \in Nat \ {0} /\ Head(queue) = queue[1] /\ queue[1] \in Events
         /\ queue' \in Seq(Events) /\ Len(queue') = Len(queue) - 1
         /\ \A i \in 1..Len(queue') : queue'[i] = queue[i + 1] /\ i + 1 \in 1..Len(queue)
         /\ UNCHANGED <<published, active>>
<1>1. queue # <<>> /\ queue' = Tail(queue) /\ UNCHANGED <<published, active>> /\ queue \in Seq(Events)
  BY DEF Deliver, Refuse, historyVars, DeliveryTyped
<1>2. Len(queue) \in Nat \ {0}
  BY <1>1, EmptySeq
<1>3. Head(queue) = queue[1] /\ queue[1] \in Events
  BY <1>1, <1>2
<1>4. /\ queue' \in Seq(Events) /\ Len(queue') = Len(queue) - 1
      /\ \A i \in 1..Len(queue') : queue'[i] = queue[i + 1]
  BY <1>1, HeadTailProperties
<1>5. \A i \in 1..Len(queue') : i + 1 \in 1..Len(queue)
  BY <1>2, <1>4
<1> QED
  BY <1>1, <1>2, <1>3, <1>4, <1>5

\* The events of a manifest, or one more, join the queue.
LEMMA Joined ==
  ASSUME DeliveryTyped, NEW ev \in Seq(Events), queue' = queue \o ev
  PROVE  /\ queue' \in Seq(Events) /\ Len(queue') = Len(queue) + Len(ev) /\ Len(queue) \in Nat /\ Len(ev) \in Nat
         /\ \A i \in 1..Len(queue) : queue'[i] = queue[i]
         /\ \A i \in 1..Len(ev) : queue'[Len(queue) + i] = ev[i]
<1>0. queue \in Seq(Events) /\ Len(queue) \in Nat /\ Len(ev) \in Nat
  BY DEF DeliveryTyped
<1>1. /\ queue' \in Seq(Events) /\ Len(queue') = Len(queue) + Len(ev)
      /\ \A i \in 1..(Len(queue) + Len(ev)) : queue'[i] = IF i <= Len(queue) THEN queue[i] ELSE ev[i - Len(queue)]
  BY <1>0, ConcatProperties
<1>2. ASSUME NEW i \in 1..Len(queue) PROVE queue'[i] = queue[i]
  <2>1. i \in 1..(Len(queue) + Len(ev)) /\ i <= Len(queue)
    BY <1>0
  <2> QED
    BY <1>1, <2>1
<1>3. ASSUME NEW i \in 1..Len(ev) PROVE queue'[Len(queue) + i] = ev[i]
  <2>1. PICK j \in Nat : j = Len(queue) + i
    BY <1>0
  <2>2. j \in 1..(Len(queue) + Len(ev)) /\ ~(j <= Len(queue)) /\ j - Len(queue) = i
    BY <1>0, <2>1
  <2>3. queue'[j] = ev[j - Len(queue)]
    BY <1>1, <2>2
  <2> QED
    BY <2>1, <2>2, <2>3
<1> QED
  BY <1>0, <1>1, <1>2, <1>3

\* A report joins the queue.
LEMMA Reported ==
  ASSUME DeliveryTyped, NEW e \in Events, queue' = Append(queue, e)
  PROVE  /\ queue' \in Seq(Events) /\ Len(queue') = Len(queue) + 1 /\ Len(queue) \in Nat
         /\ \A i \in 1..Len(queue) : queue'[i] = queue[i]
         /\ queue'[Len(queue) + 1] = e
BY AppendProperties, LenProperties DEF DeliveryTyped

\* Every step keeps the types of events and projections.
LEMMA DeliveryTypedStep == ServiceTyped /\ DeliveryTyped /\ [Next]_vars => DeliveryTyped'
<1> SUFFICES ASSUME ServiceTyped, DeliveryTyped, [Next]_vars PROVE DeliveryTyped'
  OBVIOUS
<1>0. queue \in Seq(Events) /\ published \in Seq(Manifest) /\ active.rev = Len(published) /\ backend \in Backends
  BY DEF DeliveryTyped
<1>1. CASE Rests
  BY <1>0, <1>1 DEF Rests, DeliveryTyped
<1>2. CASE PublishManifest
  <2>1. /\ scan.man \in Manifest /\ active.rev + 1 \in Nat
        /\ active' = [rev |-> active.rev + 1, man |-> scan.man] /\ backend' = backend
        /\ queue' = queue \o ManifestEvents(active.rev + 1, scan.man) /\ published' = Append(published, scan.man)
    BY <1>2 DEF PublishManifest, ScanStep, ServiceTyped, ScanTyped, Scans, Revisions
  <2>2. ManifestEvents(active.rev + 1, scan.man) \in Seq(Events)
    BY <2>1, ManifestQueued
  <2>3. queue' \in Seq(Events)
    BY <2>1, <2>2, Joined
  <2>4. published' \in Seq(Manifest) /\ active'.rev = Len(published')
    BY <1>0, <2>1, AppendProperties
  <2> QED
    BY <1>0, <2>1, <2>3, <2>4 DEF DeliveryTyped
<1>3. CASE Reports
  <2>1. PICK e \in Events : queue' = Append(queue, e) /\ UNCHANGED <<backend, published, active>>
    BY <1>3 DEF Reports, Events
  <2> QED
    BY <1>0, <2>1, Reported DEF DeliveryTyped
<1>4. CASE Deliver
  <2>1. Head(queue) \in Events /\ Accepts(Head(queue)) /\ backend' = Project(Head(queue))
    BY <1>4, Shifted DEF Deliver
  <2>2. backend' \in Backends
    BY <2>1, Projected
  <2> QED
    BY <1>0, <1>4, <2>2, Shifted DEF DeliveryTyped
<1>5. CASE Refuse
  BY <1>0, <1>5, Shifted DEF DeliveryTyped, Refuse
<1>6. CASE Move
  <2>1. queue' = <<>> /\ backend' = EmptyBackend /\ UNCHANGED <<published, active>>
    BY <1>6 DEF Move
  <2>2. EmptyBackend \in Backends
    BY BlankTypes DEF EmptyBackend, Backends, NoSurface
  <2> QED
    BY <1>0, <2>1, <2>2 DEF DeliveryTyped
<1> QED
  BY <1>1, <1>2, <1>3, <1>4, <1>5, <1>6, QueueCases

-----------------------------------------------------------------------------
\* A backend shows whole manifests.

\* A completion names a manifest that was published, and its hash.
Genuine(e) == e.type = "completed" => e.rev \in 1..Len(published) /\ e.hash = published[e.rev]

WholeManifests ==
  /\ \A i \in 1..Len(queue) : Genuine(queue[i])
  /\ \A m, n \in backend.staged : m.rev = n.rev => m = n
  /\ backend.active.rev \in 0..Len(published)
  /\ backend.active.rev > 0 => backend.active.man = published[backend.active.rev]

\* Chunks that hash to a manifest assemble to it.
LEMMA WholeAssembles ==
  ASSUME NEW e, NEW m, e.hash \in Manifest, Whole(e, m)
  PROVE  Assembled(m) = e.hash
<1> DEFINE h == e.hash
<1>1. m.entries = {<<f, h[f]>> : f \in Changed(h)}
  BY DEF Whole
<1>2. ASSUME NEW f \in Files PROVE Assembled(m)[f] = h[f]
  <2>1. CASE h[f] # {}
    <3>1. {y \in m.entries : y[1] = f} = {<<f, h[f]>>}
      BY <1>1, <2>1 DEF Changed
    <3> DEFINE here == {y \in m.entries : y[1] = f}
    <3>2. Assembled(m)[f] = UNION {x[2] : x \in here}
      BY DEF Assembled
    <3> HIDE DEF here
    <3>3. ASSUME NEW v, v = h[f] PROVE {x[2] : x \in here} = {v}
      <4>1. here = {<<f, v>>} /\ <<f, v>>[2] = v
        BY <3>1, <3>3 DEF here
      <4> QED
        BY <4>1
    <3>4. UNION {h[f]} = h[f]
      OBVIOUS
    <3> QED
      BY <3>2, <3>3, <3>4
  <2>2. CASE h[f] = {}
    <3>1. {y \in m.entries : y[1] = f} = {}
      BY <1>1, <2>2 DEF Changed
    <3> QED
      BY <2>2, <3>1 DEF Assembled
  <2> QED
    BY <2>1, <2>2
<1>3. Assembled(m) = [f \in Files |-> Assembled(m)[f]] /\ h = [f \in Files |-> h[f]]
  BY DEF Assembled, Manifest
<1> QED
  BY <1>2, <1>3

\* Every step keeps what the backend shows whole.
LEMMA WholeStep == ServiceTyped /\ DeliveryTyped /\ WholeManifests /\ [Next]_vars => WholeManifests'
<1> SUFFICES ASSUME ServiceTyped, DeliveryTyped, WholeManifests, [Next]_vars PROVE WholeManifests'
  OBVIOUS
<1>0. queue \in Seq(Events) /\ published \in Seq(Manifest) /\ active.rev = Len(published) /\ backend \in Backends
      /\ Len(published) \in Nat
  BY DEF DeliveryTyped
<1>1. CASE Rests
  BY <1>1 DEF Rests, WholeManifests, Genuine
<1>2. CASE PublishManifest
  <2> DEFINE rev == active.rev + 1
             n == ChunkCount(scan.man)
             ev == ManifestEvents(rev, scan.man)
  <2>1. /\ scan.man \in Manifest /\ rev \in Nat /\ backend' = backend
        /\ queue' = queue \o ev /\ published' = Append(published, scan.man)
    BY <1>2 DEF PublishManifest, ScanStep, ServiceTyped, ScanTyped, Scans, Revisions
  <2>2. /\ n \in Nat /\ ev \in Seq(Events) /\ Len(ev) = n + 2
        /\ ev[1] = [type |-> "started", rev |-> rev, count |-> n]
        /\ \A i \in 1..n : ev[i + 1] = [type |-> "chunk", rev |-> rev, at |-> i - 1, entries |-> Chunk(scan.man, i - 1)]
        /\ ev[n + 2] = [type |-> "completed", rev |-> rev, hash |-> scan.man]
    BY <2>1, ManifestQueued
  <2>3. /\ Len(published') = rev /\ published'[rev] = scan.man
        /\ \A i \in 1..Len(published) : published'[i] = published[i]
    BY <1>0, <2>1, AppendProperties
  <2> HIDE DEF ev, n
  <2>4. /\ Len(queue') = Len(queue) + Len(ev) /\ Len(queue) \in Nat
        /\ \A i \in 1..Len(queue) : queue'[i] = queue[i]
        /\ \A i \in 1..Len(ev) : queue'[Len(queue) + i] = ev[i]
    BY <2>1, <2>2, Joined
  <2>5. ASSUME NEW j \in 1..Len(ev) PROVE ev[j].type = "completed" => ev[j].rev = rev /\ ev[j].hash = scan.man
    <3>1. CASE j = 1
      BY <2>2, <3>1
    <3>2. CASE j = n + 2
      BY <2>2, <3>2
    <3>3. CASE j # 1 /\ j # n + 2
      <4>0. j \in Int
        OBVIOUS
      <4>1. PICK i \in Int : i = j - 1
        BY <4>0
      <4>2. i \in 1..n /\ j = i + 1
        BY <2>2, <2>5, <3>3, <4>1
      <4>3. ev[j] = [type |-> "chunk", rev |-> rev, at |-> i - 1, entries |-> Chunk(scan.man, i - 1)]
        BY <2>2, <4>2
      <4> HIDE DEF rev
      <4>4. ev[j].type = "chunk"
        BY <4>3
      <4> QED
        BY <4>4
    <3> QED
      BY <3>1, <3>2, <3>3
  <2>6. ASSUME NEW i \in 1..Len(queue') PROVE Genuine(queue[i])'
    <3>1. CASE i \in 1..Len(queue)
      <4>1. Genuine(queue[i]) /\ queue'[i] = queue[i]
        BY <2>4, <3>1 DEF WholeManifests
      <4> QED
        BY <1>0, <2>3, <4>1 DEF Genuine
    <3>2. CASE i \notin 1..Len(queue)
      <4>0. i \in Int /\ Len(queue) \in Int
        BY <2>4
      <4>1. PICK j \in Int : j = i - Len(queue)
        BY <4>0
      <4>2. j \in 1..Len(ev) /\ i = Len(queue) + j
        BY <2>2, <2>4, <3>2, <4>1
      <4>3. queue'[i] = ev[j]
        BY <2>4, <4>2
      <4> QED
        BY <1>0, <2>3, <2>5, <4>2, <4>3 DEF Genuine
    <3> QED
      BY <3>1, <3>2
  <2>7. /\ backend.active.rev \in 0..Len(published')
        /\ backend.active.rev > 0 => backend.active.man = published'[backend.active.rev]
    BY <1>0, <2>3 DEF WholeManifests
  <2> QED
    BY <2>1, <2>6, <2>7 DEF WholeManifests
<1>3. CASE Reports
  <2>1. PICK e \in FingerprintEvents \cup ReadEvents :
          queue' = Append(queue, e) /\ UNCHANGED <<backend, published>>
    BY <1>3 DEF Reports
  <2>2. e \in Events /\ e.type # "completed"
    BY DEF FingerprintEvents, ReadEvents, Events
  <2>3. /\ Len(queue') = Len(queue) + 1 /\ Len(queue) \in Nat
        /\ \A i \in 1..Len(queue) : queue'[i] = queue[i]
        /\ queue'[Len(queue) + 1] = e
    BY <2>1, <2>2, Reported
  <2>4. ASSUME NEW i \in 1..Len(queue') PROVE Genuine(queue[i])'
    <3>1. CASE i \in 1..Len(queue)
      <4>1. Genuine(queue[i]) /\ queue'[i] = queue[i]
        BY <2>3, <3>1 DEF WholeManifests
      <4> QED
        BY <2>1, <4>1 DEF Genuine
    <3>2. CASE i \notin 1..Len(queue)
      <4>1. i = Len(queue) + 1
        BY <2>3, <3>2
      <4>2. queue'[i].type # "completed"
        BY <2>2, <2>3, <4>1
      <4> QED
        BY <4>2 DEF Genuine
    <3> QED
      BY <3>1, <3>2
  <2> QED
    BY <2>1, <2>4 DEF WholeManifests
<1>4. ASSUME Deliver \/ Refuse PROVE \A i \in 1..Len(queue') : Genuine(queue[i])'
  <2> TAKE i \in 1..Len(queue')
  <2>1. queue'[i] = queue[i + 1] /\ i + 1 \in 1..Len(queue) /\ published' = published
    BY <1>4, Shifted
  <2>2. Genuine(queue[i + 1])
    BY <2>1 DEF WholeManifests
  <2> QED
    BY <2>1, <2>2 DEF Genuine
<1>5. CASE Refuse
  <2>1. UNCHANGED <<backend, published>>
    BY <1>5 DEF Refuse
  <2> QED
    BY <1>4, <1>5, <2>1 DEF WholeManifests
<1>6. CASE Deliver
  <2> DEFINE e == Head(queue)
             b == Project(e)
  <2>1. e \in Events /\ Accepts(e) /\ backend' = b /\ e = queue[1] /\ 1 \in 1..Len(queue) /\ published' = published
    BY <1>6, Shifted DEF Deliver
  <2>2. Genuine(e)
    BY <2>1 DEF WholeManifests
  <2> HIDE DEF e, b
  <2> SUFFICES /\ \A m, n \in b.staged : m.rev = n.rev => m = n
               /\ b.active.rev \in 0..Len(published)
               /\ b.active.rev > 0 => b.active.man = published[b.active.rev]
    BY <1>4, <1>6, <2>1 DEF WholeManifests
  <2>3. CASE e.type = "started"
    <3>1. /\ b.staged = backend.staged \cup {[rev |-> e.rev, count |-> e.count, got |-> {}, entries |-> {}]}
          /\ b.active = backend.active
      BY <2>1, <2>3, Projected DEF b
    <3>2. \A m \in backend.staged : m.rev # e.rev
      BY <2>1, <2>3 DEF Accepts
    <3>3. [rev |-> e.rev, count |-> e.count, got |-> {}, entries |-> {}].rev = e.rev
      OBVIOUS
    <3> QED
      BY <3>1, <3>2, <3>3 DEF WholeManifests
  <2>4. CASE e.type = "chunk"
    <3> DEFINE new == [Of(e) EXCEPT !.got = @ \cup {e.at}, !.entries = @ \cup e.entries]
    <3>1. /\ Of(e) \in backend.staged /\ Of(e).rev = e.rev
          /\ b.staged = (backend.staged \ {Of(e)}) \cup {new}
          /\ b.active = backend.active
      BY <2>1, <2>4, Projected DEF b
    <3>2. Of(e) \in Staged
      BY <1>0, <3>1 DEF Backends
    <3>3. new.rev = e.rev
      BY <3>1, <3>2 DEF Staged
    <3> HIDE DEF new
    <3> QED
      BY <3>1, <3>3 DEF WholeManifests
  <2>5. CASE e.type = "completed"
    <3>1. /\ Of(e) \in backend.staged /\ Of(e).rev = e.rev
          /\ b.staged = backend.staged \ {Of(e)}
          /\ b.active = IF Newer(Of(e)) THEN [rev |-> e.rev, man |-> Assembled(Of(e))] ELSE backend.active
      BY <2>1, <2>5, Projected DEF b
    <3>2. PICK m \in backend.staged : Whole(e, m)
      BY <2>1, <2>5 DEF Accepts
    <3>3. m = Of(e)
      BY <3>1, <3>2 DEF Whole, WholeManifests
    <3>4. e.rev \in 1..Len(published) /\ e.hash = published[e.rev] /\ e.hash \in Manifest
      BY <1>0, <2>2, <2>5 DEF Genuine
    <3>5. Assembled(Of(e)) = published[e.rev]
      BY <3>2, <3>3, <3>4, WholeAssembles
    <3>6. \A p, q \in b.staged : p.rev = q.rev => p = q
      BY <3>1 DEF WholeManifests
    <3>7. CASE Newer(Of(e))
      <4>1. b.active.rev = e.rev /\ b.active.man = published[e.rev]
        BY <3>1, <3>5, <3>7
      <4> QED
        BY <1>0, <3>4, <3>6, <4>1
    <3>8. CASE ~Newer(Of(e))
      <4>1. b.active = backend.active
        BY <3>1, <3>8
      <4> QED
        BY <3>6, <4>1 DEF WholeManifests
    <3> QED
      BY <3>7, <3>8
  <2>6. CASE e.type \in {"fingerprints", "read"}
    <3>1. b.staged = backend.staged /\ b.active = backend.active
      BY <2>1, <2>6, Projected DEF b
    <3> QED
      BY <3>1 DEF WholeManifests
  <2> QED
    BY <2>1, <2>3, <2>4, <2>5, <2>6, EventKinds
<1>7. CASE Move
  <2>1. queue' = <<>> /\ backend' = EmptyBackend /\ published' = published
    BY <1>7 DEF Move
  <2>2. backend'.staged = {} /\ backend'.active.rev = 0 /\ Len(queue') = 0
    BY <2>1 DEF EmptyBackend, NoManifest
  <2> QED
    BY <1>0, <2>1, <2>2 DEF WholeManifests
<1> QED
  BY <1>1, <1>2, <1>3, <1>5, <1>6, <1>7, QueueCases

\* At first nothing is queued, nothing published and the backend is empty.
LEMMA DeliveryInit == Init => DeliveryTyped /\ WholeManifests
<1> SUFFICES ASSUME Init PROVE DeliveryTyped /\ WholeManifests
  OBVIOUS
<1>1. EmptyBackend \in Backends
  BY BlankTypes DEF EmptyBackend, Backends, NoSurface
<1>2. active.rev = 0 /\ queue = <<>> /\ published = <<>> /\ backend \in Backends
  BY <1>1 DEF Init, NoManifest
<1>3. <<>> \in Seq(Events) /\ <<>> \in Seq(Manifest) /\ Len(<<>>) = 0
  OBVIOUS
<1>4. DeliveryTyped
  BY <1>2, <1>3 DEF DeliveryTyped
<1>5. backend.staged = {} /\ backend.active.rev = 0 /\ Len(queue) = 0 /\ Len(published) = 0
  BY DEF Init, EmptyBackend, NoManifest
<1>6. WholeManifests
  BY <1>5 DEF WholeManifests
<1> QED
  BY <1>4, <1>6

\* ActiveIsWhole, for every number of files and every chunk size: whatever is
\* refused on the way, the manifest applyProjection puts up is one PublishManifest
\* wrote, whole.
THEOREM ManifestShownIsWhole == Spec => []ActiveIsWhole
<1>1. WholeManifests => ActiveIsWhole
  BY DEF WholeManifests, ActiveIsWhole
<1> QED
  BY <1>1, ServiceTypedInit, DeliveryInit, ServiceTypedStep, DeliveryTypedStep, WholeStep, PTL DEF Spec

-----------------------------------------------------------------------------
\* The evidence of a read is the same on both sides.

\* Where evidence of a fidelity for a file is: at the backend, in the queue, or
\* about to be queued.
InQueue(f, v) ==
  \E i \in 1..Len(queue) : queue[i].type = "read" /\ queue[i].file = f /\ queue[i].fidelity = v
InReport(f, v) ==
  \E r \in Readers : reader[r].pc = "report" /\ reader[r].file = f /\ reader[r].fidelity = v
Carries(f, v) == backend.reads[f].fidelity = v \/ InQueue(f, v) \/ InReport(f, v)

\* While nothing is lost, the strongest evidence recorded is on its way, and none
\* is stronger than what is recorded.
EvidenceFollows ==
  faults = 0 /\ moves = 0 =>
    \A f \in Files :
      /\ Carries(f, reads[f].fidelity)
      /\ \A v \in 0..3 : Carries(f, v) => v <= reads[f].fidelity

\* What carries evidence does not change.
SameQueue == backend'.reads = backend.reads /\ \A f, v : InQueue(f, v)' <=> InQueue(f, v)

\* Only a report adds a read to the queue, and only a delivery takes one out.
LEMMA QueueReads ==
  ASSUME ServiceTyped, DeliveryTyped, [Next]_vars, faults' = 0, moves' = 0
  PROVE  \/ SameQueue
         \/ \E r \in Readers : ReadReport(r)
         \/ Deliver /\ Head(queue).type = "read"
<1>1. CASE Rests
  BY <1>1 DEF Rests, SameQueue, InQueue
<1>2. CASE PublishManifest
  <2> DEFINE n == ChunkCount(scan.man)
             ev == ManifestEvents(active.rev + 1, scan.man)
  <2>1. scan.man \in Manifest /\ active.rev + 1 \in Nat /\ backend' = backend /\ queue' = queue \o ev
    BY <1>2 DEF PublishManifest, ScanStep, ServiceTyped, ScanTyped, Scans, Revisions
  <2>2. /\ n \in Nat /\ ev \in Seq(Events) /\ Len(ev) = n + 2
        /\ \A j \in 1..Len(ev) : ev[j].type \in {"started", "chunk", "completed"}
    BY <2>1, ManifestParts
  <2> HIDE DEF ev, n
  <2>3. /\ Len(queue') = Len(queue) + Len(ev) /\ Len(queue) \in Nat
        /\ \A i \in 1..Len(queue) : queue'[i] = queue[i]
        /\ \A i \in 1..Len(ev) : queue'[Len(queue) + i] = ev[i]
    BY <2>1, <2>2, Joined
  <2>4. \A j \in 1..Len(ev) : ev[j].type # "read"
    BY <2>2
  <2>5. ASSUME NEW i \in 1..Len(queue') PROVE i \in 1..Len(queue) \/ queue'[i].type # "read"
    <3>1. CASE i \notin 1..Len(queue)
      <4>0. i \in Int /\ Len(queue) \in Int
        BY <2>3
      <4>1. PICK j \in Int : j = i - Len(queue)
        BY <4>0
      <4>2. j \in 1..Len(ev) /\ i = Len(queue) + j
        BY <2>2, <2>3, <3>1, <4>1
      <4>3. queue'[i] = ev[j]
        BY <2>3, <4>2
      <4> QED
        BY <2>4, <4>2, <4>3
    <3> QED
      BY <3>1
  <2>6. 1..Len(queue) \subseteq 1..Len(queue')
    BY <2>2, <2>3
  <2>7. ASSUME NEW f, NEW v PROVE InQueue(f, v)' <=> InQueue(f, v)
    BY <2>3, <2>5, <2>6 DEF InQueue
  <2> QED
    BY <2>1, <2>7 DEF SameQueue
<1>3. CASE Reports
  <2>1. PICK e \in FingerprintEvents \cup ReadEvents :
          /\ queue' = Append(queue, e) /\ UNCHANGED backend
          /\ e.type = "read" => \E r \in Readers : ReadReport(r)
    BY <1>3 DEF Reports
  <2>2. CASE e.type # "read"
    <3>1. e \in Events
      BY DEF Events
    <3>2. /\ Len(queue') = Len(queue) + 1 /\ Len(queue) \in Nat
          /\ \A i \in 1..Len(queue) : queue'[i] = queue[i]
          /\ queue'[Len(queue) + 1] = e
      BY <2>1, <3>1, Reported
    <3>3. \A i \in 1..Len(queue') : i \in 1..Len(queue) \/ queue'[i].type # "read"
      BY <2>2, <3>2
    <3>4. 1..Len(queue) \subseteq 1..Len(queue')
      BY <3>2
    <3>5. ASSUME NEW f, NEW v PROVE InQueue(f, v)' <=> InQueue(f, v)
      BY <3>2, <3>3, <3>4 DEF InQueue
    <3> QED
      BY <2>1, <3>5 DEF SameQueue
  <2> QED
    BY <2>1, <2>2
<1>4. CASE Deliver \/ Refuse
  <2>1. /\ Len(queue) \in Nat \ {0} /\ Head(queue) = queue[1] /\ queue[1] \in Events
        /\ Len(queue') = Len(queue) - 1
        /\ \A i \in 1..Len(queue') : queue'[i] = queue[i + 1] /\ i + 1 \in 1..Len(queue)
    BY <1>4, Shifted
  <2>2. CASE queue[1].type # "read"
    <3>1. ASSUME NEW f, NEW v, InQueue(f, v) PROVE InQueue(f, v)'
      <4>1. PICK i \in 1..Len(queue) : queue[i].type = "read" /\ queue[i].file = f /\ queue[i].fidelity = v
        BY <3>1 DEF InQueue
      <4>2. PICK j \in Int : j = i - 1
        OBVIOUS
      <4>3. i # 1
        BY <2>2, <4>1
      <4>4. j \in 1..Len(queue') /\ i = j + 1
        BY <2>1, <4>2, <4>3
      <4>5. queue'[j] = queue[i]
        BY <2>1, <4>4
      <4> QED
        BY <4>1, <4>4, <4>5 DEF InQueue
    <3>2. ASSUME NEW f, NEW v, InQueue(f, v)' PROVE InQueue(f, v)
      <4>1. PICK i \in 1..Len(queue') : queue'[i].type = "read" /\ queue'[i].file = f /\ queue'[i].fidelity = v
        BY <3>2 DEF InQueue
      <4> QED
        BY <2>1, <4>1 DEF InQueue
    <3>3. backend'.reads = backend.reads
      <4>1. CASE Deliver
        <5>1. backend' = Project(Head(queue)) /\ Accepts(Head(queue)) /\ Head(queue) \in Events
          BY <2>1, <4>1 DEF Deliver
        <5> QED
          BY <2>1, <2>2, <5>1, Projected, EventKinds
      <4>2. CASE Refuse
        BY <4>2 DEF Refuse
      <4> QED
        BY <1>4, <4>1, <4>2
    <3> QED
      BY <3>1, <3>2, <3>3 DEF SameQueue
  <2>3. CASE queue[1].type = "read"
    <3>1. Accepts(Head(queue))
      BY <2>1, <2>3 DEF Accepts
    <3>2. ~Refuse
      BY <3>1 DEF Refuse, Fault, ServiceTyped, CountsTyped
    <3> QED
      BY <1>4, <2>1, <2>3, <3>2
  <2> QED
    BY <2>2, <2>3
<1>5. CASE Move
  BY <1>5 DEF Move, ServiceTyped, CountsTyped
<1> QED
  BY <1>1, <1>2, <1>3, <1>4, <1>5, QueueCases

\* Every step keeps the evidence on its way.
LEMMA EvidenceStep == ServiceTyped /\ DeliveryTyped /\ EvidenceFollows /\ [Next]_vars => EvidenceFollows'
<1> SUFFICES ASSUME ServiceTyped, DeliveryTyped, EvidenceFollows, [Next]_vars, faults' = 0, moves' = 0,
                    NEW f \in Files
             PROVE  /\ Carries(f, reads[f].fidelity)'
                    /\ \A v \in 0..3 : Carries(f, v)' => v <= reads'[f].fidelity
  BY DEF EvidenceFollows
<1> DEFINE top == reads[f].fidelity
<1>0. /\ Carries(f, top) /\ \A v \in 0..3 : Carries(f, v) => v <= top
      /\ reads \in [Files -> Evidence] /\ top \in 0..3 /\ backend \in Backends /\ backend.reads[f].fidelity \in 0..3
      /\ reader \in [Readers -> ReaderRecords]
  <2>1. faults = 0 /\ moves = 0
    BY ServiceCases DEF ServiceTyped, CountsTyped
  <2>2. reads \in [Files -> Evidence] /\ backend.reads \in [Files -> Evidence] /\ backend \in Backends
        /\ reader \in [Readers -> ReaderRecords]
    BY DEF ServiceTyped, ReaderTyped, DeliveryTyped, Backends
  <2> QED
    BY <2>1, <2>2 DEF EvidenceFollows, Evidence
<1>1. ~Stop /\ ~StoreFails
  BY DEF Stop, StoreFails, Fault, ServiceTyped, CountsTyped
<1>2. CASE SameQueue /\ UNCHANGED <<reads, reader>>
  BY <1>0, <1>2 DEF SameQueue, Carries, InReport
<1>3. ASSUME SameQueue, NEW r \in Readers, (\E g \in Files : StartReads(r, g)) \/ SeedRecord(r) \/ SeedReport(r)
      PROVE  /\ Carries(f, reads[f].fidelity)' /\ \A v \in 0..3 : Carries(f, v)' => v <= reads'[f].fidelity
  <2>1. reads' = reads /\ reader[r].pc # "report"
    BY <1>3 DEF StartReads, SeedRecord, SeedReport
  <2>2. PICK x : ReaderIs(r, x) /\ x.pc # "report"
    BY <1>3, ReaderBecomes
  <2>3. reader'[r] = x /\ \A q \in Readers : q # r => reader'[q] = reader[q]
    BY <2>2, ReaderSet
  <2>4. \A v : InReport(f, v)' <=> InReport(f, v)
    BY <2>1, <2>2, <2>3 DEF InReport
  <2> QED
    BY <1>0, <1>3, <2>1, <2>4 DEF SameQueue, Carries
<1>4. ASSUME SameQueue, NEW r \in Readers, ReadRecord(r)
      PROVE  /\ Carries(f, reads[f].fidelity)' /\ \A v \in 0..3 : Carries(f, v)' => v <= reads'[f].fidelity
  <2> DEFINE g == reader[r].file
  <2>0. g \in Files /\ reader[r].pc # "report" /\ reader[r].fidelity \in 0..3
    BY <1>0, <1>4 DEF ReadRecord, ServiceTyped, ReaderTyped, ReaderRecords
  <2>1. PICK x, kept :
          /\ ReaderIs(r, x) /\ kept \in Evidence
          /\ reads' = [reads EXCEPT ![g] = kept]
          /\ kept.fidelity = Stronger(reads[g].fidelity, reader[r].fidelity)
          /\ \/ x = IdleReader /\ kept = reads[g]
             \/ x.pc = "report" /\ x.file = g /\ x.fidelity = kept.fidelity
    BY <1>4, ReaderBecomes
  <2>2. reader'[r] = x /\ \A q \in Readers : q # r => reader'[q] = reader[q]
    BY <2>1, ReaderSet
  <2>3. CASE x = IdleReader /\ kept = reads[g]
    <3>1. reads' = reads
      BY <1>0, <2>0, <2>1, <2>3
    <3>2. x.pc # "report"
      BY <2>3 DEF IdleReader
    <3>3. \A v : InReport(f, v)' <=> InReport(f, v)
      BY <2>0, <2>2, <3>2 DEF InReport
    <3> QED
      BY <1>0, <1>4, <3>1, <3>3 DEF SameQueue, Carries
  <2>4. CASE x.pc = "report" /\ x.file = g /\ x.fidelity = kept.fidelity
    <3>1. CASE f # g
      <4>1. reads'[f] = reads[f]
        BY <1>0, <2>1, <3>1
      <4>2. \A v : InReport(f, v)' <=> InReport(f, v)
        BY <2>0, <2>2, <2>4, <3>1 DEF InReport
      <4> QED
        BY <1>0, <1>4, <4>1, <4>2 DEF SameQueue, Carries
    <3>2. CASE f = g
      <4>1. reads'[f] = kept /\ kept.fidelity \in 0..3
        BY <1>0, <2>0, <2>1, <3>2 DEF Evidence
      <4>2. kept.fidelity >= top /\ kept.fidelity >= reader[r].fidelity
        BY <1>0, <2>0, <2>1, <3>2 DEF Stronger
      <4>3. InReport(f, kept.fidelity)'
        BY <2>2, <2>4, <3>2 DEF InReport
      <4>4. \A v : InReport(f, v)' => InReport(f, v) \/ v = kept.fidelity
        BY <2>2, <2>4 DEF InReport
      <4>5. ASSUME NEW v \in 0..3, Carries(f, v)' PROVE v <= kept.fidelity
        <5>1. Carries(f, v) \/ v = kept.fidelity
          BY <1>4, <4>4, <4>5 DEF Carries, SameQueue
        <5> HIDE DEF top
        <5> QED
          BY <1>0, <4>1, <4>2, <5>1
      <4>6. Carries(f, kept.fidelity)'
        BY <4>3 DEF Carries
      <4> QED
        BY <4>1, <4>5, <4>6
    <3> QED
      BY <3>1, <3>2
  <2> QED
    BY <2>1, <2>3, <2>4
<1>5. ASSUME NEW r \in Readers, ReadReport(r)
      PROVE  /\ Carries(f, reads[f].fidelity)' /\ \A v \in 0..3 : Carries(f, v)' => v <= reads'[f].fidelity
  <2> DEFINE k == reader[r]
             e == [type |-> "read", file |-> k.file, hash |-> k.hash, fidelity |-> k.fidelity]
  <2>1. reads' = reads /\ k.pc = "report" /\ backend' = backend /\ queue' = Append(queue, e) /\ ReaderIs(r, IdleReader)
    BY <1>5, ReaderBecomes DEF ReadReport, ReaderStep
  <2>2. e \in Events /\ e.type = "read" /\ e.file = k.file /\ e.fidelity = k.fidelity
    <3>1. k \in ReaderRecords /\ k.file \in Files
      BY <2>1 DEF ServiceTyped, ReaderTyped
    <3>2. e \in ReadEvents
      BY <3>1 DEF ReadEvents, ReaderRecords
    <3> QED
      BY <3>2 DEF Events
  <2> HIDE DEF e
  <2>3. /\ Len(queue') = Len(queue) + 1 /\ Len(queue) \in Nat
        /\ \A i \in 1..Len(queue) : queue'[i] = queue[i]
        /\ queue'[Len(queue) + 1] = e
    BY <2>1, <2>2, Reported
  <2>4. reader'[r].pc = "idle" /\ \A q \in Readers : q # r => reader'[q] = reader[q]
    BY <2>1, ReaderSet DEF IdleReader
  <2>5. ASSUME NEW v PROVE InQueue(f, v)' <=> InQueue(f, v) \/ (k.file = f /\ k.fidelity = v)
    <3>1. Len(queue) + 1 \in 1..Len(queue') /\ 1..Len(queue) \subseteq 1..Len(queue')
          /\ \A i \in 1..Len(queue') : i \in 1..Len(queue) \/ i = Len(queue) + 1
      BY <2>3
    <3> QED
      BY <2>2, <2>3, <3>1 DEF InQueue
  <2>6. ASSUME NEW v PROVE InReport(f, v) <=> InReport(f, v)' \/ (k.file = f /\ k.fidelity = v)
    BY <2>1, <2>4 DEF InReport
  <2>7. \A v : Carries(f, v)' <=> Carries(f, v)
    BY <2>1, <2>5, <2>6 DEF Carries
  <2> QED
    BY <1>0, <2>1, <2>7
<1>6. CASE Deliver /\ Head(queue).type = "read"
  <2> DEFINE e == Head(queue)
  <2>1. /\ e \in Events /\ Accepts(e) /\ backend' = Project(e) /\ UNCHANGED <<reads, reader>>
        /\ Len(queue) \in Nat \ {0} /\ e = queue[1] /\ Len(queue') = Len(queue) - 1
        /\ \A i \in 1..Len(queue') : queue'[i] = queue[i + 1] /\ i + 1 \in 1..Len(queue)
    BY <1>6, Shifted DEF Deliver
  <2>2. e.type = "read" /\ e.file \in Files /\ e.fidelity \in 0..3
    BY <1>6, <2>1, EventKinds DEF ReadEvents
  <2> HIDE DEF e
  <2>3. backend'.reads = [backend.reads EXCEPT ![e.file] = KeptAtBackend(backend.reads[e.file], e)]
        /\ backend.reads \in [Files -> Evidence]
    BY <1>0, <2>1, <2>2, Projected DEF Backends
  <2>4. \A v : InReport(f, v)' <=> InReport(f, v)
    BY <2>1 DEF InReport
  <2>5. ASSUME NEW v, InQueue(f, v)' PROVE InQueue(f, v)
    <3>1. PICK i \in 1..Len(queue') : queue'[i].type = "read" /\ queue'[i].file = f /\ queue'[i].fidelity = v
      BY <2>5 DEF InQueue
    <3> QED
      BY <2>1, <3>1 DEF InQueue
  <2>6. ASSUME NEW v, InQueue(f, v) PROVE InQueue(f, v)' \/ (e.file = f /\ e.fidelity = v)
    <3>1. PICK i \in 1..Len(queue) : queue[i].type = "read" /\ queue[i].file = f /\ queue[i].fidelity = v
      BY <2>6 DEF InQueue
    <3>2. CASE i # 1
      <4>1. PICK j \in Int : j = i - 1
        OBVIOUS
      <4>2. j \in 1..Len(queue') /\ i = j + 1
        BY <2>1, <3>2, <4>1
      <4>3. queue'[j] = queue[i]
        BY <2>1, <4>2
      <4> QED
        BY <3>1, <4>2, <4>3 DEF InQueue
    <3> QED
      BY <2>1, <3>1, <3>2
  <2>7. CASE e.file # f
    <3>1. backend'.reads[f] = backend.reads[f]
      BY <2>2, <2>3, <2>7
    <3>2. \A v : Carries(f, v)' <=> Carries(f, v)
      BY <2>4, <2>5, <2>6, <2>7, <3>1 DEF Carries
    <3> QED
      BY <1>0, <2>1, <3>2
  <2>8. CASE e.file = f
    <3>1. backend'.reads[f].fidelity = Stronger(backend.reads[f].fidelity, e.fidelity)
      BY <2>2, <2>3, <2>8 DEF KeptAtBackend
    <3>2. InQueue(f, e.fidelity)
      BY <2>1, <2>2, <2>8 DEF InQueue
    <3>3. e.fidelity <= top /\ backend.reads[f].fidelity <= top
      BY <1>0, <2>2, <3>2 DEF Carries
    <3>4. ASSUME NEW v \in 0..3, Carries(f, v)' PROVE v <= top
      <4>1. Carries(f, v) \/ v = backend'.reads[f].fidelity
        BY <2>4, <2>5, <3>4 DEF Carries
      <4> HIDE DEF top
      <4> QED
        BY <1>0, <2>2, <3>1, <3>3, <4>1 DEF Stronger
    <3>5. Carries(f, top)'
      <4>1. CASE backend.reads[f].fidelity = top \/ e.fidelity = top
        <5>1. backend'.reads[f].fidelity = top
          BY <1>0, <2>2, <3>1, <3>3, <4>1 DEF Stronger
        <5> QED
          BY <2>1, <5>1 DEF Carries
      <4>2. CASE InQueue(f, top) \/ InReport(f, top)
        <5>1. InQueue(f, reads[f].fidelity)' \/ InReport(f, reads[f].fidelity)' \/ e.fidelity = top
          BY <2>1, <2>4, <2>6, <4>2
        <5> QED
          BY <4>1, <5>1, <2>1 DEF Carries
      <4> QED
        BY <1>0, <4>1, <4>2 DEF Carries
    <3> QED
      BY <2>1, <3>4, <3>5
  <2> QED
    BY <2>7, <2>8
<1>7. CASE SameQueue
  BY <1>1, <1>2, <1>3, <1>4, <1>5, <1>7, ServiceCases DEF ReadSetStep
<1> QED
  BY <1>5, <1>6, <1>7, QueueReads

\* ReadEvidenceAgrees, for every number of files, readers and reports: the
\* strongest evidence ChangedReadSet recorded is what the backend ends with,
\* in whatever order the reports are queued.
THEOREM EvidenceAgrees == Spec => []ReadEvidenceAgrees
<1>1. ASSUME Init PROVE EvidenceFollows
  <2>1. ASSUME NEW f \in Files PROVE backend.reads[f].fidelity = 0 /\ reads[f].fidelity = 0
    BY <1>1 DEF Init, EmptyBackend, NoRead
  <2>2. ASSUME NEW f \in Files, NEW v, Carries(f, v) PROVE v = 0
    <3>1. Len(queue) = 0 /\ \A r \in Readers : reader[r].pc = "idle"
      BY <1>1 DEF Init, IdleReader
    <3> QED
      BY <2>1, <2>2, <3>1 DEF Carries, InQueue, InReport
  <2>3. ASSUME NEW f \in Files PROVE Carries(f, reads[f].fidelity)
    BY <2>1 DEF Carries
  <2> QED
    BY <2>1, <2>2, <2>3 DEF EvidenceFollows
<1>2. EvidenceFollows => ReadEvidenceAgrees
  <2> SUFFICES ASSUME EvidenceFollows, queue = <<>>, faults = 0, moves = 0, \A r \in Readers : reader[r].pc = "idle",
                      NEW f \in Files
               PROVE  backend.reads[f].fidelity = reads[f].fidelity
    BY DEF ReadEvidenceAgrees
  <2>1. Carries(f, reads[f].fidelity) /\ Len(queue) = 0
    BY DEF EvidenceFollows
  <2> QED
    BY <2>1 DEF Carries, InQueue, InReport
<1> QED
  BY <1>1, <1>2, ServiceTypedInit, DeliveryInit, ServiceTypedStep, DeliveryTypedStep, EvidenceStep, PTL DEF Spec

-----------------------------------------------------------------------------
\* The backend catches up with the newest manifest.

IsPart(e) == e.type \in {"started", "chunk", "completed"}

\* Parts of manifests, queued, staged or refused, are of revisions there were.
PartsKnown ==
  /\ \A i \in 1..Len(queue) : IsPart(queue[i]) => queue[i].rev \in 1..active.rev
  /\ \A m \in backend.staged : m.rev <= active.rev
  /\ refused \subseteq 1..active.rev

\* The chunk an entry is in, and the entries of the first chunks.
ChunkOf(man, g) == Cardinality({h \in Changed(man) : h < g}) \div ChunkSize
Portion(man, k) == {<<f, man[f]>> : f \in {g \in Changed(man) : ChunkOf(man, g) < k}}

\* The chunks of a manifest, one after the other, make up all of it.
LEMMA PortionGrows ==
  ASSUME NEW man \in Manifest
  PROVE  /\ Portion(man, 0) = {}
         /\ \A k \in Nat : Portion(man, k) \cup Chunk(man, k) = Portion(man, k + 1)
         /\ Portion(man, ChunkCount(man)) = {<<f, man[f]>> : f \in Changed(man)}
<1>1. IsFiniteSet(Changed(man)) /\ Cardinality(Changed(man)) \in Nat /\ Changed(man) \subseteq Nat
  BY ObservationAssumption, FS_Subset, FS_CardinalityType DEF Changed
<1>2. ASSUME NEW g \in Changed(man) PROVE ChunkOf(man, g) \in Nat /\ ChunkOf(man, g) < ChunkCount(man)
  <2> DEFINE below == {h \in Changed(man) : h < g}
  <2>1. below \subseteq Changed(man) \ {g} /\ Changed(man) \ {g} \subseteq Changed(man)
    BY <1>1
  <2>2. IsFiniteSet(Changed(man) \ {g}) /\ Cardinality(Changed(man) \ {g}) = Cardinality(Changed(man)) - 1
    BY <1>1, FS_RemoveElement
  <2>3. Cardinality(below) <= Cardinality(Changed(man) \ {g}) /\ IsFiniteSet(below)
    BY <2>1, <2>2, FS_Subset
  <2>4. Cardinality(below) \in Nat
    BY <2>3, FS_CardinalityType
  <2>5. Cardinality(below) < Cardinality(Changed(man))
    BY <1>1, <2>2, <2>3, <2>4
  <2> HIDE DEF below
  <2>6. /\ Cardinality(below) \div ChunkSize \in Nat
        /\ Cardinality(below) \div ChunkSize < (Cardinality(Changed(man)) + ChunkSize - 1) \div ChunkSize
    BY <1>1, <2>4, <2>5, Division, ObservationAssumption
  <2> QED
    BY <2>6 DEF below, ChunkOf, ChunkCount
<1>3. \A k : Chunk(man, k) = {<<f, man[f]>> : f \in {g \in Changed(man) : ChunkOf(man, g) = k}}
  BY DEF Chunk, ChunkOf
<1> HIDE DEF Chunk, ChunkOf, ChunkCount
<1>4. Portion(man, 0) = {}
  BY <1>2 DEF Portion
<1>5. ASSUME NEW k \in Nat PROVE Portion(man, k) \cup Chunk(man, k) = Portion(man, k + 1)
  <2>1. {g \in Changed(man) : ChunkOf(man, g) < k} \cup {g \in Changed(man) : ChunkOf(man, g) = k}
          = {g \in Changed(man) : ChunkOf(man, g) < k + 1}
    BY <1>2
  <2> QED
    BY <1>3, <2>1 DEF Portion
<1>6. {g \in Changed(man) : ChunkOf(man, g) < ChunkCount(man)} = Changed(man)
  BY <1>2
<1> QED
  BY <1>4, <1>5, <1>6 DEF Portion

\* Every step keeps the parts known.
LEMMA PartsStep == ServiceTyped /\ DeliveryTyped /\ PartsKnown /\ [Next]_vars => PartsKnown'
<1> SUFFICES ASSUME ServiceTyped, DeliveryTyped, PartsKnown, [Next]_vars PROVE PartsKnown'
  OBVIOUS
<1>0. active.rev \in Nat /\ backend \in Backends
  BY DEF ServiceTyped, ScanTyped, Revisions, DeliveryTyped
<1>1. CASE Rests
  BY <1>1 DEF Rests, PartsKnown
<1>2. CASE PublishManifest
  <2> DEFINE rev == active.rev + 1
             n == ChunkCount(scan.man)
             ev == ManifestEvents(rev, scan.man)
  <2>1. /\ scan.man \in Manifest /\ rev \in Nat /\ backend' = backend /\ refused' = refused
        /\ queue' = queue \o ev /\ active'.rev = rev
    BY <1>2 DEF PublishManifest, ScanStep, ServiceTyped, ScanTyped, Scans, Revisions
  <2>2. n \in Nat /\ ev \in Seq(Events) /\ Len(ev) = n + 2 /\ \A j \in 1..Len(ev) : ev[j].rev = rev
    BY <2>1, ManifestParts
  <2> HIDE DEF ev, n
  <2>3. /\ Len(queue') = Len(queue) + Len(ev) /\ Len(queue) \in Nat
        /\ \A i \in 1..Len(queue) : queue'[i] = queue[i]
        /\ \A i \in 1..Len(ev) : queue'[Len(queue) + i] = ev[i]
    BY <2>1, <2>2, Joined
  <2>4. ASSUME NEW i \in 1..Len(queue'), IsPart(queue'[i]) PROVE queue'[i].rev \in 1..rev
    <3>1. CASE i \in 1..Len(queue)
      <4>1. queue'[i] = queue[i] /\ queue[i].rev \in 1..active.rev
        BY <2>3, <2>4, <3>1 DEF PartsKnown
      <4> QED
        BY <1>0, <4>1
    <3>2. CASE i \notin 1..Len(queue)
      <4>0. i \in Int /\ Len(queue) \in Int
        BY <2>3
      <4>1. PICK j \in Int : j = i - Len(queue)
        BY <4>0
      <4>2. j \in 1..Len(ev) /\ i = Len(queue) + j
        BY <2>2, <2>3, <3>2, <4>1
      <4>3. queue'[i].rev = rev
        BY <2>2, <2>3, <4>2
      <4> QED
        BY <1>0, <4>3
    <3> QED
      BY <3>1, <3>2
  <2>5. (\A m \in backend.staged : m.rev <= rev) /\ refused \subseteq 1..rev
    <3>1. ASSUME NEW m \in backend.staged PROVE m.rev <= rev
      <4>1. m.rev <= active.rev /\ m.rev \in Nat
        BY <1>0 DEF PartsKnown, Backends, Staged
      <4> QED
        BY <1>0, <4>1
    <3>2. 1..active.rev \subseteq 1..rev
      BY <1>0
    <3> QED
      BY <3>1, <3>2 DEF PartsKnown
  <2> HIDE DEF rev
  <2> QED
    BY <2>1, <2>4, <2>5 DEF PartsKnown, IsPart
<1>3. CASE Reports
  <2>1. PICK e \in FingerprintEvents \cup ReadEvents :
          queue' = Append(queue, e) /\ UNCHANGED <<backend, refused, active>>
    BY <1>3 DEF Reports
  <2>2. e \in Events /\ ~IsPart(e)
    BY DEF FingerprintEvents, ReadEvents, Events, IsPart
  <2>3. /\ Len(queue') = Len(queue) + 1 /\ Len(queue) \in Nat
        /\ \A i \in 1..Len(queue) : queue'[i] = queue[i]
        /\ queue'[Len(queue) + 1] = e
    BY <2>1, <2>2, Reported
  <2>4. \A i \in 1..Len(queue') : i \in 1..Len(queue) \/ queue'[i] = e
    BY <2>3
  <2> QED
    BY <2>1, <2>2, <2>3, <2>4 DEF PartsKnown
<1>4. CASE Deliver \/ Refuse
  <2> DEFINE e == queue[1]
  <2>1. /\ Len(queue) \in Nat \ {0} /\ Head(queue) = e /\ e \in Events /\ active' = active
        /\ \A i \in 1..Len(queue') : queue'[i] = queue[i + 1] /\ i + 1 \in 1..Len(queue)
    BY <1>4, Shifted
  <2>2. IsPart(e) => e.rev \in 1..active.rev
    BY <2>1 DEF PartsKnown
  <2> HIDE DEF e
  <2>3. \A i \in 1..Len(queue') : IsPart(queue'[i]) => queue'[i].rev \in 1..active.rev
    BY <2>1 DEF PartsKnown
  <2>4. refused' \subseteq 1..active.rev
    <3>1. refused' = refused \/ (IsPart(e) /\ refused' = refused \cup {e.rev})
      BY <1>4, <2>1 DEF Deliver, Refuse, historyVars, IsPart
    <3> QED
      BY <2>2, <3>1 DEF PartsKnown
  <2>5. \A m \in backend'.staged : m.rev <= active.rev
    <3>1. CASE Refuse
      BY <3>1 DEF Refuse, PartsKnown
    <3>2. CASE Deliver
      <4>1. Accepts(e) /\ backend' = Project(e)
        BY <2>1, <3>2 DEF Deliver
      <4>2. CASE e.type = "started"
        <5>1. backend'.staged = backend.staged \cup {[rev |-> e.rev, count |-> e.count, got |-> {}, entries |-> {}]}
          BY <2>1, <4>1, <4>2, Projected
        <5>2. [rev |-> e.rev, count |-> e.count, got |-> {}, entries |-> {}].rev = e.rev /\ e.rev <= active.rev
          BY <1>0, <2>2, <4>2 DEF IsPart
        <5> QED
          BY <5>1, <5>2 DEF PartsKnown
      <4>3. CASE e.type = "chunk"
        <5> DEFINE new == [Of(e) EXCEPT !.got = @ \cup {e.at}, !.entries = @ \cup e.entries]
        <5>1. /\ Of(e) \in backend.staged /\ backend'.staged = (backend.staged \ {Of(e)}) \cup {new}
          BY <2>1, <4>1, <4>3, Projected
        <5>2. new.rev = Of(e).rev
          BY <1>0, <5>1 DEF Backends, Staged
        <5> HIDE DEF new
        <5> QED
          BY <5>1, <5>2 DEF PartsKnown
      <4>4. CASE e.type \in {"completed", "fingerprints", "read"}
        <5>1. backend'.staged \subseteq backend.staged
          BY <2>1, <4>1, <4>4, Projected
        <5> QED
          BY <5>1 DEF PartsKnown
      <4> QED
        BY <2>1, <4>2, <4>3, <4>4, EventKinds
    <3> QED
      BY <1>4, <3>1, <3>2
  <2> QED
    BY <2>1, <2>3, <2>4, <2>5 DEF PartsKnown
<1>5. CASE Move
  <2>1. Len(queue') = 0 /\ backend'.staged = {} /\ UNCHANGED <<refused, active>>
    BY <1>5 DEF Move, EmptyBackend
  <2> QED
    BY <2>1 DEF PartsKnown
<1> QED
  BY <1>1, <1>2, <1>3, <1>4, <1>5, QueueCases

\* The newest manifest: how many chunks it has, and its events.
Count == ChunkCount(active.man)
Newest == ManifestEvents(active.rev, active.man)

\* When d of its events are delivered (or, below zero, -d events are ahead of
\* it): the others are queued in order, and none of its events is elsewhere.
InPlace(d) ==
  /\ \A j \in 1..(Count + 2) : j > d => j - d <= Len(queue) /\ queue[j - d] = Newest[j]
  /\ \A i \in 1..Len(queue) : IsPart(queue[i]) /\ queue[i].rev = active.rev => i + d \in 1..(Count + 2)

\* What the backend then has of it: nothing, the first chunks, or all.
Built(d) ==
  /\ d <= 0 => \A m \in backend.staged : m.rev # active.rev
  /\ d \in 1..(Count + 1) =>
       [rev |-> active.rev, count |-> Count, got |-> 0..(d - 2), entries |-> Portion(active.man, d - 1)] \in backend.staged
  /\ d <= Count + 1 => backend.active.rev < active.rev
  /\ d >= Count + 2 => backend.active = active

Followed ==
  moves = 0 =>
    /\ active.rev = 0 => backend.active = active
    /\ active.rev > 0 /\ active.rev \notin refused => \E d \in Int : InPlace(d) /\ Built(d)

\* The newest manifest and its events have their types.
LEMMA NewestTyped ==
  ASSUME ServiceTyped
  PROVE  /\ active.rev \in Nat /\ active.man \in Manifest /\ active = [rev |-> active.rev, man |-> active.man]
         /\ Count \in Nat /\ Newest \in Seq(Events) /\ Len(Newest) = Count + 2
         /\ Newest[1] = [type |-> "started", rev |-> active.rev, count |-> Count]
         /\ \A i \in 1..Count :
              Newest[i + 1] = [type |-> "chunk", rev |-> active.rev, at |-> i - 1, entries |-> Chunk(active.man, i - 1)]
         /\ Newest[Count + 2] = [type |-> "completed", rev |-> active.rev, hash |-> active.man]
         /\ \A j \in 1..(Count + 2) : Newest[j].rev = active.rev /\ IsPart(Newest[j])
<1>1. active.rev \in Nat /\ active.man \in Manifest /\ active = [rev |-> active.rev, man |-> active.man]
  BY DEF ServiceTyped, ScanTyped, Revisions
<1>2. /\ Count \in Nat /\ Newest \in Seq(Events) /\ Len(Newest) = Count + 2
      /\ Newest[1] = [type |-> "started", rev |-> active.rev, count |-> Count]
      /\ \A i \in 1..Count :
           Newest[i + 1] = [type |-> "chunk", rev |-> active.rev, at |-> i - 1, entries |-> Chunk(active.man, i - 1)]
      /\ Newest[Count + 2] = [type |-> "completed", rev |-> active.rev, hash |-> active.man]
  BY <1>1, ManifestQueued DEF Count, Newest
<1>3. \A j \in 1..Len(Newest) : Newest[j].rev = active.rev /\ IsPart(Newest[j])
  BY <1>1, ManifestParts DEF Newest, IsPart
<1> HIDE DEF Count, Newest
<1>4. \A j \in 1..(Count + 2) : Newest[j].rev = active.rev /\ IsPart(Newest[j])
  BY <1>2, <1>3
<1> QED
  BY <1>1, <1>2, <1>4

\* An event that leaves the queue moves the others up.
LEMMA MovesUp ==
  ASSUME ServiceTyped, DeliveryTyped, Deliver \/ Refuse, NEW d \in Int, InPlace(d)
  PROVE  InPlace(d + 1)'
<1>1. /\ Len(queue) \in Nat \ {0} /\ Len(queue') = Len(queue) - 1 /\ active' = active
      /\ \A i \in 1..Len(queue') : queue'[i] = queue[i + 1] /\ i + 1 \in 1..Len(queue)
  BY Shifted
<1>2. Count' = Count /\ Newest' = Newest /\ Count \in Nat
  BY <1>1, NewestTyped DEF Count, Newest
<1>3. ASSUME NEW j \in 1..(Count + 2), j > d + 1
      PROVE  j - (d + 1) <= Len(queue') /\ queue'[j - (d + 1)] = Newest[j]
  <2>0. j \in Int /\ j > d
    BY <1>3
  <2>1. j - d <= Len(queue) /\ queue[j - d] = Newest[j]
    BY <2>0 DEF InPlace
  <2>2. PICK i \in Int : i = j - (d + 1)
    BY <2>0
  <2>3. i \in 1..Len(queue') /\ i + 1 = j - d
    BY <1>1, <1>3, <2>0, <2>1, <2>2
  <2>4. queue'[i] = queue[i + 1]
    BY <1>1, <2>3
  <2> QED
    BY <1>1, <2>1, <2>2, <2>3, <2>4
<1>4. ASSUME NEW i \in 1..Len(queue'), IsPart(queue'[i]), queue'[i].rev = active.rev
      PROVE  i + (d + 1) \in 1..(Count + 2)
  <2>1. queue'[i] = queue[i + 1] /\ i + 1 \in 1..Len(queue)
    BY <1>1
  <2>2. (i + 1) + d \in 1..(Count + 2)
    BY <1>4, <2>1 DEF InPlace
  <2>3. (i + 1) + d = i + (d + 1)
    OBVIOUS
  <2> QED
    BY <2>2, <2>3
<1> HIDE DEF Count, Newest
<1> QED
  BY <1>1, <1>2, <1>3, <1>4 DEF InPlace, IsPart

\* The event that leaves the queue is the next one of the newest manifest, or
\* none of its events.
LEMMA NextEvent ==
  ASSUME ServiceTyped, DeliveryTyped, Deliver \/ Refuse, NEW d \in Int, InPlace(d)
  PROVE  /\ d + 1 \in 1..(Count + 2) => Head(queue) = Newest[d + 1]
         /\ d + 1 \notin 1..(Count + 2) => ~(IsPart(Head(queue)) /\ Head(queue).rev = active.rev)
<1>1. Len(queue) \in Nat \ {0} /\ Head(queue) = queue[1] /\ Count \in Nat
  BY Shifted, NewestTyped
<1> HIDE DEF Count, Newest
<1>2. ASSUME d + 1 \in 1..(Count + 2) PROVE Head(queue) = Newest[d + 1]
  <2>1. PICK j \in Int : j = d + 1
    OBVIOUS
  <2>2. j \in 1..(Count + 2) /\ j > d /\ j - d = 1
    BY <1>2, <2>1
  <2>3. queue[j - d] = Newest[j]
    BY <2>2 DEF InPlace
  <2> QED
    BY <1>1, <2>1, <2>2, <2>3
<1>3. ASSUME IsPart(Head(queue)), Head(queue).rev = active.rev PROVE d + 1 \in 1..(Count + 2)
  <2>1. 1 \in 1..Len(queue)
    BY <1>1
  <2>2. 1 + d \in 1..(Count + 2)
    BY <1>1, <1>3, <2>1 DEF InPlace
  <2> QED
    BY <2>2
<1> QED
  BY <1>2, <1>3

\* The next event of the newest manifest is never refused for what is projected.
LEMMA NextAccepted ==
  ASSUME ServiceTyped, DeliveryTyped, NEW d \in Int, Built(d), d + 1 \in 1..(Count + 2)
  PROVE  Accepts(Newest[d + 1])
<1> DEFINE m == [rev |-> active.rev, count |-> Count, got |-> 0..(d - 2), entries |-> Portion(active.man, d - 1)]
<1>0. /\ active.rev \in Nat /\ active.man \in Manifest /\ Count \in Nat
      /\ Newest[1] = [type |-> "started", rev |-> active.rev, count |-> Count]
      /\ \A i \in 1..Count :
           Newest[i + 1] = [type |-> "chunk", rev |-> active.rev, at |-> i - 1, entries |-> Chunk(active.man, i - 1)]
      /\ Newest[Count + 2] = [type |-> "completed", rev |-> active.rev, hash |-> active.man]
  BY NewestTyped
<1>1. Count = ChunkCount(active.man)
  BY DEF Count
<1> HIDE DEF Count, Newest
<1>2. CASE d = 0
  <2>1. Newest[d + 1].type = "started" /\ Newest[d + 1].rev = active.rev
    BY <1>0, <1>2
  <2>2. \A k \in backend.staged : k.rev # active.rev
    BY <1>2 DEF Built
  <2> QED
    BY <2>1, <2>2 DEF Accepts
<1>3. d > 0 => d \in 1..(Count + 1)
  BY <1>0
<1>4. d > 0 => m \in backend.staged
  BY <1>3 DEF Built
<1>5. m.rev = active.rev /\ m.count = Count /\ m.got = 0..(d - 2) /\ m.entries = Portion(active.man, d - 1)
  OBVIOUS
<1> HIDE DEF m
<1>6. CASE d \in 1..Count
  <2>1. Newest[d + 1] = [type |-> "chunk", rev |-> active.rev, at |-> d - 1, entries |-> Chunk(active.man, d - 1)]
    BY <1>0, <1>6
  <2>2. PICK e : e = Newest[d + 1]
    OBVIOUS
  <2>3. e.type = "chunk" /\ e.rev = active.rev /\ e.at = d - 1
    BY <2>1, <2>2
  <2>4. e.at < m.count /\ e.at \notin m.got
    BY <1>0, <1>5, <1>6, <2>3
  <2>5. Accepts(e)
    BY <1>4, <1>5, <1>6, <2>3, <2>4 DEF Accepts
  <2> QED
    BY <2>2, <2>5
<1>7. CASE d = Count + 1
  <2>1. PICK e : e = Newest[d + 1]
    OBVIOUS
  <2>2. e = [type |-> "completed", rev |-> active.rev, hash |-> active.man]
    <3>1. d + 1 = Count + 2
      BY <1>0, <1>7
    <3> QED
      BY <1>0, <2>1, <3>1
  <2>3. e.type = "completed" /\ e.rev = active.rev /\ e.hash = active.man
    BY <2>2
  <2>4. d - 2 = Count - 1 /\ d - 1 = Count
    BY <1>0, <1>7
  <2>5. Portion(active.man, Count) = {<<f, active.man[f]>> : f \in Changed(active.man)}
    BY <1>0, <1>1, PortionGrows
  <2>6. m.got = 0..(m.count - 1) /\ m.entries = {<<f, e.hash[f]>> : f \in Changed(e.hash)}
    BY <1>5, <2>3, <2>4, <2>5
  <2>7. Whole(e, m)
    BY <1>5, <2>3, <2>6 DEF Whole
  <2>8. m \in backend.staged
    BY <1>0, <1>4, <1>7
  <2> QED
    BY <2>1, <2>3, <2>7, <2>8 DEF Accepts
<1> QED
  BY <1>0, <1>2, <1>6, <1>7

\* A staged manifest with more chunks.
LEMMA StagedWith ==
  ASSUME NEW m \in Staged, NEW a \in SUBSET Nat, NEW b \in SUBSET Entries
  PROVE  [m EXCEPT !.got = a, !.entries = b] = [rev |-> m.rev, count |-> m.count, got |-> a, entries |-> b]
<1>1. \A x, y \in Staged : x.rev = y.rev /\ x.count = y.count /\ x.got = y.got /\ x.entries = y.entries => x = y
  BY DEF Staged
<1>2. PICK x : x = [m EXCEPT !.got = a, !.entries = b]
  OBVIOUS
<1>3. PICK y : y = [rev |-> m.rev, count |-> m.count, got |-> a, entries |-> b]
  OBVIOUS
<1>4. x \in Staged /\ x.rev = m.rev /\ x.count = m.count /\ x.got = a /\ x.entries = b
  BY <1>2 DEF Staged
<1>5. y \in Staged /\ y.rev = m.rev /\ y.count = m.count /\ y.got = a /\ y.entries = b
  BY <1>3 DEF Staged
<1>6. x = y
  BY <1>1, <1>4, <1>5
<1> QED
  BY <1>2, <1>3, <1>6

\* Delivering an event builds the newest manifest further, or leaves it alone.
LEMMA BuildsUp ==
  ASSUME ServiceTyped, DeliveryTyped, WholeManifests, PartsKnown, Deliver, active.rev > 0,
         NEW d \in Int, InPlace(d), Built(d)
  PROVE  Built(d + 1)'
<1> DEFINE e == Head(queue)
           m == [rev |-> active.rev, count |-> Count, got |-> 0..(d - 2), entries |-> Portion(active.man, d - 1)]
<1>0. /\ active.rev \in Nat /\ active.man \in Manifest /\ active = [rev |-> active.rev, man |-> active.man]
      /\ Count \in Nat
      /\ Newest[1] = [type |-> "started", rev |-> active.rev, count |-> Count]
      /\ \A i \in 1..Count :
           Newest[i + 1] = [type |-> "chunk", rev |-> active.rev, at |-> i - 1, entries |-> Chunk(active.man, i - 1)]
      /\ Newest[Count + 2] = [type |-> "completed", rev |-> active.rev, hash |-> active.man]
  BY NewestTyped
<1>1. /\ e \in Events /\ Accepts(e) /\ backend' = Project(e) /\ active' = active /\ backend \in Backends
      /\ e = queue[1] /\ 1 \in 1..Len(queue)
  BY Shifted DEF Deliver, DeliveryTyped
<1>2. /\ d + 1 \in 1..(Count + 2) => e = Newest[d + 1]
      /\ d + 1 \notin 1..(Count + 2) => ~(IsPart(e) /\ e.rev = active.rev)
  BY NextEvent
<1>3. Count' = Count /\ active'.rev = active.rev /\ active'.man = active.man
  BY <1>1 DEF Count
<1>4. m.rev = active.rev /\ m.count = Count /\ m.got = 0..(d - 2) /\ m.entries = Portion(active.man, d - 1)
  OBVIOUS
<1>5. d \in 1..(Count + 1) => m \in backend.staged
  BY DEF Built
<1>6. backend.active.rev \in Nat
  BY <1>1 DEF Backends, Revisions
<1> HIDE DEF Count, Newest, e, m
<1>7. CASE d = 0
  <2>1. e = [type |-> "started", rev |-> active.rev, count |-> Count]
    BY <1>0, <1>2, <1>7
  <2>2. e.type = "started" /\ e.rev = active.rev /\ e.count = Count
    BY <2>1
  <2>3. /\ backend'.staged = backend.staged \cup {[rev |-> active.rev, count |-> Count, got |-> {}, entries |-> {}]}
        /\ backend'.active = backend.active
    BY <1>1, <2>2, Projected
  <2>4. 0..(1 - 2) = {} /\ Portion(active.man, 1 - 1) = {}
    BY <1>0, PortionGrows
  <2>5. [rev |-> active.rev, count |-> Count, got |-> 0..(1 - 2), entries |-> Portion(active.man, 1 - 1)]
          \in backend'.staged
    BY <2>3, <2>4
  <2>6. backend.active.rev < active.rev
    BY <1>0, <1>7 DEF Built
  <2>7. d + 1 = 1 /\ ~(1 <= 0) /\ ~(1 >= Count + 2)
    BY <1>0, <1>7
  <2> QED
    BY <1>3, <2>3, <2>5, <2>6, <2>7 DEF Built
<1>8. CASE d \in 1..Count
  <2>0. d + 1 \in 1..(Count + 2)
    BY <1>0, <1>8
  <2>1. e = [type |-> "chunk", rev |-> active.rev, at |-> d - 1, entries |-> Chunk(active.man, d - 1)]
    BY <1>0, <1>2, <1>8, <2>0
  <2>2. e.type = "chunk" /\ e.rev = active.rev /\ e.at = d - 1 /\ e.entries = Chunk(active.man, d - 1)
    BY <2>1
  <2>3. m \in backend.staged
    BY <1>0, <1>5, <1>8
  <2>4. /\ Of(e) \in backend.staged /\ Of(e).rev = active.rev
        /\ backend'.staged = (backend.staged \ {Of(e)}) \cup
             {[Of(e) EXCEPT !.got = @ \cup {e.at}, !.entries = @ \cup e.entries]}
        /\ backend'.active = backend.active
    BY <1>1, <2>2, Projected
  <2>5. Of(e) = m
    BY <1>4, <2>3, <2>4 DEF WholeManifests
  <2>6. [m EXCEPT !.got = @ \cup {e.at}, !.entries = @ \cup e.entries]
          = [rev |-> active.rev, count |-> Count, got |-> 0..(d + 1 - 2), entries |-> Portion(active.man, d + 1 - 1)]
    <3>1. m.got \cup {e.at} = 0..(d + 1 - 2)
      BY <1>4, <1>8, <2>2
    <3>2. d - 1 \in Nat /\ d - 1 + 1 = d + 1 - 1
      BY <1>8
    <3>3. m.entries \cup e.entries = Portion(active.man, d + 1 - 1)
      BY <1>0, <1>4, <2>2, <3>2, PortionGrows
    <3>4. [m EXCEPT !.got = @ \cup {e.at}, !.entries = @ \cup e.entries]
            = [rev |-> active.rev, count |-> Count, got |-> m.got \cup {e.at}, entries |-> m.entries \cup e.entries]
      <4>1. m \in Staged /\ m.rev = active.rev /\ m.count = Count
        BY <1>1, <1>4, <2>3 DEF Backends
      <4>2. m.got \cup {e.at} \in SUBSET Nat /\ m.entries \cup e.entries \in SUBSET Entries
        <5>1. e \in ChunkEvents
          BY <1>1, <2>2, EventKinds
        <5> QED
          BY <4>1, <5>1 DEF Staged, ChunkEvents
      <4>3. PICK a \in SUBSET Nat, b \in SUBSET Entries : a = m.got \cup {e.at} /\ b = m.entries \cup e.entries
        BY <4>2
      <4>4. [m EXCEPT !.got = a, !.entries = b] = [rev |-> m.rev, count |-> m.count, got |-> a, entries |-> b]
        BY <4>1, StagedWith, Zenon
      <4> QED
        BY <4>1, <4>3, <4>4, Zenon
    <3> QED
      BY <3>1, <3>3, <3>4
  <2>7. [rev |-> active.rev, count |-> Count, got |-> 0..(d + 1 - 2), entries |-> Portion(active.man, d + 1 - 1)]
          \in backend'.staged
    BY <2>4, <2>5, <2>6
  <2>8. backend.active.rev < active.rev /\ ~(d + 1 <= 0) /\ ~(d + 1 >= Count + 2)
    BY <1>0, <1>8 DEF Built
  <2> QED
    BY <1>3, <2>4, <2>7, <2>8 DEF Built
<1>9. CASE d = Count + 1
  <2>1. e = [type |-> "completed", rev |-> active.rev, hash |-> active.man]
    <3>1. d + 1 = Count + 2 /\ d + 1 \in 1..(Count + 2)
      BY <1>0, <1>9
    <3> QED
      BY <1>0, <1>2, <3>1
  <2>2. e.type = "completed" /\ e.rev = active.rev /\ e.hash = active.man
    BY <2>1
  <2>3. /\ Of(e) \in backend.staged /\ Of(e).rev = active.rev
        /\ backend'.active = IF Newer(Of(e)) THEN [rev |-> active.rev, man |-> Assembled(Of(e))] ELSE backend.active
    BY <1>1, <2>2, Projected
  <2>4. Newer(Of(e))
    <3>1. backend.active.rev < active.rev
      BY <1>0, <1>9 DEF Built
    <3> QED
      BY <1>0, <1>6, <2>3, <3>1 DEF Newer
  <2>5. PICK k \in backend.staged : Whole(e, k)
    BY <1>1, <2>2 DEF Accepts
  <2>6. k = Of(e)
    BY <2>2, <2>3, <2>5 DEF Whole, WholeManifests
  <2>7. Assembled(Of(e)) = active.man
    BY <1>0, <2>2, <2>5, <2>6, WholeAssembles
  <2>8. backend'.active = active
    BY <1>0, <2>3, <2>4, <2>7
  <2>9. ~(d + 1 <= 0) /\ d + 1 \notin 1..(Count + 1) /\ ~(d + 1 <= Count + 1)
    BY <1>0, <1>9
  <2> QED
    BY <1>1, <1>3, <2>8, <2>9 DEF Built
<1>10. CASE d + 1 \notin 1..(Count + 2)
  <2>1. ~(IsPart(e) /\ e.rev = active.rev)
    BY <1>2, <1>10
  <2>2. IsPart(e) => e.rev \in 1..active.rev /\ e.rev < active.rev
    <3>1. IsPart(e) => e.rev \in 1..active.rev
      BY <1>1 DEF PartsKnown
    <3> QED
      BY <1>0, <2>1, <3>1
  <2>3. (\A k \in backend.staged : k.rev # active.rev) => \A k \in backend'.staged : k.rev # active.rev
    <3>1. CASE e.type = "started"
      <4>1. backend'.staged = backend.staged \cup {[rev |-> e.rev, count |-> e.count, got |-> {}, entries |-> {}]}
        BY <1>1, <3>1, Projected
      <4>2. [rev |-> e.rev, count |-> e.count, got |-> {}, entries |-> {}].rev # active.rev
        BY <2>1, <3>1 DEF IsPart
      <4> QED
        BY <4>1, <4>2
    <3>2. CASE e.type = "chunk"
      <4> DEFINE new == [Of(e) EXCEPT !.got = @ \cup {e.at}, !.entries = @ \cup e.entries]
      <4>1. /\ Of(e) \in backend.staged /\ backend'.staged = (backend.staged \ {Of(e)}) \cup {new}
        BY <1>1, <3>2, Projected
      <4>2. new.rev = Of(e).rev
        BY <1>1, <4>1 DEF Backends, Staged
      <4> HIDE DEF new
      <4> QED
        BY <4>1, <4>2
    <3>3. CASE e.type \in {"completed", "fingerprints", "read"}
      <4>1. backend'.staged \subseteq backend.staged
        BY <1>1, <3>3, Projected
      <4> QED
        BY <4>1
    <3> QED
      BY <1>1, <3>1, <3>2, <3>3, EventKinds
  <2>4. backend'.active = backend.active
        \/ (backend'.active.rev < active.rev /\ backend'.active.rev > backend.active.rev /\ backend'.active.rev \in Nat)
    <3>1. CASE e.type = "completed"
      <4>1. /\ Of(e).rev = e.rev
            /\ backend'.active = IF Newer(Of(e)) THEN [rev |-> e.rev, man |-> Assembled(Of(e))] ELSE backend.active
        BY <1>1, <3>1, Projected
      <4>2. e.rev < active.rev /\ e.rev \in Nat
        BY <1>0, <2>2, <3>1 DEF IsPart
      <4>3. CASE Newer(Of(e))
        <5>1. backend'.active.rev = e.rev /\ e.rev > backend.active.rev
          BY <4>1, <4>3 DEF Newer
        <5> QED
          BY <4>2, <5>1
      <4> QED
        BY <4>1, <4>3
    <3>2. CASE e.type # "completed"
      BY <1>1, <3>2, Projected, EventKinds
    <3> QED
      BY <3>1, <3>2
  <2>5. CASE d < 0
    <3>1. (\A k \in backend.staged : k.rev # active.rev) /\ backend.active.rev < active.rev
      BY <1>0, <2>5 DEF Built
    <3>2. backend'.active.rev < active.rev
      BY <2>4, <3>1
    <3>3. d + 1 \notin 1..(Count + 1) /\ ~(d + 1 >= Count + 2)
      BY <1>0, <2>5
    <3> QED
      BY <1>3, <2>3, <3>1, <3>2, <3>3 DEF Built
  <2>6. CASE d >= Count + 2
    <3>1. backend.active = active
      BY <2>6 DEF Built
    <3>2. backend'.active = active
      BY <1>0, <2>4, <3>1
    <3>3. ~(d + 1 <= 0) /\ d + 1 \notin 1..(Count + 1) /\ ~(d + 1 <= Count + 1)
      BY <1>0, <2>6
    <3> QED
      BY <1>1, <1>3, <3>2, <3>3 DEF Built
  <2>7. d < 0 \/ d >= Count + 2
    BY <1>0, <1>10
  <2> QED
    BY <2>5, <2>6, <2>7
<1>11. d = 0 \/ d \in 1..Count \/ d = Count + 1 \/ d + 1 \notin 1..(Count + 2)
  BY <1>0
<1> QED
  BY <1>7, <1>8, <1>9, <1>10, <1>11

\* What joins the queue behind the newest manifest leaves it in its place.
LEMMA StaysInPlace ==
  ASSUME ServiceTyped, DeliveryTyped, Reports, NEW d \in Int, InPlace(d)
  PROVE  InPlace(d)'
<1>1. PICK e \in FingerprintEvents \cup ReadEvents : queue' = Append(queue, e) /\ active' = active
  BY DEF Reports
<1>2. e \in Events /\ ~IsPart(e)
  BY DEF FingerprintEvents, ReadEvents, Events, IsPart
<1>3. /\ Len(queue') = Len(queue) + 1 /\ Len(queue) \in Nat
      /\ \A i \in 1..Len(queue) : queue'[i] = queue[i]
      /\ queue'[Len(queue) + 1] = e
  BY <1>1, <1>2, Reported
<1>4. Count' = Count /\ Newest' = Newest /\ Count \in Nat
  BY <1>1, NewestTyped DEF Count, Newest
<1> HIDE DEF Count, Newest
<1>5. ASSUME NEW j \in 1..(Count + 2), j > d
      PROVE  j - d <= Len(queue') /\ queue'[j - d] = Newest[j]
  <2>1. j - d <= Len(queue) /\ queue[j - d] = Newest[j] /\ j \in Int
    BY <1>5 DEF InPlace
  <2>2. PICK i \in Int : i = j - d
    BY <2>1
  <2>3. i \in 1..Len(queue)
    BY <1>3, <1>5, <2>1, <2>2
  <2> QED
    BY <1>3, <2>1, <2>2, <2>3
<1>6. ASSUME NEW i \in 1..Len(queue'), IsPart(queue'[i]), queue'[i].rev = active.rev
      PROVE  i + d \in 1..(Count + 2)
  <2>1. i \in 1..Len(queue)
    BY <1>2, <1>3, <1>6
  <2> QED
    BY <1>3, <1>6, <2>1 DEF InPlace
<1> QED
  BY <1>1, <1>4, <1>5, <1>6 DEF InPlace, IsPart

\* A manifest that is published has all its events queued, behind what there was.
LEMMA PublishedInPlace ==
  ASSUME ServiceTyped, DeliveryTyped, WholeManifests, PartsKnown, PublishManifest
  PROVE  \E d \in Int : InPlace(d)' /\ Built(d)'
<1>0. PICK d \in Int : d = 0 - Len(queue)
  BY DEF DeliveryTyped
<1>1. /\ scan.man \in Manifest /\ active.rev \in Nat /\ backend' = backend
      /\ active' = [rev |-> active.rev + 1, man |-> scan.man]
      /\ queue' = queue \o ManifestEvents(active.rev + 1, scan.man)
      /\ backend \in Backends /\ active.rev = Len(published)
  BY DEF PublishManifest, ScanStep, ServiceTyped, ScanTyped, Scans, Revisions, DeliveryTyped
<1>2. active'.rev = active.rev + 1 /\ active'.man = scan.man /\ active.rev + 1 \in Nat
  BY <1>1
<1> DEFINE n == ChunkCount(scan.man)
           ev == ManifestEvents(active.rev + 1, scan.man)
<1>3. Newest' = ev /\ Count' = n
  BY <1>2 DEF Newest, Count
<1>4. /\ n \in Nat /\ ev \in Seq(Events) /\ Len(ev) = n + 2
  BY <1>1, <1>2, ManifestParts
<1>5. queue' = queue \o ev
  BY <1>1
<1> HIDE DEF Newest, Count, n, ev
<1>6. /\ Len(queue') = Len(queue) + Len(ev) /\ Len(queue) \in Nat
      /\ \A i \in 1..Len(queue) : queue'[i] = queue[i]
      /\ \A i \in 1..Len(ev) : queue'[Len(queue) + i] = ev[i]
  BY <1>4, <1>5, Joined
<1>7. d <= 0
  BY <1>0, <1>6
<1>8. ASSUME NEW j \in 1..(n + 2) PROVE j - d <= Len(queue') /\ queue'[j - d] = ev[j]
  <2>1. j - d = Len(queue) + j /\ j \in 1..Len(ev)
    BY <1>0, <1>4, <1>6
  <2> QED
    BY <1>4, <1>6, <2>1
<1>9. ASSUME NEW i \in 1..Len(queue'), IsPart(queue'[i]), queue'[i].rev = active.rev + 1
      PROVE  i + d \in 1..(n + 2)
  <2>1. i \notin 1..Len(queue)
    <3>1. SUFFICES ASSUME i \in 1..Len(queue) PROVE FALSE
      OBVIOUS
    <3>2. queue[i].rev \in 1..active.rev
      BY <1>6, <1>9, <3>1 DEF PartsKnown
    <3> QED
      BY <1>1, <1>6, <1>9, <3>1, <3>2
  <2> QED
    BY <1>0, <1>4, <1>6, <2>1
<1>10. InPlace(d)'
  BY <1>2, <1>3, <1>8, <1>9 DEF InPlace, IsPart
<1>11. Built(d)'
  <2>1. ASSUME NEW m \in backend.staged PROVE m.rev # active.rev + 1
    <3>1. m.rev <= active.rev /\ m.rev \in Nat
      BY <1>1 DEF PartsKnown, Backends, Staged
    <3> QED
      BY <1>1, <3>1
  <2>2. backend.active.rev < active.rev + 1
    BY <1>1 DEF WholeManifests
  <2>3. d \notin 1..(n + 1) /\ ~(d >= n + 2)
    BY <1>4, <1>7
  <2> QED
    BY <1>1, <1>2, <1>3, <1>7, <2>1, <2>2, <2>3 DEF Built
<1> QED
  BY <1>7, <1>10, <1>11

\* Every step keeps the newest manifest in its place.
LEMMA FollowedStep ==
  ServiceTyped /\ DeliveryTyped /\ WholeManifests /\ PartsKnown /\ Followed /\ [Next]_vars => Followed'
<1> SUFFICES ASSUME ServiceTyped, DeliveryTyped, WholeManifests, PartsKnown, Followed, [Next]_vars, moves' = 0
             PROVE  /\ active'.rev = 0 => backend'.active = active'
                    /\ active'.rev > 0 /\ active'.rev \notin refused' => \E d \in Int : InPlace(d)' /\ Built(d)'
  BY DEF Followed
<1>0. active.rev \in Nat /\ moves = 0
  BY ServiceCases DEF ServiceTyped, ScanTyped, Revisions, CountsTyped
<1>1. CASE Rests
  BY <1>0, <1>1 DEF Rests, Followed, InPlace, Built, Count, Newest
<1>2. CASE PublishManifest
  <2>1. active'.rev = active.rev + 1
    BY <1>2 DEF PublishManifest
  <2> QED
    BY <1>0, <1>2, <2>1, PublishedInPlace
<1>3. CASE Reports
  <2>1. UNCHANGED <<backend, active, refused>>
    BY <1>3 DEF Reports
  <2>2. ASSUME NEW d \in Int, InPlace(d), Built(d) PROVE InPlace(d)' /\ Built(d)'
    BY <1>3, <2>1, <2>2, StaysInPlace DEF Built, Count
  <2> QED
    BY <1>0, <2>1, <2>2 DEF Followed
<1>4. ASSUME Deliver \/ Refuse, active.rev = 0 PROVE backend'.active = active'
  <2>1. /\ Head(queue) = queue[1] /\ queue[1] \in Events /\ active' = active /\ 1 \in 1..Len(queue)
    BY <1>4, Shifted
  <2>2. ~IsPart(Head(queue))
    BY <1>4, <2>1 DEF PartsKnown
  <2>3. backend'.active = backend.active
    <3>1. CASE Refuse
      BY <3>1 DEF Refuse
    <3>2. CASE Deliver
      <4>1. backend' = Project(Head(queue)) /\ Accepts(Head(queue))
        BY <3>2 DEF Deliver
      <4> QED
        BY <2>1, <2>2, <4>1, Projected, EventKinds DEF IsPart
    <3> QED
      BY <1>4, <3>1, <3>2
  <2> QED
    BY <1>0, <1>4, <2>1, <2>3 DEF Followed
<1>5. CASE Deliver
  <2>1. UNCHANGED <<active, refused>>
    BY <1>5 DEF Deliver, historyVars
  <2>2. ASSUME NEW d \in Int, InPlace(d), Built(d), active.rev > 0 PROVE InPlace(d + 1)' /\ Built(d + 1)'
    BY <1>5, <2>2, MovesUp, BuildsUp
  <2>3. \A d \in Int : d + 1 \in Int
    OBVIOUS
  <2> QED
    BY <1>0, <1>4, <1>5, <2>1, <2>2, <2>3 DEF Followed
<1>6. CASE Refuse
  <2>1. UNCHANGED <<active, backend>> /\ refused \subseteq refused'
    BY <1>6 DEF Refuse
  <2>2. ASSUME NEW d \in Int, InPlace(d), Built(d), active.rev \notin refused' PROVE InPlace(d + 1)' /\ Built(d + 1)'
    <3>0. Count \in Nat /\ Count' = Count
      BY <2>1, NewestTyped DEF Count
    <3>1. d + 1 \notin 1..(Count + 2)
      <4> SUFFICES ASSUME d + 1 \in 1..(Count + 2) PROVE FALSE
        OBVIOUS
      <4>1. Head(queue) = Newest[d + 1]
        BY <1>6, <2>2, NextEvent
      <4>2. Accepts(Head(queue))
        BY <2>2, <4>1, NextAccepted
      <4>3. Head(queue).rev = active.rev /\ IsPart(Head(queue))
        BY <4>1, NewestTyped
      <4>4. refused' = refused \cup {Head(queue).rev}
        BY <1>6, <4>2, <4>3 DEF Refuse, IsPart
      <4> QED
        BY <2>2, <4>3, <4>4
    <3> HIDE DEF Count
    <3>2. d < 0 \/ d >= Count + 2
      BY <3>0, <3>1
    <3>3. Built(d + 1)'
      <4>1. /\ d + 1 <= 0 => d <= 0
            /\ d + 1 \notin 1..(Count + 1)
            /\ d + 1 <= Count + 1 => d <= Count + 1
            /\ d + 1 >= Count + 2 => d >= Count + 2
        BY <3>0, <3>2
      <4> QED
        BY <2>1, <2>2, <3>0, <4>1 DEF Built
    <3> QED
      BY <1>6, <2>2, <3>3, MovesUp
  <2>3. \A d \in Int : d + 1 \in Int
    OBVIOUS
  <2> QED
    BY <1>0, <1>4, <1>6, <2>1, <2>2, <2>3 DEF Followed
<1>7. CASE Move
  BY <1>0, <1>7 DEF Move
<1> QED
  BY <1>1, <1>2, <1>3, <1>5, <1>6, <1>7, QueueCases

\* BackendCatchesUp, for every number of files, every chunk size and every order
\* of edits, scans and refusals: the newest manifest PublishManifest queued is the
\* one applyProjection ends with, unless one of its own events was bad.
THEOREM CaughtUp == Spec => []BackendCatchesUp
<1>1. ASSUME Init PROVE PartsKnown /\ Followed
  <2>1. queue = <<>> /\ backend.staged = {} /\ refused = {} /\ active.rev = 0 /\ backend.active = active
    BY <1>1 DEF Init, EmptyBackend, NoManifest
  <2> QED
    BY <2>1 DEF PartsKnown, Followed
<1>2. ASSUME ServiceTyped, Followed PROVE BackendCatchesUp
  <2> SUFFICES ASSUME queue = <<>>, moves = 0, active.rev \notin refused PROVE backend.active = active
    BY DEF BackendCatchesUp
  <2>1. active.rev \in Nat /\ Count \in Nat
    BY <1>2, NewestTyped
  <2>2. CASE active.rev > 0
    <3>1. PICK d \in Int : InPlace(d) /\ Built(d)
      BY <1>2, <2>2 DEF Followed
    <3>2. ~(Count + 2 > d)
      <4> SUFFICES ASSUME Count + 2 > d PROVE FALSE
        OBVIOUS
      <4>1. PICK j \in Int : j = Count + 2
        BY <2>1
      <4>2. j \in 1..(Count + 2) /\ j > d /\ Len(queue) = 0
        BY <2>1, <4>1
      <4>3. j - d <= 0
        BY <3>1, <4>2 DEF InPlace
      <4> QED
        BY <4>2, <4>3
    <3> QED
      BY <2>1, <3>1, <3>2 DEF Built
  <2> QED
    BY <1>2, <2>1, <2>2 DEF Followed
<1> QED
  BY <1>1, <1>2, ServiceTypedInit, DeliveryInit, ServiceTypedStep, DeliveryTypedStep, WholeStep, PartsStep, FollowedStep,
     PTL DEF Spec

\* Every variable keeps its type, and what was refused was published before.
THEOREM ObservationTyped == Spec => []ObservationTypeOK
<1>1. ASSUME Init PROVE Budget /\ PartsKnown
  <2>1. queue = <<>> /\ backend.staged = {} /\ refused = {}
    BY <1>1 DEF Init, EmptyBackend
  <2> QED
    BY <1>1, <2>1, BudgetInit DEF PartsKnown
<1>2. ASSUME Budget, ServiceTyped, DeliveryTyped, PartsKnown PROVE ObservationTypeOK
  <2>1. WatchTypeOK /\ RepoTyped /\ blind \subseteq Files /\ refused \subseteq 1..active.rev
    BY <1>2 DEF Budget, ServiceTyped, ScanTyped, PartsKnown
  <2>2. /\ scan.pc \in Layers \cup {"idle", "publish", "extract", "record", "report"} /\ scan.man \in Manifest
        /\ active.rev \in Nat /\ active.man \in Manifest
    BY <1>2 DEF ServiceTyped, ScanTyped, Scans, Stages, Revisions
  <2>3. \A f \in Files : reads[f].fidelity \in 0..3 /\ backend.reads[f].fidelity \in 0..3
    <3>1. reads \in [Files -> Evidence] /\ backend.reads \in [Files -> Evidence]
      BY <1>2 DEF ServiceTyped, ReaderTyped, DeliveryTyped, Backends
    <3> QED
      BY <3>1 DEF Evidence
  <2>4. \A r \in Readers : reader[r].pc \in {"idle", "seed", "seedReport", "record", "report"}
    BY <1>2 DEF ServiceTyped, ReaderTyped, ReaderRecords
  <2> QED
    BY <2>1, <2>2, <2>3, <2>4 DEF ObservationTypeOK, RepoTyped
<1> QED
  BY <1>1, <1>2, ServiceTypedInit, DeliveryInit, BudgetStep, ServiceTypedStep, DeliveryTypedStep, PartsStep, PTL DEF Spec
=============================================================================
