---------------------------- MODULE Observation ----------------------------
(***************************************************************************)
(* What one service observes of one repository and reports of it: manifests *)
(* of changed paths (app.go scanAll, git.go Observe, store.go               *)
(* PublishManifest), contract fingerprints and read sets                    *)
(* (contract_watch.go), and what a backend's projection keeps of them       *)
(* (service.ts applyProjection).                                            *)
(*                                                                          *)
(* The delivery in between is the subject of Publisher and is here its      *)
(* outcome: an event is applied once and in order, or set aside.            *)
(***************************************************************************)
EXTENDS TreeWatch, Sequences

CONSTANTS
  Files,       \* fingerprintable files of the repository, in path order
  DirOf,       \* the directory a file lies in
  Contents,    \* what a file may contain; 0 is its content at the baseline
  Surface,     \* the exported surface (contract hash) of a content
  Readers,     \* calls of one session that report reads, each known by the rank
               \* of its evidence (ReadFidelityRank): 1 begin_work, 2 the end of
               \* a Codex turn, 3 a hook
  ChunkSize,   \* paths per manifest chunk (100 in PublishManifest)
  MaxOps,      \* bound: operations of the member on files and directories
  MaxReads,    \* bound: reports of reads
  MaxFaults,   \* bound: stops and refused events
  MaxMoves,    \* bound: moves of the Project to a new backend
  MaxEvents    \* bound: all of these together

ASSUME ObservationAssumption ==
  /\ Files \subseteq Nat /\ IsFiniteSet(Files)
  /\ DirOf \in [Files -> Dirs]
  /\ 0 \in Contents /\ Surface \in [Contents -> Nat]
  /\ ChunkSize \in Nat \ {0}
  /\ Readers \subseteq 1..3
  /\ MaxOps \in Nat /\ MaxReads \in Nat /\ MaxFaults \in Nat /\ MaxMoves \in Nat /\ MaxEvents \in Nat

VARIABLES
  head, index, work,   \* content of every file at HEAD, in the index, on disk
  up,                  \* the service runs
  scan,                \* the scan in progress (it holds s.mu)
  reader,              \* the reports of reads in progress
  active,              \* the active row of manifests
  fp,                  \* contract_fingerprints
  reads,               \* session_read_sets
  queue,               \* events of the workspace still to be delivered
  backend,             \* the projection at the Project's backend
  ops, readCount, faults, moves,  \* how many of each bounded thing there were
  published,  \* history: the manifest of every revision
  refused,    \* history: revisions with an event refused for what it contains
  blind       \* history: files that changed below .git since the last scan began,
              \* or whose directory a connection began to watch since, or whose
              \* manifest the store did not take: nothing schedules a scan of them

repoVars == <<head, index, work>>
storeVars == <<active, fp, reads, queue>>
countVars == <<ops, readCount, faults, moves>>
historyVars == <<published, refused, blind>>
vars == <<watchVars, repoVars, up, scan, reader, storeVars, backend, countVars, historyVars>>

Layers == {"baseline", "worktree", "index"}
Manifest == [Files -> SUBSET Layers]
NoSurface == -1
NoManifest == [rev |-> 0, man |-> [f \in Files |-> {}]]
NoRead == [hash |-> NoSurface, fidelity |-> 0]
EmptyBackend == [staged |-> {}, active |-> NoManifest,
                 fp |-> [f \in Files |-> NoSurface], reads |-> [f \in Files |-> NoRead]]

\* ReadFidelityRank: self_declared, vendor_inferred, observed.
Stronger(a, b) == IF a > b THEN a ELSE b

NoFiles == [f \in Files |-> NoSurface]
IdleScan == [pc |-> "idle", man |-> NoManifest.man, files |-> NoFiles]
IdleReader == [pc |-> "idle", file |-> 0, hash |-> NoSurface, fidelity |-> 0]

\* The paths git diff lists for one layer at this moment; an untracked file
\* counts as a change of the worktree.
Diff(layer) ==
  {f \in Files : CASE layer = "baseline" -> head[f] # 0
                   [] layer = "index" -> index[f] # head[f]
                   [] layer = "worktree" -> work[f] # index[f]}

\* merge: the paths of one layer are added to what the earlier layers gave.
Merge(man, layer) ==
  [f \in Files |-> IF f \in Diff(layer) THEN man[f] \cup {layer} ELSE man[f]]

\* Hash covers paths and the state of their layers, never a file's content.
Hash(man) == man

Changed(man) == {f \in Files : man[f] # {}}
ChunkCount(man) == (Cardinality(Changed(man)) + ChunkSize - 1) \div ChunkSize
Chunk(man, i) ==
  {<<f, man[f]>> : f \in {g \in Changed(man) :
      Cardinality({h \in Changed(man) : h < g}) \div ChunkSize = i}}

Init ==
  /\ WatchInit
  /\ head = [f \in Files |-> 0] /\ index = head /\ work = head
  /\ up = FALSE
  /\ scan = IdleScan
  /\ reader = [r \in Readers |-> IdleReader]
  /\ active = NoManifest
  /\ fp = NoFiles
  /\ reads = [f \in Files |-> NoRead]
  /\ queue = <<>>
  /\ backend = EmptyBackend
  /\ ops = 0 /\ readCount = 0 /\ faults = 0 /\ moves = 0
  /\ published = <<>> /\ refused = {} /\ blind = {}

-----------------------------------------------------------------------------
\* The member and the agents working in the repository.

Bounded == ops + readCount + faults + moves < MaxEvents
Operate == Bounded /\ ops < MaxOps /\ ops' = ops + 1
Fault == Bounded /\ faults < MaxFaults /\ faults' = faults + 1

OthersUnchanged ==
  UNCHANGED <<up, scan, reader, storeVars, backend, readCount, faults, moves,
              published, refused>>

\* A file is written; a watch on its directory reports it.
Edit(f, c) ==
  /\ Operate
  /\ DirOf[f] \in onDisk /\ work[f] # c
  /\ work' = [work EXCEPT ![f] = c]
  /\ IF DirOf[f] \in list THEN Schedule ELSE UNCHANGED timer
  /\ UNCHANGED <<onDisk, roots, list, watched, created, head, index, blind>>
  /\ OthersUnchanged

\* git add and git commit write below .git, which nothing watches.
Stage(f) ==
  /\ Operate
  /\ index[f] # work[f]
  /\ index' = [index EXCEPT ![f] = work[f]]
  /\ blind' = blind \cup {f}
  /\ UNCHANGED <<watchVars, head, work>>
  /\ OthersUnchanged

Commit ==
  /\ Operate
  /\ head # index
  /\ head' = index
  /\ blind' = blind \cup {f \in Files : head[f] # index[f]}
  /\ UNCHANGED <<watchVars, index, work>>
  /\ OthersUnchanged

ChangeDirs ==
  /\ Operate
  /\ \/ \E d \in Dirs : MakeDir(d)
     \/ \E d \in Dirs \ {DirOf[f] : f \in Files} : RemoveDir(d)
  /\ UNCHANGED <<repoVars, blind>>
  /\ OthersUnchanged

\* Another repository is connected or disconnected while the service runs; what a
\* connection watches is not scanned for it.
Connect ==
  /\ up /\ scan.pc = "idle"
  /\ Operate
  /\ \E r \in Repos \ {DirOf[f] : f \in Files} : Add(r) \/ Remove(r)
  /\ blind' = blind \cup {f \in Files : DirOf[f] \in list' \ list}
  /\ UNCHANGED repoVars
  /\ OthersUnchanged

-----------------------------------------------------------------------------
\* The service: boot, watcher, scan.

\* Run watches every repository that exists and then scans.
Boot ==
  /\ ~up
  /\ up' = TRUE
  /\ roots' = Repos
  /\ AddTree(UNION {Walk(r, TRUE) : r \in Repos})
  /\ scan' = [IdleScan EXCEPT !.pc = "baseline"]
  /\ blind' = {}
  /\ UNCHANGED <<onDisk, created, timer, repoVars, reader, storeVars, backend, countVars,
                 published, refused>>

Stop ==
  /\ up
  /\ Fault
  /\ up' = FALSE
  /\ WatchStop
  /\ scan' = IdleScan
  /\ reader' = [r \in Readers |-> IdleReader]
  /\ UNCHANGED <<repoVars, storeVars, backend, ops, readCount, moves, historyVars>>

Created ==
  /\ up
  /\ \E d \in Dirs : HandleCreated(d)
  /\ UNCHANGED <<repoVars, up, scan, reader, storeVars, backend, countVars, historyVars>>

\* The timer fires, or the scan call asks for it; a scan waits for s.mu.
StartScan ==
  /\ up /\ scan.pc = "idle"
  /\ timer' = FALSE
  /\ scan' = [IdleScan EXCEPT !.pc = "baseline"]
  /\ blind' = {}
  /\ UNCHANGED <<onDisk, roots, list, watched, created, repoVars, up, reader, storeVars,
                 backend, countVars, published, refused>>

ScanStep == UNCHANGED <<watchVars, repoVars, up, reader, backend, countVars, refused>>

\* Observe: one git command after the other, in this order.
NextLayer == [baseline |-> "worktree", worktree |-> "index", index |-> "publish"]

ReadLayer ==
  /\ scan.pc \in Layers
  /\ scan' = [scan EXCEPT !.man = Merge(scan.man, scan.pc), !.pc = NextLayer[scan.pc]]
  /\ UNCHANGED <<storeVars, published, blind>>
  /\ ScanStep

\* Mutant: what was scheduled while the scan ran counts as seen by it.
ScanUnchangedClears ==
  /\ scan.pc = "publish"
  /\ active.rev > 0 /\ Hash(scan.man) = Hash(active.man)
  /\ scan' = IdleScan
  /\ timer' = FALSE
  /\ UNCHANGED <<storeVars, published, blind, onDisk, roots, list, watched, created, repoVars, up,
                 reader, backend, countVars, refused>>

\* The active manifest has the same hash: nothing to do.
ScanUnchanged ==
  /\ scan.pc = "publish"
  /\ active.rev > 0 /\ Hash(scan.man) = Hash(active.man)
  /\ scan' = IdleScan
  /\ UNCHANGED <<storeVars, published, blind>>
  /\ ScanStep

\* PublishManifest: the new active row and all its events, one transaction.
ManifestEvents(rev, man) ==
  <<[type |-> "started", rev |-> rev, count |-> ChunkCount(man)]>>
  \o [i \in 1..ChunkCount(man) |-> [type |-> "chunk", rev |-> rev, at |-> i - 1, entries |-> Chunk(man, i - 1)]]
  \o <<[type |-> "completed", rev |-> rev, hash |-> Hash(man)]>>

PublishManifest ==
  /\ scan.pc = "publish"
  /\ active.rev = 0 \/ Hash(scan.man) # Hash(active.man)
  /\ active' = [rev |-> active.rev + 1, man |-> scan.man]
  /\ queue' = queue \o ManifestEvents(active.rev + 1, scan.man)
  /\ published' = Append(published, scan.man)
  /\ scan' = [scan EXCEPT !.pc = "extract"]
  /\ UNCHANGED <<fp, reads, blind>>
  /\ ScanStep

\* publishContractFingerprints: the surface of every changed file, as on disk.
Extract ==
  /\ scan.pc = "extract"
  /\ scan' = [scan EXCEPT !.pc = "record",
        !.files = [f \in Files |-> IF f \in Changed(scan.man) THEN Surface[work[f]] ELSE NoSurface]]
  /\ UNCHANGED <<storeVars, published, blind>>
  /\ ScanStep

\* ChangedFingerprints: record what was observed, return what is news.
News(files) == {f \in Files : files[f] # NoSurface /\ files[f] # fp[f]}
Recorded(files) == [f \in Files |-> IF f \in News(files) THEN files[f] ELSE fp[f]]

ScanRecord ==
  /\ scan.pc = "record"
  /\ fp' = Recorded(scan.files)
  /\ scan' = IF News(scan.files) = {} THEN IdleScan
             ELSE [scan EXCEPT !.pc = "report",
                     !.files = [f \in Files |-> IF f \in News(scan.files) THEN scan.files[f] ELSE NoSurface]]
  /\ UNCHANGED <<active, reads, queue, published, blind>>
  /\ ScanStep

ScanReport ==
  /\ scan.pc = "report"
  /\ queue' = Append(queue, [type |-> "fingerprints", files |-> scan.files])
  /\ scan' = IdleScan
  /\ UNCHANGED <<active, fp, reads, published, blind>>
  /\ ScanStep

-----------------------------------------------------------------------------
\* publishReadSet, called by hooks, by begin_work and at the end of a Codex turn.

ReaderStep == UNCHANGED <<watchVars, repoVars, up, scan, active, backend, ops, faults, moves, historyVars>>

\* The hash is taken from disk, or from the record when the file cannot be read.
StartReads(r, f) ==
  /\ up /\ reader[r].pc = "idle"
  /\ Bounded /\ readCount < MaxReads /\ readCount' = readCount + 1
  /\ \/ reader' = [reader EXCEPT ![r] = [pc |-> "seed", file |-> f, hash |-> Surface[work[f]], fidelity |-> r]]
     \/ /\ fp[f] # NoSurface
        /\ reader' = [reader EXCEPT ![r] = [pc |-> "record", file |-> f, hash |-> fp[f], fidelity |-> r]]
  /\ UNCHANGED <<fp, reads, queue>>
  /\ ReaderStep

Seen(r) == [f \in Files |-> IF f = reader[r].file THEN reader[r].hash ELSE NoSurface]

SeedRecord(r) ==
  /\ reader[r].pc = "seed"
  /\ fp' = Recorded(Seen(r))
  /\ reader' = [reader EXCEPT ![r].pc = IF News(Seen(r)) = {} THEN "record" ELSE "seedReport"]
  /\ UNCHANGED <<reads, queue, readCount>>
  /\ ReaderStep

SeedReport(r) ==
  /\ reader[r].pc = "seedReport"
  /\ queue' = Append(queue, [type |-> "fingerprints", files |-> Seen(r)])
  /\ reader' = [reader EXCEPT ![r].pc = "record"]
  /\ UNCHANGED <<fp, reads, readCount>>
  /\ ReaderStep

\* ChangedReadSet keeps the strongest fidelity; an upgrade is news.
ReadRecord(r) ==
  /\ reader[r].pc = "record"
  /\ LET f == reader[r].file
         kept == [hash |-> reader[r].hash, fidelity |-> Stronger(reads[f].fidelity, reader[r].fidelity)]
     IN /\ reads' = [reads EXCEPT ![f] = kept]
        /\ reader' = [reader EXCEPT ![r] = IF kept = reads[f] THEN IdleReader
                       ELSE [reader[r] EXCEPT !.pc = "report", !.fidelity = kept.fidelity]]
  /\ UNCHANGED <<fp, queue, readCount>>
  /\ ReaderStep

ReadReport(r) ==
  /\ reader[r].pc = "report"
  /\ queue' = Append(queue, [type |-> "read", file |-> reader[r].file, hash |-> reader[r].hash,
                             fidelity |-> reader[r].fidelity])
  /\ reader' = [reader EXCEPT ![r] = IdleReader]
  /\ UNCHANGED <<fp, reads, readCount>>
  /\ ReaderStep

\* A transaction of a scan or of a report fails: the rest of it is dropped.
StoreFails ==
  /\ Fault
  /\ \/ /\ scan.pc \in {"publish", "record", "report"}
        /\ scan' = IdleScan
        /\ blind' = IF scan.pc = "publish" THEN Files ELSE blind
        /\ UNCHANGED reader
     \/ /\ \E r \in Readers : reader[r].pc # "idle" /\ reader' = [reader EXCEPT ![r] = IdleReader]
        /\ UNCHANGED <<scan, blind>>
  /\ UNCHANGED <<watchVars, repoVars, up, storeVars, backend, ops, readCount, moves, published, refused>>

-----------------------------------------------------------------------------
\* The backend's projection of the events, in order.

\* Mutant: completion does not look at the chunks.
WholeUnchecked(e, m) == m.rev = e.rev

\* All chunks are there and hash to what the device said.
Whole(e, m) ==
  /\ m.rev = e.rev
  /\ m.got = 0..(m.count - 1)
  /\ m.entries = {<<f, e.hash[f]>> : f \in Changed(e.hash)}

\* Mutant: the weaker report replaces the stronger one.
KeptAtBackendLatest(old, e) == [hash |-> e.hash, fidelity |-> e.fidelity]

KeptAtBackend(old, e) == [hash |-> e.hash, fidelity |-> Stronger(old.fidelity, e.fidelity)]

Accepts(e) ==
  CASE e.type = "started" -> \A m \in backend.staged : m.rev # e.rev
    [] e.type = "chunk" -> \E m \in backend.staged : m.rev = e.rev /\ e.at < m.count /\ e.at \notin m.got
    [] e.type = "completed" -> \E m \in backend.staged : Whole(e, m)
    [] OTHER -> TRUE

\* Mutant: a manifest follows only its predecessor.
NewerByOne(m) == m.rev = backend.active.rev + 1

Newer(m) == m.rev > backend.active.rev

\* The manifest a staged one assembles to.
Assembled(m) == [f \in Files |-> UNION {x[2] : x \in {y \in m.entries : y[1] = f}}]

Project(e) ==
  LET m == CHOOSE m \in backend.staged : m.rev = e.rev
  IN CASE e.type = "started" ->
            [backend EXCEPT !.staged = @ \cup {[rev |-> e.rev, count |-> e.count, got |-> {}, entries |-> {}]}]
       [] e.type = "chunk" ->
            [backend EXCEPT !.staged = (@ \ {m}) \cup
               {[m EXCEPT !.got = @ \cup {e.at}, !.entries = @ \cup e.entries]}]
       [] e.type = "completed" ->
            [backend EXCEPT !.staged = @ \ {m},
                            !.active = IF Newer(m) THEN [rev |-> m.rev, man |-> Assembled(m)] ELSE @]
       [] e.type = "fingerprints" ->
            [backend EXCEPT !.fp = [f \in Files |-> IF e.files[f] # NoSurface THEN e.files[f] ELSE @[f]]]
       [] e.type = "read" ->
            [backend EXCEPT !.reads[e.file] = KeptAtBackend(@, e)]

Deliver ==
  /\ queue # <<>> /\ Accepts(Head(queue))
  /\ backend' = Project(Head(queue))
  /\ queue' = Tail(queue)
  /\ UNCHANGED <<watchVars, repoVars, up, scan, reader, active, fp, reads, countVars, historyVars>>

\* The event is refused and quarantined: for what the projection holds, or (a
\* fault) for what it contains.
Refuse ==
  /\ queue # <<>>
  /\ IF Accepts(Head(queue)) THEN Fault ELSE UNCHANGED faults
  /\ queue' = Tail(queue)
  /\ refused' = IF Accepts(Head(queue)) /\ Head(queue).type \in {"started", "chunk", "completed"}
                  THEN refused \cup {Head(queue).rev} ELSE refused
  /\ UNCHANGED <<watchVars, repoVars, up, scan, reader, active, fp, reads, backend, ops, readCount, moves,
                 published, blind>>

\* The Project moves to a backend that knows nothing of it (under s.mu): the
\* queue is dropped, manifests, fingerprints and read sets stay as they are.
Move ==
  /\ up /\ scan.pc = "idle"
  /\ Bounded /\ moves < MaxMoves /\ moves' = moves + 1
  /\ queue' = <<>>
  /\ backend' = EmptyBackend
  /\ UNCHANGED <<watchVars, repoVars, up, scan, reader, active, fp, reads, ops, readCount, faults,
                 published, refused, blind>>

-----------------------------------------------------------------------------
MemberStep ==
  \/ \E f \in Files, c \in Contents : Edit(f, c)
  \/ \E f \in Files : Stage(f)
  \/ Commit \/ ChangeDirs \/ Connect

ServiceStep ==
  \/ Boot \/ Created \/ StartScan \/ ReadLayer \/ ScanUnchanged \/ PublishManifest
  \/ Extract \/ ScanRecord \/ ScanReport

ReadSetStep ==
  \E r \in Readers :
    \/ \E f \in Files : StartReads(r, f)
    \/ SeedRecord(r) \/ SeedReport(r) \/ ReadRecord(r) \/ ReadReport(r)

Next == MemberStep \/ ServiceStep \/ ReadSetStep \/ Stop \/ StoreFails \/ Deliver \/ Refuse \/ Move

Spec == Init /\ [][Next]_vars

-----------------------------------------------------------------------------
\* Every variable has its type; the watches are on directories that exist.
ObservationTypeOK ==
  /\ WatchTypeOK
  /\ head \in [Files -> Contents] /\ index \in [Files -> Contents] /\ work \in [Files -> Contents]
  /\ scan.pc \in Layers \cup {"idle", "publish", "extract", "record", "report"}
  /\ scan.man \in Manifest
  /\ active.rev \in Nat /\ active.man \in Manifest
  /\ \A f \in Files : reads[f].fidelity \in 0..3 /\ backend.reads[f].fidelity \in 0..3
  /\ \A r \in Readers : reader[r].pc \in {"idle", "seed", "seedReport", "record", "report"}
  /\ blind \subseteq Files /\ refused \subseteq 1..active.rev

Quiet == up /\ scan.pc = "idle" /\ ~timer /\ created = {}

\* With nothing left to scan, the active manifest is what git would report now
\* of every file in a watched directory, unless what changed of it since is a
\* write below .git: no edit, no new directory and no restart falls between the
\* debounce timer and the scan that is running.
QuietMeansObserved ==
  Quiet =>
    \A f \in Files \ blind : DirOf[f] \in list =>
      active.man[f] = {l \in Layers : f \in Diff(l)}

\* "a 1,000-path fixture converges atomically after chunked delivery" (P1.1 of
\* the specification): whatever is refused on the way, a manifest the backend
\* shows is one this device published, whole.
ActiveIsWhole ==
  backend.active.rev > 0 => backend.active.man = published[backend.active.rev]

\* Once everything is delivered, the backend shows the manifest the device holds
\* active unless one of its own events was refused for what it contains: nothing
\* an older revision left behind, refused in part or not, makes the projection
\* refuse or overtake the newest one.
BackendCatchesUp ==
  queue = <<>> /\ moves = 0 /\ active.rev \notin refused => backend.active = active

\* "the strongest evidence for a path wins and a later weaker report never
\* downgrades it" (ADR-052), on both sides, though reports overtake each other
\* between the transaction that records and the one that queues.
ReadEvidenceAgrees ==
  (queue = <<>> /\ faults = 0 /\ moves = 0 /\ \A r \in Readers : reader[r].pc = "idle") =>
    \A f \in Files : backend.reads[f].fidelity = reads[f].fidelity

\* "the new backend learns the current state from the next scan" (Promote): when
\* a scan ends, the backend shows the active manifest or its events are queued.
MovedProjectIsLearned ==
  [][(scan.pc # "idle" /\ scan'.pc = "idle" /\ faults' = 0) =>
       \/ backend'.active.rev = active'.rev
       \/ \E i \in DOMAIN queue' : queue'[i].type = "completed" /\ queue'[i].rev = active'.rev]_vars

=============================================================================
