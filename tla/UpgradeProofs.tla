--------------------------- MODULE UpgradeProofs ---------------------------
(***************************************************************************)
(* What holds of replacing the executable for every number of releases, of  *)
(* attempts and of failures: the image a command replaces stays on disk, a   *)
(* command that reports success left the service on the new image, and one   *)
(* that met a single failure put everything back.                            *)
(***************************************************************************)
EXTENDS Upgrade, TLAPS

-----------------------------------------------------------------------------
\* Types.

Replacing == {"fetch", "stage", "download", "preserve", "aside", "activate", "sync", "park", "revert", "reprev"}
Returning == {"unseat", "reseat", "syncback"}
Installing == {"write", "clear", "load", "start"}
Checking == {"validate", "status", "health"} \cup Installing

Flows ==
  [pc : {"idle"} \cup Replacing \cup Returning \cup Checking,
   phase : {"none", "install", "update", "undo", "rollback"},
   image : Nat, keep : Nat, backup : Nat, failed : Nat, created : BOOLEAN, tries : Nat, wrong : Nat, ran : BOOLEAN,
   result : {"none", "ok", "failed", "current", "cut"}]

UpgradeTyped ==
  /\ flow \in [Procs -> Flows]
  /\ exe \in Nat /\ prev \in Nat /\ latest \in Nat /\ unit \in BOOLEAN

\* What a step makes of a process: where it is, in which phase, and how often
\* something has gone wrong for it.
After(p, pc, phase, wrong) ==
  /\ flow' \in [Procs -> Flows] /\ \A q \in Procs : q # p => flow'[q] = flow[q]
  /\ flow'[p].pc = pc /\ flow'[p].phase = phase /\ flow'[p].wrong = wrong
  /\ flow'[p].keep = flow[p].keep /\ flow'[p].ran = flow[p].ran

Going(p, pc, wrong) == After(p, pc, flow[p].phase, wrong) /\ flow'[p].created = flow[p].created
Ended(p, result, wrong) == After(p, "idle", flow[p].phase, wrong) /\ flow'[p].result = result
\* How a command that the service answered ends.
Result(p) == IF flow[p].phase = "undo" THEN "failed" ELSE "ok"

GivenUp(p) ==
  \/ /\ flow[p].phase = "update" /\ After(p, "unseat", "undo", flow[p].wrong + 1)
     /\ flow'[p].created = flow[p].created
  \/ flow[p].phase # "update" /\ Ended(p, "failed", flow[p].wrong + 1)

\* A process that has nothing to do.
LEMMA IdleTyped ==
  Idle \in Flows /\ Idle.pc = "idle" /\ Idle.phase = "none" /\ Idle.wrong = 0 /\ Idle.created = FALSE
BY DEF Idle, Flows

\* A process is exchanged for another one.
LEMMA FlowSet ==
  ASSUME UpgradeTyped, NEW p \in Procs, NEW g \in Flows, flow' = [flow EXCEPT ![p] = g]
  PROVE  flow' \in [Procs -> Flows] /\ flow'[p] = g /\ \A q \in Procs : q # p => flow'[q] = flow[q]
BY DEF UpgradeTyped

\* A process ends.
LEMMA Finishes ==
  ASSUME UpgradeTyped, NEW p \in Procs, NEW result \in {"ok", "failed", "current", "cut"}, NEW wrong \in Nat, NEW left,
         Finish(p, result, wrong, left)
  PROVE  Ended(p, result, wrong)
<1> DEFINE g == [Idle EXCEPT !.phase = flow[p].phase, !.keep = flow[p].keep, !.ran = flow[p].ran,
                             !.wrong = wrong, !.result = result]
<1>1. flow[p] \in Flows
  BY DEF UpgradeTyped
<1>2. flow[p].phase \in {"none", "install", "update", "undo", "rollback"} /\ flow[p].keep \in Nat /\ flow[p].ran \in BOOLEAN
  BY <1>1 DEF Flows
<1>3. /\ g \in Flows /\ g.pc = "idle" /\ g.phase = flow[p].phase /\ g.keep = flow[p].keep /\ g.ran = flow[p].ran
      /\ g.wrong = wrong /\ g.result = result
  BY <1>2, IdleTyped DEF Idle, Flows
<1>4. flow' = [flow EXCEPT ![p] = g]
  BY DEF Finish
<1> HIDE DEF g
<1> QED
  BY <1>3, <1>4, FlowSet DEF Ended, After

\* A process goes on.
LEMMA GoesOn ==
  ASSUME UpgradeTyped, NEW p \in Procs, NEW g \in Flows, flow' = [flow EXCEPT ![p] = g],
         g.keep = flow[p].keep, g.ran = flow[p].ran
  PROVE  /\ After(p, g.pc, g.phase, g.wrong)
         /\ flow'[p] = g
BY FlowSet DEF After

\* A process fails, gives up or succeeds.
LEMMA Outcomes ==
  ASSUME UpgradeTyped, NEW p \in Procs
  PROVE  /\ Fails(p) => Ended(p, "failed", flow[p].wrong + 1)
         /\ GiveUp(p) => GivenUp(p)
         /\ Succeed(p) => Ended(p, Result(p), flow[p].wrong)
         /\ \A pc \in {"idle"} \cup Replacing \cup Returning \cup Checking : Go(p, pc) => Going(p, pc, flow[p].wrong)
<1>0. flow[p] \in Flows /\ flow[p].wrong \in Nat
  BY DEF UpgradeTyped, Flows
<1>1. ASSUME Fails(p) PROVE Ended(p, "failed", flow[p].wrong + 1)
  BY <1>0, <1>1, Finishes DEF Fails
<1>2. ASSUME GiveUp(p) PROVE GivenUp(p)
  <2>1. CASE flow[p].phase = "update"
    <3>0. PICK w \in Nat : w = flow[p].wrong + 1
      BY <1>0
    <3> DEFINE g == [flow[p] EXCEPT !.phase = "undo", !.pc = "unseat", !.wrong = w]
    <3>1. flow' = [flow EXCEPT ![p] = g]
      BY <1>2, <2>1, <3>0 DEF GiveUp, UpgradeTyped
    <3>2. /\ g \in Flows /\ g.pc = "unseat" /\ g.phase = "undo" /\ g.wrong = w
          /\ g.keep = flow[p].keep /\ g.ran = flow[p].ran /\ g.created = flow[p].created
      BY <1>0 DEF Flows, Returning
    <3> HIDE DEF g
    <3> QED
      BY <2>1, <3>0, <3>1, <3>2, GoesOn DEF GivenUp, After
  <2>2. CASE flow[p].phase # "update"
    BY <1>1, <1>2, <2>2 DEF GiveUp, GivenUp
  <2> QED
    BY <2>1, <2>2
<1>3. ASSUME Succeed(p) PROVE Ended(p, Result(p), flow[p].wrong)
  BY <1>0, <1>3, Finishes DEF Succeed, Ends, Result
<1>4. ASSUME NEW pc \in {"idle"} \cup Replacing \cup Returning \cup Checking, Go(p, pc) PROVE Going(p, pc, flow[p].wrong)
  <2> DEFINE g == [flow[p] EXCEPT !.pc = pc]
  <2>1. flow' = [flow EXCEPT ![p] = g]
    BY <1>4 DEF Go, UpgradeTyped
  <2>2. /\ g \in Flows /\ g.pc = pc /\ g.phase = flow[p].phase /\ g.wrong = flow[p].wrong
        /\ g.keep = flow[p].keep /\ g.ran = flow[p].ran /\ g.created = flow[p].created
    BY <1>0 DEF Flows
  <2> HIDE DEF g
  <2> QED
    BY <2>1, <2>2, GoesOn DEF Going
<1> QED
  BY <1>1, <1>2, <1>3, <1>4

\* A process goes on, with one of the values it carries set.
LEMMA Puts ==
  ASSUME UpgradeTyped, NEW p \in Procs, NEW g \in Flows, NEW w \in Nat, NEW c, flow' = [flow EXCEPT ![p] = g],
         g.pc = c, g.phase = flow[p].phase, g.wrong = w,
         g.keep = flow[p].keep, g.ran = flow[p].ran, g.created = flow[p].created
  PROVE  Going(p, c, w)
BY GoesOn DEF Going, After

Pcs == {"idle"} \cup Replacing \cup Returning \cup Checking

LEMMA Carries ==
  ASSUME UpgradeTyped, NEW p \in Procs, NEW c \in Pcs, NEW n \in Nat
  PROVE  /\ flow' = [flow EXCEPT ![p].pc = c, ![p].image = n] => Going(p, c, flow[p].wrong)
         /\ flow' = [flow EXCEPT ![p].pc = c, ![p].backup = n] => Going(p, c, flow[p].wrong)
         /\ flow' = [flow EXCEPT ![p].pc = c, ![p].failed = n] => Going(p, c, flow[p].wrong)
         /\ flow' = [flow EXCEPT ![p].failed = n, ![p].pc = c] => Going(p, c, flow[p].wrong)
<1>0. flow[p] \in Flows /\ flow[p].wrong \in Nat /\ flow \in [Procs -> Flows]
  BY DEF UpgradeTyped, Flows
<1>1. ASSUME flow' = [flow EXCEPT ![p].pc = c, ![p].image = n] PROVE Going(p, c, flow[p].wrong)
  <2> DEFINE g == [flow[p] EXCEPT !.pc = c, !.image = n]
  <2>1. flow' = [flow EXCEPT ![p] = g]
    BY <1>0, <1>1
  <2>2. /\ g \in Flows /\ g.pc = c /\ g.phase = flow[p].phase /\ g.wrong = flow[p].wrong
        /\ g.keep = flow[p].keep /\ g.ran = flow[p].ran /\ g.created = flow[p].created
    BY <1>0 DEF Flows, Pcs
  <2> HIDE DEF g
  <2> QED
    BY <1>0, <2>1, <2>2, Puts
<1>2. ASSUME flow' = [flow EXCEPT ![p].pc = c, ![p].backup = n] PROVE Going(p, c, flow[p].wrong)
  <2> DEFINE g == [flow[p] EXCEPT !.pc = c, !.backup = n]
  <2>1. flow' = [flow EXCEPT ![p] = g]
    BY <1>0, <1>2
  <2>2. /\ g \in Flows /\ g.pc = c /\ g.phase = flow[p].phase /\ g.wrong = flow[p].wrong
        /\ g.keep = flow[p].keep /\ g.ran = flow[p].ran /\ g.created = flow[p].created
    BY <1>0 DEF Flows, Pcs
  <2> HIDE DEF g
  <2> QED
    BY <1>0, <2>1, <2>2, Puts
<1>3. ASSUME \/ flow' = [flow EXCEPT ![p].pc = c, ![p].failed = n]
             \/ flow' = [flow EXCEPT ![p].failed = n, ![p].pc = c]
      PROVE  Going(p, c, flow[p].wrong)
  <2> DEFINE g == [flow[p] EXCEPT !.pc = c, !.failed = n]
             h == [flow[p] EXCEPT !.failed = n, !.pc = c]
  <2>1. flow' = [flow EXCEPT ![p] = g] \/ flow' = [flow EXCEPT ![p] = h]
    BY <1>0, <1>3
  <2>2. /\ g \in Flows /\ g.pc = c /\ g.phase = flow[p].phase /\ g.wrong = flow[p].wrong
        /\ g.keep = flow[p].keep /\ g.ran = flow[p].ran /\ g.created = flow[p].created
    BY <1>0 DEF Flows, Pcs
  <2>3. /\ h \in Flows /\ h.pc = c /\ h.phase = flow[p].phase /\ h.wrong = flow[p].wrong
        /\ h.keep = flow[p].keep /\ h.ran = flow[p].ran /\ h.created = flow[p].created
    BY <1>0 DEF Flows, Pcs
  <2> HIDE DEF g, h
  <2> QED
    BY <1>0, <2>1, <2>2, <2>3, Puts
<1> QED
  BY <1>1, <1>2, <1>3

LEMMA Errs ==
  ASSUME UpgradeTyped, NEW p \in Procs, NEW c \in Pcs, flow' = [flow EXCEPT ![p].pc = c, ![p].wrong = @ + 1]
  PROVE  Going(p, c, flow[p].wrong + 1)
<1>0. flow[p] \in Flows /\ flow[p].wrong \in Nat /\ flow \in [Procs -> Flows]
  BY DEF UpgradeTyped, Flows
<1>1. PICK w \in Nat : w = flow[p].wrong + 1
  BY <1>0
<1> DEFINE g == [flow[p] EXCEPT !.pc = c, !.wrong = w]
<1>2. flow' = [flow EXCEPT ![p] = g]
  BY <1>0, <1>1
<1>3. /\ g \in Flows /\ g.pc = c /\ g.phase = flow[p].phase /\ g.wrong = w
      /\ g.keep = flow[p].keep /\ g.ran = flow[p].ran /\ g.created = flow[p].created
  BY <1>0 DEF Flows, Pcs
<1> HIDE DEF g
<1>4. Going(p, c, w)
  BY <1>2, <1>3, Puts
<1> QED
  BY <1>1, <1>4

LEMMA Tries ==
  ASSUME UpgradeTyped, NEW p \in Procs, flow' = [flow EXCEPT ![p].tries = @ + 1]
  PROVE  Going(p, flow[p].pc, flow[p].wrong)
<1>0. flow[p] \in Flows /\ flow[p].wrong \in Nat /\ flow \in [Procs -> Flows] /\ flow[p].tries \in Nat
  BY DEF UpgradeTyped, Flows
<1>1. PICK n \in Nat : n = flow[p].tries + 1
  BY <1>0
<1> DEFINE g == [flow[p] EXCEPT !.tries = n]
<1>2. flow' = [flow EXCEPT ![p] = g]
  BY <1>0, <1>1
<1>3. /\ g \in Flows /\ g.pc = flow[p].pc /\ g.phase = flow[p].phase /\ g.wrong = flow[p].wrong
      /\ g.keep = flow[p].keep /\ g.ran = flow[p].ran /\ g.created = flow[p].created
  BY <1>0 DEF Flows
<1> HIDE DEF g
<1> QED
  BY <1>0, <1>2, <1>3, Puts

\* The definition is written by a process that remembers whether it is the first.
LEMMA Creates ==
  ASSUME UpgradeTyped, NEW p \in Procs,
         flow' = [flow EXCEPT ![p].pc = "clear", ![p].created = ~unit, ![p].tries = 0]
  PROVE  After(p, "clear", flow[p].phase, flow[p].wrong) /\ flow'[p].created = ~unit
<1>0. flow[p] \in Flows /\ flow[p].wrong \in Nat /\ flow \in [Procs -> Flows]
  BY DEF UpgradeTyped, Flows
<1>1. PICK b \in BOOLEAN : b = ~unit
  BY DEF UpgradeTyped
<1> DEFINE g == [flow[p] EXCEPT !.pc = "clear", !.created = b, !.tries = 0]
<1>2. flow' = [flow EXCEPT ![p] = g]
  BY <1>0, <1>1
<1>3. /\ g \in Flows /\ g.pc = "clear" /\ g.phase = flow[p].phase /\ g.wrong = flow[p].wrong
      /\ g.keep = flow[p].keep /\ g.ran = flow[p].ran /\ g.created = b
  BY <1>0 DEF Flows, Checking, Installing
<1> HIDE DEF g
<1>4. After(p, g.pc, g.phase, g.wrong) /\ flow'[p] = g
  BY <1>2, <1>3, GoesOn
<1> QED
  BY <1>1, <1>3, <1>4 DEF After

-----------------------------------------------------------------------------
\* What each step does, to the process and to what it shares with the others.

SameFiles == exe' = exe /\ prev' = prev
SameJob == unit' = unit /\ job' = job /\ svc' = svc
SameWorld == quality' = quality /\ latest' \in Nat

\* Up to the moment the new image is in place.
LEMMA Replaces ==
  ASSUME UpgradeTyped, NEW p \in Procs
  PROVE  /\ Fetch(p) => /\ SameFiles /\ SameJob /\ SameWorld /\ At(p, "fetch")
                        /\ \/ Ended(p, "current", flow[p].wrong) \/ Going(p, "stage", flow[p].wrong)
                           \/ Ended(p, "failed", flow[p].wrong + 1)
         /\ Stage(p) => /\ SameFiles /\ SameJob /\ SameWorld /\ At(p, "stage")
                        /\ Going(p, "download", flow[p].wrong) \/ Ended(p, "failed", flow[p].wrong + 1)
         /\ Download(p) => /\ SameFiles /\ SameJob /\ SameWorld /\ At(p, "download")
                           /\ Going(p, "preserve", flow[p].wrong) \/ Ended(p, "failed", flow[p].wrong + 1)
         /\ Preserve(p) => /\ exe' = exe /\ prev' \in Nat /\ SameJob /\ SameWorld /\ At(p, "preserve")
                           /\ Going(p, "aside", flow[p].wrong) \/ Ended(p, "failed", flow[p].wrong + 1)
         /\ MoveAside(p) => /\ SameJob /\ SameWorld /\ At(p, "aside")
                            /\ \/ Going(p, "activate", flow[p].wrong) /\ prev' = exe /\ exe' = 0
                               \/ Going(p, "reprev", flow[p].wrong + 1) /\ SameFiles
         /\ Activate(p) => /\ SameJob /\ SameWorld /\ At(p, "activate") /\ prev' = prev /\ exe' \in Nat
                           /\ \/ Going(p, "sync", flow[p].wrong)
                              \/ Going(p, "revert", flow[p].wrong + 1)
         /\ Sync(p) => /\ SameFiles /\ SameJob /\ SameWorld /\ At(p, "sync")
                       /\ Going(p, "validate", flow[p].wrong) \/ Going(p, "park", flow[p].wrong + 1)
<1> USE DEF SameFiles, SameJob, SameWorld, jobVars, files, Fixed
<1>0. /\ flow[p] \in Flows /\ flow[p].wrong \in Nat /\ flow[p].image \in Nat
      /\ latest \in Nat /\ exe \in Nat /\ prev \in Nat
  BY DEF UpgradeTyped, Flows
<1>1. ASSUME Fetch(p) PROVE Ended(p, "current", flow[p].wrong) \/ Going(p, "stage", flow[p].wrong) \/ Ended(p, "failed", flow[p].wrong + 1)
  <2>1. CASE Ends(p, "current")
    BY <1>0, <2>1, Finishes DEF Ends
  <2>2. CASE flow' = [flow EXCEPT ![p].pc = "stage", ![p].image = latest]
    BY <1>0, <2>2, Carries DEF Pcs, Replacing
  <2>3. CASE Fails(p)
    BY <2>3, Outcomes
  <2> QED
    BY <1>1, <2>1, <2>2, <2>3 DEF Fetch
<1>2. ASSUME Stage(p) PROVE Going(p, "download", flow[p].wrong) \/ Ended(p, "failed", flow[p].wrong + 1)
  BY <1>2, Outcomes DEF Stage, Replacing
<1>3. ASSUME Download(p) PROVE Going(p, "preserve", flow[p].wrong) \/ Ended(p, "failed", flow[p].wrong + 1)
  BY <1>3, Outcomes DEF Download, Replacing
<1>4. ASSUME Preserve(p) PROVE Going(p, "aside", flow[p].wrong) \/ Ended(p, "failed", flow[p].wrong + 1)
  <2>1. CASE flow' = [flow EXCEPT ![p].pc = "aside", ![p].backup = prev]
    BY <1>0, <2>1, Carries DEF Pcs, Replacing
  <2>2. CASE Fails(p)
    BY <2>2, Outcomes
  <2> QED
    BY <1>4, <2>1, <2>2 DEF Preserve
<1>5. ASSUME MoveAside(p)
      PROVE  \/ Going(p, "activate", flow[p].wrong) /\ prev' = exe /\ exe' = 0
             \/ Going(p, "reprev", flow[p].wrong + 1) /\ SameFiles
  <2>1. CASE prev' = exe /\ exe' = 0 /\ Go(p, "activate")
    BY <2>1, Outcomes DEF Replacing
  <2>2. CASE flow' = [flow EXCEPT ![p].pc = "reprev", ![p].wrong = @ + 1] /\ SameFiles
    BY <2>2, Errs DEF Pcs, Replacing
  <2> QED
    BY <1>5, <2>1, <2>2 DEF MoveAside
<1>6. ASSUME Activate(p)
      PROVE  exe' \in Nat /\ (Going(p, "sync", flow[p].wrong) \/ Going(p, "revert", flow[p].wrong + 1))
  <2>1. CASE exe' = flow[p].image /\ Go(p, "sync")
    BY <1>0, <2>1, Outcomes DEF Replacing
  <2>2. CASE flow' = [flow EXCEPT ![p].pc = "revert", ![p].wrong = @ + 1] /\ exe' = exe
    BY <1>0, <2>2, Errs DEF Pcs, Replacing
  <2> QED
    BY <1>6, <2>1, <2>2 DEF Activate
<1>7. ASSUME Sync(p) PROVE Going(p, "validate", flow[p].wrong) \/ Going(p, "park", flow[p].wrong + 1)
  <2>1. CASE flow' = [flow EXCEPT ![p].pc = "validate", ![p].backup = 0]
    BY <2>1, Carries DEF Pcs, Checking
  <2>2. CASE flow' = [flow EXCEPT ![p].pc = "park", ![p].wrong = @ + 1]
    BY <2>2, Errs DEF Pcs, Replacing
  <2> QED
    BY <1>7, <2>1, <2>2 DEF Sync
<1>8. \/ Fetch(p) \/ Stage(p) \/ Download(p) \/ Preserve(p) \/ MoveAside(p) \/ Activate(p) \/ Sync(p)
      => SameJob /\ SameWorld
  BY <1>0 DEF Fetch, Stage, Download, Preserve, MoveAside, Activate, Sync
<1>9. /\ Fetch(p) => SameFiles /\ At(p, "fetch")
      /\ Stage(p) => SameFiles /\ At(p, "stage")
      /\ Download(p) => SameFiles /\ At(p, "download")
      /\ Preserve(p) => exe' = exe /\ prev' \in Nat /\ At(p, "preserve")
      /\ MoveAside(p) => At(p, "aside")
      /\ Activate(p) => At(p, "activate") /\ prev' = prev
      /\ Sync(p) => SameFiles /\ At(p, "sync")
  BY <1>0 DEF Fetch, Stage, Download, Preserve, MoveAside, Activate, Sync
<1> HIDE DEF SameFiles, SameJob, SameWorld
<1> QED
  BY <1>1, <1>2, <1>3, <1>4, <1>5, <1>6, <1>7, <1>8, <1>9

\* Back to the image that was there, in the command that moved it or in another.
LEMMA Restores ==
  ASSUME UpgradeTyped, NEW p \in Procs
  PROVE  /\ Park(p) => /\ SameJob /\ SameWorld /\ At(p, "park") /\ prev' = prev /\ exe' \in Nat
                       /\ Going(p, "revert", flow[p].wrong)
         /\ Revert(p) => /\ SameJob /\ SameWorld /\ At(p, "revert")
                         /\ \/ Going(p, "reprev", flow[p].wrong) /\ exe' = prev /\ prev' = 0
                            \/ Ended(p, "failed", flow[p].wrong + 1) /\ SameFiles
         /\ Reprev(p) => /\ SameJob /\ SameWorld /\ At(p, "reprev") /\ exe' = exe /\ prev' \in Nat
                         /\ \/ Ended(p, "failed", flow[p].wrong) \/ Ended(p, "failed", flow[p].wrong + 1)
         /\ Unseat(p) => /\ SameJob /\ SameWorld /\ At(p, "unseat") /\ prev' = prev /\ exe' \in Nat
                         /\ Going(p, "reseat", flow[p].wrong) \/ Ended(p, "failed", flow[p].wrong + 1)
         /\ Reseat(p) => /\ SameJob /\ SameWorld /\ At(p, "reseat")
                         /\ \/ Going(p, "syncback", flow[p].wrong) /\ exe' = prev /\ prev' = 0
                            \/ Ended(p, "failed", flow[p].wrong + 1) /\ prev' = prev /\ exe' \in Nat
         /\ SyncBack(p) => /\ SameFiles /\ SameJob /\ SameWorld /\ At(p, "syncback")
                           /\ \/ Going(p, IF flow[p].phase = "rollback" THEN "validate" ELSE "status", flow[p].wrong)
                              \/ Ended(p, "failed", flow[p].wrong + 1)
<1> USE DEF SameFiles, SameJob, SameWorld, jobVars, files, Fixed
<1>0. /\ flow[p] \in Flows /\ flow[p].wrong \in Nat /\ flow[p].wrong + 1 \in Nat
      /\ flow[p].backup \in Nat /\ flow[p].failed \in Nat
      /\ latest \in Nat /\ exe \in Nat /\ prev \in Nat
  BY DEF UpgradeTyped, Flows
<1>1. ASSUME Park(p) PROVE exe' \in Nat /\ Going(p, "revert", flow[p].wrong)
  <2>1. CASE flow' = [flow EXCEPT ![p].pc = "revert", ![p].failed = exe] /\ exe' = 0
    BY <1>0, <2>1, Carries DEF Pcs, Replacing
  <2>2. CASE Go(p, "revert") /\ exe' = exe
    BY <1>0, <2>2, Outcomes DEF Replacing
  <2> QED
    BY <1>1, <2>1, <2>2 DEF Park
<1>2. ASSUME Revert(p)
      PROVE  \/ Going(p, "reprev", flow[p].wrong) /\ exe' = prev /\ prev' = 0
             \/ Ended(p, "failed", flow[p].wrong + 1) /\ SameFiles
  <2>1. CASE flow' = [flow EXCEPT ![p].pc = "reprev", ![p].failed = 0] /\ exe' = prev /\ prev' = 0
    BY <2>1, Carries DEF Pcs, Replacing
  <2>2. CASE Finish(p, "failed", flow[p].wrong + 1, {flow[p].backup}) /\ SameFiles
    BY <1>0, <2>2, Finishes
  <2> QED
    BY <1>2, <2>1, <2>2 DEF Revert
<1>3. ASSUME Reprev(p) PROVE Ended(p, "failed", flow[p].wrong) \/ Ended(p, "failed", flow[p].wrong + 1)
  <2>1. CASE Finish(p, "failed", flow[p].wrong, {})
    BY <1>0, <2>1, Finishes
  <2>2. CASE Fails(p)
    BY <2>2, Outcomes
  <2> QED
    BY <1>3, <2>1, <2>2 DEF Reprev
<1>4. ASSUME Unseat(p)
      PROVE  exe' \in Nat /\ (Going(p, "reseat", flow[p].wrong) \/ Ended(p, "failed", flow[p].wrong + 1))
  <2>1. CASE flow' = [flow EXCEPT ![p].pc = "reseat", ![p].failed = exe] /\ exe' = 0
    BY <1>0, <2>1, Carries DEF Pcs, Returning
  <2>2. CASE Fails(p) /\ exe' = exe
    BY <1>0, <2>2, Outcomes
  <2> QED
    BY <1>4, <2>1, <2>2 DEF Unseat
<1>5. ASSUME Reseat(p)
      PROVE  \/ Going(p, "syncback", flow[p].wrong) /\ exe' = prev /\ prev' = 0
             \/ Ended(p, "failed", flow[p].wrong + 1) /\ prev' = prev /\ exe' \in Nat
  <2>1. CASE Go(p, "syncback") /\ exe' = prev /\ prev' = 0
    BY <2>1, Outcomes DEF Returning
  <2>2. CASE /\ exe' \in {flow[p].failed, 0} /\ prev' = prev
             /\ Finish(p, "failed", flow[p].wrong + 1, IF exe' = 0 THEN {flow[p].failed} ELSE {})
    BY <1>0, <2>2, Finishes
  <2> QED
    BY <1>5, <2>1, <2>2 DEF Reseat
<1>6. ASSUME SyncBack(p)
      PROVE  \/ Going(p, IF flow[p].phase = "rollback" THEN "validate" ELSE "status", flow[p].wrong)
             \/ Ended(p, "failed", flow[p].wrong + 1)
  <2> DEFINE c == IF flow[p].phase = "rollback" THEN "validate" ELSE "status"
  <2>0. c \in Pcs
    BY DEF Pcs, Checking
  <2> HIDE DEF c
  <2>1. CASE flow' = [flow EXCEPT ![p].failed = 0, ![p].pc = c]
    BY <2>0, <2>1, Carries DEF c
  <2>2. CASE Fails(p)
    BY <2>2, Outcomes
  <2> QED
    BY <1>6, <2>1, <2>2 DEF SyncBack, c
<1>7. Park(p) \/ Revert(p) \/ Reprev(p) \/ Unseat(p) \/ Reseat(p) \/ SyncBack(p) => SameJob /\ SameWorld
  BY <1>0 DEF Park, Revert, Reprev, Unseat, Reseat, SyncBack
<1>8. /\ Park(p) => At(p, "park") /\ prev' = prev
      /\ Revert(p) => At(p, "revert")
      /\ Reprev(p) => At(p, "reprev") /\ exe' = exe /\ prev' \in Nat
      /\ Unseat(p) => At(p, "unseat") /\ prev' = prev
      /\ Reseat(p) => At(p, "reseat")
      /\ SyncBack(p) => SameFiles /\ At(p, "syncback")
  BY <1>0 DEF Park, Revert, Reprev, Unseat, Reseat, SyncBack
<1> HIDE DEF SameFiles, SameJob, SameWorld
<1> QED
  BY <1>1, <1>2, <1>3, <1>4, <1>5, <1>6, <1>7, <1>8

\* The new image is tried and the service asked.
LEMMA Checks ==
  ASSUME UpgradeTyped, NEW p \in Procs
  PROVE  /\ Validate(p) => /\ SameFiles /\ SameJob /\ SameWorld /\ At(p, "validate")
                           /\ Going(p, "status", flow[p].wrong) \/ GivenUp(p)
         /\ Status(p) => /\ SameFiles /\ SameJob /\ SameWorld /\ At(p, "status")
                         /\ \/ Going(p, "write", flow[p].wrong)
                            \/ unit = FALSE /\ Ended(p, Result(p), flow[p].wrong)
                            \/ Ended(p, Result(p), flow[p].wrong + 1)
         /\ AwaitHealth(p) => /\ SameFiles /\ SameJob /\ SameWorld /\ At(p, "health")
                              /\ \/ Healthy /\ Ended(p, Result(p), flow[p].wrong)
                                 \/ GivenUp(p)
<1> USE DEF SameFiles, SameJob, SameWorld, jobVars, files, Fixed
<1>0. /\ flow[p] \in Flows /\ flow[p].wrong \in Nat /\ flow[p].wrong + 1 \in Nat
      /\ latest \in Nat /\ unit \in BOOLEAN
  BY DEF UpgradeTyped, Flows
<1>1. ASSUME Validate(p) PROVE Going(p, "status", flow[p].wrong) \/ GivenUp(p)
  BY <1>1, Outcomes DEF Validate, Checking
<1>2. ASSUME Status(p)
      PROVE  \/ Going(p, "write", flow[p].wrong)
             \/ unit = FALSE /\ Ended(p, Result(p), flow[p].wrong)
             \/ Ended(p, Result(p), flow[p].wrong + 1)
  <2>0. Result(p) \in {"ok", "failed", "current", "cut"}
    BY DEF Result
  <2>1. CASE Go(p, "write")
    BY <2>1, Outcomes DEF Checking, Installing
  <2>2. CASE ~unit /\ Succeed(p)
    BY <1>0, <2>2, Outcomes
  <2>3. CASE Finish(p, Result(p), flow[p].wrong + 1, {})
    <3>1. PICK r \in {"ok", "failed", "current", "cut"} : r = Result(p)
      BY <2>0
    <3>2. Ended(p, r, flow[p].wrong + 1)
      BY <1>0, <2>3, <3>1, Finishes
    <3> QED
      BY <3>1, <3>2
  <2> QED
    BY <1>2, <2>1, <2>2, <2>3 DEF Status, Result
<1>3. ASSUME AwaitHealth(p)
      PROVE  \/ Healthy /\ Ended(p, Result(p), flow[p].wrong)
             \/ GivenUp(p)
  BY <1>3, Outcomes DEF AwaitHealth
<1>4. /\ Validate(p) => SameFiles /\ SameJob /\ SameWorld /\ At(p, "validate")
      /\ Status(p) => SameFiles /\ SameJob /\ SameWorld /\ At(p, "status")
      /\ AwaitHealth(p) => SameFiles /\ SameJob /\ SameWorld /\ At(p, "health")
  BY <1>0 DEF Validate, Status, AwaitHealth
<1> HIDE DEF SameFiles, SameJob, SameWorld
<1> QED
  BY <1>1, <1>2, <1>3, <1>4

\* Of the service: it runs what it ran, the image on disk, or nothing; and a
\* definition that this call did not create is not discarded by it.
JobStep(p) ==
  /\ svc' \in {svc, 0, Started(exe)} /\ unit' \in BOOLEAN
  /\ unit = TRUE /\ flow[p].created = FALSE => unit' = TRUE

\* One tool call at a time.
LEMMA Installs ==
  ASSUME UpgradeTyped, NEW p \in Procs
  PROVE  /\ WriteDefinition(p) => /\ SameFiles /\ SameWorld /\ At(p, "write") /\ JobStep(p)
                                  /\ \/ After(p, "clear", flow[p].phase, flow[p].wrong) /\ flow'[p].created = ~unit
                                     \/ GivenUp(p)
         /\ Clear(p) => /\ SameFiles /\ SameWorld /\ At(p, "clear") /\ JobStep(p)
                        /\ \/ Going(p, "load", flow[p].wrong) \/ Going(p, "start", flow[p].wrong) \/ GivenUp(p)
         /\ Load(p) => /\ SameFiles /\ SameWorld /\ At(p, "load") /\ JobStep(p)
                       /\ \/ Going(p, "load", flow[p].wrong) \/ Going(p, "start", flow[p].wrong) \/ GivenUp(p)
         /\ StartJob(p) => /\ SameFiles /\ SameWorld /\ At(p, "start") /\ JobStep(p)
                           /\ \/ flow[p].phase = "install" /\ Ended(p, "ok", flow[p].wrong)
                              \/ flow[p].phase # "install" /\ Going(p, "health", flow[p].wrong) /\ svc' = Started(exe)
                              \/ GivenUp(p)
<1> USE DEF SameFiles, SameWorld, files, Fixed
<1>0. /\ flow[p] \in Flows /\ flow[p].wrong \in Nat /\ flow[p].wrong + 1 \in Nat
      /\ flow[p].created \in BOOLEAN /\ latest \in Nat /\ unit \in BOOLEAN
  BY DEF UpgradeTyped, Flows
<1>1. ASSUME WriteDefinition(p)
      PROVE  \/ After(p, "clear", flow[p].phase, flow[p].wrong) /\ flow'[p].created = ~unit
             \/ GivenUp(p)
  <2>1. CASE flow' = [flow EXCEPT ![p].pc = "clear", ![p].created = ~unit, ![p].tries = 0]
    BY <2>1, Creates
  <2>2. CASE GiveUp(p)
    BY <2>2, Outcomes
  <2> QED
    BY <1>1, <2>1, <2>2 DEF WriteDefinition
<1>2. WriteDefinition(p) => JobStep(p)
  BY <1>0 DEF WriteDefinition, JobStep, jobVars
<1>3. ASSUME Clear(p) PROVE Going(p, "load", flow[p].wrong) \/ Going(p, "start", flow[p].wrong) \/ GivenUp(p)
  <2>1. Go(p, "load") \/ Go(p, "start") \/ GiveUp(p)
    BY <1>3 DEF Clear, DarwinClear, LinuxClear, WindowsClear
  <2> QED
    BY <2>1, Outcomes DEF Checking, Installing
<1>4. Clear(p) => JobStep(p)
  BY <1>0 DEF Clear, DarwinClear, LinuxClear, WindowsClear, JobStep, jobVars, Discarded, Bootout, EndTask
<1>5. ASSUME Load(p) PROVE Going(p, "load", flow[p].wrong) \/ Going(p, "start", flow[p].wrong) \/ GivenUp(p)
  <2>1. Go(p, "start") \/ flow' = [flow EXCEPT ![p].tries = @ + 1] \/ GiveUp(p)
    BY <1>5 DEF Load, DarwinLoad, LinuxLoad
  <2>2. flow[p].pc = "load"
    BY <1>5 DEF Load, At
  <2>3. CASE flow' = [flow EXCEPT ![p].tries = @ + 1]
    BY <2>2, <2>3, Tries
  <2> QED
    BY <2>1, <2>3, Outcomes DEF Checking, Installing
<1>6. Load(p) => JobStep(p)
  BY <1>0 DEF Load, DarwinLoad, LinuxLoad, JobStep, jobVars, Discarded, Bootstrap, EnableNow
<1>7. ASSUME StartJob(p)
      PROVE  \/ flow[p].phase = "install" /\ Ended(p, "ok", flow[p].wrong)
             \/ flow[p].phase # "install" /\ Going(p, "health", flow[p].wrong) /\ svc' = Started(exe)
             \/ GivenUp(p)
  <2>1. CASE Restart(exe) /\ Installed(p)
    <3>1. CASE flow[p].phase = "install"
      BY <1>0, <2>1, <3>1, Finishes DEF Installed, Ends
    <3>2. CASE flow[p].phase # "install"
      BY <2>1, <3>2, Outcomes DEF Installed, Restart, Checking
    <3> QED
      BY <3>1, <3>2
  <2>2. CASE StartFails(p)
    BY <2>2, Outcomes DEF StartFails
  <2> QED
    BY <1>7, <2>1, <2>2 DEF StartJob
<1>8. StartJob(p) => JobStep(p)
  BY <1>0 DEF StartJob, Restart, StartFails, JobStep, Discarded
<1>9. /\ WriteDefinition(p) => SameFiles /\ SameWorld /\ At(p, "write")
      /\ Clear(p) => SameFiles /\ SameWorld /\ At(p, "clear")
      /\ Load(p) => SameFiles /\ SameWorld /\ At(p, "load")
      /\ StartJob(p) => SameFiles /\ SameWorld /\ At(p, "start")
  BY <1>0 DEF WriteDefinition, Clear, Load, StartJob
<1> HIDE DEF SameFiles, SameWorld
<1> QED
  BY <1>1, <1>2, <1>3, <1>4, <1>5, <1>6, <1>7, <1>8, <1>9

-----------------------------------------------------------------------------
\* The inductive invariant.

Cli == flow["cli"]
App == flow["app"]

\* Which steps belong to which phase. The application only installs.
Phased ==
  /\ App.phase \in {"none", "install"} /\ App.pc \in {"idle"} \cup Installing
  /\ App.phase = "none" => App.pc = "idle"
  /\ Cli.phase = "none" => Cli.pc = "idle"
  /\ Cli.phase = "install" => Cli.pc \in {"idle"} \cup Installing
  /\ Cli.phase = "update" => Cli.pc \in {"idle"} \cup Replacing \cup Checking
  /\ Cli.phase = "rollback" => Cli.pc \in {"idle"} \cup Returning \cup Checking
  /\ Cli.phase = "undo" => Cli.pc \in {"idle"} \cup Returning \cup (Checking \ {"validate"})

\* The image that must not be lost is under one of the two names that a user can
\* run or roll back to, and at each step under which one is known.
InHand == {"fetch", "stage", "download", "preserve", "aside", "reprev"}

Placed ==
  /\ Cli.phase = "update" /\ Cli.pc \in InHand => exe = Cli.keep
  /\ Cli.phase = "update" /\ Cli.pc \notin InHand \cup {"idle"} => prev = Cli.keep
  /\ Cli.phase \in {"undo", "rollback"} /\ Cli.pc \in {"unseat", "reseat"} => prev = Cli.keep
  /\ Cli.phase \in {"undo", "rollback"} /\ Cli.pc \in {"syncback"} \cup Checking => exe = Cli.keep
  /\ Cli.phase \in {"update", "undo", "rollback"} /\ Cli.pc = "idle" => Cli.keep \in {exe, prev}

\* Once the job was restarted, nothing runs but the image on disk.
Current == Cli.pc = "health" => svc \in {0, exe}

\* An update that is being undone has met its failure, and no other has.
Faulty ==
  /\ Cli.phase = "update" /\ Cli.pc \in {"park", "revert", "reprev"} => Cli.wrong = 1
  /\ Cli.phase = "update" /\ Cli.pc \notin {"park", "revert", "reprev", "idle"} => Cli.wrong = 0
  /\ Cli.phase = "undo" /\ Cli.pc # "idle" => Cli.wrong = 1

\* Without the application beside it, an update that began with a healthy service
\* keeps the service's definition, and the service itself until it is reinstalled.
Served ==
  ~Overlap =>
    /\ Cli.pc = "idle" \/ App.pc = "idle"
    /\ Cli.phase \in {"update", "undo"} /\ Cli.pc # "idle" /\ Cli.ran = TRUE =>
         /\ unit = TRUE /\ Cli.created = FALSE
         /\ Cli.phase = "update" /\ Cli.pc \in Replacing \cup {"validate", "status", "write"}
              => job = "loaded" /\ svc # 0 /\ quality[svc] = "good"

UpgradeInv == UpgradeTyped /\ Phased /\ Placed /\ Current /\ Faulty /\ Served

\* The command replaces the image, or puts it back.
LEMMA CliReplaces ==
  ASSUME UpgradeInv,
         \/ Fetch("cli") \/ Stage("cli") \/ Download("cli") \/ Preserve("cli") \/ MoveAside("cli") \/ Activate("cli") \/ Sync("cli")
         \/ Park("cli") \/ Revert("cli") \/ Reprev("cli") \/ Unseat("cli") \/ Reseat("cli") \/ SyncBack("cli")
  PROVE  UpgradeInv'
<1> USE DEF SameFiles, SameJob, SameWorld, At, Going, Ended, After, Cli, App
<1>0. /\ "cli" \in Procs /\ "app" \in Procs /\ UpgradeTyped
      /\ Cli \in Flows /\ Cli.wrong \in Nat
  BY DEF UpgradeInv, UpgradeTyped, Flows, Procs
<1>1. UpgradeTyped'
  BY <1>0, Replaces, Restores DEF UpgradeTyped
<1>2. Phased'
  BY <1>0, Replaces, Restores DEF UpgradeInv, Phased, Replacing, Returning, Checking, Installing
<1>3. Placed'
  BY <1>0, Replaces, Restores DEF UpgradeInv, Phased, Placed, InHand, Replacing, Returning, Checking, Installing
<1>4. Current'
  BY <1>0, Replaces, Restores DEF Current
<1>5. Faulty'
  BY <1>0, Replaces, Restores DEF UpgradeInv, Phased, Faulty, Replacing, Returning, Checking, Installing
<1>6. Served'
  BY <1>0, Replaces, Restores DEF UpgradeInv, Phased, Served, Replacing, Returning, Checking, Installing
<1> QED
  BY <1>1, <1>2, <1>3, <1>4, <1>5, <1>6 DEF UpgradeInv

\* The command tries the image, and waits for the service.
LEMMA CliChecks ==
  ASSUME UpgradeInv, Validate("cli") \/ Status("cli") \/ AwaitHealth("cli")
  PROVE  UpgradeInv'
<1>0. /\ "cli" \in Procs /\ "app" \in Procs /\ UpgradeTyped
      /\ Cli \in Flows /\ Cli.wrong \in Nat
  BY DEF UpgradeInv, UpgradeTyped, Flows, Procs, Cli
<1>1. SameFiles /\ SameJob /\ SameWorld /\ Cli.pc \in {"validate", "status", "health"}
  BY <1>0, Checks DEF At, Cli
<1>2. \/ Going("cli", "status", Cli.wrong) /\ Cli.pc = "validate"
      \/ Going("cli", "write", Cli.wrong) /\ Cli.pc = "status"
      \/ \E result, wrong : Ended("cli", result, wrong)
      \/ GivenUp("cli")
  BY <1>0, Checks DEF At, Cli
<1> USE DEF SameFiles, SameJob, SameWorld, Going, Ended, GivenUp, After, Cli, App
<1>3. UpgradeTyped'
  BY <1>0, <1>1, <1>2 DEF UpgradeTyped
<1>4. Phased'
  BY <1>0, <1>1, <1>2 DEF UpgradeInv, Phased, Replacing, Returning, Checking, Installing
<1>5. Placed'
  BY <1>0, <1>1, <1>2 DEF UpgradeInv, Phased, Placed, InHand, Replacing, Returning, Checking, Installing
<1>6. Current'
  BY <1>0, <1>1, <1>2 DEF Current
<1>7. Faulty'
  BY <1>0, <1>1, <1>2 DEF UpgradeInv, Phased, Faulty, Replacing, Returning, Checking, Installing
<1>8. Served'
  BY <1>0, <1>1, <1>2 DEF UpgradeInv, Phased, Served, Replacing, Returning, Checking, Installing
<1> QED
  BY <1>3, <1>4, <1>5, <1>6, <1>7, <1>8 DEF UpgradeInv

\* Of a tool call: the next one is due, or the service is asked, or it was the last.
CallMade(p) ==
  \/ /\ \E c \in {"clear", "load", "start"} : After(p, c, flow[p].phase, flow[p].wrong)
     /\ unit = TRUE /\ flow[p].created = FALSE => flow'[p].created = FALSE
  \/ Going(p, "health", flow[p].wrong) /\ svc' = Started(exe) /\ flow[p].phase # "install"
  \/ Ended(p, "ok", flow[p].wrong) /\ flow[p].phase = "install"
  \/ GivenUp(p)

LEMMA Calls ==
  ASSUME UpgradeTyped, NEW p \in Procs, WriteDefinition(p) \/ Clear(p) \/ Load(p) \/ StartJob(p)
  PROVE  CallMade(p) /\ JobStep(p) /\ SameFiles /\ SameWorld /\ flow[p].pc \in Installing
<1>1. CASE WriteDefinition(p)
  BY <1>1, Installs DEF CallMade, Installing, At
<1>2. CASE Clear(p)
  BY <1>2, Installs DEF CallMade, Installing, At, Going
<1>3. CASE Load(p)
  BY <1>3, Installs DEF CallMade, Installing, At, Going
<1>4. CASE StartJob(p)
  BY <1>4, Installs DEF CallMade, Installing, At
<1> QED
  BY <1>1, <1>2, <1>3, <1>4

\* The command restarts the service.
LEMMA CliInstalls ==
  ASSUME UpgradeInv, WriteDefinition("cli") \/ Clear("cli") \/ Load("cli") \/ StartJob("cli")
  PROVE  UpgradeInv'
<1>0. /\ "cli" \in Procs /\ "app" \in Procs /\ UpgradeTyped
      /\ Cli \in Flows /\ Cli.wrong \in Nat
  BY DEF UpgradeInv, UpgradeTyped, Flows, Procs, Cli
<1>1. CallMade("cli") /\ JobStep("cli") /\ SameFiles /\ SameWorld /\ Cli.pc \in Installing
  BY <1>0, Calls DEF Cli
<1> USE DEF SameFiles, SameWorld, JobStep, CallMade, Going, Ended, GivenUp, After, Cli, App
<1>2. UpgradeTyped'
  BY <1>0, <1>1 DEF UpgradeTyped
<1>3. Phased'
  BY <1>0, <1>1 DEF UpgradeInv, Phased, Replacing, Returning, Checking, Installing
<1>4. Placed'
  BY <1>0, <1>1 DEF UpgradeInv, Phased, Placed, InHand, Replacing, Returning, Checking, Installing
<1>5. Current'
  BY <1>0, <1>1 DEF UpgradeInv, Current, Started
<1>6. Faulty'
  BY <1>0, <1>1 DEF UpgradeInv, Phased, Faulty, Replacing, Returning, Checking, Installing
<1>7. Served'
  BY <1>0, <1>1 DEF UpgradeInv, Phased, Served, Replacing, Returning, Checking, Installing
<1> QED
  BY <1>2, <1>3, <1>4, <1>5, <1>6, <1>7 DEF UpgradeInv

\* The application installs the service, beside a command or not.
LEMMA AppInstalls ==
  ASSUME UpgradeInv, Step("app")
  PROVE  UpgradeInv' /\ Cli' = Cli
<1>0. /\ "cli" \in Procs /\ "app" \in Procs /\ UpgradeTyped
      /\ App \in Flows /\ App.wrong \in Nat /\ App.phase # "update"
  BY DEF UpgradeInv, UpgradeTyped, Flows, Procs, App, Phased
<1>1. WriteDefinition("app") \/ Clear("app") \/ Load("app") \/ StartJob("app")
  <2>1. App.pc \in {"idle"} \cup Installing
    BY DEF UpgradeInv, Phased
  <2> QED
    BY <1>0, <2>1, Replaces, Restores, Checks DEF Step, Installing, At, App
<1>2. CallMade("app") /\ JobStep("app") /\ SameFiles /\ SameWorld /\ App.pc \in Installing
  BY <1>0, <1>1, Calls DEF App
<1> USE DEF SameFiles, SameWorld, JobStep, CallMade, Going, Ended, GivenUp, After, Cli, App
<1>3. Cli' = Cli /\ flow' \in [Procs -> Flows]
  BY <1>0, <1>2
<1>4. UpgradeTyped'
  BY <1>0, <1>2, <1>3 DEF UpgradeTyped
<1>5. Phased'
  <2>1. App.phase = "install"
    BY <1>2 DEF UpgradeInv, Phased, Installing
  <2>2. App'.phase = "install"
    BY <1>0, <1>2, <2>1
  <2>3. App'.pc \in {"idle"} \cup Installing
    BY <1>0, <1>2, <2>1 DEF Installing
  <2> QED
    BY <1>3, <2>2, <2>3 DEF UpgradeInv, Phased
<1>6. Placed'
  BY <1>2, <1>3 DEF UpgradeInv, Placed
<1>7. Current'
  BY <1>2, <1>3 DEF UpgradeInv, Current, Started
<1>8. Faulty'
  BY <1>3 DEF UpgradeInv, Faulty
<1>9. Served'
  BY <1>2, <1>3 DEF UpgradeInv, Served, Installing
<1> QED
  BY <1>3, <1>4, <1>5, <1>6, <1>7, <1>8, <1>9 DEF UpgradeInv

\* A process ends at any moment.
LEMMA Crashes ==
  ASSUME UpgradeInv, NEW p \in Procs, Crash(p)
  PROVE  UpgradeInv' /\ ~CommandEnds("failed") /\ ~CommandEnds("ok")
<1>0. /\ "cli" \in Procs /\ "app" \in Procs /\ UpgradeTyped /\ p \in {"cli", "app"}
      /\ flow[p] \in Flows /\ flow[p].wrong \in Nat
  BY DEF UpgradeInv, UpgradeTyped, Flows, Procs
<1>1. Ended(p, "cut", flow[p].wrong)
  BY <1>0, Finishes DEF Crash, Ends
<1>2. UNCHANGED <<exe, prev, unit, job, held, svc, quality, latest>> /\ flow[p].pc # "idle"
  BY DEF Crash, Fixed, jobVars, files, At
<1> USE DEF Ended, After, Cli, App
<1>3. UpgradeTyped'
  BY <1>0, <1>1, <1>2 DEF UpgradeTyped
<1>4. Phased'
  BY <1>0, <1>1, <1>2 DEF UpgradeInv, Phased
<1>5. Placed'
  BY <1>0, <1>1, <1>2 DEF UpgradeInv, Phased, Placed, InHand, Replacing, Returning, Checking, Installing
<1>6. Current' /\ Faulty'
  BY <1>0, <1>1, <1>2 DEF UpgradeInv, Current, Faulty
<1>7. Served'
  BY <1>0, <1>1, <1>2 DEF UpgradeInv, Served
<1>8. ~CommandEnds("failed") /\ ~CommandEnds("ok")
  BY <1>0, <1>1 DEF CommandEnds, At
<1> QED
  BY <1>3, <1>4, <1>5, <1>6, <1>7, <1>8 DEF UpgradeInv

\* A process begins.
Begun(p, c, phase, keep) ==
  /\ flow' \in [Procs -> Flows] /\ \A q \in Procs : q # p => flow'[q] = flow[q]
  /\ flow'[p].pc = c /\ flow'[p].phase = phase /\ flow'[p].wrong = 0 /\ flow'[p].keep = keep /\ flow'[p].created = FALSE
  /\ flow'[p].ran = TRUE => unit = TRUE /\ job = "loaded" /\ Healthy

LEMMA Begins ==
  ASSUME UpgradeInv, NEW p \in Procs, NEW c \in {"fetch", "unseat", "write"}, NEW phase \in {"update", "rollback", "install"},
         NEW keep \in Nat, Starts(p, c, phase, 0, keep)
  PROVE  Begun(p, c, phase, keep)
<1>0. UpgradeTyped /\ unit \in BOOLEAN
  BY DEF UpgradeInv, UpgradeTyped
<1>1. PICK b \in BOOLEAN : b = (unit /\ job = "loaded" /\ Healthy)
  BY <1>0 DEF Healthy
<1> DEFINE g == [Idle EXCEPT !.pc = c, !.phase = phase, !.image = 0, !.keep = keep, !.ran = b]
<1>2. flow' = [flow EXCEPT ![p] = g]
  BY <1>1 DEF Starts
<1>3. /\ g \in Flows /\ g.pc = c /\ g.phase = phase /\ g.wrong = 0 /\ g.keep = keep /\ g.created = FALSE /\ g.ran = b
  BY IdleTyped DEF Idle, Flows, Replacing, Returning, Checking, Installing
<1> HIDE DEF g
<1> QED
  BY <1>0, <1>1, <1>2, <1>3, FlowSet DEF Begun

LEMMA Starting ==
  ASSUME UpgradeInv, StartUpdate \/ StartRollback \/ StartInstall("cli") \/ StartInstall("app")
  PROVE  UpgradeInv'
<1> USE DEF Cli, App, At
<1>0. /\ "cli" \in Procs /\ "app" \in Procs /\ UpgradeTyped /\ exe \in Nat /\ prev \in Nat
  BY DEF UpgradeInv, UpgradeTyped, Flows, Procs
<1>1. UNCHANGED <<exe, prev, unit, job, held, svc, quality, latest>>
  BY DEF StartUpdate, StartRollback, StartInstall, Fixed, jobVars, files
<1>2. CASE StartUpdate
  <2>1. Free("cli") /\ Starts("cli", "fetch", "update", 0, exe)
    BY <1>2 DEF StartUpdate
  <2>0. Begun("cli", "fetch", "update", exe)
    BY <1>0, <2>1, Begins
  <2>2. /\ flow' \in [Procs -> Flows] /\ flow'["app"] = flow["app"]
        /\ flow'["cli"].pc = "fetch" /\ flow'["cli"].phase = "update" /\ flow'["cli"].wrong = 0
        /\ flow'["cli"].keep = exe /\ flow'["cli"].created = FALSE
        /\ flow'["cli"].ran = TRUE => unit = TRUE /\ job = "loaded" /\ Healthy
    BY <1>0, <2>0 DEF Begun
  <2>3. Phased' /\ Placed' /\ Current' /\ Faulty' /\ UpgradeTyped'
    BY <1>0, <1>1, <2>2 DEF UpgradeInv, UpgradeTyped, Phased, Placed, Current, Faulty, InHand, Replacing, Checking, Installing, Returning
  <2>4. Served'
    BY <1>0, <1>1, <2>1, <2>2 DEF UpgradeInv, Served, Free, Healthy
  <2> QED
    BY <2>3, <2>4 DEF UpgradeInv
<1>3. CASE StartRollback
  <2>1. Free("cli") /\ Starts("cli", "unseat", "rollback", 0, prev)
    BY <1>3 DEF StartRollback
  <2>0. Begun("cli", "unseat", "rollback", prev)
    BY <1>0, <2>1, Begins
  <2>2. /\ flow' \in [Procs -> Flows] /\ flow'["app"] = flow["app"]
        /\ flow'["cli"].pc = "unseat" /\ flow'["cli"].phase = "rollback" /\ flow'["cli"].wrong = 0
        /\ flow'["cli"].keep = prev
    BY <1>0, <2>0 DEF Begun
  <2>3. Phased' /\ Placed' /\ Current' /\ Faulty' /\ UpgradeTyped'
    BY <1>0, <1>1, <2>2 DEF UpgradeInv, UpgradeTyped, Phased, Placed, Current, Faulty, InHand, Replacing, Checking, Installing, Returning
  <2>4. Served'
    BY <1>0, <1>1, <2>1, <2>2 DEF UpgradeInv, Served, Free
  <2> QED
    BY <2>3, <2>4 DEF UpgradeInv
<1>4. CASE StartInstall("cli")
  <2>1. Free("cli") /\ Starts("cli", "write", "install", 0, 0)
    BY <1>4 DEF StartInstall
  <2>0. Begun("cli", "write", "install", 0)
    BY <1>0, <2>1, Begins
  <2>2. /\ flow' \in [Procs -> Flows] /\ flow'["app"] = flow["app"]
        /\ flow'["cli"].pc = "write" /\ flow'["cli"].phase = "install" /\ flow'["cli"].wrong = 0
    BY <1>0, <2>0 DEF Begun
  <2>3. Phased' /\ Placed' /\ Current' /\ Faulty' /\ UpgradeTyped'
    BY <1>0, <1>1, <2>2 DEF UpgradeInv, UpgradeTyped, Phased, Placed, Current, Faulty, InHand, Replacing, Checking, Installing, Returning
  <2>4. Served'
    BY <1>0, <1>1, <2>1, <2>2 DEF UpgradeInv, Served, Free
  <2> QED
    BY <2>3, <2>4 DEF UpgradeInv
<1>5. CASE StartInstall("app")
  <2>1. Free("app") /\ Starts("app", "write", "install", 0, 0)
    BY <1>5 DEF StartInstall
  <2>0. Begun("app", "write", "install", 0)
    BY <1>0, <2>1, Begins
  <2>2. /\ flow' \in [Procs -> Flows] /\ flow'["cli"] = flow["cli"]
        /\ flow'["app"].pc = "write" /\ flow'["app"].phase = "install"
    BY <1>0, <2>0 DEF Begun
  <2>3. Phased' /\ Placed' /\ Current' /\ Faulty' /\ UpgradeTyped'
    BY <1>0, <1>1, <2>2 DEF UpgradeInv, UpgradeTyped, Phased, Placed, Current, Faulty, InHand, Replacing, Checking, Installing, Returning
  <2>4. Served'
    BY <1>0, <1>1, <2>1, <2>2 DEF UpgradeInv, Served, Free
  <2> QED
    BY <2>3, <2>4 DEF UpgradeInv
<1> QED
  BY <1>2, <1>3, <1>4, <1>5

\* The platform, the commands of one call and a login leave the images alone.
LEMMA Elsewhere ==
  ASSUME UpgradeInv, Publish \/ ServiceCommand \/ PlatformStep \/ LogsIn
  PROVE  UpgradeInv' /\ flow' = flow
<1> USE DEF Cli, App
<1>1. UNCHANGED <<exe, prev, flow, quality>>
  BY DEF Publish, ServiceCommand, PlatformStep, LogsIn, Fixed, files
<1>2. latest' \in Nat
  BY DEF UpgradeInv, UpgradeTyped, Publish, ServiceCommand, PlatformStep, LogsIn, Fixed
<1>3. unit' \in BOOLEAN
  BY DEF UpgradeInv, UpgradeTyped, Publish, ServiceCommand, PlatformStep, LogsIn, jobVars, Start, DarwinStart, LinuxStart,
         WindowsStart, Restart, Stop, KillJob, StopUnit, EndTask, Remove, DarwinRemove, LinuxRemove, WindowsRemove,
         Unloaded, KeepAlive, Login
<1>4. UpgradeTyped' /\ Phased' /\ Placed' /\ Faulty'
  BY <1>1, <1>2, <1>3 DEF UpgradeInv, UpgradeTyped, Phased, Placed, Faulty
<1>5. CASE Publish
  BY <1>1, <1>4, <1>5 DEF UpgradeInv, Publish, jobVars, Current, Served
<1>6. CASE ServiceCommand
  BY <1>1, <1>4, <1>6 DEF UpgradeInv, ServiceCommand, Free, At, Current, Served
<1>7. CASE PlatformStep
  BY <1>1, <1>4, <1>7 DEF UpgradeInv, PlatformStep, Unloaded, KeepAlive, Started, Current, Served
<1>8. CASE LogsIn
  BY <1>1, <1>4, <1>8 DEF UpgradeInv, LogsIn, At, Procs, Current, Served
<1> QED
  BY <1>1, <1>5, <1>6, <1>7, <1>8

\* The invariant is inductive.
LEMMA UpgradeInvStep == UpgradeInv /\ [Next]_vars => UpgradeInv'
<1> SUFFICES ASSUME UpgradeInv, [Next]_vars PROVE UpgradeInv'
  OBVIOUS
<1>1. CASE UNCHANGED vars
  BY <1>1 DEF vars, UpgradeInv, UpgradeTyped, Phased, Placed, Current, Faulty, Served, Cli, App
<1>2. CASE Publish \/ ServiceCommand \/ PlatformStep \/ LogsIn
  BY <1>2, Elsewhere
<1>3. CASE StartUpdate \/ StartRollback \/ \E p \in Procs : StartInstall(p)
  BY <1>3, Starting DEF Procs
<1>4. CASE \E p \in Procs : Crash(p)
  BY <1>4, Crashes
<1>5. CASE Step("cli")
  BY <1>5, CliReplaces, CliChecks, CliInstalls DEF Step
<1>6. CASE Step("app")
  BY <1>6, AppInstalls
<1> QED
  BY <1>1, <1>2, <1>3, <1>4, <1>5, <1>6 DEF Next, Procs

LEMMA UpgradeInvInit == Init => UpgradeInv
<1> SUFFICES ASSUME Init PROVE UpgradeInv
  OBVIOUS
<1>1. flow = [p \in Procs |-> Idle] /\ flow["cli"] = Idle /\ flow["app"] = Idle
  BY DEF Init, Procs
<1>2. UpgradeTyped
  BY <1>1, IdleTyped DEF Init, ServiceInit, UpgradeTyped
<1> QED
  BY <1>1, <1>2, IdleTyped DEF UpgradeInv, Phased, Placed, Current, Faulty, Served, Cli, App

LEMMA UpgradeInvAlways == Spec => []UpgradeInv
<1> QED
  BY UpgradeInvInit, UpgradeInvStep, PTL DEF Spec

-----------------------------------------------------------------------------
\* The theorems.

\* The image a command replaces or rolls back to (Apply, Rollback and what they
\* restore) is on disk at every moment of the command and after it.
THEOREM ImageKept == Spec => []ReplacedImageKept
<1>1. UpgradeInv => ReplacedImageKept
  <2> SUFFICES ASSUME UpgradeInv, Cli.phase \in {"update", "undo", "rollback"} PROVE Cli.keep \in {exe, prev}
    BY DEF ReplacedImageKept, OnDisk, Cli
  <2>1. Cli.pc \in Pcs
    BY DEF UpgradeInv, UpgradeTyped, Flows, Procs, Cli, Pcs
  <2> QED
    BY <2>1 DEF UpgradeInv, Phased, Placed, InHand, Replacing, Returning, Checking, Installing, Pcs
<1> QED
  BY <1>1, UpgradeInvAlways, PTL

\* Where the command can end with an answer, and what is so there.
LEMMA Answers ==
  ASSUME UpgradeInv, [Next]_vars, NEW result \in {"ok", "failed"}, CommandEnds(result)
  PROVE  Step("cli")
<1> USE DEF CommandEnds, At, Cli
<1>1. CASE UNCHANGED vars
  BY <1>1 DEF vars
<1>2. CASE Publish \/ ServiceCommand \/ PlatformStep \/ LogsIn
  BY <1>2, Elsewhere
<1>3. CASE StartUpdate \/ StartRollback \/ StartInstall("cli")
  BY <1>3 DEF StartUpdate, StartRollback, StartInstall, Free
<1>4. CASE StartInstall("app")
  <2>1. Begun("app", "write", "install", 0)
    BY <1>4, Begins DEF StartInstall, Procs
  <2> QED
    BY <2>1 DEF Begun, Procs
<1>5. CASE \E p \in Procs : Crash(p)
  BY <1>5, Crashes
<1>6. CASE Step("app")
  BY <1>6, AppInstalls
<1> QED
  BY <1>1, <1>2, <1>3, <1>4, <1>5, <1>6 DEF Next, Procs

\* A command that reports success and met no error (activateUpdatedExecutable,
\* restartInstalledService) leaves an installed service on the image on disk,
\* whatever the application does beside it.
THEOREM ServiceUpdated == Spec => UpdatedServiceRuns
<1>1. ASSUME UpgradeInv, [Next]_vars, CommandEnds("ok"), Cli'.wrong = 0, Cli'.phase \in {"update", "rollback"}, unit
      PROVE  svc' = exe'
  <2>0. "cli" \in Procs /\ UpgradeTyped /\ Cli.wrong \in Nat
    BY <1>1 DEF UpgradeInv, UpgradeTyped, Flows, Procs, Cli
  <2>1. Step("cli")
    BY <1>1, Answers
  <2> USE DEF CommandEnds, At, Cli
  <2>2. CASE \/ Fetch("cli") \/ Stage("cli") \/ Download("cli") \/ Preserve("cli") \/ MoveAside("cli") \/ Activate("cli") \/ Sync("cli")
             \/ Park("cli") \/ Revert("cli") \/ Reprev("cli") \/ Unseat("cli") \/ Reseat("cli") \/ SyncBack("cli")
    BY <1>1, <2>0, <2>2, Replaces, Restores DEF Going, Ended, After
  <2>3. CASE WriteDefinition("cli") \/ Clear("cli") \/ Load("cli") \/ StartJob("cli")
    <3>1. CallMade("cli")
      BY <2>0, <2>3, Calls
    <3> QED
      BY <1>1, <2>0, <3>1 DEF CallMade, Going, GivenUp, Ended, After
  <2>4. CASE Validate("cli") \/ Status("cli")
    BY <1>1, <2>0, <2>4, Checks DEF Going, GivenUp, Ended, After
  <2>5. CASE AwaitHealth("cli")
    <3>1. Healthy /\ SameFiles /\ SameJob /\ Cli.pc = "health"
      BY <1>1, <2>0, <2>5, Checks DEF GivenUp, Ended, After
    <3> QED
      BY <1>1, <3>1 DEF UpgradeInv, Current, Healthy, SameFiles, SameJob
  <2> QED
    BY <2>1, <2>2, <2>3, <2>4, <2>5 DEF Step
<1>2. UpgradeInv /\ [Next]_vars
      => [CommandEnds("ok") /\ flow'["cli"].wrong = 0 /\ flow'["cli"].phase \in {"update", "rollback"} /\ unit => svc' = exe']_vars
  BY <1>1 DEF Cli
<1> QED
  BY <1>2, UpgradeInvAlways, PTL DEF Spec, UpdatedServiceRuns

\* An update that meets one failure (a rename, a flush, a tool call, an image that
\* does not run or serve) ends with the executable it found and, where a healthy
\* service was installed, with a healthy service; provided that nothing else
\* reinstalls the service meanwhile.
THEOREM UpdateUndone == ASSUME ~Overlap PROVE Spec => FailedUpdateUndone
<1>1. ASSUME UpgradeInv, [Next]_vars, CommandEnds("failed"), Cli'.phase \in {"update", "undo"}, Cli'.wrong <= 1
      PROVE  exe' = Cli.keep /\ (Cli.ran => unit' /\ svc' # 0 /\ quality[svc'] = "good")
  <2>0. "cli" \in Procs /\ UpgradeTyped /\ Cli.wrong \in Nat /\ Cli.ran \in BOOLEAN /\ Cli.pc # "idle"
    BY <1>1 DEF UpgradeInv, UpgradeTyped, Flows, Procs, Cli, CommandEnds, At
  <2>1. Step("cli")
    BY <1>1, Answers
  <2>2. ASSUME Cli.phase = "update", exe' = exe, SameJob, Cli.pc \in InHand
        PROVE  exe' = Cli.keep /\ (Cli.ran => unit' /\ svc' # 0 /\ quality[svc'] = "good")
    BY <1>1, <2>0, <2>2 DEF UpgradeInv, Placed, Served, SameJob, InHand, Replacing
  <2>3. ASSUME Cli.phase = "undo", SameFiles, SameJob, Cli.pc \in Checking, unit = FALSE \/ Healthy
        PROVE  exe' = Cli.keep /\ (Cli.ran => unit' /\ svc' # 0 /\ quality[svc'] = "good")
    BY <1>1, <2>0, <2>3 DEF UpgradeInv, Placed, Served, SameFiles, SameJob, Healthy
  <2> USE DEF CommandEnds, At, Cli
  <2>4. CASE \/ Fetch("cli") \/ Stage("cli") \/ Download("cli") \/ Preserve("cli") \/ MoveAside("cli") \/ Activate("cli") \/ Sync("cli")
    <3>1. exe' = exe /\ SameJob /\ Cli'.phase = Cli.phase /\ Cli.pc \in InHand
      BY <1>1, <2>0, <2>4, Replaces DEF Going, Ended, After, SameFiles, InHand
    <3>2. Cli.phase = "update"
      BY <1>1, <3>1 DEF UpgradeInv, Phased, InHand, Returning, Checking, Installing
    <3> QED
      BY <2>2, <3>1, <3>2
  <2>5. CASE Park("cli") \/ Revert("cli") \/ Reprev("cli")
    <3>1. Cli'.phase = Cli.phase /\ Cli.pc \in {"park", "revert", "reprev"} /\ SameJob
      BY <2>0, <2>5, Restores DEF Going, Ended, After
    <3>2. Cli.phase = "update" /\ Cli.wrong = 1
      BY <1>1, <3>1 DEF UpgradeInv, Phased, Faulty, Returning, Checking, Installing
    <3>3. exe' = exe /\ Cli.pc = "reprev"
      BY <1>1, <2>0, <2>5, <3>2, Restores DEF Going, Ended, After
    <3> QED
      BY <2>2, <3>1, <3>2, <3>3 DEF InHand
  <2>6. CASE Unseat("cli") \/ Reseat("cli") \/ SyncBack("cli")
    <3>1. Cli'.phase = Cli.phase /\ Cli'.wrong = Cli.wrong + 1 /\ Cli.pc \in Returning
      <4>1. Ended("cli", "failed", Cli.wrong + 1) /\ Cli.pc \in Returning
        BY <1>1, <2>0, <2>6, Restores DEF Going, After, Returning
      <4> QED
        BY <4>1 DEF Ended, After
    <3>2. Cli.phase = "undo"
      BY <1>1, <3>1 DEF UpgradeInv, Phased, Replacing, Returning, Checking, Installing
    <3>3. Cli.wrong = 1
      BY <1>1, <2>0, <3>2 DEF UpgradeInv, Faulty
    <3> QED
      BY <1>1, <3>1, <3>3
  <2>7. CASE Validate("cli") \/ AwaitHealth("cli") \/ WriteDefinition("cli") \/ Clear("cli") \/ Load("cli") \/ StartJob("cli")
    <3>1. \/ GivenUp("cli")
          \/ AwaitHealth("cli") /\ Healthy /\ Ended("cli", Result("cli"), Cli.wrong)
      <4>1. CASE Validate("cli") \/ AwaitHealth("cli")
        BY <1>1, <2>0, <4>1, Checks DEF Going, After
      <4>2. CASE WriteDefinition("cli") \/ Clear("cli") \/ Load("cli") \/ StartJob("cli")
        BY <1>1, <2>0, <4>2, Calls DEF CallMade, Going, Ended, After
      <4> QED
        BY <2>7, <4>1, <4>2
    <3>2. CASE GivenUp("cli")
      <4>1. Cli.phase = "undo" /\ Cli'.wrong = Cli.wrong + 1
        BY <1>1, <2>0, <3>2 DEF GivenUp, Ended, After
      <4>2. Cli.wrong = 1
        BY <1>1, <2>0, <4>1 DEF UpgradeInv, Faulty
      <4> QED
        BY <1>1, <4>1, <4>2
    <3>3. CASE AwaitHealth("cli") /\ Healthy /\ Ended("cli", Result("cli"), Cli.wrong)
      <4>1. Cli.phase = "undo"
        BY <1>1, <3>3 DEF Ended, After, Result
      <4>2. SameFiles /\ SameJob /\ Cli.pc \in Checking
        BY <2>0, <3>3, Checks DEF Checking
      <4> QED
        BY <2>3, <3>3, <4>1, <4>2
    <3> QED
      BY <3>1, <3>2, <3>3
  <2>8. CASE Status("cli")
    <3>1. SameFiles /\ SameJob /\ Cli.pc \in Checking /\ Cli.pc = "status"
      BY <2>0, <2>8, Checks DEF Checking
    <3>2. \/ unit = FALSE /\ Ended("cli", Result("cli"), Cli.wrong)
          \/ Ended("cli", Result("cli"), Cli.wrong + 1)
      BY <1>1, <2>0, <2>8, Checks DEF Going, After
    <3>3. Cli.phase = "undo"
      BY <1>1, <3>2 DEF Ended, After, Result
    <3>4. Cli.wrong = 1
      BY <1>1, <2>0, <3>3 DEF UpgradeInv, Faulty
    <3>5. unit = FALSE
      BY <1>1, <3>2, <3>4 DEF Ended, After
    <3> QED
      BY <2>3, <3>1, <3>3, <3>5
  <2> QED
    BY <2>1, <2>4, <2>5, <2>6, <2>7, <2>8 DEF Step
<1>2. ASSUME UpgradeInv, [Next]_vars
      PROVE  [LET f == flow["cli"]
                  g == flow'["cli"]
              IN CommandEnds("failed") /\ g.phase \in {"update", "undo"} /\ g.wrong <= 1
                   => exe' = f.keep /\ (f.ran => unit' /\ svc' # 0 /\ quality[svc'] = "good")]_vars
  BY <1>1, <1>2 DEF Cli
<1> QED
  BY <1>2, UpgradeInvAlways, PTL DEF Spec, FailedUpdateUndone
=============================================================================
