----------------------------- MODULE TreeWatch -----------------------------
(***************************************************************************)
(* The file watcher of the service (internal/watcher) over the ignore rules *)
(* of a repository (internal/git/ignores.go): which directories are         *)
(* registered with the operating system, the budget they are counted        *)
(* against, and the one debounce timer that starts a scan.                  *)
(*                                                                          *)
(* Directories are numbered in the order filepath.WalkDir visits them.      *)
(***************************************************************************)
EXTENDS Integers, FiniteSets

CONSTANTS
  Dirs,      \* directories that may exist
  Parent,    \* Parent[d] is the directory d lies in, or 0
  Repos,     \* the directories that are roots of repositories
  Ignored,   \* directories Git ignores, by snapshot or by check-ignore
  MaxDirs    \* maxWatchedDirectories

ASSUME TreeAssumption ==
  /\ Dirs \subseteq Nat \ {0} /\ IsFiniteSet(Dirs)
  /\ Parent \in [Dirs -> Dirs \cup {0}]
  /\ \A d \in Dirs : Parent[d] < d
  /\ Repos \subseteq Dirs
  /\ Ignored \subseteq Dirs \ Repos
  /\ MaxDirs \in Nat

VARIABLES
  onDisk,   \* directories that exist
  roots,    \* the keys of Watcher.roots
  list,     \* the operating system's watch list
  watched,  \* Watcher.watched: directories counted against MaxDirs
  created,  \* Create events of directories not handled yet
  timer     \* the debounce timer is armed

watchVars == <<onDisk, roots, list, watched, created, timer>>

\* d lies in directory a or is a.
Within[d \in Dirs, a \in Dirs] ==
  d = a \/ (Parent[d] # 0 /\ Parent[d] >= a /\ Within[Parent[d], a])

\* Prune and Ignored: Git ignores the directory or one above it in its tree.
Pruned(d) == \E a \in Ignored : Within[d, a]

\* ignorerFor finds rules for d: it lies in a registered root.
HasRules(d) == \E r \in roots : Within[d, r]

\* The directories filepath.WalkDir hands to addTree; without rules, all of them.
Walk(d, rules) == {e \in onDisk : Within[e, d] /\ (rules => ~Pruned(e))}

\* addTree registers what it visits until the budget is spent.
Registered(tree) ==
  {e \in tree : watched + Cardinality({f \in tree : f < e}) < MaxDirs}

\* A directory already on the watch list is counted again.
AddTree(tree) ==
  /\ list' = list \cup Registered(tree)
  /\ watched' = watched + Cardinality(Registered(tree))

WatchInit ==
  /\ onDisk = Repos
  /\ roots = {}
  /\ list = {}
  /\ watched = 0
  /\ created = {}
  /\ timer = FALSE

Add(r) ==
  /\ r \notin roots
  /\ roots' = roots \cup {r}
  /\ AddTree(Walk(r, TRUE))
  /\ UNCHANGED <<onDisk, created, timer>>

\* Mutant: the directories already gone are taken off the budget too.
RemoveCountsAll(r) ==
  /\ r \in roots
  /\ roots' = roots \ {r}
  /\ list' = {d \in list : ~Within[d, r]}
  /\ LET rest == watched - Cardinality({d \in Dirs : Within[d, r]})
     IN watched' = IF rest < 0 THEN 0 ELSE rest
  /\ UNCHANGED <<onDisk, created, timer>>

\* Remove: what is still on the watch list is released and given back.
Remove(r) ==
  /\ r \in roots
  /\ roots' = roots \ {r}
  /\ list' = {d \in list : ~Within[d, r]}
  /\ LET rest == watched - Cardinality({d \in list : Within[d, r]})
     IN watched' = IF rest < 0 THEN 0 ELSE rest
  /\ UNCHANGED <<onDisk, created, timer>>

\* A directory appears; its parent's watch reports it.
MakeDir(d) ==
  /\ d \notin onDisk
  /\ Parent[d] \in onDisk
  /\ onDisk' = onDisk \cup {d}
  /\ created' = IF Parent[d] \in list THEN created \cup {d} ELSE created
  /\ UNCHANGED <<roots, list, watched, timer>>

\* A tree is deleted: the operating system drops its watches and reports it.
RemoveDir(d) ==
  /\ d \in onDisk \ Repos
  /\ onDisk' = {e \in onDisk : ~Within[e, d]}
  /\ list' = {e \in list : ~Within[e, d]}
  /\ timer' = (timer \/ \E e \in list : Within[e, d] \/ e = Parent[d])
  /\ UNCHANGED <<roots, watched, created>>

\* Run handles a Create event: watch the new tree, unless it is ignored or gone,
\* and schedule a scan.
HandleCreated(d) ==
  /\ d \in created
  /\ created' = created \ {d}
  /\ timer' = TRUE
  /\ IF d \in onDisk THEN AddTree(Walk(d, HasRules(d))) ELSE UNCHANGED <<list, watched>>
  /\ UNCHANGED <<onDisk, roots>>

\* Every other event of a watched directory.
Schedule == timer' = TRUE

\* Run returns: the watch list is closed with the process.
WatchStop ==
  /\ roots' = {} /\ list' = {} /\ watched' = 0 /\ created' = {} /\ timer' = FALSE
  /\ UNCHANGED onDisk

WatchTypeOK ==
  /\ onDisk \subseteq Dirs
  /\ roots \subseteq Repos
  /\ list \subseteq onDisk
  /\ watched \in Nat
  /\ created \subseteq Dirs
  /\ timer \in BOOLEAN

\* maxWatchedDirectories "caps how many directories one Watcher will register":
\* trees that come and go, are added again, released or run into the cap never
\* leave more watches than the budget counts, nor more than the cap allows.
DescriptorBudget ==
  /\ Cardinality(list) <= watched
  /\ watched <= MaxDirs

=============================================================================
