----------------------------- MODULE MCDesktop -----------------------------
(***************************************************************************)
(* The state calls and the pages of the window share only the environment, *)
(* which may do in each part whatever the other part does to it: they are  *)
(* explored one at a time, beside the local backend alone, and the state   *)
(* calls of one caller beside a team server as well.                       *)
(***************************************************************************)
EXTENDS Desktop

VARIABLE part

\* A team server, named first, and the local backend.
TeamFirst == <<"t", "l">>

MCInit ==
  /\ DesktopInit
  /\ part \in {"callers", "deadline", "window"}
  /\ device = [b \in Backends |-> IF b = Local \/ part = "deadline" THEN 1 ELSE 0]

\* Backends that play no part, and callers that do not call.
Away == IF part = "deadline" THEN {} ELSE Backends \ {Local}
Quiet == IF part = "deadline" THEN Callers \ {1} ELSE {}

MCNext ==
  /\ \/ EnvironmentNext
     \/ part # "window" /\ StateNext
     \/ part = "window" /\ WindowNext
  /\ \A b \in Away : device'[b] = 0 /\ b \in env'.up /\ \A i \in Opens : opens'[i].of # b
  /\ \A c \in Quiet : calls'[c] = NoCall
  /\ UNCHANGED part

mcvars == <<desktopVars, part>>

InState(A) == part # "window" /\ A /\ UNCHANGED part
InWindow(A) == part = "window" /\ A /\ UNCHANGED part

MCSpec ==
  /\ MCInit /\ [][MCNext]_mcvars
  /\ WF_mcvars(ServiceStarts /\ UNCHANGED part)
  /\ \A c \in Callers : WF_mcvars(InState(CallStep(c)))
  /\ \A b \in Backends : WF_mcvars(InState(Lapse(b)))
  /\ WF_mcvars(InState(RestartEnsured)) /\ WF_mcvars(InState(RestartForgets))
  /\ WF_mcvars(InWindow(SendRequest))
  /\ WF_mcvars(InWindow(Attach)) /\ \A l \in 1..Links : WF_mcvars(InWindow(HandleLink(l)))
=============================================================================
