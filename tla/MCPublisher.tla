---------------------------- MODULE MCPublisher ----------------------------
(***************************************************************************)
(* Small instances of Publisher.  Workspaces are numbers; a and b are       *)
(* backends, p and q Projects.                                              *)
(***************************************************************************)
EXTENDS PublisherRefines

CONSTANTS a, b, p, q

OneProject == [w \in Workspaces |-> p]
LastInItsOwn == [w \in Workspaces |-> IF w + 1 \in Workspaces THEN p ELSE q]
RootEach == [w \in Workspaces |-> w]

\* Workspace 2 is a re-enrollment of workspace 1's repository.
Reenrolled == [w \in Workspaces |-> IF w = 2 THEN 1 ELSE w]

\* Workspace 1 enrolled on backend a.
OneEnrolled == AddToConfig(EmptyConfig, 1, a)

\* The first workspaces on backend b, the last one on backend a.
LastOnItsOwn ==
  [known |-> {a, b}, bind |-> [x \in Projects |-> IF x = p THEN b ELSE a], ws |-> Workspaces]

=============================================================================
