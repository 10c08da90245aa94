--------------------------- MODULE MCObservation ---------------------------
\* Small instances of Observation: a repository with one subdirectory, a second
\* repository that competes for watches, and an ignored directory in it.
EXTENDS Observation

TwoRepos == [d \in Dirs |-> IF d = 2 THEN 1 ELSE IF d = 4 THEN 3 ELSE 0]
InSubdirectory == [f \in Files |-> f]
BodyThenSurface == [c \in Contents |-> c \div 2]
=============================================================================
