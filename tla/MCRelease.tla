----------------------------- MODULE MCRelease ------------------------------
(* One package over three commits in which it is changed and reverted, and a  *)
(* commit of another branch.  The packages of a run share nothing: each has   *)
(* its own job, its own outPaths and its own artifact.                        *)
EXTENDS Release

CONSTANTS a, r1, r2

TwoRuns == {r1, r2}
None == {}
AnotherBranch == {4}

\* The package goes 1, 2, 1, and is something else on the other branch.
MCOutPath == [c \in 1..4 |-> [p \in {a} |-> IF c = 3 THEN 1 ELSE c]]
=============================================================================
