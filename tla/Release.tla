------------------------------ MODULE Release ------------------------------
(***************************************************************************)
(* The release of one platform (.github/workflows/build.yaml,              *)
(* build-platform.yaml, prune-nix-cache.yaml): runs discover what the Nix  *)
(* cache does not have, build it, push its closure into the cache and      *)
(* publish the artifact under a tag that later runs overwrite.  Nothing    *)
(* keeps runs apart, and a push to any branch starts one.                  *)
(*                                                                         *)
(* A commit gives every package an outPath, named here together with the   *)
(* snapshot of its flake.lock, under which the cache has it.  What a push  *)
(* and a prune do to the cache in detail is in CacheStore.                 *)
(***************************************************************************)
EXTENDS Naturals, FiniteSets

CONSTANTS
  Package,
  PushExcluded,   \* push_exclude_pkgs
  Last,           \* bound: the commits of the default branch are 1..Last
  Side,           \* commits pushed to other branches, as numbers after Last
  OutPath,        \* OutPath[c][p]
  Run,            \* workflow runs that can be in progress at a time
  MaxFailures,    \* bound: jobs that fail or are cancelled
  MaxDispatches   \* bound: runs started by hand

Main == 1..Last
Commit == Main \cup Side
Paths == {OutPath[c][p] : c \in Commit, p \in Package}

\* A package's name is part of its outPath (lib/make-artifacts.nix:12), so that
\* no other package can put it into the cache.
ASSUME ReleaseAssumption ==
  /\ PushExcluded \subseteq Package
  /\ \A p, q \in Package, c, d \in Commit : OutPath[c][p] = OutPath[d][q] => p = q
  /\ Side \subseteq Nat /\ \A c \in Side : c > Last
  /\ {Last, MaxFailures, MaxDispatches} \subseteq Nat

VARIABLES
  head,        \* the last commit of the default branch
  run,         \* run[r]: [commit, job], job[p] the step that p is at
  cache,       \* the outPaths a probe finds
  artifact,    \* artifact[p]: the commit whose build of p is published
  failures, dispatches,
  sidePushed,  \* history: commits of other branches pushed so far
  overlapped   \* history: whether a run began while another was in progress

vars == <<head, run, cache, artifact, failures, dispatches, sidePushed, overlapped>>

Free == [commit |-> 0, job |-> [p \in Package |-> "none"]]
Active == {r \in Run : run[r] # Free}

Init ==
  /\ head = 0 /\ run = [r \in Run |-> Free]
  /\ cache = {} /\ artifact = [p \in Package |-> 0]
  /\ failures = 0 /\ dispatches = 0
  /\ sidePushed = {} /\ overlapped = FALSE

-----------------------------------------------------------------------------
(* Triggers (build.yaml:3-36) and the choice of what to build. *)

\* A run of commit c for the packages ps, whose jobs begin at the given step:
\* at the probe of discover, or at the build if discover is skipped or told not
\* to filter.
Starts(c, ps, step) ==
  \E r \in Run \ Active :
    /\ run' = [run EXCEPT ![r] =
                [commit |-> c, job |-> [p \in Package |-> IF p \in ps THEN step ELSE "none"]]]
    /\ overlapped' = (overlapped \/ Active # {})
    /\ UNCHANGED <<cache, artifact, failures>>

Push ==
  /\ head < Last
  /\ head' = head + 1
  /\ Starts(head + 1, Package \ PushExcluded, "probe")
  /\ UNCHANGED <<dispatches, sidePushed>>

\* "on: push" names no branch.
PushSide(c) ==
  /\ c \in Side \ sidePushed
  /\ sidePushed' = sidePushed \cup {c}
  /\ Starts(c, Package \ PushExcluded, "probe")
  /\ UNCHANGED <<head, dispatches>>

\* Every week, without looking at the cache.
Filtered == "probe"  \* mutant
ScheduledStep == "queued"
OneBehind == IF head > 1 THEN head - 1 ELSE head  \* mutant
ScheduledCommit == head

Schedule ==
  /\ head > 0
  /\ Starts(ScheduledCommit, Package, ScheduledStep)
  /\ UNCHANGED <<head, dispatches, sidePushed>>

\* All packages, filtered or not, or a single one.
Dispatch ==
  /\ head > 0 /\ dispatches < MaxDispatches
  /\ dispatches' = dispatches + 1
  /\ \/ \E step \in {"probe", "queued"} : Starts(head, Package, step)
     \/ \E p \in Package : Starts(head, {p}, "queued")
  /\ UNCHANGED <<head, sidePushed>>

-----------------------------------------------------------------------------
(* build-platform.yaml *)

Path(r, p) == OutPath[run[r].commit][p]
At(r, step) == {p \in Package : run[r].job[p] = step}
Moves(r, p, step) == run' = [run EXCEPT ![r].job[p] = step]
Outside == <<head, dispatches, sidePushed, overlapped>>

\* discover: the server of the job answers from the cache.
Probe(r, p) ==
  /\ p \in At(r, "probe")
  /\ Moves(r, p, IF Path(r, p) \in cache THEN "hit" ELSE "queued")
  /\ UNCHANGED <<Outside, cache, artifact, failures>>

\* A probe that fails otherwise, or an evaluation that does, fails the job that
\* all builds need.
DiscoverFails(r) ==
  /\ At(r, "probe") # {} /\ failures < MaxFailures
  /\ failures' = failures + 1
  /\ run' = [run EXCEPT ![r] = Free]
  /\ UNCHANGED <<Outside, cache, artifact>>

\* build: each package in a job of its own, once discover is over.
Build(r, p) ==
  /\ p \in At(r, "queued") /\ At(r, "probe") = {}
  /\ Moves(r, p, "built")
  /\ UNCHANGED <<Outside, cache, artifact, failures>>

PushClosure(r, p) ==
  /\ p \in At(r, "built")
  /\ Moves(r, p, "cached")
  /\ cache' = cache \cup {Path(r, p)}
  /\ UNCHANGED <<Outside, artifact, failures>>

\* oras push to <name>-<suffix>, whatever is there.
OnlyIfFirst(r, p) ==  \* mutant
  IF artifact[p] = 0 THEN run[r].commit ELSE artifact[p]
Published(r, p) == run[r].commit

Publish(r, p) ==
  /\ p \in At(r, "cached")
  /\ Moves(r, p, "done")
  /\ artifact' = [artifact EXCEPT ![p] = Published(r, p)]
  /\ UNCHANGED <<Outside, cache, failures>>

\* A job fails or is cancelled between two steps; the others go on (fail-fast).
JobFails(r, p) ==
  /\ p \in At(r, "queued") \cup At(r, "built") \cup At(r, "cached")
  /\ At(r, "probe") = {} /\ failures < MaxFailures
  /\ failures' = failures + 1
  /\ Moves(r, p, "failed")
  /\ UNCHANGED <<Outside, cache, artifact>>

EndRun(r) ==
  /\ r \in Active
  /\ \A p \in Package : run[r].job[p] \in {"none", "hit", "done", "failed"}
  /\ run' = [run EXCEPT ![r] = Free]
  /\ UNCHANGED <<Outside, cache, artifact, failures>>

-----------------------------------------------------------------------------
\* prune-nix-cache.yaml: the cache forgets paths.  Which ones is in Retention;
\* here it may be any.
Prune ==
  /\ \E x \in cache : cache' = cache \ {x}
  /\ UNCHANGED <<head, run, artifact, failures, dispatches, sidePushed, overlapped>>

RunStep(r) ==
  \/ \E p \in Package : Probe(r, p) \/ Build(r, p) \/ PushClosure(r, p) \/ Publish(r, p)
  \/ EndRun(r)

Next ==
  \/ Push \/ Schedule \/ Dispatch \/ Prune
  \/ \E c \in Side : PushSide(c)
  \/ \E r \in Run : RunStep(r) \/ DiscoverFails(r) \/ \E p \in Package : JobFails(r, p)

Spec == Init /\ [][Next]_vars

\* Runners pick jobs up, jobs end (by the limit of the runner at worst), and
\* the weekly run comes.
FairSpec == Spec /\ WF_vars(Schedule) /\ \A r \in Run : WF_vars(RunStep(r))

-----------------------------------------------------------------------------
(* Properties. *)

Current(p) == artifact[p] # 0 /\ head # 0 /\ OutPath[artifact[p]][p] = OutPath[head][p]

\* A package came back to an outPath it had before another one.
Reverted(p) ==
  \E a, b, c \in 1..head : a < b /\ b < c /\ OutPath[a][p] = OutPath[c][p]
                                          /\ OutPath[b][p] # OutPath[c][p]

\* Skipping what the cache has is right: when no run is in progress, the
\* published artifact of a package is that of the last commit, unless a job
\* failed, runs overlapped, another branch was pushed, or the package was
\* reverted (build-platform.yaml:117-146, docs/release-model.md:42-43).
QuietMeansCurrent ==
  Active = {} /\ head > 0 /\ failures = 0 /\ ~overlapped /\ sidePushed = {} =>
    \A p \in Package \ PushExcluded : Current(p) \/ Reverted(p)

\* An artifact is only replaced by that of an older commit if runs overlapped
\* or another branch was published (build-platform.yaml:256-262).
NoGoingBackInOrder ==
  [][\A p \in Package :
       artifact'[p] < artifact[p] => overlapped \/ artifact[p] \in Side]_vars

\* However runs overlapped, failed between the cache and the artifact, skipped
\* what had been reverted, or published another branch: once pushes and failures
\* are over, every artifact becomes and stays that of the last commit, by the
\* weekly run (build.yaml:35-36, build-platform.yaml:139-140).
ArtifactsCatchUp == <>[](head > 0) => <>[](\A p \in Package : Current(p))
=============================================================================
