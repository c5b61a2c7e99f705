---------------------------- MODULE ReleaseProofs ----------------------------
(***************************************************************************)
(* What the release keeps however many packages, commits, branches and     *)
(* runs there are.                                                         *)
(***************************************************************************)
EXTENDS Release, TLAPS

Steps == {"none", "probe", "hit", "queued", "built", "cached", "done", "failed"}

Typed ==
  /\ head \in 0..Last
  /\ run \in [Run -> [commit : Nat, job : [Package -> Steps]]]
  /\ artifact \in [Package -> Nat]
  /\ failures \in Nat
  /\ overlapped \in BOOLEAN
  /\ sidePushed \subseteq Side

\* As long as no run began while another was in progress, the one in progress
\* is of the last commit, and so are the artifacts at most, those of other
\* branches apart.
InOrder ==
  /\ \A r, s \in Active : r = s
  /\ \A r \in Active : run[r].commit \in Side \cup {head}
  /\ \A p \in Package : artifact[p] \in Side \/ artifact[p] <= head
Ordered == ~overlapped => InOrder

Inv == Typed /\ Ordered

-----------------------------------------------------------------------------
(* How an action changes the runs. *)

\* A run with a job is one in progress.
LEMMA JobMeansActive ==
  ASSUME NEW r \in Run, NEW p \in Package, run[r].job[p] # "none"
  PROVE  r \in Active
BY DEF Active, Free

\* A job that goes on leaves the other runs and jobs alone.
LEMMA MovedRun ==
  ASSUME Typed, NEW r \in Run, NEW p \in Package, NEW step \in Steps \ {"none"},
         run[r].job[p] # "none", Moves(r, p, step)
  PROVE  /\ run' \in [Run -> [commit : Nat, job : [Package -> Steps]]]
         /\ r \in Active /\ Active' = Active
         /\ \A s \in Run : run'[s].commit = run[s].commit
         /\ run'[r].job[p] = step
         /\ \A s \in Run, q \in Package : (s # r \/ q # p) => run'[s].job[q] = run[s].job[q]
<1>1. run' = [run EXCEPT ![r].job[p] = step]
  BY DEF Moves
<1>2. run \in [Run -> [commit : Nat, job : [Package -> Steps]]]
  BY DEF Typed
<1>3. /\ run' \in [Run -> [commit : Nat, job : [Package -> Steps]]]
      /\ \A s \in Run : run'[s].commit = run[s].commit
      /\ run'[r].job[p] = step
      /\ \A s \in Run, q \in Package : (s # r \/ q # p) => run'[s].job[q] = run[s].job[q]
      /\ \A s \in Run \ {r} : run'[s] = run[s]
  BY <1>1, <1>2
<1>4. r \in Active /\ r \in Active'
  BY <1>3 DEF Active, Free
<1>5. Active' = Active
  BY <1>3, <1>4 DEF Active
<1> QED
  BY <1>3, <1>4, <1>5

\* A run that ends leaves the others alone.
LEMMA FreedRun ==
  ASSUME Typed, NEW r \in Run, run' = [run EXCEPT ![r] = Free]
  PROVE  /\ run' \in [Run -> [commit : Nat, job : [Package -> Steps]]]
         /\ Active' = Active \ {r}
         /\ \A s \in Run \ {r} : run'[s] = run[s]
<1>1. run \in [Run -> [commit : Nat, job : [Package -> Steps]]]
  BY DEF Typed
<1>2. Free \in [commit : Nat, job : [Package -> Steps]]
  BY DEF Free, Steps
<1> QED
  BY <1>1, <1>2 DEF Active

\* A run that begins takes a free place, and unless it overlaps it is alone.
LEMMA StartedRun ==
  ASSUME Typed, NEW c \in Nat \ {0}, NEW ps \in SUBSET Package,
         NEW step \in {"probe", "queued"}, Starts(c, ps, step)
  PROVE  /\ run' \in [Run -> [commit : Nat, job : [Package -> Steps]]]
         /\ overlapped' \in BOOLEAN
         /\ UNCHANGED <<cache, artifact, failures>>
         /\ ~overlapped' => ~overlapped /\ Active = {}
         /\ \E r \in Run :
              /\ Active' = Active \cup {r}
              /\ run'[r].commit = c
              /\ \A p \in Package : run'[r].job[p] = IF p \in ps THEN step ELSE "none"
<1>1. run \in [Run -> [commit : Nat, job : [Package -> Steps]]] /\ overlapped \in BOOLEAN
  BY DEF Typed
<1> DEFINE new == [commit |-> c, job |-> [p \in Package |-> IF p \in ps THEN step ELSE "none"]]
<1>2. PICK r \in Run \ Active : /\ run' = [run EXCEPT ![r] = new]
                                /\ overlapped' = (overlapped \/ Active # {})
                                /\ UNCHANGED <<cache, artifact, failures>>
  BY DEF Starts
<1>3. new \in [commit : Nat, job : [Package -> Steps]] /\ new.commit = c
      /\ \A p \in Package : new.job[p] = IF p \in ps THEN step ELSE "none"
  BY DEF Steps
<1>4. new # Free
  BY <1>3 DEF Free
<1> HIDE DEF new
<1>5. /\ run' \in [Run -> [commit : Nat, job : [Package -> Steps]]]
      /\ run'[r] = new /\ \A s \in Run \ {r} : run'[s] = run[s]
  BY <1>1, <1>2, <1>3
<1>6. Active' = Active \cup {r}
  BY <1>4, <1>5 DEF Active
<1> QED
  BY <1>1, <1>2, <1>3, <1>5, <1>6

\* The commits a run can be of.
LEMMA Commits == Last \in Nat /\ \A c \in Side : c \in Nat /\ c > Last
BY ReleaseAssumption

-----------------------------------------------------------------------------
\* What Inv says holds of no run and no artifact.
LEMMA InvInit == Init => Inv
<1> SUFFICES ASSUME Init PROVE Inv
  OBVIOUS
<1>1. Free \in [commit : Nat, job : [Package -> Steps]]
  BY DEF Free, Steps
<1>2. Typed
  <2>1. run \in [Run -> [commit : Nat, job : [Package -> Steps]]]
    BY <1>1 DEF Init
  <2>2. head \in 0..Last /\ artifact \in [Package -> Nat]
    BY Commits DEF Init
  <2> QED
    BY <2>1, <2>2 DEF Init, Typed
<1>3. Active = {}
  BY DEF Init, Active
<1>4. \A p \in Package : artifact[p] = 0 /\ head = 0
  BY DEF Init
<1> QED
  BY <1>2, <1>3, <1>4 DEF Inv, Ordered, InOrder

\* A run that begins keeps Inv, whatever started it.
LEMMA InvStarts ==
  ASSUME Inv, NEW c \in Nat \ {0}, NEW ps \in SUBSET Package,
         NEW step \in {"probe", "queued"}, Starts(c, ps, step),
         head' \in 0..Last, head' >= head, sidePushed' \subseteq Side,
         c \in Side \cup {head'}
  PROVE  Inv'
<1>1. Typed'
  BY StartedRun DEF Inv, Typed
<1>2. Ordered'
  <2> SUFFICES ASSUME ~overlapped' PROVE InOrder'
    BY DEF Ordered
  <2>1. ~overlapped /\ Active = {} /\ artifact' = artifact
    BY StartedRun DEF Inv
  <2>2. PICK r \in Run : Active' = {r} /\ run'[r].commit = c
    BY <2>1, StartedRun DEF Inv
  <2>3. \A p \in Package : artifact[p] \in Side \/ artifact[p] <= head'
    BY <2>1 DEF Inv, Typed, Ordered, InOrder
  <2> QED
    BY <2>1, <2>2, <2>3 DEF InOrder
<1> QED
  BY <1>1, <1>2 DEF Inv

\* The triggers start such runs.
LEMMA Triggers ==
  ASSUME Typed, Push \/ Schedule \/ Dispatch \/ \E c \in Side : PushSide(c)
  PROVE  \E c \in Nat \ {0}, ps \in SUBSET Package, step \in {"probe", "queued"} :
           /\ Starts(c, ps, step)
           /\ head' \in 0..Last /\ head' >= head /\ sidePushed' \subseteq Side
           /\ c \in Side \cup {head'}
<1>1. head \in 0..Last /\ Last \in Nat /\ sidePushed \subseteq Side
  BY Commits DEF Typed
<1>2. CASE Push
  BY <1>1, <1>2 DEF Push
<1>3. CASE Schedule
  BY <1>1, <1>3 DEF Schedule, ScheduledCommit, ScheduledStep
<1>4. CASE Dispatch
  <2>1. \/ \E step \in {"probe", "queued"} : Starts(head, Package, step)
        \/ \E p \in Package : Starts(head, {p}, "queued")
    BY <1>4 DEF Dispatch
  <2>2. head > 0 /\ head' = head /\ sidePushed' = sidePushed
    BY <1>4 DEF Dispatch
  <2>3. /\ head \in Nat \ {0} /\ head \in Side \cup {head'} /\ sidePushed' \subseteq Side
        /\ head' \in 0..Last /\ head' >= head
    BY <1>1, <2>2
  <2>4. \E ps \in SUBSET Package, step \in {"probe", "queued"} : Starts(head, ps, step)
    BY <2>1
  <2> QED
    BY <2>3, <2>4
<1>5. ASSUME NEW c \in Side, PushSide(c) PROVE
         \E d \in Nat \ {0}, ps \in SUBSET Package, step \in {"probe", "queued"} :
           /\ Starts(d, ps, step)
           /\ head' \in 0..Last /\ head' >= head /\ sidePushed' \subseteq Side
           /\ d \in Side \cup {head'}
  BY <1>1, <1>5, Commits DEF PushSide
<1> QED
  BY <1>2, <1>3, <1>4, <1>5

\* The steps of jobs that do not publish.
LEMMA InvMoves ==
  ASSUME Inv, NEW r \in Run, NEW p \in Package, NEW step \in Steps \ {"none"},
         run[r].job[p] # "none", Moves(r, p, step),
         UNCHANGED <<head, overlapped, sidePushed>>, failures' \in Nat,
         \/ artifact' = artifact
         \/ artifact' = [artifact EXCEPT ![p] = run[r].commit]
  PROVE  Inv'
<1>1. Typed /\ run[r].commit \in Nat /\ head \in Nat
  BY Commits DEF Inv, Typed
<1>2. Typed'
  BY <1>1, MovedRun DEF Typed
<1>3. r \in Active /\ Active' = Active /\ \A s \in Run : run'[s].commit = run[s].commit
  BY <1>1, MovedRun
<1>4. Ordered'
  BY <1>1, <1>3, Commits DEF Inv, Typed, Ordered, InOrder
<1> QED
  BY <1>2, <1>4 DEF Inv

\* A run that ends.
LEMMA InvFrees ==
  ASSUME Inv, NEW r \in Run, run' = [run EXCEPT ![r] = Free],
         UNCHANGED <<head, overlapped, sidePushed, artifact>>, failures' \in Nat
  PROVE  Inv'
<1>1. Typed
  BY DEF Inv
<1>2. Typed'
  BY <1>1, FreedRun DEF Typed
<1>3. Ordered'
  <2>1. \A s \in Active' : s \in Active /\ run'[s] = run[s]
    BY <1>1, FreedRun DEF Active
  <2> QED
    BY <2>1 DEF Inv, Ordered, InOrder
<1> QED
  BY <1>2, <1>3 DEF Inv

\* Every step keeps Inv.
LEMMA InvNext == Inv /\ [Next]_vars => Inv'
<1> SUFFICES ASSUME Inv, [Next]_vars PROVE Inv'
  OBVIOUS
<1>t. Typed /\ failures \in Nat
  BY DEF Inv, Typed
<1>1. CASE Push \/ Schedule \/ Dispatch \/ \E c \in Side : PushSide(c)
  BY <1>1, <1>t, Triggers, InvStarts
<1>2. CASE Prune
  BY <1>2 DEF Prune, Inv, Typed, Ordered, InOrder, Active
<1>3. ASSUME NEW r \in Run, NEW p \in Package,
             Probe(r, p) \/ Build(r, p) \/ PushClosure(r, p)
      PROVE  Inv'
  <2>1. PICK step \in Steps \ {"none"} : Moves(r, p, step)
    BY <1>3 DEF Probe, Build, PushClosure, Steps
  <2> QED
    BY <1>3, <1>t, <2>1, InvMoves DEF Probe, Build, PushClosure, At, Outside
<1>4. ASSUME NEW r \in Run, NEW p \in Package, Publish(r, p) PROVE Inv'
  BY <1>4, <1>t, InvMoves DEF Publish, Published, At, Outside, Steps
<1>5. ASSUME NEW r \in Run, NEW p \in Package, JobFails(r, p) PROVE Inv'
  BY <1>5, <1>t, InvMoves DEF JobFails, At, Outside, Steps
<1>6. ASSUME NEW r \in Run, EndRun(r) \/ DiscoverFails(r) PROVE Inv'
  BY <1>6, <1>t, InvFrees DEF EndRun, DiscoverFails, Outside
<1>7. CASE UNCHANGED vars
  BY <1>7 DEF vars, Inv, Typed, Ordered, InOrder, Active
<1> QED
  BY <1>1, <1>2, <1>3, <1>4, <1>5, <1>6, <1>7 DEF Next, RunStep

\* Runs that come one after the other never put an older artifact in the place
\* of a newer one (build-platform.yaml:256-262).
THEOREM ArtifactsMoveForward == Spec => NoGoingBackInOrder
<1>1. Inv /\ [Next]_vars =>
        [\A p \in Package : artifact'[p] < artifact[p] => overlapped \/ artifact[p] \in Side]_vars
  <2> SUFFICES ASSUME Inv, Next, NEW p \in Package, artifact'[p] < artifact[p], ~overlapped
               PROVE  artifact[p] \in Side
    BY DEF vars
  <2>1. artifact \in [Package -> Nat] /\ head \in 0..Last /\ Last \in Nat
    BY Commits DEF Inv, Typed
  <2>2. artifact' # artifact
    BY <2>1
  <2>3. PICK r \in Run, q \in Package : Publish(r, q)
    BY <2>2 DEF Next, RunStep, Push, Schedule, Dispatch, PushSide, Starts, Prune, Probe, Build,
                PushClosure, EndRun, DiscoverFails, JobFails
  <2>4. q = p /\ artifact'[p] = run[r].commit
    BY <2>1, <2>3 DEF Publish, Published
  <2>5. run[r].commit \in Side \cup {head}
    BY <2>3, JobMeansActive DEF Publish, At, Inv, Ordered, InOrder
  <2> QED
    BY <2>1, <2>4, <2>5, Commits DEF Inv, Ordered, InOrder
<1> QED
  BY <1>1, InvInit, InvNext, PTL DEF Spec, NoGoingBackInOrder

-----------------------------------------------------------------------------
(***************************************************************************)
(* QuietMeansCurrent.  It rests on what a path in the cache stands for:    *)
(* whoever finds it may take it that the artifact is or was published, or  *)
(* that the run at work is about to (Backed).                              *)
(***************************************************************************)
Calm == failures = 0 /\ ~overlapped /\ sidePushed = {}

\* What the probe of p goes by: x was the path of p in a commit at or before the
\* one published, or is that of a job between its two pushes.
Backing(p, x, d) ==
  /\ OutPath[d][p] = x
  /\ \/ d <= artifact[p]
     \/ \E r \in Active : run[r].job[p] = "cached" /\ run[r].commit = d
Backed == \A x \in cache : \E p \in Package, d \in 1..head : Backing(p, x, d)

Fine(p) == Current(p) \/ Reverted(p)
Underway(p) == \E r \in Active : run[r].job[p] \in {"probe", "queued", "built", "cached"}

Settled ==
  /\ \A r \in Active : run[r].commit = head /\ head > 0
  /\ \A p \in Package : artifact[p] <= head
  /\ \A r \in Run, p \in Package : run[r].job[p] # "failed"
  /\ Backed
  /\ head > 0 => \A p \in Package \ PushExcluded : Fine(p) \/ Underway(p)

CalmInv == Calm => Settled

\* Nothing is in the cache and nothing to release.
LEMMA CalmInit == Init => CalmInv
BY DEF Init, CalmInv, Settled, Backed, Active, Free

\* What was not calm does not become so.
LEMMA CalmBefore ==
  ASSUME Typed, Next, Calm'
  PROVE  Calm
BY DEF Typed, Calm, Next, RunStep, Push, Schedule, Dispatch, PushSide, Starts, Prune, Probe, Build,
  PushClosure, Publish, EndRun, DiscoverFails, JobFails, Outside

\* A package whose path the cache has, and no job of which is at work, has a
\* published artifact that is right, or was once.
LEMMA HitIsFine ==
  ASSUME Inv, Settled, NEW p \in Package, head > 0, OutPath[head][p] \in cache,
         \A r \in Active : run[r].job[p] # "cached"
  PROVE  Fine(p)
<1>1. head \in 1..Last /\ artifact[p] \in Nat /\ artifact[p] <= head /\ Last \in Nat
  BY Commits DEF Inv, Typed, Settled
<1>2. PICK q \in Package, d \in 1..head : Backing(q, OutPath[head][p], d)
  BY DEF Settled, Backed
<1>3. q = p
  BY <1>1, <1>2, ReleaseAssumption DEF Backing, Commit, Main
<1>4. d <= artifact[p] /\ OutPath[d][p] = OutPath[head][p]
  BY <1>2, <1>3 DEF Backing
<1>5. CASE OutPath[artifact[p]][p] = OutPath[head][p]
  BY <1>1, <1>4, <1>5 DEF Fine, Current
<1>6. CASE OutPath[artifact[p]][p] # OutPath[head][p]
  <2>1. d < artifact[p] /\ artifact[p] < head
    BY <1>1, <1>4, <1>6
  <2>2. d \in 1..head /\ artifact[p] \in 1..head /\ head \in 1..head
    BY <1>1, <2>1
  <2> QED
    BY <1>4, <1>6, <2>1, <2>2 DEF Fine, Reverted
<1> QED
  BY <1>5, <1>6

\* A run that begins in calm finds every package fine, or takes it up.
LEMMA SettledStarts ==
  ASSUME Inv, Settled, Calm', Next, Push \/ Schedule \/ Dispatch \/ \E c \in Side : PushSide(c)
  PROVE  Settled'
<1>1. head \in 0..Last /\ Last \in Nat /\ Typed
  BY Commits DEF Inv, Typed
<1>2. PICK c \in Nat \ {0}, ps \in SUBSET Package, step \in {"probe", "queued"} :
        /\ Starts(c, ps, step)
        /\ c = head' /\ head' \in 0..Last /\ head' >= head
        /\ head' = head \/ ps = Package \ PushExcluded
  <2>1. CASE Push
    BY <1>1, <2>1 DEF Push
  <2>2. CASE Schedule
    BY <1>1, <2>2, ReleaseAssumption DEF Schedule, ScheduledCommit, ScheduledStep
  <2>3. CASE Dispatch
    <3>1. head > 0 /\ head' = head /\ head \in Nat \ {0}
      BY <1>1, <2>3 DEF Dispatch
    <3>2. CASE \E step \in {"probe", "queued"} : Starts(head, Package, step)
      BY <1>1, <3>1, <3>2
    <3>3. CASE \E p \in Package : Starts(head, {p}, "queued")
      BY <1>1, <3>1, <3>3
    <3> QED
      BY <2>3, <3>2, <3>3 DEF Dispatch
  <2>4. CASE \E c \in Side : PushSide(c)
    BY <2>4 DEF PushSide, Calm
  <2> QED
    BY <2>1, <2>2, <2>3, <2>4
<1>3. ~overlapped' => Active = {}
  BY <1>1, <1>2, StartedRun
<1>4. Active = {} /\ UNCHANGED <<cache, artifact, failures>>
  BY <1>1, <1>2, <1>3, StartedRun DEF Calm
<1>5. PICK r \in Run : /\ Active' = {r} /\ run'[r].commit = head'
                       /\ \A p \in Package : run'[r].job[p] = IF p \in ps THEN step ELSE "none"
  BY <1>1, <1>2, <1>4, StartedRun
<1>6. \A s \in Run \ {r}, p \in Package : run'[s].job[p] = "none"
  BY <1>5 DEF Active, Free
<1>7. \A s \in Run, p \in Package : run'[s].job[p] # "failed"
  BY <1>2, <1>5, <1>6
<1>8. Backed'
  <2> SUFFICES ASSUME NEW x \in cache
               PROVE  \E p \in Package, d \in 1..head' : Backing(p, x, d)'
    BY <1>4 DEF Backed
  <2>1. PICK p \in Package, d \in 1..head : Backing(p, x, d)
    BY DEF Settled, Backed
  <2>2. d <= artifact'[p] /\ OutPath[d][p] = x /\ d \in 1..head'
    BY <1>1, <1>2, <1>4, <2>1 DEF Backing
  <2> QED
    BY <2>2 DEF Backing
<1>9. ASSUME NEW p \in Package \ PushExcluded, head' > 0 PROVE (Fine(p) \/ Underway(p))'
  <2>1. CASE p \in ps
    BY <1>2, <1>5, <2>1 DEF Underway
  <2>2. CASE p \notin ps
    <3>1. head' = head
      BY <1>2, <2>2
    <3>2. Fine(p)
      BY <1>4, <1>9, <3>1 DEF Settled, Underway
    <3> QED
      BY <1>4, <3>1, <3>2 DEF Fine, Current, Reverted
  <2> QED
    BY <2>1, <2>2
<1>10. \A p \in Package : artifact'[p] <= head'
  BY <1>1, <1>2, <1>4 DEF Settled, Inv, Typed
<1> QED
  BY <1>2, <1>5, <1>7, <1>8, <1>9, <1>10 DEF Settled

\* A job that goes on, in calm, is the only one there is of its package.
LEMMA SettledMoves ==
  ASSUME Inv, Settled, ~overlapped, NEW r \in Run, NEW p \in Package,
         \/ Probe(r, p) \/ Build(r, p) \/ PushClosure(r, p) \/ Publish(r, p)
  PROVE  Settled'
<1>1. /\ Typed /\ head \in 0..Last /\ Last \in Nat
      /\ artifact \in [Package -> Nat]
  BY Commits DEF Inv, Typed
<1>2. PICK step \in Steps \ {"none", "failed"} : Moves(r, p, step) /\ run[r].job[p] # "none"
  BY DEF Probe, Build, PushClosure, Publish, At, Steps
<1>3. /\ Active' = Active /\ r \in Active
      /\ \A s \in Run : run'[s].commit = run[s].commit
      /\ run'[r].job[p] = step
      /\ \A s \in Run, q \in Package : (s # r \/ q # p) => run'[s].job[q] = run[s].job[q]
  BY <1>1, <1>2, MovedRun
<1>4. Active = {r} /\ run[r].commit = head /\ head > 0
  BY <1>3 DEF Inv, Ordered, InOrder, Settled
<1>5. head' = head
  BY DEF Probe, Build, PushClosure, Publish, Outside
<1>6. /\ \A q \in Package \ {p} : artifact'[q] = artifact[q]
      /\ artifact'[p] = artifact[p] \/ (Publish(r, p) /\ artifact'[p] = head)
      /\ artifact' \in [Package -> Nat]
      /\ artifact'[p] >= artifact[p]
  BY <1>1, <1>4 DEF Probe, Build, PushClosure, Publish, Published, Settled
<1>7. Backed'
  <2>1. ASSUME NEW x \in cache PROVE \E q \in Package, d \in 1..head : Backing(q, x, d)'
    <3>1. PICK q \in Package, d \in 1..head : Backing(q, x, d)
      BY DEF Settled, Backed
    <3>2. CASE d <= artifact[q]
      <4>1. d <= artifact'[q]
        BY <1>1, <1>6, <3>2
      <4> QED
        BY <3>1, <4>1 DEF Backing
    <3>3. CASE run[r].job[q] = "cached" /\ d = head
      <4>1. CASE q # p
        BY <1>3, <1>4, <3>1, <3>3, <4>1 DEF Backing
      <4>2. CASE q = p
        <5>1. Publish(r, p)
          BY <3>3, <4>2 DEF Probe, Build, PushClosure, At
        <5>2. artifact'[p] = head
          BY <1>1, <1>4, <5>1 DEF Publish, Published
        <5> QED
          BY <1>1, <3>1, <3>3, <4>2, <5>2 DEF Backing
      <4> QED
        BY <4>1, <4>2
    <3> QED
      BY <1>4, <3>1, <3>2, <3>3 DEF Backing
  <2>2. ASSUME NEW x \in cache' \ cache PROVE \E q \in Package, d \in 1..head : Backing(q, x, d)'
    <3>1. PushClosure(r, p)
      BY <2>2 DEF Probe, Build, Publish
    <3>2. x = OutPath[head][p] /\ run'[r].job[p] = "cached"
      BY <1>1, <1>3, <1>4, <2>2, <3>1 DEF PushClosure, Path, Moves, Typed
    <3> QED
      BY <1>1, <1>3, <1>4, <3>2 DEF Backing
  <2> QED
    BY <1>5, <2>1, <2>2 DEF Backed
<1>8. ASSUME NEW q \in Package \ PushExcluded PROVE (Fine(q) \/ Underway(q))'
  <2>1. CASE artifact'[q] = artifact[q] /\ Fine(q)
    BY <1>5, <2>1 DEF Fine, Current, Reverted
  <2>2. CASE q # p
    BY <1>3, <1>4, <1>6, <2>1, <2>2 DEF Settled, Underway
  <2>3. CASE q = p /\ Publish(r, p)
    <3>1. artifact'[p] = head
      BY <1>1, <1>4, <2>3 DEF Publish, Published
    <3> QED
      BY <1>4, <1>5, <2>3, <3>1 DEF Fine, Current
  <2>4. CASE q = p /\ ~Publish(r, p) /\ step # "hit"
    <3>1. \/ Moves(r, p, "hit") \/ Moves(r, p, "queued")
          \/ Moves(r, p, "built") \/ Moves(r, p, "cached")
      BY <2>4 DEF Probe, Build, PushClosure
    <3>2. \A t : Moves(r, p, t) => run'[r].job[p] = t
      BY <1>1 DEF Moves, Typed
    <3>3. run'[r].job[p] \in {"probe", "queued", "built", "cached"}
      BY <1>3, <2>4, <3>1, <3>2
    <3> QED
      BY <1>3, <2>4, <3>3 DEF Underway
  <2>5. CASE q = p /\ ~Publish(r, p) /\ step = "hit"
    <3>1. Probe(r, p) /\ OutPath[head][p] \in cache
      BY <1>1, <1>3, <1>4, <2>5 DEF Probe, Build, PushClosure, Moves, Typed, Path
    <3>2. Fine(p)
      BY <1>4, <3>1, HitIsFine DEF Probe, At
    <3> QED
      BY <1>6, <2>1, <2>5, <3>2
  <2> QED
    BY <2>2, <2>3, <2>4, <2>5
<1>9. \A q \in Package : artifact'[q] <= head
  BY <1>1, <1>6 DEF Settled
<1>10. \A s \in Run, q \in Package : run'[s].job[q] # "failed"
  BY <1>2, <1>3 DEF Settled
<1> QED
  BY <1>3, <1>4, <1>5, <1>7, <1>8, <1>9, <1>10 DEF Settled

\* A run that ends without a failure leaves nothing underway.
LEMMA SettledEnds ==
  ASSUME Inv, Settled, NEW r \in Run, EndRun(r)
  PROVE  Settled'
<1>1. Typed /\ UNCHANGED <<head, artifact, cache>> /\ run' = [run EXCEPT ![r] = Free]
  BY DEF Inv, EndRun, Outside
<1>2. Active' = Active \ {r} /\ \A s \in Run \ {r} : run'[s] = run[s]
  BY <1>1, FreedRun
<1>3. \A p \in Package : run[r].job[p] \notin {"probe", "queued", "built", "cached"}
  BY DEF EndRun
<1>4. run'[r] = Free
  BY <1>1 DEF Typed
<1>5. Backed'
  BY <1>1, <1>2, <1>3 DEF Settled, Backed, Backing, Active
<1>6. \A p \in Package : Fine(p)' = Fine(p) /\ (Underway(p) => Underway(p)')
  BY <1>1, <1>2, <1>3 DEF Fine, Current, Reverted, Underway, Active
<1>7. \A s \in Run, p \in Package : run'[s].job[p] # "failed"
  BY <1>2, <1>4 DEF Settled, Free
<1> QED
  BY <1>1, <1>2, <1>5, <1>6, <1>7 DEF Settled, Active

\* Every step keeps CalmInv.
LEMMA CalmNext == Inv /\ CalmInv /\ [Next]_vars => CalmInv'
<1> SUFFICES ASSUME Inv, CalmInv, [Next]_vars, Calm' PROVE Settled'
  BY DEF CalmInv
<1>1. CASE UNCHANGED vars
  BY <1>1 DEF vars, CalmInv, Calm, Settled, Backed, Backing, Fine, Current, Reverted, Underway,
    Active
<1>2. CASE Next
  <2>1. Settled /\ ~overlapped
    BY <1>2, CalmBefore DEF Inv, CalmInv, Calm
  <2>2. CASE Push \/ Schedule \/ Dispatch \/ \E c \in Side : PushSide(c)
    BY <1>2, <2>1, <2>2, SettledStarts
  <2>3. CASE Prune
    BY <2>1, <2>3 DEF Prune, Settled, Backed, Backing, Fine, Current, Reverted, Underway, Active
  <2>4. ASSUME NEW r \in Run, NEW p \in Package,
               \/ Probe(r, p) \/ Build(r, p) \/ PushClosure(r, p) \/ Publish(r, p)
        PROVE  Settled'
    BY <2>1, <2>4, SettledMoves
  <2>5. ASSUME NEW r \in Run, EndRun(r) PROVE Settled'
    BY <2>1, <2>5, SettledEnds
  <2>6. ASSUME NEW r \in Run, NEW p \in Package, DiscoverFails(r) \/ JobFails(r, p) PROVE FALSE
    BY <2>6 DEF DiscoverFails, JobFails, Calm, Inv, Typed
  <2>7. ASSUME NEW r \in Run, DiscoverFails(r) PROVE FALSE
    BY <2>7 DEF DiscoverFails, Calm, Inv, Typed
  <2> QED
    BY <1>2, <2>2, <2>3, <2>4, <2>5, <2>6, <2>7 DEF Next, RunStep
<1> QED
  BY <1>1, <1>2

\* Skipping what the cache has is right: what it skips is published, or was
\* published before the package was changed and reverted
\* (build-platform.yaml:117-146).
THEOREM SkippingIsRight == Spec => []QuietMeansCurrent
<1>1. CalmInv => QuietMeansCurrent
  BY DEF CalmInv, Calm, Settled, QuietMeansCurrent, Fine, Underway
<1> QED
  BY <1>1, InvInit, InvNext, CalmInit, CalmNext, PTL DEF Spec
=============================================================================
