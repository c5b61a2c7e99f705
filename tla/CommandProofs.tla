---------------------------- MODULE CommandProofs ----------------------------
(***************************************************************************)
(* What the commands of bm leave behind, for all packages, versions, files *)
(* and manifests: an abstract store of whole packages (PackageStore), a    *)
(* repaired package (FetchRepairs), the manifest's prefix (SyncConverges). *)
(***************************************************************************)
EXTENDS PrefixProofs, FiniteSetTheorems, WellFoundedInduction

(***************************************************************************)
(* InstalledIsWhole is not inductive: Rename installs what is in the stage *)
(* directory (StageInv), and Save writes a digest beside files it did not  *)
(* fetch, which rests on what the plan found when it left them alone       *)
(* (PlanInv).                                                              *)
(***************************************************************************)
StageInv ==
  /\ pc = "seal" => /\ stage.ver = job[cur].ver
                    /\ stage.files = Files[cur][job[cur].ver]
  /\ pc \in {"unlink", "wipe", "rename"} =>
       stage = Packages!Whole(cur, job[cur].ver, Wanted(cur))
  /\ pc = "rename" => ~Installed(cur)

StoreInv == PlanInv /\ StageInv /\ InstalledIsWhole

\* The empty prefix holds no package.
LEMMA StoreInit == Init => StoreInv
BY PlanInit DEF Init, StoreInv, StageInv, InstalledIsWhole, Installed, NoDir

\* The package at work has a version, once its batch has resolved.
LEMMA Current ==
  ASSUME TypeInv, pc \in Busy
  PROVE  cur \in Pkg /\ job[cur].ver \in Ver
<1>1. cur \in cmd.names /\ cmd.op \in {"install", "upgrade", "sync"} /\ pc # "resolve"
  BY DEF TypeInv, JobsOK, Busy, Planned
<1>2. cur \in Pkg /\ job[cur].ver # None
  BY <1>1 DEF TypeInv, TypeOK, JobsOK, Cmd
<1> QED
  BY <1>2 DEF TypeInv, TypeOK, Job

\* The digest written beside what was extracted is that of all its files.
LEMMA SealedIsWhole ==
  ASSUME TypeOK, pc = "seal", StageInv
  PROVE  Sealed(cur) = Packages!Whole(cur, job[cur].ver, Wanted(cur))
<1>1. stage \in Dir /\ stage.ver = job[cur].ver /\ stage.files = Files[cur][job[cur].ver]
  BY DEF TypeOK, StageInv
<1>2. PICK v, d, paths, l : stage = [ver |-> v, digest |-> d, files |-> paths, linked |-> l]
  <2>1. stage = [ver |-> stage.ver, digest |-> stage.digest,
                 files |-> stage.files, linked |-> stage.linked]
    BY <1>1 DEF Dir
  <2> QED
    BY <2>1
<1>3. v = job[cur].ver /\ paths = Files[cur][job[cur].ver]
  BY <1>1, <1>2
<1> DEFINE dated == [stage EXCEPT !.digest = job[cur].ver]
<1>4. dated = [ver |-> v, digest |-> job[cur].ver, files |-> paths, linked |-> l]
  BY <1>2
<1> HIDE DEF dated
<1>5. ASSUME NEW w
      PROVE  [dated EXCEPT !.linked = w]
               = [ver |-> v, digest |-> job[cur].ver, files |-> paths, linked |-> w]
  BY <1>4
<1>6. Sealed(cur) = [dated EXCEPT !.linked = Wanted(cur)]
  BY DEF Sealed, dated
<1> QED
  BY <1>3, <1>5, <1>6 DEF Packages!Whole

\* The metadata written last differs from what was there in the link mode only.
LEMMA SavedIsRelinked ==
  ASSUME StoreInv, Save
  PROVE  /\ cur \in Pkg /\ Installed(cur)
         /\ store' = [store EXCEPT ![cur].linked = Wanted(cur)]
<1>1. cur \in Pkg /\ job[cur].ver \in Ver
  BY Current DEF StoreInv, PlanInv, Save, Busy
<1>2. store[cur].digest = job[cur].ver
  BY <1>1 DEF StoreInv, PlanInv, StepHolds, Save
<1>3. store \in [Pkg -> Dir]
  BY DEF StoreInv, PlanInv, TypeInv, TypeOK
<1>4. store' = [store EXCEPT ![cur].digest = job[cur].ver, ![cur].linked = Wanted(cur)]
  BY DEF Save, SaveMeta
<1>5. \A q \in Pkg : store'[q] = [store EXCEPT ![cur].linked = Wanted(cur)][q]
  BY <1>1, <1>2, <1>3, <1>4 DEF Dir
<1>6. Installed(cur)
  BY <1>1, <1>2, ConstantsAssumption DEF Installed
<1> QED
  BY <1>1, <1>3, <1>4, <1>5, <1>6

\* The steps that change the store.
LEMMA StoreStep ==
  ASSUME Next, Faults \cap {"wipe", "rmWipe"} = {}
  PROVE  \/ store' = store
         \/ \E p \in Pkg : Plan(p)
         \/ Wipe \/ Rename \/ Save \/ RemoveWipe
BY DEF Next, Start, Work, Failure, PlanSteps, CommitSteps,
  StartInstall, StartUpgrade, StartUpgradeAll, StartSync, StartRemove, Begin,
  Resolve, Download, Fetched, KeptUnlink, KeptLink, KeptAlone, KeptRecord, KeptAsIs, Prune, Take, ResolveDone,
  PlanDone, DownloadDone, PlanCommitted, Extract, Seal, Unlink, Link,
  UnlinkKept, Relink, ResetProfiles, BuildProfile, ProfilesBuilt, Sweep, PruneDone,
  RemoveUnlink, RemoveFromProfiles, Finish, fs, ResolveError, Die, UnlinkCut,
  LinkCut, WipeCut, ProfilesCut, RemoveProfilesCut, BuildCut, UserFile

\* A package without metadata may be dropped; one that is whole may come, go,
\* or change its link mode.
LEMMA WholeStep ==
  ASSUME StoreInv, Next, Faults \cap {"wipe", "rmWipe"} = {}
  PROVE  InstalledIsWhole'
<1>t. store \in [Pkg -> Dir] /\ None \notin Ver
  BY ConstantsAssumption DEF StoreInv, PlanInv, TypeInv, TypeOK
<1>1. CASE store' = store
  BY <1>1 DEF StoreInv, InstalledIsWhole, Installed
<1>2. CASE \E p \in Pkg : Plan(p)
  BY <1>2, <1>t DEF Plan, DropLeftover, StoreInv, InstalledIsWhole, Installed, NoDir
<1>3. CASE Wipe \/ RemoveWipe
  BY <1>3, <1>t DEF Wipe, RemoveWipe, StoreInv, InstalledIsWhole, Installed, NoDir
<1>4. CASE Rename
  <2>1. cur \in Pkg /\ store' = [store EXCEPT ![cur] = stage]
    BY <1>4, Current DEF StoreInv, PlanInv, Rename, Busy
  <2>2. stage = Packages!Whole(cur, job[cur].ver, Wanted(cur))
    BY <1>4 DEF StoreInv, StageInv, Rename
  <2>3. stage.ver = stage.digest /\ stage.files = Files[cur][stage.digest]
    BY <2>2 DEF Packages!Whole
  <2> QED
    BY <1>t, <2>1, <2>3 DEF StoreInv, InstalledIsWhole, Installed
<1>5. CASE Save
  BY <1>5, <1>t, SavedIsRelinked DEF StoreInv, InstalledIsWhole, Installed, Dir
<1> QED
  BY <1>1, <1>2, <1>3, <1>4, <1>5, StoreStep

\* What is in the stage directory is what the package resolved to.
LEMMA StageStep ==
  ASSUME TypeInv, StageInv, Next, Shared = {}
  PROVE  StageInv'
<1> USE DEF TypeInv, TypeOK
<1>1. CASE Extract
  <2>1. cur \in Pkg /\ job[cur].ver \in Ver
    BY <1>1, Current DEF Extract, Busy
  <2>2. PICK v \in Cached(cur) : stage' = [NoDir EXCEPT !.ver = v, !.files = Files[cur][v]]
    BY <1>1 DEF Extract
  <2>3. v = job[cur].ver
    BY <2>2 DEF Cached
  <2> QED
    BY <1>1, <2>2, <2>3 DEF Extract, StageInv, NoDir
<1>2. CASE Seal
  <2>1. stage' = Packages!Whole(cur, job[cur].ver, Wanted(cur))
    BY <1>2, SealedIsWhole DEF Seal
  <2> QED
    BY <1>2, <2>1 DEF Seal, StageInv, Packages!Whole, Wanted
<1>3. CASE Unlink
  BY <1>3 DEF Unlink, StageInv, Packages!Whole, Wanted
<1>4. CASE Wipe
  <2>1. cur \in Pkg
    BY <1>4, Current DEF Wipe, Busy
  <2> QED
    BY <1>4, <2>1 DEF Wipe, StageInv, Packages!Whole, Wanted, Installed, NoDir
<1>5. CASE UNCHANGED pc
  <2>1. pc \notin {"seal", "unlink", "wipe", "rename"}
        \/ \E x \in UserPaths : UserFile(x)
    BY <1>5 DEF Next, Start, Work, Failure, PlanSteps, CommitSteps, Turn,
      StartInstall, StartUpgrade, StartUpgradeAll, StartSync, StartRemove, Begin,
      Resolve, Plan, Download, Fetched, KeptUnlink, KeptLink, KeptAlone, KeptRecord, KeptAsIs, Prune, Take,
      ResolveDone, PlanDone, DownloadDone, PlanCommitted, Extract, Seal, Unlink, Wipe, Rename,
      Link, Next1, UnlinkKept, Relink, Save, ResetProfiles, BuildProfile, ProfilesBuilt, Sweep,
      PruneDone, RemoveUnlink, RemoveFromProfiles, RemoveWipe, Finish, ResolveError, Die,
      UnlinkCut, LinkCut, WipeCut, ProfilesCut, RemoveProfilesCut, BuildCut, Stop, Fail, Killed, Reset
  <2> QED
    BY <1>5, <2>1 DEF UserFile, StageInv
<1>6. CASE ~(Extract \/ Seal \/ Unlink \/ Wipe) /\ pc' # pc
  <2>1. pc' \notin {"seal", "unlink", "wipe", "rename"}
    BY <1>6 DEF Next, Start, Work, Failure, PlanSteps, CommitSteps,
      StartInstall, StartUpgrade, StartUpgradeAll, StartSync, StartRemove, Begin,
      Resolve, Plan, Download, Fetched, KeptUnlink, KeptLink, KeptAlone, KeptRecord, KeptAsIs, Prune, Take,
      ResolveDone, PlanDone, DownloadDone, PlanCommitted, Rename,
      Link, Next1, UnlinkKept, Relink, Save, ResetProfiles, BuildProfile, ProfilesBuilt, Sweep,
      PruneDone, RemoveUnlink, RemoveFromProfiles, RemoveWipe, Finish, ResolveError, Die,
      UnlinkCut, LinkCut, WipeCut, ProfilesCut, RemoveProfilesCut, BuildCut, Stop, Fail, Killed, Reset,
      UserFile
  <2> QED
    BY <2>1 DEF StageInv
<1> QED
  BY <1>1, <1>2, <1>3, <1>4, <1>5, <1>6

\* Every step keeps the invariant.
LEMMA StoreNext ==
  ASSUME Shared = {}, Faults \cap {"wipe", "rmWipe"} = {}
  PROVE  StoreInv /\ [Next]_vars => StoreInv'
<1> SUFFICES ASSUME StoreInv, [Next]_vars PROVE StoreInv'
  OBVIOUS
<1>1. CASE Next
  BY <1>1, PlanNext, WholeStep, StageStep DEF StoreInv, PlanInv
<1>2. CASE UNCHANGED vars
  BY <1>2, PlanNext DEF vars, StoreInv, StageInv, InstalledIsWhole, Installed, Wanted,
    Packages!Whole
<1> QED
  BY <1>1, <1>2

-----------------------------------------------------------------------------
\* Wherever a command stops outside os.RemoveAll, metadata stands for all the
\* files of the version it names (install.go:94-100 relies on it).
THEOREM InstalledStaysWhole ==
  ASSUME Shared = {}, Faults \cap {"wipe", "rmWipe"} = {}
  PROVE  Spec => []InstalledIsWhole
<1>1. StoreInv => InstalledIsWhole
  BY DEF StoreInv
<1> QED BY <1>1, StoreInit, StoreNext, PTL DEF Spec

\* What the readers of the store see of p.
Have(p) == IF Installed(p) THEN store[p] ELSE NoDir

\* A step that changes at most the package p.
LEMMA OneStep ==
  ASSUME NEW p \in Pkg, \A q \in Pkg \ {p} : store'[q] = store[q],
         \/ Have(p)' = Have(p)
         \/ Have(p) = NoDir /\ \E v \in Ver, l \in BOOLEAN : Have(p)' = Packages!Whole(p, v, l)
         \/ Have(p) # NoDir /\ Have(p)' = NoDir
         \/ Have(p) # NoDir /\ Have(p)' = [Have(p) EXCEPT !.linked = ~@]
  PROVE  [Packages!Next]_([q \in Pkg |-> Have(q)])
<1> DEFINE have == [q \in Pkg |-> Have(q)]
<1>1. have' = [have EXCEPT ![p] = Have(p)']
  BY DEF Have, Installed
<1>2. have[p] = Have(p)
  OBVIOUS
<1>3. CASE Have(p)' = Have(p)
  BY <1>1, <1>2, <1>3
<1>4. CASE Have(p) = NoDir /\ \E v \in Ver, l \in BOOLEAN : Have(p)' = Packages!Whole(p, v, l)
  <2>1. PICK v \in Ver, l \in BOOLEAN : Have(p)' = Packages!Whole(p, v, l)
    BY <1>4
  <2>2. have[p] = NoDir /\ have' = [have EXCEPT ![p] = Packages!Whole(p, v, l)]
    BY <1>1, <1>2, <1>4, <2>1
  <2> QED
    BY <2>2 DEF Packages!Next, Packages!Put, Have
<1>5. CASE Have(p) # NoDir /\ Have(p)' = NoDir
  BY <1>1, <1>5 DEF Packages!Next, Packages!Drop, Have
<1>6. CASE Have(p) # NoDir /\ Have(p)' = [Have(p) EXCEPT !.linked = ~@]
  BY <1>1, <1>6 DEF Packages!Next, Packages!Relink, Have
<1> QED
  BY <1>3, <1>4, <1>5, <1>6

\* Every step of a command is a step of the abstract store or leaves it alone:
\* a package that is fetched again goes (Wipe) and then comes whole (Rename).
LEMMA StepImplements ==
  ASSUME StoreInv, Next, Faults \cap {"wipe", "rmWipe"} = {}
  PROVE  [Packages!Next]_([q \in Pkg |-> Have(q)])
<1>t. store \in [Pkg -> Dir] /\ None \notin Ver /\ None \notin Pkg
  BY ConstantsAssumption DEF StoreInv, PlanInv, TypeInv, TypeOK
<1>n. NoDir.digest = None /\ NoDir.linked = FALSE
  BY DEF NoDir
<1>1. CASE store' = store
  BY <1>1 DEF Have, Installed
<1>2. ASSUME NEW p \in Pkg, Plan(p) PROVE [Packages!Next]_([q \in Pkg |-> Have(q)])
  <2>1. store' = [store EXCEPT ![p] = DropLeftover(p)]
    BY <1>2 DEF Plan
  <2>2. Have(p)' = Have(p) /\ \A q \in Pkg \ {p} : store'[q] = store[q]
    BY <1>t, <1>n, <2>1 DEF DropLeftover, Have, Installed
  <2> QED
    BY <2>2, OneStep
<1>3. CASE Wipe \/ RemoveWipe
  <2>1. PICK c \in Pkg : store' = [store EXCEPT ![c] = NoDir]
    BY <1>3, Current DEF StoreInv, PlanInv, PlanInv, TypeInv, JobsOK, Wipe, RemoveWipe, Busy, Removing
  <2>2. Have(c)' = NoDir /\ \A q \in Pkg \ {c} : store'[q] = store[q]
    BY <1>t, <1>n, <2>1 DEF Have, Installed
  <2> QED
    BY <2>1, <2>2, OneStep
<1>4. CASE Rename
  <2>1. PICK c \in Pkg : c = cur /\ store' = [store EXCEPT ![c] = stage] /\ ~Installed(c)
    BY <1>4, Current DEF StoreInv, PlanInv, StageInv, Rename, Busy
  <2>2. \E v \in Ver, l \in BOOLEAN : stage = Packages!Whole(c, v, l)
    <3>1. stage = Packages!Whole(c, job[c].ver, Wanted(c)) /\ job[c].ver \in Ver
      BY <1>4, <2>1, Current DEF StoreInv, PlanInv, StageInv, Rename, Busy
    <3>2. Wanted(c) \in BOOLEAN
      BY DEF Wanted
    <3> QED
      BY <3>1, <3>2
  <2>3. stage.digest # None
    BY <1>t, <2>2 DEF Packages!Whole
  <2>4. Have(c) = NoDir /\ Have(c)' = stage /\ \A q \in Pkg \ {c} : store'[q] = store[q]
    BY <1>t, <2>1, <2>3 DEF Have, Installed
  <2> QED
    BY <2>2, <2>4, OneStep
<1>5. CASE Save
  <2>1. PICK c \in Pkg, w \in BOOLEAN :
          Installed(c) /\ store' = [store EXCEPT ![c].linked = w]
    <3>1. Wanted(cur) \in BOOLEAN
      BY DEF Wanted
    <3> QED
      BY <1>5, <3>1, SavedIsRelinked
  <2>2. store[c] \in Dir /\ store[c].linked \in BOOLEAN
    BY <1>t, <2>1 DEF Dir
  <2>3. /\ Have(c) = store[c] /\ Have(c) # NoDir
        /\ \A q \in Pkg \ {c} : store'[q] = store[q]
    BY <1>t, <1>n, <2>1 DEF Have, Installed
  <2>4. Have(c)' = [store[c] EXCEPT !.linked = w]
    BY <1>t, <2>1 DEF Have, Installed, Dir
  <2>5. CASE w = store[c].linked
    <3>1. Have(c)' = Have(c)
      BY <1>t, <2>1, <2>3, <2>4, <2>5 DEF Dir
    <3> QED
      BY <2>1, <2>3, <3>1, OneStep
  <2>6. CASE w = ~store[c].linked
    <3>1. Have(c)' = [Have(c) EXCEPT !.linked = ~@]
      BY <2>3, <2>4, <2>6
    <3> QED
      BY <2>1, <2>3, <3>1, OneStep
  <2> QED
    BY <2>2, <2>5, <2>6
<1> QED
  BY <1>1, <1>2, <1>3, <1>4, <1>5, StoreStep

\* Outside os.RemoveAll the store directories implement the abstract store:
\* whole packages that come, go and change their link mode one at a time,
\* through any commands and failures (placeStore, cmdRemove, the commit loop).
THEOREM PrefixImplementsPackageStore ==
  ASSUME Shared = {}, Faults \cap {"wipe", "rmWipe"} = {}
  PROVE  Spec => ImplementsPackageStore
<1>1. Init => Packages!Init
  BY DEF Init, Packages!Init, Installed, NoDir
<1>2. StoreInv /\ [Next]_vars => [Packages!Next]_([p \in Pkg |-> Have(p)])
  <2>1. CASE Next
    BY <2>1, StepImplements
  <2>2. CASE UNCHANGED vars
    BY <2>2 DEF vars, Have, Installed
  <2> QED
    BY <2>1, <2>2
<1>3. StoreInv /\ [Next]_vars =>
        [Packages!Next]_([p \in Pkg |-> IF Installed(p) THEN store[p] ELSE NoDir])
  BY <1>2 DEF Have
<1> QED
  BY <1>1, <1>3, StoreInit, StoreNext, PTL DEF Spec, ImplementsPackageStore, Packages!Spec

-----------------------------------------------------------------------------
(***************************************************************************)
(* What the commit loop has done for a package stays done until the        *)
(* command ends: the loop goes on to other packages, and the prune of a    *)
(* sync only removes packages that its plan does not name.                 *)
(***************************************************************************)
Batch == {"install", "upgrade", "sync"}
After == {"profiles", "build", "sweep", "prune", "done"} \cup Removing

\* The turn of p in the commit loop is over.
Over(p) ==
  /\ cmd.op \in Batch /\ p \in cmd.names
  /\ \/ pc \in After
     \/ pc = "commit" /\ p \notin pending
     \/ pc \in Busy /\ p \notin pending /\ p # cur

\* Which command is where.
PhaseInv ==
  /\ cmd.op = "none" => pc = "idle"
  /\ pc \in {"profiles", "build", "sweep", "prune"} => cmd.op = "sync"
  /\ pc \in Removing => cmd.op \in {"sync", "remove"}
  /\ cmd.op = "remove" => pc \in Removing \cup {"done"}
  /\ cmd.op \in {"none", "remove"} => \A p \in Pkg : ~job[p].fetch
  /\ cmd.op = "sync" /\ pc \in {"prune"} \cup Removing => pending \cap cmd.names = {}
  /\ cmd.op = "sync" /\ pc \in Removing => cur \notin cmd.names

LEMMA PhaseInit == Init => PhaseInv
BY DEF Init, PhaseInv, NoCmd, NoJob, Removing

\* How a command begins.
LEMMA Begins ==
  ASSUME Start
  PROVE  \/ pc' = "resolve" /\ cmd'.op \in {"install", "upgrade", "sync"}
         \/ pc' \in Removing /\ cmd'.op = "remove"
<1>1. ASSUME NEW p, StartRemove(p) PROVE pc' \in Removing /\ cmd'.op = "remove"
  BY <1>1 DEF StartRemove, Removing, NoCmd
<1>2. ASSUME NEW op \in Batch, NEW order, NEW names, NEW linked, NEW force, NEW prune,
             NEW profiles, Begin(op, order, names, linked, force, prune, profiles)
      PROVE  pc' = "resolve" /\ cmd'.op \in {"install", "upgrade", "sync"}
  BY <1>2 DEF Begin, Batch
<1> QED
  BY <1>1, <1>2 DEF Start, StartInstall, StartUpgrade, StartUpgradeAll, StartSync, Batch

\* And from where: a prefix without a command changes by the user's hand only.
LEMMA IdleStep ==
  ASSUME Next, pc = "idle"
  PROVE  Start \/ \E x \in UserPaths : UserFile(x)
BY ConstantsAssumption DEF Next, Failure, Work, PlanSteps, CommitSteps, Turn, Resolve,
  ResolveError, Plan, Download, Fetched, KeptUnlink, KeptLink, KeptAlone, KeptRecord, KeptAsIs, Prune, ResolveDone,
  PlanDone, DownloadDone, PlanCommitted, Extract, Seal, Unlink, Wipe, Rename, Link, UnlinkKept,
  Relink, Save, ResetProfiles, BuildProfile, ProfilesBuilt, Sweep, PruneDone, RemoveUnlink,
  RemoveFromProfiles, RemoveWipe, Finish, Die, UnlinkCut, LinkCut, WipeCut, ProfilesCut,
  RemoveProfilesCut, BuildCut

LEMMA PhaseStep ==
  ASSUME TypeInv, PhaseInv, Next
  PROVE  PhaseInv'
<1> USE DEF PhaseInv, TypeInv, TypeOK, JobsOK, Planned, Busy, Removing
<1>1. CASE Start
  <2>1. pc = "idle" /\ cmd.op = "none" /\ job' = job
    BY <1>1 DEF Start, StartInstall, StartUpgrade, StartUpgradeAll, StartSync,
                StartRemove, Begin
  <2>2. CASE pc' = "resolve" /\ cmd'.op \in {"install", "upgrade", "sync"}
    BY <2>1, <2>2
  <2>3. CASE cmd'.op = "remove" /\ pc' \in Removing
    BY <2>1, <2>3
  <2> QED
    BY <1>1, <2>2, <2>3, Begins
<1>2. ASSUME NEW p \in Pkg, Resolve(p) \/ ResolveError(p) PROVE PhaseInv'
  BY <1>2 DEF Resolve, ResolveError
<1>3. ASSUME NEW p \in Pkg, Plan(p) \/ Download(p) \/ KeptAsIs(p) PROVE PhaseInv'
  BY <1>3 DEF Plan, Download, KeptAlone, KeptAsIs, Turn
<1>4. ASSUME NEW p \in Pkg, Fetched(p) \/ KeptUnlink(p) \/ KeptLink(p) \/ KeptRecord(p)
      PROVE  PhaseInv'
  BY <1>4 DEF Fetched, KeptUnlink, KeptLink, KeptRecord, KeptAlone, Turn, Take
<1>5. ASSUME NEW p \in Pkg, Prune(p) PROVE PhaseInv'
  BY <1>5 DEF Prune, Take
<1>6. CASE Reset
  BY <1>6 DEF Reset, NoCmd, NoJob
<1>7. CASE ResolveDone \/ PlanDone \/ DownloadDone \/ PlanCommitted
  BY <1>6, <1>7 DEF ResolveDone, Stop, Fail, Killed, PlanDone, DownloadDone, PlanCommitted
<1>8. CASE Extract \/ Seal \/ Unlink \/ Wipe \/ Rename \/ Link \/ UnlinkKept \/ Relink \/ Save
  BY <1>8 DEF Extract, Seal, Unlink, Wipe, Rename, Link, UnlinkKept, Relink, Save, Next1
<1>9. CASE ResetProfiles \/ (\E f \in Profile : BuildProfile(f)) \/ ProfilesBuilt \/ PruneDone
  BY <1>9 DEF ResetProfiles, BuildProfile, ProfilesBuilt, PruneDone
<1>10. CASE Sweep
  BY <1>6, <1>10 DEF Sweep, Fail, Unwanted
<1>11. CASE RemoveUnlink \/ RemoveFromProfiles \/ RemoveWipe
  BY <1>11 DEF RemoveUnlink, RemoveFromProfiles, RemoveWipe
<1>12. CASE \/ Finish \/ Die \/ UnlinkCut \/ LinkCut \/ WipeCut \/ ProfilesCut \/ RemoveProfilesCut
            \/ \E f \in Profile : BuildCut(f)
  BY <1>6, <1>12 DEF Finish, Die, UnlinkCut, LinkCut, WipeCut, ProfilesCut, RemoveProfilesCut,
    BuildCut, Stop, Fail, Killed
<1>13. ASSUME NEW x \in UserPaths, UserFile(x) PROVE PhaseInv'
  BY <1>13 DEF UserFile
<1> QED
  BY <1>1, <1>2, <1>3, <1>4, <1>5, <1>7, <1>8, <1>9, <1>10, <1>11, <1>12, <1>13
  DEF Next, Work, Failure, PlanSteps, CommitSteps

\* The steps of a command that goes on.
LEMMA WorkStep ==
  ASSUME Next, pc # "idle", pc' # "idle"
  PROVE  /\ cmd' = cmd
         /\ \/ \E p \in Pkg : PlanSteps(p) \/ ResolveError(p) \/ CommitSteps(p)
            \/ ResolveDone \/ PlanDone \/ DownloadDone \/ PlanCommitted
            \/ Extract \/ Seal \/ Unlink \/ Wipe \/ Rename \/ Link
            \/ UnlinkKept \/ Relink \/ Save
            \/ ResetProfiles \/ (\E f \in Profile : BuildProfile(f)) \/ ProfilesBuilt
            \/ Sweep \/ PruneDone
            \/ RemoveUnlink \/ RemoveFromProfiles \/ RemoveWipe
<1>1. ~Start /\ ~\E x \in UserPaths : UserFile(x)
  BY DEF Start, StartInstall, StartUpgrade, StartUpgradeAll, StartSync, StartRemove, UserFile
<1>2. ~Stop /\ ~Fail /\ ~Reset
  BY DEF Stop, Fail, Killed, Reset
<1>3. Work \/ \E p \in Pkg : ResolveError(p)
  BY <1>1, <1>2 DEF Next, Failure, Die, UnlinkCut, LinkCut, WipeCut, ProfilesCut,
    RemoveProfilesCut, BuildCut
<1>4. cmd' = cmd
  BY <1>2, <1>3 DEF Work, PlanSteps, CommitSteps, Resolve, Plan, Download, ResolveError,
    Fetched, KeptUnlink, KeptLink, KeptAlone, KeptRecord, KeptAsIs, Prune, Take, ResolveDone, PlanDone, DownloadDone,
    PlanCommitted, Extract, Seal, Unlink, Wipe, Rename, Link, UnlinkKept, Relink, Save,
    ResetProfiles, BuildProfile, ProfilesBuilt, Sweep, PruneDone,
    RemoveUnlink, RemoveFromProfiles, RemoveWipe, Finish
<1> QED
  BY <1>2, <1>3, <1>4 DEF Work, Finish

\* Once the turn of a package is over its directory is left alone.
LEMMA OverStays ==
  ASSUME TypeInv, PhaseInv, Next, NEW p \in Pkg, Over(p), pc' # "idle"
  PROVE  /\ Over(p)'
         /\ cmd' = cmd /\ job' = job /\ store'[p] = store[p]
<1> USE DEF Over, Batch, After, PhaseInv, TypeInv, TypeOK, JobsOK, Planned, Busy, Removing
<1>0. pc # "idle"
  OBVIOUS
<1>1. ASSUME NEW q \in Pkg, PlanSteps(q) \/ ResolveError(q) PROVE FALSE
  BY <1>1 DEF PlanSteps, ResolveError, Resolve, Plan, Download
<1>2. ASSUME NEW q \in Pkg, CommitSteps(q)
      PROVE  Over(p)' /\ cmd' = cmd /\ job' = job /\ store'[p] = store[p]
  BY <1>2 DEF CommitSteps, Fetched, KeptUnlink, KeptLink, KeptAlone, KeptRecord, KeptAsIs, Prune, Turn, Take
<1>3. CASE ResolveDone \/ PlanDone \/ DownloadDone
  BY <1>3 DEF ResolveDone, PlanDone, DownloadDone
<1>4. CASE PlanCommitted \/ Extract \/ Seal \/ Unlink \/ UnlinkKept
  BY <1>4 DEF PlanCommitted, Extract, Seal, Unlink, UnlinkKept
<1>5. CASE Wipe \/ Rename \/ Link \/ Relink \/ Save
  BY <1>5 DEF Wipe, Rename, Link, Relink, Save, SaveMeta, Next1
<1>6. CASE ResetProfiles \/ (\E f \in Profile : BuildProfile(f)) \/ ProfilesBuilt \/ PruneDone
  BY <1>6 DEF ResetProfiles, BuildProfile, ProfilesBuilt, PruneDone
<1>7. CASE Sweep
  BY <1>7 DEF Sweep, Stop, Fail, Killed, Reset
<1>8. CASE RemoveUnlink \/ RemoveFromProfiles \/ RemoveWipe
  BY <1>8 DEF RemoveUnlink, RemoveFromProfiles, RemoveWipe
<1> QED
  BY <1>0, <1>1, <1>2, <1>3, <1>4, <1>5, <1>6, <1>7, <1>8, WorkStep

\* How the turn of a package ends.
LEMMA TurnEnds ==
  ASSUME TypeInv, PhaseInv, Next, NEW p \in Pkg, ~Over(p), Over(p)'
  PROVE  /\ cmd' = cmd /\ job' = job
         /\ \/ KeptAsIs(p)
            \/ /\ p = cur /\ pc' = "commit"
               /\ \/ Rename /\ ~Wanted(p)
                  \/ Link
                  \/ Relink /\ job[p].wasLinked
                  \/ Save
<1> USE DEF Over, Batch, After, PhaseInv, TypeInv, TypeOK, JobsOK, Planned, Busy, Removing
<1>0. pc # "idle"
  <2>1. ~\E x \in UserPaths : UserFile(x)
    BY DEF UserFile
  <2> QED
    BY <2>1, IdleStep, Begins
<1>1. pc' # "idle"
  OBVIOUS
<1>2. ASSUME NEW q \in Pkg, PlanSteps(q) \/ ResolveError(q) PROVE FALSE
  BY <1>2 DEF PlanSteps, ResolveError, Resolve, Plan, Download
<1>3. ASSUME NEW q \in Pkg, CommitSteps(q) PROVE cmd' = cmd /\ job' = job /\ KeptAsIs(p)
  BY <1>3 DEF CommitSteps, Fetched, KeptUnlink, KeptLink, KeptAlone, KeptRecord, KeptAsIs, Prune, Turn, Take
<1>4. ~(ResolveDone \/ PlanDone \/ DownloadDone)
  BY DEF ResolveDone, Stop, Fail, Killed, Reset, PlanDone, DownloadDone
<1>5. ~(PlanCommitted \/ Extract \/ Seal \/ Unlink \/ UnlinkKept \/ Wipe)
  BY DEF PlanCommitted, Extract, Seal, Unlink, UnlinkKept, Wipe
<1>6. CASE Rename \/ Link \/ Relink \/ Save
  BY <1>6 DEF Rename, Link, Relink, Save, Next1
<1>7. ~(ResetProfiles \/ (\E f \in Profile : BuildProfile(f)) \/ ProfilesBuilt \/ PruneDone)
  BY DEF ResetProfiles, BuildProfile, ProfilesBuilt, PruneDone
<1>8. ~Sweep
  BY DEF Sweep, Stop, Fail, Killed, Reset
<1>9. ~(RemoveUnlink \/ RemoveFromProfiles \/ RemoveWipe)
  BY DEF RemoveUnlink, RemoveFromProfiles, RemoveWipe
<1> QED
  BY <1>0, <1>1, <1>2, <1>3, <1>4, <1>5, <1>6, <1>7, <1>8, <1>9, WorkStep

-----------------------------------------------------------------------------
(***************************************************************************)
(* FetchRepairs: what Rename puts in place is whole and in the mode asked  *)
(* for, and it is still there when the command ends.                       *)
(***************************************************************************)
Repaired(p) == store[p] = Packages!Whole(p, job[p].ver, Wanted(p))
FetchInv ==
  \A p \in Pkg : job[p].fetch /\ (Over(p) \/ (pc = "link" /\ p = cur)) => Repaired(p)

RepairInv == PlanInv /\ StageInv /\ PhaseInv /\ FetchInv

LEMMA FetchStep ==
  ASSUME RepairInv, Next
  PROVE  FetchInv'
<1>t. TypeInv /\ StepHolds /\ StageInv /\ PhaseInv
  BY DEF RepairInv, PlanInv
<1>0. TypeInv'
  BY <1>t, TypeNext
<1> SUFFICES ASSUME NEW p \in Pkg, job'[p].fetch, Over(p)' \/ (pc' = "link" /\ p = cur')
             PROVE  Repaired(p)'
  BY DEF FetchInv
<1>1. ASSUME Rename, p = cur PROVE Repaired(p)'
  <2>1. /\ store' = [store EXCEPT ![p] = stage] /\ job' = job /\ cmd' = cmd
        /\ stage = Packages!Whole(p, job[p].ver, Wanted(p))
    BY <1>1, <1>t DEF Rename, StageInv
  <2> QED
    BY <2>1, <1>t DEF Repaired, Wanted, Packages!Whole, TypeInv, TypeOK
<1>2. ASSUME job' = job, cmd' = cmd, store'[p] = store[p], Repaired(p) PROVE Repaired(p)'
  BY <1>2 DEF Repaired, Wanted, Packages!Whole
<1>3. CASE Over(p) /\ Over(p)'
  <2>1. pc' # "idle"
    BY <1>3 DEF Over, After, Removing, Busy
  <2> QED
    BY <1>2, <1>3, <1>t, <2>1, OverStays DEF RepairInv, FetchInv
<1>4. CASE ~Over(p) /\ Over(p)'
  <2>1. /\ cmd' = cmd /\ job' = job
        /\ KeptAsIs(p) \/ (p = cur /\ (Rename \/ Link \/ Relink \/ Save))
    BY <1>4, <1>t, TurnEnds
  <2>2. ~KeptAsIs(p) /\ ~(p = cur /\ (Relink \/ Save))
    BY <1>t, <2>1 DEF KeptAsIs, KeptAlone, StepHolds, Relink, Save
  <2>3. ASSUME Link, p = cur PROVE Repaired(p)'
    BY <1>2, <2>1, <2>3 DEF Link, RepairInv, FetchInv
  <2> QED
    BY <1>1, <2>1, <2>2, <2>3
<1>5. CASE pc' = "link" /\ p = cur'
  <2>1. (Rename /\ p = cur) \/ UNCHANGED <<pc, cur, job, cmd, store>>
    <3>1. pc # "idle"
      BY <1>5, IdleStep, Begins DEF UserFile, Removing
    <3>2. ASSUME NEW q \in Pkg, PlanSteps(q) \/ ResolveError(q) \/ CommitSteps(q) PROVE FALSE
      BY <1>5, <3>2 DEF PlanSteps, ResolveError, CommitSteps, Resolve, Plan, Download, Fetched,
        KeptUnlink, KeptLink, KeptAlone, KeptRecord, KeptAsIs, Prune, Turn, Take
    <3> QED
      BY <1>5, <3>1, <3>2, WorkStep DEF ResolveDone, Stop, Fail, Killed, Reset, PlanDone, DownloadDone,
        PlanCommitted, Extract, Seal, Unlink, Wipe, Rename, Next1, Link, UnlinkKept, Relink, Save,
        ResetProfiles, BuildProfile, ProfilesBuilt, Sweep, PruneDone, RemoveUnlink,
        RemoveFromProfiles, RemoveWipe
  <2> QED
    BY <1>1, <1>2, <1>5, <2>1 DEF RepairInv, FetchInv
<1> QED
  BY <1>3, <1>4, <1>5

\* A package that a successful command fetched is the version it resolved to, all
\* of it, in the mode asked for, whatever was left of it by an interruption at any
\* point of an earlier command: a forced re-run repairs (install.go:94-100, 154-164).
THEOREM FetchesRepair ==
  ASSUME Shared = {}
  PROVE  Spec => []FetchRepairs
<1>1. Init => RepairInv
  BY PlanInit, PhaseInit DEF Init, RepairInv, StageInv, FetchInv, NoJob
<1>2. RepairInv /\ [Next]_vars => RepairInv'
  <2> SUFFICES ASSUME RepairInv, [Next]_vars PROVE RepairInv'
    OBVIOUS
  <2>1. CASE Next
    BY <2>1, PlanNext, StageStep, PhaseStep, FetchStep DEF RepairInv, PlanInv
  <2>2. CASE UNCHANGED vars
    <3>1. PlanInv'
      BY <2>2, PlanNext DEF RepairInv
    <3>2. StageInv' /\ PhaseInv'
      BY <2>2 DEF vars, RepairInv, StageInv, PhaseInv, Wanted, Packages!Whole, Installed
    <3>3. FetchInv'
      BY <2>2 DEF vars, RepairInv, FetchInv, Over, Repaired, Wanted, Packages!Whole
    <3> QED
      BY <3>1, <3>2, <3>3 DEF RepairInv
  <2> QED
    BY <2>1, <2>2
<1>3. RepairInv => FetchRepairs
  <2> SUFFICES ASSUME RepairInv, pc = "done", NEW p \in cmd.names, job[p].fetch
               PROVE  /\ store[p].digest = job[p].ver
                      /\ store[p].ver = store[p].digest
                      /\ store[p].files = Files[p][store[p].digest]
                      /\ store[p].linked <=> Wanted(p)
    BY DEF FetchRepairs
  <2>1. p \in Pkg /\ cmd.op \in Batch
    BY DEF RepairInv, PlanInv, TypeInv, TypeOK, Cmd, PhaseInv, Batch
  <2>2. Repaired(p)
    BY <2>1 DEF RepairInv, FetchInv, Over, After
  <2> QED
    BY <2>2 DEF Repaired, Packages!Whole
<1> QED BY <1>1, <1>2, <1>3, PTL DEF Spec

-----------------------------------------------------------------------------
(***************************************************************************)
(* SyncConverges.  Its parts are reached one after the other: the packages *)
(* and the root links in the commit loop (Settled, RootsInv), then the     *)
(* profile trees (TreesInv), then the prune (PrunedInv); and each survives *)
(* what comes after it.  That no other link is left rests on the links of  *)
(* every package being owned all the time (LinkInv).                       *)
(***************************************************************************)

\* The plan of a sync names every package its lists and profiles name.
ManifestInv ==
  cmd.op = "sync" =>
    /\ cmd.linked \subseteq Range(cmd.order) /\ Range(cmd.order) \subseteq cmd.names
    /\ \A f \in Profile : Range(cmd.profiles[f]) \subseteq cmd.names

\* The loop takes the packages in the order of the plan.
InOrder ==
  pc \in Busy \cup {"commit"} =>
    \A p \in cmd.names \ pending :
      /\ Before(p) \cap pending = {}
      /\ pc \in Busy /\ p # cur => cur \notin Before(p)

\* A package whose turn is over is installed as the plan wants it.
Settled == \A p \in Pkg : Over(p) => Installed(p) /\ (store[p].linked <=> Wanted(p))

\* Its root links are its own, or those of a package that came later.
LinksMade(p) == Over(p) \/ (pc = "save" /\ p = cur)
Owns(p, x) ==
  \/ root[x] = p
  \/ \E q \in cmd.linked : LinksMade(q) /\ x \in Covered(store[q].files) /\ Place(p) < Place(q)
RootsInv ==
  cmd.op = "sync" =>
    \A p \in cmd.linked : LinksMade(p) => \A x \in store[p].files : Owns(p, x)

Late == {"build", "sweep", "prune", "done"} \cup Removing
TreesInv ==
  cmd.op = "sync" /\ pc \in Late =>
    \A f \in Profile : (pc = "build" /\ f \in unbuilt) \/ profile[f] = Tree(cmd.profiles[f])

\* Of the packages that the plan does not name, those still there are to go.
PrunedInv ==
  cmd.op = "sync" =>
    /\ pc \in {"prune"} \cup Removing =>
         \A p \in Pkg \ cmd.names : Installed(p) => p \in pending \/ (pc \in Removing /\ p = cur)
    /\ pc = "done" /\ cmd.prune => \A p \in Pkg : Installed(p) => p \in cmd.names

SyncInv ==
  /\ LinkInv /\ PlanInv /\ PhaseInv /\ ManifestInv /\ InOrder
  /\ Settled /\ RootsInv /\ TreesInv /\ PrunedInv

-----------------------------------------------------------------------------
(* Places in the plan. *)

\* A list put after another adds its packages.
LEMMA RangeOfBoth ==
  ASSUME NEW s \in Seq(Pkg), NEW r \in Seq(Pkg)
  PROVE  Range(s \o r) = Range(s) \cup Range(r)
<1>1. ASSUME NEW i \in DOMAIN s PROVE s[i] \in Range(s \o r)
  <2>1. i \in DOMAIN (s \o r) /\ (s \o r)[i] = s[i]
    OBVIOUS
  <2> QED
    BY <2>1 DEF Range
<1>2. ASSUME NEW i \in DOMAIN r PROVE r[i] \in Range(s \o r)
  <2>1. Len(s) + i \in DOMAIN (s \o r) /\ (s \o r)[Len(s) + i] = r[i]
    OBVIOUS
  <2> QED
    BY <2>1 DEF Range
<1>3. ASSUME NEW i \in DOMAIN (s \o r) PROVE (s \o r)[i] \in Range(s) \cup Range(r)
  <2>1. CASE i \in DOMAIN s
    <3>1. (s \o r)[i] = s[i]
      BY <2>1
    <3> QED
      BY <2>1, <3>1 DEF Range
  <2>2. CASE i \notin DOMAIN s
    <3>1. i - Len(s) \in DOMAIN r /\ (s \o r)[i] = r[i - Len(s)]
      BY <2>2
    <3> QED
      BY <3>1 DEF Range
  <2> QED BY <2>1, <2>2
<1> QED
  BY <1>1, <1>2, <1>3 DEF Range

\* A package that a list names has a first place in it.
LEMMA FirstPlace ==
  ASSUME NEW s \in Seq(Pkg), NEW p \in Range(s)
  PROVE  \E i \in DOMAIN s : s[i] = p /\ \A j \in 1..(i - 1) : s[j] # p
<1> DEFINE D == 1..Len(s)
           I == {i \in D : s[i] = p}
           A == {1..i : i \in I}
<1>1. IsFiniteSet(D) /\ I # {} /\ DOMAIN s = D
  <2>1. DOMAIN s = D /\ Len(s) \in Nat
    OBVIOUS
  <2>2. IsFiniteSet(D)
    BY <2>1, FS_Interval
  <2>3. PICK i \in DOMAIN s : s[i] = p
    BY DEF Range
  <2> QED
    BY <2>1, <2>2, <2>3
<1>2. IsWellFoundedOn(StrictSubsetOrdering(D), FiniteSubsetsOf(D))
  BY <1>1, FS_StrictSubsetOrderingWellFounded
<1>3. A \subseteq FiniteSubsetsOf(D) /\ A # {}
  <2>1. \A i \in I : 1..i \subseteq D
    OBVIOUS
  <2> HIDE DEF I, D
  <2>2. \A B \in SUBSET D : IsFiniteSet(B)
    BY <1>1, FS_Subset
  <2> QED
    BY <1>1, <2>1, <2>2 DEF FiniteSubsetsOf
<1>4. PICK M \in A : \A N \in A : <<N, M>> \notin StrictSubsetOrdering(D)
  <2> HIDE DEF A
  <2> QED
    BY <1>2, <1>3, WFMin
<1>5. PICK i \in I : M = 1..i
  OBVIOUS
<1>6. ASSUME NEW j \in 1..(i - 1), s[j] = p PROVE FALSE
  <2>1. j \in I /\ 1..j \in A
    BY <1>6
  <2>2. 1..j \subseteq 1..i /\ 1..j # 1..i /\ 1..i \subseteq D
    <3>1. i \in 1..i /\ i \notin 1..j
      BY <1>6
    <3> QED
      BY <1>6, <3>1
  <2> HIDE DEF A, I
  <2>3. <<1..j, M>> \in StrictSubsetOrdering(D)
    BY <2>2, <1>5 DEF StrictSubsetOrdering
  <2> QED
    BY <2>1, <2>3, <1>4
<1> QED
  BY <1>1, <1>6

LEMMA PlaceIs ==
  ASSUME cmd.order \in Seq(Pkg), NEW p \in Range(cmd.order)
  PROVE  /\ Place(p) \in 1..Len(cmd.order)
         /\ cmd.order[Place(p)] = p
         /\ \A j \in 1..(Place(p) - 1) : cmd.order[j] # p
BY FirstPlace DEF Place

\* What does not come before p comes after it.
LEMMA PlaceAfter ==
  ASSUME cmd.order \in Seq(Pkg), NEW p \in Range(cmd.order), NEW q \in Range(cmd.order),
         p # q, q \notin Before(p)
  PROVE  Place(p) < Place(q)
<1>1. /\ Place(p) \in 1..Len(cmd.order) /\ Place(q) \in 1..Len(cmd.order)
      /\ cmd.order[Place(p)] = p /\ cmd.order[Place(q)] = q
      /\ \A j \in 1..(Place(p) - 1) : cmd.order[j] # p
  BY PlaceIs
<1> SUFFICES ASSUME Place(q) < Place(p) PROVE FALSE
  BY <1>1
<1>2. \A i \in 1..Place(q) : cmd.order[i] # p
  BY <1>1
<1>3. q \in Before(p)
  BY <1>1, <1>2 DEF Before
<1> QED BY <1>3

-----------------------------------------------------------------------------
(* The trees of the profiles. *)

\* A tree depends on the files of its packages only.
LEMMA TreeSame ==
  ASSUME NEW s \in Seq(Pkg), \A q \in Range(s) : store'[q].files = store[q].files
  PROVE  Tree(s)' = Tree(s)
<1>1. \A i \in DOMAIN s : store'[s[i]].files = store[s[i]].files
  BY DEF Range
<1>2. ASSUME NEW x \in Path, NEW i \in DOMAIN s PROVE LastWith(s, x, i)' <=> LastWith(s, x, i)
  BY <1>1 DEF LastWith, Covered, DirsOf
<1>3. ASSUME NEW x \in Path PROVE LastAt(s, x)' = LastAt(s, x)
  BY <1>2 DEF LastAt
<1>4. ASSUME NEW x \in Path, \E i \in DOMAIN s : LastWith(s, x, i)
      PROVE  LastAt(s, x) \in DOMAIN s
  BY <1>4 DEF LastAt
<1> QED
  BY <1>1, <1>2, <1>3, <1>4 DEF Tree

\* It links nothing but its packages.
LEMMA TreeRange ==
  ASSUME NEW s \in Seq(Pkg), NEW x \in Path
  PROVE  Tree(s)[x] \in Range(s) \cup {None, Folder}
<1>1. CASE \E i \in DOMAIN s : LastWith(s, x, i)
  <2>1. LastAt(s, x) \in DOMAIN s
    BY <1>1 DEF LastAt
  <2> QED
    BY <1>1, <2>1 DEF Tree, Range
<1>2. CASE ~\E i \in DOMAIN s : LastWith(s, x, i)
  BY <1>2 DEF Tree
<1> QED BY <1>1, <1>2

LEMMA TreeOfNothing == Tree(<< >>) = NoLinks
BY DEF Tree, NoLinks

-----------------------------------------------------------------------------
(* The steps. *)

\* The command is the same from its first step to its last.
LEMMA CmdStep ==
  ASSUME TypeInv, Next
  PROVE  \/ cmd' = cmd
         \/ cmd' = NoCmd /\ pc' = "idle"
         \/ Start
<1>1. CASE pc = "idle"
  BY <1>1, IdleStep DEF UserFile
<1>2. CASE pc # "idle" /\ pc' # "idle"
  BY <1>2, WorkStep
<1>3. CASE pc # "idle" /\ pc' = "idle"
  <2>1. ~Start /\ ~\E x \in UserPaths : UserFile(x)
    BY <1>3 DEF Start, StartInstall, StartUpgrade, StartUpgradeAll, StartSync, StartRemove,
      UserFile
  <2>2. CASE Reset
    BY <1>3, <2>2 DEF Reset
  <2>3. CASE Work
    BY <1>3, <2>2, <2>3 DEF Work, PlanSteps, CommitSteps, Resolve, Plan, Download,
      Fetched, KeptUnlink, KeptLink, KeptAlone, KeptRecord, KeptAsIs, Prune, Take, ResolveDone, Stop, Fail, Killed, PlanDone,
      DownloadDone, PlanCommitted, Extract, Seal, Unlink, Wipe, Rename, Link, UnlinkKept,
      Relink, Save, ResetProfiles, BuildProfile, ProfilesBuilt, Sweep, PruneDone,
      RemoveUnlink, RemoveFromProfiles, RemoveWipe, Finish
  <2>4. CASE Failure
    BY <2>2, <2>4 DEF Failure, ResolveError, Die, UnlinkCut, LinkCut, WipeCut, ProfilesCut,
      RemoveProfilesCut, BuildCut, Stop, Fail, Killed
  <2> QED
    BY <2>1, <2>3, <2>4 DEF Next
<1> QED BY <1>1, <1>2, <1>3

LEMMA ManifestStep ==
  ASSUME TypeInv, ManifestInv, Next
  PROVE  ManifestInv'
<1>1. CASE cmd' = cmd
  BY <1>1 DEF ManifestInv
<1>2. CASE cmd' = NoCmd
  BY <1>2 DEF ManifestInv, NoCmd
<1>3. CASE Start
  <2>1. CASE \E m \in Manifests, g \in SyncFlags : StartSync(m, g)
    <3>1. PICK m \in Manifests, g \in SyncFlags : StartSync(m, g)
      BY <2>1
    <3>2. /\ m.link \in Seq(Pkg) /\ m.unlink \in Seq(Pkg)
      BY ConstantsAssumption
    <3>3. /\ cmd'.order = m.link \o m.unlink /\ cmd'.linked = Range(m.link)
          /\ cmd'.profiles = m.profiles
          /\ cmd'.names = Range(m.link) \cup Range(m.unlink)
                            \cup UNION {Range(m.profiles[f]) : f \in Profile}
      BY <3>1 DEF StartSync, Begin
    <3>4. Range(m.link \o m.unlink) = Range(m.link) \cup Range(m.unlink)
      BY <3>2, RangeOfBoth
    <3> QED
      BY <3>3, <3>4 DEF ManifestInv
  <2>2. CASE cmd'.op # "sync"
    BY <2>2 DEF ManifestInv
  <2>3. ASSUME NEW q, StartRemove(q) PROVE cmd'.op # "sync"
    BY <2>3 DEF StartRemove, NoCmd
  <2> QED
    BY <1>3, <2>1, <2>2, <2>3 DEF Start, StartInstall, StartUpgrade, StartUpgradeAll, Begin
<1> QED BY <1>1, <1>2, <1>3, CmdStep

LEMMA OrderStep ==
  ASSUME TypeInv, PhaseInv, InOrder, Next
  PROVE  InOrder'
<1> SUFFICES ASSUME pc' \in Busy \cup {"commit"}
             PROVE  InOrder'
  BY DEF InOrder
<1> USE DEF TypeInv, TypeOK, JobsOK, Planned, Busy, Removing
<1>0. pc # "idle"
  BY IdleStep, Begins DEF UserFile
<1>1. cmd' = cmd /\ \A q : Before(q)' = Before(q)
  <2>1. cmd' = cmd
    BY <1>0, WorkStep
  <2> QED
    BY <2>1 DEF Before
<1>2. ASSUME NEW q \in Pkg, PlanSteps(q) \/ ResolveError(q) \/ Prune(q) PROVE FALSE
  BY <1>2 DEF PlanSteps, ResolveError, Resolve, Plan, Download, Prune, Take
<1>3. ASSUME NEW q \in Pkg, Fetched(q) \/ KeptUnlink(q) \/ KeptLink(q) \/ KeptRecord(q)
             \/ KeptAsIs(q)
      PROVE  InOrder'
  BY <1>1, <1>3 DEF InOrder, Fetched, KeptUnlink, KeptLink, KeptAlone, KeptRecord, KeptAsIs, Turn, Take
<1>4. CASE DownloadDone
  BY <1>1, <1>4 DEF InOrder, DownloadDone
<1>5. CASE Extract \/ Seal \/ Unlink \/ UnlinkKept
  BY <1>1, <1>5 DEF InOrder, Extract, Seal, Unlink, UnlinkKept
<1>6. CASE Wipe \/ Rename \/ Link \/ Relink \/ Save
  BY <1>1, <1>6 DEF InOrder, Wipe, Rename, Link, Relink, Save, Next1
<1>7. ~(ResolveDone \/ PlanDone \/ PlanCommitted \/ Sweep)
  BY DEF ResolveDone, PlanDone, PlanCommitted, Sweep, Stop, Fail, Killed, Reset
<1>8. ~(ResetProfiles \/ (\E f \in Profile : BuildProfile(f)) \/ ProfilesBuilt \/ PruneDone)
  BY DEF ResetProfiles, BuildProfile, ProfilesBuilt, PruneDone
<1>9. ~(RemoveUnlink \/ RemoveFromProfiles \/ RemoveWipe)
  BY DEF RemoveUnlink, RemoveFromProfiles, RemoveWipe
<1>10. pc' # "idle"
  OBVIOUS
<1> QED
  BY <1>0, <1>2, <1>3, <1>4, <1>5, <1>6, <1>7, <1>8, <1>9, <1>10, WorkStep DEF CommitSteps

\* A turn ends with the package installed, and in its link mode.
LEMMA SettledStep ==
  ASSUME PlanInv, PhaseInv, Settled, Next
  PROVE  Settled'
<1> SUFFICES ASSUME NEW p \in Pkg, Over(p)'
             PROVE  store'[p].digest # None /\ (store'[p].linked <=> Wanted(p)')
  BY DEF Settled, Installed
<1>t. TypeInv /\ PlanHolds /\ StepHolds /\ store \in [Pkg -> Dir] /\ None \notin Ver
  BY ConstantsAssumption DEF PlanInv, TypeInv, TypeOK
<1>1. CASE Over(p)
  <2>1. pc' # "idle"
    BY DEF Over, After, Removing, Busy
  <2>2. store'[p] = store[p] /\ cmd' = cmd
    BY <1>t, <1>1, <2>1, OverStays
  <2> QED
    BY <1>1, <2>2 DEF Settled, Installed, Wanted
<1>2. CASE ~Over(p)
  <2>1. /\ cmd' = cmd /\ job' = job
        /\ \/ KeptAsIs(p)
           \/ p = cur /\ (Rename \/ Link \/ (Relink /\ job[p].wasLinked) \/ Save)
    BY <1>t, <1>2, TurnEnds
  <2>2. p \in cmd.names /\ job[p].ver # None /\ (Wanted(p)' <=> Wanted(p))
    <3>1. p \in cmd.names /\ cmd.op \in Batch
      BY <2>1 DEF Over
    <3>2. pc # "resolve"
      BY <2>1 DEF KeptAsIs, KeptAlone, Turn, Rename, Link, Relink, Save
    <3> QED
      BY <1>t, <2>1, <3>1, <3>2 DEF TypeInv, JobsOK, Batch, Wanted
  <2>3. CASE KeptAsIs(p)
    <3>1. Pictured(p) /\ ~job[p].fetch /\ ~job[p].wasLinked /\ ~Wanted(p) /\ store' = store
      BY <2>3 DEF KeptAsIs, KeptAlone, Turn, Pictured
    <3> QED
      BY <1>t, <2>2, <3>1 DEF PlanHolds
  <2>4. CASE p = cur /\ Rename
    <3>1. store'[p] = stage
      BY <1>t, <2>4 DEF Rename
    <3> QED
      BY <1>t, <2>2, <2>4, <3>1 DEF StepHolds, Rename
  <2>5. CASE p = cur /\ Link
    BY <1>t, <2>2, <2>5 DEF Link, StepHolds, Installed
  <2>6. CASE p = cur /\ Relink /\ job[p].wasLinked
    <3>1. Pictured(p) /\ ~job[p].fetch /\ Wanted(p) /\ store' = store
      BY <1>t, <2>6 DEF Relink, Pictured, StepHolds
    <3> QED
      BY <1>t, <2>2, <2>6, <3>1 DEF PlanHolds
  <2>7. CASE p = cur /\ Save
    <3>1. store' = [store EXCEPT ![p].digest = job[p].ver, ![p].linked = Wanted(p)]
      BY <2>7 DEF Save, SaveMeta
    <3>2. store'[p].digest = job[p].ver /\ store'[p].linked = Wanted(p)
      BY <1>t, <3>1 DEF Dir
    <3> QED
      BY <2>2, <3>2
  <2> QED
    BY <2>1, <2>3, <2>4, <2>5, <2>6, <2>7
<1> QED BY <1>1, <1>2

\* Links once made stay made, and so do the files they lead to.
LEMMA MadeStays ==
  ASSUME TypeInv, PhaseInv, Next, NEW p \in Pkg, LinksMade(p), pc' # "idle"
  PROVE  LinksMade(p)' /\ store'[p].files = store[p].files
<1>1. CASE Over(p)
  BY <1>1, OverStays DEF LinksMade
<1>2. CASE pc = "save" /\ p = cur
  <2>1. Save
    <3>1. pc # "idle"
      BY <1>2
    <3>2. ASSUME NEW q \in Pkg, PlanSteps(q) \/ ResolveError(q) \/ CommitSteps(q) PROVE FALSE
      BY <1>2, <3>2 DEF PlanSteps, ResolveError, CommitSteps, Resolve, Plan, Download, Fetched,
        KeptUnlink, KeptLink, KeptAlone, KeptRecord, KeptAsIs, Prune, Turn
    <3> QED
      BY <1>2, <3>1, <3>2, WorkStep DEF ResolveDone, PlanDone, DownloadDone, PlanCommitted,
        Extract, Seal, Unlink, Wipe, Rename, Link, UnlinkKept, Relink, ResetProfiles,
        BuildProfile, ProfilesBuilt, Sweep, PruneDone, RemoveUnlink, RemoveFromProfiles, RemoveWipe
  <2>2. Over(p)'
    BY <1>2, <2>1 DEF Save, Next1, Over, Batch, TypeInv, JobsOK, Planned, Busy
  <2>3. store'[p].files = store[p].files
    <3>1. store' = [store EXCEPT ![p].digest = job[p].ver, ![p].linked = Wanted(p)]
      BY <1>2, <2>1 DEF Save, SaveMeta
    <3> QED
      BY <3>1 DEF TypeInv, TypeOK, Dir
  <2> QED
    BY <2>2, <2>3 DEF LinksMade
<1> QED BY <1>1, <1>2 DEF LinksMade

\* The steps on the prefix links that a command takes and goes on.
LEMMA RootStep ==
  ASSUME Next, pc # "idle", pc' # "idle"
  PROVE  \/ root' = root
         \/ Unlink \/ UnlinkKept \/ RemoveUnlink
         \/ Link \/ Relink
BY WorkStep DEF PlanSteps, CommitSteps, Resolve, ResolveError, Plan, Download, Fetched,
  KeptUnlink, KeptLink, KeptAlone, KeptRecord, KeptAsIs, Prune, Take, ResolveDone, Stop, Fail, Killed, Reset, PlanDone, DownloadDone,
  PlanCommitted, Extract, Seal, Wipe, Rename, Save, ResetProfiles, BuildProfile, ProfilesBuilt,
  Sweep, PruneDone, RemoveFromProfiles, RemoveWipe

\* Linking a package ends with its links made (Relink: but for the metadata).
LEMMA LinkMakes ==
  ASSUME TypeInv, StepHolds, NEW p, p = cur, Link \/ Relink
  PROVE  /\ p \in cmd.linked /\ p \in Pkg /\ LinksMade(p)'
         /\ root' = With(root, p, store[p].files) /\ store' = store
<1>1. /\ pc \in Busy /\ p \in cmd.linked
      /\ root' = With(root, p, store[p].files) /\ store' = store
      /\ cmd' = cmd /\ pending' = pending
      /\ pc' = "commit" \/ (pc' = "save" /\ p = cur')
  BY DEF Link, Relink, Next1, StepHolds, Wanted, Busy
<1>2. p \in Pkg /\ p \in cmd.names /\ p \notin pending /\ cmd.op \in Batch
  BY <1>1 DEF TypeInv, TypeOK, Cmd, JobsOK, Planned, Busy, Batch
<1> QED
  BY <1>1, <1>2 DEF LinksMade, Over

\* A package that gives up a path gives it to one that comes later in the plan.
LEMMA RootsStep ==
  ASSUME SyncInv, Next
  PROVE  RootsInv'
<1> SUFFICES ASSUME cmd'.op = "sync", NEW p \in cmd'.linked, LinksMade(p)',
                    NEW x \in store'[p].files
             PROVE  Owns(p, x)'
  BY DEF RootsInv
<1>t. /\ TypeInv /\ PhaseInv /\ StepHolds /\ ManifestInv /\ InOrder
      /\ TypeInv' /\ None \notin Pkg
  BY TypeNext, ConstantsAssumption DEF SyncInv, PlanInv
<1>0. pc # "idle" /\ pc' # "idle"
  <2>1. pc' # "idle"
    BY DEF LinksMade, Over, After, Removing, Busy
  <2>2. CASE pc = "idle"
    <3>1. ~\E y \in UserPaths : UserFile(y)
      BY <2>1, <2>2 DEF UserFile
    <3>2. pc' = "resolve"
      BY <2>2, <3>1, IdleStep, Begins
    <3> QED
      BY <3>2 DEF LinksMade, Over, After, Removing, Busy
  <2> QED
    BY <2>1, <2>2
<1>1. cmd' = cmd
  BY <1>0, WorkStep
<1>2. /\ p \in cmd.linked /\ p \in Pkg /\ p \in cmd.names /\ p \in Range(cmd.order)
      /\ cmd.linked \subseteq Pkg /\ cmd.op = "sync" /\ cmd.order \in Seq(Pkg)
      /\ cmd.linked \subseteq Range(cmd.order)
  BY <1>1, <1>t DEF ManifestInv, TypeInv, TypeOK, Cmd
<1>3. \A q : Place(q)' = Place(q)
  BY <1>1 DEF Place
<1>4. CASE ~LinksMade(p)
  <2>1. root'[x] = p
    <3>1. Link \/ Relink => cur # p \/ root'[x] = p
      <4>1. ASSUME Link \/ Relink, cur = p PROVE root'[x] = p
        <5>1. root' = With(root, p, store[p].files) /\ store' = store
          BY <1>t, <4>1, LinkMakes
        <5>2. x \in Path /\ x \in store[p].files
          BY <1>2, <5>1, <1>t DEF TypeInv, TypeOK, Dir
        <5> QED
          BY <5>1, <5>2 DEF With
      <4> QED BY <4>1
    <3>2. CASE Over(p)'
      <4>1. \/ KeptAsIs(p)
            \/ p = cur /\ ((Rename /\ ~Wanted(p)) \/ Link \/ Relink \/ Save)
        BY <1>2, <1>4, <1>t, <3>2, TurnEnds DEF LinksMade
      <4>2. ~KeptAsIs(p) /\ Wanted(p)
        BY <1>2 DEF KeptAsIs, KeptAlone, Wanted
      <4>3. ~(p = cur /\ Save)
        BY <1>4 DEF LinksMade, Save
      <4> QED
        BY <3>1, <4>1, <4>2, <4>3
    <3>3. CASE pc' = "save" /\ p = cur'
      <4>1. (UnlinkKept \/ Relink) /\ cur' = cur
        <5>2. ASSUME NEW q \in Pkg, PlanSteps(q) \/ ResolveError(q) \/ CommitSteps(q) PROVE FALSE
          BY <1>2, <1>4, <3>3, <5>2 DEF Wanted, LinksMade, PlanSteps, ResolveError, CommitSteps, Resolve, Plan,
            Download, Fetched, KeptUnlink, KeptLink, KeptAlone, KeptRecord, KeptAsIs, Prune, Turn, Take
        <5> QED
          BY <1>0, <1>4, <3>3, <5>2, WorkStep DEF LinksMade, ResolveDone, Stop, Fail, Killed, Reset, PlanDone,
            DownloadDone, PlanCommitted, Extract, Seal, Unlink, Wipe, Rename, Next1, Link,
            UnlinkKept, Relink, Save, ResetProfiles, BuildProfile, ProfilesBuilt, Sweep, PruneDone,
            RemoveUnlink, RemoveFromProfiles, RemoveWipe
      <4>2. ~UnlinkKept
        BY <1>2, <1>t, <3>3, <4>1 DEF UnlinkKept, StepHolds, Wanted
      <4> QED
        BY <3>1, <3>3, <4>1, <4>2
    <3> QED
      BY <3>2, <3>3 DEF LinksMade
  <2> QED
    BY <2>1 DEF Owns
<1>5. CASE LinksMade(p)
  <2>1. store'[p].files = store[p].files
    BY <1>0, <1>2, <1>5, <1>t, MadeStays
  <2>2. Owns(p, x)
    BY <1>2, <1>5, <2>1 DEF SyncInv, RootsInv
  <2>3. ASSUME NEW q \in cmd.linked, LinksMade(q), x \in Covered(store[q].files), Place(p) < Place(q)
        PROVE  Owns(p, x)'
    <3>1. LinksMade(q)' /\ store'[q].files = store[q].files
      BY <1>0, <1>2, <1>t, <2>3, MadeStays
    <3> QED
      BY <1>1, <1>3, <2>3, <3>1 DEF Owns
  <2>4. ASSUME root[x] = p PROVE Owns(p, x)'
    <3>1. p # cur \/ pc = "save" \/ pc \notin Busy \cup Removing
      BY <1>2, <1>5, <1>t DEF LinksMade, Over, After, PhaseInv, Busy, Removing
    <3>2. x \in Path
      BY <1>2, <2>1, <1>t DEF TypeInv, TypeOK, Dir
    <3>3. CASE root' = root
      BY <2>4, <3>3 DEF Owns
    <3>4. CASE Unlink \/ UnlinkKept \/ RemoveUnlink
      <4>1. p # cur /\ root' = Without(root, cur, store[cur].files)
        BY <3>1, <3>4 DEF Unlink, UnlinkKept, RemoveUnlink, Busy, Removing
      <4> QED
        BY <2>4, <3>2, <4>1 DEF Without, Owns
    <3>5. CASE Link \/ Relink
      <4>0. PICK q : q = cur
        OBVIOUS
      <4>1. /\ p # q /\ pc \in Busy /\ q \in cmd.linked /\ q \in Pkg /\ LinksMade(q)'
            /\ root' = With(root, q, store[q].files) /\ store' = store
        BY <3>1, <3>5, <4>0, <1>t, LinkMakes DEF Link, Relink, Busy
      <4>2. CASE x \notin Covered(store[q].files)
        BY <2>4, <3>2, <4>1, <4>2 DEF With, Owns, Covered
      <4>3. CASE x \in Covered(store[q].files)
        <5>1. p \notin pending
          BY <1>5, <4>0, <4>1, <1>t DEF LinksMade, Over, After, Busy, Removing
        <5>2. q \notin Before(p) /\ q \in Range(cmd.order)
          BY <1>2, <4>0, <4>1, <5>1, <1>t DEF InOrder
        <5>3. Place(p) < Place(q)
          BY <1>2, <4>1, <5>2, PlaceAfter
        <5> QED
          BY <1>1, <1>3, <4>1, <4>3, <5>3 DEF Owns
      <4> QED BY <4>2, <4>3
    <3> QED
      BY <1>0, <3>3, <3>4, <3>5, RootStep
  <2> QED
    BY <2>2, <2>3, <2>4 DEF Owns
<1> QED BY <1>4, <1>5

\* The steps of a sync after the commit loop.
LEMMA LateStep ==
  ASSUME TypeInv, PhaseInv, Next, cmd'.op = "sync", pc' \in Late
  PROVE  /\ cmd' = cmd
         /\ \/ ResetProfiles
            \/ /\ pc \in Late
               /\ \/ \E f \in Profile : BuildProfile(f)
                  \/ ProfilesBuilt \/ Sweep \/ PruneDone
                  \/ \E p \in Pkg : Prune(p)
                  \/ RemoveUnlink \/ RemoveFromProfiles \/ RemoveWipe
<1>1. pc' # "idle"
  BY DEF Late, Removing
<1>2. pc # "idle"
  BY <1>1, IdleStep, Begins DEF UserFile, Late, Removing
<1>3. ASSUME NEW q \in Pkg, PlanSteps(q) \/ ResolveError(q) \/ CommitSteps(q)
      PROVE  pc \in Late /\ Prune(q)
  BY <1>3 DEF Late, Removing, PlanSteps, ResolveError, CommitSteps, Resolve, Plan, Download,
    Fetched, KeptUnlink, KeptLink, KeptAlone, KeptRecord, KeptAsIs, Prune, Turn, Take
<1>4. cmd' = cmd
  BY <1>1, <1>2, WorkStep
<1>5. ~(ResolveDone \/ PlanDone \/ DownloadDone \/ PlanCommitted)
  BY <1>1, <1>4 DEF ResolveDone, Stop, Fail, Killed, Reset, PlanDone, DownloadDone, PlanCommitted, Late, Removing
<1>6. ~(Extract \/ Seal \/ Unlink \/ Wipe \/ Rename \/ Link \/ UnlinkKept \/ Relink \/ Save)
  BY DEF Extract, Seal, Unlink, Wipe, Rename, Link, UnlinkKept, Relink, Save, Next1, Late, Removing
<1>7. (\E f \in Profile : BuildProfile(f)) \/ ProfilesBuilt \/ Sweep \/ PruneDone
      \/ RemoveUnlink \/ RemoveFromProfiles \/ RemoveWipe => pc \in Late
  BY DEF BuildProfile, ProfilesBuilt, Sweep, PruneDone, RemoveUnlink, RemoveFromProfiles,
    RemoveWipe, Late, Removing
<1> QED
  BY <1>1, <1>2, <1>3, <1>4, <1>5, <1>6, <1>7, WorkStep

\* The trees are built from the files of the plan's packages, which the prune
\* leaves alone.
LEMMA TreesStep ==
  ASSUME SyncInv, Next
  PROVE  TreesInv'
<1>t. /\ TypeInv /\ PhaseInv /\ ManifestInv /\ TreesInv /\ None \notin Pkg /\ Folder \notin Pkg
  BY ConstantsAssumption DEF SyncInv, PlanInv
<1> SUFFICES ASSUME cmd'.op = "sync", pc' \in Late, cmd' = cmd,
                    NEW f \in Profile, ~(pc' = "build" /\ f \in unbuilt'),
                    NEW s, s = cmd.profiles[f]
             PROVE  profile'[f] = Tree(s)'
  <2>1. cmd'.op = "sync" /\ pc' \in Late => cmd' = cmd
    BY <1>t, LateStep
  <2> QED
    BY <2>1 DEF TreesInv
<1>2. /\ s \in Seq(Pkg) /\ Range(s) \subseteq cmd.names /\ cmd.op = "sync"
      /\ profile \in [Profile -> [Path -> Pkg \cup {None, Folder}]]
      /\ store \in [Pkg -> Dir] /\ cmd.names \subseteq Pkg
  BY <1>t DEF ManifestInv, TypeInv, TypeOK, Cmd
<1>3. ASSUME \A q \in cmd.names : store'[q] = store[q] PROVE Tree(s)' = Tree(s)
  BY <1>2, <1>3, TreeSame
<1>4. CASE ResetProfiles
  <2>1. s = << >> /\ profile'[f] = NoLinks
    BY <1>4 DEF ResetProfiles
  <2>2. Tree(s)' = Tree(s)
    BY <1>3, <1>4 DEF ResetProfiles
  <2> QED
    BY <2>1, <2>2, TreeOfNothing
<1>5. ASSUME NEW g \in Profile, BuildProfile(g) PROVE profile'[f] = Tree(s)'
  <2>1. Tree(s)' = Tree(s)
    BY <1>3, <1>5 DEF BuildProfile
  <2>2. CASE f = g
    BY <1>2, <1>5, <2>1, <2>2 DEF BuildProfile
  <2>3. CASE f # g
    BY <1>2, <1>5, <1>t, <2>1, <2>3 DEF BuildProfile, TreesInv, Late
  <2> QED BY <2>2, <2>3
<1>6. ASSUME pc \in Late, ~(pc = "build" /\ f \in unbuilt), profile'[f] = profile[f],
             \A q \in cmd.names : store'[q] = store[q]
      PROVE  profile'[f] = Tree(s)'
  BY <1>2, <1>3, <1>6, <1>t DEF TreesInv
<1>7. CASE pc \in Late /\ (ProfilesBuilt \/ Sweep \/ PruneDone \/ RemoveUnlink
                         \/ \E p \in Pkg : Prune(p))
  <2>1. pc' # "idle"
    BY DEF Late, Removing
  <2>2. profile' = profile /\ store' = store /\ ~(pc = "build" /\ f \in unbuilt)
    BY <1>7, <2>1 DEF ProfilesBuilt, Sweep, Stop, Fail, Killed, Reset, PruneDone, RemoveUnlink, Prune, Take
  <2> QED
    BY <1>6, <1>7, <2>2
<1>8. CASE pc \in Late /\ RemoveFromProfiles
  <2>1. cur \notin cmd.names /\ cur \in Pkg /\ store' = store
        /\ profile'[f] = Without(profile[f], cur, store[cur].files)
    BY <1>2, <1>8, <1>t DEF RemoveFromProfiles, PhaseInv, TypeInv, JobsOK, Removing
  <2>2. profile[f] = Tree(s) /\ \A x \in Path : profile[f][x] # cur
    <3>1. profile[f] = Tree(s)
      BY <1>2, <1>8, <1>t DEF RemoveFromProfiles, TreesInv
    <3> QED
      BY <1>2, <1>t, <2>1, <3>1, TreeRange
  <2>3. profile'[f] = profile[f]
    BY <1>2, <2>1, <2>2 DEF Without
  <2> QED
    BY <1>6, <1>8, <2>1, <2>3 DEF RemoveFromProfiles
<1>9. CASE pc \in Late /\ RemoveWipe
  <2>1. cur \notin cmd.names /\ store' = [store EXCEPT ![cur] = NoDir] /\ profile' = profile
    BY <1>2, <1>9, <1>t DEF RemoveWipe, PhaseInv, Removing
  <2> QED
    BY <1>2, <1>6, <1>9, <2>1 DEF RemoveWipe
<1> QED
  BY <1>t, <1>4, <1>5, <1>7, <1>8, <1>9, LateStep

\* The prune takes what the plan does not name, one package at a time.
LEMMA PrunedStep ==
  ASSUME SyncInv, Next
  PROVE  PrunedInv'
<1>t. TypeInv /\ PhaseInv /\ PrunedInv /\ store \in [Pkg -> Dir]
  BY DEF SyncInv, PlanInv, TypeInv, TypeOK
<1> SUFFICES ASSUME cmd'.op = "sync", pc' \in {"prune", "done"} \cup Removing PROVE PrunedInv'
  BY DEF PrunedInv
<1>1. cmd' = cmd
  BY <1>t, LateStep DEF Late
<1>2. CASE ResetProfiles \/ \E f \in Profile : BuildProfile(f)
  BY <1>2 DEF ResetProfiles, BuildProfile, Removing
<1>3. CASE ProfilesBuilt
  BY <1>1, <1>3 DEF ProfilesBuilt, PrunedInv, Removing
<1>4. CASE Sweep
  BY <1>1, <1>4 DEF Sweep, Stop, Fail, Killed, Reset, Unwanted, PrunedInv, Removing, Installed
<1>5. CASE PruneDone
  BY <1>1, <1>5, <1>t DEF PruneDone, PrunedInv, Removing, Installed
<1>6. ASSUME NEW p \in Pkg, Prune(p) PROVE PrunedInv'
  BY <1>1, <1>6, <1>t DEF Prune, Take, PrunedInv, Removing, Installed
<1>7. CASE RemoveUnlink \/ RemoveFromProfiles
  BY <1>1, <1>7, <1>t DEF RemoveUnlink, RemoveFromProfiles, PrunedInv, Removing, Installed
<1>8. CASE RemoveWipe
  <2>1. pc \in Removing /\ store' = [store EXCEPT ![cur] = NoDir] /\ pc' = "prune"
        /\ pending' = pending
    BY <1>1, <1>8 DEF RemoveWipe, Removing
  <2>2. \A q \in Pkg : Installed(q)' => q # cur /\ Installed(q)
    BY <1>t, <2>1 DEF Installed, NoDir
  <2> QED
    BY <1>1, <1>t, <2>1, <2>2 DEF PrunedInv, Removing
<1> QED
  BY <1>t, <1>2, <1>3, <1>4, <1>5, <1>6, <1>7, <1>8, LateStep DEF Late

-----------------------------------------------------------------------------
\* A sync that succeeds leaves what its manifest says, from whatever prefix it
\* started and wherever earlier commands were cut short, but for links that went
\* astray in one of those (manifest.go:104-166).
THEOREM SyncsConverge == Spec => []SyncConverges
<1>1. Init => SyncInv
  <2> SUFFICES ASSUME Init PROVE SyncInv
    OBVIOUS
  <2>1. cmd.op = "none" /\ pc = "idle"
    BY DEF Init, NoCmd
  <2>2. ManifestInv /\ InOrder /\ Settled /\ RootsInv /\ TreesInv /\ PrunedInv
    BY <2>1 DEF ManifestInv, InOrder, Settled, Over, Batch, Busy, RootsInv, TreesInv, PrunedInv
  <2> QED
    BY <2>2, PlanInit, LinkInit, PhaseInit DEF SyncInv
<1>2. SyncInv /\ [Next]_vars => SyncInv'
  <2> SUFFICES ASSUME SyncInv, [Next]_vars PROVE SyncInv'
    OBVIOUS
  <2>1. CASE Next
    BY <2>1, PlanNext, LinkNext, PhaseStep, ManifestStep, OrderStep, SettledStep, RootsStep, TreesStep,
       PrunedStep
    DEF SyncInv, PlanInv
  <2>2. CASE UNCHANGED vars
    <3>1. PlanInv' /\ LinkInv'
      BY <2>2, PlanNext, LinkNext DEF SyncInv
    <3>2. PhaseInv' /\ ManifestInv' /\ InOrder' /\ Settled'
      BY <2>2 DEF vars, SyncInv, PhaseInv, ManifestInv, InOrder, Before, Settled, Over, Wanted,
        Installed
    <3>3. RootsInv'
      BY <2>2 DEF vars, SyncInv, RootsInv, LinksMade, Over, Owns, Place
    <3>4. ASSUME NEW s \in Seq(Pkg) PROVE Tree(s)' = Tree(s)
      BY <2>2, TreeSame DEF vars
    <3>5. \A f \in Profile : cmd.profiles[f] \in Seq(Pkg)
      BY DEF SyncInv, PlanInv, TypeInv, TypeOK, Cmd
    <3>6. TreesInv'
      BY <2>2, <3>4, <3>5 DEF vars, SyncInv, TreesInv
    <3>7. PrunedInv'
      BY <2>2 DEF vars, SyncInv, PrunedInv, Installed
    <3> QED
      BY <3>1, <3>2, <3>3, <3>6, <3>7 DEF SyncInv
  <2> QED BY <2>1, <2>2
<1>3. SyncInv => SyncConverges
  <2> SUFFICES ASSUME SyncInv, pc = "done", cmd.op = "sync"
               PROVE  /\ \A p \in cmd.names : Installed(p) /\ (store[p].linked <=> p \in cmd.linked)
                      /\ \A p \in cmd.linked : \A x \in store[p].files :
                           LastToProvide(p, x) => root[x] = p
                      /\ \A x \in Path, p \in Pkg :
                           root[x] = p => \/ <<x, p>> \in astray
                                          \/ x \in store[p].files /\ p \in cmd.linked
                                          \/ x \in store[p].files /\ p \notin cmd.names /\ ~cmd.prune
                      /\ \A f \in Profile : profile[f] = Tree(cmd.profiles[f])
                      /\ cmd.prune => \A p \in Pkg : Installed(p) => p \in cmd.names
    BY DEF SyncConverges
  <2>1. cmd.names \subseteq Pkg /\ cmd.linked \subseteq cmd.names /\ cmd.order \in Seq(Pkg)
        /\ cmd.linked \subseteq Range(cmd.order)
    BY DEF SyncInv, PlanInv, TypeInv, TypeOK, Cmd, ManifestInv
  <2>2. \A p \in cmd.names : Over(p)
    BY DEF Over, Batch, After
  <2>3. ASSUME NEW p \in cmd.linked, NEW x \in store[p].files, LastToProvide(p, x)
        PROVE  root[x] = p
    <3>1. Owns(p, x)
      BY <2>1, <2>2 DEF SyncInv, RootsInv, LinksMade
    <3>2. ASSUME NEW q \in cmd.linked, x \in Covered(store[q].files), Place(p) < Place(q) PROVE FALSE
      <4>1. Place(p) \in Nat /\ Place(q) \in Nat
        BY <2>1, PlaceIs
      <4>2. Place(q) <= Place(p)
        BY <2>3, <3>2 DEF LastToProvide
      <4> QED
        BY <3>2, <4>1, <4>2
    <3> QED
      BY <3>1, <3>2 DEF Owns
  <2>4. \A p \in cmd.names : Installed(p) /\ (store[p].linked <=> p \in cmd.linked)
    BY <2>1, <2>2 DEF SyncInv, Settled, Wanted
  <2>5. \A f \in Profile : profile[f] = Tree(cmd.profiles[f])
    BY DEF SyncInv, TreesInv, Late
  <2>6. cmd.prune => \A p \in Pkg : Installed(p) => p \in cmd.names
    BY DEF SyncInv, PrunedInv
  <2>7. ASSUME NEW x \in Path, NEW p \in Pkg, root[x] = p, <<x, p>> \notin astray
        PROVE  x \in store[p].files /\ (p \in cmd.linked \/ (p \notin cmd.names /\ ~cmd.prune))
    <3>1. x \in store[p].files /\ Installed(p) /\ store[p].linked
      BY <2>7 DEF SyncInv, LinkInv, LinksOwned
    <3> QED
      BY <2>4, <2>6, <3>1
  <2> QED
    BY <2>3, <2>4, <2>5, <2>6, <2>7
<1> QED BY <1>1, <1>2, <1>3, PTL DEF Spec
=============================================================================
