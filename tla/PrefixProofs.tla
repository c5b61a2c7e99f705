---------------------------- MODULE PrefixProofs ----------------------------
(***************************************************************************)
(* What holds of every prefix, whatever the packages, versions, files,     *)
(* manifests and failure points.                                           *)
(***************************************************************************)
EXTENDS Prefix, TLAPS

Planned == {"plan", "download", "commit", "extract", "seal", "unlink", "wipe",
            "rename", "link", "unlinkKept", "relink", "save"}
Busy == {"extract", "seal", "unlink", "wipe", "rename", "link",
         "unlinkKept", "relink", "save"}
Removing == {"rmUnlink", "rmProfiles", "rmWipe"}

\* Past the resolve phase every package of the batch has a version, and the
\* process works on a package of the batch.
JobsOK ==
  /\ pc = "idle" => cmd.op = "none"
  /\ pc \in Planned \cup {"resolve"} =>
       pending \subseteq cmd.names /\ cmd.op \in {"install", "upgrade", "sync"}
  /\ cmd.op \in {"install", "upgrade", "sync"} /\ pc # "resolve" =>
       \A p \in cmd.names : job[p].ver # None
  /\ pc \in Busy => cur \in cmd.names /\ cur \notin pending
  /\ pc \in Removing => cur \in Pkg

TypeInv == TypeOK /\ JobsOK

-----------------------------------------------------------------------------
(* The operators on link trees. *)

\* Unlinking keeps a tree's values in range.
LEMMA WithoutType ==
  ASSUME NEW E, NEW tree \in [Path -> E], None \in E, NEW p, NEW S
  PROVE  Without(tree, p, S) \in [Path -> E]
BY DEF Without

\* So does linking a package.
LEMMA WithType ==
  ASSUME NEW E, NEW tree \in [Path -> E], Folder \in E, NEW p \in E, NEW S
  PROVE  With(tree, p, S) \in [Path -> E]
BY DEF With

\* So does the gap a new link is about to fill.
LEMMA GapType ==
  ASSUME NEW E, NEW tree \in [Path -> E], None \in E, Folder \in E, NEW y
  PROVE  Gap(tree, y) \in [Path -> E]
BY DEF Gap

\* And whatever else a link loop leaves that is cut short.
LEMMA HalfwayType ==
  ASSUME NEW E, NEW tree \in [Path -> E], None \in E, Folder \in E, NEW p \in E, NEW F,
         NEW t \in Halfway(tree, p, F) \cup Partly(tree, p, F)
  PROVE  t \in [Path -> E]
<1>1. ASSUME NEW u \in Partly(tree, p, F) PROVE u \in [Path -> E]
  BY <1>1, WithType DEF Partly
<1>2. CASE t \in Partly(tree, p, F)
  BY <1>1, <1>2
<1>3. CASE t \notin Partly(tree, p, F)
  <2>1. PICK u \in Partly(tree, p, F), y \in Covered(F) : t = Gap(u, y)
    BY <1>3 DEF Halfway
  <2> QED BY <1>1, <2>1, GapType
<1> QED BY <1>2, <1>3

\* A link loop, cut short anywhere, changes paths it covers only, and no directory.
LEMMA HalfwayChanges ==
  ASSUME NEW E, NEW tree \in [Path -> E], NEW p, NEW F \in SUBSET Path,
         NEW t \in Halfway(tree, p, F) \cup Partly(tree, p, F), NEW x \in Path, t[x] # tree[x]
  PROVE  /\ x \in Covered(F) /\ tree[x] # Folder
         /\ t[x] \in {p, Folder, None}
         /\ t[x] = p /\ p \notin {Folder, None} => x \in F
<1> DEFINE Fits(u, y) ==
      /\ u[y] # tree[y] =>
           /\ y \in Covered(F) /\ tree[y] # Folder
           /\ u[y] \in {p, Folder}
           /\ u[y] = p => y \in F \/ p = Folder
      /\ tree[y] = Folder => u[y] = Folder
<1>1. ASSUME NEW u \in Partly(tree, p, F), NEW y \in Path PROVE Fits(u, y)
  <2>1. PICK S \in SUBSET (F \ Taken(tree, F)) : u = With(tree, p, S)
    BY <1>1 DEF Partly
  <2>2. y \in S => y \in F /\ tree[y] # Folder
    BY <2>1 DEF Taken
  <2>3. DirsOf(S) \subseteq DirsOf(F)
    BY <2>1 DEF DirsOf
  <2>4. u[y] = IF y \in S THEN p ELSE IF y \in DirsOf(S) THEN Folder ELSE tree[y]
    BY <2>1 DEF With
  <2> QED BY <2>2, <2>3, <2>4 DEF Covered
<1>2. CASE t \in Partly(tree, p, F)
  <2>1. Fits(t, x)
    <3> HIDE DEF Fits
    <3> QED BY <1>1, <1>2
  <2> QED BY <2>1
<1>3. CASE t \notin Partly(tree, p, F)
  <2>1. PICK u \in Partly(tree, p, F), y \in Covered(F) : u[y] # Folder /\ t = Gap(u, y)
    BY <1>3 DEF Halfway
  <2>2. y \in Path /\ Above[y] \subseteq Covered(F)
    BY <2>1, ConstantsAssumption DEF Covered, DirsOf
  <2>3. u \in [Path -> E \cup {p, Folder}]
    <3>1. \A S : With(tree, p, S) \in [Path -> E \cup {p, Folder}]
      BY DEF With
    <3> QED BY <3>1, <2>1 DEF Partly
  <2>4. t[x] = IF x = y THEN None ELSE IF x \in Above[y] THEN Folder ELSE u[x]
    BY <2>1 DEF Gap
  <2>5. Fits(u, x) /\ Fits(u, y)
    <3> HIDE DEF Fits
    <3> QED BY <1>1, <2>1, <2>2
  <2>6. CASE x = y
    BY <2>1, <2>4, <2>5, <2>6
  <2>7. CASE x # y /\ x \in Above[y]
    BY <2>2, <2>4, <2>7
  <2>8. CASE x # y /\ x \notin Above[y]
    BY <2>4, <2>5, <2>8
  <2> QED BY <2>6, <2>7, <2>8
<1> QED BY <1>2, <1>3

\* The links it makes lead to p, and stand at files of p.
LEMMA HalfwayLinks ==
  ASSUME NEW E, NEW tree \in [Path -> E], NEW p \in Pkg, NEW F \in SUBSET Path,
         NEW t \in Halfway(tree, p, F) \cup Partly(tree, p, F),
         NEW x \in Path, NEW q \in Pkg, t[x] = q
  PROVE  tree[x] = q \/ (q = p /\ x \in F)
<1>1. p \notin {Folder, None} /\ q \notin {Folder, None}
  BY ConstantsAssumption
<1>2. CASE t[x] # tree[x]
  <2>1. /\ t[x] \in {p, Folder, None}
        /\ t[x] = p /\ p \notin {Folder, None} => x \in F
    BY <1>2, HalfwayChanges
  <2> QED BY <1>1, <2>1
<1> QED BY <1>2

\* A freshly built tree links packages only (linkPkgInto, manifest.go:134-143).
LEMMA TreeType ==
  ASSUME NEW s \in Seq(Pkg)
  PROVE  Tree(s) \in [Path -> Pkg \cup {None, Folder}]
<1>1. ASSUME NEW x \in Path, \E i \in DOMAIN s : LastWith(s, x, i) PROVE s[LastAt(s, x)] \in Pkg
  BY <1>1 DEF LastAt
<1> QED BY <1>1 DEF Tree

-----------------------------------------------------------------------------
\* The empty prefix satisfies the type invariant.
LEMMA TypeInit == Init => TypeInv
BY ConstantsAssumption DEF Init, TypeInv, TypeOK, JobsOK, Planned, Busy, Removing,
   NoDir, Dir, NoLinks, NoCmd, NoJob, Cmd, Job, PC
\* The "nothing" records are of their types.
LEMMA Empty ==
  /\ NoDir \in Dir
  /\ NoCmd \in Cmd /\ NoCmd.names = {} /\ NoCmd.op = "none"
  /\ NoJob \in [Pkg -> Job]
BY DEF NoDir, Dir, NoCmd, Cmd, NoJob, Job

\* What a list of packages contains is packages.
LEMMA RangeType ==
  ASSUME NEW s \in Seq(Pkg)
  PROVE  Range(s) \subseteq Pkg
BY DEF Range

\* A command that ends leaves a well-typed state.
LEMMA TypeReset ==
  ASSUME TypeInv, Reset,
         store' \in [Pkg -> Dir], root' \in [Path -> Pkg \cup {None, Folder, User}],
         profile' \in [Profile -> [Path -> Pkg \cup {None, Folder}]],
         astray' \subseteq Path \X Pkg,
         orphans' \subseteq [name : Pkg \cup {None}, sealed : BOOLEAN]
  PROVE  TypeInv'
<1>1. TypeOK'
  BY Empty DEF Reset, TypeOK, PC
<1>2. JobsOK'
  BY Empty DEF Reset, JobsOK, Planned, Busy, Removing
<1> QED BY <1>1, <1>2 DEF TypeInv

\* So does one that fails, with or without its deferred cleanup.
LEMMA TypeStop ==
  ASSUME TypeInv, Stop,
         store' \in [Pkg -> Dir], root' \in [Path -> Pkg \cup {None, Folder, User}],
         profile' \in [Profile -> [Path -> Pkg \cup {None, Folder}]],
         astray' \subseteq Path \X Pkg
  PROVE  TypeInv'
<1> DEFINE sealed == stage.digest # None
<1>1. [name |-> cur, sealed |-> sealed] \in [name : Pkg \cup {None}, sealed : BOOLEAN]
  <2>1. sealed \in BOOLEAN /\ cur \in Pkg \cup {None}
    BY DEF TypeInv, TypeOK
  <2> HIDE DEF sealed
  <2> QED BY <2>1
<1>2. orphans' \subseteq [name : Pkg \cup {None}, sealed : BOOLEAN]
  BY <1>1 DEF Stop, Fail, Killed, TypeInv, TypeOK
<1> QED BY <1>2, TypeReset DEF Stop, Fail, Killed

\* So does a command that starts.
LEMMA TypeBegin ==
  ASSUME TypeInv,
         NEW op \in {"install", "upgrade", "sync"}, NEW order \in Seq(Pkg),
         NEW names \in SUBSET Pkg, NEW linked \in SUBSET Pkg,
         NEW force \in BOOLEAN, NEW prune \in BOOLEAN,
         NEW profiles \in [Profile -> Seq(Pkg)],
         astray' \subseteq Path \X Pkg,
         Begin(op, order, names, linked, force, prune, profiles)
  PROVE  TypeInv'
<1>1. TypeOK'
  BY DEF Begin, TypeInv, TypeOK, Cmd, PC
<1>2. JobsOK'
  BY DEF Begin, JobsOK, Planned, Busy, Removing
<1> QED BY <1>1, <1>2 DEF TypeInv

\* A link goes astray only from the package the process works on.
LEMMA AstrayType ==
  ASSUME TypeInv, [Next]_vars
  PROVE  astray' \subseteq Path \X Pkg
<1>1. CASE Remember
  <2>1. LeavesAstray => cur \in Pkg
    BY DEF LeavesAstray, TypeInv, TypeOK, JobsOK, Busy, Cmd
  <2> QED BY <1>1, <2>1 DEF Remember, TypeInv, TypeOK
<1>2. CASE UNCHANGED vars
  BY <1>2 DEF vars, TypeInv, TypeOK
<1> QED BY <1>1, <1>2 DEF Next

\* Every step keeps the type invariant.
LEMMA TypeNext == TypeInv /\ [Next]_vars => TypeInv'
<1> SUFFICES ASSUME TypeInv, [Next]_vars PROVE TypeInv'
  OBVIOUS
<1>0. astray' \subseteq Path \X Pkg
  BY AstrayType
<1> USE <1>0 DEF TypeInv, TypeOK, JobsOK, Planned, Busy, Removing
<1>1. ASSUME NEW c \in Installs, StartInstall(c) PROVE TypeInv'
  <2>1. c.names \in Seq(Pkg) /\ c.force \in BOOLEAN
    BY ConstantsAssumption
  <2>2. Range(c.names) \subseteq Pkg
    BY <2>1, RangeType
  <2>3. NoCmd.profiles \in [Profile -> Seq(Pkg)]
    BY Empty DEF Cmd
  <2> DEFINE linked == IF c.link THEN Range(c.names) ELSE {}
  <2>4. linked \subseteq Pkg
    BY <2>2
  <2>5. Begin("install", c.names, Range(c.names), linked, c.force, FALSE, NoCmd.profiles)
    BY <1>1 DEF StartInstall
  <2> HIDE DEF linked, TypeInv
  <2> QED BY <2>1, <2>2, <2>3, <2>4, <2>5, TypeBegin
<1>2. ASSUME NEW s \in Upgrades, StartUpgrade(s) PROVE TypeInv'
  <2>1. s \in Seq(Pkg) /\ NoCmd.profiles \in [Profile -> Seq(Pkg)]
    BY ConstantsAssumption, Empty DEF Cmd
  <2>2. Range(s) \subseteq Pkg
    BY <2>1, RangeType
  <2>3. {p \in Range(s) : store[p].linked} \subseteq Pkg
    BY <2>2
  <2> QED BY <1>2, <2>1, <2>2, <2>3, TypeBegin DEF StartUpgrade
<1>3. ASSUME StartUpgradeAll PROVE TypeInv'
  <2>1. Names \in Seq(Pkg) /\ NoCmd.profiles \in [Profile -> Seq(Pkg)]
    BY ConstantsAssumption, Empty DEF Cmd
  <2> QED BY <1>3, <2>1, TypeBegin DEF StartUpgradeAll
<1>4. ASSUME NEW m \in Manifests, NEW g \in SyncFlags, StartSync(m, g) PROVE TypeInv'
  <2> DEFINE members == UNION {Range(m.profiles[f]) : f \in Profile}
  <2>1. /\ m.link \in Seq(Pkg) /\ m.unlink \in Seq(Pkg)
        /\ m.profiles \in [Profile -> Seq(Pkg)]
        /\ g.force \in BOOLEAN /\ g.prune \in BOOLEAN
    BY ConstantsAssumption
  <2>2. m.link \o m.unlink \in Seq(Pkg)
    BY <2>1
  <2>3. Range(m.link) \subseteq Pkg /\ Range(m.unlink) \subseteq Pkg
    BY <2>1, RangeType
  <2>4. members \subseteq Pkg
    BY <2>1, RangeType
  <2> HIDE DEF members
  <2>5. Range(m.link) \cup Range(m.unlink) \cup members \subseteq Pkg
    BY <2>3, <2>4
  <2>6. Begin("sync", m.link \o m.unlink, Range(m.link) \cup Range(m.unlink) \cup members,
              Range(m.link), g.force, g.prune, m.profiles)
    BY <1>4 DEF StartSync, members
  <2> HIDE DEF TypeInv
  <2> QED BY <2>1, <2>2, <2>3, <2>5, <2>6, TypeBegin
<1>5. ASSUME NEW p \in Removes, StartRemove(p) PROVE TypeInv'
  <2>1. p \in Pkg
    BY ConstantsAssumption
  <2>2. [NoCmd EXCEPT !.op = "remove", !.names = {p}] \in Cmd
    BY <2>1, Empty DEF Cmd
  <2>3. TypeOK'
    BY <1>5, <2>1, <2>2 DEF StartRemove, PC
  <2>4. JobsOK'
    BY <1>5, <2>1 DEF StartRemove
  <2> QED BY <2>3, <2>4
<1>6. ASSUME NEW p \in Pkg, Resolve(p) PROVE TypeInv'
  <2>1. PICK v \in Ver : job' = [job EXCEPT ![p].ver = v]
    BY <1>6 DEF Resolve
  <2>2. job' \in [Pkg -> Job]
    BY <2>1 DEF Job
  <2> QED BY <1>6, <2>2 DEF Resolve
<1>7. ASSUME NEW p \in Pkg, Plan(p) PROVE TypeInv'
  BY <1>7, ConstantsAssumption DEF Plan, DropLeftover, NeedsFetch, NoDir, Dir, Job, PC, Cmd
<1>8. ASSUME NEW p \in Pkg, Download(p) PROVE TypeInv'
  BY <1>8 DEF Download, PC
<1>9. ASSUME NEW p \in Pkg, Fetched(p) PROVE TypeInv'
  BY <1>9 DEF Fetched, Take, Turn, PC
<1>10. ASSUME NEW p \in Pkg, KeptUnlink(p) PROVE TypeInv'
  BY <1>10 DEF KeptUnlink, Take, Turn, PC
<1>11. ASSUME NEW p \in Pkg, KeptLink(p) PROVE TypeInv'
  BY <1>11 DEF KeptLink, Take, Turn, PC
<1>12. ASSUME NEW p \in Pkg, KeptAsIs(p) \/ KeptRecord(p) PROVE TypeInv'
  BY <1>12 DEF KeptAsIs, KeptRecord, KeptAlone, Take, Turn, PC
<1>13. ASSUME NEW p \in Pkg, Prune(p) PROVE TypeInv'
  BY <1>13 DEF Prune, Take, PC
<1>14. ASSUME ResolveDone PROVE TypeInv'
  <2>1. CASE AllResolved
    BY <1>14, <2>1 DEF ResolveDone, AllResolved, PC, Cmd
  <2>2. CASE ~AllResolved
    BY <1>14, <2>2, TypeStop DEF ResolveDone, Stop
  <2> QED BY <2>1, <2>2
<1>15. ASSUME PlanDone PROVE TypeInv'
  BY <1>15 DEF PlanDone, PC, Cmd
<1>16. ASSUME DownloadDone PROVE TypeInv'
  BY <1>16 DEF DownloadDone, PC, Cmd
<1>17. ASSUME PlanCommitted PROVE TypeInv'
  BY <1>17 DEF PlanCommitted, PC, Cmd
<1>18. ASSUME Extract PROVE TypeInv'
  <2>1. PICK v \in Cached(cur) : stage' = [NoDir EXCEPT !.ver = v, !.files = Files[cur][v]]
    BY <1>18 DEF Extract
  <2>2. cur \in Pkg /\ job[cur].ver \in Ver
    BY <1>18 DEF Extract, Cmd, Job
  <2>3. v \in Ver
    BY <2>2 DEF Cached
  <2>4. Files[cur][v] \subseteq Path
    BY <2>2, <2>3, ConstantsAssumption
  <2>5. stage' \in Dir
    BY <2>1, <2>3, <2>4, Empty DEF Dir
  <2> QED BY <1>18, <2>5 DEF Extract, PC
<1>19. ASSUME Seal PROVE TypeInv'
  <2>1. cur \in Pkg /\ job[cur].ver \in Ver \cup {None} /\ Wanted(cur) \in BOOLEAN
    BY <1>19 DEF Seal, Cmd, Job, Wanted
  <2>2. stage' \in Dir
    BY <1>19, <2>1 DEF Seal, Sealed, Dir
  <2> QED BY <1>19, <2>2 DEF Seal, PC
<1>20. ASSUME Unlink PROVE TypeInv'
  BY <1>20, WithoutType DEF Unlink, PC
<1>21. ASSUME Wipe PROVE TypeInv'
  BY <1>21 DEF Wipe, NoDir, Dir, PC
<1>22. ASSUME Rename PROVE TypeInv'
  BY <1>22 DEF Rename, Next1, NoDir, Dir, PC
<1>23. ASSUME Link PROVE TypeInv'
  BY <1>23, WithType DEF Link, Next1, PC, Cmd
<1>24. ASSUME UnlinkKept PROVE TypeInv'
  BY <1>24, WithoutType DEF UnlinkKept, PC
<1>25. ASSUME Relink PROVE TypeInv'
  BY <1>25, WithType DEF Relink, Next1, PC, Cmd
<1>26. ASSUME Save PROVE TypeInv'
  <2>1. cur \in Pkg /\ job[cur].ver \in Ver \cup {None} /\ Wanted(cur) \in BOOLEAN
    BY <1>26 DEF Save, Cmd, Job, Wanted
  <2>2. store' \in [Pkg -> Dir]
    BY <1>26, <2>1 DEF Save, SaveMeta, Dir
  <2> QED BY <1>26, <2>2 DEF Save, Next1, PC
<1>27. ASSUME ResetProfiles PROVE TypeInv'
  BY <1>27 DEF ResetProfiles, NoLinks, PC
<1>28. ASSUME NEW f \in Profile, BuildProfile(f) PROVE TypeInv'
  BY <1>28, TreeType DEF BuildProfile, Cmd, PC
<1>29. ASSUME ProfilesBuilt PROVE TypeInv'
  BY <1>29 DEF ProfilesBuilt, PC
<1>30. ASSUME Sweep PROVE TypeInv'
  <2>1. CASE SealedOrphan
    BY <1>30, <2>1, TypeStop DEF Sweep, Stop
  <2>2. CASE ~SealedOrphan
    BY <1>30, <2>2 DEF Sweep, Unwanted, PC, Cmd
  <2> QED BY <2>1, <2>2
<1>31. ASSUME PruneDone PROVE TypeInv'
  BY <1>31 DEF PruneDone, PC
<1>32. ASSUME RemoveUnlink PROVE TypeInv'
  BY <1>32, WithoutType DEF RemoveUnlink, PC
<1>33. ASSUME RemoveFromProfiles PROVE TypeInv'
  BY <1>33, WithoutType DEF RemoveFromProfiles, PC
<1>34. ASSUME RemoveWipe PROVE TypeInv'
  BY <1>34 DEF RemoveWipe, NoDir, Dir, PC
<1>35. ASSUME Finish PROVE TypeInv'
  BY <1>35, TypeReset DEF Finish, fs
<1>36. ASSUME NEW p \in Pkg, ResolveError(p) PROVE TypeInv'
  BY <1>36 DEF ResolveError, PC
<1>37. ASSUME Die PROVE TypeInv'
  BY <1>37, TypeStop DEF Die
<1>38. ASSUME UnlinkCut PROVE TypeInv'
  <2>1. PICK S : root' = Without(root, cur, S)
    BY <1>38 DEF UnlinkCut
  <2>2. root' \in [Path -> Pkg \cup {None, Folder, User}]
    BY <2>1, WithoutType
  <2>3. Stop
    BY <1>38 DEF UnlinkCut, Stop
  <2> QED BY <1>38, <2>2, <2>3, TypeStop DEF UnlinkCut
<1>39. ASSUME LinkCut PROVE TypeInv'
  <2> DEFINE F == store[cur].files
  <2>1. root' \in Halfway(root, cur, F) \cup Partly(root, cur, F) /\ Stop
    BY <1>39 DEF LinkCut, Stop
  <2>2. cur \in Pkg
    BY <1>39 DEF LinkCut, Cmd
  <2>4. root' \in [Path -> Pkg \cup {None, Folder, User}]
    <3> HIDE DEF F
    <3> QED BY <2>1, <2>2, HalfwayType
  <2> QED BY <1>39, <2>1, <2>4, TypeStop DEF LinkCut
<1>40. ASSUME WipeCut PROVE TypeInv'
  <2>1. cur \in Pkg
    BY <1>40 DEF WipeCut, Cmd
  <2>2. store[cur] \in Dir /\ NoDir \in Dir
    BY <2>1, Empty
  <2>2a. \A S \in SUBSET store[cur].files :
           /\ [store[cur] EXCEPT !.files = S] \in Dir
           /\ [NoDir EXCEPT !.ver = store[cur].ver, !.files = S] \in Dir
    BY <2>2 DEF Dir
  <2>2b. Remains(cur) \subseteq Dir
    BY <2>2a DEF Remains
  <2>3. store' \in [Pkg -> Dir]
    BY <1>40, <2>2b DEF WipeCut
  <2> QED BY <1>40, <2>3, TypeStop DEF WipeCut
<1>41. ASSUME ProfilesCut PROVE TypeInv'
  BY <1>41, TypeStop DEF ProfilesCut
<1>42. ASSUME RemoveProfilesCut PROVE TypeInv'
  <2>1. PICK S \in [Profile -> SUBSET store[cur].files] :
          profile' = [f \in Profile |-> Without(profile[f], cur, S[f])]
    BY <1>42 DEF RemoveProfilesCut
  <2>2. \A f \in Profile : Without(profile[f], cur, S[f]) \in [Path -> Pkg \cup {None, Folder}]
    BY WithoutType
  <2>3. profile' \in [Profile -> [Path -> Pkg \cup {None, Folder}]]
    BY <2>1, <2>2
  <2>4. Stop
    BY <1>42 DEF RemoveProfilesCut, Stop
  <2> QED BY <1>42, <2>3, <2>4, TypeStop DEF RemoveProfilesCut
<1>43. ASSUME NEW f \in Profile, BuildCut(f) PROVE TypeInv'
  <2> DEFINE s == cmd.profiles[f]
             before(n) == Tree(SubSeq(s, 1, n))
             F(n) == store[s[n + 1]].files
  <2>1. s \in Seq(Pkg)
    BY DEF Cmd
  <2>2. PICK n \in 0..(Len(s) - 1) :
          /\ Stop
          /\ \E t \in Halfway(before(n), s[n + 1], F(n)) \cup Partly(before(n), s[n + 1], F(n)) :
               profile' = [profile EXCEPT ![f] = t]
    BY <1>43 DEF BuildCut, Stop
  <2>3. SubSeq(s, 1, n) \in Seq(Pkg) /\ s[n + 1] \in Pkg
    BY <2>1
  <2>4. before(n) \in [Path -> Pkg \cup {None, Folder}]
    BY <2>3, TreeType
  <2>5. PICK t \in Halfway(before(n), s[n + 1], F(n)) \cup Partly(before(n), s[n + 1], F(n)) :
          profile' = [profile EXCEPT ![f] = t]
    BY <2>2
  <2>6. t \in [Path -> Pkg \cup {None, Folder}]
    <3> HIDE DEF before, F, s
    <3> QED BY <2>3, <2>4, <2>5, HalfwayType
  <2>7. profile' \in [Profile -> [Path -> Pkg \cup {None, Folder}]]
    BY <2>5, <2>6
  <2> QED BY <1>43, <2>2, <2>7, TypeStop DEF BuildCut
<1>44. ASSUME NEW x \in UserPaths, UserFile(x) PROVE TypeInv'
  BY <1>44, ConstantsAssumption DEF UserFile, PC
<1>45. ASSUME UNCHANGED vars PROVE TypeInv'
  BY <1>45 DEF vars
<1> QED
  BY <1>1, <1>2, <1>3, <1>4, <1>5, <1>6, <1>7, <1>8, <1>9, <1>10, <1>11, <1>12, <1>13, <1>14, <1>15, <1>16, <1>17, <1>18, <1>19, <1>20, <1>21, <1>22, <1>23, <1>24, <1>25, <1>26, <1>27, <1>28, <1>29, <1>30, <1>31, <1>32, <1>33, <1>34, <1>35, <1>36, <1>37, <1>38, <1>39, <1>40, <1>41, <1>42, <1>43, <1>44, <1>45
  DEF Next, Start, Work, PlanSteps, CommitSteps, Failure

\* Every variable stays in its range; the process always works on a package of its
\* batch, and past the resolve phase every package of the batch has a version.
THEOREM TypeCorrect == Spec => [](TypeOK /\ JobsOK)
<1>1. TypeInv => TypeOK /\ JobsOK
  BY DEF TypeInv
<1> QED BY <1>1, TypeInit, TypeNext, PTL DEF Spec

-----------------------------------------------------------------------------
(***************************************************************************)
(* The commit loop acts on what the plan loop found (installJob) without   *)
(* looking again.  It may, for what was found of a package stays true      *)
(* until its turn comes, and at each point of its turn what is there is    *)
(* what the step before it left.                                           *)
(***************************************************************************)
LinkedIsInstalled == \A p \in Pkg : store[p].linked => Installed(p)

\* The packages whose job record still describes the store.
Pictured(p) ==
  \/ pc = "plan" /\ p \in cmd.names \ pending
  \/ pc = "download" /\ p \in cmd.names
  \/ pc \in Busy \cup {"commit"} /\ p \in pending
  \/ pc \in {"extract", "seal", "unlink", "unlinkKept", "relink", "save"} /\ p = cur
PlanHolds ==
  \A p \in Pkg : Pictured(p) =>
    /\ job[p].wasLinked = store[p].linked
    /\ ~job[p].fetch => store[p].digest = job[p].ver

StepHolds ==
  /\ pc \in {"unlinkKept", "relink", "save"} => ~job[cur].fetch
  /\ pc \in {"link", "relink"} => Wanted(cur)
  /\ pc = "unlinkKept" => ~Wanted(cur)
  /\ pc \in {"unlink", "wipe", "rename"} =>
       stage.digest # None /\ (stage.linked <=> Wanted(cur))
  /\ pc = "link" => Installed(cur) /\ store[cur].linked
  /\ pc = "save" => store[cur].digest = job[cur].ver

PlanInv == TypeInv /\ LinkedIsInstalled /\ PlanHolds /\ StepHolds

\* What an interrupted RemoveAll leaves is a directory, linked only if it still
\* has its metadata.
LEMMA RemainsType ==
  ASSUME TypeOK, LinkedIsInstalled, NEW p \in Pkg, NEW d \in Remains(p)
  PROVE  d \in Dir /\ (d.linked => d.digest # None)
<1>1. store[p] \in Dir /\ (store[p].linked => store[p].digest # None)
  BY DEF TypeOK, LinkedIsInstalled, Installed
<1>2. PICK S \in SUBSET store[p].files :
        \/ d = [store[p] EXCEPT !.files = S]
        \/ d = [NoDir EXCEPT !.ver = store[p].ver, !.files = S]
  BY DEF Remains
<1>3. CASE d = [store[p] EXCEPT !.files = S]
  <2>1. d \in Dir
    BY <1>1, <1>3 DEF Dir
  <2>2. d.linked = store[p].linked /\ d.digest = store[p].digest
    BY <1>1, <1>3 DEF Dir
  <2> QED BY <1>1, <2>1, <2>2
<1>4. CASE d = [NoDir EXCEPT !.ver = store[p].ver, !.files = S]
  <2>1. d \in Dir
    BY <1>1, <1>4 DEF Dir, NoDir
  <2>2. d.linked = FALSE
    BY <1>4 DEF NoDir
  <2> QED BY <2>1, <2>2
<1> QED BY <1>2, <1>3, <1>4

\* It holds of the empty prefix.
LEMMA PlanInit == Init => PlanInv
<1> SUFFICES ASSUME Init PROVE PlanInv
  OBVIOUS
<1>1. TypeInv
  BY TypeInit
<1> QED BY <1>1 DEF Init, PlanInv, LinkedIsInstalled, PlanHolds, Pictured, Busy, StepHolds, NoDir

\* Every step keeps it.
LEMMA PlanNext == PlanInv /\ [Next]_vars => PlanInv'
<1> SUFFICES ASSUME PlanInv, [Next]_vars PROVE PlanInv'
  OBVIOUS
<1> DEFINE Rest == LinkedIsInstalled /\ PlanHolds /\ StepHolds
<1>t. TypeInv /\ TypeInv'
  BY TypeNext DEF PlanInv
<1>f. None \notin Pkg /\ None \notin Ver /\ User \notin Pkg /\ Folder \notin Pkg
  BY ConstantsAssumption
<1> SUFFICES Rest'
  BY <1>t DEF PlanInv
<1> USE <1>f DEF PlanInv, LinkedIsInstalled, PlanHolds, Pictured, Busy, StepHolds,
                 Installed, TypeInv, TypeOK, JobsOK, Planned, Removing
<1>1. ASSUME NEW c \in Installs, StartInstall(c) PROVE Rest'
  BY <1>1, <1>t DEF StartInstall, Begin
<1>2. ASSUME NEW s \in Upgrades, StartUpgrade(s) PROVE Rest'
  BY <1>2, <1>t DEF StartUpgrade, Begin
<1>3. ASSUME StartUpgradeAll PROVE Rest'
  BY <1>3, <1>t DEF StartUpgradeAll, Begin
<1>4. ASSUME NEW m \in Manifests, NEW g \in SyncFlags, StartSync(m, g) PROVE Rest'
  BY <1>4, <1>t DEF StartSync, Begin
<1>5. ASSUME NEW p \in Removes, StartRemove(p) PROVE Rest'
  BY <1>5, <1>t DEF StartRemove
<1>6. ASSUME NEW p \in Pkg, Resolve(p) PROVE Rest'
  BY <1>6, <1>t DEF Resolve
<1>7. ASSUME NEW p \in Pkg, Plan(p) PROVE Rest'
  <2>1. LinkedIsInstalled'
    BY <1>7, <1>t DEF Plan, DropLeftover, NeedsFetch, NoDir, Dir, Job
  <2>2. PlanHolds'
    <3>1. /\ job' = [job EXCEPT ![p] = [ver |-> job[p].ver, was |-> store[p].digest,
                                         wasLinked |-> store[p].linked, fetch |-> NeedsFetch(p)]]
          /\ store' = [store EXCEPT ![p] = DropLeftover(p)]
      BY <1>7 DEF Plan
    <3>2. /\ job'[p].wasLinked = store[p].linked /\ job'[p].ver = job[p].ver
          /\ job'[p].fetch = NeedsFetch(p)
      BY <3>1, <1>t
    <3>3. store'[p].linked = store[p].linked
      <4>1. CASE Installed(p)
        BY <3>1, <4>1, <1>t DEF DropLeftover
      <4>2. CASE ~Installed(p)
        <5>1. ~store[p].linked /\ store[p].linked \in BOOLEAN
          BY <4>2, <1>t DEF Dir
        <5>2. ~store'[p].linked /\ store'[p].linked \in BOOLEAN
          BY <3>1, <4>2, <1>t DEF DropLeftover, NoDir
        <5> QED BY <5>1, <5>2
      <4> QED BY <4>1, <4>2
    <3>4. ~NeedsFetch(p) => store'[p].digest = job[p].ver
      BY <1>7, <3>1, <1>t DEF DropLeftover, NeedsFetch, Plan
    <3>5. \A q \in Pkg : q # p => job'[q] = job[q] /\ store'[q] = store[q]
      BY <3>1, <1>t
    <3> QED BY <1>7, <3>2, <3>3, <3>4, <3>5, <1>t DEF Plan
  <2>3. StepHolds'
    BY <1>7, <1>t DEF Plan, DropLeftover, NeedsFetch, NoDir, Dir, Job
  <2> QED BY <2>1, <2>2, <2>3
<1>8. ASSUME NEW p \in Pkg, Download(p) PROVE Rest'
  BY <1>8, <1>t DEF Download
<1>9. ASSUME NEW p \in Pkg, Fetched(p) PROVE Rest'
  BY <1>9, <1>t DEF Fetched, Take, Turn
<1>10. ASSUME NEW p \in Pkg, KeptUnlink(p) PROVE Rest'
  BY <1>10, <1>t DEF KeptUnlink, Take, Turn, Wanted
<1>11. ASSUME NEW p \in Pkg, KeptLink(p) PROVE Rest'
  BY <1>11, <1>t DEF KeptLink, Take, Turn, Wanted
<1>12. ASSUME NEW p \in Pkg, KeptAsIs(p) \/ KeptRecord(p) PROVE Rest'
  BY <1>12, <1>t DEF KeptAsIs, KeptRecord, KeptAlone, Take, Turn, Wanted
<1>13. ASSUME NEW p \in Pkg, Prune(p) PROVE Rest'
  BY <1>13, <1>t DEF Prune, Take
<1>14. ASSUME ResolveDone PROVE Rest'
  BY <1>14, <1>t DEF ResolveDone, Fail, Reset
<1>15. ASSUME PlanDone PROVE Rest'
  BY <1>15, <1>t DEF PlanDone
<1>16. ASSUME DownloadDone PROVE Rest'
  BY <1>16, <1>t DEF DownloadDone
<1>17. ASSUME PlanCommitted PROVE Rest'
  BY <1>17, <1>t DEF PlanCommitted
<1>18. ASSUME Extract PROVE Rest'
  BY <1>18, <1>t DEF Extract
<1>19. ASSUME Seal PROVE Rest'
  <2>1. LinkedIsInstalled'
    BY <1>19, <1>t DEF Seal, Sealed, Dir
  <2>2. PlanHolds'
    BY <1>19, <1>t DEF Seal, Sealed, Dir
  <2>3. StepHolds'
    <3>1. Wanted(cur)' = Wanted(cur) /\ Wanted(cur) \in BOOLEAN
      BY <1>19 DEF Seal, Wanted
    <3>2. stage'.digest = job[cur].ver /\ stage'.linked = Wanted(cur)
      BY <1>19, <1>t DEF Seal, Sealed, Dir
    <3> QED BY <1>19, <1>t, <3>1, <3>2 DEF Seal
  <2> QED BY <2>1, <2>2, <2>3
<1>20. ASSUME Unlink PROVE Rest'
  <2>1. LinkedIsInstalled'
    BY <1>20, <1>t DEF Unlink, Without, Wanted, Cmd
  <2>2. PlanHolds'
    BY <1>20, <1>t DEF Unlink, Without, Wanted, Cmd
  <2>3. StepHolds'
    BY <1>20, <1>t DEF Unlink, Without, Wanted, Cmd
  <2> QED BY <2>1, <2>2, <2>3
<1>21. ASSUME Wipe PROVE Rest'
  <2>1. LinkedIsInstalled'
    BY <1>21, <1>t DEF Wipe, NoDir, Dir, Wanted
  <2>2. PlanHolds'
    <3>1. \A q \in pending : q # cur /\ store'[q] = store[q]
      BY <1>21, <1>t DEF Wipe
    <3> QED BY <1>21, <1>t, <3>1 DEF Wipe
  <2>3. StepHolds'
    BY <1>21, <1>t DEF Wipe, NoDir, Dir, Wanted
  <2> QED BY <2>1, <2>2, <2>3
<1>22. ASSUME Rename PROVE Rest'
  <2>1. /\ stage.digest # None /\ (stage.linked <=> Wanted(cur)) /\ cur \in Pkg
        /\ store' = [store EXCEPT ![cur] = stage] /\ cmd' = cmd /\ job' = job
        /\ IF Wanted(cur) THEN pc' = "link" /\ cur' = cur ELSE pc' = "commit"
    BY <1>22 DEF Rename, Next1, Cmd
  <2>2. store'[cur] = stage /\ \A q \in Pkg : q # cur => store'[q] = store[q]
    BY <2>1
  <2>3. LinkedIsInstalled'
    BY <2>1, <2>2, <1>t
  <2>4. PlanHolds'
    BY <1>22, <2>1, <2>2 DEF Rename
  <2>5. StepHolds'
    BY <2>1, <2>2 DEF Wanted
  <2> QED BY <2>3, <2>4, <2>5
<1>23. ASSUME Link PROVE Rest'
  BY <1>23, <1>t DEF Link, Next1, With
<1>24. ASSUME UnlinkKept PROVE Rest'
  <2>1. LinkedIsInstalled'
    BY <1>24, <1>t DEF UnlinkKept, Without, Wanted, Cmd
  <2>2. PlanHolds'
    BY <1>24, <1>t DEF UnlinkKept, Without, Wanted, Cmd
  <2>3. StepHolds'
    BY <1>24, <1>t DEF UnlinkKept, Without, Wanted, Cmd
  <2> QED BY <2>1, <2>2, <2>3
<1>25. ASSUME Relink PROVE Rest'
  <2>1. LinkedIsInstalled'
    BY <1>25, <1>t DEF Relink, Next1, With, Wanted, Cmd
  <2>2. PlanHolds'
    BY <1>25, <1>t DEF Relink, Next1, With, Wanted, Cmd
  <2>3. StepHolds'
    BY <1>25, <1>t DEF Relink, Next1, With, Wanted, Cmd
  <2> QED BY <2>1, <2>2, <2>3
<1>26. ASSUME Save PROVE Rest'
  BY <1>26, <1>t DEF Save, SaveMeta, Next1
<1>27. ASSUME ResetProfiles PROVE Rest'
  BY <1>27, <1>t DEF ResetProfiles
<1>28. ASSUME NEW f \in Profile, BuildProfile(f) PROVE Rest'
  BY <1>28, <1>t DEF BuildProfile
<1>29. ASSUME ProfilesBuilt PROVE Rest'
  BY <1>29, <1>t DEF ProfilesBuilt
<1>30. ASSUME Sweep PROVE Rest'
  BY <1>30, <1>t DEF Sweep, Fail, Reset
<1>31. ASSUME PruneDone PROVE Rest'
  BY <1>31, <1>t DEF PruneDone
<1>32. ASSUME RemoveUnlink PROVE Rest'
  BY <1>32, <1>t DEF RemoveUnlink, Without
<1>33. ASSUME RemoveFromProfiles PROVE Rest'
  BY <1>33, <1>t DEF RemoveFromProfiles
<1>34. ASSUME RemoveWipe PROVE Rest'
  BY <1>34, <1>t DEF RemoveWipe, NoDir
<1>35. ASSUME Finish PROVE Rest'
  BY <1>35, <1>t DEF Finish, Reset, fs
<1>36. ASSUME NEW p \in Pkg, ResolveError(p) PROVE Rest'
  BY <1>36, <1>t DEF ResolveError
<1>37. ASSUME Die PROVE Rest'
  BY <1>37, <1>t DEF Die, Stop, Fail, Killed, Reset
<1>38. ASSUME UnlinkCut PROVE Rest'
  BY <1>38, <1>t DEF UnlinkCut, Stop, Fail, Killed, Reset, Without
<1>39. ASSUME LinkCut PROVE Rest'
  BY <1>39, <1>t DEF LinkCut, Stop, Fail, Killed, Reset
<1>40. ASSUME WipeCut PROVE Rest'
  <2>c. cur \in Pkg
    BY <1>40, <1>t DEF WipeCut, Cmd
  <2>d. PICK d \in Remains(cur) : store' = [store EXCEPT ![cur] = d]
    BY <1>40 DEF WipeCut
  <2>e. d \in Dir /\ (d.linked => d.digest # None)
    BY <2>c, <1>t, RemainsType
  <2>f. store'[cur] = d /\ \A q \in Pkg : q # cur => store'[q] = store[q]
    BY <1>t, <2>c, <2>d
  <2>1. LinkedIsInstalled'
    BY <1>t, <2>e, <2>f
  <2>2. PlanHolds'
    BY <1>40, <1>t DEF WipeCut, Stop, Fail, Killed, Reset, Remains, NoDir, Dir
  <2>3. StepHolds'
    BY <1>40, <1>t DEF WipeCut, Stop, Fail, Killed, Reset, Remains, NoDir, Dir
  <2> QED BY <2>1, <2>2, <2>3
<1>41. ASSUME ProfilesCut PROVE Rest'
  BY <1>41, <1>t DEF ProfilesCut, Stop, Fail, Killed, Reset
<1>42. ASSUME RemoveProfilesCut PROVE Rest'
  BY <1>42, <1>t DEF RemoveProfilesCut, Stop, Fail, Killed, Reset
<1>43. ASSUME NEW f \in Profile, BuildCut(f) PROVE Rest'
  BY <1>43, <1>t DEF BuildCut, Stop, Fail, Killed, Reset
<1>44. ASSUME NEW x \in UserPaths, UserFile(x) PROVE Rest'
  BY <1>44, <1>t DEF UserFile
<1>45. ASSUME UNCHANGED vars PROVE Rest'
  <2>1. LinkedIsInstalled'
    BY <1>45, <1>t DEF vars, Wanted
  <2>2. PlanHolds'
    BY <1>45, <1>t DEF vars, Wanted
  <2>3. StepHolds'
    BY <1>45, <1>t DEF vars, Wanted
  <2> QED BY <2>1, <2>2, <2>3
<1> QED
  BY <1>1, <1>2, <1>3, <1>4, <1>5, <1>6, <1>7, <1>8, <1>9, <1>10, <1>11, <1>12, <1>13, <1>14, <1>15, <1>16, <1>17, <1>18, <1>19, <1>20, <1>21, <1>22, <1>23, <1>24, <1>25, <1>26, <1>27, <1>28, <1>29, <1>30, <1>31, <1>32, <1>33, <1>34, <1>35, <1>36, <1>37, <1>38, <1>39, <1>40, <1>41, <1>42, <1>43, <1>44, <1>45
  DEF Next, Start, Work, PlanSteps, CommitSteps, Failure

-----------------------------------------------------------------------------
(***************************************************************************)
(* LinksOwned.  It is not inductive: that unlinking takes every link of a  *)
(* package away before its directory goes (NoLinksLeft) rests on the links *)
(* being owned, and that the commit loop unlinks whenever there is         *)
(* something to unlink rests on the plan's picture of the store (PlanInv). *)
(***************************************************************************)
NoLinksLeft ==
  (pc \in {"wipe", "rename", "rmProfiles", "rmWipe"} \/ (pc = "save" /\ ~Wanted(cur))) =>
    \A x \in Path : root[x] = cur => <<x, cur>> \in astray

LinkInv == PlanInv /\ NoLinksLeft /\ LinksOwned

\* The empty prefix has no links.
LEMMA LinkInit == Init => LinkInv
BY PlanInit, ConstantsAssumption DEF Init, LinkInv, NoLinksLeft, LinksOwned, NoDir, NoLinks

\* A link that went astray stays so until it is replaced; and the links of a package
\* do when the command fails between them and its metadata.
LEMMA AstrayStays ==
  ASSUME [Next]_vars, NEW x \in Path, NEW p \in Pkg, root'[x] = p,
         <<x, p>> \in astray \/ (LeavesAstray /\ p = cur)
  PROVE  <<x, p>> \in astray'
<1>1. CASE Remember
  <2> DEFINE more == IF LeavesAstray THEN Path \X {cur} ELSE {}
             l == <<x, p>>
  <2>1. l \in astray \cup more /\ l[1] = x /\ l[2] = p
    OBVIOUS
  <2> HIDE DEF l, more
  <2>2. astray' = {k \in astray \cup more : root'[k[1]] = k[2]}
    BY <1>1 DEF Remember, more
  <2>3. l \in astray'
    BY <2>1, <2>2
  <2> QED BY <2>3 DEF l
<1>2. CASE UNCHANGED vars
  BY <1>2 DEF vars, LeavesAstray
<1> QED BY <1>1, <1>2 DEF Next

\* Every step keeps it.
LEMMA LinkNext == LinkInv /\ [Next]_vars => LinkInv'
<1> SUFFICES ASSUME LinkInv, [Next]_vars PROVE LinkInv'
  OBVIOUS
<1> DEFINE Rest == NoLinksLeft /\ LinksOwned
<1>p. PlanInv'
  BY PlanNext DEF LinkInv
<1>t. TypeInv /\ TypeInv'
  BY <1>p DEF LinkInv, PlanInv
<1>f. None \notin Pkg /\ None \notin Ver /\ User \notin Pkg /\ Folder \notin Pkg
  BY ConstantsAssumption
<1>a. \A x \in Path, p \in Pkg :
        root'[x] = p /\ <<x, p>> \in astray => <<x, p>> \in astray'
  BY AstrayStays
<1>b. LeavesAstray => \A x \in Path :
        root'[x] = cur /\ cur \in Pkg => <<x, cur>> \in astray'
  BY AstrayStays
<1>c. ASSUME NEW F \in SUBSET Path, cur \in Pkg,
             root' \in Halfway(root, cur, F) \cup Partly(root, cur, F),
             NEW x \in Path, NEW p \in Pkg, root'[x] = p
      PROVE  root[x] = p \/ (p = cur /\ x \in F)
  <2>1. root \in [Path -> Pkg \cup {None, Folder, User}]
    BY <1>t DEF TypeInv, TypeOK
  <2> DEFINE E == Pkg \cup {None, Folder, User}
             t == root'
  <2>2. /\ root \in [Path -> E] /\ t[x] = p
        /\ t \in Halfway(root, cur, F) \cup Partly(root, cur, F)
    BY <1>c, <2>1
  <2> HIDE DEF E, t
  <2> QED BY <1>c, <2>2, HalfwayLinks
<1> SUFFICES Rest'
  BY <1>p DEF LinkInv
<1> USE <1>f, <1>a DEF LinkInv, PlanInv, LinkedIsInstalled, PlanHolds, Pictured, Busy, StepHolds,
                 NoLinksLeft, LinksOwned, Installed, TypeInv, TypeOK, JobsOK, Planned, Removing
<1>1. ASSUME NEW c \in Installs, StartInstall(c) PROVE Rest'
  BY <1>1, <1>t DEF StartInstall, Begin
<1>2. ASSUME NEW s \in Upgrades, StartUpgrade(s) PROVE Rest'
  BY <1>2, <1>t DEF StartUpgrade, Begin
<1>3. ASSUME StartUpgradeAll PROVE Rest'
  BY <1>3, <1>t DEF StartUpgradeAll, Begin
<1>4. ASSUME NEW m \in Manifests, NEW g \in SyncFlags, StartSync(m, g) PROVE Rest'
  BY <1>4, <1>t DEF StartSync, Begin
<1>5. ASSUME NEW p \in Removes, StartRemove(p) PROVE Rest'
  BY <1>5, <1>t DEF StartRemove
<1>6. ASSUME NEW p \in Pkg, Resolve(p) PROVE Rest'
  BY <1>6, <1>t DEF Resolve
<1>7. ASSUME NEW p \in Pkg, Plan(p) PROVE Rest'
  <2>4. NoLinksLeft'
    BY <1>7, <1>t DEF Plan, DropLeftover, NeedsFetch, NoDir, Dir, Job
  <2>5. LinksOwned'
    BY <1>7, <1>t DEF Plan, DropLeftover, NeedsFetch, NoDir, Dir, Job
  <2> QED BY <2>4, <2>5
<1>8. ASSUME NEW p \in Pkg, Download(p) PROVE Rest'
  BY <1>8, <1>t DEF Download
<1>9. ASSUME NEW p \in Pkg, Fetched(p) PROVE Rest'
  BY <1>9, <1>t DEF Fetched, Take, Turn
<1>10. ASSUME NEW p \in Pkg, KeptUnlink(p) PROVE Rest'
  BY <1>10, <1>t DEF KeptUnlink, Take, Turn
<1>11. ASSUME NEW p \in Pkg, KeptLink(p) PROVE Rest'
  BY <1>11, <1>t DEF KeptLink, Take, Turn, Wanted
<1>12. ASSUME NEW p \in Pkg, KeptAsIs(p) \/ KeptRecord(p) PROVE Rest'
  BY <1>12, <1>t DEF KeptAsIs, KeptRecord, KeptAlone, Take, Turn, Wanted
<1>13. ASSUME NEW p \in Pkg, Prune(p) PROVE Rest'
  BY <1>13, <1>t DEF Prune, Take
<1>14. ASSUME ResolveDone PROVE Rest'
  BY <1>14, <1>t DEF ResolveDone, Fail, Reset
<1>15. ASSUME PlanDone PROVE Rest'
  BY <1>15, <1>t DEF PlanDone
<1>16. ASSUME DownloadDone PROVE Rest'
  BY <1>16, <1>t DEF DownloadDone
<1>17. ASSUME PlanCommitted PROVE Rest'
  BY <1>17, <1>t DEF PlanCommitted
<1>18. ASSUME Extract PROVE Rest'
  BY <1>18, <1>t DEF Extract
<1>19. ASSUME Seal PROVE Rest'
  <2>4. NoLinksLeft'
    <3>1. pc' = "wipe" => ~store[cur].linked
      BY <1>19, <1>t DEF Seal, Cmd
    <3>2. pc' = "wipe" => \A x \in Path : root[x] = cur => <<x, cur>> \in astray
      BY <1>19, <3>1, <1>t DEF Seal, Cmd
    <3> QED BY <1>19, <3>2 DEF Seal
  <2>5. LinksOwned'
    BY <1>19, <1>t DEF Seal, Sealed, Dir
  <2> QED BY <2>4, <2>5
<1>20. ASSUME Unlink PROVE Rest'
  <2>4. NoLinksLeft'
    BY <1>20, <1>t DEF Unlink, Without, Wanted, Cmd
  <2>5. LinksOwned'
    BY <1>20, <1>t DEF Unlink, Without, Wanted, Cmd
  <2> QED BY <2>4, <2>5
<1>21. ASSUME Wipe PROVE Rest'
  <2>4. NoLinksLeft'
    BY <1>21, <1>t DEF Wipe, NoDir, Dir, Wanted
  <2>5. LinksOwned'
    BY <1>21, <1>t DEF Wipe, NoDir, Dir, Wanted
  <2> QED BY <2>4, <2>5
<1>22. ASSUME Rename PROVE Rest'
  BY <1>22, <1>t DEF Rename, Next1, NoDir
<1>23. ASSUME Link PROVE Rest'
  BY <1>23, <1>t DEF Link, Next1, With
<1>24. ASSUME UnlinkKept PROVE Rest'
  <2>4. NoLinksLeft'
    BY <1>24, <1>t DEF UnlinkKept, Without, Wanted, Cmd
  <2>5. LinksOwned'
    BY <1>24, <1>t DEF UnlinkKept, Without, Wanted, Cmd
  <2> QED BY <2>4, <2>5
<1>25. ASSUME Relink PROVE Rest'
  <2>4. NoLinksLeft'
    BY <1>25, <1>t DEF Relink, Next1, With, Wanted, Cmd
  <2>5. LinksOwned'
    BY <1>25, <1>t DEF Relink, Next1, With, Wanted, Cmd
  <2> QED BY <2>4, <2>5
<1>26. ASSUME Save PROVE Rest'
  BY <1>26, <1>t DEF Save, SaveMeta, Next1
<1>27. ASSUME ResetProfiles PROVE Rest'
  BY <1>27, <1>t DEF ResetProfiles
<1>28. ASSUME NEW f \in Profile, BuildProfile(f) PROVE Rest'
  BY <1>28, <1>t DEF BuildProfile
<1>29. ASSUME ProfilesBuilt PROVE Rest'
  BY <1>29, <1>t DEF ProfilesBuilt
<1>30. ASSUME Sweep PROVE Rest'
  BY <1>30, <1>t DEF Sweep, Fail, Reset
<1>31. ASSUME PruneDone PROVE Rest'
  BY <1>31, <1>t DEF PruneDone
<1>32. ASSUME RemoveUnlink PROVE Rest'
  BY <1>32, <1>t DEF RemoveUnlink, Without
<1>33. ASSUME RemoveFromProfiles PROVE Rest'
  BY <1>33, <1>t DEF RemoveFromProfiles
<1>34. ASSUME RemoveWipe PROVE Rest'
  BY <1>34, <1>t DEF RemoveWipe, NoDir
<1>35. ASSUME Finish PROVE Rest'
  BY <1>35, <1>t DEF Finish, Reset, fs
<1>36. ASSUME NEW p \in Pkg, ResolveError(p) PROVE Rest'
  BY <1>36, <1>t DEF ResolveError
<1>37. ASSUME Die PROVE Rest'
  <2>1. pc' = "idle" /\ store' = store /\ root' = root
    BY <1>37 DEF Die, Stop, Fail, Killed, Reset
  <2>2. ASSUME NEW x \in Path, NEW p \in Pkg, root[x] = p
        PROVE  \/ <<x, p>> \in astray'
               \/ x \in store[p].files /\ store[p].digest # None /\ store[p].linked
    <3>1. CASE ~(pc = "save" /\ cur = p)
      BY <2>1, <2>2, <3>1
    <3>2. CASE pc = "save" /\ cur = p /\ LeavesAstray
      BY <2>1, <2>2, <3>2, <1>b
    <3>3. CASE pc = "save" /\ cur = p /\ ~LeavesAstray
      <4>1. Wanted(cur) \/ <<x, p>> \in astray
        BY <2>2, <3>3
      <4>2. Wanted(cur) => store[cur].linked
        BY <2>1, <3>3 DEF LeavesAstray
      <4> QED BY <2>1, <2>2, <3>3, <4>1, <4>2
    <3> QED BY <3>1, <3>2, <3>3
  <2> QED BY <2>1, <2>2
<1>38. ASSUME UnlinkCut PROVE Rest'
  BY <1>38, <1>t DEF UnlinkCut, Stop, Fail, Killed, Reset, Without
<1>39. ASSUME LinkCut PROVE Rest'
  <2>1. /\ pc \in {"link", "relink"} /\ pc' = "idle" /\ store' = store
        /\ root' \in Halfway(root, cur, store[cur].files) \cup Partly(root, cur, store[cur].files)
    BY <1>39 DEF LinkCut, Stop, Fail, Killed, Reset
  <2>2. cur \in Pkg /\ store[cur].files \subseteq Path /\ Wanted(cur)
    BY <2>1, <1>t DEF Cmd, Dir
  <2>4. ASSUME NEW x \in Path, NEW p \in Pkg, root'[x] = p
        PROVE  root[x] = p \/ (p = cur /\ x \in store[cur].files)
    BY <2>1, <2>2, <2>4, <1>c
  <2>5. LinksOwned'
    <3> SUFFICES ASSUME NEW x \in Path, NEW p \in Pkg, root'[x] = p
                 PROVE  \/ <<x, p>> \in astray'
                        \/ x \in store[p].files /\ store[p].digest # None /\ store[p].linked
      BY <2>1
    <3>1. CASE p # cur
      BY <2>1, <2>4, <3>1
    <3>2. CASE p = cur /\ LeavesAstray
      BY <2>2, <3>2, <1>b
    <3>3. CASE p = cur /\ ~LeavesAstray
      <4>1. store[cur].linked /\ store[cur].digest # None
        BY <2>1, <2>2, <3>3 DEF LeavesAstray
      <4> QED BY <2>1, <2>4, <3>3, <4>1
    <3> QED BY <3>1, <3>2, <3>3
  <2> QED BY <2>1, <2>5
<1>40. ASSUME WipeCut PROVE Rest'
  <2>c. cur \in Pkg
    BY <1>40, <1>t DEF WipeCut, Cmd
  <2>d. PICK d \in Remains(cur) : store' = [store EXCEPT ![cur] = d]
    BY <1>40 DEF WipeCut
  <2>f. store'[cur] = d /\ \A q \in Pkg : q # cur => store'[q] = store[q]
    BY <1>t, <2>c, <2>d
  <2>4. NoLinksLeft'
    BY <1>40, <1>t DEF WipeCut, Stop, Fail, Killed, Reset, Remains, NoDir, Dir
  <2>5. LinksOwned'
    BY <1>40, <1>t, <2>c, <2>f DEF WipeCut, Stop, Fail, Killed, Reset
  <2> QED BY <2>4, <2>5
<1>41. ASSUME ProfilesCut PROVE Rest'
  BY <1>41, <1>t DEF ProfilesCut, Stop, Fail, Killed, Reset
<1>42. ASSUME RemoveProfilesCut PROVE Rest'
  BY <1>42, <1>t DEF RemoveProfilesCut, Stop, Fail, Killed, Reset
<1>43. ASSUME NEW f \in Profile, BuildCut(f) PROVE Rest'
  BY <1>43, <1>t DEF BuildCut, Stop, Fail, Killed, Reset
<1>44. ASSUME NEW x \in UserPaths, UserFile(x) PROVE Rest'
  BY <1>44, <1>t DEF UserFile
<1>45. ASSUME UNCHANGED vars PROVE Rest'
  <2>4. NoLinksLeft'
    BY <1>45, <1>t DEF vars, Wanted
  <2>5. LinksOwned'
    BY <1>45, <1>t DEF vars, Wanted
  <2> QED BY <2>4, <2>5
<1> QED
  BY <1>1, <1>2, <1>3, <1>4, <1>5, <1>6, <1>7, <1>8, <1>9, <1>10, <1>11, <1>12, <1>13, <1>14, <1>15, <1>16, <1>17, <1>18, <1>19, <1>20, <1>21, <1>22, <1>23, <1>24, <1>25, <1>26, <1>27, <1>28, <1>29, <1>30, <1>31, <1>32, <1>33, <1>34, <1>35, <1>36, <1>37, <1>38, <1>39, <1>40, <1>41, <1>42, <1>43, <1>44, <1>45
  DEF Next, Start, Work, PlanSteps, CommitSteps, Failure

\* No command, whatever fails in it, leaves a dangling or unrecorded root link,
\* except those it made for a package that needs no fetch when it fails before it
\* has saved that package's metadata (install.go:166-177).
THEOREM LinksStayOwned == Spec => []LinksOwned
<1>1. LinkInv => LinksOwned
  BY DEF LinkInv
<1> QED BY <1>1, LinkInit, LinkNext, PTL DEF Spec

-----------------------------------------------------------------------------
(***************************************************************************)
(* NothingBehindLinks.  Each loop over files keeps the links on directories*)
(* of the prefix's own because no file of a package is on the way to       *)
(* another of it (AllApart), and because linking fails where a directory   *)
(* is in the way (Taken).                                                  *)
(***************************************************************************)
Apart(S) == \A x \in S : Above[x] \cap S = {}
AllApart == Apart(stage.files) /\ \A p \in Pkg : Apart(store[p].files)
OnFolders(t) == \A x \in Path : t[x] # None => \A y \in Above[x] : t[y] = Folder

FolderInv == TypeInv /\ AllApart /\ OnFolders(root)

\* Unlinking and linking keep a tree on its directories.
LEMMA WithoutOnFolders ==
  ASSUME NEW t, OnFolders(t), NEW p, p # Folder, NEW S
  PROVE  OnFolders(Without(t, p, S))
BY ConstantsAssumption DEF OnFolders, Without

LEMMA WithOnFolders ==
  ASSUME NEW t, OnFolders(t), NEW p, NEW S \in SUBSET Path, Apart(S), Taken(t, S) = {}
  PROVE  OnFolders(With(t, p, S))
<1> SUFFICES ASSUME NEW x \in Path, With(t, p, S)[x] # None, NEW y \in Above[x]
             PROVE  With(t, p, S)[y] = Folder
  BY DEF OnFolders
<1>1. y \in Path /\ Above[y] \subseteq Above[x]
  BY ConstantsAssumption
<1>2. With(t, p, S)[y] = IF y \in S THEN p ELSE IF y \in DirsOf(S) THEN Folder ELSE t[y]
  BY <1>1 DEF With
<1>3. CASE x \in S
  <2>1. y \in DirsOf(S) /\ y \notin S
    BY <1>3 DEF DirsOf, Apart
  <2> QED BY <1>2, <2>1
<1>4. CASE x \notin S /\ x \in DirsOf(S)
  <2>1. PICK z \in S : x \in Above[z]
    BY <1>4 DEF DirsOf
  <2>2. y \in Above[z]
    BY <2>1, ConstantsAssumption
  <2>3. y \in DirsOf(S) /\ y \notin S
    BY <2>1, <2>2 DEF DirsOf, Apart
  <2> QED BY <1>2, <2>3
<1>5. CASE x \notin S /\ x \notin DirsOf(S)
  <2>1. t[x] # None
    BY <1>5 DEF With
  <2>2. t[y] = Folder
    BY <2>1 DEF OnFolders
  <2>3. y \notin S
    BY <2>2 DEF Taken
  <2> QED BY <1>2, <2>2, <2>3
<1> QED BY <1>3, <1>4, <1>5

\* So does what is left of linking that is cut short.
LEMMA HalfwayOnFolders ==
  ASSUME NEW t, OnFolders(t), NEW p, NEW F \in SUBSET Path, Apart(F),
         NEW u \in Halfway(t, p, F) \cup Partly(t, p, F)
  PROVE  OnFolders(u)
<1>1. ASSUME NEW v \in Partly(t, p, F) PROVE OnFolders(v)
  <2>1. PICK S \in SUBSET (F \ Taken(t, F)) : v = With(t, p, S)
    BY DEF Partly
  <2>2. S \in SUBSET Path /\ Apart(S) /\ Taken(t, S) = {}
    BY DEF Apart, Taken
  <2> QED BY <2>1, <2>2, WithOnFolders
<1>2. CASE u \in Partly(t, p, F)
  BY <1>1, <1>2
<1>3. CASE u \notin Partly(t, p, F)
  <2>1. PICK v \in Partly(t, p, F), y \in Covered(F) : v[y] # Folder /\ u = Gap(v, y)
    BY <1>3 DEF Halfway
  <2>2. OnFolders(v) /\ y \in Path
    BY <1>1, <2>1, ConstantsAssumption DEF Covered, DirsOf
  <2> QED BY <2>1, <2>2, ConstantsAssumption DEF OnFolders, Gap
<1> QED BY <1>2, <1>3

\* The files of a package are those of one of its versions, or some of them.
LEMMA ApartStep ==
  ASSUME TypeInv, AllApart, Next
  PROVE  AllApart'
<1>t. store \in [Pkg -> Dir] /\ stage \in Dir /\ Apart({})
  BY DEF TypeInv, TypeOK, Apart
<1> USE DEF AllApart
<1>1. ASSUME NEW p \in Pkg, Plan(p) PROVE AllApart'
  BY <1>1, <1>t DEF Plan, DropLeftover, NoDir
<1>2. CASE Extract
  <2>1. cur \in Pkg /\ job[cur].ver \in Ver
    BY <1>2 DEF Extract, TypeInv, TypeOK, JobsOK, Planned, Busy, Cmd, Job
  <2>2. PICK v \in Cached(cur) : stage' = [NoDir EXCEPT !.ver = v, !.files = Files[cur][v]]
    BY <1>2 DEF Extract
  <2>3. v \in Ver
    BY <2>1 DEF Cached
  <2>4. Apart(Files[cur][v])
    BY <2>1, <2>3, ConstantsAssumption DEF Apart
  <2>5. stage'.files = Files[cur][v]
    BY <2>2 DEF NoDir
  <2> QED BY <1>2, <2>4, <2>5 DEF Extract
<1>3. CASE Seal
  <2>1. stage'.files = stage.files /\ store' = store
    BY <1>3, <1>t DEF Seal, Sealed, Dir
  <2> QED BY <2>1
<1>4. CASE Wipe \/ Rename \/ RemoveWipe
  BY <1>4, <1>t DEF Wipe, Rename, RemoveWipe, NoDir
<1>5. CASE Save
  <2>1. cur \in Pkg
    BY <1>5 DEF Save, TypeInv, TypeOK, JobsOK, Busy, Cmd
  <2>2. \A p \in Pkg : store'[p].files = store[p].files
    BY <1>5, <1>t, <2>1 DEF Save, SaveMeta, Dir
  <2> QED BY <1>5, <2>2 DEF Save
<1>6. CASE Reset /\ store' = store
  BY <1>6, <1>t DEF Reset, NoDir
<1>7. CASE WipeCut
  <2>1. cur \in Pkg /\ Reset
    BY <1>7 DEF WipeCut, Stop, Fail, Killed, TypeInv, TypeOK, JobsOK, Busy, Removing, Cmd
  <2>2. PICK d \in Remains(cur) : store' = [store EXCEPT ![cur] = d]
    BY <1>7 DEF WipeCut
  <2>3. d.files \subseteq store[cur].files
    BY <2>1, <2>2, <1>t DEF Remains, NoDir, Dir
  <2>4. Apart(d.files)
    BY <2>1, <2>3 DEF Apart
  <2> QED BY <1>t, <2>1, <2>2, <2>4 DEF Reset, NoDir
<1>8. CASE UNCHANGED <<store, stage>>
  BY <1>8
<1> QED
  BY <1>1, <1>2, <1>3, <1>4, <1>5, <1>6, <1>7, <1>8
  DEF Next, Start, Begin, Work, Failure, PlanSteps, CommitSteps, Resolve, Download,
      Fetched, KeptUnlink, KeptLink, KeptRecord, KeptAsIs, Take, Prune, ResolveDone,
      PlanDone, DownloadDone, PlanCommitted, Unlink, Link, UnlinkKept, Relink,
      ResetProfiles, BuildProfile, ProfilesBuilt, Sweep, PruneDone, RemoveUnlink,
      RemoveFromProfiles, Finish, fs, Stop, Fail, Killed, ResolveError, Die, UnlinkCut,
      LinkCut, ProfilesCut, RemoveProfilesCut, BuildCut, UserFile,
      StartInstall, StartUpgrade, StartUpgradeAll, StartSync, StartRemove

\* On the way to whatever is in the prefix there are its own directories only,
\* whatever is linked, unlinked or interrupted, and wherever the user puts links
\* of his own (store.go:342-372).
THEOREM ThroughNoLink == Spec => []NothingBehindLinks
<1>1. Init => FolderInv
  BY TypeInit DEF Init, FolderInv, AllApart, Apart, OnFolders, NoDir, NoLinks
<1>2. FolderInv /\ [Next]_vars => FolderInv'
  <2> SUFFICES ASSUME FolderInv, [Next]_vars PROVE FolderInv'
    OBVIOUS
  <2>t. TypeInv /\ TypeInv' /\ OnFolders(root)
    BY TypeNext DEF FolderInv
  <2>1. CASE UNCHANGED vars
    BY <2>1, <2>t DEF vars, FolderInv, AllApart, OnFolders
  <2>2. CASE Next
    <3>1. AllApart'
      BY <2>2, ApartStep DEF FolderInv
    <3>2. pc \in Busy \cup Removing => /\ cur \in Pkg /\ cur # Folder /\ Apart(store[cur].files)
                                      /\ store[cur].files \in SUBSET Path
      BY ConstantsAssumption DEF FolderInv, AllApart, TypeInv, TypeOK, JobsOK, Busy, Removing, Cmd, Dir
    <3> DEFINE r == root'
    <3>3. ASSUME Unlink \/ UnlinkKept \/ RemoveUnlink \/ UnlinkCut PROVE OnFolders(r)
      <4>1. pc \in Busy \cup Removing /\ \E S : r = Without(root, cur, S)
        BY <3>3 DEF Unlink, UnlinkKept, RemoveUnlink, UnlinkCut, Busy, Removing
      <4> HIDE DEF r
      <4> QED BY <3>2, <4>1, <2>t, WithoutOnFolders
    <3>4. ASSUME Link \/ Relink PROVE OnFolders(r)
      <4>1. /\ pc \in Busy /\ r = With(root, cur, store[cur].files)
            /\ Taken(root, store[cur].files) = {}
        BY <3>4 DEF Link, Relink, Busy
      <4> HIDE DEF r
      <4> QED BY <3>2, <4>1, <2>t, WithOnFolders
    <3>5. ASSUME LinkCut PROVE OnFolders(r)
      <4> DEFINE F == store[cur].files
      <4>1. pc \in Busy /\ r \in Halfway(root, cur, F) \cup Partly(root, cur, F)
        BY <3>5 DEF LinkCut, Busy
      <4>2. F \in SUBSET Path /\ Apart(F)
        BY <3>2, <4>1
      <4> HIDE DEF r, F
      <4> QED BY <4>1, <4>2, <2>t, HalfwayOnFolders
    <3>6. ASSUME NEW x \in UserPaths, UserFile(x) PROVE OnFolders(r)
      BY <3>6, <2>t, ConstantsAssumption DEF UserFile, OnFolders
    <3>7. ASSUME UNCHANGED root PROVE OnFolders(r)
      BY <3>7, <2>t
    <3>8. OnFolders(r)
      <4> HIDE DEF r
      <4> QED
        BY <2>2, <3>3, <3>4, <3>5, <3>6, <3>7
        DEF Next, Start, Begin, Work, Failure, PlanSteps, CommitSteps, Resolve, Plan, Download,
            Fetched, KeptUnlink, KeptLink, KeptRecord, KeptAsIs, Take, Prune, ResolveDone,
            PlanDone, DownloadDone, PlanCommitted, Extract, Seal, Wipe, Rename, Save,
            ResetProfiles, BuildProfile, ProfilesBuilt, Sweep, PruneDone, RemoveFromProfiles,
            RemoveWipe, Finish, fs, ResolveError, Die, WipeCut, ProfilesCut, RemoveProfilesCut,
            BuildCut, StartInstall, StartUpgrade, StartUpgradeAll, StartSync, StartRemove
    <3> QED BY <2>t, <3>1, <3>8 DEF FolderInv, OnFolders
  <2> QED BY <2>1, <2>2
<1>3. FolderInv => NothingBehindLinks
  BY DEF FolderInv, OnFolders, NothingBehindLinks
<1> QED BY <1>1, <1>2, <1>3, PTL DEF Spec

-----------------------------------------------------------------------------
(* Action properties, from the type invariant. *)

\* A command takes away links of the package it works on, and what stands where it
\* links that package; it leaves every other link, what the user put in a link's
\* place, and every directory (store.go:316-372, 388-399).
THEOREM CommandsStayOnTheirPaths == Spec => ChangesOnlyOwnPaths
<1> DEFINE Own(x) ==
      \/ root'[x] = root[x]
      \/ root[x] = cur /\ root'[x] = None
      \/ /\ pc \in {"link", "relink"} /\ x \in Covered(store[cur].files)
         /\ root[x] # Folder /\ root'[x] \in {cur, Folder, None}
<1>1. TypeInv /\ [Next]_vars => [pc # "idle" => \A x \in Path : Own(x)]_vars
  <2> SUFFICES ASSUME TypeInv, Next, pc # "idle", NEW x \in Path PROVE Own(x)
    OBVIOUS
  <2>t. root \in [Path -> Pkg \cup {None, Folder, User}]
    BY DEF TypeInv, TypeOK
  <2>1. ASSUME NEW S, root' = Without(root, cur, S) PROVE Own(x)
    BY <2>1 DEF Without
  <2>2. CASE Unlink \/ UnlinkKept \/ RemoveUnlink \/ UnlinkCut
    BY <2>1, <2>2 DEF Unlink, UnlinkKept, RemoveUnlink, UnlinkCut
  <2>3. CASE Link \/ Relink
    <3>1. /\ pc \in {"link", "relink"} /\ Taken(root, store[cur].files) = {}
          /\ root' = With(root, cur, store[cur].files)
      BY <2>3 DEF Link, Relink
    <3>2. x \in store[cur].files => root[x] # Folder
      BY <3>1 DEF Taken
    <3> QED BY <3>1, <3>2 DEF With, Covered
  <2>4. CASE LinkCut
    <3>1. /\ pc \in {"link", "relink"}
          /\ root' \in Halfway(root, cur, store[cur].files) \cup Partly(root, cur, store[cur].files)
      BY <2>4 DEF LinkCut
    <3>2. store[cur].files \subseteq Path
      BY <3>1 DEF TypeInv, TypeOK, JobsOK, Busy, Cmd, Dir
    <3> DEFINE F == store[cur].files
               E == Pkg \cup {None, Folder, User}
    <3>3. /\ root \in [Path -> E] /\ F \in SUBSET Path
          /\ root' \in Halfway(root, cur, F) \cup Partly(root, cur, F)
      BY <2>t, <3>1, <3>2
    <3> HIDE DEF F, E
    <3>4. root'[x] # root[x] => x \in Covered(F) /\ root[x] # Folder /\ root'[x] \in {cur, Folder, None}
      BY <3>3, HalfwayChanges
    <3> QED BY <3>1, <3>4 DEF F
  <2>5. CASE UNCHANGED root
    BY <2>5
  <2> QED
    BY <2>2, <2>3, <2>4, <2>5
    DEF Next, Start, Begin, Work, Failure, PlanSteps, CommitSteps, Resolve, Plan, Download,
        Fetched, KeptUnlink, KeptLink, KeptRecord, KeptAsIs, Take, Prune, ResolveDone,
        PlanDone, DownloadDone, PlanCommitted, Extract, Seal, Wipe, Rename, Save,
        ResetProfiles, BuildProfile, ProfilesBuilt, Sweep, PruneDone, RemoveFromProfiles,
        RemoveWipe, Finish, fs, ResolveError, Die, WipeCut, ProfilesCut, RemoveProfilesCut,
        BuildCut, UserFile, StartInstall, StartUpgrade, StartUpgradeAll, StartSync, StartRemove
<1> QED BY <1>1, TypeInit, TypeNext, PTL DEF Spec, ChangesOnlyOwnPaths

\* The steps that the phases before the commit loop can take.
LEMMA EarlyStep ==
  ASSUME Next, pc \in {"resolve", "plan", "download"}
  PROVE  /\ root' = root /\ profile' = profile /\ orphans' = orphans
         /\ store' = store \/ \E p \in Pkg : Plan(p)
BY DEF Next, Start, Work, Failure, PlanSteps, CommitSteps, Turn, Staged, Stop, Fail, Killed, Reset,
  StartInstall, StartUpgrade, StartUpgradeAll, StartSync, StartRemove,
  Resolve, Plan, Download, Fetched, KeptUnlink, KeptLink, KeptAlone, KeptRecord, KeptAsIs, Prune, ResolveDone,
  PlanDone, DownloadDone, PlanCommitted, Extract, Seal, Unlink, Wipe, Rename, Link,
  UnlinkKept, Relink, Save, ResetProfiles, BuildProfile, ProfilesBuilt, Sweep, PruneDone,
  RemoveUnlink, RemoveFromProfiles, RemoveWipe, Finish, ResolveError, Die, UnlinkCut,
  LinkCut, WipeCut, ProfilesCut, RemoveProfilesCut, BuildCut, UserFile

\* The file system changes under a batch only once the whole batch has resolved
\* (install.go:75-79).
THEOREM UnresolvedAborts == Spec => UnresolvedWritesNothing
<1> DEFINE Batch == {"install", "upgrade", "sync"}
<1>1. TypeInv /\ [Next]_vars =>
        [(cmd.op \in Batch /\ fs' # fs) => \A p \in cmd.names : job[p].ver # None]_vars
  <2> SUFFICES ASSUME TypeInv, Next, cmd.op \in Batch, fs' # fs
               PROVE  \A p \in cmd.names : job[p].ver # None
    OBVIOUS
  <2>1. pc # "resolve"
    BY EarlyStep DEF Plan, fs
  <2> QED BY <2>1 DEF TypeInv, JobsOK
<1> QED BY <1>1, TypeInit, TypeNext, PTL DEF Spec, UnresolvedWritesNothing

\* Before the last download no link changes and no installed package is touched
\* (install.go:88-130).
THEOREM DownloadsFirst == Spec => DownloadsComeFirst
<1> DEFINE A == (pc \in {"resolve", "plan", "download"}) =>
                  /\ root' = root /\ profile' = profile
                  /\ \A p \in Pkg : Installed(p) => store'[p] = store[p]
<1>1. TypeInv /\ [Next]_vars => [A]_vars
  <2> SUFFICES ASSUME TypeInv, Next, pc \in {"resolve", "plan", "download"}
               PROVE  /\ root' = root /\ profile' = profile
                      /\ \A p \in Pkg : Installed(p) => store'[p] = store[p]
    OBVIOUS
  <2>1. ASSUME NEW p \in Pkg, NEW q \in Pkg, Installed(p), Plan(q)
        PROVE  store'[p] = store[p]
    BY <2>1 DEF Plan, DropLeftover, TypeInv, TypeOK
  <2> QED BY <2>1, EarlyStep
<1> QED BY <1>1, TypeInit, TypeNext, PTL DEF Spec, DownloadsComeFirst
=============================================================================
