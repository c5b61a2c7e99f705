------------------------------- MODULE Prefix -------------------------------
(***************************************************************************)
(* One binman prefix and the one bm process that works on it               *)
(* (cmd/binman/store.go, install.go, manifest.go).                         *)
(*                                                                         *)
(*   store[p]     prefix/store/p: the version its files came from, the     *)
(*                files still there, and what .binman-meta records         *)
(*   root[x]      what is at prefix/x: a link into store/p, a directory,   *)
(*                something of the user's own, or nothing                  *)
(*   profile[f]   the same under prefix/profile/f                          *)
(*   orphans      stage directories a dead process left in prefix/store    *)
(*                                                                         *)
(* A command moves the process through program points (pc).  Each step is  *)
(* one system call or one loop over files; a process that dies inside a    *)
(* loop (the *Cut actions) leaves any part of the loop's effect behind.    *)
(*                                                                         *)
(* A definition marked "mutant" is a wrong variant of the one below it; no *)
(* action uses it, and the checks must fail when it takes that one's place.*)
(***************************************************************************)
EXTENDS Naturals, Sequences, Functions

CONSTANTS
  Pkg, Ver, Path, Profile,  \* packages, versions (digests), file paths, profiles
  Above,                    \* Above[x]: the directories on the way to x
  None, Folder, User,       \* nothing there; a directory; anything else that is
                            \* the user's: a file, a link of his own
  Files,                    \* Files[p][v]: the paths of version v of p that are linked
  Names,                    \* every package, in the order os.ReadDir sorts them
  Installs,                 \* bm install: [names, link, force]
  Upgrades,                 \* bm upgrade: sequences of names, << >> for "all"
  Removes,                  \* bm remove: packages
  Manifests,                \* bm sync: [link, unlink, profiles]
  SyncFlags,                \* bm sync: [force, prune]
  Faults,                   \* program points at which a failure may strike
  Shared,                   \* packages another process also downloads into the
                            \* cache file, $XDG_CACHE_HOME/binman/<arch>/p.tar.gz
  UserPaths                 \* paths at which the user may put something

PC == {"idle", "resolve", "plan", "download", "commit",
       "extract", "seal", "unlink", "wipe", "rename", "link",
       "unlinkKept", "relink", "save",
       "profiles", "build", "sweep", "prune",
       "rmUnlink", "rmProfiles", "rmWipe", "done"}

\* A stage directory exists from MkdirTemp until it is renamed into place.
Staged == {"extract", "seal", "unlink", "wipe", "rename"}

ASSUME ConstantsAssumption ==
  /\ None \notin Pkg \cup Ver
  /\ User \notin Pkg \cup {None} /\ Folder \notin Pkg \cup {None, User}
  /\ Above \in [Path -> SUBSET Path]
  /\ \A x \in Path : x \notin Above[x] /\ \A y \in Above[x] : Above[y] \subseteq Above[x]
  /\ Files \in [Pkg -> [Ver -> SUBSET Path]]
  /\ \A p \in Pkg, v \in Ver : \A x \in Files[p][v] : Above[x] \cap Files[p][v] = {}
  /\ Names \in Seq(Pkg) /\ Range(Names) = Pkg
  /\ \A c \in Installs :
       c.names \in Seq(Pkg) /\ c.link \in BOOLEAN /\ c.force \in BOOLEAN
  /\ Upgrades \subseteq Seq(Pkg) /\ Removes \subseteq Pkg
  /\ \A m \in Manifests :
       /\ m.link \in Seq(Pkg) /\ m.unlink \in Seq(Pkg)
       /\ m.profiles \in [Profile -> Seq(Pkg)]
  /\ \A g \in SyncFlags : g.force \in BOOLEAN /\ g.prune \in BOOLEAN
  /\ Faults \subseteq PC \ {"idle", "done"}
  /\ Shared \subseteq Pkg /\ UserPaths \subseteq Path

VARIABLES
  store, root, profile, orphans,   \* the file system
  pc, cmd, job, pending, cur,      \* the process: point, command, per-package
  stage, unbuilt,                  \*   job, packages and profiles still to do
  astray                           \* history: links made for a package whose
                                   \*   metadata was never told (see Remember)

fs == <<store, root, profile, orphans>>
vars == <<store, root, profile, orphans, pc, cmd, job, pending, cur, stage, unbuilt, astray>>

\* ver = None: no such directory; digest = None: no (readable) .binman-meta.
Dir == [ver : Ver \cup {None}, files : SUBSET Path,
        digest : Ver \cup {None}, linked : BOOLEAN]
NoDir == [ver |-> None, files |-> {}, digest |-> None, linked |-> FALSE]

NoLinks == [x \in Path |-> None]

\* installTarget and installJob: what is wanted, and what the plan loop found.
NoJob == [p \in Pkg |-> [ver |-> None, was |-> None, wasLinked |-> FALSE, fetch |-> FALSE]]

NoCmd == [op |-> "none", order |-> << >>, names |-> {}, linked |-> {},
          force |-> FALSE, prune |-> FALSE, profiles |-> [f \in Profile |-> << >>]]

Init ==
  /\ store = [p \in Pkg |-> NoDir]
  /\ root = NoLinks
  /\ profile = [f \in Profile |-> NoLinks]
  /\ orphans = {}
  /\ pc = "idle" /\ cmd = NoCmd /\ job = NoJob
  /\ pending = {} /\ cur = None /\ stage = NoDir /\ unbuilt = {}
  /\ astray = {}

-----------------------------------------------------------------------------
(* The file operations. *)

DirsOf(S) == UNION {Above[x] : x \in S}
\* The paths at which linking the files S puts something.
Covered(S) == S \cup DirsOf(S)

\* unlinkPkgFrom: of the files S of p, remove the links that point there.
WithoutAny(tree, p, S) == [x \in Path |-> IF x \in S THEN None ELSE tree[x]]  \* mutant
Without(tree, p, S) == [x \in Path |-> IF x \in S /\ tree[x] = p THEN None ELSE tree[x]]

\* rejectSymlinkParents: unlinking fails where something else than a directory
\* stands on the way, whoever the link is of.
Barred(tree, S) == {x \in S : \E y \in Above[x] : tree[y] \notin {None, Folder}}

\* linkPkgInto: whatever stands where a directory must be, a link of another
\* package or a file of the user's, is removed for it (ensureAggregateDir); then
\* what is at the destination is replaced by a link into p.
WithFirst(tree, p, S) ==  \* mutant
  [x \in Path |-> IF x \in S /\ tree[x] = None THEN p
                  ELSE IF x \in DirsOf(S) THEN Folder ELSE tree[x]]
WithMkdirAll(tree, p, S) ==  \* mutant
  [x \in Path |-> IF x \in S THEN p
                  ELSE IF x \in DirsOf(S) /\ tree[x] = None THEN Folder ELSE tree[x]]
With(tree, p, S) ==
  [x \in Path |-> IF x \in S THEN p ELSE IF x \in DirsOf(S) THEN Folder ELSE tree[x]]

\* It fails where a directory is in the way of a link.
Taken(tree, S) == {x \in S : tree[x] = Folder}

\* The links that linking the packages of s in turn into an empty tree leaves:
\* each path is the last package's that puts something there.
LastWith(s, x, i) ==
  /\ x \in Covered(store[s[i]].files)
  /\ \A j \in (i + 1)..Len(s) : x \notin Covered(store[s[j]].files)
LastAt(s, x) == CHOOSE i \in DOMAIN s : LastWith(s, x, i)
Tree(s) ==
  [x \in Path |-> IF ~\E i \in DOMAIN s : LastWith(s, x, i) THEN None
                  ELSE IF x \in store[s[LastAt(s, x)]].files THEN s[LastAt(s, x)]
                  ELSE Folder]
\* Unless a file of one is a directory of one before it.
Buildable(s) ==
  \A j \in DOMAIN s : \A i \in 1..(j - 1) :
    store[s[j]].files \cap DirsOf(store[s[i]].files) = {}

\* readMeta succeeds.
Installed(p) == store[p].digest # None

\* installedNames lists directories of prefix/store that hold a metadata file,
\* and a sealed stage directory is one.
SealedOrphan == \E o \in orphans : o.sealed

-----------------------------------------------------------------------------
(* How a command ends. *)

Reset ==
  /\ pc' = "idle" /\ cmd' = NoCmd /\ job' = NoJob
  /\ pending' = {} /\ cur' = None /\ stage' = NoDir /\ unbuilt' = {}

\* An error returns through the deferred RemoveAll(staged); a killed process
\* does not.
Fail == Reset /\ orphans' = orphans
Killed ==
  /\ pc \in Staged
  /\ Reset
  /\ orphans' = orphans \cup {[name |-> cur, sealed |-> stage.digest # None]}
Stop == Fail \/ Killed

Die ==
  /\ pc \in Faults
  /\ Stop
  /\ UNCHANGED <<store, root, profile>>

Finish ==
  /\ pc = "done"
  /\ Reset
  /\ UNCHANGED fs

-----------------------------------------------------------------------------
(* The commands, up to their first effect. *)

Begin(op, order, names, linked, force, prune, profiles) ==
  /\ cmd' = [op |-> op, order |-> order, names |-> names, linked |-> linked,
             force |-> force, prune |-> prune, profiles |-> profiles]
  /\ pending' = names
  /\ pc' = "resolve"
  /\ UNCHANGED <<store, root, profile, orphans, job, cur, stage, unbuilt>>

\* bm install p...: one link option for all of them.
StartInstall(c) ==
  /\ pc = "idle"
  /\ Begin("install", c.names, Range(c.names),
           IF c.link THEN Range(c.names) ELSE {}, c.force, FALSE, NoCmd.profiles)

\* bm upgrade p...: each needs its metadata, and keeps its link mode.
StartUpgrade(s) ==
  /\ pc = "idle" /\ s # << >>
  /\ \A p \in Range(s) : Installed(p)
  /\ Begin("upgrade", s, Range(s), {p \in Range(s) : store[p].linked},
           FALSE, FALSE, NoCmd.profiles)

\* bm upgrade: a sealed orphan is listed as a package, its name is invalid,
\* and the command returns that error before it does anything.
StartUpgradeAll ==
  /\ pc = "idle" /\ << >> \in Upgrades
  /\ ~SealedOrphan
  /\ \E p \in Pkg : Installed(p)
  /\ Begin("upgrade", Names, {p \in Pkg : Installed(p)},
           {p \in Pkg : store[p].linked}, FALSE, FALSE, NoCmd.profiles)

\* bm sync.  manifest.installPlan: link entries, then unlink entries, then the
\* members of the profiles; a package named twice keeps its first place, and a
\* root link wins.
StartSync(m, flags) ==
  /\ pc = "idle"
  /\ Begin("sync", m.link \o m.unlink,
           Range(m.link) \cup Range(m.unlink)
             \cup UNION {Range(m.profiles[f]) : f \in Profile},
           Range(m.link), flags.force, flags.prune, m.profiles)

\* bm remove p.
StartRemove(p) ==
  /\ pc = "idle"
  /\ Installed(p)
  /\ cmd' = [NoCmd EXCEPT !.op = "remove", !.names = {p}]
  /\ cur' = p
  /\ pc' = IF store[p].linked THEN "rmUnlink" ELSE "rmProfiles"
  /\ UNCHANGED <<store, root, profile, orphans, job, pending, stage, unbuilt>>

-----------------------------------------------------------------------------
(* installPackagePlan, up to the commit loop. *)

\* Packages resolve in parallel; the registry may name any version by now.
Resolve(p) ==
  /\ pc = "resolve" /\ p \in pending
  /\ \E v \in Ver : job' = [job EXCEPT ![p].ver = v]
  /\ pending' = pending \ {p}
  /\ UNCHANGED <<store, root, profile, orphans, pc, cmd, cur, stage, unbuilt>>

\* A package that cannot be resolved lets the others finish.
ResolveError(p) ==
  /\ pc = "resolve" /\ p \in pending /\ pc \in Faults
  /\ pending' = pending \ {p}
  /\ UNCHANGED <<store, root, profile, orphans, pc, cmd, job, cur, stage, unbuilt>>

AllResolved == \A p \in cmd.names : job[p].ver # None

ResolveDone ==
  /\ pc = "resolve" /\ pending = {}
  /\ IF AllResolved
     THEN /\ pc' = "plan" /\ pending' = cmd.names
          /\ UNCHANGED <<store, root, profile, orphans, cmd, job, cur, stage, unbuilt>>
     ELSE Fail /\ UNCHANGED <<store, root, profile>>

\* The digest decides whether p is fetched again.
NeedsFetch(p) == cmd.force \/ store[p].digest # job[p].ver

\* A store directory without metadata is dropped here, before any download.  (Cut
\* short, that leaves such a directory still: nothing reads its files.)
DropAnyOther(p) == IF NeedsFetch(p) THEN NoDir ELSE store[p]  \* mutant
DropLeftover(p) == IF Installed(p) THEN store[p] ELSE NoDir

Plan(p) ==
  /\ pc = "plan" /\ p \in pending
  /\ store' = [store EXCEPT ![p] = DropLeftover(p)]
  /\ job' = [job EXCEPT ![p] = [ver |-> job[p].ver, was |-> store[p].digest,
                                wasLinked |-> store[p].linked, fetch |-> NeedsFetch(p)]]
  /\ pending' = pending \ {p}
  /\ UNCHANGED <<root, profile, orphans, pc, cmd, cur, stage, unbuilt>>

PlanDone ==
  /\ pc = "plan" /\ pending = {}
  /\ pc' = "download"
  /\ pending' = {p \in cmd.names : job[p].fetch}
  /\ UNCHANGED <<store, root, profile, orphans, cmd, job, cur, stage, unbuilt>>

\* Each download replaces the cache file of its package at once.  When one
\* fails the others finish, and the command ends: Die at "download".
Download(p) ==
  /\ pc = "download" /\ p \in pending
  /\ pending' = pending \ {p}
  /\ UNCHANGED <<store, root, profile, orphans, pc, cmd, job, cur, stage, unbuilt>>

DownloadDone ==
  /\ pc = "download" /\ pending = {}
  /\ pc' = "commit" /\ pending' = cmd.names
  /\ UNCHANGED <<store, root, profile, orphans, cmd, job, cur, stage, unbuilt>>

-----------------------------------------------------------------------------
(* installPackagePlan, the commit loop: one package at a time, in plan order. *)

\* The packages that come before p; profile members follow the two lists, in
\* an order that no link depends on.
Before(p) ==
  {cmd.order[j] : j \in {k \in DOMAIN cmd.order : \A i \in 1..k : cmd.order[i] # p}}
Turn(p) == pc = "commit" /\ p \in pending /\ Before(p) \cap pending = {}

Wanted(p) == p \in cmd.linked

Take(p, point) ==
  /\ pending' = pending \ {p} /\ cur' = p
  /\ pc' = point
  /\ UNCHANGED <<store, root, profile, orphans, cmd, job, stage, unbuilt>>

\* cur is done: on to the next package.
Next1 == pc' = "commit" /\ cur' = None

Fetched(p) == Turn(p) /\ job[p].fetch /\ Take(p, "extract")
KeptUnlink(p) ==
  Turn(p) /\ ~job[p].fetch /\ job[p].wasLinked /\ ~Wanted(p) /\ Take(p, "unlinkKept")
KeptLink(p) == Turn(p) /\ ~job[p].fetch /\ Wanted(p) /\ Take(p, "relink")
KeptAlone(p) == Turn(p) /\ ~job[p].fetch /\ ~job[p].wasLinked /\ ~Wanted(p)
\* Its metadata is written again if it names another architecture.
KeptRecord(p) == KeptAlone(p) /\ Take(p, "save")
KeptAsIs(p) ==
  /\ KeptAlone(p)
  /\ pending' = pending \ {p}
  /\ UNCHANGED <<store, root, profile, orphans, pc, cmd, job, cur, stage, unbuilt>>

\* The cache file holds what this process downloaded, unless another process
\* has replaced it since.
Cached(p) == {job[p].ver} \cup (IF p \in Shared THEN Ver ELSE {})

Extract ==
  /\ pc = "extract"
  /\ \E v \in Cached(cur) :
       stage' = [NoDir EXCEPT !.ver = v, !.files = Files[cur][v]]
  /\ pc' = "seal"
  /\ UNCHANGED <<store, root, profile, orphans, cmd, job, pending, cur, unbuilt>>

\* writeMetaAt(staged), then into placeStore.
SealedOldMode(p) ==  \* mutant
  [stage EXCEPT !.digest = job[p].ver, !.linked = job[p].wasLinked]
SealedOldDigest(p) ==  \* mutant
  [stage EXCEPT !.digest = IF job[p].was = None THEN job[p].ver ELSE job[p].was,
                !.linked = Wanted(p)]
Sealed(p) == [stage EXCEPT !.digest = job[p].ver, !.linked = Wanted(p)]

Seal ==
  /\ pc = "seal"
  /\ stage' = Sealed(cur)
  /\ pc' = IF job[cur].wasLinked THEN "unlink" ELSE "wipe"
  /\ UNCHANGED <<store, root, profile, orphans, cmd, job, pending, cur, unbuilt>>

Unlink ==
  /\ pc = "unlink" /\ Barred(root, store[cur].files) = {}
  /\ root' = Without(root, cur, store[cur].files)
  /\ pc' = "wipe"
  /\ UNCHANGED <<store, profile, orphans, cmd, job, pending, cur, stage, unbuilt>>

Wipe ==
  /\ pc = "wipe"
  /\ store' = [store EXCEPT ![cur] = NoDir]
  /\ pc' = "rename"
  /\ UNCHANGED <<root, profile, orphans, cmd, job, pending, cur, stage, unbuilt>>

Rename ==
  /\ pc = "rename"
  /\ store' = [store EXCEPT ![cur] = stage]
  /\ stage' = NoDir
  /\ IF Wanted(cur) THEN pc' = "link" /\ cur' = cur ELSE Next1
  /\ UNCHANGED <<root, profile, orphans, cmd, job, pending, unbuilt>>

Link ==
  /\ pc = "link" /\ Taken(root, store[cur].files) = {}
  /\ root' = With(root, cur, store[cur].files)
  /\ Next1
  /\ UNCHANGED <<store, profile, orphans, cmd, job, pending, stage, unbuilt>>

\* A package that needs no fetch: links first, metadata last.
UnlinkKept ==
  /\ pc = "unlinkKept" /\ Barred(root, store[cur].files) = {}
  /\ root' = Without(root, cur, store[cur].files)
  /\ pc' = "save"
  /\ UNCHANGED <<store, profile, orphans, cmd, job, pending, cur, stage, unbuilt>>

Relink ==
  /\ pc = "relink" /\ Taken(root, store[cur].files) = {}
  /\ root' = With(root, cur, store[cur].files)
  /\ \/ job[cur].wasLinked /\ Next1
     \/ pc' = "save" /\ cur' = cur
  /\ UNCHANGED <<store, profile, orphans, cmd, job, pending, stage, unbuilt>>

SaveNothing == UNCHANGED store  \* mutant
SaveMeta ==
  store' = [store EXCEPT ![cur].digest = job[cur].ver, ![cur].linked = Wanted(cur)]

Save ==
  /\ pc = "save"
  /\ SaveMeta
  /\ Next1
  /\ UNCHANGED <<root, profile, orphans, cmd, job, pending, stage, unbuilt>>

PlanCommitted ==
  /\ pc = "commit" /\ pending = {}
  /\ pc' = IF cmd.op = "sync" THEN "profiles" ELSE "done"
  /\ UNCHANGED <<store, root, profile, orphans, cmd, job, pending, cur, stage, unbuilt>>

-----------------------------------------------------------------------------
(* cmdSync after the plan: the profile trees, then the prune. *)

\* RemoveAll(prefix/profile).
ResetProfiles ==
  /\ pc = "profiles"
  /\ profile' = [f \in Profile |-> NoLinks]
  /\ unbuilt' = {f \in Profile : cmd.profiles[f] # << >>}
  /\ pc' = "build"
  /\ UNCHANGED <<store, root, orphans, cmd, job, pending, cur, stage>>

BuildProfile(f) ==
  /\ pc = "build" /\ f \in unbuilt /\ Buildable(cmd.profiles[f])
  /\ profile' = [profile EXCEPT ![f] = Tree(cmd.profiles[f])]
  /\ unbuilt' = unbuilt \ {f}
  /\ UNCHANGED <<store, root, orphans, pc, cmd, job, pending, cur, stage>>

ProfilesBuilt ==
  /\ pc = "build" /\ unbuilt = {}
  /\ pc' = IF cmd.prune THEN "sweep" ELSE "done"
  /\ UNCHANGED <<store, root, profile, orphans, cmd, job, pending, cur, stage, unbuilt>>

\* installedNames, minus the plan.  A sealed orphan sorts before every package
\* and cmdRemove rejects its name, so the prune fails before it removes anything.
Unwanted == {p \in Pkg : Installed(p)} \ cmd.names

Sweep ==
  /\ pc = "sweep"
  /\ IF SealedOrphan
     THEN Fail /\ UNCHANGED <<store, root, profile>>
     ELSE /\ pc' = "prune" /\ pending' = Unwanted
          /\ UNCHANGED <<store, root, profile, orphans, cmd, job, cur, stage, unbuilt>>

\* cmdRemove of the next unwanted package.
Prune(p) ==
  /\ pc = "prune" /\ p \in pending
  /\ Take(p, IF store[p].linked THEN "rmUnlink" ELSE "rmProfiles")

PruneDone ==
  /\ pc = "prune" /\ pending = {}
  /\ pc' = "done"
  /\ UNCHANGED <<store, root, profile, orphans, cmd, job, pending, cur, stage, unbuilt>>

-----------------------------------------------------------------------------
(* cmdRemove: root links, profile links, then the store directory. *)

RemoveUnlink ==
  /\ pc = "rmUnlink" /\ Barred(root, store[cur].files) = {}
  /\ root' = Without(root, cur, store[cur].files)
  /\ pc' = "rmProfiles"
  /\ UNCHANGED <<store, profile, orphans, cmd, job, pending, cur, stage, unbuilt>>

RemoveFromProfiles ==
  /\ pc = "rmProfiles"
  /\ \A f \in Profile : Barred(profile[f], store[cur].files) = {}
  /\ profile' = [f \in Profile |-> Without(profile[f], cur, store[cur].files)]
  /\ pc' = "rmWipe"
  /\ UNCHANGED <<store, root, orphans, cmd, job, pending, cur, stage, unbuilt>>

RemoveWipe ==
  /\ pc = "rmWipe"
  /\ store' = [store EXCEPT ![cur] = NoDir]
  /\ cur' = None
  /\ pc' = IF cmd.op = "sync" THEN "prune" ELSE "done"
  /\ UNCHANGED <<root, profile, orphans, cmd, job, pending, stage, unbuilt>>

-----------------------------------------------------------------------------
(* Failures inside a loop leave any part of its effect: the process dies there *)
(* (Stop), or the loop comes to a path it cannot deal with (Fail).             *)

UnlinkCut ==
  /\ pc \in {"unlink", "unlinkKept", "rmUnlink"}
  /\ \E S \in SUBSET (store[cur].files \ Barred(root, store[cur].files)) :
       root' = Without(root, cur, S)
  /\ \/ pc \in Faults /\ Stop
     \/ Barred(root, store[cur].files) # {} /\ Fail
  /\ UNCHANGED <<store, profile>>

\* Some of the files F are linked.
Partly(tree, p, F) == {With(tree, p, S) : S \in SUBSET (F \ Taken(tree, F))}

\* And of another, all is done until y is removed, to be replaced.
Gap(tree, y) ==
  [x \in Path |-> IF x = y THEN None ELSE IF x \in Above[y] THEN Folder ELSE tree[x]]
Halfway(tree, p, F) ==
  Partly(tree, p, F)
    \cup UNION {{Gap(t, y) : y \in {x \in Covered(F) : t[x] # Folder}} : t \in Partly(tree, p, F)}

LinkCut ==
  /\ pc \in {"link", "relink"}
  /\ \/ pc \in Faults /\ Stop /\ root' \in Halfway(root, cur, store[cur].files)
     \/ /\ Taken(root, store[cur].files) # {}
        /\ Fail /\ root' \in Partly(root, cur, store[cur].files)
  /\ UNCHANGED <<store, profile>>

\* os.RemoveAll deletes entries in directory order, the metadata file among them.
Remains(p) ==
  {[store[p] EXCEPT !.files = S] : S \in SUBSET store[p].files}
    \cup {[NoDir EXCEPT !.ver = store[p].ver, !.files = S] : S \in SUBSET store[p].files}

WipeCut ==
  /\ pc \in {"wipe", "rmWipe"} \cap Faults
  /\ store[cur] # NoDir
  /\ \E d \in Remains(cur) : store' = [store EXCEPT ![cur] = d]
  /\ Stop
  /\ UNCHANGED <<root, profile>>

\* It deletes what is in a directory before the directory.
ProfilesCut ==
  /\ pc = "profiles" /\ pc \in Faults
  /\ \E S \in [Profile -> {T \in SUBSET Path : \A x \in Path : Above[x] \cap T # {} => x \in T}] :
       profile' = [f \in Profile |-> [x \in Path |-> IF x \in S[f] THEN None ELSE profile[f][x]]]
  /\ Stop
  /\ UNCHANGED <<store, root>>

\* The first n packages of the profile are linked, and some files of the next.
BuildCut(f) ==
  /\ pc = "build" /\ f \in unbuilt
  /\ \E n \in 0..(Len(cmd.profiles[f]) - 1) :
       LET before == SubSeq(cmd.profiles[f], 1, n)
           p == cmd.profiles[f][n + 1]
       IN  /\ Buildable(before)
           /\ \/ /\ pc \in Faults /\ Stop
                 /\ \E t \in Halfway(Tree(before), p, store[p].files) :
                      profile' = [profile EXCEPT ![f] = t]
              \/ /\ Taken(Tree(before), store[p].files) # {} /\ Fail
                 /\ \E t \in Partly(Tree(before), p, store[p].files) :
                      profile' = [profile EXCEPT ![f] = t]
  /\ UNCHANGED <<store, root>>

RemoveProfilesCut ==
  /\ pc = "rmProfiles"
  /\ \E S \in [Profile -> SUBSET store[cur].files] :
       /\ \A f \in Profile : S[f] \cap Barred(profile[f], store[cur].files) = {}
       /\ profile' = [f \in Profile |-> Without(profile[f], cur, S[f])]
  /\ \/ pc \in Faults /\ Stop
     \/ (\E f \in Profile : Barred(profile[f], store[cur].files) # {}) /\ Fail
  /\ UNCHANGED <<store, root>>

\* The user replaces whatever is at x, a directory and all in it included, by a
\* file or a link of his own.
UserFile(x) ==
  /\ pc = "idle"
  /\ root' = [y \in Path |-> IF y = x THEN User ELSE IF y \in Above[x] THEN Folder
                             ELSE IF x \in Above[y] THEN None ELSE root[y]]
  /\ UNCHANGED <<store, profile, orphans, pc, cmd, job, pending, cur, stage, unbuilt>>

-----------------------------------------------------------------------------
Start ==
  \/ \E c \in Installs : StartInstall(c)
  \/ \E s \in Upgrades : StartUpgrade(s)
  \/ StartUpgradeAll
  \/ \E m \in Manifests, g \in SyncFlags : StartSync(m, g)
  \/ \E p \in Removes : StartRemove(p)

PlanSteps(p) == Resolve(p) \/ Plan(p) \/ Download(p)
CommitSteps(p) == Fetched(p) \/ KeptUnlink(p) \/ KeptLink(p)
                    \/ KeptRecord(p) \/ KeptAsIs(p) \/ Prune(p)

Work ==
  \/ \E p \in Pkg : PlanSteps(p) \/ CommitSteps(p)
  \/ ResolveDone \/ PlanDone \/ DownloadDone \/ PlanCommitted
  \/ Extract \/ Seal \/ Unlink \/ Wipe \/ Rename \/ Link
  \/ UnlinkKept \/ Relink \/ Save
  \/ ResetProfiles \/ (\E f \in Profile : BuildProfile(f)) \/ ProfilesBuilt
  \/ Sweep \/ PruneDone
  \/ RemoveUnlink \/ RemoveFromProfiles \/ RemoveWipe
  \/ Finish

Failure ==
  \/ \E p \in Pkg : ResolveError(p)
  \/ Die \/ UnlinkCut \/ LinkCut \/ WipeCut \/ ProfilesCut \/ RemoveProfilesCut
  \/ \E f \in Profile : BuildCut(f)

\* The history: a package of which nothing is to be fetched is linked before its
\* metadata says so, and the command failed in between (install.go:166-177).
LeavesAstray ==
  pc \in {"relink", "save"} /\ pc' = "idle" /\ Wanted(cur) /\ ~job[cur].wasLinked
Remember ==
  astray' = {l \in astray \cup (IF LeavesAstray THEN Path \X {cur} ELSE {}) : root'[l[1]] = l[2]}

Next ==
  /\ Start \/ Work \/ Failure \/ (\E x \in UserPaths : UserFile(x))
  /\ Remember

Spec == Init /\ [][Next]_vars

-----------------------------------------------------------------------------
(* Properties. *)

Job == [ver : Ver \cup {None}, was : Ver \cup {None},
        wasLinked : BOOLEAN, fetch : BOOLEAN]
Cmd == [op : {"none", "install", "upgrade", "sync", "remove"},
        order : Seq(Pkg), names : SUBSET Pkg, linked : SUBSET Pkg,
        force : BOOLEAN, prune : BOOLEAN, profiles : [Profile -> Seq(Pkg)]]

\* Every variable stays in its range (the state of cmd/binman).
TypeOK ==
  /\ store \in [Pkg -> Dir]
  /\ root \in [Path -> Pkg \cup {None, Folder, User}]
  /\ profile \in [Profile -> [Path -> Pkg \cup {None, Folder}]]
  /\ orphans \subseteq [name : Pkg \cup {None}, sealed : BOOLEAN]
  /\ pc \in PC
  /\ cmd \in Cmd
  /\ job \in [Pkg -> Job]
  /\ pending \subseteq Pkg
  /\ cur \in Pkg \cup {None}
  /\ stage \in Dir
  /\ unbuilt \subseteq Profile
  /\ astray \subseteq Path \X Pkg

\* No command leaves a root link that outlives its file: a link into package p
\* points at a file p still has, and p's metadata says it is linked, so that
\* the next remove or upgrade of p takes the link away.  The exceptions are the
\* package whose links are written and whose metadata is about to be, and the
\* links of one for which it came to no more than that (install.go:166-177):
\* these outlive the package, and no other command makes any.
LinksOwned ==
  \A x \in Path, p \in Pkg :
    root[x] = p => \/ <<x, p>> \in astray
                   \/ /\ x \in store[p].files
                      /\ Installed(p)
                      /\ store[p].linked \/ (pc = "save" /\ cur = p)

\* No link is made through a link: on the way to whatever is in the prefix there
\* are its own directories only, also where the user had put a link to one of
\* his there (store.go:342-372, main_test.go:888).
NothingBehindLinks ==
  \A x \in Path : root[x] # None => \A y \in Above[x] : root[y] = Folder

\* A package with metadata is whole: store/p holds all the files of the very
\* version its metadata names, whatever was interrupted (install.go:94-100
\* takes metadata for that).
InstalledIsWhole ==
  \A p \in Pkg :
    Installed(p) => /\ store[p].ver = store[p].digest
                    /\ store[p].files = Files[p][store[p].digest]

\* And more: whatever command does it and wherever it is cut short, a package
\* with metadata only ever comes whole, goes, or changes its link mode, and one
\* package at a time: the directories and metadata of the store implement the
\* abstract store of packages (placeStore, cmdRemove, the commit loop).
Packages == INSTANCE PackageStore WITH
  Absent <- NoDir,
  have <- [p \in Pkg |-> IF Installed(p) THEN store[p] ELSE NoDir]
ImplementsPackageStore == Packages!Spec

\* p's place in the plan: manifest.installPlan keeps the first.
Place(p) == CHOOSE i \in DOMAIN cmd.order :
              cmd.order[i] = p /\ \A j \in 1..(i - 1) : cmd.order[j] # p
LastToProvide(p, x) ==
  \A q \in cmd.linked : x \in Covered(store[q].files) => Place(q) <= Place(p)

\* When sync succeeds, after whatever was interrupted before it: every package of
\* the manifest is installed in its link mode; each path belongs to the last
\* linked package that puts something there; every other link is one of a linked
\* package outside the manifest, and not even that if it prunes, or went astray
\* earlier, which sync does not mend; the profile trees are exactly the declared
\* ones; and no other package is left if it prunes (manifest.go:104-166).
SyncConverges ==
  (pc = "done" /\ cmd.op = "sync") =>
    /\ \A p \in cmd.names : Installed(p) /\ (store[p].linked <=> p \in cmd.linked)
    /\ \A p \in cmd.linked : \A x \in store[p].files : LastToProvide(p, x) => root[x] = p
    /\ \A x \in Path, p \in Pkg :
         root[x] = p => \/ <<x, p>> \in astray
                        \/ x \in store[p].files /\ p \in cmd.linked
                        \/ x \in store[p].files /\ p \notin cmd.names /\ ~cmd.prune
    /\ \A f \in Profile : profile[f] = Tree(cmd.profiles[f])
    /\ cmd.prune => \A p \in Pkg : Installed(p) => p \in cmd.names

\* A package that a successful command fetched is whole, of the version it
\* resolved to, and in the link mode asked for, whatever state an earlier
\* interruption left it in: the forced re-run is a repair.
FetchRepairs ==
  pc = "done" => \A p \in cmd.names :
    job[p].fetch => /\ store[p].digest = job[p].ver
                    /\ store[p].ver = store[p].digest
                    /\ store[p].files = Files[p][store[p].digest]
                    /\ store[p].linked <=> Wanted(p)

\* "A missing package in the batch must abort the whole install before
\* anything is written to the prefix" (main_test.go:319): the file system
\* changes under a command only if every package of its batch has resolved.
UnresolvedWritesNothing ==
  [][(cmd.op \in {"install", "upgrade", "sync"} /\ fs' # fs) =>
        \A p \in cmd.names : job[p].ver # None]_vars

\* Until every download of the batch is complete, no installed package loses a
\* file and no link changes: a registry failure leaves the prefix as usable as
\* it was (install.go:114-130 come before the commit loop).
DownloadsComeFirst ==
  [][(pc \in {"resolve", "plan", "download"}) =>
        /\ root' = root /\ profile' = profile
        /\ \A p \in Pkg : Installed(p) => store'[p] = store[p]]_vars

\* A command takes away a link of the package it works on (store.go:388-399), and
\* when it links that package, what stands at one of its paths or on the way to
\* one (store.go:324, 364).  Everything else stays: the links of other packages,
\* what the user put in a link's place, and every directory.
ChangesOnlyOwnPaths ==
  [][pc # "idle" => \A x \in Path :
       \/ root'[x] = root[x]
       \/ root[x] = cur /\ root'[x] = None
       \/ /\ pc \in {"link", "relink"} /\ x \in Covered(store[cur].files)
          /\ root[x] # Folder /\ root'[x] \in {cur, Folder, None}]_vars

\* "a failure can leave a partial state that a re-run cleans up"
\* (store.go:423): when an install of p succeeds, no complete stage directory
\* of p is left for installedNames to take for a package.
RerunCleansUp ==
  (pc = "done" /\ cmd.op = "install") =>
    \A o \in orphans : ~(o.sealed /\ o.name \in cmd.names)
=============================================================================
