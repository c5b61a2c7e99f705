# prebuilt-tools in TLA+

A specification of the programs of this repository that keep state: `binman`
(`bm`, installs prebuilt packages into a prefix), `nixcache` (a Nix binary cache
kept as OCI artifacts on GHCR) and the release workflows that tie them together.
The modules are checked with TLC on small instances; the `*Proofs` modules hold
theorems that TLAPS checks for every instance.

## The system

| Component | State | Operations |
|---|---|---|
| **binman prefix** (`cmd/binman/store.go`, `install.go`) | `store/<pkg>/` with `.binman-meta`, links in the prefix root, stage directories | install, upgrade, remove; list/info/outdated only read |
| **binman manifest** (`manifest.go`) | `profile/<name>/` link trees | sync: install plan, profile rebuild, prune |
| **binman registry client** (`registry.go`, `download.go`) | the download cache `$XDG_CACHE_HOME/binman/<arch>/<pkg>.tar.gz`, shared by every process | resolve a batch, download a batch, `bm download` |
| **nixcache registry** (`cmd/nixcache/registry.go`, `ghcr.go`) | on GHCR: tags, manifests, blobs | list tags, fetch segments in parallel, push a segment, delete versions |
| **nixcache commands** (`push.go`, `probe.go`, `serve.go`, `prune.go`) | the server's in-memory index | push, probe, serve (refresh in the background), prune |
| **artifact** (`cmd/artifact`) | an output tree, an archive | normalize a closure, archive it |
| **release workflows** (`.github/workflows`) | runs, the cache, the published artifacts | discover, build, push cache, publish; prune on a schedule |
| **Nix packaging** (`lib`, `manifests`, `packages`) | none at run time | recipes evaluated by Nix |

How they interact: a release run asks `nixcache serve` + `probe` whether a package
is already in the cache, builds it if not, pushes its closure to the cache with
`nixcache push`, normalizes it with `artifact`, and publishes the archive under the
package's tag. `binman` resolves that tag, downloads the layer and installs it. A
daily run of `nixcache prune` deletes cache segments while pushes may be running.

What is hard: binman works on a file system without transactions and may die
between any two system calls; its commands must bring a half-done prefix back in
order. The cache is a set of immutable segments that many runs add to, one run
prunes, and servers read through an index that is refreshed behind the readers'
backs, over a registry with a retry policy and parallel fetches that cancel each
other. The release pipeline's steps commit to two stores one after the other.

What makes each correct:

* *prefix*: metadata vouches for all the files; no root link dangles or escapes
  the record; a command changes only the paths of the package it works on; nothing is
  linked through a link; nothing is written for a batch that does not resolve; sync
  converges whatever was interrupted before it.
* *cache registry*: a tag that is visible is complete; the newest entry wins; one
  bad segment must not pass for a good one; a lookup returns what was pushed.
* *prune*: what is kept is what the retention rule says, and a segment that is in
  a kept snapshot and its package's newest is never deleted.
* *serve*: the index only moves forward, and a narinfo is followed by its NAR.
* *release*: a package that builds is eventually published; an older run replaces a
  newer artifact only if runs overlapped.
* *artifact and unpacking*: no program is lost, no text and no header names the Nix store,
  and what `artifact` accepts `bm` installs, each file under every path it was packed
  with.
* *bm processes*: the shared cache file is whole; `bm download` places one batch.

## The modules

| Module | Models | Extended by |
|---|---|---|
| `Prefix` | one binman prefix and the `bm` process that works on it | `MCPrefix`, `PrefixProofs`, `CommandProofs` |
| `PackageStore` | abstract: what the packages of a prefix are to their readers | instantiated by `Prefix` |
| `Fetch` | the `bm` processes of one user, the download cache they share, `bm download` | `MCFetch`, `FetchProofs` |
| `Retention` | which segments `nixcache prune` deletes, as functions of a set of segments | `CacheStore`, `PushedSegments` |
| `PushedSegments` | the sets of segments that pushes and prunes leave, of any ages | `MCRetention`, `RetentionProofs` |
| `CacheStore` | the writers of the cache: any number of `push` and `prune` processes, the registry, its blob collection | `NixCache`, `MCCacheStore` |
| `NixCache` | `serve` over those writers, and a client that substitutes through it | `MCNixCache`, `NixCacheProofs` |
| `SegmentLoad` | abstract: what loading the segments of the cache promises | instantiated by `NixCache` and `Requests` |
| `Requests` | one load, request by request: the worker pool, deadlines and attempts, cancellation, invalid segments | `MCRequests`, `RequestsProofs` |
| `Release` | the release workflow's runs over a cache that forgets, up to the published artifact | `MCRelease`, `ReleaseProofs` |
| `FileTree` | a file system as a function, and what Go's `path/filepath` and `os` make of it | `Artifact` |
| `Artifact` | `cmd/artifact`: the passes of normalize, file by file, and the archive | `Delivery` |
| `Delivery` | `bm` unpacking that archive and listing its files | `MCDelivery`, `DeliveryProofs` |

`SegmentLoad` ties two levels together: `Requests` is shown to implement it request by
request, and the server of `NixCache` to implement it tag by tag, so the one step in
which `NixCache` and `CacheStore` read a tag stands for what `Requests` does in many.
`Release` sees the cache through what a probe may find, which `NixCache` and
`CacheStore` are about; `Prefix` sees the registry and the cache file through the
versions they may hold, which `Fetch` is about.

A definition marked `\* mutant` (in `Artifact` and `Delivery`, "a variant
that ...") is a wrong variant of the definition below it, the kind of mistake a change
to the code could make. No action uses it; put in the place of the right one it must
make a run fail.

### Prefix

`store[p]` is the directory `store/p` — the version its files come from, the files
still there, and the digest and link mode in `.binman-meta`; `root` and `profile`
are the link trees; `orphans` the stage directories a dead process leaves. A path may be
on the way to another (`Above`): at each is a link of a package, a directory (`Folder`),
something of the user's (`User`), or nothing. The process is a program counter `pc` over the system calls of `installPackagePlan`,
`placeStore`, `cmdSync` and `cmdRemove`:

| Code | Actions |
|---|---|
| `installPackages`, `cmdUpgrade`, `cmdSync`, `cmdRemove` up to the first effect | `StartInstall`, `StartUpgrade`, `StartUpgradeAll`, `StartSync`, `StartRemove` |
| `resolveArtifacts` | `Resolve`, `ResolveError`, `ResolveDone` |
| the planning loop (install.go:88-112) | `Plan`, `PlanDone` |
| `downloadArtifacts` | `Download`, `DownloadDone` |
| the commit loop (install.go:132-180): a fetched package | `Fetched`, `Extract`, `Seal`, `Unlink`, `Wipe`, `Rename`, `Link` |
| — one that is up to date | `KeptUnlink`/`UnlinkKept`, `KeptLink`/`Relink`, `KeptRecord`, `KeptAsIs`, `Save` |
| `linkPkgInto` with `ensureAggregateDir` (store.go:299-372) | `With`: what stands at a directory's place goes for the directory, what stands at a file's goes for the link; `Taken`: a directory at a file's place is an error |
| `unlinkPkgFrom` with `rejectSymlinkParents` | `Without`; `Barred`: a link or file on the way is an error |
| profiles and prune (manifest.go:125-166) | `ResetProfiles`, `BuildProfile`, `ProfilesBuilt`, `Sweep`, `Prune`, `PruneDone` |
| `cmdRemove` | `RemoveUnlink`, `RemoveFromProfiles`, `RemoveWipe` |
| an error return (`Fail`, which runs the deferred removal of the stage) or a kill (`Killed`, which does not) | `Die`; inside a loop over files `UnlinkCut`, `LinkCut`, `WipeCut`, `ProfilesCut`, `BuildCut`, `RemoveProfilesCut` |
| a user who puts a file or a link into the prefix (external) | `UserFile` |

`Faults` names the program points at which a failure may strike, so that a run can
leave out the points at which a property is known not to hold and say so.

`astray` is history: the links that were made for a package that needs no fetch when the
command failed before its metadata said so (install.go:166-177). The code has lost track
of them: `bm remove` and `bm sync`, with `--prune` too, leave them in the prefix after the
package is gone. `LinksOwned` and `SyncConverges` except these links by name, and so say
that there are no others. What else the model shows, and no property calls wrong: a link of
another package or a file of the user's that stands on the way to a file bars the removal
of its package until another command puts a directory there; a package that has a file
where another has a directory cannot be linked after it ("is a directory"), and a sync of
both in that order fails every time.

`PackageStore` is what the readers of a prefix may take its packages for: each is absent
or whole, comes and goes in one step, and changes its link mode in place. `Prefix` maps
to it by the directories that have metadata; a package that is replaced goes at `Wipe`
and comes at `Rename`, one that is removed goes at `RemoveWipe`, `Save` changes the link
mode, and every other step, a failure included, is a stutter.

### Retention, CacheStore, NixCache

`Retention` is `segmentsToDelete`, with the set `KeptSnapshots` of the choices that
`keptSnapshots` can make among snapshots of one age (a Go map and an unstable sort).
`PushedSegments` takes a push and a prune for one step each, so that segments can be of
any ages, two of them of the same, and a prune can stop after any of its deletions.
`CacheStore` has both in detail: a segment is identified with its push, and it has the registry (`visible`
tags, `blobs`), the pushes (`pushing`, `todo`) and the prunes (`prune[p]`: the
program point, the tags still to fetch, the segments loaded and those to delete).
`NixCache` adds the server (`serve`, `index`, `ready`) and one request of two steps,
a narinfo and then its NAR. A NAR is answered with 404 if the index does not know it, with
502 if its blob cannot be read for whatever reason (serve.go:114-118), whole, or cut off in
the middle (`NarAnswers`).

| Code | Actions |
|---|---|
| `pushSegment`, `pushFile` | `StartPush`, `UploadNar`, `Publish`, `FailPush` |
| `pruneCache`: `listTags`, `fetchSegments`, `segmentsToDelete` | `ListTags`, `LoadSegment`, `Decide` |
| a tag that is read: there it counts, gone meanwhile it is skipped (registry.go:222) | `Read`, in `LoadSegment` and `FetchSegment` |
| `versionsByTag`, `deleteVersions` | `MapVersions`, `Delete`, `PruneDone` |
| a request that fails, a kill | `FailPush`, `FailPrune`, `LoadFails`, `StopServer` |
| the registry's own collection (external) | `CollectBlobs` |
| `serveCache`, `refresh`, `loadEntries` | `StartServer`, `Tick`, `FetchSegment`, `SwapIndex`, `LoadFails` |
| `serveHTTP` as a client meets it | `GetNarinfo`, `GetNar`, `Answered` |

### Fetch

A process runs one command after the other: `bm install` up to the files it unpacks
and the digest it records, or all of `bm download`. `cache[p]` is the file
`$XDG_CACHE_HOME/binman/<arch>/<p>.tar.gz` — its name has no digest, so any process
may replace it between another's download and its extraction.

| Code | Actions |
|---|---|
| `downloadPackages` up to the first request | `Start` |
| `resolveArtifacts` | `Resolve`, `Resolved` |
| `downloadLayer`, `writeAtomic`, `downloadArtifacts` | `Open`, `Copied`, `CopyFails`, `Fetched` |
| `extractTarGz` of the cache file, or of the workspace's | `Extract`, `Extracted` |
| the renames of `bm download` | `Place`, `Placed` |
| an error, a kill | `Fail`, `Kill` |
| a publication; a user who puts something at a target (external) | `Publish`, `UserPuts` |

### Requests and SegmentLoad

`task[t]` is what the goroutine of tag `t` does, `attempt[t]` which try of its request
it is, `cause` the error the `errgroup` holds. `fate[t]` is the tag's life in the
registry: pushed, pruned, its metadata collected. A tag that is not there when its
turn comes is skipped; one that cannot be read or validated fails the load. A listing
shows the tags of one moment; it may be repeated.

| Code | Actions |
|---|---|
| `listTags`, with "name unknown" as an empty list | `Begin`, `ListAnswer`, `ListLate`, `ListFails` |
| `group.Go` under `SetLimit` | `Dispatch` |
| `getManifest`, `getSegment`, `validateSegment` | `ManifestAnswer`, `MetadataAnswer` |
| `registryRequest`: a deadline, another error | `Late`, `Fails` |
| `group.Wait` | `GroupDone` |
| pushes, prunes and the registry's collection | `Publish`, `Prune`, `Collect` |

### Release

A run has a commit and a job per package that goes through `probe`, `queued`, `built`,
`cached`, `done`. The paths of a commit are data (`OutPath`), so that a package can be
reverted to an earlier path. Runs start by a push to the default branch or to another
one, by the weekly schedule (which does not filter by cache hits) and by hand; no
concurrency group keeps them apart. `overlapped` and `sidePushed` are history.

### FileTree, Artifact, Delivery

A tree maps paths (sequences of names) to directories, files and links. A file's
bytes are its kind (text, ELF, Mach-O, binary), whether it names the store, whether
`debug/elf` or `debug/macho` can read it, and its headers (interpreter, rpaths, libraries). `Artifact` goes through the passes of `run` in their
order (`NextPass`), `Delivery` through an installation of what they made. Each loop of the
code is an action that takes the first item of `todo` (`walk`, or the next entry of the
archive), in the order in which the code takes it:

| Code | Actions |
|---|---|
| `copyTree`, `copyNode` | `Begin`, `CopyNode` (`CopyFile`, `CopyDir`, `CopyLink`) |
| the removals of `normalize` | `RemoveUnwanted` |
| `regularFiles`, `prepareFile` | `PrepareFile` (`DiscardFile`, `Unwrap`, `PrepareFails`) |
| `removeDanglingSymlinks` | `RemoveDanglingSymlink` |
| `normalizeFile` | `NormalizeFile` (`NormalizeELF`, `NormalizeMachO`, `RewriteText`, `LeaveFile`) |
| `createArchive` | `Pack` |
| the end of a pass, and the list the next one makes | `EndPass` |
| `extractTarGz`, and `writeMetaAt` into the stage | `ExtractEntry`, `EndExtract` (`Sealed`) |
| `collectPkgFiles` | `CollectPkgFiles` (`WalkDir`), `EndCollect` |

An entry of the copy is `[src, dst, active]`: what is read, where it goes, and the
directories the recursion is in. `copied` is history: the tree as the copy left it, which
`PruneIsAllAtOnce` compares the later passes with. One program runs at a time; what is hard
is that a pass works by a list of what the tree was, and that three programs — copying,
unpacking, listing — read a link each in its own way.

## What is checked

| Run | What it shows |
|---|---|
| `commands` | every interleaving of failures with install, upgrade and remove: links have an owner, downloads come before changes, nothing is linked through a link, and a command changes its own paths alone |
| `sync` | whatever was interrupted before it, a sync that succeeds has made the prefix what the manifest says, and what it fetched is whole |
| `whole` | outside `RemoveAll` a prefix is a `PackageStore`: metadata never vouches for files that are not there, and no package turns into another version in place |
| `rerun` | a way in which "a re-run cleans up" (store.go:422-424) is not so: a sealed stage directory stays behind and is taken for a package |
| `fetch` | two processes that install and download: the cache file is whole, a recorded digest is wrong only through another process, a download is one batch |
| `retention` | prune keeps what it must, deletes what it must, and resumes |
| `store` | overlapping pushes and prunes: visible tags are whole, the newest segment of a package stays, and prunes get to the end in spite of each other |
| `serve` | the index only moves forward, `ready` means loaded, a narinfo is followed by a NAR that can be had as long as the cache has one, a refresh is a `SegmentLoad`, the index catches up with the cache |
| `requests` | a load that succeeds is complete, one that fails says why, it is a `SegmentLoad`, it ends, and loads recover |
| `release` | what the filter by cache hits may skip, what a run may overwrite, and that the weekly run catches up |
| `delivery` | from the package in the store to the files `bm` links: nothing lost, no text and no header that names the store, the stage holds what was packed, every path through links is linked, and which packages do not install |
| `delivery_openssl` | a dynamic ELF file whose path says openssl is packed, where the document allows two listed packages |

**Bounds.** `MCPrefix` has two packages that share a path, two versions that change
their file lists, and three paths, one of them a directory on the way to another and a
file of one version: enough for a link to be taken over, to be lost, to dangle, to stand on
the way and to be stood on. Runs differ in the commands they enable (`Installs`, `Manifests`, ...) and
in `Faults`; the sync run limits failures to the four points that leave the most
behind. `MCFetch` has two processes; each may install one package or download two, so
that the cache file is replaced under an install and two downloads meet at a target.
`MCRetention` reaches every set of up to four segments over two snapshots
and two packages (or none), with times 1..3 and a window of 2: a tie of ages, a
segment on the edge of the window, and a fallback to the count all occur.
`MCCacheStore` has three pushes — two packages in one snapshot, one of them in
another — that share NARs, and two prunes, so that one prune can delete what the other
listed, with `Keep` = `PackageKeep` = 1: a second push is enough to make the first
disposable. `MCNixCache` has two pushes in the server's snapshot, the second with
another build of the same path, and one elsewhere. `MCRequests` has a good tag, one
with a bad manifest and one with bad metadata, two workers and two attempts (the code
has 32 and three; the proofs are for any number). `MCRelease` has one package — the
packages of a run share nothing — changed and reverted over three commits, a commit
of another branch, two runs at a time. `MCDelivery` has 3656 packages on two platforms
(274220 states): each launcher, program hidden once or twice, alias, directory link, link
back and obstacle that the passes tell apart, in products of up to four; no path of them but
a cycle goes through more than `MaxHops` = 8 links.
`MaxFailures`, `MaxBreaks` and `MaxDispatches` bound failed prunes, loads, jobs,
restarts and manual runs. Deadlock is not checked where the work is finite: when the
last push is done and nothing is left to prune, or a package is installed, nothing
more happens.

**Fairness.** `store` assumes that a prune is started again and again and that its own
steps go on (`FairPrunes`): the workflow runs every day and each of its requests is
bounded by a timeout. Pushes are under no fairness; a push may stop half way for good.
`serve` assumes that the server is started and that its loads go on (`FairSpec`): the
ticker fires and requests time out. `requests` assumes that the ticker fires, that the
scheduler runs every task, and that a request ends, by its deadline at worst; nothing
about its answer. `LoadsRecover` needs that requests are answered from some time on, and
that no bad segment is left, and says so. `release` assumes that the weekly run comes
and that jobs end, by the runner's limit at worst. Failures are finitely many in
`store`, `serve` and `release`; nothing catches up with a registry that always fails.

## What is proved

All proofs are checked for every value of the constants; the assumptions are those in
`ConstantsAssumption`, `CommandsAssumption`, `RetentionAssumption`, `SegmentAssumption`,
`StoreAssumption`, `ServeAssumption`, `RequestsAssumption`, `ReleaseAssumption`,
`NameOrderAssumption`, `TreesAssumption` and `StageAssumption`, which the runs evaluate.

* `PrefixProofs`: `TypeCorrect` by `TypeInv`, which adds to the types that past the
  resolve phase each package of the batch has a version. `PlanInv` adds what the plan
  knows, at any failure: what is linked is installed, a package that was planned as up to
  date still is when its turn comes (`PlanHolds`), and what each program point of the
  commit loop has of its package (`StepHolds`). `LinksStayOwned` by `LinkInv`, which adds
  what is still true of the links of the package being worked on, at any failure point.
  `ThroughNoLink` by `FolderInv`: on the way to whatever is in the prefix there are
  directories, and each loop over files, cut short or not, leaves it so. `UnresolvedAborts`,
  `DownloadsFirst` and `CommandsStayOnTheirPaths` are action properties from `TypeInv`.
* `CommandProofs`: `InstalledStaysWhole` and the refinement
  `PrefixImplementsPackageStore`, by `StoreInv`: `PlanInv`, and that what is in a sealed
  stage directory is what the package resolved to. Both assume that no
  failure strikes inside `RemoveAll` (`wipe`, `rmWipe`) and that no other process replaces
  the cache files (`Shared = {}`), where they are false.
  `FetchesRepair` needs `Shared = {}` alone: a package that this command has fetched is
  whole even if an earlier `RemoveAll` was cut short. Its invariant (`RepairInv`) says so
  of the packages before the current one in the batch, and of the current one from the
  rename on. `SyncsConverge` assumes nothing about failures, `RemoveAll` and the cache
  included. Its invariant (`SyncInv`) goes through the phases of a sync: the packages are
  taken in the order of the plan (`InOrder`), one whose turn is over is installed in the
  mode asked for (`Settled`) and has each of its root links, unless a later package of the
  plan has the path (`RootsInv`); the profiles that are built are those of the manifest
  (`TreesInv`); a package the manifest does not name is on its way out (`PrunedInv`).
* `FetchProofs`: `Inv` is a predicate of each process, `Good(q)`, over its phase, what it
  has unpacked and what it has placed; `OthersStayGood` says that another's step leaves
  it so, because a cache file written by another is no longer one's own and a placed
  package is not replaced. From it `FetchTypeCorrect`, `CacheStaysWhole`,
  `OneProcessRecordsWhatItUnpacks`, `DownloadsAreOfOneBatch`.
* `RetentionProofs`: the newest segment of a package is retained, a snapshot is only
  dropped for `Keep` others, and from these that each kept snapshot keeps its packages
  (`PackagesAlwaysSurvive`) and each system its newest segment (`NewestAlwaysSurvives`).
  On a set that is `Sound` — finite, each segment with a tag of its own — `Newer` is a
  total order, so that a group has a newest and an oldest segment, by the
  well-foundedness of the subsets of a finite set. The oldest segment that is left bounds
  the others (`NothingExtraIsLeft`). `ResumableAlways` is the long one: the newest segment
  of a kept snapshot is not deleted, so that what is left of a prune that was cut short
  keeps the same snapshots, and only those if no two are of one age (`OneChoice`); and in
  a group the rule gives the same answer with and without the segments that are gone
  (`SameRetained`), because a segment that comes too late in its group to count has
  `PackageKeep` before it that do count and stay. Pushes and prunes leave the set `Sound` (`SoundStep`), so the
  properties hold in every state: `PackagesLiveOn`, `PrunesAreThorough`,
  `PrunesAlwaysResume`.
* `NixCacheProofs`, of the writers: `VisibleStaysWhole` by `WholeInv`: an uploading push finds all
  it has touched. `NewestAlwaysStays` by `NewestInv`: the segments a prune holds are
  published ones, and those it dooms have been *replaced*, by a newer one of their
  package or by `Keep` newer snapshots. The heart is `DoomedReplaced` — whatever part of
  the published segments a prune has loaded, what it dooms has been replaced — and
  `ReplacedStays`: replaced is for ever, so that acting on an old listing is safe.
* `NixCacheProofs`, of the server: it and its clients leave the cache alone
  (`ServingIsHarmless`), so the invariants of the writers hold under them. `ServeInv`
  says that the server, loading or not, knows of each segment that has existed since it
  started, of each one in its index that still exists, and of the one its client was
  answered from. From it `ReadyMeansLoaded`, `IndexMovesForward`, `NarinfoIsFollowed`.
  That the `CHOOSE` of `Winner` finds a newest segment is `NewestExists`, from the
  well-foundedness of the finite subsets of a set. `ServerImplementsSegmentLoad` is the
  refinement of the abstract load.
* `RequestsProofs`: for any tags, pool and number of attempts, `LoadsAreComplete`,
  `FailuresHaveACause`, `NoTaskOutlivesItsLoad` (a load returns only when none of its
  workers can still write to its result, which needs no run), and
  `RequestsImplementSegmentLoad`. The invariant counts deadlines per request and says
  what a task's state implies of its tag's fate and of the group's error.
* `ReleaseProofs`: `ArtifactsMoveForward` by `Inv`: as long as runs have not overlapped
  there is at most one, of the last commit or of another branch, and no artifact of the
  default branch is of a later commit. `SkippingIsRight` by
  `CalmInv`, which speaks only of histories without a failure, an overlap or another
  branch: each path in the cache is backed by a commit at or before the published one, or
  by a job between its two pushes (`Backed`), and a package that is neither current nor
  reverted has a job under way. It needs that a path belongs to one package, which is so
  because a path has the package's name in it (lib/make-artifacts.nix:12-15).
* `DeliveryProofs`: for any package. `TreesAssumption` says that the package and what it
  links to are a tree of nodes, and that the output is a store path of its own to which
  nothing has been written, neither in the package nor above it: Nix makes `$out` for the
  build (lib/make-artifacts.nix:13-33). `StageAssumption` says that the stage is a path,
  `NameOrderAssumption` that names are strings. `DeliveryInv` is inductive:
  - both trees stay trees, and the output, once made, is a directory without absolute links
    (`OutputInv`). For that, the places to which the copy has still to put something must be
    free, in directories that are there, and apart from each other (`CopyInv`);
  - what a pass has listed is still there, and of its kind (`ListInv`). The hard case is
    `Unwrap`, which removes the public name and may put a file where another listed one was;
  - behind the pass that normalizes, text and headers are free of the store (`CleanInv`);
  - the archive has one entry for each path that was packed, with the node the path has, and a
    directory comes before what it holds (`ArchiveInv`), because a walk in order does;
  - the stage holds what the entries read so far say, and nothing else (`StageInv`).

  From it `DeliveryTypeCorrect`, which has `ListInv` in it, `TextAndHeadersAreClean`,
  `ArchiveUnpacksAsPacked` and `PrepareFindsItsFiles`. That an entry finds its place free and its
  directory there is `EntryMeets`: it is why the errors of `extractTarGz` for a parent that
  is a link and for a place that is taken never concern an archive of `cmd/artifact`, and
  one for a link that leaves the package is all that is left. `EveryFileIsCopied` is an
  action property with an invariant of its own, `FilesInv`: a file or directory of the
  package that is not copied yet lies below an entry of `todo` that goes to the place it has
  in the output, and since the copy writes in the output alone (`SourceStays`), the package
  is at the end what it was. How links resolve plays no part in these proofs:
  `EvalSymlinks` is never expanded, so they hold for any resolution.

Only model-checked:

* The liveness properties `PruneCatchesUp`, `IndexCatchesUp`, `LoadEnds`, `LoadsRecover` and
  `ArtifactsCatchUp`: liveness under fairness is out of the prover's reach.
* `CopyKeepsPrograms`, `PruneIsAllAtOnce`, `InstalledAsPacked` and
  `ListedUnlessLinksCycle`. They say where a link ends in one tree and in another, which
  `EvalSymlinks` computes by recursion over the names of a path (`CleanJoin` by a fold over
  the text of a link): to compare two resolutions takes an induction, and the library's
  induction theorems cannot be instantiated. What is proved of the same steps is what does
  not depend on links: `EveryFileIsCopied` for the copy, `DeliveryTypeCorrect` for the passes,
  `ArchiveUnpacksAsPacked` for what is installed.

## What is abstracted, and what is not modelled

* Contents: a NAR is its digest, a file is its path, a package's files are given by
  `Files`. Extraction and directory reads are one step each. Failures of a read have no
  effect of their own.
* A path of `Prefix` is a file of some package, or a directory that files of different
  packages meet in (`Above`); other directories are not named. Directories that an
  unlinking leaves empty stay, as they do in the code.
* One `bm` process works on a prefix (the code takes no lock). In `Prefix` another
  process shows only through the download cache (`Shared`), which is what `Fetch` makes
  explicit for processes with prefixes of their own.
* A registry answers a listing at one moment. `DoomedReplaced` holds for any part of the
  published segments, so a listing put together from pages would do as well.
* Pushes read their clocks at different nanoseconds; `Retention` alone also covers
  segments of one age.
* The registry is taken not to collect a NAR that a push in progress found by `Exists`
  (registry.go:484). The code relies on it: without it `VisibleIsWhole` would be false.
* In `CacheStore` and `NixCache` a request fails or not; its attempts and the pools that
  cancel each other are in `Requests`. The uploads of a push, which share that code, may
  fail at any point.
* `validateSegment` and `getManifest` compare the strings of one document; whether they
  reject a tag is data of `Requests` (`Malformed`, `Unsound`), and a bad tag stays bad.
* `Release` covers one platform and the jobs of the build workflow; which platforms a
  manual run of one package goes to, and the summary, are not modelled. A build's output
  is its path; two builds of one path are equal.
* `Delivery` knows the executable bit of a mode alone. `strip` and signing change none of
  the data modelled. Its properties name their exceptions: links that go up after going
  down, which `bm` reads by name; directory links that lead round in a cycle, which `bm`
  refuses; links that were copied with a directory link that was replaced, which may end
  elsewhere; hidden names that sort after their public names; a file with the name of the
  metadata; paths with openssl, which are not validated. The data of Mach-O files and of
  files with a NUL or with bytes that are not UTF-8 is packed with whatever references to
  the store it has (normalize.go:143-154, 186-188), although
  docs/package-strategies/special-cases.md:40 asks of the two dynamic packages that they
  reference no store path: `NoStoreInTextOrHeaders` is about the rest. A copied launcher of another
  package comes without its hidden program, and aliases of hidden programs go with them;
  the model shows both, no property calls them wrong.
* A kill leaves `.tmp-*` files and `.binman-download-*` directories behind for ever. Nothing
  reads them, except that a `..binman-meta.tmp-*` in a package directory is linked into
  the prefix by the next `linkPkg`; `Prefix` has no such names.
* A removal of a store directory that is cut short (store.go:433) may leave metadata beside
  only some of the files; if the tag then names that very digest again, the re-run finds
  the package up to date. `whole` leaves `RemoveAll` out for this reason, and `sync` shows
  that a fetch repairs it.
* docs/release-model.md:85 says that the prune workflow is only started by hand, while
  prune-nix-cache.yaml also has a schedule and a push trigger. `CacheStore` has prunes at
  any time and any number.
* Not modelled: the command lines and printing of the programs, the hash of `flake.lock`
  (the snapshot is an input), YAML loading, the installers and the other workflows, and
  the Nix recipes. None keeps a state at run time.

## Plan

Done, in this order: `Prefix`; `Retention`; `CacheStore`; `NixCache` and their proofs;
`SegmentLoad` and `Requests` with their proofs and the refinements; `Release`; `FileTree`,
`Artifact` and `Delivery`; `Fetch` and its proofs; `PackageStore` and the proof that `Prefix`
implements it; the proofs of a repairing and a converging sync, of the retention rule after
any pushes and prunes, and of `Release`; `Artifact` and `Delivery` file by file, and their
proofs. What could come next:

1. Several processes on one prefix: the code takes no lock, so what two `bm install` of one
   package leave is a question of its own.
2. The resolution of links as a relation that steps of the system build up, one link at a
   time, instead of a function: the properties of `Delivery` that compare two resolutions
   would then have inductive invariants.
