------------------------------ MODULE Delivery ------------------------------
(***************************************************************************)
(* From the archive that cmd/artifact packs to the package that bm         *)
(* installs from it: extractTarGz unpacks it into a stage of the store,    *)
(* collectPkgFiles lists the files to link into the prefix.  The two       *)
(* programs do not share code; the archive is all they agree on.  (Hard    *)
(* links and the other entries that bm can read never come from            *)
(* createArchive, which goes by os.Lstat.)                                 *)
(***************************************************************************)
EXTENDS Artifact, FiniteSets

VARIABLES
    tree,       \* the file system of the machine that installs
    read,       \* the entries of the archive that were unpacked
    walk,       \* the directories to walk: [rel, active]
    files       \* what collectPkgFiles has found: [abs, rel], to be linked

deliveryVars == <<cfg, fs, phase, todo, archive, copied, tree, read, walk, files>>
buildVars == <<cfg, fs, todo, archive, copied>>

Stage == <<"stage">>
MetaFile == ".binman-meta"
ASSUME StageAssumption == Stage \in Path /\ MetaFile \in Name

(***************************************************************************)
(* extractTarGz, entry by entry.                                           *)
(***************************************************************************)
Target(header) == Stage \o Tail(header.name)

RejectSymlinkParents(target) ==
    \E p \in Prefixes(Front(target)) :
        Inside(Stage, p) /\ p \in DOMAIN tree /\ tree[p].kind # "dir"

LinkTarget(target, node) == CleanJoin(Front(target), node.to)

UnpackedLink(target, node) ==
    Link(FALSE, Rel(Front(target), LinkTarget(target, node)))

LeavesPackage(target, node) ==
    node.kind = "link" /\ (node.abs \/ ~Inside(Stage, LinkTarget(target, node)))

\* What is already there and cannot be replaced: nothing, in an archive with
\* one entry to a path.
Clash(target, node) ==
    /\ target \in DOMAIN tree
    /\ CASE node.kind = "dir" -> ~EvalsTo(tree, target, "dir")
         [] node.kind = "file" -> tree[target].kind \in {"dir", "link"}
         [] node.kind = "link" -> /\ tree[target].kind = "dir"
                                 /\ Subtree(tree, target) # {target}

Unpacked(target, node) ==
    IF node.kind = "link" THEN UnpackedLink(target, node) ELSE node

ExtractEntry ==
    /\ phase = "packed" /\ read < Len(archive)
    /\ LET target == Target(archive[read + 1])
           node == archive[read + 1].node
           refused == \/ RejectSymlinkParents(target) \/ Clash(target, node)
                      \/ LeavesPackage(target, node)
       IN  \/ /\ target = Stage
              /\ read' = read + 1
              /\ UNCHANGED <<phase, tree>>
           \/ /\ target # Stage /\ ~refused
              /\ tree' = IF node.kind = "dir" THEN MkdirAll(tree, target)
                         ELSE With(MkdirAll(tree, Front(target)), target,
                                   Unpacked(target, node))
              /\ read' = read + 1
              /\ UNCHANGED phase
           \/ /\ target # Stage /\ refused
              /\ phase' = "unpackable"
              /\ UNCHANGED <<tree, read>>
    /\ UNCHANGED <<buildVars, walk, files>>

(***************************************************************************)
(* writeMetaAt puts the metadata into the stage (tree leaves it out), in   *)
(* the place of what the package has there, but for a directory.           *)
(***************************************************************************)
Metadata == [kind |-> "text", id |-> MetaFile, refs |-> FALSE]
MetaPath == Append(Stage, MetaFile)
Sealed == With(tree, MetaPath, File(Metadata, FALSE))

EndExtract ==
    /\ phase = "packed" /\ read = Len(archive)
    /\ \/ /\ ~IsKind(tree, MetaPath, "dir")
          /\ phase' = "extracted"
          /\ walk' = {[rel |-> <<>>, active |-> {}]}
       \/ /\ IsKind(tree, MetaPath, "dir")
          /\ phase' = "unlinkable"
          /\ UNCHANGED walk
    /\ UNCHANGED <<buildVars, tree, read, files>>

(***************************************************************************)
(* collectPkgFiles: every file of the package by the path it has through   *)
(* its directory links, the metadata apart; a directory link that leaves   *)
(* the package or that comes back to a directory being walked is an error. *)
(***************************************************************************)
\* (A variant that forgets no directory it has walked.)
WalkedBefore(w, path) ==
    w.active \cup {path} \cup {EvalSymlinks(Sealed, Front(f.abs)).path : f \in files}
BeingWalked(w, path) == w.active \cup {path}

\* (A variant that does not follow directory links.)
RealOnly(dirs, path) == {n \in dirs : Sealed[Append(path, n)].kind = "dir"}
Entered(dirs, path) == dirs

WalkDir(w) ==
    LET path == Stage \o w.rel
        e == EvalSymlinks(Sealed, path)
        names == {n \in ReadDir(Sealed, e.path) : Append(w.rel, n) # <<MetaFile>>}
        dirs == {n \in names : EvalsTo(Sealed, Append(path, n), "dir")}
        broken == \E n \in names : EvalSymlinks(Sealed, Append(path, n)).err = "bad"
        walkable == /\ e.err = "none" /\ Below(Stage, e.path) /\ e.path \notin w.active
                    /\ ~broken
    IN  \/ /\ walkable
           /\ walk' = (walk \ {w}) \cup {[rel |-> Append(w.rel, n),
                                         active |-> BeingWalked(w, e.path)] :
                                          n \in Entered(dirs, e.path)}
           /\ files' = files \cup {[abs |-> Append(path, n), rel |-> Append(w.rel, n)] :
                                      n \in names \ dirs}
           /\ UNCHANGED phase
        \/ /\ ~walkable
           /\ phase' = "unlinkable"
           /\ walk' = {}
           /\ files' = {}

CollectPkgFiles ==
    /\ phase = "extracted"
    /\ \E w \in walk : IsFirst(w.rel, {v.rel : v \in walk}) /\ WalkDir(w)
    /\ UNCHANGED <<buildVars, tree, read>>

EndCollect ==
    /\ phase = "extracted" /\ walk = {}
    /\ phase' = "linked"
    /\ UNCHANGED <<buildVars, tree, read, walk, files>>

(***************************************************************************)
(* The build, then one installation of what it published.                  *)
(***************************************************************************)
DeliveryInit ==
    /\ Init
    /\ tree = [p \in {<<>>, Stage} |-> Dir]
    /\ read = 0
    /\ walk = {}
    /\ files = {}

Build == Next /\ UNCHANGED <<tree, read, walk, files>>

DeliveryNext == Build \/ ExtractEntry \/ EndExtract \/ CollectPkgFiles \/ EndCollect

DeliverySpec == DeliveryInit /\ [][DeliveryNext]_deliveryVars
-----------------------------------------------------------------------------
(***************************************************************************)
(* Properties.                                                             *)
(***************************************************************************)
Phases == DOMAIN NextPass \cup {"begin", "packed", "failed", "extracted",
                                 "unpackable", "linked", "unlinkable"}

\* Both file systems stay trees of what they may hold, and a path that a pass
\* has listed is there, of the kind it was listed for, when its turn comes,
\* whatever the pass has removed and renamed (normalize.go:41-101).
DeliveryTypeOK ==
    /\ cfg \in Configs /\ phase \in Phases /\ read \in 0..Len(archive)
    /\ IsTreeOfNodes(fs) /\ IsTree(tree)
    /\ archive \in Seq([name : Seq(Name \cup {PackageName}), node : Node])
    /\ phase \in {"prepare", "normalize"} =>
          \A p \in todo : Below(Output, p) /\ IsKind(fs, p, "file")
    /\ phase = "links" =>
          \A p \in todo : Below(Output, p) /\ IsKind(fs, p, "link")
    /\ phase = "pack" => todo \subseteq Subtree(fs, Output)

Packed == {p \in Subtree(fs, Output) : p # Output}
InOutput(p) == Output \o Under(Source, p)
DataAt(t, p) == t[EvalSymlinks(t, p).path]

\* The text of a link goes up first and then down.
PlainText(to) ==
    \A i, j \in DOMAIN to : i < j /\ to[j] = ".." => to[i] = ".."

\* Where a copy may read a link in another way than the package: a directory
\* link was replaced by a copy of what it ends at, and a link that stays was
\* copied with it, or goes up after it went down, maybe through that directory.
Stays(t, p) == ~t[p].abs /\ Below(Source, EvalSymlinks(t, p).path)
MayBeMisread(t) ==
    LET links == {p \in DOMAIN t : t[p].kind = "link" /\ EvalSymlinks(t, p).err = "none"}
        kept == {p \in links : Stays(t, p)}
    IN  \E q \in links \ kept :
            /\ EvalsTo(t, q, "dir")
            /\ \E r \in kept :
                  Below(EvalSymlinks(t, q).path, r) \/ ~PlainText(t[r].to)

\* The copy of a package holds what the package held: whatever file a path of
\* the package ends at, the same path of the output ends at the same data,
\* be it reached through links that stay, through links that were replaced,
\* or both; but for links where they may be misread (normalize.go:273-349).
CopyKeepsPrograms ==
    [][phase = "copy" /\ phase' = "remove" =>
         \A p \in Subtree(fs, Source) :
            EvalsTo(fs, p, "file") /\ (fs[p].kind = "link" => ~MayBeMisread(fs)) =>
               /\ EvalsTo(fs, InOutput(p), "file")
               /\ DataAt(fs, InOutput(p)) = DataAt(fs, p)]_deliveryVars

IsUnwanted(t, p) ==
    \/ IsKind(t, p, "file") /\ Last(p) \in Discarded
    \/ \E i \in DOMAIN Unwanted :
          LET parent == EvalSymlinks(t, Output \o Front(Unwanted[i])) IN
          parent.err = "none" /\ Below(Append(parent.path, Last(Unwanted[i])), p)

Hidden(t) ==
    {h \in Subtree(t, Output) : /\ IsKind(t, h, "file") /\ ~IsUnwanted(t, h)
                               /\ Last(h) \in DOMAIN Wrapped}

\* The program behind the public name p: a hidden program may itself be the
\* launcher of one hidden deeper.
Behind(t) ==
    LET program[p \in Path] ==
            IF \E h \in Hidden(t) : Public(h) = p
            THEN program[CHOOSE h \in Hidden(t) : Public(h) = p]
            ELSE p
    IN  program

\* The tree without what goes, with the program itself in the place of every
\* launcher, all at once.
Replaced(t) ==
    LET kept == {p \in DOMAIN t : Below(Output, p) => ~IsUnwanted(t, p)}
        discarded == {p \in Subtree(t, Output) :
                         IsKind(t, p, "file") /\ Last(p) \in Discarded}
    IN  [p \in (kept \cup {Public(h) : h \in Hidden(t)}) \ (Hidden(t) \cup discarded) |->
            t[Behind(t)[p]]]

\* Removing and renaming, one path after the other by lists made before, comes
\* to the tree in which all of it happened at once, less the links of the
\* output that end at nothing in it: no other command is lost, and none is
\* left with a launcher; as long as each hidden name comes before its public
\* one in the list, which it does if that starts with no character before "."
\* (normalize.go:103-123).
PruneIsAllAtOnce ==
    [][phase' = "normalize" /\ phase # "normalize"
            /\ (\A h \in Hidden(copied) : Before(h, Public(h))) =>
         LET t == Replaced(copied)
             dangling(p) == /\ Below(Output, p) /\ t[p].kind = "link"
                            /\ EvalSymlinks(t, p).err # "none"
         IN  fs' = [p \in {q \in DOMAIN t : ~dangling(q)} |-> t[p]]]_deliveryVars

IsFreeOfStore(p, d) ==
    /\ d.kind \in {"text", "elf"} => ~d.refs
    /\ d.kind = "elf" /\ cfg.platform = "linux" /\ ~Unchecked(p) =>
          "nix" \notin d.libraries \cup d.rpaths \cup {d.interpreter}
    /\ d.kind = "macho" /\ cfg.platform = "darwin" /\ ~Unchecked(p) =>
          "nix" \notin d.dependencies \cup d.rpaths \cup {d.installName}

\* No text and no ELF file that is packed names a path of the Nix store, and
\* neither do the headers of an ELF file for Linux or of a Mach-O file for
\* macOS, unless the path of the file says openssl.  (The data of Mach-O files,
\* binary data, and Mach-O files for Linux are packed as they are.)
NoStoreInTextOrHeaders ==
    \A i \in DOMAIN archive :
        archive[i].node.kind = "file" =>
            IsFreeOfStore(Output \o Tail(archive[i].name), archive[i].node.data)

\* What is unpacked is what was packed: the same paths, each of them the same
\* directory or file, or the same link but for its text.  An archive is refused
\* for nothing but a link that leaves the package by name: no two entries
\* clash, none comes before its directory, none is below a link or a file.
InStage(p) == Stage \o Under(Output, p)
UnpackedAsPacked ==
    /\ phase \in {"extracted", "linked", "unlinkable"} =>
          /\ Subtree(tree, Stage) = {InStage(p) : p \in Subtree(fs, Output)}
          /\ \A p \in Packed : tree[InStage(p)] = Unpacked(InStage(p), fs[p])
    /\ phase = "unpackable" =>
          \E p \in Packed : /\ fs[p].kind = "link" /\ ~fs[p].abs
                            /\ ~Inside(Stage, LinkTarget(InStage(p), fs[p]))

\* The paths of the output of at most n names, through whatever links.
PathsThrough[n \in Nat] ==
    IF n = 0 THEN {Output}
    ELSE LET shorter == PathsThrough[n - 1] IN
         shorter \cup UNION {{Append(p, m) : m \in ReadDir(fs, EvalSymlinks(fs, p).path)} :
                              p \in {q \in shorter : EvalsTo(fs, q, "dir")}}

AllPlain == \A p \in Packed : fs[p].kind = "link" => PlainText(fs[p].to)
MetaInOutput == Append(Output, MetaFile)

\* What an installation links is what was packed: every path of the output that
\* ends at a file, through whatever links, is a file to link of that path, with
\* the same data, and nothing else is; as long as no link goes up after it went
\* down, which bm reads by name alone, and nothing has the name of bm's
\* metadata.  (A path that enters no directory twice has at most as many names
\* as there are directories.)
InstalledAsPacked ==
    phase = "linked" /\ AllPlain /\ MetaInOutput \notin DOMAIN fs =>
        LET paths == PathsThrough[Cardinality(OfKind("dir"))] IN
        /\ {f.rel : f \in files} =
              {Under(Output, p) : p \in {q \in paths : EvalsTo(fs, q, "file")}}
        /\ \A f \in files :
             /\ EvalsTo(Sealed, f.abs, "file")
             /\ DataAt(Sealed, f.abs) = DataAt(fs, Output \o f.rel)

\* Some directories of the output lead into each other, by what they hold and
\* by the links they hold.
LinksCycle ==
    LET dirs == OfKind("dir")
        leads == [d \in dirs |->
            {EvalSymlinks(fs, Append(d, n)).path :
                n \in {m \in ReadDir(fs, d) : EvalsTo(fs, Append(d, m), "dir")}}]
    IN  \E C \in SUBSET dirs : C # {} /\ \A d \in C : leads[d] \cap C # {}

\* A package that cmd/artifact accepted and that bm could unpack fails to
\* install for its links exactly if they lead round in a cycle, and otherwise
\* only for a directory that has the name of bm's metadata; as long as no link
\* goes up after it went down (store.go:236-297).
ListedUnlessLinksCycle ==
    AllPlain =>
        /\ phase = "unlinkable" => LinksCycle \/ IsKind(fs, MetaInOutput, "dir")
        /\ phase = "linked" => ~LinksCycle

\* docs/package-strategies/special-cases.md: apart from the packages that are
\* listed, every ELF file of a Linux package passes the static check.
OnlyListedPackagesAreDynamic ==
    phase = "packed" /\ cfg.platform = "linux" /\ ~cfg.allowDynamicELF =>
        \A i \in DOMAIN archive :
            LET node == archive[i].node IN
            node.kind = "file" /\ node.data.kind = "elf" =>
                ~IsDynamicallyLinked(node.data)

=============================================================================
