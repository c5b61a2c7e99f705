------------------------------ MODULE Artifact ------------------------------
(***************************************************************************)
(* cmd/artifact: from the output of a package in the Nix store to the      *)
(* archive that is published, pass by pass and file by file.  The tree of  *)
(* the package, the store paths it links to and the output directory,      *)
(* which Nix puts beside them, are one file system.  The program runs      *)
(* alone; what makes it hard is that each pass works on what the passes    *)
(* before it left, by lists of paths and link texts that may no longer     *)
(* mean what they meant.  The Nix build throws the output away when the    *)
(* program fails.                                                          *)
(*                                                                         *)
(* A file's data is a record: its kind, the program it is (id), whether it *)
(* holds references to the Nix store (refs), whether debug/elf or          *)
(* debug/macho can read it (parses), and what its headers say.  Text is    *)
(* UTF-8 without a NUL; what is neither that nor an executable is binary.  *)
(* Of a mode only the executable bit is kept.                              *)
(***************************************************************************)
EXTENDS FileTree

CONSTANTS
    Trees,          \* the file systems a build may find
    Source, Output, \* the package and the output directory in them
    Configs,        \* the command lines: [platform, allowDynamicELF]
    Wrapped,        \* hidden name ".X-wrapped" -> its public name X
    Discarded,      \* names that end in .a or .pyc
    OpenSSL         \* names that hold "openssl"

Data ==
    [kind : {"text", "binary"}, id : STRING, refs : BOOLEAN]
    \cup [kind : {"elf"}, id : STRING, refs : BOOLEAN, parses : BOOLEAN,
          interpreter : STRING, libraries : SUBSET STRING, rpaths : SUBSET STRING,
          type : STRING, pie : BOOLEAN]
    \cup [kind : {"macho"}, id : STRING, refs : BOOLEAN, parses : BOOLEAN,
          installName : STRING, dependencies : SUBSET STRING, rpaths : SUBSET STRING]

Node ==
    {Dir}
    \cup [kind : {"file"}, data : Data, exec : BOOLEAN]
    \cup [kind : {"link"}, abs : BOOLEAN, to : Seq(Name \cup {".."})]

IsTreeOfNodes(t) == IsTree(t) /\ \A p \in DOMAIN t : t[p] \in Node

\* The package is a tree, and so is all it links to; the output is a store
\* path of its own that the build is the first to write to.
ASSUME TreesAssumption ==
    /\ Source \in Path /\ Output \in Path \ {<<>>} /\ ~Below(Source, Output)
    /\ Wrapped \in [DOMAIN Wrapped -> Name]
    /\ \A t \in Trees : /\ IsTreeOfNodes(t)
                        /\ IsKind(t, Source, "dir") /\ IsKind(t, Front(Output), "dir")
                        /\ Subtree(t, Output) = {}

VARIABLES
    cfg,        \* the command line
    fs,         \* the file system
    phase,      \* the pass that runs, or how the run ended
    todo,       \* what this pass has still to go through
    archive,    \* the entries of the archive so far
    copied      \* fs as the copy left it (as it was found, before that)

vars == <<cfg, fs, phase, todo, archive, copied>>

\* One item of a pass is done, or the pass and the program fail.
Did(tree, work) ==
    /\ fs' = tree
    /\ todo' = work
    /\ UNCHANGED <<cfg, phase, archive, copied>>
Fail ==
    /\ phase' = "failed"
    /\ todo' = {}
    /\ UNCHANGED <<cfg, fs, archive, copied>>

(***************************************************************************)
(* copyTree, depth first.  A link that dangles is dropped; a relative link *)
(* that ends in the package stays a link; any other is replaced by what it *)
(* ends at.                                                                *)
(***************************************************************************)
Entries(t, src, dst, active) ==
    {[src |-> Append(src, n), dst |-> Append(dst, n), active |-> active] :
        n \in ReadDir(t, src)}

Begin ==
    /\ phase = "begin"
    /\ phase' = "copy"
    /\ fs' = MkdirAll(fs, Output)
    /\ todo' = Entries(fs', Source, Output, {})
    /\ UNCHANGED <<cfg, archive, copied>>

\* (A variant that keeps every relative link, and the rule of the code.)
KeepRelative(t, p) == ~t[p].abs
KeptAsLink(t, p) == ~t[p].abs /\ Below(Source, EvalSymlinks(t, p).path)

CopyFile(e) == IsKind(fs, e.src, "file") /\ Did(With(fs, e.dst, fs[e.src]), todo \ {e})

CopyDir(e) ==
    /\ IsKind(fs, e.src, "dir")
    /\ LET made == MkdirAll(fs, e.dst) IN
       \/ /\ e.src \notin e.active
          /\ Did(made, (todo \ {e}) \cup Entries(made, e.src, e.dst, e.active \cup {e.src}))
       \/ e.src \in e.active /\ Fail

CopyLink(e) ==
    /\ IsKind(fs, e.src, "link")
    /\ LET target == EvalSymlinks(fs, e.src) IN
       \/ target.err = "missing" /\ Did(fs, todo \ {e})
       \/ target.err = "bad" /\ Fail
       \/ /\ target.err = "none" /\ KeptAsLink(fs, e.src)
          /\ Did(With(fs, e.dst, fs[e.src]), todo \ {e})
       \/ /\ target.err = "none" /\ ~KeptAsLink(fs, e.src)
          /\ Did(fs, (todo \ {e}) \cup
                      {[src |-> target.path, dst |-> e.dst, active |-> e.active]})

CopyNode ==
    /\ phase = "copy"
    /\ \E e \in todo : /\ IsFirst(e.dst, {d.dst : d \in todo})
                       /\ CopyFile(e) \/ CopyDir(e) \/ CopyLink(e)

(***************************************************************************)
(* The directories that no package needs.  os.RemoveAll reaches one        *)
(* through the links of its parents; nothing outside the output can be     *)
(* removed, since the store is read-only.                                  *)
(***************************************************************************)
Unwanted == <<<<"nix-support">>, <<"share", "man">>, <<"share", "doc">>,
              <<"share", "bash-completion">>>>

RemoveUnwanted ==
    /\ phase = "remove"
    /\ \E i \in todo :
          LET e == EvalSymlinks(fs, Output \o Front(Unwanted[i]))
              p == Append(e.path, Last(Unwanted[i]))
              isDir == e.err = "none" /\ fs[e.path].kind = "dir"
              gone == e.err = "missing" \/ (isDir /\ p \notin DOMAIN fs)
              there == isDir /\ p \in DOMAIN fs /\ Inside(Output, p)
          IN  /\ \A j \in todo : i <= j
              /\ \/ gone /\ Did(fs, todo \ {i})
                 \/ there /\ Did(Without(fs, p), todo \ {i})
                 \/ ~gone /\ ~there /\ Fail

(***************************************************************************)
(* prepareFile, for the regular files there were when the pass began: a    *)
(* static library goes, a hidden program takes the place of its launcher.  *)
(***************************************************************************)
Public(p) == Append(Front(p), Wrapped[Last(p)])

DiscardFile(p) ==
    Last(p) \in Discarded /\ p \in DOMAIN fs /\ Did(Without(fs, p), todo \ {p})

InTheWay(p) == IsKind(fs, p, "dir") /\ Subtree(fs, p) # {p}
Unwrap(p) ==
    /\ Last(p) \in DOMAIN Wrapped \ Discarded
    /\ p \in DOMAIN fs /\ ~InTheWay(Public(p))
    /\ Did(With(Without(Without(fs, Public(p)), p), Public(p), fs[p]), todo \ {p})

PrepareFails(p) ==
    \/ Last(p) \in Discarded \cup DOMAIN Wrapped /\ p \notin DOMAIN fs
    \/ Last(p) \in DOMAIN Wrapped \ Discarded /\ InTheWay(Public(p))

PrepareFile ==
    /\ phase = "prepare"
    /\ \E p \in todo :
          /\ IsFirst(p, todo)
          /\ \/ DiscardFile(p)
             \/ Unwrap(p)
             \/ Last(p) \notin Discarded \cup DOMAIN Wrapped /\ Did(fs, todo \ {p})
             \/ PrepareFails(p) /\ Fail

\* removeDanglingSymlinks
RemoveDanglingSymlink ==
    /\ phase = "links"
    /\ \E p \in todo :
          LET e == EvalSymlinks(fs, p) IN
          /\ IsFirst(p, todo)
          /\ \/ e.err = "none" /\ Did(fs, todo \ {p})
             \/ e.err = "missing" /\ Did(Without(fs, p), todo \ {p})
             \/ e.err = "bad" /\ Fail

(***************************************************************************)
(* normalizeFile.  In an ELF file the hash of every store path is blotted  *)
(* out, which leaves /nix in its headers for validateELF to find; the      *)
(* rpaths of a Mach-O file that lie in the store are deleted, and its data *)
(* is left as it is; in text the store paths are cut out, and what is not  *)
(* text is left as it is.  A path that holds "openssl" is not validated.   *)
(***************************************************************************)
IsDynamicallyLinked(d) ==
    d.interpreter # "none" \/ d.libraries # {} \/ (d.type = "dyn" /\ ~d.pie)

\* (A variant that does not look for /nix.)
OnlyStatic(d) == d.parses /\ (IsDynamicallyLinked(d) => cfg.allowDynamicELF)

ValidELF(d) ==
    /\ d.parses
    /\ IsDynamicallyLinked(d) => cfg.allowDynamicELF
    /\ "nix" \notin d.libraries \cup d.rpaths
    /\ d.interpreter # "nix"

ValidMachO(d) ==
    /\ d.dependencies \subseteq {"system", "loader_path", "rpath"}
    /\ "nix" \notin d.dependencies \cup d.rpaths \cup {d.installName}
    /\ d.rpaths \subseteq {"loader_path"}

Clean(d) == [d EXCEPT !.refs = FALSE]
Unchecked(p) == \E i \in DOMAIN p : p[i] \in OpenSSL

Write(p, data) == Did(With(fs, p, File(data, fs[p].exec)), todo \ {p})

NormalizeELF(p) ==
    LET d == fs[p].data
        checked == cfg.platform = "linux" /\ ~Unchecked(p)
    IN  /\ d.kind = "elf"
        /\ \/ (checked => ValidELF(d)) /\ Write(p, Clean(d))
           \/ checked /\ ~ValidELF(d) /\ Fail

\* install_name_tool -delete_rpath, which may fail.
DeleteRpaths(d) == [d EXCEPT !.rpaths = @ \ {"nix"}]
NormalizeMachO(p) ==
    LET found == fs[p].data
        d == DeleteRpaths(found)
    IN  /\ found.kind = "macho" /\ cfg.platform = "darwin"
        /\ \/ found.parses /\ (~Unchecked(p) => ValidMachO(d)) /\ Write(p, d)
           \/ /\ ~found.parses \/ d # found \/ (~Unchecked(p) /\ ~ValidMachO(d))
              /\ Fail

RewriteText(p) == fs[p].data.kind = "text" /\ Write(p, Clean(fs[p].data))

LeaveFile(p) ==
    /\ \/ fs[p].data.kind = "binary"
       \/ fs[p].data.kind = "macho" /\ cfg.platform # "darwin"
    /\ Did(fs, todo \ {p})

NormalizeFile ==
    /\ phase = "normalize"
    /\ \E p \in todo :
          /\ IsFirst(p, todo)
          /\ NormalizeELF(p) \/ NormalizeMachO(p) \/ RewriteText(p) \/ LeaveFile(p)

(***************************************************************************)
(* createArchive: every node of the output in the order of WalkDir, under  *)
(* the name of the package, links with the text they have.                 *)
(***************************************************************************)
PackageName == "package"

\* (A variant that follows links, and the rule of the code.)
FollowedHeader(p) == [name |-> <<PackageName>> \o Under(Output, p),
                      node |-> fs[EvalSymlinks(fs, p).path]]
Header(p) == [name |-> <<PackageName>> \o Under(Output, p), node |-> fs[p]]

Pack ==
    /\ phase = "pack"
    /\ \E p \in todo : /\ IsFirst(p, todo)
                       /\ archive' = Append(archive, Header(p))
                       /\ todo' = todo \ {p}
    /\ UNCHANGED <<cfg, fs, phase, copied>>

(***************************************************************************)
(* run: the passes in their order, each on the list it makes when it       *)
(* begins; the first error ends it.                                        *)
(***************************************************************************)
\* (A variant that judges links before files are renamed.)
LinksBeforeFiles ==
    [copy |-> "remove", remove |-> "links", links |-> "prepare",
     prepare |-> "normalize", normalize |-> "pack", pack |-> "packed"]
NextPass ==
    [copy |-> "remove", remove |-> "prepare", prepare |-> "links",
     links |-> "normalize", normalize |-> "pack", pack |-> "packed"]

\* (The files there were before anything was renamed, and those there are.)
OfKindBefore(kind) == {p \in Subtree(copied, Output) : copied[p].kind = kind}
OfKind(kind) == {p \in Subtree(fs, Output) : fs[p].kind = kind}
Work(pass) ==
    CASE pass = "remove" -> DOMAIN Unwanted
      [] pass \in {"prepare", "normalize"} -> OfKind("file")
      [] pass = "links" -> OfKind("link")
      [] pass = "pack" -> Subtree(fs, Output)
      [] OTHER -> {}

EndPass ==
    /\ phase \in DOMAIN NextPass /\ todo = {}
    /\ phase' = NextPass[phase]
    /\ todo' = Work(phase')
    /\ copied' = IF phase = "copy" THEN fs ELSE copied
    /\ UNCHANGED <<cfg, fs, archive>>

Init ==
    /\ cfg \in Configs
    /\ fs \in Trees
    /\ phase = "begin"
    /\ todo = {}
    /\ archive = <<>>
    /\ copied = fs

Next ==
    \/ Begin \/ CopyNode \/ RemoveUnwanted \/ PrepareFile
    \/ RemoveDanglingSymlink \/ NormalizeFile \/ Pack \/ EndPass

Spec == Init /\ [][Next]_vars
=============================================================================
