------------------------------ MODULE FileTree ------------------------------
(***************************************************************************)
(* A file system as a function from paths to nodes, and what the standard  *)
(* library of Go makes of it (external: path/filepath and os).  A path is  *)
(* the sequence of names from the root, <<>> being the root itself.  The   *)
(* text of a link is a sequence of names and "..", from the root when it   *)
(* is absolute and from the directory that holds the link otherwise.       *)
(***************************************************************************)
EXTENDS Integers, Sequences, SequencesExt

CONSTANTS
    NameOrder,      \* every name, in the order of its bytes
    MaxHops         \* links that one resolution follows before it gives up

ASSUME NameOrderAssumption == NameOrder \in Seq(STRING)

Name == ToSet(NameOrder)
Path == Seq(Name)

Dir == [kind |-> "dir"]
File(data, exec) == [kind |-> "file", data |-> data, exec |-> exec]
Link(abs, to) == [kind |-> "link", abs |-> abs, to |-> to]

Below(p, q) == IsPrefix(p, q)
Inside(root, p) == p # root /\ Below(root, p)
Under(root, p) == SubSeq(p, Len(root) + 1, Len(p))
Subtree(t, p) == {q \in DOMAIN t : Below(p, q)}
IsKind(t, p, kind) == p \in DOMAIN t /\ t[p].kind = kind

\* Every node is a directory, a file or a link, and all that a path goes
\* through is a directory.
HasParents(t, p) == \A q \in Prefixes(p) \ {p} : q \in DOMAIN t /\ t[q] = Dir
IsTree(t) ==
    \A p \in DOMAIN t :
        /\ p \in Path /\ HasParents(t, p)
        /\ t[p] = Dir \/ t[p].kind \in {"file", "link"}

(***************************************************************************)
(* filepath.EvalSymlinks ends with a path without links, or says why there *)
(* is none: a name that is not there is ErrNotExist, a name below a file   *)
(* and a chain of too many links are errors of another kind.               *)
(***************************************************************************)
Found(path) == [err |-> "none", path |-> path]
Missing == [err |-> "missing", path |-> <<>>]
BadPath == [err |-> "bad", path |-> <<>>]

EvalSymlinks(t, p) ==
    LET resolve[at \in Path, rest \in Seq(Name \cup {".."}), hops \in 0..MaxHops] ==
            LET q == Append(at, Head(rest)) IN
            IF rest = <<>> THEN Found(at)
            ELSE IF t[at].kind # "dir" THEN BadPath
            ELSE IF Head(rest) = ".."
            THEN resolve[IF at = <<>> THEN at ELSE Front(at), Tail(rest), hops]
            ELSE IF q \notin DOMAIN t THEN Missing
            ELSE IF t[q].kind # "link" THEN resolve[q, Tail(rest), hops]
            ELSE IF hops = 0 THEN BadPath
            ELSE resolve[IF t[q].abs THEN <<>> ELSE at, t[q].to \o Tail(rest), hops - 1]
    IN  resolve[<<>>, p, MaxHops]

EvalsTo(t, p, kind) ==
    LET e == EvalSymlinks(t, p) IN e.err = "none" /\ t[e.path].kind = kind

(***************************************************************************)
(* The order in which a directory is read and a tree is walked: names by   *)
(* their bytes, and a directory before what is below it.                   *)
(***************************************************************************)
Position == [n \in Name |-> CHOOSE i \in DOMAIN NameOrder : NameOrder[i] = n]
Before(p, q) ==
    \/ Inside(p, q)
    \/ \E k \in DOMAIN p \cap DOMAIN q :
          /\ \A i \in 1..(k - 1) : p[i] = q[i]
          /\ Position[p[k]] < Position[q[k]]
IsFirst(p, paths) == \A q \in paths : q = p \/ Before(p, q)

\* os.ReadDir
ReadDir(t, p) == {n \in Name : Append(p, n) \in DOMAIN t}

(***************************************************************************)
(* What changes a tree.  os.RemoveAll takes what is below with it;         *)
(* os.MkdirAll is used where no parent is a file or a link.                *)
(***************************************************************************)
Without(t, p) == [q \in DOMAIN t \ Subtree(t, p) |-> t[q]]
With(t, p, node) == [q \in DOMAIN t \cup {p} |-> IF q = p THEN node ELSE t[q]]
MkdirAll(t, p) ==
    [q \in DOMAIN t \cup Prefixes(p) |-> IF q \in DOMAIN t THEN t[q] ELSE Dir]

\* filepath.Clean of a link's text put after the directory that holds it:
\* by name alone, whatever the names stand for.
CleanJoin(dir, to) ==
    FoldLeft(LAMBDA at, n : IF n # ".." THEN Append(at, n)
                            ELSE IF at = <<>> THEN at ELSE Front(at), dir, to)

\* filepath.Rel: up to the last directory in common, then down.
Rel(from, to) ==
    LET common == Len(LongestCommonPrefix({from, to})) IN
    [i \in 1..(Len(from) - common) |-> ".."] \o SubSeq(to, common + 1, Len(to))
=============================================================================
