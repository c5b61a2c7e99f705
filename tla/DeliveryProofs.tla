--------------------------- MODULE DeliveryProofs ---------------------------
(***************************************************************************)
(* From any package to what is unpacked of it: no pass of the build loses  *)
(* its way in what the passes before it left, text and headers are packed  *)
(* without the Nix store, and the archive unpacks to the tree that was     *)
(* packed.                                                                 *)
(***************************************************************************)
EXTENDS Delivery, TLAPS

-----------------------------------------------------------------------------
(* Paths. *)

\* Below, name by name.
LEMMA BelowPointwise ==
  ASSUME NEW S, NEW p \in Seq(S), NEW q \in Seq(S)
  PROVE  Below(p, q) <=> Len(p) <= Len(q) /\ \A i \in 1..Len(p) : p[i] = q[i]
<1>1. ASSUME Len(p) <= Len(q)
      PROVE  /\ SubSeq(p, 1, Len(p)) = [i \in 1..Len(p) |-> p[i]]
             /\ SubSeq(q, 1, Len(p)) = [i \in 1..Len(p) |-> q[i]]
  BY <1>1
<1> QED
  BY <1>1 DEF Below, IsPrefix

\* The prefixes of a path are the paths it is below.
LEMMA PrefixesAre ==
  ASSUME NEW S, NEW p \in Seq(S), NEW q \in Seq(S)
  PROVE  q \in Prefixes(p) <=> Below(q, p)
<1>1. ASSUME NEW k \in 0..Len(p)
      PROVE  /\ SubSeq(p, 1, k) \in Seq(S) /\ Len(SubSeq(p, 1, k)) = k
             /\ \A i \in 1..k : SubSeq(p, 1, k)[i] = p[i]
  OBVIOUS
<1>2. ASSUME q \in Prefixes(p) PROVE Below(q, p)
  BY <1>1, <1>2, BelowPointwise DEF Prefixes
<1>3. ASSUME Below(q, p) PROVE q = SubSeq(p, 1, Len(q)) /\ Len(q) \in 0..Len(p)
  <2>1. Len(q) \in 0..Len(p) /\ \A i \in 1..Len(q) : q[i] = p[i]
    BY <1>3, BelowPointwise
  <2>2. SubSeq(p, 1, Len(q)) = [i \in 1..Len(q) |-> p[i]]
    BY <2>1
  <2>3. q = [i \in 1..Len(q) |-> q[i]]
    OBVIOUS
  <2> QED BY <2>1, <2>2, <2>3
<1> QED
  BY <1>2, <1>3 DEF Prefixes

\* Below is a partial order, linear above any path, and least at the root.
LEMMA BelowOrder ==
  ASSUME NEW S, NEW p \in Seq(S), NEW q \in Seq(S), NEW r \in Seq(S)
  PROVE  /\ Below(p, p)
         /\ Below(p, q) /\ Below(q, r) => Below(p, r)
         /\ Below(p, q) /\ Below(q, p) => p = q
         /\ Below(p, r) /\ Below(q, r) => Below(p, q) \/ Below(q, p)
         /\ Below(p, q) /\ Len(p) = Len(q) => p = q
         /\ Below(<<>>, p)
<1>1. Below(p, p)
  BY BelowPointwise
<1>6. Below(<<>>, p)
  <2>1. \A x, y \in Seq(S) :
          Below(x, y) <=> Len(x) <= Len(y) /\ \A i \in 1..Len(x) : x[i] = y[i]
    BY BelowPointwise
  <2> DEFINE e == <<>>
  <2>2. e \in Seq(S) /\ Len(e) = 0 /\ Len(p) \in Nat
    OBVIOUS
  <2> HIDE DEF e
  <2>4. Below(e, p) <=> Len(e) <= Len(p) /\ \A i \in 1..Len(e) : e[i] = p[i]
    BY <2>1, <2>2
  <2>5. 1..Len(e) = {} /\ Len(e) <= Len(p)
    BY <2>2
  <2>3. Below(e, p)
    BY <2>4, <2>5
  <2> QED BY <2>3 DEF e
<1>2. Below(p, q) /\ Below(q, r) => Below(p, r)
  BY BelowPointwise
<1>3. Below(p, q) /\ Len(p) = Len(q) => p = q
  BY BelowPointwise
<1>4. Below(p, q) /\ Below(q, p) => p = q
  BY <1>3, BelowPointwise
<1>5. Below(p, r) /\ Below(q, r) => Below(p, q) \/ Below(q, p)
  BY BelowPointwise
<1> QED
  BY <1>1, <1>2, <1>3, <1>4, <1>5, <1>6

\* An entry is inside its directory, and two entries are apart.
LEMMA BelowAppend ==
  ASSUME NEW S, NEW p \in Seq(S), NEW q \in Seq(S), NEW n \in S, NEW m \in S
  PROVE  /\ Append(p, n) \in Seq(S)
         /\ Inside(p, Append(p, n))
         /\ Below(q, Append(p, n)) => q = Append(p, n) \/ Below(q, p)
         /\ Below(Append(p, n), Append(p, m)) => n = m
         /\ Append(p, n) = Append(p, m) => n = m
         /\ Front(Append(p, n)) = p /\ Last(Append(p, n)) = n
<1> DEFINE a == Append(p, n)
           b == Append(p, m)
<1>1. /\ a \in Seq(S) /\ Len(a) = Len(p) + 1 /\ a[Len(p) + 1] = n
      /\ \A i \in 1..Len(p) : a[i] = p[i]
  OBVIOUS
<1>2. b \in Seq(S) /\ Len(b) = Len(p) + 1 /\ b[Len(p) + 1] = m
  OBVIOUS
<1>b. \A x, y \in Seq(S) :
        Below(x, y) <=> Len(x) <= Len(y) /\ \A i \in 1..Len(x) : x[i] = y[i]
  BY BelowPointwise
<1>6. Front(a) = p /\ Last(a) = n
  BY <1>1 DEF Front, Last
<1> HIDE DEF a, b
<1>3. Inside(p, a)
  BY <1>1, <1>b DEF Inside
<1>4. ASSUME Below(q, a) PROVE q = a \/ Below(q, p)
  <2>1. Len(q) <= Len(a) /\ \A i \in 1..Len(q) : q[i] = a[i]
    BY <1>1, <1>4, <1>b
  <2>2. CASE Len(q) = Len(a)
    BY <1>1, <1>4, <2>2, BelowOrder
  <2>3. CASE Len(q) <= Len(p)
    BY <1>1, <2>1, <2>3, <1>b
  <2> QED BY <1>1, <2>1, <2>2, <2>3
<1>5. Below(a, b) => n = m
  BY <1>1, <1>2, <1>b
<1>7. a = b => n = m
  BY <1>1, <1>2
<1> QED
  BY <1>1, <1>3, <1>4, <1>5, <1>6, <1>7 DEF a, b

\* The directory that holds a path.
LEMMA FrontOf ==
  ASSUME NEW S, NEW p \in Seq(S), p # <<>>
  PROVE  /\ Front(p) \in Seq(S) /\ Last(p) \in S
         /\ Append(Front(p), Last(p)) = p
         /\ Inside(Front(p), p)
         /\ \A q \in Seq(S) : Inside(q, p) => Below(q, Front(p))
<1>1. /\ Front(p) \in Seq(S) /\ Last(p) \in S
      /\ Append(Front(p), Last(p)) = p
  BY DEF Front, Last
<1>2. /\ Inside(Front(p), Append(Front(p), Last(p)))
      /\ \A q \in Seq(S) : Below(q, Append(Front(p), Last(p))) =>
            q = Append(Front(p), Last(p)) \/ Below(q, Front(p))
  BY <1>1, BelowAppend
<1> QED
  BY <1>1, <1>2 DEF Inside

\* Inside is strict.
LEMMA InsideIsLonger ==
  ASSUME NEW S, NEW p \in Seq(S), NEW q \in Seq(S), Inside(p, q)
  PROVE  Len(p) < Len(q) /\ ~Below(q, p)
BY BelowPointwise, BelowOrder DEF Inside

\* Prefixes are paths.
LEMMA PrefixesIn ==
  ASSUME NEW S, NEW p \in Seq(S)
  PROVE  Prefixes(p) \subseteq Seq(S) /\ p \in Prefixes(p)
<1>1. Prefixes(p) \subseteq Seq(S)
  BY DEF Prefixes
<1>2. p \in Prefixes(p)
  BY PrefixesAre, BelowOrder
<1> QED
  BY <1>1, <1>2

\* A path below a root is the root and what is under it.
LEMMA UnderRoot ==
  ASSUME NEW S, NEW r \in Seq(S), NEW p \in Seq(S), Below(r, p)
  PROVE  Under(r, p) \in Seq(S) /\ r \o Under(r, p) = p
<1>1. Len(r) <= Len(p) /\ \A i \in 1..Len(r) : r[i] = p[i]
  BY BelowPointwise
<1>2. /\ Under(r, p) \in Seq(S) /\ Len(Under(r, p)) = Len(p) - Len(r)
      /\ \A i \in 1..(Len(p) - Len(r)) : Under(r, p)[i] = p[Len(r) + i]
  BY <1>1 DEF Under
<1> DEFINE u == Under(r, p)
           c == r \o u
<1> HIDE DEF u
<1>3. /\ c \in Seq(S) /\ Len(c) = Len(r) + Len(u)
      /\ \A i \in 1..Len(r) : c[i] = r[i]
      /\ \A i \in 1..Len(u) : c[Len(r) + i] = u[i]
  BY <1>2 DEF u
<1> HIDE DEF c
<1>4. Len(c) = Len(p)
  BY <1>1, <1>2, <1>3 DEF u
<1>5. ASSUME NEW i \in 1..Len(p) PROVE c[i] = p[i]
  <2>1. CASE i \in 1..Len(r)
    BY <1>1, <1>3, <2>1
  <2>2. CASE i \notin 1..Len(r)
    <3>1. i - Len(r) \in 1..Len(u) /\ i = Len(r) + (i - Len(r))
      BY <1>1, <1>2, <2>2 DEF u
    <3>2. c[Len(r) + (i - Len(r))] = u[i - Len(r)]
      BY <1>3, <3>1
    <3>3. u[i - Len(r)] = p[Len(r) + (i - Len(r))]
      BY <1>2, <3>1 DEF u
    <3> QED BY <3>1, <3>2, <3>3
  <2> QED BY <2>1, <2>2
<1>6. c = p
  <2>1. c = [i \in 1..Len(c) |-> c[i]] /\ p = [i \in 1..Len(p) |-> p[i]]
    BY <1>3
  <2> QED BY <1>4, <1>5, <2>1
<1> QED
  BY <1>2, <1>6 DEF c, u

\* A path moved below a root keeps what it is below.
LEMMA ConcatBelow ==
  ASSUME NEW S, NEW r \in Seq(S), NEW p \in Seq(S), NEW q \in Seq(S)
  PROVE  /\ r \o p \in Seq(S)
         /\ Below(r, r \o p)
         /\ Under(r, r \o p) = p
         /\ Below(r \o p, r \o q) <=> Below(p, q)
<1> DEFINE a == r \o p
           b == r \o q
<1>1. /\ a \in Seq(S) /\ Len(a) = Len(r) + Len(p)
      /\ \A i \in 1..Len(r) : a[i] = r[i]
      /\ \A i \in 1..Len(p) : a[Len(r) + i] = p[i]
  OBVIOUS
<1>2. /\ b \in Seq(S) /\ Len(b) = Len(r) + Len(q)
      /\ \A i \in 1..Len(r) : b[i] = r[i]
      /\ \A i \in 1..Len(q) : b[Len(r) + i] = q[i]
  OBVIOUS
<1>3. Under(r, a) = p
  BY <1>1 DEF Under
<1>b. \A x, y \in Seq(S) :
        Below(x, y) <=> Len(x) <= Len(y) /\ \A i \in 1..Len(x) : x[i] = y[i]
  BY BelowPointwise
<1> HIDE DEF a, b
<1>4. Below(r, a)
  BY <1>1, <1>b
<1>5. ASSUME Below(a, b) PROVE Below(p, q)
  <2>1. Len(a) <= Len(b) /\ \A i \in 1..Len(a) : a[i] = b[i]
    BY <1>1, <1>2, <1>5, <1>b
  <2>2. ASSUME NEW i \in 1..Len(p) PROVE p[i] = q[i]
    <3>1. Len(r) + i \in 1..Len(a) /\ i \in 1..Len(q)
      BY <1>1, <1>2, <2>1
    <3> QED BY <1>1, <1>2, <2>1, <3>1
  <2> QED BY <1>1, <1>2, <2>1, <2>2, <1>b
<1>6. ASSUME Below(p, q) PROVE Below(a, b)
  <2>1. Len(p) <= Len(q) /\ \A i \in 1..Len(p) : p[i] = q[i]
    BY <1>6, <1>b
  <2>2. ASSUME NEW i \in 1..Len(a) PROVE a[i] = b[i]
    <3>1. CASE i \in 1..Len(r)
      BY <1>1, <1>2, <3>1
    <3>2. CASE i \notin 1..Len(r)
      <4>1. PICK j \in 1..Len(p) : i = Len(r) + j
        <5>1. i - Len(r) \in 1..Len(p) /\ i = Len(r) + (i - Len(r))
          BY <1>1, <3>2
        <5> QED BY <5>1
      <4> QED BY <1>1, <1>2, <2>1, <4>1
    <3> QED BY <3>1, <3>2
  <2>3. Len(a) <= Len(b)
    BY <1>1, <1>2, <2>1
  <2> QED BY <1>1, <1>2, <2>3, <2>2, <1>b
<1> QED
  BY <1>1, <1>3, <1>4, <1>5, <1>6 DEF a, b
-----------------------------------------------------------------------------
(* What changes a tree keeps it a tree. *)

\* HasParents, by what the path is inside of.
LEMMA ParentsAre ==
  ASSUME NEW t, NEW p \in Path
  PROVE  HasParents(t, p) <=> \A q \in Path : Inside(q, p) => q \in DOMAIN t /\ t[q] = Dir
BY PrefixesAre, PrefixesIn DEF HasParents, Inside, Path

\* What IsTree says of one path of the tree.
LEMMA TreeParents ==
  ASSUME NEW t, IsTree(t), NEW p \in DOMAIN t
  PROVE  /\ p \in Path
         /\ t[p] = Dir \/ t[p].kind \in {"file", "link"}
         /\ \A q \in Path : Inside(q, p) => q \in DOMAIN t /\ t[q] = Dir
BY ParentsAre DEF IsTree

\* When a function is a tree.
LEMMA TreeIf ==
  ASSUME NEW t,
         \A p \in DOMAIN t :
            /\ p \in Path
            /\ t[p] = Dir \/ t[p].kind \in {"file", "link"}
            /\ \A q \in Path : Inside(q, p) => q \in DOMAIN t /\ t[q] = Dir
  PROVE  IsTree(t)
BY ParentsAre DEF IsTree

\* A path that is no directory has nothing below it.
LEMMA OnlyDirsHold ==
  ASSUME NEW t, IsTree(t), NEW p \in Path, p \notin DOMAIN t \/ t[p] # Dir
  PROVE  \A q \in DOMAIN t : ~Inside(p, q)
BY TreeParents

\* Removing a path and what is below it leaves a tree.
LEMMA WithoutTree ==
  ASSUME NEW t, IsTree(t), NEW p \in Path
  PROVE  IsTree(Without(t, p))
<1> DEFINE u == Without(t, p)
<1>1. \A q \in DOMAIN u : q \in DOMAIN t /\ ~Below(p, q) /\ u[q] = t[q]
  BY DEF Without, Subtree
<1>2. \A q \in DOMAIN t : ~Below(p, q) => q \in DOMAIN u
  BY DEF Without, Subtree
<1> HIDE DEF u
<1>3. ASSUME NEW q \in DOMAIN u, NEW r \in Path, Inside(r, q)
      PROVE  r \in DOMAIN u /\ u[r] = Dir
  <2>1. q \in Path /\ r \in DOMAIN t /\ t[r] = Dir
    BY <1>1, <1>3, TreeParents
  <2>2. ~Below(p, r)
    BY <1>1, <1>3, <2>1, BelowOrder DEF Inside, Path
  <2> QED BY <1>1, <1>2, <2>1, <2>2
<1>4. IsTree(u)
  BY <1>1, <1>3, TreeParents, TreeIf
<1> QED
  BY <1>4 DEF u

\* So does putting a node where it may be: in a directory, and not over
\* what something is below, unless it is a directory.
LEMMA WithTree ==
  ASSUME NEW t, IsTree(t), NEW p \in Path, NEW node,
         node = Dir \/ node.kind \in {"file", "link"},
         \A q \in Path : Inside(q, p) => q \in DOMAIN t /\ t[q] = Dir,
         node # Dir => \A q \in DOMAIN t : ~Inside(p, q)
  PROVE  IsTree(With(t, p, node))
<1> DEFINE u == With(t, p, node)
<1>1. /\ DOMAIN u = DOMAIN t \cup {p}
      /\ u[p] = node
      /\ \A q \in DOMAIN t : q # p => u[q] = t[q]
  BY DEF With
<1> HIDE DEF u
<1>2. ASSUME NEW q \in DOMAIN u, NEW r \in Path, Inside(r, q)
      PROVE  r \in DOMAIN u /\ u[r] = Dir
  <2>1. CASE q = p
    BY <1>1, <1>2, <2>1 DEF Inside
  <2>2. CASE q # p
    <3>1. q \in DOMAIN t /\ r \in DOMAIN t /\ t[r] = Dir
      BY <1>1, <1>2, <2>2, TreeParents
    <3> QED BY <1>1, <1>2, <3>1
  <2> QED BY <2>1, <2>2
<1>3. \A q \in DOMAIN u : q \in Path /\ (u[q] = Dir \/ u[q].kind \in {"file", "link"})
  BY <1>1, TreeParents
<1>4. IsTree(u)
  BY <1>2, <1>3, TreeIf
<1> QED
  BY <1>4 DEF u

\* So does making the directories on the way to a path.
LEMMA MkdirAllTree ==
  ASSUME NEW t, IsTree(t), NEW p \in Path,
         \A q \in DOMAIN t : Inside(q, p) => t[q] = Dir
  PROVE  /\ IsTree(MkdirAll(t, p))
         /\ DOMAIN MkdirAll(t, p) = DOMAIN t \cup Prefixes(p)
         /\ \A q \in DOMAIN t : MkdirAll(t, p)[q] = t[q]
         /\ \A q \in Prefixes(p) \ DOMAIN t : MkdirAll(t, p)[q] = Dir
<1> DEFINE u == MkdirAll(t, p)
<1>1. /\ DOMAIN u = DOMAIN t \cup Prefixes(p)
      /\ \A q \in DOMAIN t : u[q] = t[q]
      /\ \A q \in Prefixes(p) \ DOMAIN t : u[q] = Dir
  BY DEF MkdirAll
<1> HIDE DEF u
<1>p. Prefixes(p) \subseteq Path
  BY PrefixesIn DEF Path
<1>2. ASSUME NEW q \in DOMAIN u, NEW r \in Path, Inside(r, q)
      PROVE  r \in DOMAIN u /\ u[r] = Dir
  <2>1. CASE q \in DOMAIN t
    BY <1>1, <1>2, <2>1, TreeParents
  <2>2. CASE q \notin DOMAIN t
    <3>1. q \in Prefixes(p) /\ q \in Path
      BY <1>1, <1>p, <2>2
    <3>2. Below(q, p)
      BY <3>1, PrefixesAre DEF Path
    <3>3. Inside(r, p) /\ r \in Prefixes(p)
      BY <1>2, <3>1, <3>2, BelowOrder, PrefixesAre DEF Inside, Path
    <3> QED BY <1>1, <3>3
  <2> QED BY <2>1, <2>2
<1>3. \A q \in DOMAIN u : q \in Path /\ (u[q] = Dir \/ u[q].kind \in {"file", "link"})
  BY <1>1, <1>p, TreeParents
<1>4. IsTree(u)
  BY <1>2, <1>3, TreeIf
<1> QED
  BY <1>1, <1>4 DEF u
-----------------------------------------------------------------------------
(* The inductive invariant of the build. *)

Passes == DOMAIN NextPass
Packing == {"pack", "packed", "unpackable", "extracted", "linked", "unlinkable"}

\* The copy: every entry that is left has its own place to go to, which is
\* free, in a directory that is there.
CopyInv ==
  phase = "copy" =>
    /\ \A e \in todo :
          /\ e.dst \in Path /\ Inside(Output, e.dst)
          /\ e.dst \notin DOMAIN fs /\ HasParents(fs, e.dst)
    /\ \A d, e \in todo : d # e => ~Below(d.dst, e.dst)

\* The other passes: what a pass has listed stays until its turn comes.
ListInv ==
  /\ phase \in {"prepare", "normalize"} => todo \subseteq OfKind("file")
  /\ phase = "links" => todo \subseteq OfKind("link")
  /\ phase = "pack" => todo \subseteq Subtree(fs, Output)
  /\ phase \notin Passes => todo = {}

\* The output: a directory since the program began, in which no link is
\* absolute.
OutputIs(t) ==
  /\ IsTreeOfNodes(t)
  /\ Output \in DOMAIN t /\ t[Output] = Dir
  /\ \A p \in Subtree(t, Output) : t[p].kind = "link" => ~t[p].abs
OutputInv ==
  IF phase = "begin" THEN Subtree(fs, Output) = {} /\ HasParents(fs, Output)
  ELSE OutputIs(fs)

\* Behind the pass that normalizes, every file is free of the store.
CleanInv ==
  /\ phase = "normalize" => \A p \in OfKind("file") \ todo : IsFreeOfStore(p, fs[p].data)
  /\ phase \in Packing => \A p \in OfKind("file") : IsFreeOfStore(p, fs[p].data)

\* The archive: one entry for each path that was packed, a directory before
\* what it holds.
At(i) == Output \o Tail(archive[i].name)
ArchiveInv ==
  IF phase \in Packing
  THEN /\ \A i \in DOMAIN archive :
             At(i) \in Subtree(fs, Output) \ todo /\ archive[i] = Header(At(i))
       /\ \A p \in Subtree(fs, Output) \ todo : \E i \in DOMAIN archive : At(i) = p
       /\ \A i, j \in DOMAIN archive : At(i) = At(j) => i = j
       /\ \A i, j \in DOMAIN archive : Inside(At(i), At(j)) => i < j
       /\ \A q \in todo, i \in DOMAIN archive : ~Inside(q, At(i))
  ELSE archive = <<>>

BuildTypeInv ==
  /\ cfg \in Configs /\ phase \in Phases
  /\ IsTreeOfNodes(fs)
  /\ archive \in Seq([name : Seq(Name \cup {PackageName}), node : Node])

BuildInv == /\ BuildTypeInv /\ CopyInv /\ ListInv /\ OutputInv /\ CleanInv /\ ArchiveInv

\* The stage holds what was read of the archive, and nothing else.
StageInv ==
  IF phase \in Packing \ {"pack"}
  THEN /\ read \in 0..Len(archive)
       /\ phase \notin {"packed", "unpackable"} => read = Len(archive)
       /\ DOMAIN tree = {<<>>, Stage} \cup {InStage(At(i)) : i \in 1..read}
       /\ tree[<<>>] = Dir /\ tree[Stage] = Dir
       /\ \A i \in 1..read :
             At(i) # Output => tree[InStage(At(i))] = Unpacked(InStage(At(i)), fs[At(i)])
       /\ phase = "unpackable" =>
             \E p \in Packed : LeavesPackage(InStage(p), fs[p])
  ELSE read = 0 /\ tree = [p \in {<<>>, Stage} |-> Dir]

-----------------------------------------------------------------------------
(* The trees of the build. *)

\* The three kinds of nodes are apart.
LEMMA NodeKinds ==
  ASSUME NEW node \in Node
  PROVE  \/ node = Dir /\ node.kind = "dir"
         \/ node # Dir /\ node.kind = "file" /\ node.data \in Data /\ node.exec \in BOOLEAN
         \/ node # Dir /\ node.kind = "link" /\ node.abs \in BOOLEAN
BY DEF Node, Dir

\* The places the build and the installation know are paths.
LEMMA Places ==
  /\ Source \in Path /\ Output \in Path /\ Output # <<>>
  /\ Stage \in Path /\ \A p \in Path : Inside(Output, p) => p # <<>>
<1>1. /\ Source \in Path /\ Output \in Path /\ Output # <<>> /\ Stage \in Path
  BY TreesAssumption, StageAssumption
<1>2. ASSUME NEW p \in Path, Inside(Output, p) PROVE p # <<>>
  <2>1. Len(Output) < Len(p)
    BY <1>1, <1>2, InsideIsLonger DEF Path
  <2> QED BY <1>1, <2>1 DEF Path
<1> QED
  BY <1>1, <1>2

\* The output stays a directory of relative links when something in it goes,
LEMMA WithoutOutput ==
  ASSUME NEW t, OutputIs(t), NEW p \in Path, Inside(Output, p)
  PROVE  OutputIs(Without(t, p))
<1> DEFINE u == Without(t, p)
<1>1. IsTree(u)
  BY WithoutTree DEF OutputIs, IsTreeOfNodes
<1>2. /\ DOMAIN u = DOMAIN t \ Subtree(t, p)
      /\ \A q \in DOMAIN u : u[q] = t[q]
  BY DEF Without
<1>3. ~Below(p, Output)
  BY Places, InsideIsLonger DEF Path
<1> HIDE DEF u
<1>4. OutputIs(u)
  BY <1>1, <1>2, <1>3 DEF OutputIs, IsTreeOfNodes, Subtree
<1> QED
  BY <1>4 DEF u

\* and when something with no absolute link comes.
LEMMA WithOutput ==
  ASSUME NEW t, OutputIs(t), NEW p \in Path, Inside(Output, p), HasParents(t, p),
         NEW node \in Node, node.kind = "link" => ~node.abs,
         node # Dir => \A q \in DOMAIN t : ~Inside(p, q)
  PROVE  OutputIs(With(t, p, node))
<1> DEFINE u == With(t, p, node)
<1>1. IsTree(u)
  BY WithTree, NodeKinds, ParentsAre DEF OutputIs, IsTreeOfNodes
<1>2. /\ DOMAIN u = DOMAIN t \cup {p}
      /\ u[p] = node
      /\ \A q \in DOMAIN t : q # p => u[q] = t[q]
  BY DEF With
<1> HIDE DEF u
<1>3. OutputIs(u)
  BY <1>1, <1>2 DEF OutputIs, IsTreeOfNodes, Subtree, Inside
<1> QED
  BY <1>3 DEF u

\* Directories that are missing on the way to a path, and the path.
LEMMA MkdirOutput ==
  ASSUME NEW t, OutputIs(t), NEW p \in Path, Inside(Output, p), HasParents(t, p),
         p \notin DOMAIN t
  PROVE  /\ OutputIs(MkdirAll(t, p))
         /\ DOMAIN MkdirAll(t, p) = DOMAIN t \cup {p}
         /\ MkdirAll(t, p)[p] = Dir
         /\ \A q \in DOMAIN t : MkdirAll(t, p)[q] = t[q]
<1>1. Prefixes(p) \subseteq DOMAIN t \cup {p} /\ p \in Prefixes(p)
  BY PrefixesIn DEF HasParents, Path
<1>2. MkdirAll(t, p) = With(t, p, Dir)
  BY <1>1 DEF MkdirAll, With
<1>3. \A q \in DOMAIN t : ~Inside(p, q)
  BY OnlyDirsHold DEF OutputIs, IsTreeOfNodes
<1>4. Dir \in Node /\ Dir.kind = "dir"
  BY DEF Node, Dir
<1>5. OutputIs(MkdirAll(t, p))
  BY <1>2, <1>3, <1>4, WithOutput
<1> QED
  BY <1>2, <1>5 DEF With

\* What the copy of a directory lists.
LEMMA EntriesArePlaces ==
  ASSUME NEW t, IsTree(t), NEW src, NEW active, NEW p \in DOMAIN t, t[p] = Dir,
         \A q \in DOMAIN t : ~Inside(p, q)
  PROVE  /\ \A e \in Entries(t, src, p, active) :
                 /\ e.dst \in Path /\ Inside(p, e.dst)
                 /\ e.dst \notin DOMAIN t /\ HasParents(t, e.dst)
         /\ \A d, e \in Entries(t, src, p, active) : d # e => ~Below(d.dst, e.dst)
<1>p. p \in Path /\ \A q \in Path : Inside(q, p) => q \in DOMAIN t /\ t[q] = Dir
  BY TreeParents
<1>1. ASSUME NEW e \in Entries(t, src, p, active)
      PROVE  \E n \in Name : e = [src |-> Append(src, n), dst |-> Append(p, n),
                                  active |-> active]
  BY DEF Entries, ReadDir
<1>2. ASSUME NEW n \in Name
      PROVE  /\ Append(p, n) \in Path /\ Inside(p, Append(p, n))
             /\ Append(p, n) \notin DOMAIN t /\ HasParents(t, Append(p, n))
  <2>1. Append(p, n) \in Path /\ Inside(p, Append(p, n))
    BY <1>p, BelowAppend DEF Path
  <2>2. \A q \in Path : Inside(q, Append(p, n)) => q = p \/ Inside(q, p)
    BY <1>p, BelowAppend DEF Path, Inside
  <2> QED BY <1>p, <2>1, <2>2, ParentsAre
<1>3. ASSUME NEW d \in Entries(t, src, p, active), NEW e \in Entries(t, src, p, active),
             Below(d.dst, e.dst)
      PROVE  d = e
  <2>1. PICK n \in Name : d = [src |-> Append(src, n), dst |-> Append(p, n),
                                active |-> active]
    BY <1>1
  <2>2. PICK m \in Name : e = [src |-> Append(src, m), dst |-> Append(p, m),
                                active |-> active]
    BY <1>1
  <2>3. n = m
    BY <1>3, <1>p, <2>1, <2>2, BelowAppend DEF Path
  <2> QED BY <2>1, <2>2, <2>3
<1>4. ASSUME NEW e \in Entries(t, src, p, active)
      PROVE  /\ e.dst \in Path /\ Inside(p, e.dst)
             /\ e.dst \notin DOMAIN t /\ HasParents(t, e.dst)
  <2>1. PICK n \in Name : e = [src |-> Append(src, n), dst |-> Append(p, n),
                                active |-> active]
    BY <1>1
  <2>2. e.dst = Append(p, n)
    BY <2>1
  <2> QED BY <1>2, <2>2
<1> QED
  BY <1>3, <1>4
-----------------------------------------------------------------------------
(* Each step of the build keeps the invariant. *)

\* The passes and the phases by name.
LEMMA PhaseNames ==
  /\ Passes = {"copy", "remove", "prepare", "links", "normalize", "pack"}
  /\ Phases = {"begin", "copy", "remove", "prepare", "links", "normalize", "pack",
               "packed", "failed", "extracted", "unpackable", "linked", "unlinkable"}
BY DEF Passes, Phases, NextPass

\* The program fails.
LEMMA FailStep ==
  ASSUME BuildInv, phase \in Passes \ {"pack"}, Fail
  PROVE  BuildInv'
<1>1. phase # "begin" /\ phase \notin Packing
  BY PhaseNames DEF Packing
<1>2. BuildTypeInv'
  BY PhaseNames DEF BuildInv, BuildTypeInv, Fail
<1>3. CopyInv' /\ CleanInv'
  BY DEF CopyInv, CleanInv, Fail, Packing
<1>4. ListInv'
  BY DEF ListInv, Fail
<1>5. OutputInv'
  BY <1>1 DEF BuildInv, OutputInv, Fail
<1>6. ArchiveInv'
  BY <1>1 DEF BuildInv, ArchiveInv, Fail, Packing
<1> QED
  BY <1>2, <1>3, <1>4, <1>5, <1>6 DEF BuildInv

\* A step within one of the passes that rearrange the output.
LEMMA EarlyStep ==
  ASSUME BuildInv, phase \in {"copy", "remove", "prepare", "links"},
         UNCHANGED <<cfg, phase, archive>>, OutputIs(fs'), CopyInv', ListInv'
  PROVE  BuildInv'
<1>1. BuildTypeInv'
  BY DEF BuildInv, BuildTypeInv, OutputIs
<1>2. CleanInv'
  BY DEF CleanInv, Packing
<1>3. OutputInv'
  BY DEF OutputInv
<1>4. ArchiveInv'
  BY DEF BuildInv, ArchiveInv, Packing
<1> QED
  BY <1>1, <1>2, <1>3, <1>4 DEF BuildInv

\* The output is made, and the entries of the package are listed.
LEMMA BeginStep ==
  ASSUME BuildInv, Begin
  PROVE  BuildInv'
<1>1. /\ phase = "begin" /\ phase' = "copy" /\ UNCHANGED <<cfg, archive>>
      /\ fs' = MkdirAll(fs, Output) /\ todo' = Entries(fs', Source, Output, {})
  BY DEF Begin
<1>2. /\ IsTreeOfNodes(fs) /\ IsTree(fs) /\ HasParents(fs, Output)
      /\ Output \in Path /\ Output \notin DOMAIN fs
      /\ \A q \in DOMAIN fs : ~Below(Output, q)
  BY <1>1, Places, BelowOrder DEF BuildInv, BuildTypeInv, OutputInv, Subtree, Path, IsTreeOfNodes
<1>3. fs' = With(fs, Output, Dir)
  <2>1. Prefixes(Output) \subseteq DOMAIN fs \cup {Output} /\ Output \in Prefixes(Output)
    BY <1>2, PrefixesIn DEF HasParents, Path
  <2> QED BY <1>1, <1>2, <2>1 DEF MkdirAll, With
<1>4. /\ DOMAIN fs' = DOMAIN fs \cup {Output} /\ fs'[Output] = Dir
      /\ \A q \in DOMAIN fs : fs'[q] = fs[q]
  BY <1>2, <1>3 DEF With
<1>5. IsTree(fs')
  BY <1>2, <1>3, WithTree, ParentsAre
<1>6. OutputIs(fs')
  <2>1. Dir \in Node /\ Dir.kind = "dir"
    BY DEF Node, Dir
  <2> QED BY <1>2, <1>4, <1>5, <2>1 DEF OutputIs, IsTreeOfNodes, Subtree
<1>7. \A q \in DOMAIN fs' : ~Inside(Output, q)
  BY <1>2, <1>4 DEF Inside
<1>8. CopyInv'
  BY <1>1, <1>4, <1>5, <1>7, EntriesArePlaces DEF CopyInv
<1>9. BuildTypeInv' /\ OutputInv' /\ ListInv' /\ CleanInv' /\ ArchiveInv'
  BY <1>1, <1>6, PhaseNames
     DEF BuildInv, BuildTypeInv, OutputInv, OutputIs, ListInv, CleanInv, ArchiveInv, Packing
<1> QED
  BY <1>8, <1>9 DEF BuildInv

\* An entry is copied: what it makes is put where nothing was, and what it
\* lists goes below that.
LEMMA CopyNodeStep ==
  ASSUME BuildInv, CopyNode
  PROVE  BuildInv'
<1>1. PICK e \in todo : CopyFile(e) \/ CopyDir(e) \/ CopyLink(e)
  BY DEF CopyNode
<1>p. /\ phase = "copy" /\ phase \in Passes \ {"pack"} /\ OutputIs(fs) /\ CopyInv
  BY PhaseNames DEF CopyNode, BuildInv, OutputInv
<1>d. /\ e.dst \in Path /\ Inside(Output, e.dst)
      /\ e.dst \notin DOMAIN fs /\ HasParents(fs, e.dst)
      /\ \A d \in todo : d # e => ~Below(d.dst, e.dst) /\ ~Below(e.dst, d.dst)
  BY <1>p DEF CopyInv
<1>n. \A q \in DOMAIN fs : ~Inside(e.dst, q)
  BY <1>d, <1>p, OnlyDirsHold DEF OutputIs, IsTreeOfNodes
\* Something was put at e.dst, and the other entries keep their places.
<1>a. ASSUME NEW node \in Node, OutputIs(With(fs, e.dst, node)),
             NEW d \in todo \ {e}
      PROVE  /\ d.dst \in Path /\ Inside(Output, d.dst)
             /\ d.dst \notin DOMAIN With(fs, e.dst, node)
             /\ HasParents(With(fs, e.dst, node), d.dst)
  <2> DEFINE u == With(fs, e.dst, node)
  <2>1. /\ DOMAIN u = DOMAIN fs \cup {e.dst}
        /\ \A q \in DOMAIN fs : u[q] = fs[q]
    BY <1>d DEF With
  <2> HIDE DEF u
  <2>2. /\ d.dst \in Path /\ Inside(Output, d.dst) /\ d.dst \notin DOMAIN fs
        /\ HasParents(fs, d.dst)
    BY <1>p DEF CopyInv
  <2>3. d.dst # e.dst
    BY <1>d, BelowOrder DEF Path
  <2>4. HasParents(u, d.dst)
    BY <2>1, <2>2 DEF HasParents
  <2> QED BY <2>1, <2>2, <2>3, <2>4 DEF u
<1>b. ASSUME NEW node \in Node, OutputIs(With(fs, e.dst, node)),
             Did(With(fs, e.dst, node), todo \ {e})
      PROVE  BuildInv'
  <2>1. CopyInv'
    BY <1>a, <1>b, <1>p DEF CopyInv, Did
  <2>2. ListInv'
    BY <1>b, <1>p, PhaseNames DEF ListInv, Did
  <2> QED BY <1>b, <1>p, <2>1, <2>2, EarlyStep DEF Did
<1>2. CASE CopyFile(e)
  <2>1. e.src \in DOMAIN fs /\ fs[e.src].kind = "file" /\ fs[e.src] \in Node
    BY <1>2, <1>p DEF CopyFile, IsKind, OutputIs, IsTreeOfNodes
  <2>2. OutputIs(With(fs, e.dst, fs[e.src]))
    BY <1>p, <1>d, <1>n, <2>1, WithOutput, NodeKinds
  <2> QED BY <1>2, <1>b, <2>1, <2>2 DEF CopyFile
<1>3. CASE CopyDir(e)
  <2> DEFINE made == MkdirAll(fs, e.dst)
             new == Entries(made, e.src, e.dst, e.active \cup {e.src})
  <2>1. CASE Fail
    BY <1>p, <2>1, FailStep
  <2>2. CASE Did(made, (todo \ {e}) \cup new)
    <3>1. /\ OutputIs(made) /\ DOMAIN made = DOMAIN fs \cup {e.dst}
          /\ made[e.dst] = Dir /\ \A q \in DOMAIN fs : made[q] = fs[q]
      BY <1>p, <1>d, MkdirOutput
    <3>2. made = With(fs, e.dst, Dir)
      BY <1>d, <3>1 DEF MkdirAll, With
    <3>3. \A q \in DOMAIN made : ~Inside(e.dst, q)
      BY <1>n, <3>1 DEF Inside
    <3> HIDE DEF made
    <3>4. /\ \A d \in new : /\ d.dst \in Path /\ Inside(e.dst, d.dst)
                            /\ d.dst \notin DOMAIN made /\ HasParents(made, d.dst)
          /\ \A c, d \in new : c # d => ~Below(c.dst, d.dst)
      <4>1. IsTree(made) /\ e.dst \in DOMAIN made
        BY <3>1 DEF OutputIs, IsTreeOfNodes
      <4> QED BY <3>1, <3>3, <4>1, EntriesArePlaces
    <3>5. Dir \in Node
      BY DEF Node
    <3>6. \A d \in todo \ {e} : /\ d.dst \in Path /\ Inside(Output, d.dst)
                               /\ d.dst \notin DOMAIN made /\ HasParents(made, d.dst)
      BY <1>a, <3>1, <3>2, <3>5
    <3>7. \A d \in new : Inside(Output, d.dst)
      <4> SUFFICES ASSUME NEW d \in new PROVE Inside(Output, d.dst)
        OBVIOUS
      <4>1. Below(Output, d.dst)
        BY <1>d, <3>4, Places, BelowOrder DEF Inside, Path
      <4>2. ~Below(e.dst, Output) /\ Below(e.dst, d.dst)
        BY <1>d, <3>4, Places, InsideIsLonger DEF Inside, Path
      <4>3. d.dst # Output
        BY <4>2
      <4> QED BY <4>1, <4>3 DEF Inside
    <3>8. ASSUME NEW c \in todo \ {e}, NEW d \in new
          PROVE  ~Below(c.dst, d.dst) /\ ~Below(d.dst, c.dst)
      <4>1. /\ c.dst \in Path /\ d.dst \in Path /\ Below(e.dst, d.dst)
            /\ ~Below(c.dst, e.dst) /\ ~Below(e.dst, c.dst)
        BY <1>d, <3>4, <3>6 DEF Inside
      <4> QED BY <1>d, <4>1, BelowOrder DEF Path
    <3>9. ASSUME NEW c \in todo', NEW d \in todo', c # d PROVE ~Below(c.dst, d.dst)
      <4>1. /\ c \in todo \ {e} \/ c \in new
            /\ d \in todo \ {e} \/ d \in new
        BY <2>2 DEF Did
      <4> QED BY <4>1, <3>4, <3>8, <3>9, <1>p DEF CopyInv
    <3>10. CopyInv'
      BY <2>2, <3>4, <3>6, <3>7, <3>9 DEF CopyInv, Did
    <3>11. ListInv'
      BY <2>2, <1>p, PhaseNames DEF ListInv, Did
    <3> QED BY <1>p, <2>2, <3>1, <3>10, <3>11, EarlyStep DEF Did
  <2> QED BY <1>3, <2>1, <2>2 DEF CopyDir
<1>4. CASE CopyLink(e)
  <2> DEFINE target == EvalSymlinks(fs, e.src)
             next == [src |-> target.path, dst |-> e.dst, active |-> e.active]
  <2>1. CASE Fail
    BY <1>p, <2>1, FailStep
  <2>2. CASE Did(fs, todo \ {e})
    <3>1. CopyInv' /\ ListInv'
      BY <2>2, <1>p, PhaseNames DEF CopyInv, ListInv, Did
    <3> QED BY <1>p, <2>2, <3>1, EarlyStep DEF Did
  <2>3. CASE KeptAsLink(fs, e.src) /\ Did(With(fs, e.dst, fs[e.src]), todo \ {e})
    <3>1. e.src \in DOMAIN fs /\ fs[e.src].kind = "link" /\ ~fs[e.src].abs
      BY <1>4, <2>3 DEF CopyLink, IsKind, KeptAsLink
    <3>2. fs[e.src] \in Node
      BY <1>p, <3>1 DEF OutputIs, IsTreeOfNodes
    <3>3. OutputIs(With(fs, e.dst, fs[e.src]))
      BY <1>p, <1>d, <1>n, <3>1, <3>2, WithOutput
    <3> QED BY <1>b, <2>3, <3>2, <3>3
  <2>4. CASE Did(fs, (todo \ {e}) \cup {next})
    <3>1. next.dst = e.dst
      OBVIOUS
    <3> HIDE DEF next
    <3>2. \A d \in todo' : \/ d \in todo \ {e}
                           \/ d = next
      BY <2>4 DEF Did
    <3>3. CopyInv'
      BY <1>p, <1>d, <2>4, <3>1, <3>2 DEF CopyInv, Did
    <3>4. ListInv'
      BY <2>4, <1>p, PhaseNames DEF ListInv, Did
    <3> QED BY <1>p, <2>4, <3>3, <3>4, EarlyStep DEF Did
  <2> QED BY <1>4, <2>1, <2>2, <2>3, <2>4 DEF CopyLink
<1> QED
  BY <1>1, <1>2, <1>3, <1>4

\* An item is left as it is.
LEMMA SkipStep ==
  ASSUME BuildInv, phase \in {"remove", "prepare", "links"}, NEW x, Did(fs, todo \ {x})
  PROVE  BuildInv'
<1>1. OutputIs(fs')
  BY DEF BuildInv, OutputInv, Did
<1>2. CopyInv'
  BY DEF CopyInv, Did
<1>3. ListInv'
  BY PhaseNames DEF BuildInv, ListInv, OfKind, Did
<1> QED
  BY <1>1, <1>2, <1>3, EarlyStep DEF Did

\* Something in the output is removed that holds nothing on the list.
LEMMA RemoveStep ==
  ASSUME BuildInv, phase \in {"remove", "prepare", "links"}, NEW x,
         NEW p \in DOMAIN fs, Inside(Output, p), Did(Without(fs, p), todo \ {x}),
         phase \in {"prepare", "links"} => \A q \in todo \ {x} : ~Below(p, q)
  PROVE  BuildInv'
<1>0. OutputIs(fs)
  BY DEF BuildInv, OutputInv
<1>p. p \in Path
  BY <1>0, TreeParents DEF OutputIs, IsTreeOfNodes
<1>1. OutputIs(fs')
  BY <1>0, <1>p, WithoutOutput DEF Did
<1>2. CopyInv'
  BY DEF CopyInv, Did
<1>3. ListInv'
  BY PhaseNames DEF BuildInv, ListInv, OfKind, Did, Without, Subtree
<1> QED
  BY <1>1, <1>2, <1>3, EarlyStep DEF Did

\* A directory that no package needs is removed.
LEMMA RemoveUnwantedStep ==
  ASSUME BuildInv, RemoveUnwanted
  PROVE  BuildInv'
<1>0. phase = "remove" /\ phase \in Passes \ {"pack"}
  BY PhaseNames DEF RemoveUnwanted
<1>1. PICK i \in todo :
         \/ Did(fs, todo \ {i})
         \/ \E p \in DOMAIN fs : Inside(Output, p) /\ Did(Without(fs, p), todo \ {i})
         \/ Fail
  BY DEF RemoveUnwanted
<1> QED
  BY <1>0, <1>1, SkipStep, RemoveStep, FailStep

\* The files and links on a list are in the output and hold nothing.
LEMMA ListedHoldNothing ==
  ASSUME BuildInv, phase \in {"prepare", "links", "normalize"}, NEW p \in todo
  PROVE  /\ OutputIs(fs) /\ p \in DOMAIN fs /\ p \in Path /\ Inside(Output, p)
         /\ fs[p] \in Node /\ fs[p] # Dir /\ HasParents(fs, p)
         /\ \A q \in DOMAIN fs : ~Inside(p, q)
<1>1. OutputIs(fs)
  BY DEF BuildInv, OutputInv
<1>2. p \in Subtree(fs, Output) /\ fs[p].kind \in {"file", "link"}
  BY DEF BuildInv, ListInv, OfKind
<1>3. p \in DOMAIN fs /\ Below(Output, p) /\ fs[p] # Dir
  BY <1>2 DEF Subtree, Dir
<1>4. p \in Path /\ fs[p] \in Node /\ HasParents(fs, p)
  BY <1>1, <1>3 DEF OutputIs, IsTreeOfNodes, IsTree
<1>5. Inside(Output, p)
  BY <1>1, <1>3 DEF OutputIs, Inside
<1>6. \A q \in DOMAIN fs : ~Inside(p, q)
  BY <1>1, <1>3, <1>4, OnlyDirsHold DEF OutputIs, IsTreeOfNodes
<1> QED
  BY <1>1, <1>3, <1>4, <1>5, <1>6

\* A hidden program takes the place of its launcher: no listed file is below
\* either, and one that is listed at the public name is a file again.
LEMMA UnwrapStep ==
  ASSUME BuildInv, phase = "prepare", NEW p \in todo, Unwrap(p)
  PROVE  BuildInv'
<1> DEFINE public == Public(p)
           one == Without(fs, public)
           two == Without(one, p)
           three == With(two, public, fs[p])
<1>p. /\ OutputIs(fs) /\ p \in DOMAIN fs /\ p \in Path /\ Inside(Output, p)
      /\ fs[p] \in Node /\ fs[p] # Dir /\ HasParents(fs, p)
      /\ \A q \in DOMAIN fs : ~Inside(p, q)
  BY ListedHoldNothing
<1>k. fs[p].kind = "file" /\ todo \subseteq OfKind("file")
  BY DEF BuildInv, ListInv, OfKind
<1>1. /\ Last(p) \in DOMAIN Wrapped /\ ~InTheWay(public) /\ Did(three, todo \ {p})
  BY DEF Unwrap
<1>2. p # <<>> /\ Wrapped[Last(p)] \in Name
  BY <1>1, <1>p, Places, TreesAssumption
<1>f. /\ Front(p) \in Path /\ Inside(Front(p), p)
      /\ \A q \in Path : Inside(q, p) => Below(q, Front(p))
  BY <1>p, <1>2, FrontOf DEF Path
<1>3. /\ public \in Path /\ Inside(Front(p), public)
      /\ \A q \in Path : Inside(q, public) => Below(q, Front(p))
  BY <1>2, <1>f, BelowAppend DEF Public, Path, Inside
<1>4. Inside(Output, public)
  <2>1. Below(Output, Front(p))
    BY <1>p, <1>f, Places
  <2>2. Below(Output, public)
    BY <1>3, <1>f, <2>1, Places, BelowOrder DEF Inside, Path
  <2>3. ~Below(public, Front(p))
    BY <1>3, <1>f, InsideIsLonger DEF Path
  <2> QED BY <2>1, <2>2, <2>3 DEF Inside
<1> HIDE DEF public
<1>5. OutputIs(one) /\ DOMAIN one = DOMAIN fs \ Subtree(fs, public)
      /\ \A q \in DOMAIN one : one[q] = fs[q]
  BY <1>p, <1>3, <1>4, WithoutOutput DEF Without
<1> HIDE DEF one
<1>6. OutputIs(two) /\ DOMAIN two = DOMAIN one \ Subtree(one, p)
      /\ \A q \in DOMAIN two : two[q] = one[q]
  BY <1>p, <1>5, WithoutOutput DEF Without
<1> HIDE DEF two
<1>7. public \notin DOMAIN two
  BY <1>3, <1>5, <1>6, BelowOrder DEF Subtree, Path
<1>8. \A q \in DOMAIN two : ~Inside(public, q)
  BY <1>3, <1>6, <1>7, OnlyDirsHold DEF OutputIs, IsTreeOfNodes
<1>9. HasParents(two, public)
  <2> SUFFICES ASSUME NEW q \in Path, Inside(q, public)
               PROVE  q \in DOMAIN two /\ two[q] = Dir
    BY <1>3, ParentsAre
  <2>1. Below(q, Front(p))
    BY <1>3
  <2>2. Inside(q, p)
    BY <1>p, <1>f, <2>1, BelowOrder, InsideIsLonger DEF Inside, Path
  <2>3. q \in DOMAIN fs /\ fs[q] = Dir
    BY <1>p, <2>2, ParentsAre
  <2>4. ~Below(public, q) /\ ~Below(p, q)
    BY <1>3, <1>p, <2>2, InsideIsLonger DEF Path
  <2> QED BY <1>5, <1>6, <2>3, <2>4 DEF Subtree
<1>10. OutputIs(three)
  BY <1>p, <1>k, <1>3, <1>4, <1>6, <1>8, <1>9, WithOutput
<1>11. /\ DOMAIN three = DOMAIN two \cup {public} /\ three[public] = fs[p]
       /\ \A q \in DOMAIN two : three[q] = two[q]
  BY <1>7 DEF With
<1>12. \A q \in DOMAIN fs : Below(public, q) => q = public
  <2>1. CASE IsKind(fs, public, "dir")
    BY <1>1, <2>1 DEF InTheWay, Subtree
  <2>2. CASE ~IsKind(fs, public, "dir")
    <3>1. public \notin DOMAIN fs \/ fs[public] # Dir
      BY <2>2 DEF IsKind, Dir
    <3> QED BY <1>p, <1>3, <3>1, OnlyDirsHold DEF OutputIs, IsTreeOfNodes, Inside
  <2> QED BY <2>1, <2>2
<1> HIDE DEF three
<1>13. ASSUME NEW q \in todo \ {p}
       PROVE  q \in Subtree(three, Output) /\ three[q].kind = "file"
  <2>1. q \in DOMAIN fs /\ Below(Output, q) /\ fs[q].kind = "file"
    BY <1>k DEF OfKind, Subtree
  <2>2. CASE q = public
    BY <1>k, <1>11, <2>1, <2>2 DEF Subtree
  <2>3. CASE q # public
    <3>1. q \in DOMAIN two /\ two[q] = fs[q]
      BY <1>p, <1>5, <1>6, <1>12, <2>1, <2>3 DEF Subtree, Inside
    <3> QED BY <1>11, <2>1, <3>1 DEF Subtree
  <2> QED BY <2>2, <2>3
<1>14. ListInv'
  BY <1>1, <1>13 DEF ListInv, OfKind, Did, Passes, NextPass
<1>15. CopyInv' /\ OutputIs(fs')
  BY <1>1, <1>10 DEF CopyInv, Did
<1> QED
  BY <1>1, <1>14, <1>15, EarlyStep DEF Did

\* A file is prepared.
LEMMA PrepareFileStep ==
  ASSUME BuildInv, PrepareFile
  PROVE  BuildInv'
<1>0. phase = "prepare" /\ phase \in Passes \ {"pack"}
  BY PhaseNames DEF PrepareFile
<1>1. PICK p \in todo : \/ Did(Without(fs, p), todo \ {p})
                        \/ Unwrap(p)
                        \/ Did(fs, todo \ {p})
                        \/ Fail
  BY DEF PrepareFile, DiscardFile
<1>2. /\ p \in DOMAIN fs /\ Inside(Output, p)
      /\ \A q \in todo \ {p} : ~Below(p, q)
  <2>1. p \in DOMAIN fs /\ Inside(Output, p) /\ \A q \in DOMAIN fs : ~Inside(p, q)
    BY <1>0, ListedHoldNothing
  <2>2. todo \subseteq DOMAIN fs
    BY <1>0, ListedHoldNothing
  <2> QED BY <2>1, <2>2 DEF Inside
<1> QED
  BY <1>0, <1>1, <1>2, SkipStep, RemoveStep, UnwrapStep, FailStep

\* A link is judged.
LEMMA RemoveDanglingSymlinkStep ==
  ASSUME BuildInv, RemoveDanglingSymlink
  PROVE  BuildInv'
<1>0. phase = "links" /\ phase \in Passes \ {"pack"}
  BY PhaseNames DEF RemoveDanglingSymlink
<1>1. PICK p \in todo : \/ Did(fs, todo \ {p})
                        \/ Did(Without(fs, p), todo \ {p})
                        \/ Fail
  BY DEF RemoveDanglingSymlink
<1>2. /\ p \in DOMAIN fs /\ Inside(Output, p)
      /\ \A q \in todo \ {p} : ~Below(p, q)
  <2>1. p \in DOMAIN fs /\ Inside(Output, p) /\ \A q \in DOMAIN fs : ~Inside(p, q)
    BY <1>0, ListedHoldNothing
  <2>2. todo \subseteq DOMAIN fs
    BY <1>0, ListedHoldNothing
  <2> QED BY <2>1, <2>2 DEF Inside
<1> QED
  BY <1>0, <1>1, <1>2, SkipStep, RemoveStep, FailStep

\* What normalizeFile writes is data of the same kind, free of the store.
LEMMA CleanData ==
  ASSUME NEW d \in Data, NEW p
  PROVE  /\ d.kind = "elf" /\ (cfg.platform = "linux" /\ ~Unchecked(p) => ValidELF(d)) =>
              Clean(d) \in Data /\ IsFreeOfStore(p, Clean(d))
         /\ d.kind = "text" => Clean(d) \in Data /\ IsFreeOfStore(p, Clean(d))
         /\ d.kind = "binary" => IsFreeOfStore(p, d)
         /\ d.kind = "macho" /\ cfg.platform # "darwin" => IsFreeOfStore(p, d)
<1>1. d.kind = "elf" => /\ Clean(d) \in Data /\ Clean(d).kind = "elf" /\ ~Clean(d).refs
                        /\ Clean(d).libraries = d.libraries /\ Clean(d).rpaths = d.rpaths
                        /\ Clean(d).interpreter = d.interpreter
  BY DEF Data, Clean
<1>2. d.kind = "text" => Clean(d) \in Data /\ Clean(d).kind = "text" /\ ~Clean(d).refs
  BY DEF Data, Clean
<1> QED
  BY <1>1, <1>2 DEF IsFreeOfStore, ValidELF

\* A Mach-O file less some of its rpaths is one still.
LEMMA CleanMachO ==
  ASSUME NEW d \in Data, d.kind = "macho", NEW p,
         ~Unchecked(p) => ValidMachO(DeleteRpaths(d))
  PROVE  DeleteRpaths(d) \in Data /\ IsFreeOfStore(p, DeleteRpaths(d))
<1> DEFINE n == DeleteRpaths(d)
<1>1. n \in Data /\ n.kind = "macho"
  BY DEF Data, DeleteRpaths
<1> HIDE DEF n
<1>2. IsFreeOfStore(p, n)
  BY <1>1 DEF IsFreeOfStore, ValidMachO, n
<1> QED
  BY <1>1, <1>2 DEF n

\* A file is normalized: what was written is free of the store.
LEMMA NormalizeFileStep ==
  ASSUME BuildInv, NormalizeFile
  PROVE  BuildInv'
<1>0. phase = "normalize" /\ phase \in Passes \ {"pack"}
  BY PhaseNames DEF NormalizeFile
<1>1. PICK p \in todo :
         NormalizeELF(p) \/ NormalizeMachO(p) \/ RewriteText(p) \/ LeaveFile(p)
  BY DEF NormalizeFile
<1>p. /\ OutputIs(fs) /\ p \in DOMAIN fs /\ p \in Path /\ Inside(Output, p)
      /\ fs[p] \in Node /\ fs[p] # Dir /\ HasParents(fs, p)
      /\ \A q \in DOMAIN fs : ~Inside(p, q)
  BY <1>0, ListedHoldNothing
<1>k. /\ todo \subseteq OfKind("file")
      /\ \A q \in OfKind("file") \ todo : IsFreeOfStore(q, fs[q].data)
  BY <1>0 DEF BuildInv, ListInv, CleanInv
<1>d. fs[p].data \in Data /\ fs[p].exec \in BOOLEAN /\ fs[p].kind = "file"
  BY <1>p, <1>k, NodeKinds DEF OfKind
\* The phase goes on: what is behind it is clean.
<1>2. ASSUME UNCHANGED <<cfg, phase, archive>>, OutputIs(fs'),
             todo' \subseteq OfKind("file")',
             \A q \in OfKind("file")' \ todo' : IsFreeOfStore(q, fs'[q].data)
      PROVE  BuildInv'
  <2>1. BuildTypeInv' /\ OutputInv'
    BY <1>0, <1>2 DEF BuildInv, BuildTypeInv, OutputIs, OutputInv
  <2>2. CopyInv' /\ ListInv' /\ ArchiveInv'
    BY <1>0, <1>2, PhaseNames DEF BuildInv, CopyInv, ListInv, ArchiveInv, Packing
  <2>3. CleanInv'
    BY <1>0, <1>2 DEF CleanInv, IsFreeOfStore, Packing
  <2> QED BY <2>1, <2>2, <2>3 DEF BuildInv
<1>3. ASSUME NEW data \in Data, IsFreeOfStore(p, data), Write(p, data)
      PROVE  BuildInv'
  <2> DEFINE u == With(fs, p, File(data, fs[p].exec))
  <2>1. /\ File(data, fs[p].exec) \in Node /\ File(data, fs[p].exec) # Dir
        /\ File(data, fs[p].exec).kind = "file" /\ File(data, fs[p].exec).data = data
    BY <1>d DEF Node, File, Dir
  <2>2. OutputIs(u)
    BY <1>p, <2>1, WithOutput
  <2>3. /\ DOMAIN u = DOMAIN fs
        /\ u[p].kind = "file" /\ u[p].data = data
        /\ \A q \in DOMAIN fs : q # p => u[q] = fs[q]
    BY <1>p, <2>1 DEF With
  <2>4. fs' = u /\ todo' = todo \ {p} /\ UNCHANGED <<cfg, phase, archive>>
    BY <1>3 DEF Write, Did
  <2> HIDE DEF u
  <2>5. OfKind("file")' = OfKind("file")
    BY <1>d, <1>p, <2>3, <2>4 DEF OfKind, Subtree
  <2>6. todo' \subseteq OfKind("file")'
    BY <1>k, <2>4, <2>5
  <2>7. \A q \in OfKind("file")' \ todo' : IsFreeOfStore(q, fs'[q].data)
    <3> SUFFICES ASSUME NEW q \in OfKind("file") \ (todo \ {p})
                 PROVE  IsFreeOfStore(q, u[q].data)
      BY <2>4, <2>5
    <3>1. CASE q = p
      BY <1>3, <2>3, <3>1
    <3>2. CASE q # p
      BY <1>k, <2>3, <3>2 DEF OfKind, Subtree
    <3> QED BY <3>1, <3>2
  <2> QED BY <1>2, <2>2, <2>4, <2>6, <2>7
<1>4. CASE NormalizeELF(p)
  <2>1. CASE Fail
    BY <1>0, <2>1, FailStep
  <2>2. CASE ~Fail
    <3>1. /\ fs[p].data.kind = "elf" /\ Write(p, Clean(fs[p].data))
          /\ cfg.platform = "linux" /\ ~Unchecked(p) => ValidELF(fs[p].data)
      BY <1>4, <2>2 DEF NormalizeELF
    <3> QED BY <1>3, <1>d, <3>1, CleanData
  <2> QED BY <2>1, <2>2
<1>5. CASE NormalizeMachO(p)
  <2>1. CASE Fail
    BY <1>0, <2>1, FailStep
  <2>2. CASE ~Fail
    <3>1. /\ fs[p].data.kind = "macho" /\ Write(p, DeleteRpaths(fs[p].data))
          /\ ~Unchecked(p) => ValidMachO(DeleteRpaths(fs[p].data))
      BY <1>5, <2>2 DEF NormalizeMachO
    <3> QED BY <1>3, <1>d, <3>1, CleanMachO
  <2> QED BY <2>1, <2>2
<1>6. CASE RewriteText(p)
  BY <1>3, <1>6, <1>d, CleanData DEF RewriteText
<1>7. CASE LeaveFile(p)
  <2>1. IsFreeOfStore(p, fs[p].data)
    BY <1>7, <1>d, CleanData DEF LeaveFile
  <2>2. /\ fs' = fs /\ todo' = todo \ {p} /\ UNCHANGED <<cfg, phase, archive>>
        /\ OfKind("file")' = OfKind("file")
    BY <1>7 DEF LeaveFile, Did, OfKind
  <2>3. OutputIs(fs') /\ todo' \subseteq OfKind("file")'
    BY <1>p, <1>k, <2>2
  <2>4. \A q \in OfKind("file")' \ todo' : IsFreeOfStore(q, fs'[q].data)
    BY <1>k, <2>1, <2>2
  <2> QED BY <1>2, <2>2, <2>3, <2>4
<1> QED
  BY <1>1, <1>4, <1>5, <1>6, <1>7

\* A pass makes its list of what the output holds when it begins.
LEMMA EndPassStep ==
  ASSUME BuildInv, EndPass
  PROVE  BuildInv'
<1>1. /\ phase \in Passes /\ todo = {} /\ phase' = NextPass[phase]
      /\ todo' = Work(phase') /\ UNCHANGED <<cfg, fs, archive>>
  BY DEF EndPass, Passes
<1>2. /\ phase = "copy" => phase' = "remove"
      /\ phase = "remove" => phase' = "prepare"
      /\ phase = "prepare" => phase' = "links"
      /\ phase = "links" => phase' = "normalize"
      /\ phase = "normalize" => phase' = "pack"
      /\ phase = "pack" => phase' = "packed"
  BY <1>1 DEF NextPass
<1>3. phase' \in Phases /\ phase' # "begin" /\ phase' # "copy"
  BY <1>1, <1>2, PhaseNames
<1>4. BuildTypeInv' /\ CopyInv'
  BY <1>1, <1>3 DEF BuildInv, BuildTypeInv, CopyInv
<1>5. OutputInv'
  BY <1>1, <1>3, PhaseNames DEF BuildInv, OutputInv
<1>6. OfKind("file")' = OfKind("file") /\ OfKind("link")' = OfKind("link")
  BY <1>1 DEF OfKind
<1>7. ListInv'
  BY <1>1, <1>2, <1>6, PhaseNames DEF ListInv, Work
<1>8. CleanInv'
  <2>1. CASE phase = "links"
    BY <1>1, <1>2, <1>6, <2>1 DEF CleanInv, Work, Packing
  <2>2. CASE phase = "normalize"
    BY <1>1, <1>2, <1>6, <2>2 DEF BuildInv, CleanInv, IsFreeOfStore, Packing
  <2>3. CASE phase = "pack"
    BY <1>1, <1>2, <1>6, <2>3 DEF BuildInv, CleanInv, IsFreeOfStore, Packing
  <2> QED BY <1>1, <1>2, <2>1, <2>2, <2>3, PhaseNames DEF CleanInv, Packing
<1>9. ArchiveInv'
  <2>1. CASE phase = "normalize"
    <3>1. phase' = "pack" /\ archive = <<>> /\ archive' = <<>> /\ todo' = Subtree(fs, Output)'
      BY <1>1, <1>2, <2>1 DEF BuildInv, ArchiveInv, Packing, Work
    <3> QED BY <3>1 DEF ArchiveInv, Packing
  <2>2. CASE phase = "pack"
    <3>1. phase' = "packed" /\ todo' = todo
      BY <1>1, <1>2, <2>2 DEF Work
    <3> QED BY <1>1, <2>2, <3>1 DEF BuildInv, ArchiveInv, Packing, At, Header
  <2>3. CASE phase \in {"copy", "remove", "prepare", "links"}
    BY <1>1, <1>2, <2>3 DEF BuildInv, ArchiveInv, Packing
  <2> QED BY <1>1, <2>1, <2>2, <2>3, PhaseNames
<1> QED
  BY <1>4, <1>5, <1>7, <1>8, <1>9 DEF BuildInv

\* In the order of a walk, a path never follows what is below it.
LEMMA BeforeBelow ==
  ASSUME NEW p \in Path, NEW q \in Path, Before(p, q)
  PROVE  ~Inside(q, p)
<1> SUFFICES ASSUME Inside(q, p) PROVE FALSE
  OBVIOUS
<1>1. /\ ~Inside(p, q)
      /\ Len(q) <= Len(p) /\ \A i \in 1..Len(q) : q[i] = p[i]
  BY InsideIsLonger, BelowPointwise DEF Inside, Path
<1>2. PICK k \in DOMAIN p \cap DOMAIN q : Position[p[k]] < Position[q[k]]
  BY <1>1 DEF Before
<1>3. p[k] = q[k] /\ p[k] \in Name
  BY <1>1, <1>2 DEF Path
<1>4. Position[p[k]] \in Nat
  <2>1. PICK j \in DOMAIN NameOrder : NameOrder[j] = p[k]
    BY <1>3 DEF Name, ToSet
  <2>2. (CHOOSE i \in DOMAIN NameOrder : NameOrder[i] = p[k]) \in DOMAIN NameOrder
    BY <2>1
  <2>3. DOMAIN NameOrder \subseteq Nat
    BY NameOrderAssumption
  <2> QED BY <1>3, <2>2, <2>3 DEF Position
<1> QED
  BY <1>2, <1>3, <1>4

\* A header says which path it is of.
LEMMA HeaderAt ==
  ASSUME NEW p \in Path, Below(Output, p)
  PROVE  /\ Header(p).node = fs[p] /\ Tail(Header(p).name) = Under(Output, p)
         /\ Header(p).name \in Seq(Name \cup {PackageName})
         /\ Output \o Tail(Header(p).name) = p
<1>1. Under(Output, p) \in Seq(Name) /\ Output \o Under(Output, p) = p
  BY Places, UnderRoot DEF Path
<1> DEFINE u == Under(Output, p)
<1>2. Header(p).name = <<PackageName>> \o u /\ Header(p).node = fs[p]
  BY DEF Header
<1> HIDE DEF u
<1>3. u \in Seq(Name)
  BY <1>1 DEF u
<1>4. Tail(<<PackageName>> \o u) = u
  <2> DEFINE a == <<PackageName>> \o u
  <2>1. /\ a \in Seq(Name \cup {PackageName}) /\ Len(a) = Len(u) + 1
        /\ \A i \in 1..Len(u) : a[i + 1] = u[i]
    BY <1>3
  <2> HIDE DEF a
  <2>5. Len(a) # 0 /\ Len(a) - 1 = Len(u) /\ Len(u) \in Nat
    BY <1>3, <2>1
  <2>6. /\ Tail(a) \in Seq(Name \cup {PackageName}) /\ Len(Tail(a)) = Len(a) - 1
        /\ \A i \in 1..(Len(a) - 1) : Tail(a)[i] = a[i + 1]
    BY <2>1, <2>5
  <2>7. ASSUME NEW t \in Seq(Name \cup {PackageName})
        PROVE  t = [i \in 1..Len(t) |-> t[i]]
    OBVIOUS
  <2>2. Tail(a) = [i \in 1..Len(u) |-> a[i + 1]]
    BY <2>5, <2>6, <2>7
  <2>3. u = [i \in 1..Len(u) |-> u[i]]
    BY <1>3
  <2>4. Tail(a) = u
    BY <2>1, <2>2, <2>3
  <2> QED BY <2>4 DEF a
<1>5. <<PackageName>> \o u \in Seq(Name \cup {PackageName})
  BY <1>3
<1> QED
  BY <1>1, <1>2, <1>4, <1>5 DEF u

\* An entry is packed: its path is new to the archive, and all that it is
\* inside of comes earlier in the walk.
LEMMA PackStep ==
  ASSUME BuildInv, Pack
  PROVE  BuildInv'
<1>1. PICK p \in todo : /\ IsFirst(p, todo) /\ archive' = Append(archive, Header(p))
                        /\ todo' = todo \ {p}
  BY DEF Pack
<1>0. /\ phase = "pack" /\ UNCHANGED <<cfg, fs, phase, copied>>
      /\ OutputIs(fs) /\ IsTree(fs) /\ todo \subseteq Subtree(fs, Output)
  BY DEF Pack, BuildInv, OutputInv, OutputIs, ListInv, IsTreeOfNodes
<1>p. p \in DOMAIN fs /\ p \in Path /\ Below(Output, p) /\ fs[p] \in Node
  BY <1>0, TreeParents DEF Subtree, OutputIs, IsTreeOfNodes
<1> DEFINE H == [name : Seq(Name \cup {PackageName}), node : Node]
           n == Len(archive) + 1
<1>2. Header(p) \in H /\ Output \o Tail(Header(p).name) = p
  <2>1. Header(p) = [name |-> Header(p).name, node |-> Header(p).node]
    BY DEF Header
  <2> QED BY <1>p, <2>1, HeaderAt
<1>3. archive \in Seq(H)
  BY DEF BuildInv, BuildTypeInv
<1>h. Header(p)' = Header(p)
  BY <1>0 DEF Header
<1> HIDE DEF H
<1>4. /\ archive' \in Seq(H) /\ DOMAIN archive' = DOMAIN archive \cup {n}
      /\ n \notin DOMAIN archive /\ DOMAIN archive \subseteq Nat
      /\ \A i \in DOMAIN archive : i < n /\ archive'[i] = archive[i]
      /\ archive'[n] = Header(p)
  BY <1>1, <1>2, <1>3
<1> HIDE DEF n
<1> DEFINE old == [i \in DOMAIN archive |-> Output \o Tail(archive[i].name)]
           new == [i \in DOMAIN archive' |-> Output \o Tail(archive'[i].name)]
<1>5. /\ \A i \in DOMAIN archive : new[i] = old[i]
      /\ new[n] = p
  BY <1>2, <1>4
<1>o. /\ \A i \in DOMAIN archive : At(i) = old[i]
      /\ \A i \in DOMAIN archive' : Output \o Tail(archive'[i].name) = new[i]
  BY DEF At
<1> HIDE DEF old, new
<1>a. /\ \A i \in DOMAIN archive :
           old[i] \in Subtree(fs, Output) \ todo /\ archive[i] = Header(old[i])
      /\ \A q \in Subtree(fs, Output) \ todo : \E i \in DOMAIN archive : old[i] = q
      /\ \A i, j \in DOMAIN archive : old[i] = old[j] => i = j
      /\ \A i, j \in DOMAIN archive : Inside(old[i], old[j]) => i < j
      /\ \A q \in todo, i \in DOMAIN archive : ~Inside(q, old[i])
  <2>1. phase \in Packing
    BY <1>0 DEF Packing
  <2> QED BY <1>o, <2>1 DEF BuildInv, ArchiveInv
<1>6. \A q \in todo \ {p} : ~Inside(q, p)
  <2> SUFFICES ASSUME NEW q \in todo \ {p} PROVE ~Inside(q, p)
    OBVIOUS
  <2>1. q \in Path /\ Before(p, q)
    BY <1>0, <1>1, TreeParents DEF IsFirst, Subtree
  <2> QED BY <1>p, <2>1, BeforeBelow
<1> DEFINE work == todo \ {p}
<1>7. \A i \in DOMAIN archive' :
        new[i] \in Subtree(fs, Output) \ work /\ archive'[i] = Header(new[i])
  BY <1>0, <1>4, <1>5, <1>a
<1>8. \A q \in Subtree(fs, Output) \ work : \E i \in DOMAIN archive' : new[i] = q
  BY <1>4, <1>5, <1>a
<1>9. \A i, j \in DOMAIN archive' : new[i] = new[j] => i = j
  BY <1>4, <1>5, <1>a
<1>10. \A i, j \in DOMAIN archive' : Inside(new[i], new[j]) => i < j
  <2>1. ~Inside(p, p)
    BY DEF Inside
  <2> QED BY <1>4, <1>5, <1>a, <2>1
<1>11. \A q \in work, i \in DOMAIN archive' : ~Inside(q, new[i])
  BY <1>4, <1>5, <1>6, <1>a
<1>12. ArchiveInv'
  <2>1. phase' \in Packing /\ todo' = work
    BY <1>0, <1>1 DEF Packing
  <2>2. Subtree(fs, Output)' = Subtree(fs, Output)
    BY <1>0 DEF Subtree
  <2>3. \A i \in DOMAIN archive' : At(i)' = new[i]
    BY <1>o DEF At
  <2>4. \A i \in DOMAIN archive' :
          At(i)' \in Subtree(fs, Output)' \ todo' /\ archive'[i] = Header(At(i))'
    BY <1>0, <1>7, <2>1, <2>2, <1>o DEF At, Header
  <2>5. \A q \in Subtree(fs, Output)' \ todo' : \E i \in DOMAIN archive' : At(i)' = q
    BY <1>8, <2>1, <2>2, <1>o DEF At
  <2>6. \A i, j \in DOMAIN archive' : At(i)' = At(j)' => i = j
    BY <1>9, <2>3
  <2>7. \A i, j \in DOMAIN archive' : Inside(At(i), At(j))' => i < j
    BY <1>10, <1>o DEF At, Inside
  <2>8. \A q \in todo', i \in DOMAIN archive' : ~Inside(q, At(i))'
    BY <1>11, <2>1, <1>o DEF At, Inside
  <2> QED BY <2>1, <2>4, <2>5, <2>6, <2>7, <2>8 DEF ArchiveInv
<1>13. BuildTypeInv' /\ OutputInv'
  BY <1>0, <1>4 DEF BuildInv, BuildTypeInv, OutputInv, H
<1>14. CopyInv' /\ ListInv' /\ CleanInv'
  BY <1>0, <1>1, PhaseNames DEF BuildInv, CopyInv, ListInv, CleanInv, OfKind, IsFreeOfStore
<1> QED
  BY <1>12, <1>13, <1>14 DEF BuildInv

\* The invariant of the build holds when it begins.
LEMMA BuildInit ==
  ASSUME Init
  PROVE  BuildInv
<1>1. /\ phase = "begin" /\ todo = {} /\ archive = <<>> /\ cfg \in Configs
      /\ IsTreeOfNodes(fs) /\ Subtree(fs, Output) = {} /\ IsKind(fs, Front(Output), "dir")
  BY TreesAssumption DEF Init
<1>2. HasParents(fs, Output)
  <2>1. Front(Output) \in DOMAIN fs /\ fs[Front(Output)] = Dir
    BY <1>1, NodeKinds DEF IsKind, IsTreeOfNodes
  <2>2. /\ Front(Output) \in Path
        /\ \A q \in Path : Inside(q, Output) => q = Front(Output) \/ Inside(q, Front(Output))
    BY Places, FrontOf DEF Path, Inside
  <2> QED BY <1>1, <2>1, <2>2, Places, ParentsAre, TreeParents DEF IsTreeOfNodes
<1>3. archive \in Seq([name : Seq(Name \cup {PackageName}), node : Node])
  BY <1>1
<1>4. BuildTypeInv /\ OutputInv
  BY <1>1, <1>2, <1>3, PhaseNames DEF BuildTypeInv, OutputInv
<1>5. CopyInv /\ ListInv /\ CleanInv /\ ArchiveInv
  BY <1>1 DEF CopyInv, ListInv, CleanInv, ArchiveInv, Packing
<1> QED
  BY <1>4, <1>5 DEF BuildInv

\* A step of the build keeps it.
LEMMA BuildStep ==
  ASSUME BuildInv, Next
  PROVE  BuildInv'
BY BeginStep, CopyNodeStep, RemoveUnwantedStep, PrepareFileStep, RemoveDanglingSymlinkStep,
   NormalizeFileStep, PackStep, EndPassStep DEF Next

-----------------------------------------------------------------------------
(* The installation. *)

DeliveryInv == BuildInv /\ IsTree(tree) /\ StageInv

\* The stage is empty at first.
LEMMA StageAlone ==
  IsTree([p \in {<<>>, Stage} |-> Dir])
<1> DEFINE t == [p \in {<<>>, Stage} |-> Dir]
<1>1. /\ <<>> \in Path /\ Stage \in Path /\ Len(Stage) = 1
  BY Places DEF Stage, Path
<1>2. ASSUME NEW p \in {<<>>, Stage}, NEW q \in Path, Inside(q, p)
      PROVE  q = <<>>
  <2>1. Len(q) < Len(p) /\ p \in Path
    BY <1>1, <1>2, InsideIsLonger DEF Path
  <2>2. Len(q) = 0
    BY <1>1, <2>1 DEF Path
  <2> QED BY <2>2 DEF Path
<1>3. IsTree(t)
  BY <1>1, <1>2, TreeIf
<1> QED
  BY <1>3

\* The invariant of the whole holds at first.
LEMMA DeliveryInitInv ==
  ASSUME DeliveryInit
  PROVE  DeliveryInv
BY BuildInit, StageAlone DEF DeliveryInit, Init, DeliveryInv, StageInv, Packing

\* The installation keeps the invariant of the build,
LEMMA BuildFrame ==
  ASSUME BuildInv, phase \in Packing \ {"pack"}, phase' \in Packing \ {"pack"},
         UNCHANGED buildVars
  PROVE  BuildInv'
<1>1. phase \notin Passes /\ phase' \notin Passes /\ phase' \in Phases /\ phase # "begin"
  BY PhaseNames DEF Packing
<1>2. UNCHANGED <<cfg, fs, todo, archive>>
  BY DEF buildVars
<1>3. BuildTypeInv' /\ CopyInv' /\ ListInv' /\ OutputInv'
  BY <1>1, <1>2, PhaseNames
     DEF BuildInv, BuildTypeInv, CopyInv, ListInv, OutputInv, Packing
<1>4. CleanInv'
  BY <1>1, <1>2 DEF BuildInv, CleanInv, OfKind, IsFreeOfStore, Packing
<1>5. ArchiveInv'
  BY <1>1, <1>2 DEF BuildInv, ArchiveInv, At, Header
<1> QED
  BY <1>3, <1>4, <1>5 DEF BuildInv

\* which comes to the end before anything is installed,
LEMMA BuildPhases ==
  ASSUME BuildInv, Next
  PROVE  /\ phase \notin Packing \ {"pack"}
         /\ phase' \in Packing \ {"pack"} => phase' = "packed"
<1>1. phase \in Passes \cup {"begin"}
  BY PhaseNames DEF Next, Begin, CopyNode, RemoveUnwanted, PrepareFile,
     RemoveDanglingSymlink, NormalizeFile, Pack, EndPass, Passes
<1>2. CASE Begin
  BY <1>2 DEF Begin, Packing
<1>3. CASE EndPass
  BY <1>3, PhaseNames DEF EndPass, Packing, NextPass, Passes
<1>4. CASE UNCHANGED phase \/ Fail
  BY <1>1, <1>4, PhaseNames DEF Fail, Packing
<1>5. CASE CopyNode \/ RemoveUnwanted \/ PrepareFile
  <2>1. UNCHANGED phase \/ Fail
    BY <1>5 DEF CopyNode, CopyFile, CopyDir, CopyLink, RemoveUnwanted,
       PrepareFile, DiscardFile, Unwrap, Did
  <2> QED BY <1>4, <2>1
<1>6. CASE RemoveDanglingSymlink \/ NormalizeFile \/ Pack
  <2>1. UNCHANGED phase \/ Fail
    BY <1>6 DEF RemoveDanglingSymlink, NormalizeFile, NormalizeELF, NormalizeMachO,
       RewriteText, LeaveFile, Write, Pack, Did
  <2> QED BY <1>4, <2>1
<1> QED
  BY <1>1, <1>2, <1>3, <1>5, <1>6, PhaseNames DEF Next, Packing

\* and keeps the stage as it is.
LEMMA BuildDeliveryStep ==
  ASSUME DeliveryInv, Build
  PROVE  DeliveryInv'
<1>1. BuildInv' /\ UNCHANGED <<tree, read>> /\ IsTree(tree')
  BY BuildStep DEF Build, DeliveryInv
<1>2. phase \notin Packing \ {"pack"} /\ (phase' \in Packing \ {"pack"} => phase' = "packed")
  BY BuildPhases DEF Build, DeliveryInv
<1>3. read = 0 /\ tree = [p \in {<<>>, Stage} |-> Dir]
  BY <1>2 DEF DeliveryInv, StageInv
<1>4. CASE phase' = "packed"
  <2>1. /\ Len(archive') \in Nat /\ 1..read' = {}
    BY <1>1, <1>3 DEF BuildInv, BuildTypeInv
  <2> QED BY <1>1, <1>3, <1>4, <2>1 DEF DeliveryInv, StageInv, Packing
<1>5. CASE phase' # "packed"
  BY <1>1, <1>2, <1>3, <1>5 DEF DeliveryInv, StageInv
<1> QED
  BY <1>4, <1>5

\* The places of the output in the stage.
LEMMA StagePlaces ==
  ASSUME NEW p \in Path, Below(Output, p), NEW q \in Path, Below(Output, q)
  PROVE  /\ InStage(p) \in Path /\ Below(Stage, InStage(p))
         /\ InStage(p) = InStage(q) <=> p = q
         /\ Inside(InStage(p), InStage(q)) <=> Inside(p, q)
         /\ InStage(p) = Stage <=> p = Output
<1> DEFINE u == Under(Output, p)
           v == Under(Output, q)
<1>1. /\ u \in Path /\ v \in Path /\ Output \o u = p /\ Output \o v = q
      /\ Output \in Path /\ Stage \in Path
  BY Places, UnderRoot DEF Path
<1>2. /\ InStage(p) = Stage \o u /\ InStage(q) = Stage \o v
  BY DEF InStage
<1> HIDE DEF u, v
<1>3. /\ Stage \o u \in Path /\ Below(Stage, Stage \o u)
      /\ Under(Stage, Stage \o u) = u /\ Under(Stage, Stage \o v) = v
      /\ Below(Stage \o u, Stage \o v) <=> Below(u, v)
      /\ Below(Output \o u, Output \o v) <=> Below(u, v)
  BY <1>1, ConcatBelow DEF Path
<1>4. InStage(p) = InStage(q) <=> p = q
  BY <1>1, <1>2, <1>3
<1>5. Inside(InStage(p), InStage(q)) <=> Inside(p, q)
  BY <1>1, <1>2, <1>3, <1>4 DEF Inside
<1>6. ASSUME NEW r \in Path PROVE r \o u = r <=> u = <<>>
  <2>1. Len(r \o u) = Len(r) + Len(u) /\ Len(u) = 0 <=> u = <<>>
    BY <1>1 DEF Path
  <2>2. u = <<>> => r \o u = r
    BY DEF Path
  <2>3. r \o u = r => Len(u) = 0
    BY <1>1, <2>1 DEF Path
  <2> QED BY <2>1, <2>2, <2>3
<1> QED
  BY <1>1, <1>2, <1>3, <1>4, <1>5, <1>6

\* A path above one in the stage is the root, the stage, or in the stage.
LEMMA StageParents ==
  ASSUME NEW p \in Path, Below(Output, p), NEW r \in Path, Inside(r, InStage(p))
  PROVE  \/ r \in {<<>>, Stage}
         \/ \E q \in Path : Inside(Output, q) /\ Inside(q, p) /\ r = InStage(q)
<1>1. InStage(p) \in Path /\ Below(Stage, InStage(p)) /\ Stage \in Path /\ Output \in Path
  BY Places, StagePlaces
<1>2. CASE Below(r, Stage)
  <2>1. Len(r) <= Len(Stage) /\ Len(Stage) = 1 /\ Len(r) \in Nat
    <3>1. Len(r) <= Len(Stage) /\ Len(r) \in Nat
      BY <1>1, <1>2, BelowPointwise DEF Path
    <3>2. Len(Stage) = 1
      BY DEF Stage
    <3> QED BY <3>1, <3>2
  <2>2. CASE Len(r) = 0
    BY <2>2 DEF Path
  <2>3. CASE Len(r) = 1
    <3>1. Len(r) = Len(Stage)
      BY <2>3 DEF Stage
    <3> QED BY <1>1, <1>2, <3>1, BelowOrder DEF Path
  <2> QED BY <2>1, <2>2, <2>3
<1>3. CASE Below(Stage, r)
  <2> DEFINE u == Under(Stage, r)
             q == Output \o u
  <2>1. u \in Path /\ Stage \o u = r
    BY <1>1, <1>3, UnderRoot DEF Path
  <2> HIDE DEF u
  <2>2. q \in Path /\ Below(Output, q) /\ Under(Output, q) = u
    BY <1>1, <2>1, ConcatBelow DEF Path
  <2>3. r = InStage(q)
    BY <2>1, <2>2 DEF InStage
  <2> HIDE DEF q
  <2>4. Inside(q, p)
    BY <2>2, <2>3, StagePlaces
  <2>5. q = Output => r = Stage
    BY <1>1, <2>2, <2>3, StagePlaces
  <2> QED BY <2>2, <2>3, <2>4, <2>5 DEF Inside
<1> QED
  BY <1>1, <1>2, <1>3, BelowOrder DEF Inside, Path

\* What the next entry of the archive meets in the stage: its place is free,
\* and all that the place goes through is there.
LEMMA EntryMeets ==
  ASSUME DeliveryInv, phase = "packed", read < Len(archive)
  PROVE  LET p == At(read + 1) IN
         /\ read \in Nat /\ read + 1 \in DOMAIN archive
         /\ p \in Subtree(fs, Output) /\ p \in Path /\ Below(Output, p) /\ fs[p] \in Node
         /\ archive[read + 1].node = fs[p] /\ Target(archive[read + 1]) = InStage(p)
         /\ p # Output =>
              /\ InStage(p) \notin DOMAIN tree
              /\ HasParents(tree, InStage(p))
<1> DEFINE k == read + 1
           p == At(k)
<1>a. /\ \A i \in DOMAIN archive : At(i) \in Subtree(fs, Output) /\ archive[i] = Header(At(i))
      /\ \A q \in Subtree(fs, Output) : \E i \in DOMAIN archive : At(i) = q
      /\ \A i, j \in DOMAIN archive : At(i) = At(j) => i = j
      /\ \A i, j \in DOMAIN archive : Inside(At(i), At(j)) => i < j
  <2>1. phase \in Packing /\ todo = {}
    BY PhaseNames DEF DeliveryInv, BuildInv, ListInv, Packing
  <2> QED BY <2>1 DEF DeliveryInv, BuildInv, ArchiveInv
<1>s. /\ read \in 0..Len(archive) /\ tree[<<>>] = Dir /\ tree[Stage] = Dir
      /\ DOMAIN tree = {<<>>, Stage} \cup {InStage(At(i)) : i \in 1..read}
      /\ \A i \in 1..read :
            At(i) # Output => tree[InStage(At(i))] = Unpacked(InStage(At(i)), fs[At(i)])
  BY DEF DeliveryInv, StageInv, Packing
<1>1. /\ k \in DOMAIN archive /\ read \in Nat /\ k \notin 1..read
      /\ DOMAIN archive = 1..Len(archive) /\ Len(archive) \in Nat
  BY <1>s DEF DeliveryInv, BuildInv, BuildTypeInv
<1>t. IsTree(fs) /\ \A q \in DOMAIN fs : fs[q] \in Node
  BY DEF DeliveryInv, BuildInv, BuildTypeInv, IsTreeOfNodes
<1>2. p \in Subtree(fs, Output) /\ archive[k] = Header(p)
  BY <1>a, <1>1
<1>3. p \in DOMAIN fs /\ p \in Path /\ Below(Output, p) /\ fs[p] \in Node
  BY <1>2, <1>t, TreeParents DEF Subtree
<1>4. archive[k].node = fs[p] /\ Target(archive[k]) = InStage(p)
  BY <1>2, <1>3, HeaderAt DEF Target, InStage
<1>i. \A i \in 1..read : At(i) \in Path /\ Below(Output, At(i)) /\ At(i) \in Subtree(fs, Output)
  <2>1. 1..read \subseteq DOMAIN archive
    BY <1>1, <1>s
  <2> QED BY <1>a, <1>t, <2>1, TreeParents DEF Subtree
<1> HIDE DEF p
<1>5. ASSUME p # Output PROVE InStage(p) \notin DOMAIN tree
  <2>1. InStage(p) # <<>> /\ InStage(p) # Stage
    <3>1. Below(Stage, InStage(p)) /\ InStage(p) # Stage /\ InStage(p) \in Path
      BY <1>3, <1>5, StagePlaces
    <3>2. Len(Stage) <= Len(InStage(p))
      BY <3>1, Places, BelowPointwise DEF Path
    <3>3. Len(Stage) = 1
      BY DEF Stage
    <3>4. Len(InStage(p)) # 0
      BY <3>1, <3>2, <3>3 DEF Path
    <3> QED BY <3>1, <3>4 DEF Path
  <2>2. ASSUME NEW i \in 1..read PROVE InStage(p) # InStage(At(i))
    <3>1. At(i) # p
      BY <1>a, <1>1, <1>s, <2>2 DEF p
    <3> QED BY <1>3, <1>i, <3>1, StagePlaces
  <2> QED BY <1>s, <2>1, <2>2
<1>6. HasParents(tree, InStage(p))
  <2> SUFFICES ASSUME NEW r \in Path, Inside(r, InStage(p))
               PROVE  r \in DOMAIN tree /\ tree[r] = Dir
    BY <1>3, StagePlaces, ParentsAre
  <2>1. CASE r \in {<<>>, Stage}
    BY <1>s, <2>1
  <2>2. CASE \E q \in Path : Inside(Output, q) /\ Inside(q, p) /\ r = InStage(q)
    <3>1. PICK q \in Path : Inside(Output, q) /\ Inside(q, p) /\ r = InStage(q)
      BY <2>2
    <3>2. q \in DOMAIN fs /\ fs[q] = Dir /\ q \in Subtree(fs, Output) /\ q # Output
      BY <1>3, <1>t, <3>1, TreeParents DEF Subtree, Inside
    <3>3. PICK i \in DOMAIN archive : At(i) = q
      BY <1>a, <3>2
    <3>4. i \in 1..read
      BY <1>a, <1>1, <3>1, <3>3 DEF p
    <3>5. r \in DOMAIN tree /\ tree[r] = Unpacked(r, Dir)
      BY <1>s, <3>1, <3>2, <3>3, <3>4
    <3> QED BY <3>5 DEF Unpacked, Dir
  <2> QED BY <1>3, <2>1, <2>2, StageParents
<1> QED
  BY <1>1, <1>2, <1>3, <1>4, <1>5, <1>6 DEF p

\* The directories on the way to a path are there already.
LEMMA MakesOne ==
  ASSUME NEW t, NEW p \in Path, p # <<>>, HasParents(t, p), p \notin DOMAIN t, NEW node
  PROVE  /\ MkdirAll(t, p) = With(t, p, Dir)
         /\ With(MkdirAll(t, Front(p)), p, node) = With(t, p, node)
<1>1. Prefixes(p) \subseteq DOMAIN t \cup {p} /\ p \in Prefixes(p)
  BY PrefixesIn DEF HasParents, Path
<1>2. MkdirAll(t, p) = With(t, p, Dir)
  BY <1>1 DEF MkdirAll, With
<1> DEFINE m == MkdirAll(t, Front(p))
<1>3. ASSUME NEW q \in Prefixes(Front(p)) PROVE q \in DOMAIN t
  <2>1. Front(p) \in Path /\ Inside(Front(p), p)
    BY FrontOf DEF Path
  <2>2. q \in Path /\ Below(q, Front(p))
    BY <2>1, PrefixesIn, PrefixesAre DEF Path
  <2>3. Inside(q, p)
    BY <2>1, <2>2, BelowOrder DEF Inside, Path
  <2> QED BY <2>2, <2>3, ParentsAre
<1>4. DOMAIN m = DOMAIN t /\ \A q \in DOMAIN t : m[q] = t[q]
  BY <1>3 DEF MkdirAll
<1> HIDE DEF m
<1>5. With(m, p, node) = With(t, p, node)
  BY <1>4 DEF With
<1> QED
  BY <1>2, <1>5 DEF m

\* An entry of an archive that cmd/artifact packed is unpacked as it is, or is
\* a link that leaves the package.
LEMMA ExtractEntryStep ==
  ASSUME DeliveryInv, ExtractEntry
  PROVE  DeliveryInv'
<1> DEFINE p == At(read + 1)
           target == InStage(p)
           node == fs[p]
           refused == \/ RejectSymlinkParents(target) \/ Clash(target, node)
                      \/ LeavesPackage(target, node)
<1>a. phase = "packed" /\ read < Len(archive) /\ UNCHANGED <<buildVars, walk, files>>
  BY DEF ExtractEntry
<1>b. /\ read \in Nat /\ read + 1 \in DOMAIN archive
      /\ p \in Subtree(fs, Output) /\ p \in Path /\ Below(Output, p) /\ node \in Node
      /\ archive[read + 1].node = node /\ Target(archive[read + 1]) = target
      /\ p # Output => target \notin DOMAIN tree /\ HasParents(tree, target)
  BY <1>a, EntryMeets
<1>c. \/ /\ target = Stage
         /\ read' = read + 1
         /\ UNCHANGED <<phase, tree>>
      \/ /\ target # Stage /\ ~refused
         /\ tree' = IF node.kind = "dir" THEN MkdirAll(tree, target)
                    ELSE With(MkdirAll(tree, Front(target)), target, Unpacked(target, node))
         /\ read' = read + 1
         /\ UNCHANGED phase
      \/ /\ target # Stage /\ refused
         /\ phase' = "unpackable"
         /\ UNCHANGED <<tree, read>>
  BY <1>b DEF ExtractEntry
<1>d. target \in Path /\ target # <<>> /\ (target = Stage <=> p = Output)
  <2>1. target \in Path /\ Below(Stage, target) /\ (target = Stage <=> p = Output)
    BY <1>b, StagePlaces
  <2>2. Len(Stage) <= Len(target) /\ Len(Stage) = 1
    <3>1. Len(Stage) <= Len(target)
      BY <2>1, Places, BelowPointwise DEF Path
    <3> QED BY <3>1 DEF Stage
  <2> QED BY <2>1, <2>2
<1>s. /\ read \in 0..Len(archive) /\ tree[<<>>] = Dir /\ tree[Stage] = Dir
      /\ DOMAIN tree = {<<>>, Stage} \cup {InStage(At(i)) : i \in 1..read}
      /\ \A i \in 1..read :
            At(i) # Output => tree[InStage(At(i))] = Unpacked(InStage(At(i)), fs[At(i)])
      /\ IsTree(tree) /\ BuildInv
  BY <1>a DEF DeliveryInv, StageInv, Packing
<1>e. UNCHANGED <<fs, archive, todo, cfg>> /\ \A i \in Nat : At(i)' = At(i)
  BY <1>a DEF buildVars, At
<1>f. Len(archive) \in Nat /\ DOMAIN archive = 1..Len(archive)
  BY <1>s DEF BuildInv, BuildTypeInv
<1>g. phase' \in {"packed", "unpackable"} /\ BuildInv'
  <2>1. phase' \in {"packed", "unpackable"}
    BY <1>a, <1>c
  <2> QED BY <1>a, <1>s, <2>1, BuildFrame DEF Packing
<1>k. 1..(read + 1) = 1..read \cup {read + 1}
  BY <1>b
<1>1. CASE target = Stage
  <2>1. read' = read + 1 /\ UNCHANGED <<phase, tree>>
    BY <1>1, <1>c
  <2>2. p = Output
    BY <1>1, <1>d
  <2>3. DOMAIN tree = {<<>>, Stage} \cup {InStage(At(i)) : i \in 1..(read + 1)}
    BY <1>1, <1>s, <1>k
  <2>4. \A i \in 1..(read + 1) :
           At(i) # Output => tree[InStage(At(i))] = Unpacked(InStage(At(i)), fs[At(i)])
    BY <1>s, <1>k, <2>2
  <2> HIDE DEF p
  <2>5. /\ (DOMAIN tree = {<<>>, Stage} \cup {InStage(At(i)) : i \in 1..read})'
        /\ (\A i \in 1..read :
               At(i) # Output => tree[InStage(At(i))] = Unpacked(InStage(At(i)), fs[At(i)]))'
    BY <1>e, <2>1, <2>3, <2>4 DEF At, InStage, Unpacked, UnpackedLink, LinkTarget
  <2>6. StageInv'
    <3>1. tree'[<<>>] = Dir /\ tree'[Stage] = Dir
      BY <1>s, <2>1
    <3> QED BY <1>a, <1>b, <1>e, <1>f, <2>1, <2>5, <3>1 DEF StageInv, Packing
  <2> QED BY <1>g, <1>s, <2>1, <2>6 DEF DeliveryInv
<1>2. CASE target # Stage /\ ~refused
  <2> DEFINE put == Unpacked(target, node)
  <2>n. put = Dir \/ put.kind \in {"file", "link"}
    BY <1>b, NodeKinds DEF Unpacked, UnpackedLink, Link
  <2>1. read' = read + 1 /\ UNCHANGED phase /\ tree' = With(tree, target, put)
    <3>1. p # Output
      BY <1>2, <1>d
    <3>2. node.kind = "dir" => put = Dir
      BY <1>b, NodeKinds DEF Unpacked
    <3>3. /\ MkdirAll(tree, target) = With(tree, target, Dir)
          /\ With(MkdirAll(tree, Front(target)), target, put) = With(tree, target, put)
      BY <1>b, <1>d, <3>1, MakesOne
    <3> QED BY <1>2, <1>c, <3>2, <3>3
  <2>2. target \notin DOMAIN tree /\ HasParents(tree, target)
    BY <1>2, <1>b, <1>d
  <2> HIDE DEF put
  <2>3. IsTree(tree')
    BY <1>d, <1>s, <2>n, <2>1, <2>2, WithTree, OnlyDirsHold, ParentsAre
  <2>4. /\ DOMAIN tree' = DOMAIN tree \cup {target} /\ tree'[target] = put
        /\ \A q \in DOMAIN tree : tree'[q] = tree[q]
    BY <2>1, <2>2 DEF With
  <2>5. DOMAIN tree' = {<<>>, Stage} \cup {InStage(At(i)) : i \in 1..(read + 1)}
    BY <1>s, <1>k, <2>4
  <2>6. \A i \in 1..(read + 1) :
           At(i) # Output => tree'[InStage(At(i))] = Unpacked(InStage(At(i)), fs[At(i)])
    BY <1>s, <1>k, <2>4 DEF put
  <2>7. tree'[<<>>] = Dir /\ tree'[Stage] = Dir
    BY <1>s, <2>4
  <2> HIDE DEF p
  <2>8. /\ (DOMAIN tree = {<<>>, Stage} \cup {InStage(At(i)) : i \in 1..read})'
        /\ (\A i \in 1..read :
               At(i) # Output => tree[InStage(At(i))] = Unpacked(InStage(At(i)), fs[At(i)]))'
    BY <1>e, <2>1, <2>5, <2>6 DEF At, InStage, Unpacked, UnpackedLink, LinkTarget
  <2>9. StageInv'
    BY <1>a, <1>b, <1>e, <1>f, <1>s, <2>1, <2>7, <2>8 DEF StageInv, Packing
  <2> QED BY <1>g, <2>3, <2>9 DEF DeliveryInv
<1>3. CASE target # Stage /\ refused
  <2>1. phase' = "unpackable" /\ UNCHANGED <<tree, read>>
    BY <1>3, <1>c
  <2>2. p # Output /\ target \notin DOMAIN tree /\ HasParents(tree, target)
    BY <1>3, <1>b, <1>d
  <2>3. ~Clash(target, node)
    BY <2>2 DEF Clash
  <2>4. ~RejectSymlinkParents(target)
    <3>1. ASSUME NEW q \in Prefixes(Front(target)) PROVE q \in Path /\ tree[q] = Dir
      <4>1. Front(target) \in Path /\ Inside(Front(target), target)
        BY <1>d, FrontOf DEF Path
      <4>2. q \in Path /\ Below(q, Front(target))
        BY <4>1, PrefixesIn, PrefixesAre DEF Path
      <4>3. Inside(q, target)
        BY <1>d, <4>1, <4>2, BelowOrder DEF Inside, Path
      <4> QED BY <1>d, <2>2, <4>2, <4>3, ParentsAre
    <3> QED BY <3>1 DEF RejectSymlinkParents, Dir
  <2>5. LeavesPackage(target, node) /\ p \in Packed
    BY <1>3, <1>b, <2>2, <2>3, <2>4 DEF Packed
  <2>6. \E q \in Packed : LeavesPackage(InStage(q), fs[q])
    BY <2>5
  <2> HIDE DEF p
  <2>7. StageInv'
    BY <1>a, <1>b, <1>e, <1>f, <1>s, <2>1, <2>6
       DEF StageInv, Packing, At, InStage, Packed, LeavesPackage, LinkTarget
  <2> QED BY <1>g, <1>s, <2>1, <2>7 DEF DeliveryInv
<1> QED
  BY <1>1, <1>2, <1>3, <1>c

\* Nothing else touches the stage.
LEMMA StageFrame ==
  ASSUME DeliveryInv, phase \in Packing \ {"pack"}, phase' \in Packing \ {"pack", "unpackable"},
         phase' # "packed" => read = Len(archive), UNCHANGED <<buildVars, tree, read>>
  PROVE  DeliveryInv'
<1>1. UNCHANGED <<fs, archive, tree, read>>
  BY DEF buildVars
<1>2. StageInv'
  BY <1>1 DEF DeliveryInv, StageInv, At, InStage
<1> QED
  BY <1>1, <1>2, BuildFrame DEF DeliveryInv

\* All is unpacked.
LEMMA EndExtractStep ==
  ASSUME DeliveryInv, EndExtract
  PROVE  DeliveryInv'
<1>1. /\ phase = "packed" /\ phase' \in {"extracted", "unlinkable"} /\ read = Len(archive)
      /\ UNCHANGED <<buildVars, tree, read>>
  BY DEF EndExtract
<1> QED
  BY <1>1, StageFrame DEF Packing

\* A directory is walked.
LEMMA CollectPkgFilesStep ==
  ASSUME DeliveryInv, CollectPkgFiles
  PROVE  DeliveryInv'
<1>1. phase = "extracted" /\ phase' \in {"extracted", "unlinkable"}
      /\ UNCHANGED <<buildVars, tree, read>>
  BY DEF CollectPkgFiles, WalkDir
<1>2. read = Len(archive)
  BY <1>1 DEF DeliveryInv, StageInv, Packing
<1> QED
  BY <1>1, <1>2, StageFrame DEF Packing

\* All is listed.
LEMMA EndCollectStep ==
  ASSUME DeliveryInv, EndCollect
  PROVE  DeliveryInv'
<1>1. phase = "extracted" /\ phase' = "linked" /\ UNCHANGED <<buildVars, tree, read>>
  BY DEF EndCollect
<1>2. read = Len(archive)
  BY <1>1 DEF DeliveryInv, StageInv, Packing
<1> QED
  BY <1>1, <1>2, StageFrame DEF Packing

\* Every step keeps the invariant of the whole.
LEMMA DeliveryStep ==
  ASSUME DeliveryInv, [DeliveryNext]_deliveryVars
  PROVE  DeliveryInv'
<1>1. CASE UNCHANGED deliveryVars
  <2>1. UNCHANGED <<cfg, fs, phase, todo, archive, tree, read>>
    BY <1>1 DEF deliveryVars
  <2>2. BuildTypeInv' /\ CopyInv' /\ ListInv' /\ OutputInv' /\ CleanInv'
    BY <2>1 DEF DeliveryInv, BuildInv, BuildTypeInv, CopyInv, ListInv, OutputInv, CleanInv,
       OfKind, IsFreeOfStore
  <2>3. ArchiveInv'
    BY <2>1 DEF DeliveryInv, BuildInv, ArchiveInv, At, Header
  <2>4. StageInv'
    BY <2>1 DEF DeliveryInv, StageInv, At, InStage, Packed, LeavesPackage, LinkTarget
  <2> QED BY <2>1, <2>2, <2>3, <2>4 DEF DeliveryInv, BuildInv
<1> QED
  BY <1>1, BuildDeliveryStep, ExtractEntryStep, EndExtractStep, CollectPkgFilesStep,
     EndCollectStep DEF DeliveryNext

\* So it always holds.
LEMMA DeliveryIsInvariant == DeliverySpec => []DeliveryInv
BY DeliveryInitInv, DeliveryStep, PTL DEF DeliverySpec

-----------------------------------------------------------------------------
(* What it gives. *)

\* Type correctness (Artifact, Delivery): from any package, every step of the
\* build and of the installation leaves both file systems trees of what they
\* may hold, with all that a path goes through a directory.  The lists that
\* regularFiles makes before a pass, and the walks of removeDanglingSymlinks
\* and createArchive (normalize.go:41-101, archive.go:41-102), stay true:
\* whatever the pass has removed, renamed and replaced since, a path of the
\* list is still there, of the kind it was listed for, when its turn comes.
THEOREM DeliveryTypeCorrect == DeliverySpec => []DeliveryTypeOK
<1>1. ASSUME DeliveryInv PROVE DeliveryTypeOK
  <2>1. Len(archive) \in Nat /\ BuildTypeInv /\ IsTree(tree)
    BY <1>1 DEF DeliveryInv, BuildInv, BuildTypeInv
  <2>2. read \in 0..Len(archive)
    BY <1>1, <2>1 DEF DeliveryInv, StageInv
  <2>3. ListInv
    BY <1>1 DEF DeliveryInv, BuildInv
  <2>4. /\ phase \in {"prepare", "normalize"} =>
             \A p \in todo : Below(Output, p) /\ IsKind(fs, p, "file")
        /\ phase = "links" =>
             \A p \in todo : Below(Output, p) /\ IsKind(fs, p, "link")
        /\ phase = "pack" => todo \subseteq Subtree(fs, Output)
    BY <2>3 DEF ListInv, OfKind, Subtree, IsKind
  <2> QED BY <2>1, <2>2, <2>4 DEF BuildTypeInv, DeliveryTypeOK
<1> QED
  BY <1>1, DeliveryIsInvariant, PTL

\* NoStoreInTextOrHeaders, for every package, platform and set of openssl names:
\* no text and no ELF file that createArchive packs is one that normalizeFile
\* has not cleaned, and no ELF or Mach-O file of the platform one whose headers
\* it has not validated, or that was changed since, or is packed under another
\* path.
THEOREM TextAndHeadersAreClean == DeliverySpec => []NoStoreInTextOrHeaders
<1>1. ASSUME DeliveryInv PROVE NoStoreInTextOrHeaders
  <2> SUFFICES ASSUME NEW i \in DOMAIN archive, archive[i].node.kind = "file"
               PROVE  IsFreeOfStore(At(i), archive[i].node.data)
    BY DEF NoStoreInTextOrHeaders, At
  <2>1. phase \in Packing
    <3>1. DOMAIN <<>> = {}
      OBVIOUS
    <3> QED BY <1>1, <3>1 DEF DeliveryInv, BuildInv, ArchiveInv
  <2>2. At(i) \in Subtree(fs, Output) /\ archive[i] = Header(At(i))
    BY <1>1, <2>1 DEF DeliveryInv, BuildInv, ArchiveInv
  <2> DEFINE p == At(i)
  <2>3. archive[i].node = fs[p]
    BY <2>2 DEF Header
  <2> HIDE DEF p
  <2>4. p \in OfKind("file")
    BY <2>2, <2>3 DEF OfKind, p
  <2>5. IsFreeOfStore(p, fs[p].data)
    BY <1>1, <2>1, <2>4 DEF DeliveryInv, BuildInv, CleanInv
  <2> QED BY <2>3, <2>5 DEF p
<1> QED
  BY <1>1, DeliveryIsInvariant, PTL

\* What the archive holds when all of it was packed.
LEMMA AllIsPacked ==
  ASSUME DeliveryInv, phase \in Packing \ {"pack"}
  PROVE  /\ \A i \in DOMAIN archive : At(i) \in Subtree(fs, Output)
         /\ \A p \in Subtree(fs, Output) : \E i \in DOMAIN archive : At(i) = p
         /\ DOMAIN archive = 1..Len(archive) /\ Len(archive) \in Nat
<1>1. todo = {}
  BY PhaseNames DEF DeliveryInv, BuildInv, ListInv, Packing
<1> QED
  BY <1>1 DEF DeliveryInv, BuildInv, BuildTypeInv, ArchiveInv

\* UnpackedAsPacked, for every package and whatever links it holds: an archive
\* that createArchive wrote is refused by extractTarGz for nothing but a
\* relative link that leaves the package by name, and otherwise unpacks to the
\* tree that was packed.
THEOREM ArchiveUnpacksAsPacked == DeliverySpec => []UnpackedAsPacked
<1>1. ASSUME DeliveryInv, phase \in {"extracted", "linked", "unlinkable"}
      PROVE  /\ Subtree(tree, Stage) = {InStage(p) : p \in Subtree(fs, Output)}
             /\ \A p \in Packed : tree[InStage(p)] = Unpacked(InStage(p), fs[p])
  <2>a. /\ \A i \in DOMAIN archive : At(i) \in Subtree(fs, Output)
        /\ \A p \in Subtree(fs, Output) : \E i \in DOMAIN archive : At(i) = p
        /\ DOMAIN archive = 1..Len(archive)
    BY <1>1, AllIsPacked DEF Packing
  <2>b. /\ DOMAIN tree = {<<>>, Stage} \cup {InStage(At(i)) : i \in DOMAIN archive}
        /\ \A i \in DOMAIN archive :
              At(i) # Output => tree[InStage(At(i))] = Unpacked(InStage(At(i)), fs[At(i)])
    BY <1>1, <2>a DEF DeliveryInv, StageInv, Packing
  <2>c. /\ \A p \in Subtree(fs, Output) : p \in Path /\ Below(Output, p)
        /\ Output \in Subtree(fs, Output)
    <3>1. /\ IsTree(fs) /\ Output \in DOMAIN fs
      BY <1>1, PhaseNames DEF DeliveryInv, BuildInv, OutputInv, OutputIs, IsTreeOfNodes
    <3> QED BY <3>1, Places, TreeParents, BelowOrder DEF Subtree, Path
  <2>d. \A p \in Subtree(fs, Output) : Below(Stage, InStage(p))
    BY <2>c, StagePlaces
  <2>e. ~Below(Stage, <<>>) /\ Below(Stage, Stage) /\ InStage(Output) = Stage
    <3> DEFINE e == <<>>
    <3>1. Len(Stage) = 1 /\ Len(e) = 0 /\ e \in Path
      BY DEF Stage, Path
    <3> HIDE DEF e
    <3>2. Below(Stage, e) => Len(Stage) <= Len(e)
      BY <3>1, Places, BelowPointwise DEF Path
    <3> QED BY <3>1, <3>2, <2>c, Places, StagePlaces, BelowOrder DEF Path, e
  <2>1. Subtree(tree, Stage) = {InStage(p) : p \in Subtree(fs, Output)}
    <3>1. ASSUME NEW q \in Subtree(tree, Stage)
          PROVE  \E p \in Subtree(fs, Output) : q = InStage(p)
      BY <2>a, <2>b, <2>c, <2>e DEF Subtree
    <3>2. ASSUME NEW p \in Subtree(fs, Output) PROVE InStage(p) \in Subtree(tree, Stage)
      BY <2>a, <2>b, <2>d DEF Subtree
    <3> QED BY <3>1, <3>2
  <2>2. ASSUME NEW p \in Packed PROVE tree[InStage(p)] = Unpacked(InStage(p), fs[p])
    <3>1. p \in Subtree(fs, Output) /\ p # Output
      BY DEF Packed
    <3>2. PICK i \in DOMAIN archive : At(i) = p
      BY <2>a, <3>1
    <3> QED BY <2>b, <3>1, <3>2
  <2> QED BY <2>1, <2>2
<1>2. ASSUME DeliveryInv, phase = "unpackable"
      PROVE  \E p \in Packed : /\ fs[p].kind = "link" /\ ~fs[p].abs
                              /\ ~Inside(Stage, LinkTarget(InStage(p), fs[p]))
  <2>1. PICK p \in Packed : LeavesPackage(InStage(p), fs[p])
    BY <1>2 DEF DeliveryInv, StageInv, Packing
  <2>2. \A q \in Subtree(fs, Output) : fs[q].kind = "link" => ~fs[q].abs
    BY <1>2 DEF DeliveryInv, BuildInv, OutputInv, OutputIs
  <2> QED BY <2>1, <2>2 DEF Packed, LeavesPackage
<1>3. ASSUME DeliveryInv PROVE UnpackedAsPacked
  BY <1>1, <1>2, <1>3 DEF UnpackedAsPacked
<1> QED
  BY <1>3, DeliveryIsInvariant, PTL

-----------------------------------------------------------------------------
(* What the copy may not leave out. *)

\* The files and directories of the package itself: what is there without a
\* link being followed.
Plain == {p \in Subtree(fs, Source) : p # Source /\ fs[p].kind # "link"}
CopiedTo(t, p) == InOutput(p) \in DOMAIN t /\ t[InOutput(p)] = t[p]

\* Each of them is copied, or an entry that is left leads to it and goes to
\* the place it has in the output.
FilesInv ==
  /\ ~Below(Output, Source)
  /\ phase = "copy" =>
        \A p \in Plain :
           \/ CopiedTo(fs, p)
           \/ \E e \in todo : /\ e.src \in Path /\ Below(Source, e.src) /\ Below(e.src, p)
                              /\ e.dst = InOutput(e.src)

\* A path of one name more, moved below a root.
LEMMA ConcatAppend ==
  ASSUME NEW S, NEW r \in Seq(S), NEW p \in Seq(S), NEW n \in S
  PROVE  r \o Append(p, n) = Append(r \o p, n)
<1> DEFINE a == Append(p, n)
           c == r \o p
           x == r \o a
           y == Append(c, n)
<1>1. /\ a \in Seq(S) /\ Len(a) = Len(p) + 1 /\ a[Len(p) + 1] = n
      /\ \A i \in 1..Len(p) : a[i] = p[i]
  OBVIOUS
<1>2. /\ c \in Seq(S) /\ Len(c) = Len(r) + Len(p)
      /\ \A i \in 1..Len(r) : c[i] = r[i]
      /\ \A i \in 1..Len(p) : c[Len(r) + i] = p[i]
  OBVIOUS
<1> HIDE DEF a, c
<1>3. /\ x \in Seq(S) /\ Len(x) = Len(r) + Len(a)
      /\ \A i \in 1..Len(r) : x[i] = r[i]
      /\ \A i \in 1..Len(a) : x[Len(r) + i] = a[i]
  BY <1>1
<1>4. /\ y \in Seq(S) /\ Len(y) = Len(c) + 1 /\ y[Len(c) + 1] = n
      /\ \A i \in 1..Len(c) : y[i] = c[i]
  BY <1>2
<1> HIDE DEF x, y
<1>5. Len(x) = Len(y)
  BY <1>1, <1>2, <1>3, <1>4
<1>6. ASSUME NEW i \in 1..Len(x) PROVE x[i] = y[i]
  <2>1. CASE i \in 1..Len(r)
    BY <1>2, <1>3, <1>4, <2>1
  <2>2. CASE \E j \in 1..Len(p) : i = Len(r) + j
    <3>1. PICK j \in 1..Len(p) : i = Len(r) + j
      BY <2>2
    <3>2. j \in 1..Len(a) /\ i \in 1..Len(c)
      BY <1>1, <1>2, <3>1
    <3> QED BY <1>1, <1>2, <1>3, <1>4, <3>1, <3>2
  <2>3. CASE i = Len(r) + Len(a)
    <3>1. Len(a) \in 1..Len(a) /\ i = Len(c) + 1
      BY <1>1, <1>2, <2>3
    <3> QED BY <1>1, <1>3, <1>4, <2>3, <3>1
  <2>4. i \in 1..Len(r) \/ i = Len(r) + Len(a) \/ i - Len(r) \in 1..Len(p)
    BY <1>1, <1>3
  <2>5. i - Len(r) \in 1..Len(p) => i = Len(r) + (i - Len(r))
    BY <1>3
  <2> QED BY <2>1, <2>2, <2>3, <2>4, <2>5
<1>7. x = y
  <2>1. x = [i \in 1..Len(x) |-> x[i]] /\ y = [i \in 1..Len(y) |-> y[i]]
    BY <1>3, <1>4
  <2> QED BY <1>5, <1>6, <2>1
<1> QED
  BY <1>7 DEF x, y, a, c

\* The place of an entry is the entry of the place.
LEMMA InOutputAppend ==
  ASSUME NEW r \in Path, Below(Source, r), NEW n \in Name
  PROVE  /\ InOutput(Append(r, n)) = Append(InOutput(r), n)
         /\ Append(r, n) \in Path /\ Below(Source, Append(r, n))
<1> DEFINE u == Under(Source, r)
<1>1. u \in Path /\ Source \o u = r /\ Source \in Path /\ Output \in Path
  BY Places, UnderRoot DEF Path
<1> HIDE DEF u
<1>2. /\ Source \o Append(u, n) = Append(r, n) /\ Output \o Append(u, n) = Append(Output \o u, n)
      /\ Append(u, n) \in Path
  <2>1. Source \o Append(u, n) = Append(Source \o u, n)
    BY <1>1, ConcatAppend DEF Path
  <2>2. Output \o Append(u, n) = Append(Output \o u, n)
    BY <1>1, ConcatAppend DEF Path
  <2>3. Append(u, n) \in Path
    BY <1>1 DEF Path
  <2> QED BY <1>1, <2>1, <2>2, <2>3
<1>3. Under(Source, Append(r, n)) = Append(u, n)
  BY <1>1, <1>2, ConcatBelow DEF Path
<1>4. Append(r, n) \in Path /\ Below(Source, Append(r, n))
  <2>1. Append(r, n) \in Path /\ Below(r, Append(r, n))
    BY BelowAppend DEF Inside, Path
  <2> DEFINE a == Append(r, n)
  <2> HIDE DEF a
  <2>2. Below(Source, a)
    BY <1>1, <2>1, BelowOrder DEF Path, a
  <2> QED BY <2>1, <2>2 DEF a
<1> QED
  BY <1>2, <1>3, <1>4 DEF InOutput, u

\* The place of the package is the output.
LEMMA InOutputSource == InOutput(Source) = Output
<1> DEFINE u == Under(Source, Source)
<1>1. u \in Path /\ Source \o u = Source /\ Source \in Path /\ Output \in Path
  BY Places, UnderRoot, BelowOrder DEF Path
<1> HIDE DEF u
<1>2. Len(Source) = Len(Source) + Len(u)
  <2>1. Len(Source \o u) = Len(Source) + Len(u)
    BY <1>1 DEF Path
  <2> QED BY <1>1, <2>1
<1>3. u = <<>>
  BY <1>1, <1>2 DEF Path
<1> QED
  BY <1>1, <1>3 DEF InOutput, u, Path

\* The entry of a directory that leads on to a path below it.
LEMMA ChildTowards ==
  ASSUME NEW r \in Path, NEW p \in Path, Inside(r, p)
  PROVE  \E n \in Name : Below(Append(r, n), p)
<1> DEFINE n == p[Len(r) + 1]
           a == Append(r, n)
<1>1. Len(r) < Len(p) /\ \A i \in 1..Len(r) : r[i] = p[i]
  BY InsideIsLonger, BelowPointwise DEF Inside, Path
<1>2. n \in Name
  BY <1>1 DEF Path
<1>3. /\ a \in Path /\ Len(a) = Len(r) + 1 /\ a[Len(r) + 1] = n
      /\ \A i \in 1..Len(r) : a[i] = r[i]
  BY <1>2 DEF Path
<1> HIDE DEF a
<1>4. Len(a) <= Len(p) /\ \A i \in 1..Len(a) : a[i] = p[i]
  BY <1>1, <1>3 DEF Path
<1>5. Below(a, p)
  BY <1>3, <1>4, BelowPointwise DEF Path
<1> QED
  BY <1>2, <1>5 DEF a

\* What is written into the output changes nothing of the package.
LEMMA SourceStays ==
  ASSUME NEW t, IsTree(t), ~Below(Output, Source), NEW dst \in Path, Below(Output, dst),
         dst \notin DOMAIN t,
         NEW u, DOMAIN u = DOMAIN t \cup {dst}, \A q \in DOMAIN t : u[q] = t[q]
  PROVE  /\ Subtree(u, Source) = Subtree(t, Source)
         /\ \A p \in Subtree(t, Source) : u[p] = t[p] /\ (CopiedTo(t, p) => CopiedTo(u, p))
<1>1. ~Below(Source, dst)
  BY Places, TreesAssumption, BelowOrder DEF Path
<1> QED
  BY <1>1 DEF Subtree, CopiedTo

\* The first list leads to every path of the package.
LEMMA FilesBegin ==
  ASSUME BuildInv, FilesInv, Begin
  PROVE  FilesInv'
<1>1. /\ phase = "begin" /\ phase' = "copy"
      /\ fs' = MkdirAll(fs, Output) /\ todo' = Entries(fs', Source, Output, {})
  BY DEF Begin
<1>2. /\ IsTree(fs) /\ HasParents(fs, Output) /\ Output \in Path /\ Output \notin DOMAIN fs
      /\ Output # <<>>
  BY <1>1, Places, BelowOrder DEF BuildInv, BuildTypeInv, OutputInv, Subtree, Path, IsTreeOfNodes
<1>3. fs' = With(fs, Output, Dir)
  BY <1>1, <1>2, MakesOne
<1>4. DOMAIN fs' = DOMAIN fs \cup {Output} /\ \A q \in DOMAIN fs : fs'[q] = fs[q]
  BY <1>2, <1>3 DEF With
<1>5. Subtree(fs', Source) = Subtree(fs, Source) /\ \A p \in Subtree(fs, Source) : fs'[p] = fs[p]
  <2>1. Below(Output, Output)
    BY <1>2, BelowOrder DEF Path
  <2> QED BY <1>2, <1>4, <2>1, SourceStays DEF FilesInv
<1>6. ASSUME NEW p \in Subtree(fs, Source), p # Source
      PROVE  \E e \in todo' : /\ e.src \in Path /\ Below(Source, e.src) /\ Below(e.src, p)
                              /\ e.dst = InOutput(e.src)
  <2>1. /\ p \in DOMAIN fs /\ p \in Path /\ Inside(Source, p) /\ Source \in Path
        /\ \A q \in Path : Inside(q, p) => q \in DOMAIN fs
    BY <1>2, <1>6, Places, TreeParents DEF Subtree, Inside
  <2>2. PICK n \in Name : Below(Append(Source, n), p)
    BY <2>1, ChildTowards
  <2> DEFINE a == Append(Source, n)
             e == [src |-> a, dst |-> Append(Output, n), active |-> {}]
  <2>3. a \in Path /\ Below(Source, a) /\ InOutput(a) = Append(Output, n)
    BY <2>1, InOutputAppend, InOutputSource, BelowOrder DEF Path
  <2>4. a \in DOMAIN fs'
    BY <1>4, <2>1, <2>2, <2>3 DEF Inside
  <2>5. e \in todo'
    BY <1>1, <2>4 DEF Entries, ReadDir
  <2> HIDE DEF a
  <2>6. e.src = a /\ e.dst = InOutput(a)
    BY <2>3
  <2> HIDE DEF e
  <2> QED BY <2>2, <2>3, <2>5, <2>6 DEF a
<1>7. \A p \in Plain' : p \in Subtree(fs, Source) /\ p # Source
  BY <1>5 DEF Plain
<1> QED
  BY <1>1, <1>6, <1>7 DEF FilesInv

\* One entry is copied: what another leads to is left to it, and what this one
\* leads to is there, or below one of the entries that it makes.
LEMMA FilesCopyNode ==
  ASSUME BuildInv, FilesInv, CopyNode
  PROVE  FilesInv'
<1>1. PICK e \in todo : CopyFile(e) \/ CopyDir(e) \/ CopyLink(e)
  BY DEF CopyNode
<1>2. /\ phase = "copy" /\ OutputIs(fs) /\ IsTree(fs) /\ \A q \in DOMAIN fs : fs[q] \in Node
      /\ e.dst \in Path /\ Inside(Output, e.dst)
      /\ e.dst \notin DOMAIN fs /\ HasParents(fs, e.dst) /\ e.dst # <<>>
  BY Places DEF CopyNode, BuildInv, OutputInv, OutputIs, IsTreeOfNodes, CopyInv
<1>3. CASE Fail
  BY <1>3 DEF Fail, FilesInv
<1>4. ASSUME ~Fail
      PROVE  /\ phase' = "copy"
             /\ todo \ {e} \subseteq todo'
             /\ \/ UNCHANGED fs
                \/ \E node \in {Dir, fs[e.src]} : fs' = With(fs, e.dst, node)
  <2>1. MkdirAll(fs, e.dst) = With(fs, e.dst, Dir)
    BY <1>2, MakesOne
  <2> QED BY <1>1, <1>2, <1>4, <2>1 DEF CopyFile, CopyDir, CopyLink, Did
<1>5. ASSUME ~Fail
      PROVE  /\ Subtree(fs', Source) = Subtree(fs, Source)
             /\ \A p \in Subtree(fs, Source) :
                   fs'[p] = fs[p] /\ (CopiedTo(fs, p) => CopiedTo(fs', p))
  <2>1. CASE UNCHANGED fs
    BY <2>1
  <2>2. CASE \E node \in {Dir, fs[e.src]} : fs' = With(fs, e.dst, node)
    <3>1. DOMAIN fs' = DOMAIN fs \cup {e.dst} /\ \A q \in DOMAIN fs : fs'[q] = fs[q]
      BY <1>2, <2>2 DEF With
    <3> QED BY <1>2, <3>1, SourceStays DEF FilesInv, Inside
  <2> QED BY <1>4, <1>5, <2>1, <2>2
<1>6. ASSUME ~Fail, NEW p \in Plain, e.src \in Path, Below(Source, e.src), Below(e.src, p),
             e.dst = InOutput(e.src)
      PROVE  \/ CopiedTo(fs', p)
             \/ \E d \in todo' : /\ d.src \in Path /\ Below(Source, d.src) /\ Below(d.src, p)
                                /\ d.dst = InOutput(d.src)
  <2>p. /\ p \in DOMAIN fs /\ p \in Path /\ fs[p].kind # "link" /\ fs'[p] = fs[p]
        /\ \A q \in Path : Inside(q, p) => q \in DOMAIN fs /\ fs[q] = Dir
    BY <1>2, <1>5, <1>6, TreeParents DEF Plain, Subtree
  <2>1. CASE e.src = p
    <3>1. ~CopyLink(e)
      BY <2>1, <2>p DEF CopyLink, IsKind
    <3>2. CASE CopyFile(e)
      <4>1. fs' = With(fs, e.dst, fs[p])
        BY <2>1, <3>2 DEF CopyFile, Did
      <4>2. e.dst \in DOMAIN fs' /\ fs'[e.dst] = fs[p]
        BY <4>1 DEF With
      <4> QED BY <1>6, <2>1, <2>p, <4>2 DEF CopiedTo
    <3>3. CASE CopyDir(e)
      <4>1. fs' = With(fs, e.dst, Dir) /\ fs[p] = Dir
        <5>1. fs' = MkdirAll(fs, e.dst) /\ fs[p].kind = "dir"
          BY <1>6, <2>1, <3>3 DEF CopyDir, Did, IsKind
        <5>2. fs[p] = Dir
          BY <1>2, <2>p, <5>1, NodeKinds
        <5> QED BY <1>2, <5>1, <5>2, MakesOne
      <4>2. e.dst \in DOMAIN fs' /\ fs'[e.dst] = fs[p]
        BY <4>1 DEF With
      <4> QED BY <1>6, <2>1, <2>p, <4>2 DEF CopiedTo
    <3> QED BY <1>1, <3>1, <3>2, <3>3
  <2>2. CASE e.src # p
    <3>1. Inside(e.src, p) /\ fs[e.src] = Dir
      BY <1>6, <2>2, <2>p DEF Inside
    <3>2. CopyDir(e)
      BY <1>1, <3>1 DEF CopyFile, CopyLink, IsKind, Dir
    <3> DEFINE active == e.active \cup {e.src}
    <3>3. /\ fs' = MkdirAll(fs, e.dst)
          /\ Entries(fs', e.src, e.dst, active) \subseteq todo'
      BY <1>6, <3>2 DEF CopyDir, Did
    <3>4. DOMAIN fs \subseteq DOMAIN fs'
      BY <3>3 DEF MkdirAll
    <3>5. PICK n \in Name : Below(Append(e.src, n), p)
      BY <1>6, <2>p, <3>1, ChildTowards
    <3> DEFINE a == Append(e.src, n)
               d == [src |-> a, dst |-> Append(e.dst, n), active |-> active]
    <3>6. a \in Path /\ Below(Source, a) /\ InOutput(a) = Append(e.dst, n)
      BY <1>6, InOutputAppend
    <3>7. a \in DOMAIN fs'
      BY <2>p, <3>4, <3>5, <3>6 DEF Inside
    <3>8. d \in todo'
      BY <3>3, <3>7 DEF Entries, ReadDir
    <3> HIDE DEF a
    <3>9. d.src = a /\ d.dst = InOutput(a)
      BY <3>6
    <3> HIDE DEF d
    <3> QED BY <3>5, <3>6, <3>8, <3>9 DEF a
  <2> QED BY <2>1, <2>2
<1>7. ASSUME ~Fail, NEW p \in Plain
      PROVE  \/ CopiedTo(fs', p)
             \/ \E d \in todo' : /\ d.src \in Path /\ Below(Source, d.src) /\ Below(d.src, p)
                                /\ d.dst = InOutput(d.src)
  <2>1. CASE CopiedTo(fs, p)
    BY <1>5, <1>7, <2>1 DEF Plain
  <2>2. CASE ~CopiedTo(fs, p)
    <3>1. PICK d \in todo : /\ d.src \in Path /\ Below(Source, d.src) /\ Below(d.src, p)
                            /\ d.dst = InOutput(d.src)
      BY <1>2, <2>2 DEF FilesInv
    <3> QED BY <1>4, <1>6, <1>7, <3>1
  <2> QED BY <2>1, <2>2
<1>8. ~Fail => Plain' = Plain
  BY <1>5 DEF Plain
<1> QED
  BY <1>3, <1>4, <1>7, <1>8 DEF FilesInv

\* Only the copy disturbs it.
LEMMA FilesStep ==
  ASSUME BuildInv, FilesInv, [DeliveryNext]_deliveryVars
  PROVE  FilesInv'
<1>1. CASE Begin \/ CopyNode
  BY <1>1, FilesBegin, FilesCopyNode
<1>2. ASSUME phase' # "copy" PROVE FilesInv'
  BY <1>2 DEF FilesInv
<1>3. CASE UNCHANGED deliveryVars
  BY <1>3 DEF deliveryVars, FilesInv, Plain
<1>4. CASE RemoveUnwanted \/ PrepareFile \/ RemoveDanglingSymlink \/ NormalizeFile \/ Pack
  <2>1. phase # "copy" /\ (UNCHANGED phase \/ Fail)
    BY <1>4 DEF RemoveUnwanted, PrepareFile, DiscardFile, Unwrap, RemoveDanglingSymlink,
       NormalizeFile, NormalizeELF, NormalizeMachO, RewriteText, LeaveFile, Write, Pack, Did
  <2>2. phase' # "copy"
    BY <2>1 DEF Fail
  <2> QED BY <1>2, <2>2
<1>5. CASE EndPass
  <2>1. phase' # "copy"
    BY <1>5, PhaseNames DEF EndPass, NextPass, Passes
  <2> QED BY <1>2, <2>1
<1>6. CASE ExtractEntry \/ EndExtract \/ CollectPkgFiles \/ EndCollect
  <2>1. phase' # "copy"
    BY <1>6 DEF ExtractEntry, EndExtract, CollectPkgFiles, WalkDir, EndCollect
  <2> QED BY <1>2, <2>1
<1> QED
  BY <1>1, <1>3, <1>4, <1>5, <1>6 DEF DeliveryNext, Build, Next

\* The copy leaves out no file of the package.
CopyIsComplete ==
  [][phase = "copy" /\ phase' = "remove" => \A p \in Plain : CopiedTo(fs, p)]_deliveryVars

\* copyTree (normalize.go:252-349): when it ends, every directory and every
\* file of the package is in the output, at its own path and as it is in the
\* package, whatever links, cycles of links and links out of the package are
\* beside it.
THEOREM EveryFileIsCopied == DeliverySpec => CopyIsComplete
<1>1. DeliveryInit => FilesInv
  <2>1. ASSUME DeliveryInit PROVE ~Below(Output, Source)
    <3>1. Source \in DOMAIN fs /\ Subtree(fs, Output) = {}
      BY <2>1, TreesAssumption DEF DeliveryInit, Init, IsKind
    <3> QED BY <3>1 DEF Subtree
  <2> QED BY <2>1 DEF DeliveryInit, Init, FilesInv
<1>2. DeliveryInv /\ FilesInv /\ [DeliveryNext]_deliveryVars => FilesInv'
  BY FilesStep DEF DeliveryInv
<1>3. DeliveryInv /\ FilesInv /\ [DeliveryNext]_deliveryVars =>
        (phase = "copy" /\ phase' = "remove" => \A p \in Plain : CopiedTo(fs, p))
  <2> SUFFICES ASSUME FilesInv, [DeliveryNext]_deliveryVars, phase = "copy", phase' = "remove"
               PROVE  \A p \in Plain : CopiedTo(fs, p)
    OBVIOUS
  <2>1. ~CopyNode
    BY DEF CopyNode, CopyFile, CopyDir, CopyLink, Did, Fail
  <2>2. EndPass
    BY <2>1 DEF DeliveryNext, Build, Next, Begin, RemoveUnwanted, PrepareFile,
       RemoveDanglingSymlink, NormalizeFile, Pack, ExtractEntry, EndExtract,
       CollectPkgFiles, EndCollect, deliveryVars
  <2>3. todo = {}
    BY <2>2 DEF EndPass
  <2> QED BY <2>3 DEF FilesInv
<1> QED
  BY <1>1, <1>2, <1>3, DeliveryIsInvariant, PTL DEF DeliverySpec, CopyIsComplete

\* The pass that unwraps programs fails only where a directory is in the way.
PrepareFailsForADirectory ==
  [][phase = "prepare" /\ phase' = "failed" =>
       \E p \in todo : Last(p) \in DOMAIN Wrapped /\ InTheWay(Public(p))]_deliveryVars

\* So prepareFile (normalize.go:103-123) fails for one reason only: a directory
\* with something in it has the public name of a hidden program.
THEOREM PrepareFindsItsFiles == DeliverySpec => PrepareFailsForADirectory
<1>1. DeliveryInv /\ [DeliveryNext]_deliveryVars =>
        (phase = "prepare" /\ phase' = "failed" =>
           \E p \in todo : Last(p) \in DOMAIN Wrapped /\ InTheWay(Public(p)))
  <2> SUFFICES ASSUME DeliveryInv, [DeliveryNext]_deliveryVars, phase = "prepare",
                      phase' = "failed"
               PROVE  \E p \in todo : Last(p) \in DOMAIN Wrapped /\ InTheWay(Public(p))
    OBVIOUS
  <2>1. ~EndPass
    BY PhaseNames DEF EndPass, NextPass
  <2>2. PrepareFile
    BY <2>1 DEF DeliveryNext, Build, Next, Begin, CopyNode, RemoveUnwanted,
       RemoveDanglingSymlink, NormalizeFile, Pack, ExtractEntry, EndExtract,
       CollectPkgFiles, EndCollect, deliveryVars
  <2>3. \A p \in todo : p \in DOMAIN fs
    BY DEF DeliveryInv, BuildInv, ListInv, OfKind, Subtree
  <2> QED BY <2>2, <2>3 DEF PrepareFile, DiscardFile, Unwrap, PrepareFails, Did
<1> QED
  BY <1>1, DeliveryIsInvariant, PTL DEF DeliverySpec, PrepareFailsForADirectory
=============================================================================
