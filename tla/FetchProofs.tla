---------------------------- MODULE FetchProofs ----------------------------
(***************************************************************************)
(* What the download cache and bm download guarantee for any number of     *)
(* processes, packages and versions.  Fetch's properties are conjunctions  *)
(* over the processes; Good(q) is the part of the invariant that is about  *)
(* process q, and a step of one process keeps what is good of the others   *)
(* (OthersStayGood).                                                       *)
(***************************************************************************)
EXTENDS Fetch, TLAPS

USE CommandsAssumption

\* The ranges of the variables.
Typed ==
    /\ tag \in [Pkg -> Ver]
    /\ cache \in [Pkg -> File]
    /\ place \in [Pkg -> [what : {"absent", "user", "package"},
                          ver : Ver \cup {None}, by : Proc \cup {None}]]
    /\ pc \in [Proc -> PC]
    /\ kind \in [Proc -> Kinds]
    /\ order \in [Proc -> Seq(Pkg)]
    /\ digest \in [Proc -> [Pkg -> Ver \cup {None}]]
    /\ part \in [Proc -> [Pkg -> {"none", "open", "full", "failed"}]]
    /\ unpacked \in [Proc -> [Pkg -> File]]
    /\ next \in [Proc -> Nat \ {0}]

\* Past resolving each package has a version, past fetching it is downloaded,
\* and neither happens before.
InPhase(q) ==
    /\ pc[q] \in {"fetch", "extract", "place"} => \A p \in Batch(q) : digest[q][p] # None
    /\ pc[q] \in {"extract", "place"} => \A p \in Batch(q) : part[q][p] = "full"
    /\ pc[q] \in {"idle", "resolve"} =>
         \A p \in Pkg : part[q][p] = "none" /\ unpacked[q][p] = NoFile

\* While this process's download is the one in the cache, it is what the
\* process resolved.
OwnInCache(q) ==
    kind[q] = "install" =>
        \A p \in Pkg : part[q][p] = "full" /\ cache[p].by = q => cache[p].ver = digest[q][p]

Matching(q) ==
    \A p \in Pkg :
        unpacked[q][p] # NoFile /\ unpacked[q][p].ver # digest[q][p] =>
            kind[q] = "install" /\ unpacked[q][p].by # q

\* bm download has unpacked its own archives up to next.
UnpackedSoFar(q) ==
    kind[q] = "download" /\ pc[q] = "extract" =>
        \A i \in 1..(next[q] - 1) :
            i \in DOMAIN order[q] => unpacked[q][order[q][i]] = Layer(q, order[q][i])

Placing(q) ==
    pc[q] = "place" =>
        /\ kind[q] = "download"
        /\ \A p \in Batch(q) : unpacked[q][p] = Layer(q, p) /\ digest[q][p] # None
        /\ \A i \in 1..(next[q] - 1) :
             i \in DOMAIN order[q] =>
                place[order[q][i]] = [what |-> "package", ver |-> digest[q][order[q][i]], by |-> q]

Good(q) == InPhase(q) /\ OwnInCache(q) /\ Matching(q) /\ UnpackedSoFar(q) /\ Placing(q)

Inv == Typed /\ CacheIsWhole /\ \A q \in Proc : Good(q)

LEMMA InvGivesProperties ==
    ASSUME Inv
    PROVE  TypeOK /\ CacheIsWhole /\ MismatchNeedsAnother /\ DownloadIsOfOneBatch
<1>1. TypeOK
  BY DEF Inv, Typed, Good, InPhase, TypeOK, PC
<1>2. MismatchNeedsAnother
  BY DEF Inv, Good, Matching, MismatchNeedsAnother
<1>3. DownloadIsOfOneBatch
  BY DEF Inv, Good, Placing, DownloadIsOfOneBatch
<1>. QED
  BY <1>1, <1>2, <1>3 DEF Inv

LEMMA BatchOfPackages ==
    ASSUME Typed, NEW q \in Proc
    PROVE  /\ Batch(q) \subseteq Pkg
           /\ \A i \in DOMAIN order[q] : order[q][i] \in Batch(q)
           /\ \A p \in Batch(q) : \E i \in DOMAIN order[q] : order[q][i] = p
BY DEF Typed, Batch, Range

LEMMA InvInit == Init => Inv
<1>. SUFFICES ASSUME Init PROVE Inv
  OBVIOUS
<1>1. Typed
  BY DEF Init, Typed, NoFile, NotThere, File, PC, Kinds
<1>2. CacheIsWhole
  BY DEF Init, CacheIsWhole
<1>3. ASSUME NEW q \in Proc PROVE Good(q)
  <2>. pc[q] = "idle" /\ \A p \in Pkg : part[q][p] = "none" /\ unpacked[q][p] = NoFile
    BY DEF Init
  <2>. QED
    BY DEF Good, InPhase, OwnInCache, Matching, UnpackedSoFar, Placing
<1>. QED
  BY <1>1, <1>2, <1>3 DEF Inv

\* What a step leaves of the process q.
SameRow(q) ==
    /\ pc'[q] = pc[q] /\ kind'[q] = kind[q] /\ order'[q] = order[q] /\ digest'[q] = digest[q]
    /\ part'[q] = part[q] /\ unpacked'[q] = unpacked[q] /\ next'[q] = next[q]

\* Another's download in the cache and another's package in a free place are
\* nothing to a process.
LEMMA OthersStayGood ==
    ASSUME Inv, NEW r \in Proc, SameRow(r),
           \A p \in Pkg : cache'[p] = cache[p] \/ cache'[p].by # r,
           \A p \in Pkg : place[p].what = "package" => place'[p] = place[p]
    PROVE  Good(r)'
<1>. Good(r) /\ Batch(r)' = Batch(r) /\ Batch(r) \subseteq Pkg
  BY BatchOfPackages DEF Inv, SameRow, Batch
<1>1. InPhase(r)' /\ Matching(r)' /\ UnpackedSoFar(r)'
  BY DEF Good, InPhase, Matching, UnpackedSoFar, SameRow, Layer
<1>2. OwnInCache(r)'
  BY DEF Good, OwnInCache, SameRow
<1>3. Placing(r)'
  <2>. SUFFICES ASSUME pc[r] = "place" PROVE Placing(r)'
    BY DEF Placing, SameRow
  <2>1. \A i \in DOMAIN order[r] : order[r][i] \in Pkg
    BY BatchOfPackages DEF Inv
  <2>2. ASSUME NEW i \in 1..(next[r] - 1), i \in DOMAIN order[r]
        PROVE  place'[order[r][i]] =
                 [what |-> "package", ver |-> digest[r][order[r][i]], by |-> r]
    <3>1. place[order[r][i]] =
            [what |-> "package", ver |-> digest[r][order[r][i]], by |-> r]
      BY <2>2 DEF Good, Placing
    <3>2. place[order[r][i]].what = "package" /\ order[r][i] \in Pkg
      BY <3>1, <2>1, <2>2
    <3>. QED
      BY <3>1, <3>2
  <2>. QED
    BY <2>2 DEF Good, Placing, SameRow, Layer
<1>. QED
  BY <1>1, <1>2, <1>3 DEF Good

LEMMA OutsideStep ==
    ASSUME Inv, NEW p \in Pkg,
           (\E v \in Ver : Publish(p, v)) \/ UserPuts(p)
    PROVE  Inv'
<1>. UNCHANGED <<cache, pc, kind, order, digest, part, unpacked, next>>
  BY DEF Publish, UserPuts
<1>1. Typed'
  <2>1. tag' \in [Pkg -> Ver]
    BY DEF Inv, Typed, Publish, UserPuts
  <2>2. place' \in [Pkg -> [what : {"absent", "user", "package"},
                            ver : Ver \cup {None}, by : Proc \cup {None}]]
    <3>1. CASE UNCHANGED place
      BY <3>1 DEF Inv, Typed
    <3>2. CASE UserPuts(p)
      <4>1. place' = [place EXCEPT ![p] = [place[p] EXCEPT !.what = "user"]]
        BY <3>2 DEF UserPuts, Inv, Typed
      <4>2. [place[p] EXCEPT !.what = "user"]
              \in [what : {"absent", "user", "package"},
                   ver : Ver \cup {None}, by : Proc \cup {None}]
        <5>1. place[p] \in [what : {"absent", "user", "package"},
                            ver : Ver \cup {None}, by : Proc \cup {None}]
          BY DEF Inv, Typed
        <5>. QED
          BY <5>1
      <4>. QED
        BY <4>1, <4>2 DEF Inv, Typed
    <3>. QED
      BY <3>1, <3>2 DEF Publish
  <2>. QED
    BY <2>1, <2>2 DEF Inv, Typed
<1>2. \A r \in Pkg : place[r].what = "package" => place'[r] = place[r]
  BY DEF Publish, UserPuts, Inv, Typed
<1>3. \A r \in Proc : Good(r)'
  BY <1>2, OthersStayGood DEF SameRow
<1>. QED
  BY <1>1, <1>3 DEF Inv, CacheIsWhole

LEMMA ReturnStep == ASSUME Inv, NEW q \in Proc, Return(q) PROVE Inv'
<1>1. Typed'
  BY DEF Return, Forget, shared, Inv, Typed, NoFile, File, PC, Kinds
<1>2. Good(q)'
  <2>. pc'[q] = "idle" /\ \A p \in Pkg : part'[q][p] = "none" /\ unpacked'[q][p] = NoFile
    BY DEF Return, Forget, Inv, Typed
  <2>. QED
    BY DEF Good, InPhase, OwnInCache, Matching, UnpackedSoFar, Placing, NoFile
<1>3. ASSUME NEW r \in Proc, r # q PROVE Good(r)'
  BY <1>3, OthersStayGood DEF Return, Forget, shared, SameRow, Inv, Typed
<1>. QED
  BY <1>1, <1>2, <1>3 DEF Inv, CacheIsWhole, Return, shared

LEMMA StartStep ==
    ASSUME Inv, NEW q \in Proc, NEW c \in Commands, Start(q, c)
    PROVE  Inv'
<1>1. Typed'
  BY DEF Start, shared, Inv, Typed, PC, Kinds
<1>2. Good(q)'
  <2>. pc'[q] = "resolve" /\ \A p \in Pkg : part'[q][p] = "none" /\ unpacked'[q][p] = NoFile
    BY DEF Start, Inv, Typed, Good, InPhase
  <2>. QED
    BY DEF Good, InPhase, OwnInCache, Matching, UnpackedSoFar, Placing, NoFile
<1>3. ASSUME NEW r \in Proc, r # q PROVE Good(r)'
  BY <1>3, OthersStayGood DEF Start, shared, SameRow, Inv, Typed
<1>. QED
  BY <1>1, <1>2, <1>3 DEF Inv, CacheIsWhole, Start, shared

LEMMA ResolveStep ==
    ASSUME Inv, NEW q \in Proc, NEW p \in Pkg, Resolve(q, p)
    PROVE  Inv'
<1>1. Typed'
  BY DEF Resolve, shared, Inv, Typed
<1>2. Good(q)'
  <2>. pc'[q] = "resolve" /\ \A r \in Pkg : part'[q][r] = "none" /\ unpacked'[q][r] = NoFile
    BY DEF Resolve, Inv, Good, InPhase
  <2>. QED
    BY DEF Good, InPhase, OwnInCache, Matching, UnpackedSoFar, Placing, NoFile
<1>3. ASSUME NEW r \in Proc, r # q PROVE Good(r)'
  BY <1>3, OthersStayGood DEF Resolve, shared, SameRow, Inv, Typed
<1>. QED
  BY <1>1, <1>2, <1>3 DEF Inv, CacheIsWhole, Resolve, shared

LEMMA ResolvedStep == ASSUME Inv, NEW q \in Proc, Resolved(q) PROVE Inv'
<1>1. Typed'
  BY DEF Resolved, Goto, shared, Inv, Typed, PC
<1>2. Good(q)'
  <2>. /\ pc'[q] = "fetch" /\ digest'[q] = digest[q] /\ Batch(q)' = Batch(q)
       /\ \A p \in Batch(q) : digest[q][p] # None
       /\ \A p \in Pkg : part'[q][p] = "none" /\ unpacked'[q][p] = NoFile
    BY DEF Resolved, Goto, Inv, Typed, Good, InPhase, Batch
  <2>. QED
    BY DEF Good, InPhase, OwnInCache, Matching, UnpackedSoFar, Placing, NoFile
<1>3. ASSUME NEW r \in Proc, r # q PROVE Good(r)'
  BY <1>3, OthersStayGood DEF Resolved, Goto, shared, SameRow, Inv, Typed
<1>. QED
  BY <1>1, <1>2, <1>3 DEF Inv, CacheIsWhole, Resolved, Goto, shared

\* The steps of the downloads of q change part alone, and Copied the cache.
LEMMA DownloadStep ==
    ASSUME Inv, NEW q \in Proc, NEW p \in Pkg, Open(q, p) \/ Copied(q, p) \/ CopyFails(q, p)
    PROVE  Inv'
<1>. /\ UNCHANGED <<tag, place, pc, kind, order, digest, unpacked, next>>
     /\ pc[q] = "fetch" /\ part[q][p] # "full"
     /\ \E to \in {"open", "full", "failed"} : part' = [part EXCEPT ![q][p] = to]
     /\ \A r \in Pkg : cache'[r] = cache[r] \/ (r = p /\ kind[q] = "install" /\ cache'[r] = Layer(q, r))
  BY DEF Open, WhileCopying, Copied, CopyFails, shared, Inv, Typed
<1>. Batch(q)' = Batch(q) /\ (\A r \in Pkg : Layer(q, r)' = Layer(q, r)) /\ Good(q)
  BY DEF Batch, Layer, Inv
<1>1. Typed'
  <2>1. cache' \in [Pkg -> File]
    <3>. Layer(q, p) \in File
      BY DEF Layer, Inv, Typed, File
    <3>. QED
      BY DEF Open, WhileCopying, Copied, CopyFails, shared, Inv, Typed
  <2>2. part' \in [Proc -> [Pkg -> {"none", "open", "full", "failed"}]]
    BY DEF Inv, Typed
  <2>. QED
    BY <2>1, <2>2 DEF Inv, Typed
<1>2. CacheIsWhole'
  <2>. ASSUME NEW r \in Pkg PROVE cache'[r] = NoFile \/ cache'[r].whole
    <3>1. Layer(q, r).whole
      BY DEF Layer
    <3>. QED
      BY <3>1 DEF Inv, CacheIsWhole
  <2>. QED
    BY DEF CacheIsWhole
<1>3. Good(q)'
  <2>1. InPhase(q)' /\ Matching(q)' /\ UnpackedSoFar(q)' /\ Placing(q)'
    BY DEF Good, InPhase, Matching, UnpackedSoFar, Placing
  <2>2. OwnInCache(q)'
    <3>. SUFFICES ASSUME kind[q] = "install", NEW r \in Pkg, part'[q][r] = "full",
                         cache'[r].by = q
                  PROVE  cache'[r].ver = digest[q][r]
      BY DEF OwnInCache
    <3>1. CASE cache'[r] = Layer(q, r)
      BY <3>1 DEF Layer
    <3>2. CASE cache'[r] # Layer(q, r)
      <4>1. cache'[r] = cache[r]
        BY <3>2
      <4>2. part[q][r] = "full"
        <5>1. r # p
          BY <3>2 DEF Open, WhileCopying, Copied, CopyFails, shared, Inv, Typed
        <5>. QED
          BY <5>1 DEF Inv, Typed
      <4>. QED
        BY <4>1, <4>2 DEF Good, OwnInCache
    <3>. QED
      BY <3>1, <3>2
  <2>. QED
    BY <2>1, <2>2 DEF Good
<1>4. ASSUME NEW r \in Proc, r # q PROVE Good(r)'
  <2>1. SameRow(r)
    BY <1>4 DEF SameRow, Inv, Typed
  <2>2. ASSUME NEW s \in Pkg PROVE cache'[s] = cache[s] \/ cache'[s].by # r
    <3>. Layer(q, s).by = q
      BY DEF Layer
    <3>. QED
      BY <1>4
  <2>. QED
    BY <2>1, <2>2, OthersStayGood
<1>. QED
  BY <1>1, <1>2, <1>3, <1>4 DEF Inv

LEMMA FetchedStep == ASSUME Inv, NEW q \in Proc, Fetched(q) PROVE Inv'
<1>1. Typed'
  BY DEF Fetched, Goto, shared, Inv, Typed, PC
<1>2. Good(q)'
  <2>. /\ pc'[q] = "extract" /\ next'[q] = 1 /\ Good(q) /\ Batch(q)' = Batch(q)
       /\ \A p \in Batch(q) : digest[q][p] # None /\ part[q][p] = "full"
       /\ UNCHANGED <<shared, kind, order, digest, part, unpacked>>
    BY DEF Fetched, AllFull, Goto, Inv, Typed, Good, InPhase, Batch
  <2>. QED
    BY DEF Good, InPhase, OwnInCache, Matching, UnpackedSoFar, Placing, shared
<1>3. ASSUME NEW r \in Proc, r # q PROVE Good(r)'
  BY <1>3, OthersStayGood DEF Fetched, Goto, shared, SameRow, Inv, Typed
<1>. QED
  BY <1>1, <1>2, <1>3 DEF Inv, CacheIsWhole, Fetched, Goto, shared

LEMMA ExtractStep == ASSUME Inv, NEW q \in Proc, Extract(q) PROVE Inv'
<1>. DEFINE p == order[q][next[q]]
<1>1. /\ p \in Batch(q) /\ p \in Pkg /\ Good(q) /\ Batch(q)' = Batch(q) /\ Batch(q) \subseteq Pkg
      /\ pc[q] = "extract" /\ part[q][p] = "full" /\ digest[q][p] # None
      /\ UNCHANGED <<shared, pc, kind, order, digest, part>>
      /\ next[q] \in Nat \ {0} /\ next'[q] = next[q] + 1
      /\ unpacked'[q] = [unpacked[q] EXCEPT ![p] = Archive(q, p)]
      /\ unpacked'[q][p] = Archive(q, p)
  <2>1. p \in Batch(q) /\ p \in Pkg /\ Batch(q) \subseteq Pkg
    BY BatchOfPackages DEF Extract, Inv
  <2>. QED
    BY <2>1 DEF Extract, Inv, Typed, Good, InPhase, Batch
<1>2. kind[q] # "install" => Archive(q, p) = Layer(q, p)
  BY <1>1 DEF Archive
<1>3. Archive(q, p) \in File
  BY <1>1 DEF Archive, Layer, File, Inv, Typed
<1>4. Typed'
  <2>1. unpacked' \in [Proc -> [Pkg -> File]] /\ next' \in [Proc -> Nat \ {0}]
    BY <1>3, <1>1 DEF Extract, Inv, Typed
  <2>. QED
    BY <2>1, <1>1 DEF Inv, Typed, shared
<1>5. Good(q)'
  <2>. unpacked[q] \in [Pkg -> File]
    BY DEF Inv, Typed
  <2>1. InPhase(q)' /\ OwnInCache(q)' /\ Placing(q)'
    BY <1>1 DEF Good, InPhase, OwnInCache, Placing, shared
  <2>2. Matching(q)'
    <3>. SUFFICES ASSUME NEW r \in Pkg
                  PROVE  unpacked'[q][r] # NoFile /\ unpacked'[q][r].ver # digest[q][r] =>
                           kind[q] = "install" /\ unpacked'[q][r].by # q
      BY <1>1 DEF Matching
    <3>1. CASE r # p
      BY <3>1, <1>1 DEF Good, Matching
    <3>2. CASE r = p /\ kind[q] = "install"
      BY <3>2, <1>1 DEF Archive, Good, OwnInCache
    <3>3. CASE r = p /\ kind[q] # "install"
      BY <3>3, <1>1, <1>2 DEF Layer
    <3>. QED
      BY <3>1, <3>2, <3>3
  <2>3. UnpackedSoFar(q)'
    <3>. SUFFICES ASSUME kind[q] = "download", NEW i \in 1..next[q], i \in DOMAIN order[q]
                  PROVE  unpacked'[q][order[q][i]] = Layer(q, order[q][i])
      BY <1>1 DEF UnpackedSoFar, Layer
    <3>1. CASE order[q][i] = p
      BY <3>1, <1>1, <1>2
    <3>2. CASE order[q][i] # p
      <4>. i \in 1..(next[q] - 1) /\ order[q][i] \in Pkg
        BY <3>2, <1>1, BatchOfPackages DEF Inv
      <4>. QED
        BY <3>2, <1>1 DEF Good, UnpackedSoFar
    <3>. QED
      BY <3>1, <3>2
  <2>. QED
    BY <2>1, <2>2, <2>3 DEF Good
<1>6. ASSUME NEW r \in Proc, r # q PROVE Good(r)'
  BY <1>6, OthersStayGood DEF Extract, shared, SameRow, Inv, Typed
<1>. QED
  BY <1>4, <1>5, <1>6 DEF Inv, CacheIsWhole, Extract, shared

LEMMA ExtractedStep == ASSUME Inv, NEW q \in Proc, Extracted(q) PROVE Inv'
<1>1. CASE kind[q] = "install"
  BY <1>1, ReturnStep DEF Extracted
<1>2. CASE kind[q] # "install"
  <2>. kind[q] = "download" /\ pc[q] = "extract" /\ next[q] \notin DOMAIN order[q] /\ Goto(q, "place")
    BY <1>2 DEF Extracted, AllUnpacked, Inv, Typed, Kinds
  <2>1. Typed'
    BY DEF Goto, shared, Inv, Typed, PC
  <2>2. Good(q)'
    <3>. /\ pc'[q] = "place" /\ next'[q] = 1 /\ Good(q) /\ Batch(q)' = Batch(q)
         /\ UNCHANGED <<shared, kind, order, digest, part, unpacked>>
      BY DEF Goto, Inv, Typed, Batch
    <3>1. ASSUME NEW p \in Batch(q) PROVE unpacked[q][p] = Layer(q, p)
      <4>1. PICK i \in DOMAIN order[q] : order[q][i] = p
        BY BatchOfPackages DEF Inv
      <4>2. i \in 1..(next[q] - 1)
        <5>. /\ next[q] \in Nat /\ next[q] \notin 1..Len(order[q]) /\ next[q] >= 1
             /\ DOMAIN order[q] = 1..Len(order[q]) /\ Len(order[q]) \in Nat
          BY DEF Inv, Typed, Good
        <5>. QED
          OBVIOUS
      <4>. QED
        BY <4>1, <4>2 DEF Good, UnpackedSoFar
    <3>. QED
      BY <3>1 DEF Good, InPhase, OwnInCache, Matching, UnpackedSoFar, Placing, Layer, shared
  <2>3. ASSUME NEW r \in Proc, r # q PROVE Good(r)'
    BY <2>3, OthersStayGood DEF Goto, shared, SameRow, Inv, Typed
  <2>. QED
    BY <2>1, <2>2, <2>3 DEF Inv, CacheIsWhole, Goto, shared
<1>. QED
  BY <1>1, <1>2

LEMMA PlaceStep == ASSUME Inv, NEW q \in Proc, Place(q) PROVE Inv'
<1>. DEFINE p == order[q][next[q]]
<1>1. /\ p \in Batch(q) /\ p \in Pkg /\ Good(q) /\ Batch(q)' = Batch(q) /\ Batch(q) \subseteq Pkg
      /\ pc[q] = "place" /\ place[p].what # "package"
      /\ unpacked[q][p] = Layer(q, p)
      /\ UNCHANGED <<tag, cache, pc, kind, order, digest, part, unpacked>>
      /\ next[q] \in Nat \ {0} /\ next'[q] = next[q] + 1
      /\ place' = [place EXCEPT ![p] = [what |-> "package", ver |-> digest[q][p], by |-> q]]
  <2>1. p \in Batch(q) /\ p \in Pkg /\ Batch(q) \subseteq Pkg
    BY BatchOfPackages DEF Place, Inv
  <2>2. Good(q) /\ unpacked[q][p] = Layer(q, p) /\ place[p].what # "package"
    BY <2>1 DEF Place, Free, Inv, Good, Placing
  <2>3. place' = [place EXCEPT ![p] = [what |-> "package", ver |-> digest[q][p], by |-> q]]
    BY <2>2 DEF Place, Layer
  <2>. QED
    BY <2>1, <2>2, <2>3 DEF Place, Inv, Typed, Batch
<1>2. \A r \in Pkg : place[r].what = "package" => place'[r] = place[r]
  BY <1>1 DEF Inv, Typed
<1>3. Typed'
  <2>1. next' \in [Proc -> Nat \ {0}]
    BY DEF Place, Inv, Typed
  <2>2. place' \in [Pkg -> [what : {"absent", "user", "package"},
                            ver : Ver \cup {None}, by : Proc \cup {None}]]
    BY <1>1 DEF Inv, Typed
  <2>. QED
    BY <2>1, <2>2, <1>1 DEF Inv, Typed
<1>4. Good(q)'
  <2>1. InPhase(q)' /\ OwnInCache(q)' /\ Matching(q)' /\ UnpackedSoFar(q)'
    BY <1>1 DEF Good, InPhase, OwnInCache, Matching, UnpackedSoFar
  <2>2. ASSUME NEW i \in 1..next[q], i \in DOMAIN order[q]
        PROVE  place'[order[q][i]] = [what |-> "package", ver |-> digest[q][order[q][i]], by |-> q]
    <3>1. CASE i = next[q]
      BY <3>1, <1>1 DEF Inv, Typed
    <3>2. CASE i # next[q]
      <4>1. i \in 1..(next[q] - 1)
        BY <3>2, <1>1
      <4>2. place[order[q][i]] =
              [what |-> "package", ver |-> digest[q][order[q][i]], by |-> q]
        BY <4>1, <2>2, <1>1 DEF Good, Placing
      <4>3. order[q][i] \in Pkg
        BY <2>2, <1>1, BatchOfPackages DEF Inv
      <4>. QED
        BY <4>2, <4>3, <1>2
    <3>. QED
      BY <3>1, <3>2
  <2>3. Placing(q)'
    <3>1. \A i \in 1..(next'[q] - 1) :
            i \in DOMAIN order'[q] =>
               place'[order'[q][i]] =
                  [what |-> "package", ver |-> digest'[q][order'[q][i]], by |-> q]
      <4>. next'[q] - 1 = next[q]
        BY <1>1
      <4>. QED
        BY <2>2, <1>1
    <3>2. kind'[q] = "download"
          /\ \A r \in Batch(q)' : unpacked'[q][r] = Layer(q, r)' /\ digest'[q][r] # None
      BY <1>1 DEF Good, Placing, Layer
    <3>. QED
      BY <3>1, <3>2 DEF Placing
  <2>. QED
    BY <2>1, <2>3 DEF Good
<1>5. ASSUME NEW r \in Proc, r # q PROVE Good(r)'
  <2>. SameRow(r)
    BY <1>5 DEF Place, SameRow, Inv, Typed
  <2>. QED
    BY <1>1, <1>2, OthersStayGood
<1>. QED
  BY <1>1, <1>3, <1>4, <1>5 DEF Inv, CacheIsWhole

LEMMA InvNext == Inv /\ [Next]_vars => Inv'
<1>. SUFFICES ASSUME Inv, [Next]_vars PROVE Inv'
  OBVIOUS
<1>1. CASE UNCHANGED vars
  <2>. Typed' /\ CacheIsWhole'
    BY <1>1 DEF vars, Inv, Typed, CacheIsWhole
  <2>. \A r \in Proc : Good(r)'
    BY <1>1, OthersStayGood DEF vars, SameRow
  <2>. QED
    BY DEF Inv
<1>2. ASSUME NEW q \in Proc, Step(q) PROVE Inv'
  <2>1. CASE \E c \in Commands : Start(q, c)
    BY <2>1, StartStep
  <2>2. CASE \E p \in Pkg : Resolve(q, p) \/ Open(q, p) \/ Copied(q, p) \/ CopyFails(q, p)
    BY <2>2, ResolveStep, DownloadStep
  <2>3. CASE Resolved(q) \/ Fetched(q) \/ Extract(q) \/ Extracted(q) \/ Place(q)
    BY <2>3, ResolvedStep, FetchedStep, ExtractStep, ExtractedStep, PlaceStep
  <2>4. CASE Placed(q) \/ Fail(q) \/ Kill(q)
    BY <2>4, ReturnStep DEF Placed, Fail, Kill
  <2>. QED
    BY <1>2, <2>1, <2>2, <2>3, <2>4 DEF Step
<1>. QED
  BY <1>1, <1>2, OutsideStep DEF Next

\* Inv is an invariant.
THEOREM FetchInvariant == Spec => []Inv
BY InvInit, InvNext, PTL DEF Spec

\* The state stays in its range, and nothing is unpacked before each package of
\* the batch has resolved and is downloaded (installPackagePlan, downloadPackages).
THEOREM FetchTypeCorrect == Spec => []TypeOK
BY FetchInvariant, InvGivesProperties, PTL

\* The cache file is one whole archive or not there (writeAtomic).
THEOREM CacheStaysWhole == Spec => []CacheIsWhole
BY FetchInvariant, InvGivesProperties, PTL

\* A digest that is not that of the files beside it is the work of two
\* processes (the cache file's name is the package's, not the digest's).
THEOREM OneProcessRecordsWhatItUnpacks == Spec => []MismatchNeedsAnother
BY FetchInvariant, InvGivesProperties, PTL

\* bm download places a batch after all of it is unpacked, in order.
THEOREM DownloadsAreOfOneBatch == Spec => []DownloadIsOfOneBatch
BY FetchInvariant, InvGivesProperties, PTL
=============================================================================
