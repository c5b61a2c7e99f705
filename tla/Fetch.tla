------------------------------- MODULE Fetch -------------------------------
(***************************************************************************)
(* The bm processes of one user, and what they share: the registry, the    *)
(* download cache, to which every bm install of the user writes, whatever  *)
(* its prefix, and the directory into which bm download puts packages      *)
(* (cmd/binman/download.go, registry.go, writeAtomic in store.go).         *)
(*                                                                         *)
(*   tag[p]     the version the registry has under p's tag                 *)
(*   cache[p]   the file $XDG_CACHE_HOME/binman/<arch>/p.tar.gz: of which  *)
(*              version, whether all of it, and who wrote it               *)
(*   place[p]   what is at <output>/p for bm download                      *)
(*                                                                         *)
(* bm install is followed up to the files it unpacks and the digest it     *)
(* records with them; Prefix has the rest of it, for one process.          *)
(*                                                                         *)
(* A definition marked "mutant" is a wrong variant of the one below it; no *)
(* action uses it, and the checks must fail when it takes that one's place.*)
(***************************************************************************)
EXTENDS Naturals, Sequences, Functions

CONSTANTS
    Proc,       \* processes; each runs one command after the other
    Pkg, Ver,   \* packages, versions (digests of layers)
    None,       \* no version
    Commands    \* [kind, order]: the lists of packages, each one once

Kinds == {"install", "download"}

ASSUME CommandsAssumption ==
    /\ Commands \subseteq [kind : Kinds, order : Seq(Pkg)]
    /\ None \notin Ver

VARIABLES tag, cache, place,                \* shared
          pc, kind, order, digest, part,    \* the process: where, what, and
          unpacked, next                    \*   per package how far

vars == <<tag, cache, place, pc, kind, order, digest, part, unpacked, next>>
shared == <<tag, cache, place>>

PC == {"idle", "resolve", "fetch", "extract", "place"}
NoFile == [ver |-> None, whole |-> FALSE, by |-> None]
NotThere == [what |-> "absent", ver |-> None, by |-> None]

Init ==
    /\ tag \in [Pkg -> Ver]
    /\ cache = [p \in Pkg |-> NoFile]
    /\ place = [p \in Pkg |-> NotThere]
    /\ pc = [q \in Proc |-> "idle"]
    /\ kind = [q \in Proc |-> "install"]
    /\ order = [q \in Proc |-> << >>]
    /\ digest = [q \in Proc |-> [p \in Pkg |-> None]]
    /\ part = [q \in Proc |-> [p \in Pkg |-> "none"]]
    /\ unpacked = [q \in Proc |-> [p \in Pkg |-> NoFile]]
    /\ next = [q \in Proc |-> 1]

Batch(q) == Range(order[q])

\* The registry publishes another version; the user puts a directory where
\* bm download is about to put one.
Publish(p, v) ==
    /\ tag' = [tag EXCEPT ![p] = v]
    /\ UNCHANGED <<cache, place, pc, kind, order, digest, part, unpacked, next>>

UserPuts(p) ==
    /\ place[p].what = "absent"
    /\ place' = [place EXCEPT ![p].what = "user"]
    /\ UNCHANGED <<tag, cache, pc, kind, order, digest, part, unpacked, next>>

-----------------------------------------------------------------------------
\* A command begins.  bm download looks first whether anything is in its way.
Start(q, c) ==
    /\ pc[q] = "idle"
    /\ c.kind = "download" => \A p \in Range(c.order) : place[p].what = "absent"
    /\ pc' = [pc EXCEPT ![q] = "resolve"]
    /\ kind' = [kind EXCEPT ![q] = c.kind]
    /\ order' = [order EXCEPT ![q] = c.order]
    /\ UNCHANGED <<shared, digest, part, unpacked, next>>

Goto(q, point) ==
    /\ pc' = [pc EXCEPT ![q] = point]
    /\ next' = [next EXCEPT ![q] = 1]
    /\ UNCHANGED <<shared, kind, order, digest, part, unpacked>>

\* A command ends, whatever the way: nothing of it is left in the process.
Forget(q) ==
    /\ pc' = [pc EXCEPT ![q] = "idle"]
    /\ kind' = [kind EXCEPT ![q] = "install"]
    /\ order' = [order EXCEPT ![q] = << >>]
    /\ digest' = [digest EXCEPT ![q] = [p \in Pkg |-> None]]
    /\ part' = [part EXCEPT ![q] = [p \in Pkg |-> "none"]]
    /\ unpacked' = [unpacked EXCEPT ![q] = [p \in Pkg |-> NoFile]]
    /\ next' = [next EXCEPT ![q] = 1]

Return(q) == Forget(q) /\ UNCHANGED shared

\* resolveArtifacts: in parallel, the version each tag has at that moment.
Resolve(q, p) ==
    /\ pc[q] = "resolve" /\ p \in Batch(q) /\ digest[q][p] = None
    /\ digest' = [digest EXCEPT ![q][p] = tag[p]]
    /\ UNCHANGED <<shared, pc, kind, order, part, unpacked, next>>

Resolved(q) ==
    /\ pc[q] = "resolve"
    /\ \A p \in Batch(q) : digest[q][p] # None
    /\ Goto(q, "fetch")

\* downloadLayer: the layer's blob by its digest goes into a temporary file of
\* its own, which replaces dst once the stream has ended and its digest was
\* right.  In bm download dst is in the process's own workspace.
InPlace(q, p) ==  \* mutant
    IF kind[q] = "install"
    THEN [cache EXCEPT ![p] = [ver |-> digest[q][p], whole |-> FALSE, by |-> q]]
    ELSE cache
WhileCopying(q, p) == cache

Open(q, p) ==
    /\ pc[q] = "fetch" /\ p \in Batch(q) /\ part[q][p] = "none"
    /\ part' = [part EXCEPT ![q][p] = "open"]
    /\ cache' = WhileCopying(q, p)
    /\ UNCHANGED <<tag, place, pc, kind, order, digest, unpacked, next>>

LatestVersion(q, p) == [ver |-> tag[p], whole |-> TRUE, by |-> q]  \* mutant
Layer(q, p) == [ver |-> digest[q][p], whole |-> TRUE, by |-> q]

Copied(q, p) ==
    /\ pc[q] = "fetch" /\ part[q][p] = "open"
    /\ part' = [part EXCEPT ![q][p] = "full"]
    /\ cache' = IF kind[q] = "install" THEN [cache EXCEPT ![p] = Layer(q, p)] ELSE cache
    /\ UNCHANGED <<tag, place, pc, kind, order, digest, unpacked, next>>

\* The stream breaks off or the disk is full; the temporary file is removed.
CopyFails(q, p) ==
    /\ pc[q] = "fetch" /\ part[q][p] = "open"
    /\ part' = [part EXCEPT ![q][p] = "failed"]
    /\ UNCHANGED <<shared, pc, kind, order, digest, unpacked, next>>

\* Every download ends before downloadArtifacts returns, with an error if one
\* of them failed: Fail.
AnyFull(q) == \E p \in Batch(q) : part[q][p] = "full"  \* mutant
AllFull(q) == \A p \in Batch(q) : part[q][p] = "full"

Fetched(q) ==
    /\ pc[q] = "fetch"
    /\ \A p \in Batch(q) : part[q][p] \in {"full", "failed"}
    /\ AllFull(q)
    /\ Goto(q, "extract")

-----------------------------------------------------------------------------
\* extractTarGz, of one package after the other, from the file that is there
\* when it is opened; that file stays what it is if another replaces it.
Archive(q, p) ==
    IF kind[q] = "install" THEN cache[p]
    ELSE IF part[q][p] = "full" THEN Layer(q, p) ELSE NoFile

Extract(q) ==
    /\ pc[q] = "extract" /\ next[q] \in DOMAIN order[q]
    /\ LET p == order[q][next[q]] IN
       /\ Archive(q, p).whole
       /\ unpacked' = [unpacked EXCEPT ![q][p] = Archive(q, p)]
    /\ next' = [next EXCEPT ![q] = @ + 1]
    /\ UNCHANGED <<shared, pc, kind, order, digest, part>>

\* bm install has placed each package by now; bm download places them only
\* after the last was unpacked.
SomeUnpacked(q) == next[q] > 1  \* mutant
AllUnpacked(q) == next[q] \notin DOMAIN order[q]

Extracted(q) ==
    /\ pc[q] = "extract" /\ AllUnpacked(q)
    /\ IF kind[q] = "install" THEN Return(q) ELSE Goto(q, "place")

\* os.Rename of a directory replaces nothing, not even an empty directory.
Free(p) == place[p].what = "absent"

Place(q) ==
    /\ pc[q] = "place" /\ next[q] \in DOMAIN order[q]
    /\ LET p == order[q][next[q]] IN
       /\ Free(p)
       /\ place' = [place EXCEPT ![p] =
                      [what |-> "package", ver |-> unpacked[q][p].ver, by |-> q]]
    /\ next' = [next EXCEPT ![q] = @ + 1]
    /\ UNCHANGED <<tag, cache, pc, kind, order, digest, part, unpacked>>

Placed(q) ==
    /\ pc[q] = "place" /\ next[q] \notin DOMAIN order[q]
    /\ Return(q)

\* An error returns, once no download is under way, through what was deferred.
\* A process that is killed leaves its temporary files, or its workspace, which
\* nothing looks at again.
Fail(q) ==
    /\ pc[q] # "idle"
    /\ \A p \in Pkg : part[q][p] # "open"
    /\ Return(q)

Kill(q) == pc[q] # "idle" /\ Return(q)

Step(q) ==
    \/ \E c \in Commands : Start(q, c)
    \/ \E p \in Pkg : Resolve(q, p) \/ Open(q, p) \/ Copied(q, p) \/ CopyFails(q, p)
    \/ Resolved(q) \/ Fetched(q) \/ Extract(q) \/ Extracted(q)
    \/ Place(q) \/ Placed(q) \/ Fail(q) \/ Kill(q)

Next ==
    \/ \E q \in Proc : Step(q)
    \/ \E p \in Pkg, v \in Ver : Publish(p, v)
    \/ \E p \in Pkg : UserPuts(p)

Spec == Init /\ [][Next]_vars

-----------------------------------------------------------------------------
(* Properties. *)

File == [ver : Ver \cup {None}, whole : BOOLEAN, by : Proc \cup {None}]

\* Every variable stays in its range; a process unpacks only after each of its
\* packages has resolved and is downloaded.
TypeOK ==
    /\ tag \in [Pkg -> Ver]
    /\ cache \in [Pkg -> File]
    /\ place \in [Pkg -> [what : {"absent", "user", "package"},
                          ver : Ver \cup {None}, by : Proc \cup {None}]]
    /\ pc \in [Proc -> PC]
    /\ kind \in [Proc -> Kinds]
    /\ order \in [Proc -> Seq(Pkg)]
    /\ digest \in [Proc -> [Pkg -> Ver \cup {None}]]
    /\ part \in [Proc -> [Pkg -> {"none", "open", "full", "failed"}]]
    /\ unpacked \in [Proc -> [Pkg -> File]]
    /\ next \in [Proc -> Nat]
    /\ \A q \in Proc : pc[q] # "idle" /\ pc[q] # "resolve" =>
         \A p \in Batch(q) : /\ digest[q][p] # None
                            /\ pc[q] \in {"extract", "place"} => part[q][p] = "full"

\* "downloadLayer atomically replaces dst after the complete compressed layer
\* has been written" (registry.go:146): whoever writes, fails or is killed, and
\* whenever another looks, the cache file is one whole archive or not there.
CacheIsWhole == \A p \in Pkg : cache[p] = NoFile \/ cache[p].whole

\* The digest that bm install records is that of the files it unpacked, unless
\* another process has put a version of its own into the cache between: with
\* one bm at a time, what is recorded is what is there.
MismatchNeedsAnother ==
    \A q \in Proc, p \in Pkg :
        unpacked[q][p] # NoFile /\ unpacked[q][p].ver # digest[q][p] =>
            kind[q] = "install" /\ unpacked[q][p].by # q

\* What bm download places is what its process resolved, and all of the batch
\* is unpacked before its first package is placed: when it places one, those
\* before it in the list are in place, whatever another bm download of the same
\* packages does meanwhile (download.go:58-90).
DownloadIsOfOneBatch ==
    \A q \in Proc :
        pc[q] = "place" =>
            /\ \A p \in Batch(q) : unpacked[q][p] = Layer(q, p) /\ digest[q][p] # None
            /\ \A i \in 1..(next[q] - 1) :
                 i \in DOMAIN order[q] =>
                    place[order[q][i]] = [what |-> "package", ver |-> digest[q][order[q][i]],
                                          by |-> q]
=============================================================================
