------------------------------ MODULE NixCache ------------------------------
(***************************************************************************)
(* nixcache serve and the Nix that substitutes from it (cmd/nixcache/      *)
(* serve.go, registry.go:145-162, 210-244, 377-397), over the writers of   *)
(* CacheStore.                                                             *)
(*                                                                         *)
(* The server answers from its index while it loads the next one.  The     *)
(* index is a function of the segments it was built from: for each hash    *)
(* the entry of the newest one that has it.  A client asks for a narinfo   *)
(* and then for the NAR this names.                                        *)
(***************************************************************************)
EXTENDS CacheStore

CONSTANTS
  Home,        \* [system, snapshot]: the tags the server loads
  MaxBreaks    \* bound: loads that fail and servers that stop

ASSUME ServeAssumption == MaxBreaks \in Nat

VARIABLES
  serve,       \* the server: [pc, listed, loaded], and what it answers from:
  index,       \*   the segments of the index
  ready,       \*   whether nix-cache-info is there
  breaks,      \* failed loads and stops so far
  client,      \* the request in progress
  present      \* history: visible when the server started, and ever since

serveVars == <<serve, index, ready, breaks, client, present>>
vars == <<storeVars, serveVars>>

NoLoad == [pc |-> "down", listed |-> {}, loaded |-> {}]
NoRequest == [pc |-> "idle", hash |-> None, from |-> None]

Init ==
  /\ StoreInit
  /\ serve = NoLoad /\ index = {} /\ ready = FALSE /\ breaks = 0
  /\ client = NoRequest /\ present = {}

\* segmentTagPrefix
AtHome(r) == SystemOf[r] = Home.system /\ SnapshotOf[r] = Home.snapshot
HomeTags == {r \in visible : AtHome(r)}

\* loadEntries: the newest segment of S that has h.
Having(S, h) == {r \in S : h \in DOMAIN Entries[r]}
OldestHaving(S, h) ==  \* mutant
  CHOOSE r \in Having(S, h) : \A q \in Having(S, h) : ~Newer(Segment(r), Segment(q))
Winner(S, h) ==
  CHOOSE r \in Having(S, h) : \A q \in Having(S, h) : ~Newer(Segment(q), Segment(r))

Hashes(S) == UNION {DOMAIN Entries[r] : r \in S}
\* The NARs it hands out: those of the winning entries only.
Nars(S) == {Entries[Winner(S, h)][h] : h \in Hashes(S)}

-----------------------------------------------------------------------------
(* serveCache *)

\* The listener opens, and the first load begins.
StartServer ==
  /\ serve.pc = "down"
  /\ serve' = [pc |-> "load", listed |-> HomeTags, loaded |-> {}]
  /\ present' = HomeTags
  /\ UNCHANGED <<storeVars, index, ready, breaks, client>>

\* The ticker: the next load.
Tick ==
  /\ serve.pc = "wait"
  /\ serve' = [pc |-> "load", listed |-> HomeTags, loaded |-> {}]
  /\ UNCHANGED <<storeVars, index, ready, breaks, client, present>>

\* fetchSegments
FetchSegment(r) ==
  /\ serve.pc = "load" /\ r \in serve.listed
  /\ \E S \in Read(r) :
       serve' = [serve EXCEPT !.listed = @ \ {r}, !.loaded = @ \cup S]
  /\ UNCHANGED <<storeVars, index, ready, breaks, client, present>>

\* refresh: the new index replaces the old one as a whole.
SwapIndex ==
  /\ serve.pc = "load" /\ serve.listed = {}
  /\ index' = serve.loaded
  /\ ready' = TRUE
  /\ serve' = [NoLoad EXCEPT !.pc = "wait"]
  /\ UNCHANGED <<storeVars, breaks, client, present>>

\* A load that fails leaves the index as it was; the first one ends the server.
SwapPartial == index' = serve.loaded  \* mutant
KeepIndex == index' = index

GivesUp == IF ready THEN "over" ELSE "down"  \* mutant
AfterFailure == IF ready THEN "wait" ELSE "down"

LoadFails ==
  /\ serve.pc = "load" /\ breaks < MaxBreaks
  /\ breaks' = breaks + 1
  /\ serve' = [NoLoad EXCEPT !.pc = AfterFailure]
  /\ present' = IF ready THEN present ELSE {}
  /\ KeepIndex
  /\ UNCHANGED <<storeVars, ready, client>>

StopServer ==
  /\ serve.pc # "down" /\ breaks < MaxBreaks
  /\ breaks' = breaks + 1
  /\ serve' = NoLoad /\ index' = {} /\ ready' = FALSE /\ present' = {}
  /\ UNCHANGED <<storeVars, client>>

\* The writers.
Write ==
  /\ StoreNext
  /\ present' = present \cap visible'
  /\ UNCHANGED <<serve, index, ready, breaks, client>>

-----------------------------------------------------------------------------
(* serveHTTP, as a client meets it. *)

\* A narinfo is answered from the index of the moment.
GetNarinfo(h) ==
  /\ client.pc = "idle" /\ serve.pc # "down" /\ h \in Hashes(index)
  /\ client' = [pc |-> "nar", hash |-> h, from |-> Winner(index, h)]
  /\ UNCHANGED <<storeVars, serve, index, ready, breaks, present>>

\* The NAR is answered from the index of a later moment: 404 when no winning
\* entry names it.  Reading its blob may fail for any reason, which is a 502,
\* and a NAR that is being copied may break off.
Wants == Entries[client.from][client.hash]
NarAnswers ==
  IF serve.pc = "down" THEN {"refused"}
  ELSE IF Wants \notin Nars(index) THEN {"notFound"}
  ELSE {"badGateway"} \cup (IF Wants \in blobs THEN {"served", "brokenOff"} ELSE {})

GetNar ==
  /\ client.pc = "nar"
  /\ \E answer \in NarAnswers : client' = [NoRequest EXCEPT !.pc = answer]
  /\ UNCHANGED <<storeVars, serve, index, ready, breaks, present>>

Answers == {"refused", "notFound", "badGateway", "brokenOff", "served"}
Answered ==
  /\ client.pc \in Answers
  /\ client' = NoRequest
  /\ UNCHANGED <<storeVars, serve, index, ready, breaks, present>>

-----------------------------------------------------------------------------
Load == Tick \/ SwapIndex \/ \E r \in Push : FetchSegment(r)

Next ==
  \/ Write
  \/ StartServer \/ Load \/ LoadFails \/ StopServer
  \/ (\E h \in Hash : GetNarinfo(h)) \/ GetNar \/ Answered

Spec == Init /\ [][Next]_vars

\* The ticker fires, and each request of a load ends, by its timeout at worst.
FairSpec == Spec /\ WF_vars(StartServer) /\ WF_vars(Load)

-----------------------------------------------------------------------------
(* Properties. *)

\* The cache, the server and the request stay in their ranges.
ServeTypeOK ==
  /\ serve \in [pc : {"down", "load", "wait"}, listed : SUBSET Push, loaded : SUBSET Push]
  /\ index \subseteq Push /\ ready \in BOOLEAN /\ breaks \in 0..MaxBreaks
  /\ client \in [pc : {"idle", "nar"} \cup Answers,
                 hash : Hash \cup {None}, from : Push \cup {None}]
  /\ present \subseteq Push
TypeOK == StoreTypeOK /\ ServeTypeOK

\* "nix-cache-info ... a probe only passes once entries are queryable"
\* (serve.go:33-36): once it is ready, the server knows every segment that was
\* there when it started and still is, so that what is in the cache is not
\* built again.
NoFalseMiss == ready => present \subseteq index

\* A refresh never trades an entry for an older one while the newer segment
\* exists: a load that fails half way is not swapped in (serve.go:55-67,
\* registry.go:233-235).
RefreshMovesForward ==
  [][(index' # index /\ serve'.pc # "down") =>
       \A h \in Hashes(index) : Winner(index, h) \in visible =>
         /\ h \in Hashes(index')
         /\ ~Newer(Segment(Winner(index, h)), Segment(Winner(index', h)))]_vars

\* A 502 for a NAR that is there, or one that breaks off, may be mended by asking
\* again.  A client that was given a narinfo is refused its NAR otherwise only if
\* the segment it is from was pruned, a newer segment has replaced its entry, or
\* the server has been restarted since (serve.go:91-124).
Lasting(answer) ==
  answer \in {"refused", "notFound"} \/ (answer = "badGateway" /\ Wants \notin blobs)
NarFollowsNarinfo ==
  [][(client.pc = "nar" /\ Lasting(client'.pc)) =>
       \/ client.from \notin visible
       \/ ~ready
       \/ /\ client.hash \in Hashes(index)
          /\ Newer(Segment(Winner(index, client.hash)), Segment(client.from))]_vars

\* Tag by tag and with a whole new index or none, the server loads the segments
\* as fetchSegments promises (SegmentLoad), which Requests shows of the requests.
Loading == INSTANCE SegmentLoad WITH
  Tag <- Push,
  Wanted <- {r \in Push : AtHome(r)},
  pc <- IF serve.pc = "load" THEN "load" ELSE "idle",
  listed <- serve.listed,
  loaded <- serve.loaded,
  result <- index
ServeLoadsTagByTag == Loading!Spec

\* The server catches up: once pushes, prunes and failures are over, its index
\* is what the cache holds.
IndexCatchesUp == <>[](ready /\ index = HomeTags)
=============================================================================
