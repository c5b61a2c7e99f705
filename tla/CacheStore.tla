----------------------------- MODULE CacheStore -----------------------------
(***************************************************************************)
(* The writers of the Nix cache: any number of nixcache push and nixcache  *)
(* prune processes on one OCI repository (cmd/nixcache/registry.go,        *)
(* push.go, prune.go, ghcr.go).                                            *)
(*                                                                         *)
(*   visible      the tags that exist: a tag is the segment of one push    *)
(*   blobs        the blobs the registry holds: the NARs, by digest, and   *)
(*                the metadata of a segment, by the push it belongs to     *)
(*   created[r]   CreatedAt in the metadata of r                           *)
(*                                                                         *)
(* A request that timed out is repeated and one that failed ends the       *)
(* command (registryRequest); here a command may fail at any point.        *)
(***************************************************************************)
EXTENDS Retention, Functions

CONSTANTS
  Push,        \* the pushes, as numbers in the order of their tag strings
  Pruner,      \* the prune processes
  Hash,        \* store path hashes
  Digest,      \* NAR digests
  SystemOf, SnapshotOf, KeyOf,  \* what each push is for
  Entries,     \* Entries[r]: the closure it pushes, a function from hashes to digests
  MaxFailures  \* bound: prune runs that fail

ASSUME StoreAssumption ==
  /\ Push \subseteq Nat /\ IsFiniteSet(Push)
  /\ Push \cap Digest = {}
  /\ DOMAIN SystemOf = Push /\ DOMAIN SnapshotOf = Push /\ DOMAIN KeyOf = Push
  /\ MaxFailures \in Nat
  /\ \A r \in Push : DOMAIN Entries[r] \subseteq Hash /\ Range(Entries[r]) \subseteq Digest

VARIABLES
  visible, blobs, created,   \* the registry
  clock,                     \* the time, in push starts
  pushing, todo,             \* pushing[r]: how far r is; todo[r]: NARs still to upload
  prune,                     \* prune[p]: how far p is, and the lists it has built
  failures                   \* failed prune runs

storeVars == <<visible, blobs, created, clock, pushing, todo, prune, failures>>

NoPrune == [pc |-> "idle", listed |-> {}, loaded |-> {}, doomed |-> {}]

StoreInit ==
  /\ visible = {} /\ blobs = {}
  /\ created = [r \in Push |-> 0] /\ clock = 0
  /\ pushing = [r \in Push |-> "new"] /\ todo = [r \in Push |-> {}]
  /\ prune = [p \in Pruner |-> NoPrune] /\ failures = 0

NarsOf(r) == Range(Entries[r])

-----------------------------------------------------------------------------
(* pushSegment *)

\* CreatedAt is taken before the uploads, from a clock that no two pushes read
\* at the same nanosecond; the metadata blob goes first.
StartPush(r) ==
  /\ pushing[r] = "new"
  /\ clock' = clock + 1
  /\ created' = [created EXCEPT ![r] = clock + 1]
  /\ blobs' = blobs \cup {r}
  /\ pushing' = [pushing EXCEPT ![r] = "upload"]
  /\ todo' = [todo EXCEPT ![r] = DOMAIN Entries[r]]
  /\ UNCHANGED <<visible, prune, failures>>

\* pushFile: a NAR that exists is not uploaded again.
UploadNar(r, h) ==
  /\ pushing[r] = "upload" /\ h \in todo[r]
  /\ blobs' = blobs \cup {Entries[r][h]}
  /\ todo' = [todo EXCEPT ![r] = @ \ {h}]
  /\ UNCHANGED <<visible, created, clock, pushing, prune, failures>>

Unwaited(r) == pushing[r] = "upload"  \* mutant
AllUploaded(r) == todo[r] = {}

\* PushReference, under a tag of its own.  "done" says that the tag is there,
\* even if the answer is lost and the push exits with an error.
Publish(r) ==
  /\ pushing[r] = "upload" /\ AllUploaded(r)
  /\ visible' = visible \cup {r}
  /\ pushing' = [pushing EXCEPT ![r] = "done"]
  /\ UNCHANGED <<blobs, created, clock, todo, prune, failures>>

\* A failed upload cancels the others and nothing is published.
FailPush(r) ==
  /\ pushing[r] = "upload"
  /\ pushing' = [pushing EXCEPT ![r] = "failed"]
  /\ todo' = [todo EXCEPT ![r] = {}]
  /\ UNCHANGED <<visible, blobs, created, clock, prune, failures>>

-----------------------------------------------------------------------------
(* pruneCache *)

Segment(r) == [tag |-> r, system |-> SystemOf[r], snapshot |-> SnapshotOf[r],
               key |-> KeyOf[r], at |-> created[r]]
Segments(S) == {Segment(r) : r \in S}

\* listTags; with no tag there is nothing to prune.
ListTags(p) ==
  /\ prune[p].pc = "idle" /\ visible # {}
  /\ prune' = [prune EXCEPT ![p].pc = "load", ![p].listed = visible]
  /\ UNCHANGED <<visible, blobs, created, clock, pushing, todo, failures>>

\* getSegment is two requests, the manifest by its tag and then the metadata: a
\* tag that is gone by now is skipped, or still read if its manifest was.
MaySkip(r) == {{r}, {}}  \* mutant
Read(r) == IF r \in visible THEN {{r}} ELSE {{r}, {}}

\* fetchSegments
LoadSegment(p, r) ==
  /\ prune[p].pc = "load" /\ r \in prune[p].listed
  /\ \E S \in Read(r) :
       prune' = [prune EXCEPT ![p].listed = @ \ {r}, ![p].loaded = @ \cup S]
  /\ UNCHANGED <<visible, blobs, created, clock, pushing, todo, failures>>

\* segmentsToDelete
DoomedOrZero(S) ==  \* mutant
  {{g.tag : g \in D} \cup {0} : D \in Deletions(Segments(S))}
Doomed(S) == {{g.tag : g \in D} : D \in Deletions(Segments(S))}

Decide(p) ==
  /\ prune[p].pc = "load" /\ prune[p].listed = {}
  /\ \E D \in Doomed(prune[p].loaded) :
       prune' = [prune EXCEPT ![p] = IF D = {} THEN NoPrune
                                     ELSE [@ EXCEPT !.pc = "map", !.doomed = D]]
  /\ UNCHANGED <<visible, blobs, created, clock, pushing, todo, failures>>

\* versionsByTag, and the check that every doomed tag has a version, before the
\* first is deleted.
OnFirstPage(p) ==  \* mutant
  visible # {} /\ prune[p].doomed \subseteq {CHOOSE r \in visible : TRUE}
Mapped(p) == prune[p].doomed \subseteq visible

MapVersions(p) ==
  /\ prune[p].pc = "map"
  /\ prune' = [prune EXCEPT ![p] = IF Mapped(p)
                                   THEN [@ EXCEPT !.pc = "delete"] ELSE NoPrune]
  /\ UNCHANGED <<visible, blobs, created, clock, pushing, todo, failures>>

\* deleteVersions, in any order; a version that is gone is an error.
Delete(p, r) ==
  /\ prune[p].pc = "delete" /\ r \in prune[p].doomed
  /\ IF r \in visible
     THEN /\ visible' = visible \ {r}
          /\ prune' = [prune EXCEPT ![p].doomed = @ \ {r}]
     ELSE visible' = visible /\ prune' = [prune EXCEPT ![p] = NoPrune]
  /\ UNCHANGED <<blobs, created, clock, pushing, todo, failures>>

PruneDone(p) ==
  /\ prune[p].pc = "delete" /\ prune[p].doomed = {}
  /\ prune' = [prune EXCEPT ![p] = NoPrune]
  /\ UNCHANGED <<visible, blobs, created, clock, pushing, todo, failures>>

\* Any request may fail, or the process be killed.
FailPrune(p) ==
  /\ prune[p].pc # "idle" /\ failures < MaxFailures
  /\ failures' = failures + 1
  /\ prune' = [prune EXCEPT ![p] = NoPrune]
  /\ UNCHANGED <<visible, blobs, created, clock, pushing, todo>>

-----------------------------------------------------------------------------
(* The registry drops blobs no tag refers to.  It is taken to spare those that *)
(* a push in progress has uploaded or found: pushFile does not look again.     *)
Touched(r) == {r} \cup {Entries[r][h] : h \in DOMAIN Entries[r] \ todo[r]}
InUse == UNION ({{r} \cup NarsOf(r) : r \in visible}
                 \cup {Touched(r) : r \in {q \in Push : pushing[q] = "upload"}})

CollectBlobs ==
  /\ blobs \ InUse # {}
  /\ blobs' = blobs \cap InUse
  /\ UNCHANGED <<visible, created, clock, pushing, todo, prune, failures>>

-----------------------------------------------------------------------------
PushStep(r) ==
  \/ StartPush(r) \/ Publish(r) \/ FailPush(r)
  \/ \E h \in Hash : UploadNar(r, h)
\* What a prune does of itself, once it is started.
PruneStep(p) ==
  \/ ListTags(p) \/ Decide(p) \/ MapVersions(p) \/ PruneDone(p)
  \/ \E r \in Push : LoadSegment(p, r) \/ Delete(p, r)

StoreNext ==
  \/ \E r \in Push : PushStep(r)
  \/ \E p \in Pruner : PruneStep(p) \/ FailPrune(p)
  \/ CollectBlobs

StoreSpec == StoreInit /\ [][StoreNext]_storeVars

\* A prune runs every day (prune-nix-cache.yaml:7-8), and its requests end.
FairPrunes == \A p \in Pruner : WF_storeVars(PruneStep(p))
FairStoreSpec == StoreSpec /\ FairPrunes

-----------------------------------------------------------------------------
(* Properties. *)

\* A prune dooms only what it has loaded.
PruneState ==
  {s \in [pc : {"idle", "load", "map", "delete"}, listed : SUBSET Push,
          loaded : SUBSET Push, doomed : SUBSET Push] : s.doomed \subseteq s.loaded}

\* The variables stay in their ranges.
StoreTypeOK ==
  /\ visible \subseteq Push
  /\ blobs \subseteq Push \cup Digest
  /\ created \in [Push -> Nat] /\ clock \in Nat
  /\ pushing \in [Push -> {"new", "upload", "done", "failed"}]
  /\ todo \in [Push -> SUBSET Hash]
  /\ prune \in [Pruner -> PruneState]
  /\ failures \in Nat

\* A tag that is visible is complete: its metadata and all its NARs are in the
\* registry, whichever push uploaded them, whatever failed, and whatever was
\* collected since (registry.go:422-481).
VisibleIsWhole ==
  \A r \in visible : {r} \cup NarsOf(r) \subseteq blobs

\* Prunes that overlap with pushes and with each other, from listings that are
\* out of date and from runs cut short, never take the newest published segment
\* of a package, unless Keep other snapshots of its system have newer ones
\* (docs/release-model.md:36-37, prune.go:36-40).
Published == {r \in Push : pushing[r] = "done"}
NewerSnapshots(r) ==
  {SnapshotOf[q] : q \in {q \in Published : /\ SystemOf[q] = SystemOf[r]
                                            /\ created[q] > created[r]}}
    \ {SnapshotOf[r]}
IsNewestOfPackage(r) ==
  \A q \in Published :
    (SystemOf[q] = SystemOf[r] /\ SnapshotOf[q] = SnapshotOf[r] /\ KeyOf[q] = KeyOf[r])
      => created[q] <= created[r]
NewestStays ==
  \A r \in Published :
    IsNewestOfPackage(r) /\ Cardinality(NewerSnapshots(r)) < Keep => r \in visible

\* Once pushes and failures are over, the prunes bring the cache down to what
\* the retention rule keeps, and it stays there.
PruneCatchesUp == <>[](Doomed(visible) = {{}})
=============================================================================
