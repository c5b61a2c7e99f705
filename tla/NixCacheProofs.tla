--------------------------- MODULE NixCacheProofs ---------------------------
(***************************************************************************)
(* What holds of the cache for any pushes and any number of prunes, and    *)
(* what a server promises its clients, for any writers of the cache.       *)
(***************************************************************************)
EXTENDS NixCache, FiniteSetTheorems, WellFoundedInduction, TLAPS

-----------------------------------------------------------------------------
(* The retention rule. *)

\* The newest segment of a package passes retainedSegmentsByPackage: no segment
\* is before it in the order that counts PackageKeep.
LEMMA NewestRetained ==
  ASSUME NEW S, NEW g \in S, \A h \in Group(S, g) : ~Newer(h, g)
  PROVE  Retained(S, g)
<1>1. {h \in Group(S, g) : Newer(h, g)} = {}
  OBVIOUS
<1>2. Cardinality({h \in Group(S, g) : Newer(h, g)}) = 0
  BY <1>1, FS_EmptySet
<1>. QED
  BY <1>2, RetentionAssumption DEF Retained, AmongFirst

\* keptSnapshots drops a snapshot only for Keep others.
LEMMA DroppedForOthers ==
  ASSUME NEW S, NEW y, IsFiniteSet(Snapshots(S, y)),
         NEW K \in KeptSnapshots(S, y), NEW s \in Snapshots(S, y) \ K
  PROVE  /\ Cardinality(K) = Keep
         /\ \A t \in K : AsNew(S, y, t, s)
<1>. DEFINE n == Cardinality(Snapshots(S, y))
<1>1. K \in SUBSET Snapshots(S, y) /\ Cardinality(K) = (IF n < Keep THEN n ELSE Keep)
  BY DEF KeptSnapshots, Few
<1>2. Cardinality(K) # n
  BY <1>1, FS_Subset
<1>3. \A t \in K : AsNew(S, y, t, s)
  BY DEF KeptSnapshots
<1>. QED
  BY <1>1, <1>2, <1>3

-----------------------------------------------------------------------------
(* Deletion lists. *)

\* A prune only deletes what it has loaded.
LEMMA DoomedWithin ==
  ASSUME NEW S, NEW D \in Doomed(S)
  PROVE  D \subseteq S
<1>1. PICK D0 \in Deletions(Segments(S)) : D = {g.tag : g \in D0}
  BY DEF Doomed
<1>2. D0 \subseteq Segments(S)
  BY DEF Deletions, ToDelete
<1>. QED
  BY <1>1, <1>2 DEF Segments, Segment

\* The snapshots of some pushes are finitely many.
LEMMA SnapshotsFinite ==
  ASSUME NEW S \in SUBSET Push
  PROVE  IsFiniteSet({SnapshotOf[q] : q \in S})
<1>. DEFINE T == {SnapshotOf[q] : q \in S}
            f == [q \in S |-> SnapshotOf[q]]
<1>1. IsFiniteSet(S)
  BY FS_Subset, StoreAssumption
<1>2. f \in Surjection(S, T)
  BY DEF Surjection
<1>. HIDE DEF f, T
<1>3. IsFiniteSet(T)
  BY <1>1, <1>2, FS_Surjection
<1>. QED
  BY <1>3 DEF T

-----------------------------------------------------------------------------
(* Types. *)

\* Every push has only NARs of its own to upload.
TypeInv ==
  /\ StoreTypeOK
  /\ \A r \in Push : todo[r] \subseteq DOMAIN Entries[r]

LEMMA StoreTypeInit == StoreInit => TypeInv
BY StoreAssumption DEF StoreInit, StoreTypeOK, TypeInv, NoPrune, PruneState

\* A step of one prune leaves the others' state alone and its own well-formed.
LEMMA PruneStateStep ==
  ASSUME StoreTypeOK, NEW p \in Pruner, PruneStep(p) \/ FailPrune(p)
  PROVE  /\ prune'[p] \in PruneState
         /\ prune' = [prune EXCEPT ![p] = prune'[p]]
<1>0. prune \in [Pruner -> PruneState] /\ visible \subseteq Push
  BY DEF StoreTypeOK, PruneState
<1>. prune[p] \in PruneState
  BY <1>0
<1>a. NoPrune \in PruneState
  BY DEF NoPrune, PruneState
<1>1. CASE ListTags(p)
  <2>1. prune' = [prune EXCEPT ![p] = [@ EXCEPT !.pc = "load", !.listed = visible]]
    BY <1>1, <1>0 DEF ListTags
  <2>2. [prune[p] EXCEPT !.pc = "load", !.listed = visible] \in PruneState
    BY <1>0 DEF PruneState
  <2>. QED
    BY <2>1, <2>2, <1>0
<1>2. CASE \E r \in Push : LoadSegment(p, r)
  <2>. PICK r \in Push : LoadSegment(p, r)
    BY <1>2
  <2>0. PICK S \in Read(r) :
          prune' = [prune EXCEPT ![p].listed = @ \ {r}, ![p].loaded = @ \cup S]
    BY DEF LoadSegment
  <2>. DEFINE L == prune[p].loaded \cup S
              M == prune[p].listed \ {r}
  <2>1. prune' = [prune EXCEPT ![p] = [@ EXCEPT !.listed = M, !.loaded = L]]
    BY <1>0, <2>0
  <2>2. L \subseteq Push /\ M \subseteq Push /\ prune[p].doomed \subseteq L
    BY DEF PruneState, Read
  <2>. HIDE DEF L, M
  <2>3. [prune[p] EXCEPT !.listed = M, !.loaded = L] \in PruneState
    BY <2>2 DEF PruneState
  <2>. QED
    BY <2>1, <2>3, <1>0
<1>3. CASE Decide(p)
  <2>1. PICK D \in Doomed(prune[p].loaded) :
          prune' = [prune EXCEPT ![p] = IF D = {} THEN NoPrune
                                        ELSE [@ EXCEPT !.pc = "map", !.doomed = D]]
    BY <1>3 DEF Decide
  <2>2. D \subseteq prune[p].loaded
    BY DoomedWithin
  <2>3. [prune[p] EXCEPT !.pc = "map", !.doomed = D] \in PruneState
    BY <2>2 DEF PruneState
  <2>. QED
    BY <2>1, <2>3, <1>0, <1>a
<1>4. CASE MapVersions(p)
  <2>1. [prune[p] EXCEPT !.pc = "delete"] \in PruneState
    BY DEF PruneState
  <2>. QED
    BY <1>4, <2>1, <1>0, <1>a DEF MapVersions
<1>5. CASE \E r \in Push : Delete(p, r)
  <2>. PICK r \in Push : Delete(p, r)
    BY <1>5
  <2>. DEFINE M == prune[p].doomed \ {r}
  <2>1. \/ prune' = [prune EXCEPT ![p] = [@ EXCEPT !.doomed = M]]
        \/ prune' = [prune EXCEPT ![p] = NoPrune]
    <3>1. CASE r \in visible
      BY <3>1, <1>0 DEF Delete
    <3>2. CASE r \notin visible
      BY <3>2 DEF Delete
    <3>. QED
      BY <3>1, <3>2
  <2>2. M \subseteq Push /\ M \subseteq prune[p].loaded
    BY DEF PruneState
  <2>. HIDE DEF M
  <2>3. [prune[p] EXCEPT !.doomed = M] \in PruneState
    BY <2>2 DEF PruneState
  <2>. QED
    BY <2>1, <2>3, <1>0, <1>a
<1>6. CASE PruneDone(p) \/ FailPrune(p)
  BY <1>6, <1>0, <1>a DEF PruneDone, FailPrune
<1>. QED
  BY <1>1, <1>2, <1>3, <1>4, <1>5, <1>6 DEF PruneStep

\* Of the registry, a prune only takes tags away.
LEMMA PruneStepFrame ==
  ASSUME NEW p \in Pruner, PruneStep(p) \/ FailPrune(p)
  PROVE  /\ visible' \subseteq visible
         /\ UNCHANGED <<blobs, created, clock, pushing, todo>>
         /\ failures' = failures \/ failures' = failures + 1
<1>1. CASE ListTags(p) \/ Decide(p) \/ MapVersions(p) \/ PruneDone(p) \/ FailPrune(p)
  BY <1>1 DEF ListTags, Decide, MapVersions, PruneDone, FailPrune
<1>2. CASE \E r \in Push : LoadSegment(p, r)
  BY <1>2 DEF LoadSegment
<1>3. CASE \E r \in Push : Delete(p, r)
  BY <1>3 DEF Delete
<1>. QED
  BY <1>1, <1>2, <1>3 DEF PruneStep

LEMMA StoreTypeStep == TypeInv /\ [StoreNext]_storeVars => TypeInv'
<1>. SUFFICES ASSUME TypeInv, [StoreNext]_storeVars PROVE TypeInv'
  OBVIOUS
<1>0. StoreTypeOK
  BY DEF TypeInv
<1>1. CASE \E r \in Push : PushStep(r)
  <2>. PICK r \in Push : PushStep(r)
    BY <1>1
  <2>1. CASE StartPush(r)
    BY <2>1, StoreAssumption DEF TypeInv, StoreTypeOK, StartPush
  <2>2. CASE \E h \in Hash : UploadNar(r, h)
    <3>. PICK h \in Hash : UploadNar(r, h)
      BY <2>2
    <3>1. Entries[r][h] \in Digest
      BY StoreAssumption DEF Range, UploadNar, TypeInv
    <3>. QED
      BY <3>1 DEF TypeInv, StoreTypeOK, UploadNar
  <2>3. CASE Publish(r)
    BY <2>3 DEF TypeInv, StoreTypeOK, Publish
  <2>4. CASE FailPush(r)
    BY <2>4 DEF TypeInv, StoreTypeOK, FailPush
  <2>. QED
    BY <2>1, <2>2, <2>3, <2>4 DEF PushStep
<1>2. CASE \E p \in Pruner : PruneStep(p) \/ FailPrune(p)
  <2>. PICK p \in Pruner : PruneStep(p) \/ FailPrune(p)
    BY <1>2
  <2>1. prune' \in [Pruner -> PruneState]
    BY <1>0, PruneStateStep DEF StoreTypeOK, PruneState
  <2>2. failures' \in Nat
    BY <1>0, PruneStepFrame DEF StoreTypeOK
  <2>. QED
    BY <2>1, <2>2, PruneStepFrame DEF TypeInv, StoreTypeOK, PruneState
<1>3. CASE CollectBlobs
  BY <1>3 DEF TypeInv, StoreTypeOK, CollectBlobs
<1>4. CASE UNCHANGED storeVars
  BY <1>4 DEF TypeInv, StoreTypeOK, storeVars
<1>. QED
  BY <1>1, <1>2, <1>3, <1>4 DEF StoreNext

LEMMA TypeInvAlways == StoreSpec => []TypeInv
BY StoreTypeInit, StoreTypeStep, PTL DEF StoreSpec

\* The state of the cache and its writers stays well-typed; in particular a
\* prune dooms only tags of segments it has loaded (prune.go:93-108).
THEOREM StoreTypeCorrect == StoreSpec => []StoreTypeOK
<1>1. TypeInv => StoreTypeOK
  BY DEF TypeInv
<1>. QED
  BY <1>1, TypeInvAlways, PTL

-----------------------------------------------------------------------------
(* Complete tags. *)

\* The inductive form of VisibleIsWhole: a tag is there only once its push has
\* published it, and a push that is still uploading finds all it has uploaded so
\* far.
WholeInv ==
  /\ TypeInv
  /\ \A r \in visible : pushing[r] = "done"
  /\ VisibleIsWhole
  /\ \A r \in Push : pushing[r] = "upload" => Touched(r) \subseteq blobs

LEMMA WholeInit == StoreInit => WholeInv
<1>. SUFFICES ASSUME StoreInit PROVE WholeInv
  OBVIOUS
<1>1. TypeInv
  BY StoreTypeInit
<1>. QED
  BY <1>1 DEF StoreInit, WholeInv, VisibleIsWhole

\* A push that is done with its uploads has put all its NARs there.
LEMMA UploadsAreWhole ==
  ASSUME NEW r \in Push, AllUploaded(r)
  PROVE  Touched(r) = {r} \cup NarsOf(r)
BY DEF Touched, NarsOf, AllUploaded, Range

LEMMA WholeStep == WholeInv /\ [StoreNext]_storeVars => WholeInv'
<1>. SUFFICES ASSUME WholeInv, [StoreNext]_storeVars PROVE WholeInv'
  OBVIOUS
<1>. USE DEF WholeInv
<1>t. TypeInv'
  BY StoreTypeStep
<1>v. visible \subseteq Push /\ pushing \in [Push -> {"new", "upload", "done", "failed"}]
      /\ todo \in [Push -> SUBSET Hash]
  BY DEF TypeInv, StoreTypeOK
<1>1. CASE \E r \in Push : PushStep(r)
  <2>. PICK r \in Push : PushStep(r)
    BY <1>1
  <2>1. CASE StartPush(r)
    <3>1. \A q \in Push : q # r => Touched(q)' = Touched(q)
      BY <2>1, <1>v DEF StartPush, Touched
    <3>2. Touched(r)' = {r}
      BY <2>1, <1>v DEF StartPush, Touched
    <3>. QED
      BY <2>1, <3>1, <3>2, <1>t, <1>v DEF StartPush, VisibleIsWhole, NarsOf
  <2>2. CASE \E h \in Hash : UploadNar(r, h)
    <3>. PICK h \in Hash : UploadNar(r, h)
      BY <2>2
    <3>1. \A q \in Push : q # r => Touched(q)' = Touched(q)
      BY <1>v DEF UploadNar, Touched
    <3>2. Touched(r)' \subseteq Touched(r) \cup {Entries[r][h]}
      BY <1>v DEF UploadNar, Touched
    <3>. QED
      BY <3>1, <3>2, <1>t, <1>v DEF UploadNar, VisibleIsWhole, NarsOf
  <2>3. CASE Publish(r)
    <3>1. {r} \cup NarsOf(r) \subseteq blobs
      BY <2>3, UploadsAreWhole DEF Publish
    <3>. QED
      BY <2>3, <3>1, <1>t, <1>v DEF Publish, VisibleIsWhole, NarsOf, Touched
  <2>4. CASE FailPush(r)
    <3>1. \A q \in Push : q # r => Touched(q)' = Touched(q)
      BY <2>4, <1>v DEF FailPush, Touched
    <3>. QED
      BY <2>4, <3>1, <1>t, <1>v DEF FailPush, VisibleIsWhole, NarsOf
  <2>. QED
    BY <2>1, <2>2, <2>3, <2>4 DEF PushStep
<1>2. CASE \E p \in Pruner : PruneStep(p) \/ FailPrune(p)
  <2>1. visible' \subseteq visible /\ UNCHANGED <<blobs, pushing, todo>>
    BY <1>2, PruneStepFrame
  <2>. QED
    BY <2>1, <1>t DEF VisibleIsWhole, NarsOf, Touched
<1>3. CASE CollectBlobs
  <2>1. \A r \in visible : {r} \cup NarsOf(r) \subseteq InUse
    BY DEF InUse
  <2>2. \A r \in Push : pushing[r] = "upload" => Touched(r) \subseteq InUse
    BY DEF InUse
  <2>3. \A r \in Push : Touched(r)' = Touched(r)
    BY <1>3 DEF CollectBlobs, Touched
  <2>4. blobs' = blobs \cap InUse /\ UNCHANGED <<visible, pushing>>
    BY <1>3 DEF CollectBlobs
  <2>. QED
    BY <2>1, <2>2, <2>3, <2>4, <1>t DEF VisibleIsWhole, NarsOf
<1>4. CASE UNCHANGED storeVars
  BY <1>4, <1>t DEF storeVars, VisibleIsWhole, NarsOf, Touched
<1>. QED
  BY <1>1, <1>2, <1>3, <1>4 DEF StoreNext

\* A tag that can be seen is complete, with any closures shared between any
\* pushes, whatever fails and whatever the registry collects (registry.go:422-481).
THEOREM VisibleStaysWhole == StoreSpec => []VisibleIsWhole
<1>1. WholeInv => VisibleIsWhole
  BY DEF WholeInv
<1>. QED
  BY <1>1, WholeInit, WholeStep, PTL DEF StoreSpec

-----------------------------------------------------------------------------
(* The newest segments. *)

\* Started pushes have their own times, none in the future.
ClocksOK ==
  /\ \A r \in Push : pushing[r] # "new" => created[r] <= clock
  /\ \A q, r \in Push : pushing[q] # "new" /\ pushing[r] # "new" /\ created[q] = created[r]
       => q = r

\* r has been replaced: by a newer segment of its package, or of Keep other
\* snapshots.
Replaced(r) == ~(IsNewestOfPackage(r) /\ Cardinality(NewerSnapshots(r)) < Keep)

\* The inductive form of NewestStays: prunes only hold published segments and
\* only mean to delete replaced ones, and only replaced ones have been deleted.
NewestInv ==
  /\ TypeInv
  /\ ClocksOK
  /\ visible \subseteq Published
  /\ \A p \in Pruner : \A L \in {prune[p].listed, prune[p].loaded, prune[p].doomed} :
       L \subseteq Published
  /\ \A p \in Pruner : \A r \in prune[p].doomed : Replaced(r)
  /\ NewestStays

LEMMA NewestInit == StoreInit => NewestInv
<1>. SUFFICES ASSUME StoreInit PROVE NewestInv
  OBVIOUS
<1>1. TypeInv
  BY StoreTypeInit
<1>2. ClocksOK /\ visible \subseteq Published
  BY DEF StoreInit, ClocksOK
<1>3. \A p \in Pruner : prune[p] = NoPrune
  BY DEF StoreInit
<1>4. NewestStays
  BY DEF StoreInit, NewestStays, Published
<1>. QED
  BY <1>1, <1>2, <1>3, <1>4 DEF NewestInv, NoPrune

\* Other snapshots with newer segments are finitely many.
LEMMA NewerFinite ==
  ASSUME NEW r
  PROVE  /\ IsFiniteSet(NewerSnapshots(r)) /\ Cardinality(NewerSnapshots(r)) \in Nat
         /\ IsFiniteSet(NewerSnapshots(r)') /\ Cardinality(NewerSnapshots(r)') \in Nat
<1>. DEFINE All == {SnapshotOf[q] : q \in Push}
<1>1. IsFiniteSet(All)
  BY SnapshotsFinite
<1>2. NewerSnapshots(r) \in SUBSET All /\ NewerSnapshots(r)' \in SUBSET All
  BY DEF NewerSnapshots, Published
<1>. HIDE DEF All
<1>. QED
  BY <1>1, <1>2, FS_Subset, FS_CardinalityType

\* Whatever part of the published segments a prune has loaded, it takes for
\* deletion only replaced ones (prune.go:93-223).
LEMMA DoomedReplaced ==
  ASSUME StoreTypeOK, ClocksOK, NEW S \in SUBSET Published, NEW D \in Doomed(S),
         NEW r \in D
  PROVE  Replaced(r)
<1>. DEFINE segs == Segments(S)
            y == SystemOf[r]
            s == SnapshotOf[r]
<1>1. PICK D0 \in Deletions(segs) : D = {g.tag : g \in D0}
  BY DEF Doomed
<1>2. PICK kept \in Choices(segs) : D0 = ToDelete(segs, kept)
  BY DEF Deletions
<1>3. S \subseteq Push /\ r \in S
  BY DoomedWithin DEF Published
<1>4. Segment(r) \in ToDelete(segs, kept)
  <2>1. PICK g \in D0 : g.tag = r
    BY <1>1
  <2>2. g \in Segments(S)
    BY <1>2 DEF ToDelete
  <2>. QED
    BY <1>2, <2>1, <2>2 DEF Segments, Segment
<1>5. \A q \in S : created[q] = created[r] => q = r
  BY <1>3 DEF ClocksOK, Published
<1>6. \A q \in S : created[q] \in Nat
  BY <1>3 DEF StoreTypeOK
<1>a. /\ Segment(r) \in segs /\ Segment(r).system = y
      /\ Segment(r).snapshot = s /\ Segment(r).at = created[r]
  BY <1>3 DEF Segments, Segment
<1>7. CASE s \notin kept[y]
  <2>. DEFINE K == kept[y]
  <2>1. y \in Systems(segs) /\ s \in Snapshots(segs, y)
    BY <1>a DEF Systems, Snapshots, Of
  <2>2. K \in KeptSnapshots(segs, y)
    BY <2>1 DEF Choices
  <2>3. IsFiniteSet(Snapshots(segs, y))
    <3>. DEFINE All == {SnapshotOf[q] : q \in Push}
    <3>1. IsFiniteSet(All)
      BY SnapshotsFinite
    <3>2. Snapshots(segs, y) \in SUBSET All
      BY <1>3 DEF Snapshots, Of, Segments, Segment
    <3>. HIDE DEF All
    <3>. QED
      BY <3>1, <3>2, FS_Subset
  <2>4. s \in Snapshots(segs, y) \ K
    BY <2>1, <1>7
  <2>5. Cardinality(K) = Keep /\ \A t \in K : AsNew(segs, y, t, s)
    <3>. HIDE DEF K, s, y, segs
    <3>. QED
      BY <2>2, <2>3, <2>4, DroppedForOthers
  <2>6. K \subseteq NewerSnapshots(r)
    <3>. SUFFICES ASSUME NEW t \in K PROVE t \in NewerSnapshots(r)
      OBVIOUS
    <3>1. PICK a \in Of(segs, y) : a.snapshot = t /\ a.at >= created[r]
      <4>1. Segment(r) \in Of(segs, y) /\ Segment(r).snapshot = s /\ Segment(r).at = created[r]
        BY <1>a DEF Of
      <4>. QED
        BY <4>1, <2>5 DEF AsNew
    <3>2. PICK q \in S : a = Segment(q)
      BY DEF Of, Segments
    <3>3. SystemOf[q] = y /\ SnapshotOf[q] = t /\ created[q] >= created[r]
      BY <3>1, <3>2 DEF Of, Segment
    <3>4. t # s
      BY <1>7
    <3>5. created[q] > created[r]
      BY <3>3, <3>4, <1>3, <1>5, <1>6
    <3>. QED
      BY <3>3, <3>4, <3>5 DEF NewerSnapshots
  <2>7. Cardinality(NewerSnapshots(r)) >= Keep
    BY <2>5, <2>6, NewerFinite, FS_Subset
  <2>. QED
    BY <2>7, NewerFinite, RetentionAssumption DEF Replaced
<1>8. CASE s \in kept[y]
  <2>1. ~Retained(segs, Segment(r))
    BY <1>4, <1>8 DEF ToDelete, Segment
  <2>3. PICK h \in Group(segs, Segment(r)) : Newer(h, Segment(r))
    <3>. HIDE DEF segs
    <3>. QED
      BY <2>1, <1>a, NewestRetained
  <2>4. PICK q \in S : h = Segment(q)
    BY DEF Group, Segments
  <2>5. SystemOf[q] = y /\ SnapshotOf[q] = s /\ KeyOf[q] = KeyOf[r]
    BY <2>4 DEF Group, Segment
  <2>6. created[q] > created[r]
    <3>1. created[q] > created[r] \/ (created[q] = created[r] /\ q > r)
      BY <2>3, <2>4 DEF Newer, Segment
    <3>. QED
      BY <3>1, <1>3, <1>5, <1>6, StoreAssumption
  <2>. QED
    BY <2>5, <2>6, <1>3, <1>6 DEF Replaced, IsNewestOfPackage
<1>. QED
  BY <1>7, <1>8

\* A segment that has been replaced stays so: more segments are published, and
\* none changes its time.
LEMMA ReplacedStays ==
  ASSUME Published \subseteq Published', \A q \in Published : created'[q] = created[q],
         NEW r \in Published, Replaced(r)
  PROVE  Replaced(r)'
<1>1. IsNewestOfPackage(r)' => IsNewestOfPackage(r)
  BY DEF IsNewestOfPackage
<1>2. NewerSnapshots(r) \subseteq NewerSnapshots(r)'
  BY DEF NewerSnapshots
<1>3. Cardinality(NewerSnapshots(r)) <= Cardinality(NewerSnapshots(r)')
  BY <1>2, NewerFinite, FS_Subset
<1>4. Cardinality(NewerSnapshots(r))' = Cardinality(NewerSnapshots(r)')
  OBVIOUS
<1>5. Cardinality(NewerSnapshots(r)') < Keep => Cardinality(NewerSnapshots(r)) < Keep
  BY <1>3, NewerFinite, RetentionAssumption
<1>. QED
  BY <1>1, <1>4, <1>5 DEF Replaced

\* No step unpublishes a segment or changes its time.
LEMMA PublishedGrows ==
  ASSUME TypeInv, ClocksOK, [StoreNext]_storeVars
  PROVE  /\ ClocksOK'
         /\ Published \subseteq Published'
         /\ \A q \in Published : created'[q] = created[q]
<1>t. /\ created \in [Push -> Nat] /\ clock \in Nat
      /\ pushing \in [Push -> {"new", "upload", "done", "failed"}]
  BY DEF TypeInv, StoreTypeOK
<1>1. ASSUME NEW r \in Push, StartPush(r)
      PROVE  ClocksOK' /\ Published \subseteq Published'
             /\ \A q \in Published : created'[q] = created[q]
  <2>1. pushing' = [pushing EXCEPT ![r] = "upload"] /\ clock' = clock + 1
        /\ created' = [created EXCEPT ![r] = clock + 1] /\ pushing[r] = "new"
    BY <1>1 DEF StartPush
  <2>2. \A q \in Push : q # r => pushing'[q] = pushing[q] /\ created'[q] = created[q]
    BY <2>1, <1>t
  <2>3. \A q \in Push : pushing[q] # "new" => created[q] <= clock
    BY DEF ClocksOK
  <2>4. \A q \in Push : pushing'[q] # "new" => created'[q] <= clock'
    BY <2>1, <2>2, <2>3, <1>t
  <2>5. \A q \in Push : pushing'[q] # "new" /\ created'[q] = created'[r] => q = r
    BY <2>1, <2>2, <2>3, <1>t
  <2>6. ClocksOK'
    BY <2>2, <2>4, <2>5 DEF ClocksOK
  <2>. QED
    BY <2>1, <2>2, <2>6, <1>t DEF Published
<1>2. CASE \E r \in Push : PushStep(r) /\ ~StartPush(r)
  <2>1. PICK r \in Push : pushing[r] = "upload" /\ UNCHANGED <<created, clock>>
              /\ pushing' \in {pushing, [pushing EXCEPT ![r] = "done"],
                               [pushing EXCEPT ![r] = "failed"]}
    BY <1>2 DEF PushStep, UploadNar, Publish, FailPush
  <2>2. \A q \in Push : pushing[q] = "new" <=> pushing'[q] = "new"
    BY <2>1, <1>t
  <2>3. ClocksOK'
    BY <2>1, <2>2 DEF ClocksOK
  <2>. QED
    BY <2>1, <2>3, <1>t DEF Published
<1>3. CASE \E p \in Pruner : PruneStep(p) \/ FailPrune(p)
  <2>1. UNCHANGED <<created, clock, pushing>>
    BY <1>3, PruneStepFrame
  <2>. QED
    BY <2>1 DEF ClocksOK, Published
<1>4. CASE CollectBlobs \/ UNCHANGED storeVars
  BY <1>4 DEF CollectBlobs, storeVars, ClocksOK, Published
<1>. QED
  BY <1>1, <1>2, <1>3, <1>4 DEF StoreNext

\* The state of a prune after a step of it, where it differs.
LEMMA PruneHolds ==
  ASSUME NewestInv, NEW p \in Pruner, PruneStep(p) \/ FailPrune(p)
  PROVE  /\ \A L \in {prune'[p].listed, prune'[p].loaded, prune'[p].doomed} :
              L \subseteq Published
         /\ \A r \in prune'[p].doomed : Replaced(r)
<1>t. prune \in [Pruner -> PruneState] /\ prune[p] \in PruneState
  BY DEF NewestInv, TypeInv, StoreTypeOK, PruneState
<1>i. /\ visible \subseteq Published /\ prune[p].listed \subseteq Published
      /\ prune[p].loaded \subseteq Published /\ prune[p].doomed \subseteq Published
      /\ \A r \in prune[p].doomed : Replaced(r)
  BY DEF NewestInv
<1>n. NoPrune.listed = {} /\ NoPrune.loaded = {} /\ NoPrune.doomed = {}
  BY DEF NoPrune
<1>1. CASE ListTags(p)
  <2>1. /\ prune'[p].listed = visible /\ prune'[p].loaded = prune[p].loaded
        /\ prune'[p].doomed = prune[p].doomed
    BY <1>1, <1>t DEF ListTags, PruneState
  <2>. QED
    BY <2>1, <1>i
<1>2. CASE \E r \in Push : LoadSegment(p, r)
  <2>1. /\ prune'[p].listed \subseteq prune[p].listed
        /\ prune'[p].loaded \subseteq prune[p].loaded \cup prune[p].listed
        /\ prune'[p].doomed = prune[p].doomed
    BY <1>2, <1>t DEF LoadSegment, PruneState, Read
  <2>. QED
    BY <2>1, <1>i
<1>3. CASE Decide(p)
  <2>1. PICK D \in Doomed(prune[p].loaded) :
          prune' = [prune EXCEPT ![p] = IF D = {} THEN NoPrune
                                        ELSE [@ EXCEPT !.pc = "map", !.doomed = D]]
    BY <1>3 DEF Decide
  <2>2. /\ prune'[p].listed \subseteq prune[p].listed
        /\ prune'[p].loaded \subseteq prune[p].loaded
        /\ prune'[p].doomed \subseteq D
    BY <2>1, <1>t, <1>n DEF PruneState
  <2>3. \A r \in D : Replaced(r)
    BY <1>i, DoomedReplaced DEF NewestInv, TypeInv
  <2>4. D \subseteq prune[p].loaded
    BY DoomedWithin
  <2>. QED
    BY <2>2, <2>3, <2>4, <1>i
<1>4. CASE MapVersions(p)
  <2>1. prune'[p] = NoPrune \/ prune'[p] = [prune[p] EXCEPT !.pc = "delete"]
    BY <1>4, <1>t DEF MapVersions
  <2>. QED
    BY <2>1, <1>t, <1>i, <1>n DEF PruneState
<1>5. CASE \E r \in Push : Delete(p, r)
  <2>. PICK r \in Push : Delete(p, r)
    BY <1>5
  <2>1. CASE r \in visible
    BY <2>1, <1>t, <1>i DEF Delete, PruneState
  <2>2. CASE r \notin visible
    BY <2>2, <1>t, <1>n DEF Delete
  <2>. QED
    BY <2>1, <2>2
<1>6. CASE PruneDone(p) \/ FailPrune(p)
  BY <1>6, <1>t, <1>n DEF PruneDone, FailPrune
<1>. QED
  BY <1>1, <1>2, <1>3, <1>4, <1>5, <1>6 DEF PruneStep

\* A prune removes only what it means to delete, and nothing else removes a tag.
LEMMA OnlyDoomedGo ==
  ASSUME [StoreNext]_storeVars
  PROVE  \A r \in visible \ visible' : \E p \in Pruner : r \in prune[p].doomed
<1>1. CASE \E r \in Push : PushStep(r)
  BY <1>1 DEF PushStep, StartPush, UploadNar, Publish, FailPush
<1>2. CASE \E p \in Pruner : ListTags(p) \/ Decide(p) \/ MapVersions(p) \/ PruneDone(p)
                             \/ FailPrune(p) \/ \E r \in Push : LoadSegment(p, r)
  BY <1>2 DEF ListTags, Decide, MapVersions, PruneDone, FailPrune, LoadSegment
<1>3. CASE \E p \in Pruner : \E r \in Push : Delete(p, r)
  BY <1>3 DEF Delete
<1>4. CASE CollectBlobs \/ UNCHANGED storeVars
  BY <1>4 DEF CollectBlobs, storeVars
<1>. QED
  BY <1>1, <1>2, <1>3, <1>4 DEF StoreNext, PruneStep

LEMMA NewestStep == NewestInv /\ [StoreNext]_storeVars => NewestInv'
<1>. SUFFICES ASSUME NewestInv, [StoreNext]_storeVars PROVE NewestInv'
  OBVIOUS
<1>t. TypeInv /\ ClocksOK /\ StoreTypeOK
  BY DEF NewestInv, TypeInv
<1>1. TypeInv'
  BY <1>t, StoreTypeStep
<1>2. /\ ClocksOK' /\ Published \subseteq Published'
      /\ \A q \in Published : created'[q] = created[q]
  BY <1>t, PublishedGrows
<1>3. \A r \in Published : Replaced(r) => Replaced(r)'
  BY <1>2, ReplacedStays
<1>4. /\ \A p \in Pruner : \A L \in {prune'[p].listed, prune'[p].loaded, prune'[p].doomed} :
           L \subseteq Published
      /\ \A p \in Pruner : \A r \in prune'[p].doomed : Replaced(r)
  <2>0. /\ \A p \in Pruner : \A L \in {prune[p].listed, prune[p].loaded, prune[p].doomed} :
             L \subseteq Published
        /\ \A p \in Pruner : \A r \in prune[p].doomed : Replaced(r)
    BY DEF NewestInv
  <2>1. CASE \E p \in Pruner : PruneStep(p) \/ FailPrune(p)
    <3>. PICK p \in Pruner : PruneStep(p) \/ FailPrune(p)
      BY <2>1
    <3>1. \A q \in Pruner : q # p => prune'[q] = prune[q]
      <4>1. prune' = [prune EXCEPT ![p] = prune'[p]]
        BY <1>t, PruneStateStep
      <4>. QED
        BY <4>1, <1>t DEF StoreTypeOK
    <3>. QED
      BY <3>1, <2>0, PruneHolds
  <2>2. CASE UNCHANGED prune
    BY <2>0, <2>2
  <2>. QED
    BY <2>1, <2>2 DEF StoreNext, PushStep, StartPush, UploadNar, Publish, FailPush,
       CollectBlobs, storeVars
<1>5. visible' \subseteq Published'
  <2>0. visible \subseteq Published
    BY DEF NewestInv
  <2>1. CASE \E r \in Push : Publish(r)
    BY <2>0, <2>1, <1>2, <1>t DEF Publish, Published, StoreTypeOK
  <2>2. CASE visible' \subseteq visible
    BY <2>0, <2>2, <1>2
  <2>. QED
    BY <2>1, <2>2, PruneStepFrame DEF StoreNext, PushStep, StartPush, UploadNar, FailPush,
       CollectBlobs, storeVars
<1>6. \A r \in Published' : Replaced(r)' \/ r \in visible'
  <2>. SUFFICES ASSUME NEW r \in Published', r \notin visible' PROVE Replaced(r)'
    OBVIOUS
  <2>1. CASE r \notin Published
    <3>1. \A q \in Push : Publish(q) => r = q
      BY <2>1, <1>t DEF Publish, Published, StoreTypeOK
    <3>2. \E q \in Push : Publish(q)
      BY <2>1, <1>t, PruneStepFrame DEF StoreNext, PushStep, StartPush, UploadNar, FailPush,
         CollectBlobs, storeVars, Published, StoreTypeOK
    <3>. QED
      BY <3>1, <3>2 DEF Publish
  <2>2. CASE r \in Published
    <3>1. Replaced(r)
      <4>1. CASE r \in visible
        BY <4>1, OnlyDoomedGo DEF NewestInv
      <4>2. CASE r \notin visible
        BY <4>2, <2>2 DEF NewestInv, NewestStays, Replaced
      <4>. QED
        BY <4>1, <4>2
    <3>. QED
      BY <3>1, <2>2, <1>3
  <2>. QED
    BY <2>1, <2>2
<1>7. NewestStays'
  BY <1>6 DEF NewestStays, Replaced
<1>8. \A p \in Pruner : \A r \in prune'[p].doomed : Replaced(r)'
  BY <1>3, <1>4
<1>. QED
  BY <1>1, <1>2, <1>4, <1>5, <1>7, <1>8 DEF NewestInv

\* No interleaving of pushes and prunes, from however old a listing, deletes the
\* newest segment of a package in one of the Keep newest snapshots of its system
\* (docs/release-model.md:36-37).
THEOREM NewestAlwaysStays == StoreSpec => []NewestStays
<1>1. NewestInv => NewestStays
  BY DEF NewestInv
<1>. QED
  BY <1>1, NewestInit, NewestStep, PTL DEF StoreSpec

-----------------------------------------------------------------------------
(* The newest of some segments. *)

\* Newer is a strict order, total on segments with different tags.
LEMMA NewerOrder ==
  ASSUME StoreTypeOK, NEW q \in Push, NEW r \in Push, NEW s \in Push
  PROVE  /\ ~Newer(Segment(q), Segment(q))
         /\ Newer(Segment(q), Segment(r)) /\ Newer(Segment(r), Segment(s))
              => Newer(Segment(q), Segment(s))
         /\ q # r => Newer(Segment(q), Segment(r)) \/ Newer(Segment(r), Segment(q))
<1>1. \A x \in Push : x \in Nat /\ created[x] \in Nat
  BY StoreAssumption DEF StoreTypeOK
<1>2. \A x, y \in Push : Newer(Segment(x), Segment(y)) <=>
        (created[x] > created[y] \/ (created[x] = created[y] /\ x > y))
  BY DEF Newer, Segment
<1>. QED
  BY <1>1, <1>2

\* Of some segments one is the newest: the sets of segments newer than each of
\* them have a least one, which is empty.
LEMMA NewestExists ==
  ASSUME StoreTypeOK, NEW X \in SUBSET Push, X # {}
  PROVE  \E x \in X : \A y \in X : ~Newer(Segment(y), Segment(x))
<1>. DEFINE Above(x) == {y \in X : Newer(Segment(y), Segment(x))}
            A == {Above(x) : x \in X}
<1>1. IsWellFoundedOn(StrictSubsetOrdering(X), FiniteSubsetsOf(X))
  BY FS_StrictSubsetOrderingWellFounded
<1>2. A \subseteq FiniteSubsetsOf(X) /\ A # {}
  <2>1. \A x \in X : Above(x) \in SUBSET X
    OBVIOUS
  <2>2. \A B \in SUBSET X : IsFiniteSet(B)
    BY FS_Subset, StoreAssumption
  <2>. QED
    BY <2>1, <2>2 DEF FiniteSubsetsOf
<1>3. PICK M \in A : \A N \in A : <<N, M>> \notin StrictSubsetOrdering(X)
  <2>. HIDE DEF A
  <2>. QED
    BY <1>1, <1>2, WFMin
<1>4. PICK x \in X : M = Above(x)
  OBVIOUS
<1>5. ASSUME NEW y \in X, Newer(Segment(y), Segment(x)) PROVE FALSE
  <2>1. y \in Above(x) /\ y \notin Above(y)
    BY <1>5, NewerOrder
  <2>2. Above(y) \subseteq Above(x)
    BY <1>5, NewerOrder
  <2>3. Above(y) \in A /\ Above(x) \subseteq X
    OBVIOUS
  <2>. HIDE DEF Above, A
  <2>4. <<Above(y), M>> \in StrictSubsetOrdering(X)
    BY <2>1, <2>2, <2>3, <1>4 DEF StrictSubsetOrdering
  <2>. QED
    BY <2>3, <2>4, <1>3
<1>. QED
  BY <1>5

\* So loadEntries finds an entry for every hash of its segments, and it is the
\* newest one.
LEMMA WinnerIsNewest ==
  ASSUME StoreTypeOK, NEW S \in SUBSET Push, NEW h \in Hashes(S)
  PROVE  /\ Winner(S, h) \in S /\ h \in DOMAIN Entries[Winner(S, h)]
         /\ \A q \in S : h \in DOMAIN Entries[q] => ~Newer(Segment(q), Segment(Winner(S, h)))
<1>1. Having(S, h) \in SUBSET Push /\ Having(S, h) # {}
  BY DEF Having, Hashes
<1>2. \E r \in Having(S, h) : \A q \in Having(S, h) : ~Newer(Segment(q), Segment(r))
  BY <1>1, NewestExists
<1>3. /\ Winner(S, h) \in Having(S, h)
      /\ \A q \in Having(S, h) : ~Newer(Segment(q), Segment(Winner(S, h)))
  BY <1>2 DEF Winner
<1>. QED
  BY <1>3 DEF Having

-----------------------------------------------------------------------------
(* The writers. *)

\* The server and its clients do not touch the cache: what holds of its writers
\* alone holds of the whole system.
LEMMA StepOfStore == [Next]_vars => [StoreNext]_storeVars
BY DEF Next, vars, Write, StartServer, Load, Tick, SwapIndex, FetchSegment, LoadFails,
   StopServer, GetNarinfo, GetNar, Answered

THEOREM ServingIsHarmless == Spec => StoreSpec
<1>1. Init => StoreInit
  BY DEF Init
<1>. QED
  BY <1>1, StepOfStore, PTL DEF Spec, StoreSpec

\* What the proofs below use of the writers.
StoreInv == NewestInv /\ WholeInv

LEMMA StoreInvInit == Init => StoreInv
BY NewestInit, WholeInit DEF Init, StoreInv

LEMMA StoreInvStep == StoreInv /\ [Next]_vars => StoreInv'
BY StepOfStore, NewestStep, WholeStep DEF StoreInv

\* A published segment keeps its place in the order, and a deleted one does not
\* come back.
LEMMA StoreMoves ==
  ASSUME StoreInv, [Next]_vars
  PROVE  /\ visible \subseteq Published /\ Published \subseteq Push
         /\ Published \subseteq Published'
         /\ \A q \in Published : Segment(q)' = Segment(q)
         /\ visible' \cap Published \subseteq visible
<1>t. TypeInv /\ StoreTypeOK /\ ClocksOK /\ visible \subseteq Published
  BY DEF StoreInv, NewestInv, TypeInv
<1>1. Published \subseteq Published' /\ \A q \in Published : created'[q] = created[q]
  BY <1>t, StepOfStore, PublishedGrows
<1>2. \A q \in Published : Segment(q)' = Segment(q)
  BY <1>1 DEF Segment
<1>3. visible' \cap Published \subseteq visible
  <2>1. CASE \E r \in Push : Publish(r)
    BY <2>1, <1>t DEF Publish, Published, StoreTypeOK
  <2>2. CASE visible' \subseteq visible
    BY <2>2
  <2>. QED
    BY <2>1, <2>2, StepOfStore, PruneStepFrame DEF StoreNext, PushStep, StartPush,
       UploadNar, FailPush, CollectBlobs, storeVars
<1>. QED
  BY <1>t, <1>1, <1>2, <1>3 DEF Published

-----------------------------------------------------------------------------
(* The server. *)

\* Whatever the server answers from or will answer from has r.
Known(r) ==
  /\ ready => r \in index
  /\ serve.pc = "load" => r \in serve.listed \cup serve.loaded

\* The inductive invariant.  The server only holds published segments of its
\* snapshot; it knows of every one that was there when it started and of every
\* one in its index, as long as they exist; and so it does of the segment its
\* client was answered from.
HomePublished == {r \in Published : AtHome(r)}
ServeInv ==
  /\ ServeTypeOK
  /\ \A L \in {index, serve.listed, serve.loaded} : L \subseteq HomePublished
  /\ ~ready => index = {}
  /\ serve.pc = "down" => ~ready
  /\ present \subseteq HomeTags
  /\ \A r \in present : Known(r)
  /\ \A r \in index \cap visible : Known(r)
  /\ client.pc = "nar" =>
       /\ client.from \in HomePublished /\ client.hash \in DOMAIN Entries[client.from]
       /\ client.from \in visible => Known(client.from)

LEMMA ServeInit == Init => ServeInv
<1>. SUFFICES ASSUME Init PROVE ServeInv
  OBVIOUS
<1>1. ServeTypeOK
  <2>1. breaks \in 0..MaxBreaks
    BY ServeAssumption DEF Init
  <2>2. ready \in BOOLEAN
    BY DEF Init
  <2>. QED
    BY <2>1, <2>2 DEF Init, ServeTypeOK, NoLoad, NoRequest
<1>. QED
  BY <1>1 DEF Init, ServeInv, NoLoad, NoRequest

\* Nothing the server or a client does in a step changes the cache.
LEMMA StoreStill ==
  ASSUME UNCHANGED storeVars
  PROVE  /\ UNCHANGED <<visible, created, pushing, blobs>>
         /\ Published' = Published /\ HomePublished' = HomePublished /\ HomeTags' = HomeTags
BY DEF storeVars, Published, HomePublished, HomeTags, AtHome

LEMMA ServeStep == StoreInv /\ ServeInv /\ [Next]_vars => ServeInv'
<1>. SUFFICES ASSUME StoreInv, ServeInv, [Next]_vars PROVE ServeInv'
  OBVIOUS
<1>v. visible \subseteq Published /\ Published \subseteq Push /\ StoreTypeOK
  BY StoreMoves DEF StoreInv, NewestInv, TypeInv
<1>h. HomeTags \subseteq HomePublished /\ HomePublished \subseteq Push
  BY <1>v DEF HomeTags, HomePublished
<1>1. CASE Write
  <2>1. UNCHANGED <<serve, index, ready, breaks, client>> /\ present' = present \cap visible'
    BY <1>1 DEF Write
  <2>2. HomePublished \subseteq HomePublished' /\ visible' \cap HomePublished \subseteq visible
    BY StoreMoves DEF HomePublished, AtHome
  <2>3. present' \subseteq HomeTags'
    BY <2>1 DEF ServeInv, HomeTags, AtHome
  <2>4. ServeTypeOK'
    BY <2>1 DEF ServeInv, ServeTypeOK
  <2>5. \A r : Known(r)' <=> Known(r)
    BY <2>1 DEF Known
  <2>. QED
    BY <2>1, <2>2, <2>3, <2>4, <2>5 DEF ServeInv
<1>2. CASE StartServer \/ Tick
  <2>1. /\ serve' = [pc |-> "load", listed |-> HomeTags, loaded |-> {}]
        /\ UNCHANGED <<storeVars, index, ready, breaks, client>>
        /\ present' \in {present, HomeTags}
        /\ present' = HomeTags => ~ready \/ present = HomeTags
    BY <1>2 DEF StartServer, Tick, ServeInv
  <2>2. ServeTypeOK'
    BY <2>1, <1>h, <1>v DEF ServeInv, ServeTypeOK
  <2>3. \A r \in HomeTags : Known(r) \/ ~ready => Known(r)'
    BY <2>1 DEF Known
  <2>4. index \cap visible \subseteq HomeTags
    BY DEF ServeInv, HomePublished, HomeTags
  <2>5. client.pc = "nar" /\ client.from \in visible => client.from \in HomeTags
    BY DEF ServeInv, HomePublished, HomeTags
  <2>. QED
    BY <2>1, <2>2, <2>3, <2>4, <2>5, <1>h, StoreStill DEF ServeInv
<1>3. CASE \E r \in Push : FetchSegment(r)
  <2>. PICK r \in Push : FetchSegment(r)
    BY <1>3
  <2>0. PICK S \in Read(r) : serve' = [serve EXCEPT !.listed = @ \ {r}, !.loaded = @ \cup S]
    BY DEF FetchSegment
  <2>1. /\ UNCHANGED <<storeVars, index, ready, breaks, client, present>>
        /\ r \in serve.listed
        /\ S \subseteq {r} /\ (r \in visible => r \in S)
    BY DEF FetchSegment, Read
  <2>2. /\ serve'.pc = serve.pc /\ serve'.listed = serve.listed \ {r}
        /\ serve'.loaded = serve.loaded \cup S
    BY <2>0 DEF ServeInv, ServeTypeOK
  <2>3. ServeTypeOK'
    BY <2>0, <2>1 DEF ServeInv, ServeTypeOK
  <2>4. \A q \in visible : Known(q) => Known(q)'
    BY <2>1, <2>2 DEF Known
  <2>5. present \subseteq visible
    BY DEF ServeInv, HomeTags
  <2>. QED
    BY <2>1, <2>2, <2>3, <2>4, <2>5, StoreStill DEF ServeInv
<1>4. CASE SwapIndex
  <2>1. /\ serve.pc = "load" /\ serve.listed = {} /\ index' = serve.loaded /\ ready'
        /\ serve' = [NoLoad EXCEPT !.pc = "wait"]
        /\ UNCHANGED <<storeVars, breaks, client, present>>
    BY <1>4 DEF SwapIndex
  <2>2. serve'.pc = "wait" /\ serve'.listed = {} /\ serve'.loaded = {}
    BY <2>1 DEF NoLoad
  <2>3. ServeTypeOK'
    BY <2>1, <1>4 DEF ServeInv, ServeTypeOK, NoLoad, SwapIndex
  <2>4. \A r : Known(r) => Known(r)'
    BY <2>1, <2>2 DEF Known
  <2>5. \A r \in index' : Known(r)'
    BY <2>2 DEF Known
  <2>. QED
    BY <2>1, <2>2, <2>3, <2>4, <2>5, StoreStill DEF ServeInv
<1>5. CASE LoadFails \/ StopServer
  <2>1. /\ UNCHANGED <<storeVars, client>>
        /\ serve'.pc \in {"wait", "down"} /\ serve'.listed = {} /\ serve'.loaded = {}
        /\ \/ index' = index /\ ready' = ready /\ ready /\ present' = present
              /\ serve'.pc = "wait"
           \/ index' = {} /\ ~ready' /\ present' = {}
    BY <1>5 DEF LoadFails, StopServer, KeepIndex, AfterFailure, NoLoad, ServeInv
  <2>2. ServeTypeOK'
    <3>1. serve' \in [pc : {"wait", "down"}, listed : {{}}, loaded : {{}}]
      BY <1>5 DEF LoadFails, StopServer, AfterFailure, NoLoad
    <3>2. breaks' \in 0..MaxBreaks
      BY <1>5, ServeAssumption DEF LoadFails, StopServer, ServeInv, ServeTypeOK
    <3>3. ready' \in BOOLEAN
      BY <1>5 DEF LoadFails, StopServer, ServeInv, ServeTypeOK
    <3>4. index' \subseteq Push /\ present' \subseteq Push
      BY <2>1 DEF ServeInv, ServeTypeOK
    <3>5. client' = client
      BY <2>1
    <3>. QED
      BY <3>1, <3>2, <3>3, <3>4, <3>5 DEF ServeInv, ServeTypeOK
  <2>3. \A r : Known(r) => Known(r)'
    BY <2>1 DEF Known
  <2>. QED
    BY <2>1, <2>2, <2>3, StoreStill DEF ServeInv
<1>6. CASE \E h \in Hash : GetNarinfo(h)
  <2>. PICK h \in Hash : GetNarinfo(h)
    BY <1>6
  <2>. DEFINE w == Winner(index, h)
  <2>1. /\ UNCHANGED <<storeVars, serve, index, ready, breaks, present>>
        /\ client' = [pc |-> "nar", hash |-> h, from |-> w] /\ h \in Hashes(index)
    BY DEF GetNarinfo
  <2>2. w \in index /\ h \in DOMAIN Entries[w] /\ index \subseteq HomePublished
    BY <2>1, <1>v, <1>h, WinnerIsNewest DEF ServeInv
  <2>. HIDE DEF w
  <2>3. ServeTypeOK'
    BY <2>1, <2>2, <1>h DEF ServeInv, ServeTypeOK
  <2>4. \A r : Known(r)' <=> Known(r)
    BY <2>1 DEF Known
  <2>. QED
    BY <2>1, <2>2, <2>3, <2>4, StoreStill DEF ServeInv
<1>7. CASE GetNar \/ Answered \/ UNCHANGED vars
  <2>0. NoRequest \in [pc : {"idle", "nar"} \cup Answers,
                      hash : Hash \cup {None}, from : Push \cup {None}]
    BY DEF NoRequest
  <2>1. /\ UNCHANGED <<storeVars, serve, index, ready, breaks, present>>
        /\ \/ client' = client
           \/ client' = NoRequest
           \/ \E answer \in Answers : client' = [NoRequest EXCEPT !.pc = answer]
    BY <1>7 DEF GetNar, NarAnswers, Answers, Answered, vars, serveVars
  <2>2. /\ client'.pc # "nar" \/ client' = client
        /\ client' \in [pc : {"idle", "nar"} \cup Answers,
                       hash : Hash \cup {None}, from : Push \cup {None}]
    <3>1. CASE \E answer \in Answers : client' = [NoRequest EXCEPT !.pc = answer]
      BY <3>1, <2>0 DEF Answers, NoRequest
    <3>. QED
      BY <2>1, <2>0, <3>1 DEF ServeInv, ServeTypeOK, NoRequest
  <2>3. ServeTypeOK'
    BY <2>1, <2>2 DEF ServeInv, ServeTypeOK
  <2>4. \A r : Known(r)' <=> Known(r)
    BY <2>1 DEF Known
  <2>. QED
    BY <2>1, <2>2, <2>3, <2>4, StoreStill DEF ServeInv
<1>. QED
  BY <1>1, <1>2, <1>3, <1>4, <1>5, <1>6, <1>7 DEF Next, Load

LEMMA ServeInvAlways == Spec => [](StoreInv /\ ServeInv)
<1>1. Init => StoreInv /\ ServeInv
  BY StoreInvInit, ServeInit
<1>2. StoreInv /\ ServeInv /\ [Next]_vars => (StoreInv /\ ServeInv)'
  BY StoreInvStep, ServeStep
<1>. QED
  BY <1>1, <1>2, PTL DEF Spec

-----------------------------------------------------------------------------
(* The promises. *)

\* The cache, the server and its clients stay well-typed, and a prune dooms only
\* what it has loaded.
THEOREM ServeTypeCorrect == Spec => []TypeOK
<1>1. StoreInv /\ ServeInv => TypeOK
  BY DEF ServeInv, StoreInv, NewestInv, TypeInv, TypeOK
<1>. QED
  BY <1>1, ServeInvAlways, PTL

\* A server that says it is ready knows every segment that has been there since
\* it started, so that a probe that finds nothing is right (serve.go:33-36, 81-87).
THEOREM ReadyMeansLoaded == Spec => []NoFalseMiss
<1>1. StoreInv /\ ServeInv => NoFalseMiss
  BY DEF ServeInv, NoFalseMiss, Known
<1>. QED
  BY <1>1, ServeInvAlways, PTL

\* A refresh replaces no entry by an older one while its segment exists
\* (serve.go:52-70, registry.go:154-159).
THEOREM IndexMovesForward == Spec => RefreshMovesForward
<1>. DEFINE Forward ==
       (index' # index /\ serve'.pc # "down") =>
         \A h \in Hashes(index) : Winner(index, h) \in visible =>
           /\ h \in Hashes(index')
           /\ ~Newer(Segment(Winner(index, h)), Segment(Winner(index', h)))
<1>1. StoreInv /\ ServeInv /\ [Next]_vars => Forward
  <2>. SUFFICES ASSUME StoreInv, ServeInv, [Next]_vars, index' # index, serve'.pc # "down",
                       NEW h \in Hashes(index), Winner(index, h) \in visible
                PROVE  /\ h \in Hashes(index')
                       /\ ~Newer(Segment(Winner(index, h)), Segment(Winner(index', h)))
    OBVIOUS
  <2>. DEFINE w == Winner(index, h)
  <2>1. StoreTypeOK /\ index \subseteq Push /\ serve.loaded \subseteq Push
    BY DEF StoreInv, NewestInv, TypeInv, ServeInv, ServeTypeOK
  <2>2. SwapIndex
    <3>1. Write \/ StartServer \/ Tick \/ (\E r \in Push : FetchSegment(r)) => index' = index
      BY DEF Write, StartServer, Tick, FetchSegment
    <3>2. LoadFails \/ (\E x \in Hash : GetNarinfo(x)) \/ GetNar \/ Answered \/ UNCHANGED vars
            => index' = index
      BY DEF LoadFails, KeepIndex, GetNarinfo, GetNar, Answered, vars, serveVars
    <3>3. StopServer => serve'.pc = "down"
      BY DEF StopServer, NoLoad
    <3>. QED
      BY <3>1, <3>2, <3>3 DEF Next, Load
  <2>3. w \in index /\ h \in DOMAIN Entries[w]
    BY <2>1, WinnerIsNewest
  <2>4. w \in index'
    <3>1. Known(w)
      BY <2>3 DEF ServeInv
    <3>. QED
      BY <3>1, <2>2 DEF SwapIndex, Known
  <2>5. h \in Hashes(index')
    BY <2>3, <2>4 DEF Hashes
  <2>6. index' \in SUBSET Push
    BY <2>1, <2>2 DEF SwapIndex
  <2>. HIDE DEF w
  <2>7. ~Newer(Segment(w), Segment(Winner(index', h)))
    BY <2>1, <2>3, <2>4, <2>5, <2>6, WinnerIsNewest
  <2>. QED
    BY <2>5, <2>7 DEF w
<1>. QED
  BY <1>1, ServeInvAlways, PTL DEF Spec, RefreshMovesForward

\* A client is refused the NAR of a narinfo it was given, in a way that asking
\* again does not mend, only for a reason: the segment is gone, a newer one has
\* the path, or the server was restarted (serve.go:91-124).
THEOREM NarinfoIsFollowed == Spec => NarFollowsNarinfo
<1>. DEFINE Excused ==
       (client.pc = "nar" /\ Lasting(client'.pc)) =>
         \/ client.from \notin visible
         \/ ~ready
         \/ /\ client.hash \in Hashes(index)
            /\ Newer(Segment(Winner(index, client.hash)), Segment(client.from))
<1>1. StoreInv /\ ServeInv /\ [Next]_vars => Excused
  <2>. DEFINE f == client.from
              h == client.hash
              w == Winner(index, h)
  <2>. SUFFICES ASSUME StoreInv, ServeInv, [Next]_vars, client.pc = "nar",
                       Lasting(client'.pc), f \in visible, ready
                PROVE  h \in Hashes(index) /\ Newer(Segment(w), Segment(f))
    OBVIOUS
  <2>0. GetNar
    <3>1. Write \/ StartServer \/ Load \/ LoadFails \/ StopServer \/ UNCHANGED vars
            => client' = client
      BY DEF Write, StartServer, Load, Tick, SwapIndex, FetchSegment, LoadFails, StopServer,
         vars, serveVars
    <3>2. client' # client
      BY DEF Lasting
    <3>3. ~Answered /\ ~(\E x \in Hash : GetNarinfo(x))
      BY DEF GetNarinfo, Answered, Answers
    <3>. QED
      BY <3>1, <3>2, <3>3 DEF Next
  <2>1. serve.pc = "down" \/ Wants \notin Nars(index) \/ Wants \notin blobs
    <3>1. PICK answer \in NarAnswers : client' = [NoRequest EXCEPT !.pc = answer]
      BY <2>0 DEF GetNar
    <3>2. Lasting(answer)
      BY <3>1 DEF NoRequest
    <3>. QED
      BY <3>1, <3>2 DEF NarAnswers, Lasting
  <2>2. f \in index /\ h \in DOMAIN Entries[f] /\ serve.pc # "down"
    BY DEF ServeInv, Known
  <2>3. StoreTypeOK /\ index \subseteq Push
    BY DEF StoreInv, NewestInv, TypeInv, ServeInv, ServeTypeOK
  <2>4. h \in Hashes(index)
    BY <2>2 DEF Hashes
  <2>5. Entries[f][h] \in blobs
    BY <2>2 DEF StoreInv, WholeInv, VisibleIsWhole, NarsOf, Range
  <2>6. w # f
    <3>1. Entries[w][h] \in Nars(index)
      BY <2>4 DEF Nars
    <3>. QED
      BY <3>1, <2>1, <2>2, <2>5 DEF Wants
  <2>7. w \in index /\ ~Newer(Segment(f), Segment(w))
    BY <2>2, <2>3, <2>4, WinnerIsNewest
  <2>8. Newer(Segment(w), Segment(f))
    BY <2>2, <2>3, <2>6, <2>7, NewerOrder
  <2>. QED
    BY <2>4, <2>8
<1>. QED
  BY <1>1, ServeInvAlways, PTL DEF Spec, NarFollowsNarinfo

-----------------------------------------------------------------------------
(* The loads of the server, tag by tag. *)

\* A server that is not loading has nothing listed or loaded.
LoadInv == serve.pc # "load" => serve.listed = {} /\ serve.loaded = {}

LEMMA LoadInvStep == ServeInv /\ LoadInv /\ [Next]_vars => LoadInv'
<1>. SUFFICES ASSUME ServeInv, LoadInv, [Next]_vars PROVE LoadInv'
  OBVIOUS
<1>1. CASE StartServer \/ SwapIndex \/ LoadFails \/ StopServer \/ Tick
  BY <1>1 DEF StartServer, SwapIndex, LoadFails, AfterFailure, StopServer, Tick, NoLoad, LoadInv
<1>2. CASE \E r \in Push : FetchSegment(r)
  BY <1>2 DEF FetchSegment, LoadInv, ServeInv, ServeTypeOK
<1>3. CASE serve' = serve
  BY <1>3 DEF LoadInv
<1>4. Write \/ (\E h \in Hash : GetNarinfo(h)) \/ GetNar \/ Answered \/ UNCHANGED vars
        => serve' = serve
  BY DEF Write, GetNarinfo, GetNar, Answered, vars, serveVars
<1>. QED
  BY <1>1, <1>2, <1>3, <1>4 DEF Next, Load

LEMMA LoadingStep ==
  StoreInv /\ StoreInv' /\ ServeInv /\ LoadInv /\ [Next]_vars => [Loading!Next]_(Loading!vars)
<1>. SUFFICES ASSUME StoreInv, StoreInv', ServeInv, LoadInv, [Next]_vars
              PROVE  Loading!Next \/ UNCHANGED Loading!vars
  OBVIOUS
<1>1. CASE StartServer \/ Tick
  <2>a. HomeTags = visible \cap {r \in Push : AtHome(r)}
    BY DEF HomeTags, StoreInv, NewestInv, TypeInv, StoreTypeOK
  <2>b. /\ serve.pc # "load" /\ serve.listed = {} /\ serve.loaded = {}
        /\ serve' = [pc |-> "load", listed |-> HomeTags, loaded |-> {}]
        /\ UNCHANGED <<visible, index>>
    BY <1>1 DEF StartServer, Tick, LoadInv, storeVars
  <2>1. Loading!Begin
    BY <2>a, <2>b DEF Loading!Begin
  <2>. QED
    BY <2>1 DEF Loading!Next
<1>2. CASE \E r \in Push : FetchSegment(r)
  <2>. PICK r \in Push : FetchSegment(r)
    BY <1>2
  <2>1. PICK S \in Read(r) :
          /\ serve.pc = "load" /\ r \in serve.listed
          /\ serve' = [serve EXCEPT !.listed = @ \ {r}, !.loaded = @ \cup S]
          /\ UNCHANGED <<visible, index>>
    BY DEF FetchSegment, storeVars
  <2>2. S = {r} \/ (S = {} /\ r \notin visible)
    BY DEF Read
  <2>3. /\ serve'.pc = "load" /\ serve'.listed = serve.listed \ {r}
        /\ serve'.loaded = serve.loaded \cup S
    BY <2>1 DEF ServeInv, ServeTypeOK
  <2>4. Loading!Take(r)
    BY <2>1, <2>2, <2>3 DEF Loading!Take
  <2>. QED
    BY <2>4 DEF Loading!Next
<1>3. CASE SwapIndex
  <2>1. Loading!Finish
    BY <1>3 DEF SwapIndex, Loading!Finish, NoLoad, storeVars
  <2>. QED
    BY <2>1 DEF Loading!Next
<1>4. CASE LoadFails \/ StopServer
  <2>1. Loading!Abandon
    BY <1>4 DEF LoadFails, AfterFailure, KeepIndex, StopServer, Loading!Abandon, NoLoad, storeVars
  <2>. QED
    BY <2>1 DEF Loading!Next
<1>5. CASE Write
  <2>1. Loading!Churn
    BY <1>5 DEF Write, Loading!Churn, StoreInv, NewestInv, TypeInv, StoreTypeOK
  <2>. QED
    BY <2>1 DEF Loading!Next
<1>6. CASE (\E h \in Hash : GetNarinfo(h)) \/ GetNar \/ Answered \/ UNCHANGED vars
  BY <1>6 DEF GetNarinfo, GetNar, Answered, vars, serveVars, storeVars, Loading!vars
<1>. QED
  BY <1>1, <1>2, <1>3, <1>4, <1>5, <1>6 DEF Next, Load

\* The server loads its index as fetchSegments promises: the tags of one moment,
\* each taken if it is there, and a whole new index or none (registry.go:210-244).
THEOREM ServerImplementsSegmentLoad == Spec => ServeLoadsTagByTag
<1>1. Init => Loading!Init /\ LoadInv
  BY DEF Init, StoreInit, Loading!Init, LoadInv, NoLoad
<1>2. Spec => []LoadInv
  <2>1. StoreInv /\ ServeInv /\ LoadInv /\ [Next]_vars => LoadInv'
    BY LoadInvStep
  <2>. QED
    BY <1>1, <2>1, ServeInvAlways, PTL DEF Spec
<1>3. StoreInv /\ StoreInv' /\ ServeInv /\ LoadInv /\ [Next]_vars => [Loading!Next]_(Loading!vars)
  BY LoadingStep
<1>. QED
  BY <1>1, <1>2, <1>3, ServeInvAlways, PTL DEF Spec, ServeLoadsTagByTag, Loading!Spec
=============================================================================
