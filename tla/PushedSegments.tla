--------------------------- MODULE PushedSegments ---------------------------
(***************************************************************************)
(* Every set of segments that pushes and prunes can leave in the cache,    *)
(* whatever the ages of the segments: the retention rule is checked and    *)
(* proved on all of them.  (How the two are carried out, request by        *)
(* request, is CacheStore; there no two segments are of one age.)          *)
(***************************************************************************)
EXTENDS Retention

CONSTANTS
  Tag,                     \* tags, as numbers in the order of their strings
  System, Snapshot, Key,   \* what a segment is for
  Time                     \* creation times

ASSUME SegmentAssumption == Tag \subseteq Int /\ Time \subseteq Int

VARIABLE segs   \* the segments in the cache

Init == segs = {}

Segment == [tag : Tag, system : System, snapshot : Snapshot,
            key : Key \cup {None}, at : Time]

\* A push of any package for any snapshot: the tag is its own, for it ends in
\* random text, and the time is that of the pusher's clock.  Segments pushed
\* before there were package keys have none.
Push ==
  \E g \in Segment :
    /\ \A h \in segs : h.tag # g.tag
    /\ segs' = segs \cup {g}

\* A prune deletes what it wants to, or a part of that.
Prune ==
  \E D \in Deletions(segs) : \E X \in SUBSET D :
    /\ X # {}
    /\ segs' = segs \ X

Next == Push \/ Prune

Spec == Init /\ [][Next]_segs

-----------------------------------------------------------------------------
(* Properties. *)

\* A prune cut short after any of its deletions (deleteVersions stops at the
\* first error) is completed by the next: the same rest goes, and no more.
PruneResumes == Resumable(segs)

\* In every snapshot that keptSnapshots keeps, each package keeps its newest
\* segment, however far behind the other packages it is.
EveryPackageSurvives == PackagesSurvive(segs)

\* Of a package with a segment outside the window, retainedSegmentsByPackage
\* leaves at most PackageKeep segments.
NothingExtraKept == NothingExtra(segs)
=============================================================================
