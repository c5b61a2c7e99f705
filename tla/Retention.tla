------------------------------ MODULE Retention ------------------------------
(***************************************************************************)
(* Which segments nixcache prune deletes (cmd/nixcache/prune.go:41-223).   *)
(*                                                                         *)
(* A segment is a record [tag, system, snapshot, key, at]: its tag as a    *)
(* number in the order of the tag strings, the system and the flake.lock   *)
(* snapshot it was built for, the package key (None in a legacy segment)   *)
(* and its creation time.                                                  *)
(***************************************************************************)
EXTENDS Integers, FiniteSets

CONSTANTS
  None,         \* the key of a segment that has none
  Keep,         \* --snapshot-keep
  RetainFor,    \* --package-retain-days
  PackageKeep   \* --package-keep

\* pruneCache refuses other values.
ASSUME RetentionAssumption ==
  Keep \in Nat \ {0} /\ RetainFor \in Nat /\ PackageKeep \in Nat \ {0}

Of(segs, y) == {g \in segs : g.system = y}
Systems(segs) == {g.system : g \in segs}
Snapshots(segs, y) == {g.snapshot : g \in Of(segs, y)}

\* The newest segment of snapshot s is at least as new as every one of t.
AsNew(segs, y, s, t) ==
  \A b \in Of(segs, y) : b.snapshot = t =>
    \E a \in Of(segs, y) : a.snapshot = s /\ a.at >= b.at

\* keptSnapshots: the Keep newest.  Snapshots of the same age come out of a Go
\* map and an unstable sort, so any of them may be the ones that are kept.
Few(segs, y) ==
  LET n == Cardinality(Snapshots(segs, y)) IN IF n < Keep THEN n ELSE Keep
KeptOldest(segs, y) ==  \* mutant
  {K \in SUBSET Snapshots(segs, y) :
     /\ Cardinality(K) = Few(segs, y)
     /\ \A s \in K, t \in Snapshots(segs, y) \ K : AsNew(segs, y, t, s)}
KeptSnapshots(segs, y) ==
  {K \in SUBSET Snapshots(segs, y) :
     /\ Cardinality(K) = Few(segs, y)
     /\ \A s \in K, t \in Snapshots(segs, y) \ K : AsNew(segs, y, s, t)}

\* The segments of one package in one snapshot, and their order.
GroupOfSnapshot(segs, g) ==  \* mutant
  {h \in segs : h.system = g.system /\ h.snapshot = g.snapshot}
Group(segs, g) ==
  {h \in segs : h.system = g.system /\ h.snapshot = g.snapshot /\ h.key = g.key}
Newer(h, g) == h.at > g.at \/ (h.at = g.at /\ h.tag > g.tag)

\* retainedSegmentsByPackage: young enough beside its package's newest, or among
\* its PackageKeep newest.
Recent(segs, g) == \A h \in Group(segs, g) : h.at - g.at < RetainFor
AmongFirst(segs, g) ==
  Cardinality({h \in Group(segs, g) : Newer(h, g)}) < PackageKeep
RetainedNewestInclusive(segs, g) ==  \* mutant
  \/ Recent(segs, g)
  \/ Cardinality({h \in Group(segs, g) : Newer(h, g)}) <= PackageKeep
Retained(segs, g) == Recent(segs, g) \/ AmongFirst(segs, g)

\* segmentsToDelete, for one choice of the snapshots to keep in each system.
ToDelete(segs, kept) ==
  {g \in segs : ~(/\ g.snapshot \in kept[g.system]
                  /\ g.key = None \/ Retained(segs, g))}

Choices(segs) ==
  {kept \in [Systems(segs) -> SUBSET {g.snapshot : g \in segs}] :
     \A y \in Systems(segs) : kept[y] \in KeptSnapshots(segs, y)}
Deletions(segs) == {ToDelete(segs, kept) : kept \in Choices(segs)}

-----------------------------------------------------------------------------
(* Properties of a set of segments. *)

\* No two snapshots of a system have segments of the same age, to the nanosecond.
Distinct(segs) ==
  \A g, h \in segs : g.system = h.system /\ g.at = h.at => g.snapshot = h.snapshot

\* A prune that fails half way, having deleted any part X of what it wanted to,
\* is finished by the next one: that deletes the rest and nothing else
\* (deleteVersions, prune.go:130-147).
Resumable(segs) ==
  Distinct(segs) =>
    \A D \in Deletions(segs) : \A X \in SUBSET D : Deletions(segs \ X) = {D \ X}

\* In a snapshot that is kept, every package keeps its newest segment: a run
\* that pushed only some packages does not cost the others theirs
\* (docs/release-model.md:36-37, prune_test.go:128).
SamePackage(g, h) == g.system = h.system /\ g.snapshot = h.snapshot /\ g.key = h.key
PackagesSurvive(segs) ==
  \A kept \in Choices(segs) : \A g \in segs :
    (g.snapshot \in kept[g.system] /\ \A h \in segs : SamePackage(g, h) => ~Newer(h, g))
      => g \notin ToDelete(segs, kept)

\* A prune is not less thorough than it says: of each package it leaves the
\* segments of the window, or the PackageKeep newest if those are more
\* (prune.go:36-40).
NothingExtra(segs) ==
  \A D \in Deletions(segs) : \A g \in segs \ D :
    LET left == Group(segs, g) \ D
    IN  g.key # None /\ (\E h \in left : ~Recent(segs, h)) =>
          Cardinality(left) <= PackageKeep

\* Whatever the ages, each system keeps its newest segment.
NewestSurvives(segs) ==
  \A D \in Deletions(segs) : \A g \in segs :
    (\A h \in Of(segs, g.system) : h = g \/ h.at < g.at) => g \notin D
=============================================================================
