--------------------------- MODULE RetentionProofs ---------------------------
(***************************************************************************)
(* What the retention rule spares and what it does not, in a cache of any  *)
(* size, and so after any pushes and prunes.                               *)
(***************************************************************************)
EXTENDS PushedSegments, FiniteSetTheorems, WellFoundedInduction, TLAPS

\* The newest segment of a package passes retainedSegmentsByPackage: no segment
\* is before it in the order that counts PackageKeep.
LEMMA NewestRetained ==
  ASSUME NEW S, NEW g \in S, \A h \in Group(S, g) : ~Newer(h, g)
  PROVE  Retained(S, g)
<1>1. {h \in Group(S, g) : Newer(h, g)} = {}
  OBVIOUS
<1>2. Cardinality({h \in Group(S, g) : Newer(h, g)}) = 0
  BY <1>1, FS_EmptySet
<1>. QED
  BY <1>2, RetentionAssumption DEF Retained, AmongFirst

\* keptSnapshots drops a snapshot only for Keep others.
LEMMA DroppedForOthers ==
  ASSUME NEW S, NEW y, IsFiniteSet(Snapshots(S, y)),
         NEW K \in KeptSnapshots(S, y), NEW s \in Snapshots(S, y) \ K
  PROVE  /\ Cardinality(K) = Keep
         /\ \A t \in K : AsNew(S, y, t, s)
<1>. DEFINE n == Cardinality(Snapshots(S, y))
<1>1. K \in SUBSET Snapshots(S, y) /\ Cardinality(K) = (IF n < Keep THEN n ELSE Keep)
  BY DEF KeptSnapshots, Few
<1>2. Cardinality(K) # n
  BY <1>1, FS_Subset
<1>3. \A t \in K : AsNew(S, y, t, s)
  BY DEF KeptSnapshots
<1>. QED
  BY <1>1, <1>2, <1>3

\* In a snapshot that is kept every package keeps its newest segment, so that an
\* incremental run costs no other package its entry (prune_test.go:128).
THEOREM PackagesAlwaysSurvive ==
  ASSUME NEW S
  PROVE  PackagesSurvive(S)
<1>. SUFFICES ASSUME NEW kept \in Choices(S), NEW g \in S,
                     g.snapshot \in kept[g.system],
                     \A h \in S : SamePackage(g, h) => ~Newer(h, g)
              PROVE  g \notin ToDelete(S, kept)
  BY DEF PackagesSurvive
<1>1. \A h \in Group(S, g) : ~Newer(h, g)
  BY DEF Group, SamePackage
<1>2. Retained(S, g)
  BY <1>1, NewestRetained
<1>. QED
  BY <1>2 DEF ToDelete

\* Each system keeps its newest segment, whichever snapshots win a tie.
THEOREM NewestAlwaysSurvives ==
  ASSUME NEW S, \A g \in S : g.at \in Int /\ g.tag \in Int,
         \A y \in Systems(S) : IsFiniteSet(Snapshots(S, y))
  PROVE  NewestSurvives(S)
<1>. SUFFICES ASSUME NEW kept \in Choices(S), NEW g \in S,
                     \A h \in Of(S, g.system) : h = g \/ h.at < g.at
              PROVE  g \notin ToDelete(S, kept)
  BY DEF NewestSurvives, Deletions
<1>. DEFINE y == g.system
            K == kept[y]
<1>1. y \in Systems(S) /\ g \in Of(S, y) /\ g.snapshot \in Snapshots(S, y)
  BY DEF Systems, Of, Snapshots
<1>2. K \in KeptSnapshots(S, y)
  BY <1>1 DEF Choices
<1>3. \A h \in Group(S, g) : ~Newer(h, g)
  <2>. SUFFICES ASSUME NEW h \in Group(S, g), h # g PROVE ~Newer(h, g)
    <3>1. ~Newer(g, g)
      BY DEF Newer
    <3>. QED
      BY <3>1
  <2>1. h.at < g.at /\ h.at \in Int /\ g.at \in Int
    BY DEF Group, Of
  <2>. QED
    BY <2>1 DEF Newer
<1>4. Retained(S, g)
  BY <1>3, NewestRetained
<1>5. g.snapshot \in K
  <2>. SUFFICES ASSUME g.snapshot \notin K PROVE FALSE
    OBVIOUS
  <2>. HIDE DEF K
  <2>1. Cardinality(K) = Keep /\ \A t \in K : AsNew(S, y, t, g.snapshot)
    <3>. HIDE DEF y
    <3>. QED
      BY <1>1, <1>2, DroppedForOthers
  <2>2. PICK t \in K : TRUE
    BY <2>1, FS_EmptySet, RetentionAssumption
  <2>3. PICK a \in Of(S, y) : a.snapshot = t /\ a.at >= g.at
    BY <1>1, <2>1 DEF AsNew
  <2>4. a \in S /\ a.at \in Int /\ g.at \in Int
    BY DEF Of
  <2>5. a = g
    BY <2>3, <2>4
  <2>. QED
    BY <2>2, <2>3, <2>5
<1>. QED
  BY <1>4, <1>5 DEF ToDelete

-----------------------------------------------------------------------------
(***************************************************************************)
(* The order of the segments.                                              *)
(***************************************************************************)
Sound(S) ==
  /\ IsFiniteSet(S)
  /\ \A g \in S : g.at \in Int /\ g.tag \in Int
  /\ \A g, h \in S : g.tag = h.tag => g = h

\* A finite set has a member that no other one precedes.
LEMMA FirstExists ==
  ASSUME NEW X, IsFiniteSet(X), X # {}, NEW R,
         \A x \in X : <<x, x>> \notin R,
         \A x, y, z \in X : <<x, y>> \in R /\ <<y, z>> \in R => <<x, z>> \in R
  PROVE  \E m \in X : \A x \in X : <<x, m>> \notin R
<1>. DEFINE Under(x) == {y \in X : <<y, x>> \in R}
            A == {Under(x) : x \in X}
<1>1. IsWellFoundedOn(StrictSubsetOrdering(X), FiniteSubsetsOf(X))
  BY FS_StrictSubsetOrderingWellFounded
<1>2. A \subseteq FiniteSubsetsOf(X) /\ A # {}
  <2>1. \A x \in X : Under(x) \in SUBSET X
    OBVIOUS
  <2>2. \A B \in SUBSET X : IsFiniteSet(B)
    BY FS_Subset
  <2>. HIDE DEF Under
  <2>3. \A B \in A : B \in SUBSET X
    BY <2>1
  <2>4. A # {}
    OBVIOUS
  <2>. HIDE DEF A
  <2>. QED
    BY <2>2, <2>3, <2>4 DEF FiniteSubsetsOf
<1>3. PICK M \in A : \A N \in A : <<N, M>> \notin StrictSubsetOrdering(X)
  <2>. HIDE DEF A
  <2>. QED
    BY <1>1, <1>2, WFMin
<1>4. PICK m \in X : M = Under(m)
  OBVIOUS
<1>5. ASSUME NEW x \in X, <<x, m>> \in R PROVE FALSE
  <2>1. x \in Under(m) /\ x \notin Under(x) /\ Under(x) \subseteq Under(m)
    BY <1>5
  <2>2. Under(x) \in A /\ Under(m) \subseteq X
    OBVIOUS
  <2>. HIDE DEF Under, A
  <2>3. <<Under(x), M>> \in StrictSubsetOrdering(X)
    BY <2>1, <2>2, <1>4 DEF StrictSubsetOrdering
  <2>. QED
    BY <2>2, <2>3, <1>3
<1>. QED
  BY <1>5

\* Newer is a strict order, and total where no two tags are the same.
LEMMA NewerOrder ==
  ASSUME NEW S, Sound(S)
  PROVE  /\ \A g \in S : ~Newer(g, g)
         /\ \A g, h, k \in S : Newer(g, h) /\ Newer(h, k) => Newer(g, k)
         /\ \A g, h \in S : g = h \/ Newer(g, h) \/ Newer(h, g)
         /\ \A g, h \in S : Newer(g, h) => g.at >= h.at
BY DEF Sound, Newer

LEMMA NewestExists ==
  ASSUME NEW S, Sound(S), NEW X \in SUBSET S, X # {}
  PROVE  \E m \in X : \A h \in X : ~Newer(h, m)
<1>. DEFINE R == {r \in X \X X : Newer(r[1], r[2])}
<1>1. \A g, h \in X : <<g, h>> \in R <=> Newer(g, h)
  OBVIOUS
<1>2. IsFiniteSet(X)
  BY FS_Subset DEF Sound
<1>3. /\ \A g \in X : <<g, g>> \notin R
      /\ \A g, h, k \in X : <<g, h>> \in R /\ <<h, k>> \in R => <<g, k>> \in R
  <2>. HIDE DEF R
  <2>. QED
    BY <1>1, NewerOrder
<1>. HIDE DEF R
<1>4. PICK m \in X : \A h \in X : <<h, m>> \notin R
  BY <1>2, <1>3, FirstExists
<1>. QED
  BY <1>1, <1>4

LEMMA OldestExists ==
  ASSUME NEW S, Sound(S), NEW X \in SUBSET S, X # {}
  PROVE  \E m \in X : \A h \in X : ~Newer(m, h)
<1>. DEFINE R == {r \in X \X X : Newer(r[2], r[1])}
<1>1. \A g, h \in X : <<g, h>> \in R <=> Newer(h, g)
  OBVIOUS
<1>2. IsFiniteSet(X)
  BY FS_Subset DEF Sound
<1>3. /\ \A g \in X : <<g, g>> \notin R
      /\ \A g, h, k \in X : <<g, h>> \in R /\ <<h, k>> \in R => <<g, k>> \in R
  <2>. HIDE DEF R
  <2>. QED
    BY <1>1, NewerOrder
<1>. HIDE DEF R
<1>4. PICK m \in X : \A h \in X : <<h, m>> \notin R
  BY <1>2, <1>3, FirstExists
<1>. QED
  BY <1>1, <1>4

-----------------------------------------------------------------------------
\* The segments of a group are the same for each of its members.
LEMMA SameGroup ==
  ASSUME NEW S, NEW g \in S, NEW h \in Group(S, g)
  PROVE  h \in S /\ Group(S, h) = Group(S, g)
BY DEF Group

\* Of each package prune leaves the window or the PackageKeep newest: the oldest
\* segment it leaves is outside the window if any is, and then it counts among
\* the first (prune.go:205-219).
THEOREM NothingExtraIsLeft ==
  ASSUME NEW S, Sound(S)
  PROVE  NothingExtra(S)
<1>. SUFFICES ASSUME NEW kept \in Choices(S), NEW g \in S, g \notin ToDelete(S, kept),
                     g.key # None,
                     NEW h \in Group(S, g) \ ToDelete(S, kept), ~Recent(S, h)
              PROVE  Cardinality(Group(S, g) \ ToDelete(S, kept)) <= PackageKeep
  BY DEF NothingExtra, Deletions
<1>. DEFINE G == Group(S, g)
            left == G \ ToDelete(S, kept)
<1>1. G \subseteq S /\ \A k \in G : k.key # None /\ Group(S, k) = G
  BY SameGroup DEF Group
<1>2. PICK m \in left : \A k \in left : ~Newer(m, k)
  <2>1. left \in SUBSET S /\ left # {}
    BY <1>1
  <2>. HIDE DEF left
  <2>. QED
    BY <2>1, OldestExists
<1>3. m \in S /\ h \in S /\ m \in G /\ h \in G
  BY <1>1
<1>4. m.at <= h.at
  BY <1>2, <1>3, NewerOrder DEF Sound
<1>5. ~Recent(S, m)
  <2>1. PICK k \in G : ~(k.at - h.at < RetainFor)
    BY <1>1, <1>3 DEF Recent
  <2>2. ~(k.at - m.at < RetainFor)
    BY <1>1, <1>3, <1>4, <2>1, RetentionAssumption DEF Sound
  <2>. QED
    BY <1>1, <1>3, <2>1, <2>2 DEF Recent
<1>6. AmongFirst(S, m)
  BY <1>1, <1>3, <1>5 DEF ToDelete, Retained
<1>. DEFINE N == {k \in G : Newer(k, m)}
<1>7. Cardinality(N) < PackageKeep
  BY <1>1, <1>3, <1>6 DEF AmongFirst
<1>8. IsFiniteSet(N) /\ Cardinality(N) \in Nat
  <2>1. N \subseteq S
    BY <1>1
  <2>. HIDE DEF N
  <2>. QED
    BY <2>1, FS_Subset, FS_CardinalityType DEF Sound
<1>9. left \subseteq N \cup {m}
  BY <1>1, <1>2, <1>3, NewerOrder
<1>10. IsFiniteSet(N \cup {m}) /\ Cardinality(N \cup {m}) <= Cardinality(N) + 1
  <2>. HIDE DEF N
  <2>1. /\ IsFiniteSet(N \cup {m})
        /\ Cardinality(N \cup {m}) = (IF m \in N THEN Cardinality(N) ELSE Cardinality(N) + 1)
    BY <1>8, FS_AddElement
  <2>. QED
    BY <1>8, <2>1
<1>11. Cardinality(left) <= Cardinality(N \cup {m})
  <2>. HIDE DEF left, N
  <2>. QED
    BY <1>9, <1>10, FS_Subset
<1>12. Cardinality(left) \in Nat /\ Cardinality(N \cup {m}) \in Nat
  <2>. HIDE DEF left, N
  <2>. QED
    BY <1>9, <1>10, FS_Subset, FS_CardinalityType
<1>. HIDE DEF left, N
<1>13. Cardinality(left) <= PackageKeep
  BY <1>7, <1>8, <1>10, <1>11, <1>12, RetentionAssumption
<1>. QED
  BY <1>13 DEF left

-----------------------------------------------------------------------------
(***************************************************************************)
(* A prune that is cut short: what is left of S when part X of what was to *)
(* be deleted is gone.                                                     *)
(***************************************************************************)
LEMMA SnapshotsFinite ==
  ASSUME NEW S, IsFiniteSet(S), NEW y
  PROVE  /\ IsFiniteSet(Snapshots(S, y))
         /\ Cardinality(Snapshots(S, y)) \in Nat
<1>. DEFINE f == [g \in Of(S, y) |-> g.snapshot]
<1>1. IsFiniteSet(Of(S, y))
  BY FS_Subset DEF Of
<1>2. f \in Surjection(Of(S, y), Snapshots(S, y))
  BY DEF Surjection, Snapshots
<1>. HIDE DEF f
<1>3. IsFiniteSet(Snapshots(S, y))
  BY <1>1, <1>2, FS_Surjection
<1>. QED
  BY <1>3, FS_CardinalityType

LEMMA SoundSubset ==
  ASSUME NEW S, Sound(S), NEW R \in SUBSET S
  PROVE  Sound(R) /\ (Distinct(S) => Distinct(R))
<1>1. IsFiniteSet(R)
  BY FS_Subset DEF Sound
<1>. QED
  BY <1>1 DEF Sound, Distinct

\* Among the segments of one snapshot there is a newest.
LEMMA NewestOfSnapshot ==
  ASSUME NEW S, Sound(S), NEW y, NEW s \in Snapshots(S, y)
  PROVE  \E m \in Of(S, y) :
           /\ m.snapshot = s
           /\ \A h \in Of(S, y) : h.snapshot = s => ~Newer(h, m) /\ h.at <= m.at
<1>. DEFINE W == {h \in Of(S, y) : h.snapshot = s}
<1>1. W \in SUBSET S /\ W # {}
  BY DEF Of, Snapshots
<1>2. PICK m \in W : \A h \in W : ~Newer(h, m)
  <2>. HIDE DEF W
  <2>. QED
    BY <1>1, NewestExists
<1>3. \A h \in W : h.at <= m.at
  <2>. SUFFICES ASSUME NEW h \in W PROVE h.at <= m.at
    OBVIOUS
  <2>1. m \in S /\ h \in S /\ ~Newer(h, m)
    BY <1>1, <1>2
  <2>2. h = m \/ m.at >= h.at
    BY <2>1, NewerOrder
  <2>. QED
    BY <2>1, <2>2 DEF Sound
<1>. QED
  BY <1>2, <1>3

\* The newest segment of a kept snapshot is never deleted.
LEMMA KeptNewest ==
  ASSUME NEW S, Sound(S), NEW kept \in Choices(S), NEW y \in Systems(S), NEW s \in kept[y]
  PROVE  \E m \in Of(S, y) \ ToDelete(S, kept) :
           /\ m.snapshot = s
           /\ \A h \in Of(S, y) : h.snapshot = s => h.at <= m.at
<1>1. s \in Snapshots(S, y)
  BY DEF Choices, KeptSnapshots
<1>2. PICK m \in Of(S, y) :
           /\ m.snapshot = s
           /\ \A h \in Of(S, y) : h.snapshot = s => ~Newer(h, m) /\ h.at <= m.at
  BY <1>1, NewestOfSnapshot
<1>3. m \in S /\ m.system = y
  BY DEF Of
<1>4. \A h \in Group(S, m) : ~Newer(h, m)
  BY <1>2, <1>3 DEF Group, Of
<1>5. Retained(S, m)
  BY <1>3, <1>4, NewestRetained
<1>6. m \notin ToDelete(S, kept)
  BY <1>2, <1>3, <1>5 DEF ToDelete
<1>. QED
  BY <1>2, <1>6

LEMMA KeptNonEmpty ==
  ASSUME NEW S, Sound(S), NEW y \in Systems(S), NEW K \in KeptSnapshots(S, y)
  PROVE  K # {}
<1>1. Snapshots(S, y) # {}
  BY DEF Systems, Snapshots, Of
<1>2. IsFiniteSet(Snapshots(S, y)) /\ Cardinality(Snapshots(S, y)) # 0
  BY <1>1, SnapshotsFinite, FS_EmptySet DEF Sound
<1>3. Cardinality(K) # 0
  BY <1>2, RetentionAssumption DEF KeptSnapshots, Few
<1>. QED
  BY <1>3, FS_EmptySet

\* Where no two snapshots are of one age, only one choice is open to keptSnapshots.
LEMMA OneChoice ==
  ASSUME NEW S, Sound(S), Distinct(S), NEW y,
         NEW K \in KeptSnapshots(S, y), NEW L \in KeptSnapshots(S, y)
  PROVE  K = L
<1>. SUFFICES ASSUME K # L PROVE FALSE
  OBVIOUS
<1>1. K \subseteq Snapshots(S, y) /\ L \subseteq Snapshots(S, y)
      /\ Cardinality(K) = Cardinality(L)
  BY DEF KeptSnapshots
<1>2. IsFiniteSet(K) /\ IsFiniteSet(L)
  BY <1>1, SnapshotsFinite, FS_Subset DEF Sound
<1>3. ~(K \subseteq L) /\ ~(L \subseteq K)
  BY <1>1, <1>2, FS_Subset
<1>4. PICK s \in K : s \notin L
  BY <1>3
<1>5. PICK t \in L : t \notin K
  BY <1>3
<1>6. AsNew(S, y, s, t) /\ AsNew(S, y, t, s)
  BY <1>1, <1>4, <1>5 DEF KeptSnapshots
<1>7. PICK m \in Of(S, y) :
           m.snapshot = s /\ \A h \in Of(S, y) : h.snapshot = s => h.at <= m.at
  BY <1>1, <1>4, NewestOfSnapshot
<1>8. PICK n \in Of(S, y) :
           n.snapshot = t /\ \A h \in Of(S, y) : h.snapshot = t => h.at <= n.at
  BY <1>1, <1>5, NewestOfSnapshot
<1>9. PICK a \in Of(S, y) : a.snapshot = s /\ a.at >= n.at
  BY <1>6, <1>8 DEF AsNew
<1>10. PICK b \in Of(S, y) : b.snapshot = t /\ b.at >= m.at
  BY <1>6, <1>7 DEF AsNew
<1>11. a.at <= m.at /\ b.at <= n.at
  BY <1>7, <1>8, <1>9, <1>10
<1>12. m.at = n.at
  <2>1. m.at \in Int /\ n.at \in Int /\ a.at \in Int /\ b.at \in Int
    BY DEF Of, Sound
  <2>. QED
    BY <1>9, <1>10, <1>11, <2>1
<1>13. m.snapshot = n.snapshot
  BY <1>12 DEF Of, Distinct
<1>. QED
  BY <1>4, <1>7, <1>8, <1>13

\* What is left has the snapshots that were to be kept, and keeps those.
LEMMA SameSnapshotsKept ==
  ASSUME NEW S, Sound(S), NEW kept \in Choices(S), NEW X \in SUBSET ToDelete(S, kept),
         NEW y \in Systems(S)
  PROVE  /\ y \in Systems(S \ X)
         /\ kept[y] \in KeptSnapshots(S \ X, y)
<1>. DEFINE R == S \ X
            K == kept[y]
            old == Snapshots(S, y)
            new == Snapshots(R, y)
<1>1. K \in KeptSnapshots(S, y) /\ K \subseteq old
  BY DEF Choices, KeptSnapshots
<1>2. \A s \in K : \E m \in Of(R, y) :
         m.snapshot = s /\ \A h \in Of(S, y) : h.snapshot = s => h.at <= m.at
  <2>. SUFFICES ASSUME NEW s \in K
                PROVE  \E m \in Of(R, y) :
                  m.snapshot = s /\ \A h \in Of(S, y) : h.snapshot = s => h.at <= m.at
    OBVIOUS
  <2>1. PICK m \in Of(S, y) \ ToDelete(S, kept) :
           m.snapshot = s /\ \A h \in Of(S, y) : h.snapshot = s => h.at <= m.at
    BY KeptNewest
  <2>2. m \in Of(R, y)
    BY <2>1 DEF Of
  <2>. QED
    BY <2>1, <2>2
<1>3. K # {}
  BY <1>1, KeptNonEmpty
<1>4. y \in Systems(R)
  BY <1>2, <1>3 DEF Systems, Of
<1>5. K \subseteq new /\ new \subseteq old
  BY <1>2 DEF Snapshots, Of
<1>6. Sound(R)
  BY SoundSubset
<1>7. /\ IsFiniteSet(old) /\ Cardinality(old) \in Nat
      /\ IsFiniteSet(new) /\ Cardinality(new) \in Nat
  BY <1>6, SnapshotsFinite DEF Sound
<1>8. /\ Cardinality(K) \in Nat /\ Cardinality(K) <= Cardinality(new)
      /\ Cardinality(K) = Cardinality(old) => K = old
  <2>. HIDE DEF K, old, new, R
  <2>1. K \subseteq old
    BY <1>5
  <2>. QED
    BY <1>5, <1>7, <2>1, FS_Subset, FS_CardinalityType
<1>9. Cardinality(K) = (IF Cardinality(old) < Keep THEN Cardinality(old) ELSE Keep)
  BY <1>1 DEF KeptSnapshots, Few
<1>10. Cardinality(K) = Few(R, y)
  <2>1. CASE Cardinality(old) < Keep
    <3>1. K = old /\ new = old
      BY <2>1, <1>5, <1>8, <1>9
    <3>. QED
      BY <2>1, <3>1 DEF Few
  <2>2. CASE ~(Cardinality(old) < Keep)
    <3>1. Cardinality(K) = Keep /\ ~(Cardinality(new) < Keep)
      BY <2>2, <1>7, <1>8, <1>9, RetentionAssumption
    <3>. QED
      BY <3>1 DEF Few
  <2>. QED
    BY <2>1, <2>2
<1>11. ASSUME NEW s \in K, NEW t \in new \ K PROVE AsNew(R, y, s, t)
  <2>1. AsNew(S, y, s, t)
    BY <1>1, <1>5, <1>11 DEF KeptSnapshots
  <2>2. PICK m \in Of(R, y) :
         m.snapshot = s /\ \A h \in Of(S, y) : h.snapshot = s => h.at <= m.at
    BY <1>2
  <2>3. ASSUME NEW b \in Of(R, y), b.snapshot = t PROVE m.at >= b.at
    <3>1. b \in Of(S, y)
      BY DEF Of
    <3>2. PICK a \in Of(S, y) : a.snapshot = s /\ a.at >= b.at
      BY <3>1, <2>1, <2>3 DEF AsNew
    <3>3. a.at <= m.at
      BY <3>2, <2>2
    <3>4. a.at \in Int /\ b.at \in Int /\ m.at \in Int
      BY DEF Of, Sound
    <3>. QED
      BY <3>2, <3>3, <3>4
  <2>. QED
    BY <2>2, <2>3 DEF AsNew
<1>. QED
  BY <1>4, <1>5, <1>10, <1>11 DEF KeptSnapshots

\* The rule for one package gives the same answer on what is left.
LEMMA SameRetained ==
  ASSUME NEW S, Sound(S), NEW kept \in Choices(S), NEW X \in SUBSET ToDelete(S, kept),
         NEW g \in S \ X, g.snapshot \in kept[g.system], g.key # None
  PROVE  Retained(S \ X, g) <=> Retained(S, g)
<1>. DEFINE G == Group(S, g)
            N == {h \in G : Newer(h, g)}
            T == {h \in N : AmongFirst(S, h)}
<1>1. Group(S \ X, g) = G \ X /\ G \subseteq S /\ g \in G
  BY DEF Group
<1>2. \A h \in G : Group(S, h) = G /\ (Retained(S, h) => h \notin X)
  <2>1. \A h \in G : h \in S /\ Group(S, h) = G
    BY SameGroup
  <2>. QED
    BY <2>1 DEF ToDelete, Group
<1>3. {h \in Group(S \ X, g) : Newer(h, g)} = N \ X
  BY <1>1
<1>4. /\ IsFiniteSet(N) /\ Cardinality(N) \in Nat
      /\ IsFiniteSet(N \ X) /\ Cardinality(N \ X) \in Nat
      /\ IsFiniteSet(T) /\ Cardinality(T) \in Nat
  <2>1. IsFiniteSet(N)
    BY <1>1, FS_Subset DEF Sound
  <2>2. N \ X \subseteq N /\ T \subseteq N
    OBVIOUS
  <2>. HIDE DEF N, T
  <2>. QED
    BY <2>1, <2>2, FS_Subset, FS_CardinalityType
<1>5. ASSUME Recent(S, g) PROVE Recent(S \ X, g)
  BY <1>5, <1>1 DEF Recent
<1>6. ASSUME AmongFirst(S, g) PROVE AmongFirst(S \ X, g)
  <2>1. Cardinality(N) < PackageKeep
    BY <1>6 DEF AmongFirst
  <2>2. Cardinality(N \ X) <= Cardinality(N)
    <3>. HIDE DEF N
    <3>. QED
      BY <1>4, FS_Subset
  <2>3. Cardinality(N \ X) < PackageKeep
    BY <2>1, <2>2, <1>4, RetentionAssumption
  <2>. QED
    BY <2>3, <1>3 DEF AmongFirst
<1>7. ASSUME Recent(S \ X, g) PROVE Recent(S, g)
  <2>1. PICK m \in G : \A h \in G : ~Newer(h, m)
    BY <1>1, NewestExists
  <2>2. Retained(S, m)
    BY <2>1, <1>1, <1>2, NewestRetained
  <2>3. m \in G \ X
    BY <2>2, <1>2
  <2>4. m.at - g.at < RetainFor
    BY <2>3, <1>1, <1>7 DEF Recent
  <2>5. ASSUME NEW h \in G PROVE h.at - g.at < RetainFor
    <3>1. h \in S /\ m \in S /\ ~Newer(h, m)
      BY <1>1, <2>1
    <3>2. h = m \/ m.at >= h.at
      BY <3>1, NewerOrder
    <3>3. h.at \in Int /\ m.at \in Int /\ g.at \in Int
      BY <3>1, <1>1 DEF Sound
    <3>. QED
      BY <2>4, <3>2, <3>3, RetentionAssumption
  <2>. QED
    BY <2>5 DEF Recent
<1>8. ASSUME AmongFirst(S \ X, g) PROVE AmongFirst(S, g)
  <2>. SUFFICES ASSUME ~AmongFirst(S, g) PROVE FALSE
    OBVIOUS
  <2>1. Cardinality(N \ X) < PackageKeep
    BY <1>3, <1>8 DEF AmongFirst
  <2>2. ~(Cardinality(N) < PackageKeep)
    BY DEF AmongFirst
  <2>3. T \subseteq N \ X
    BY <1>2 DEF Retained
  <2>4. Cardinality(T) <= Cardinality(N \ X)
    <3>. HIDE DEF N, T
    <3>. QED
      BY <2>3, <1>4, FS_Subset
  <2>5. Cardinality(T) < PackageKeep /\ T # N
    BY <2>1, <2>2, <2>4, <1>4, RetentionAssumption
  <2>6. PICK m \in N \ T : \A h \in N \ T : ~Newer(h, m)
    <3>1. N \ T \in SUBSET S /\ N \ T # {}
      BY <1>1, <2>5
    <3>. HIDE DEF N, T
    <3>. QED
      BY <3>1, NewestExists
  <2>. DEFINE M == {h \in G : Newer(h, m)}
  <2>7. M \subseteq T
    <3>1. \A h \in M : Newer(h, g)
      BY <1>1, <2>6, NewerOrder
    <3>. QED
      BY <3>1, <2>6
  <2>8. Cardinality(M) <= Cardinality(T) /\ Cardinality(M) \in Nat
    <3>. HIDE DEF M, T
    <3>. QED
      BY <2>7, <1>4, FS_Subset, FS_CardinalityType
  <2>9. Cardinality(M) < PackageKeep
    BY <2>5, <2>8, <1>4, RetentionAssumption
  <2>10. AmongFirst(S, m)
    BY <2>6, <2>9, <1>2 DEF AmongFirst
  <2>. QED
    BY <2>6, <2>10
<1>. QED
  BY <1>5, <1>6, <1>7, <1>8 DEF Retained

\* A prune cut short after any part of its deletions is completed by the next,
\* which wants to delete the rest of them and nothing else (prune.go:130-147).
THEOREM ResumableAlways ==
  ASSUME NEW S, Sound(S)
  PROVE  Resumable(S)
<1>. SUFFICES ASSUME Distinct(S), NEW kept \in Choices(S),
                     NEW X \in SUBSET ToDelete(S, kept)
              PROVE  Deletions(S \ X) = {ToDelete(S, kept) \ X}
  BY DEF Resumable, Deletions
<1>. DEFINE R == S \ X
            old == {g.snapshot : g \in S}
            new == {g.snapshot : g \in R}
<1>1. Sound(R) /\ Distinct(R)
  BY SoundSubset
<1>2. \A y \in Systems(S) : y \in Systems(R) /\ kept[y] \in KeptSnapshots(R, y)
  BY SameSnapshotsKept
<1>3. Systems(R) = Systems(S)
  BY <1>2 DEF Systems
<1>4. kept \in Choices(R)
  <2>1. kept \in [Systems(S) -> SUBSET old]
    BY DEF Choices
  <2>2. \A y \in Systems(S) : kept[y] \subseteq new
    BY <1>2 DEF KeptSnapshots, Snapshots, Of
  <2>. HIDE DEF old, new
  <2>3. kept \in [Systems(S) -> SUBSET new]
    BY <2>1, <2>2
  <2>. QED
    BY <2>3, <1>2, <1>3 DEF Choices, new
<1>5. \A k \in Choices(R) : k = kept
  <2>. SUFFICES ASSUME NEW k \in Choices(R) PROVE k = kept
    OBVIOUS
  <2>1. \A y \in Systems(R) : k[y] \in KeptSnapshots(R, y) /\ kept[y] \in KeptSnapshots(R, y)
    BY <1>4 DEF Choices
  <2>. HIDE DEF R
  <2>2. \A y \in Systems(R) : k[y] = kept[y]
    BY <2>1, <1>1, OneChoice
  <2>. QED
    BY <2>2, <1>4 DEF Choices
<1>6. ToDelete(R, kept) = ToDelete(S, kept) \ X
  <2>. SUFFICES ASSUME NEW g \in R
                PROVE  g \in ToDelete(R, kept) <=> g \in ToDelete(S, kept)
    BY DEF ToDelete
  <2>1. CASE g.snapshot \in kept[g.system] /\ g.key # None
    BY <2>1, SameRetained DEF ToDelete
  <2>2. CASE ~(g.snapshot \in kept[g.system] /\ g.key # None)
    BY <2>2 DEF ToDelete
  <2>. QED
    BY <2>1, <2>2
<1>. QED
  BY <1>4, <1>5, <1>6 DEF Deletions

-----------------------------------------------------------------------------
(***************************************************************************)
(* The same of every cache that pushes and prunes can leave.               *)
(***************************************************************************)
LEMMA SoundInit == Init => Sound(segs)
BY FS_EmptySet DEF Init, Sound

LEMMA SoundStep == Sound(segs) /\ [Next]_segs => Sound(segs)'
<1>. SUFFICES ASSUME Sound(segs), [Next]_segs PROVE Sound(segs)'
  OBVIOUS
<1>1. CASE Push
  <2>1. PICK g \in Segment :
          (\A h \in segs : h.tag # g.tag) /\ segs' = segs \cup {g}
    BY <1>1 DEF Push
  <2>2. IsFiniteSet(segs')
    BY <2>1, FS_AddElement DEF Sound
  <2>3. g.at \in Int /\ g.tag \in Int
    BY SegmentAssumption DEF Segment
  <2>. QED
    BY <2>1, <2>2, <2>3 DEF Sound
<1>2. CASE Prune
  <2>1. segs' \in SUBSET segs
    BY <1>2 DEF Prune
  <2>. QED
    BY <2>1, SoundSubset
<1>3. CASE UNCHANGED segs
  BY <1>3 DEF Sound
<1>. QED
  BY <1>1, <1>2, <1>3 DEF Next

LEMMA SoundAlways == Spec => []Sound(segs)
BY SoundInit, SoundStep, PTL DEF Spec

\* Whatever has been pushed and pruned, an interrupted prune is completed by the
\* next one and by nothing more than its rest (prune.go:130-147).
THEOREM PrunesAlwaysResume == Spec => []PruneResumes
<1>1. Sound(segs) => PruneResumes
  BY ResumableAlways DEF PruneResumes
<1>. QED
  BY <1>1, SoundAlways, PTL

\* A run that pushes only some packages never costs the others the entry they
\* have in the snapshots that are kept (prune_test.go:128).
THEOREM PackagesLiveOn == Spec => []EveryPackageSurvives
<1>1. EveryPackageSurvives
  BY PackagesAlwaysSurvive DEF EveryPackageSurvives
<1>. QED
  BY <1>1, PTL

\* A prune of any cache there can be leaves of a package the window or the
\* PackageKeep newest, never both and more (prune.go:205-219).
THEOREM PrunesAreThorough == Spec => []NothingExtraKept
<1>1. Sound(segs) => NothingExtraKept
  BY NothingExtraIsLeft DEF NothingExtraKept
<1>. QED
  BY <1>1, SoundAlways, PTL
=============================================================================
