---------------------------- MODULE MCCacheStore ----------------------------
(* Pushes for one system: two packages in one snapshot, and one of them again *)
(* in another snapshot.  Pushes share NARs.                                     *)
EXTENDS CacheStore

CONSTANTS p1, p2, h1, h2, d1, d2, s1, s2, k1, k2

ThreePushes == 1..3
TwoPruners == {p1, p2}
MCHash == {h1, h2}
MCDigest == {d1, d2}
MCSystem == [r \in Push |-> "x86_64"]
MCSnapshot == [r \in Push |-> IF r = 3 THEN s2 ELSE s1]
MCKey == [r \in Push |-> IF r = 2 THEN k2 ELSE k1]
MCEntries ==
  [r \in Push |->
    CASE r = 1 -> [h \in {h1} |-> d2]
      [] r = 2 -> [h \in {h1, h2} |-> IF h = h1 THEN d1 ELSE d2]
      [] r = 3 -> [h \in {h1} |-> d1]]
=============================================================================
