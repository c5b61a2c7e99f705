----------------------------- MODULE MCNixCache -----------------------------
(* A server for one snapshot, over two pushes of one package in it, the       *)
(* second with another build of the same path, and one elsewhere.             *)
EXTENDS NixCache

CONSTANTS p1, h1, h2, d1, d2, d3, s1, s2, k1

ThreePushes == 1..3
MCHash == {h1, h2}
MCDigest == {d1, d2, d3}
MCSystem == [r \in Push |-> "x86_64"]
MCSnapshot == [r \in Push |-> IF r = 3 THEN s2 ELSE s1]
MCKey == [r \in Push |-> k1]
MCHome == [system |-> "x86_64", snapshot |-> s1]
MCEntries ==
  [r \in Push |->
    CASE r = 1 -> [h \in {h1, h2} |-> IF h = h1 THEN d1 ELSE d2]
      [] r = 2 -> [h \in {h1} |-> d3]
      [] r = 3 -> [h \in {h2} |-> d2]]
=============================================================================
