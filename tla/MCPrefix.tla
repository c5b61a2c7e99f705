------------------------------ MODULE MCPrefix ------------------------------
(* Instances of Prefix for TLC: two packages that share a path and change     *)
(* their file lists between two versions.                                     *)
EXTENDS Prefix

CONSTANTS p1, p2, v1, v2, a, b, d, f1

MCPkg == {p1, p2}
MCVer == {v1, v2}
MCPath == {a, b, d}
\* a is in the directory d.
MCAbove == [x \in MCPath |-> IF x = a THEN {d} ELSE {}]
MCProfile == {f1}
MCNames == <<p1, p2>>

\* p1 trades a for b.  p2 has both, and trades a for a file where a's directory is.
MCFiles == [p \in MCPkg |->
  IF p = p1 THEN [v \in MCVer |-> IF v = v1 THEN {a} ELSE {b}]
  ELSE [v \in MCVer |-> IF v = v1 THEN {a, b} ELSE {d, b}]]

Inst(names, link, force) == [names |-> names, link |-> link, force |-> force]
Man(link, unlink, members) ==
  [link |-> link, unlink |-> unlink, profiles |-> [f \in MCProfile |-> members]]
AllFlags == [force : BOOLEAN, prune : BOOLEAN]
PruneFlags == {[force |-> FALSE, prune |-> TRUE]}

NoManifests == {}
NoInstalls == {}
NoUpgrades == {}
NoRemoves == {}

\* Installs, upgrades and removals.
SmallInstalls == {Inst(<<p1, p2>>, TRUE, FALSE), Inst(<<p2>>, TRUE, TRUE), Inst(<<p1>>, FALSE, FALSE)}
\* A forced install of one package, which fetches it again.
ForcedInstall == {Inst(<<p2>>, TRUE, TRUE)}
SmallUpgrades == {<< >>, <<p2>>}

AllPoints == PC \ {"idle", "done"}
\* All points but those that leave a stage directory without metadata, which
\* nothing ever looks at.
NotExtract == AllPoints \ {"extract", "seal"}
NotWipe == AllPoints \ {"wipe", "rmWipe"}
\* Where a sync can be cut short with the most left to repair.
SyncPoints == {"wipe", "relink", "save", "build"}
\* Both linked and both in the profile; p1 alone, not linked, so that a prune
\* removes p2.
TwoManifests == {Man(<<p2, p1>>, << >>, <<p2, p1>>), Man(<< >>, <<p1>>, <<p1>>)}
\* p1 linked, p2 only in the profile.
OneManifest == {Man(<<p1>>, << >>, <<p2, p1>>)}
JustP2 == {p2}
\* One command, run again and again, that dies only inside placeStore.
SameInstall == {Inst(<<p2>>, TRUE, FALSE)}
InPlaceStore == {"unlink", "wipe", "rename"}
=============================================================================
