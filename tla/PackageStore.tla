---------------------------- MODULE PackageStore ----------------------------
(***************************************************************************)
(* What the packages of a prefix are to those who read it (bm list, info,  *)
(* outdated, upgrade: the packages with metadata, cmd/binman/install.go:   *)
(* 229-250): a package is absent, or all the files of the version its      *)
(* metadata names are there.  One package changes at a time, and it goes   *)
(* from one version to another through being absent; it is never part of   *)
(* the one and part of the other.                                          *)
(***************************************************************************)
CONSTANTS Pkg, Ver, Files, Absent

VARIABLE have   \* have[p]: Absent, or what is in the store of p

Whole(p, v, linked) ==
  [ver |-> v, digest |-> v, files |-> Files[p][v], linked |-> linked]

Init == have = [p \in Pkg |-> Absent]

Put(p) ==
  /\ have[p] = Absent
  /\ \E v \in Ver, linked \in BOOLEAN : have' = [have EXCEPT ![p] = Whole(p, v, linked)]

Drop(p) ==
  /\ have[p] # Absent
  /\ have' = [have EXCEPT ![p] = Absent]

\* Linked into the prefix or not: the files stay.
Relink(p) ==
  /\ have[p] # Absent
  /\ have' = [have EXCEPT ![p].linked = ~@]

Next == \E p \in Pkg : Put(p) \/ Drop(p) \/ Relink(p)

Spec == Init /\ [][Next]_have
=============================================================================
