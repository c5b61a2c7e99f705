---------------------------- MODULE MCRetention ----------------------------
(* Every cache of a few segments, in any order of their times.              *)
EXTENDS PushedSegments

CONSTANTS s1, s2, k1, k2
=============================================================================
