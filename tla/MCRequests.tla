----------------------------- MODULE MCRequests -----------------------------
(* A segment in order, one whose metadata does not validate and one whose     *)
(* manifest does not.                                                         *)
EXTENDS Requests

CONSTANTS t1, t2, t3

ThreeTags == {t1, t2, t3}
=============================================================================
