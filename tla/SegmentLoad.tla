---------------------------- MODULE SegmentLoad ----------------------------
(***************************************************************************)
(* What loading the segments of the cache promises to its callers          *)
(* (fetchSegments, cmd/nixcache/registry.go:210-244): the tags of one      *)
(* moment are listed and taken one by one, a tag is left out only if it    *)
(* is not there when its turn comes, and the result is replaced by a whole *)
(* new one or not at all.                                                  *)
(***************************************************************************)
CONSTANTS Tag, Wanted

VARIABLES
  visible,         \* the tags in the registry, which others add and remove
  pc,              \* "load" between the listing and the end of the load
  listed, loaded,  \* tags still to take, and those taken
  result           \* the last load that succeeded

vars == <<visible, pc, listed, loaded, result>>

Init ==
  /\ visible \subseteq Tag
  /\ pc = "idle" /\ listed = {} /\ loaded = {} /\ result = {}

Begin ==
  /\ pc = "idle"
  /\ pc' = "load" /\ listed' = visible \cap Wanted
  /\ UNCHANGED <<visible, loaded, result>>

Take(t) ==
  /\ pc = "load" /\ t \in listed
  /\ listed' = listed \ {t}
  /\ loaded' = loaded \cup {t} \/ (t \notin visible /\ loaded' = loaded)
  /\ UNCHANGED <<visible, pc, result>>

Finish ==
  /\ pc = "load" /\ listed = {}
  /\ result' = loaded
  /\ pc' = "idle" /\ loaded' = {}
  /\ UNCHANGED <<visible, listed>>

\* A load that fails keeps the last result; a process that stops loses it.
Abandon ==
  /\ pc' = "idle" /\ listed' = {} /\ loaded' = {}
  /\ result' \in {result, {}}
  /\ visible' = visible

Churn ==
  /\ visible' \subseteq Tag
  /\ UNCHANGED <<pc, listed, loaded, result>>

Next == Begin \/ (\E t \in Tag : Take(t)) \/ Finish \/ Abandon \/ Churn

Spec == Init /\ [][Next]_vars
=============================================================================
