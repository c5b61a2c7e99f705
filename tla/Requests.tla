------------------------------ MODULE Requests ------------------------------
(***************************************************************************)
(* One load of the segments of the cache, or of their manifests for the    *)
(* size, request by request (cmd/nixcache/registry.go:89-143, 171-328):    *)
(* the tags are listed, then an errgroup of at most Limit tasks reads      *)
(* them, each with a request for the manifest and, for a segment, one for  *)
(* the metadata it names.  A request that exceeds its deadline is          *)
(* repeated, up to Attempts times in all; the first error of a task        *)
(* cancels the others.  Pushes and prunes go on meanwhile.                 *)
(*                                                                         *)
(* The callers' context is never cancelled (main.go runs Execute without   *)
(* one), only that of the group.  A listing shows the tags of one moment.  *)
(***************************************************************************)
EXTENDS Naturals, FiniteSets

CONSTANTS
  Tag,
  Wanted,      \* the tags with the prefix that is loaded
  Malformed,   \* tags whose manifest getManifest rejects
  Unsound,     \* tags whose metadata getSegment or validateSegment rejects
  Limit,       \* segmentLoadConcurrency
  Attempts     \* registryTimeoutAttempts

ASSUME RequestsAssumption ==
  /\ Wanted \subseteq Tag /\ Malformed \subseteq Tag /\ Unsound \subseteq Tag
  /\ IsFiniteSet(Tag)
  /\ Limit \in Nat \ {0} /\ Attempts \in Nat \ {0}

VARIABLES
  fate,      \* fate[t]: whether t is pushed, pruned, and its metadata collected
  pc,        \* how far the load is
  reads,     \* what it reads: "segments" or "manifests"
  tries,     \* attempts at listing
  task,      \* task[t]: what the task of t does
  attempt,   \* attempt[t]: attempts at its present request
  cause,     \* the error the group holds
  result,    \* the segments of the last load that succeeded
  since,     \* history: tags there when they were listed, and ever since
  timeouts   \* history: deadlines this load has exceeded, up to Attempts

vars == <<fate, pc, reads, tries, task, attempt, cause, result, since, timeouts>>

Visible == {t \in Tag : fate[t] = "visible"}
Tasks(S) == {t \in Tag : task[t] \in S}
Running == Tasks({"manifest", "metadata"})
Unlisted == [t \in Tag |-> "unlisted"]
NoAttempts == [t \in Tag |-> 0]

Init ==
  /\ fate = [t \in Tag |-> "unpushed"]
  /\ pc = "idle" /\ reads = "segments" /\ tries = 0 /\ task = Unlisted /\ attempt = NoAttempts
  /\ cause = "none" /\ result = {} /\ since = {} /\ timeouts = 0

-----------------------------------------------------------------------------
(* registryRequest *)

\* The attempt that follows number a when this exceeded its deadline, if any.
Unlimited(a) == {a + 1}  \* mutant
StartsOver(a) == {IF a < Attempts THEN a + 1 ELSE 1}  \* mutant
NextTries(a) == {a + 1} \cap 1..Attempts

LateAgain == timeouts' = IF timeouts < Attempts THEN timeouts + 1 ELSE timeouts

\* The error of a request, and the group's: under a cancelled context every
\* error becomes that of the context, and errgroup keeps the first.
Cancelled == cause # "none"
ErrorOf(kind) == IF Cancelled THEN "canceled" ELSE kind
OnlyLogged(kind) == cause  \* mutant
KeepsLast(kind) == ErrorOf(kind)  \* mutant
Recorded(kind) == IF Cancelled THEN cause ELSE ErrorOf(kind)

-----------------------------------------------------------------------------
(* listTags *)

\* The next load: the ticker of serve, or another command.
Begin ==
  /\ pc \in {"idle", "done", "failed"}
  /\ reads' \in {"segments", "manifests"}
  /\ pc' = "list" /\ tries' = 1 /\ timeouts' = 0
  /\ task' = Unlisted /\ attempt' = NoAttempts /\ cause' = "none" /\ since' = {}
  /\ UNCHANGED <<fate, result>>

\* A repository nothing was pushed to is unknown to the registry, which is an
\* error, and taken to be empty.
UnknownFails ==  \* mutant
  IF \E t \in Tag : fate[t] # "unpushed" THEN "group" ELSE "failed"
AfterListing == "group"

ListAnswer ==
  /\ pc = "list"
  /\ pc' = AfterListing
  /\ task' = [t \in Tag |-> IF t \in Visible \cap Wanted THEN "queued" ELSE "unlisted"]
  /\ since' = Visible \cap Wanted
  /\ UNCHANGED <<fate, reads, tries, attempt, cause, result, timeouts>>

ListLate ==
  /\ pc = "list"
  /\ LateAgain
  /\ \/ tries' \in NextTries(tries) /\ UNCHANGED <<pc, cause>>
     \/ NextTries(tries) = {} /\ pc' = "failed" /\ cause' = "timeout" /\ tries' = tries
  /\ UNCHANGED <<fate, reads, task, attempt, result, since>>

ListFails ==
  /\ pc = "list"
  /\ pc' = "failed" /\ cause' = "network"
  /\ UNCHANGED <<fate, reads, tries, task, attempt, result, since, timeouts>>

-----------------------------------------------------------------------------
(* fetchSegments and getSegment *)

\* Ways for the task of t to go on.
Goes(t, step) == task' = [task EXCEPT ![t] = step] /\ cause' = cause
Errs(t, kind) == task' = [task EXCEPT ![t] = "error"] /\ cause' = Recorded(kind)

\* A task starts when the pool has room, and gives up at once in a cancelled
\* group.
Dispatch(t) ==
  /\ pc = "group" /\ task[t] = "queued" /\ Cardinality(Running) < Limit
  /\ IF Cancelled THEN Errs(t, "canceled") ELSE Goes(t, "manifest")
  /\ attempt' = [attempt EXCEPT ![t] = 1]
  /\ UNCHANGED <<fate, pc, reads, tries, result, since, timeouts>>

\* A tag or a blob that is not there: the segment is left out, unless the group
\* is cancelled.
Gone(t) == IF Cancelled THEN Errs(t, "canceled") ELSE Goes(t, "missing")

ManifestAnswer(t) ==
  /\ task[t] = "manifest"
  /\ CASE fate[t] # "visible" -> Gone(t)
       [] fate[t] = "visible" /\ t \in Malformed -> Errs(t, "invalid")
       [] OTHER -> Goes(t, IF reads = "segments" THEN "metadata" ELSE "loaded")
  /\ attempt' = [attempt EXCEPT ![t] = 1]
  /\ UNCHANGED <<fate, pc, reads, tries, result, since, timeouts>>

\* The blob outlives its tag, until the registry collects it.
SkipUnsound(t) ==  \* mutant
  IF t \in Unsound \/ fate[t] = "collected" THEN Gone(t) ELSE Goes(t, "loaded")
Metadata(t) ==
  CASE fate[t] = "collected" -> Gone(t)
    [] fate[t] # "collected" /\ t \in Unsound -> Errs(t, "invalid")
    [] OTHER -> Goes(t, "loaded")

MetadataAnswer(t) ==
  /\ task[t] = "metadata"
  /\ Metadata(t)
  /\ UNCHANGED <<fate, pc, reads, tries, attempt, result, since, timeouts>>

Late(t) ==
  /\ t \in Running
  /\ LateAgain
  /\ \/ /\ ~Cancelled /\ UNCHANGED <<task, cause>>
        /\ \E n \in NextTries(attempt[t]) : attempt' = [attempt EXCEPT ![t] = n]
     \/ /\ Cancelled \/ NextTries(attempt[t]) = {}
        /\ Errs(t, "timeout") /\ attempt' = attempt
  /\ UNCHANGED <<fate, pc, reads, tries, result, since>>

\* Any other error, and a request the group has cancelled.
Fails(t) ==
  /\ t \in Running
  /\ Errs(t, "network")
  /\ UNCHANGED <<fate, pc, reads, tries, attempt, result, since, timeouts>>

\* group.Wait
AllEnded == Tasks({"queued"}) \cup Running = {}

GroupDone ==
  /\ pc = "group" /\ AllEnded
  /\ IF Cancelled THEN pc' = "failed" /\ result' = result
                  ELSE pc' = "done" /\ result' = Tasks({"loaded"})
  /\ UNCHANGED <<fate, reads, tries, task, attempt, cause, since, timeouts>>

-----------------------------------------------------------------------------
(* The others: a tag is used once. *)

Turns(t, from, to) ==
  /\ fate[t] = from
  /\ fate' = [fate EXCEPT ![t] = to]
  /\ UNCHANGED <<pc, reads, tries, task, attempt, cause, result, timeouts>>

Publish(t) == Turns(t, "unpushed", "visible") /\ since' = since
Prune(t) == Turns(t, "visible", "pruned") /\ since' = since \ {t}
Collect(t) == Turns(t, "pruned", "collected") /\ since' = since

-----------------------------------------------------------------------------
ListStep == ListAnswer \/ ListLate \/ ListFails
TaskStep(t) ==
  Dispatch(t) \/ ManifestAnswer(t) \/ MetadataAnswer(t) \/ Late(t) \/ Fails(t)

Next ==
  \/ Begin \/ ListStep \/ GroupDone
  \/ \E t \in Tag : TaskStep(t) \/ Publish(t) \/ Prune(t) \/ Collect(t)

Spec == Init /\ [][Next]_vars

\* The ticker fires (serve.go:169), the scheduler runs every task, and a request
\* ends, by its deadline at worst (registry.go:100).
FairSpec ==
  /\ Spec
  /\ WF_vars(Begin) /\ WF_vars(ListStep) /\ WF_vars(GroupDone)
  /\ \A t \in Tag : WF_vars(TaskStep(t))

-----------------------------------------------------------------------------
(* Properties. *)

\* The variables stay in their ranges, and the pool in its size.
TypeOK ==
  /\ fate \in [Tag -> {"unpushed", "visible", "pruned", "collected"}]
  /\ pc \in {"idle", "list", "group", "done", "failed"}
  /\ reads \in {"segments", "manifests"}
  /\ tries \in 0..Attempts /\ timeouts \in 0..Attempts
  /\ task \in [Tag -> {"unlisted", "queued", "manifest", "metadata",
                       "loaded", "missing", "error"}]
  /\ attempt \in [Tag -> 0..Attempts]
  /\ cause \in {"none", "timeout", "network", "invalid", "canceled"}
  /\ result \subseteq Tag /\ since \subseteq Tag

\* The tags that the load cannot read.
Bad == Malformed \cup (IF reads = "segments" THEN Unsound ELSE {})

\* A load that reports success has every segment that was there throughout, and
\* none that does not validate: what cannot be read is never taken for what is
\* not there, which would make serve forget cached paths and prune take old
\* segments for the newest (registry.go:221-235).
LoadIsComplete ==
  pc = "done" => since \subseteq result /\ result \cap Bad = {}

\* A load that fails says why: the error is what stopped the first task, never
\* the cancellation this caused, nor a tag that was pruned meanwhile; a
\* deadline counts only after Attempts of them (registry.go:106-111, 221-228).
FailureHasACause ==
  pc = "failed" =>
    /\ cause \in {"timeout", "network", "invalid"}
    /\ cause = "timeout" => timeouts = Attempts
    /\ cause = "invalid" => \E t \in Bad : task[t] = "error"

\* When the load returns, no task is left that could still write its result
\* (registry.go:229, 233).
QuietOnceReturned == pc # "group" => Running = {}

\* Loading request by request is loading tag by tag.
Load == INSTANCE SegmentLoad WITH
  visible <- Visible,
  pc <- IF pc = "group" THEN "load" ELSE "idle",
  listed <- IF pc = "group" THEN Tasks({"queued", "manifest", "metadata", "error"}) ELSE {},
  loaded <- IF pc = "group" THEN Tasks({"loaded"}) ELSE {}
LoadsTagByTag == Load!Spec

\* Every load ends, whatever the registry does.
LoadEnds == pc \in {"list", "group"} ~> pc \in {"done", "failed"}

\* Loads that failed are made up for: once requests are answered and no bad
\* segment is left, every later load succeeds; before, a single bad segment
\* makes every load fail.
Trouble == ListLate \/ ListFails \/ \E t \in Tag : ~Cancelled /\ (Late(t) \/ Fails(t))
NoneBad == (Malformed \cup Unsound) \cap Wanted \cap Visible = {}
LoadsRecover ==
  <>[][~Trouble]_vars /\ <>[]NoneBad => <>[](pc # "failed") /\ []<>(pc = "done")
=============================================================================
