--------------------------- MODULE RequestsProofs ---------------------------
(***************************************************************************)
(* What a load of segments guarantees for any tags, any pool and any       *)
(* number of attempts, and that it implements SegmentLoad.                 *)
(***************************************************************************)
EXTENDS Requests, TLAPS

Open == {"queued", "manifest", "metadata"}

\* The tags that were there throughout are neither unlisted nor missing.
SinceInv ==
  \A t \in since : fate[t] = "visible" /\ task[t] \notin {"unlisted", "missing"}

\* What was read so far is in order.
ReadInv ==
  \A t \in Tag : /\ task[t] = "metadata" => t \notin Malformed /\ reads = "segments"
                 /\ task[t] = "loaded" => t \notin Bad

\* The attempts of one request are at most one more than the deadlines exceeded.
TriesInv ==
  /\ pc = "list" => tries <= timeouts + 1
  /\ \A t \in Running : attempt[t] <= timeouts + 1

\* The error of the group goes with what happened, and with the tasks in error.
CauseInv ==
  /\ cause \in {"none", "timeout", "network", "invalid"}
  /\ pc \in {"idle", "list", "done"} => cause = "none"
  /\ pc = "failed" => cause # "none"
  /\ cause = "none" => Tasks({"error"}) = {}
  /\ cause = "timeout" => timeouts = Attempts
  /\ cause = "invalid" => \E t \in Bad : task[t] = "error"

\* Tasks run in the group only, and the result is theirs.
PhaseInv ==
  /\ pc # "group" => Tasks(Open) = {}
  /\ pc = "done" => result = Tasks({"loaded"})

Inv == TypeOK /\ SinceInv /\ ReadInv /\ TriesInv /\ CauseInv /\ PhaseInv

USE RequestsAssumption

LEMMA InvInit == Init => Inv
BY DEF Init, Inv, TypeOK, SinceInv, ReadInv, TriesInv, CauseInv, PhaseInv, Running, Tasks,
       Open, Unlisted, NoAttempts

LEMMA BadStill == ASSUME reads' = reads PROVE Bad' = Bad
BY DEF Bad

LEMMA BeginStep == ASSUME Inv, Begin PROVE Inv'
BY DEF Begin, Inv, TypeOK, SinceInv, ReadInv, TriesInv, CauseInv, PhaseInv, Running, Tasks,
       Open, Unlisted, NoAttempts

LEMMA ListStepStep == ASSUME Inv, ListStep PROVE Inv'
<1>1. CASE ListAnswer
  BY <1>1 DEF ListAnswer, AfterListing, Inv, TypeOK, SinceInv, ReadInv, TriesInv, CauseInv,
              PhaseInv, Running, Tasks, Visible
<1>2. CASE ListLate
  BY <1>2, BadStill DEF ListLate, LateAgain, NextTries, Inv, TypeOK, SinceInv, ReadInv, TriesInv,
              CauseInv, PhaseInv, Running, Tasks
<1>3. CASE ListFails
  BY <1>3, BadStill DEF ListFails, Inv, TypeOK, SinceInv, ReadInv, TriesInv, CauseInv, PhaseInv,
              Running, Tasks
<1>. QED
  BY <1>1, <1>2, <1>3 DEF ListStep

LEMMA GroupDoneStep == ASSUME Inv, GroupDone PROVE Inv'
BY BadStill DEF GroupDone, AllEnded, Cancelled, Inv, TypeOK, SinceInv, ReadInv, TriesInv, CauseInv,
       PhaseInv, Running, Tasks, Open

LEMMA TurnStep ==
  ASSUME Inv, NEW t \in Tag, Publish(t) \/ Prune(t) \/ Collect(t)
  PROVE  Inv'
BY BadStill DEF Publish, Prune, Collect, Turns, Inv, TypeOK, SinceInv, ReadInv, TriesInv, CauseInv,
       PhaseInv, Running, Tasks

\* A task in progress belongs to the group.
LEMMA OpenInGroup == ASSUME Inv, NEW t \in Tag, task[t] \in Open PROVE pc = "group"
BY DEF Inv, PhaseInv, Tasks

\* A task that goes on without an error.
LEMMA GoesStep ==
  ASSUME Inv, NEW t \in Tag, NEW step \in {"manifest", "metadata", "loaded", "missing"},
         task[t] \in Open, Goes(t, step),
         attempt' \in {attempt, [attempt EXCEPT ![t] = 1]},
         task[t] = "queued" => attempt'[t] = 1,
         step = "metadata" => t \notin Malformed /\ reads = "segments",
         step = "loaded" => t \notin Bad,
         step = "missing" => fate[t] # "visible",
         UNCHANGED <<fate, pc, reads, tries, result, since, timeouts>>
  PROVE  Inv'
<1>g. pc = "group"
  BY OpenInGroup
<1>t. /\ task \in [Tag -> {"unlisted", "queued", "manifest", "metadata",
                           "loaded", "missing", "error"}]
      /\ attempt \in [Tag -> 0..Attempts] /\ timeouts \in 0..Attempts
  BY DEF Inv, TypeOK
<1>1. TypeOK'
  BY DEF Inv, TypeOK, Goes
<1>2. SinceInv'
  BY <1>t DEF Inv, SinceInv, Goes
<1>3. ReadInv'
  BY <1>t, BadStill DEF Inv, ReadInv, Goes
<1>4. TriesInv'
  <2>1. \A q \in Tag : q # t => task'[q] = task[q] /\ attempt'[q] = attempt[q]
    BY <1>t DEF Goes
  <2>2. attempt'[t] = 1 \/ (t \in Running /\ attempt'[t] = attempt[t])
    BY <1>t DEF Open, Running, Tasks
  <2>3. \A q \in Tag : q # t => (q \in Running <=> q \in Running')
    BY <2>1 DEF Running, Tasks
  <2>4. \A q \in Running' : attempt'[q] <= timeouts' + 1
    BY <2>1, <2>2, <2>3, <1>t DEF Inv, TriesInv, Running, Tasks
  <2>. QED
    BY <2>4, <1>g DEF TriesInv
<1>5. CauseInv'
  BY <1>t, <1>g, BadStill DEF Inv, CauseInv, Goes, Tasks, Open
<1>6. PhaseInv'
  BY <1>g DEF PhaseInv
<1>. QED
  BY <1>1, <1>2, <1>3, <1>4, <1>5, <1>6 DEF Inv

\* A task that ends in an error, whose kind counts if it is the first.
LEMMA ErrsStep ==
  ASSUME Inv, NEW t \in Tag, NEW kind \in {"timeout", "network", "invalid", "canceled"},
         task[t] \in Open, Errs(t, kind),
         attempt' \in {attempt, [attempt EXCEPT ![t] = 1]},
         timeouts' \in 0..Attempts, timeouts <= timeouts',
         ~Cancelled /\ kind = "timeout" => timeouts' = Attempts,
         ~Cancelled /\ kind = "invalid" => t \in Bad,
         ~Cancelled => kind # "canceled",
         UNCHANGED <<fate, pc, reads, tries, result, since>>
  PROVE  Inv'
<1>g. pc = "group"
  BY OpenInGroup
<1>t. /\ task \in [Tag -> {"unlisted", "queued", "manifest", "metadata",
                           "loaded", "missing", "error"}]
      /\ attempt \in [Tag -> 0..Attempts] /\ timeouts \in 0..Attempts
      /\ task' = [task EXCEPT ![t] = "error"]
  BY DEF Inv, TypeOK, Errs
<1>c. /\ Cancelled => cause' = cause
      /\ ~Cancelled => cause' = kind
  BY DEF Errs, Recorded, ErrorOf
<1>1. TypeOK'
  BY <1>t, <1>c DEF Inv, TypeOK
<1>2. SinceInv'
  BY <1>t DEF Inv, SinceInv
<1>3. ReadInv'
  BY <1>t, BadStill DEF Inv, ReadInv
<1>4. TriesInv'
  BY <1>t, <1>g DEF Inv, TriesInv, Running, Tasks
<1>5. CauseInv'
  <2>1. CASE Cancelled
    BY <2>1, <1>t, <1>c, <1>g, BadStill DEF Inv, CauseInv, Tasks, Cancelled
  <2>2. CASE ~Cancelled
    BY <2>2, <1>t, <1>c, <1>g DEF Inv, CauseInv, Tasks, Cancelled, Bad
  <2>. QED
    BY <2>1, <2>2
<1>6. PhaseInv'
  BY <1>g DEF PhaseInv
<1>. QED
  BY <1>1, <1>2, <1>3, <1>4, <1>5, <1>6 DEF Inv

\* A request repeated after a deadline.
LEMMA RepeatStep ==
  ASSUME Inv, NEW t \in Running, NEW n \in NextTries(attempt[t]), LateAgain,
         attempt' = [attempt EXCEPT ![t] = n],
         UNCHANGED <<fate, pc, reads, tries, task, cause, result, since>>
  PROVE  Inv'
<1>g. t \in Tag /\ pc = "group"
  BY OpenInGroup DEF Running, Tasks, Open
<1>t. /\ attempt \in [Tag -> 0..Attempts] /\ timeouts \in 0..Attempts
      /\ n = attempt[t] + 1 /\ n \in 1..Attempts
  BY <1>g DEF Inv, TypeOK, NextTries
<1>l. timeouts' \in 0..Attempts /\ timeouts <= timeouts'
      /\ (timeouts' = timeouts + 1 \/ timeouts' = Attempts)
  BY <1>t DEF LateAgain
<1>1. TypeOK'
  BY <1>g, <1>t, <1>l DEF Inv, TypeOK
<1>2. TriesInv'
  <2>1. attempt[t] <= timeouts + 1
    BY DEF Inv, TriesInv
  <2>2. n <= timeouts' + 1
    BY <1>g, <1>t, <1>l, <2>1
  <2>. QED
    BY <2>2, <1>l, <1>t, <1>g DEF Inv, TriesInv, Running, Tasks
<1>3. CauseInv'
  BY <1>t, <1>l, <1>g, BadStill DEF Inv, CauseInv, Tasks
<1>. QED
  BY <1>1, <1>2, <1>3, BadStill DEF Inv, SinceInv, ReadInv, PhaseInv, Tasks

LEMMA TaskStepStep == ASSUME Inv, NEW t \in Tag, TaskStep(t) PROVE Inv'
<1>t. /\ attempt \in [Tag -> 0..Attempts] /\ timeouts \in 0..Attempts
      /\ fate[t] \in {"unpushed", "visible", "pruned", "collected"}
  BY DEF Inv, TypeOK
<1>1. CASE Dispatch(t)
  <2>1. /\ task[t] \in Open /\ attempt' = [attempt EXCEPT ![t] = 1] /\ attempt'[t] = 1
        /\ timeouts' \in 0..Attempts /\ timeouts <= timeouts'
        /\ UNCHANGED <<fate, pc, reads, tries, result, since, timeouts>>
    BY <1>1, <1>t DEF Dispatch, Open
  <2>2. CASE Cancelled /\ Errs(t, "canceled")
    BY <2>1, <2>2, ErrsStep
  <2>3. CASE ~Cancelled /\ Goes(t, "manifest")
    BY <2>1, <2>3, GoesStep
  <2>. QED
    BY <1>1, <2>2, <2>3 DEF Dispatch
<1>2. CASE ManifestAnswer(t)
  <2>1. /\ task[t] \in Open /\ task[t] = "manifest"
        /\ attempt' = [attempt EXCEPT ![t] = 1] /\ attempt'[t] = 1
        /\ timeouts' \in 0..Attempts /\ timeouts <= timeouts'
        /\ UNCHANGED <<fate, pc, reads, tries, result, since, timeouts>>
    BY <1>2, <1>t DEF ManifestAnswer, Open
  <2>2. CASE Cancelled /\ Errs(t, "canceled")
    BY <2>1, <2>2, ErrsStep
  <2>3. CASE fate[t] # "visible" /\ Goes(t, "missing")
    BY <2>1, <2>3, GoesStep
  <2>4. CASE t \in Malformed /\ Errs(t, "invalid")
    BY <2>1, <2>4, ErrsStep DEF Bad
  <2>5. CASE /\ t \notin Malformed
             /\ Goes(t, IF reads = "segments" THEN "metadata" ELSE "loaded")
    <3>1. CASE reads = "segments"
      BY <2>1, <2>5, <3>1, GoesStep
    <3>2. CASE reads # "segments"
      BY <2>1, <2>5, <3>2, GoesStep DEF Bad
    <3>. QED
      BY <3>1, <3>2
  <2>. QED
    BY <1>2, <2>2, <2>3, <2>4, <2>5 DEF ManifestAnswer, Gone
<1>3. CASE MetadataAnswer(t)
  <2>1. task[t] = "metadata" /\ t \notin Malformed /\ reads = "segments"
    BY <1>3 DEF MetadataAnswer, Inv, ReadInv
  <2>2. fate[t] = "visible" => fate[t] # "collected"
    OBVIOUS
  <2>. QED
    BY <1>3, <1>t, <2>1, GoesStep, ErrsStep DEF MetadataAnswer, Metadata, Gone, Open, Bad
<1>4. CASE Late(t)
  <2>1. CASE \E n \in NextTries(attempt[t]) : attempt' = [attempt EXCEPT ![t] = n] /\ UNCHANGED <<task, cause>>
    BY <1>4, <2>1, RepeatStep DEF Late
  <2>2. CASE Errs(t, "timeout") /\ attempt' = attempt /\ (Cancelled \/ NextTries(attempt[t]) = {})
    <3>1. attempt[t] <= timeouts + 1
      BY <1>4 DEF Late, Inv, TriesInv
    <3>2. NextTries(attempt[t]) = {} => attempt[t] >= Attempts
      BY <1>t DEF NextTries
    <3>3. timeouts' \in 0..Attempts /\ timeouts <= timeouts'
      BY <1>4, <1>t DEF Late, LateAgain
    <3>4. NextTries(attempt[t]) = {} => timeouts' = Attempts
      BY <1>4, <1>t, <3>1, <3>2 DEF Late, LateAgain
    <3>. QED
      BY <1>4, <2>2, <3>3, <3>4, ErrsStep DEF Late, Running, Tasks, Open
  <2>. QED
    BY <1>4, <2>1, <2>2 DEF Late
<1>5. CASE Fails(t)
  BY <1>5, <1>t, ErrsStep DEF Fails, Running, Tasks, Open
<1>. QED
  BY <1>1, <1>2, <1>3, <1>4, <1>5 DEF TaskStep

LEMMA InvStep == Inv /\ [Next]_vars => Inv'
<1>. SUFFICES ASSUME Inv, [Next]_vars PROVE Inv'
  OBVIOUS
<1>1. CASE UNCHANGED vars
  BY <1>1, BadStill DEF vars, Inv, TypeOK, SinceInv, ReadInv, TriesInv, CauseInv, PhaseInv, Running, Tasks
<1>. QED
  BY <1>1, BeginStep, ListStepStep, GroupDoneStep, TaskStepStep, TurnStep DEF Next

THEOREM RequestsInvariant == Spec => []Inv
BY InvInit, InvStep, PTL DEF Spec

-----------------------------------------------------------------------------
\* The variables stay in their ranges.
THEOREM RequestsTypeCorrect == Spec => []TypeOK
<1>1. Inv => TypeOK
  BY DEF Inv
<1>. QED
  BY <1>1, RequestsInvariant, PTL

\* A load that reports success has every segment that was there throughout, and
\* none that does not validate.
THEOREM LoadsAreComplete == Spec => []LoadIsComplete
<1>1. Inv => LoadIsComplete
  <2>. SUFFICES ASSUME Inv, pc = "done"
                PROVE  since \subseteq result /\ result \cap Bad = {}
    BY DEF LoadIsComplete, Bad
  <2>1. result = Tasks({"loaded"}) /\ Tasks(Open) = {} /\ Tasks({"error"}) = {}
    BY DEF Inv, PhaseInv, CauseInv
  <2>2. \A t \in since : t \in Tasks({"loaded"})
    BY <2>1 DEF Inv, TypeOK, SinceInv, Tasks, Open
  <2>. QED
    BY <2>1, <2>2 DEF Inv, ReadInv, Tasks
<1>. QED
  BY <1>1, RequestsInvariant, PTL

\* A load that fails reports what stopped its first task.
THEOREM FailuresHaveACause == Spec => []FailureHasACause
<1>1. Inv => FailureHasACause
  BY DEF Inv, CauseInv, FailureHasACause
<1>. QED
  BY <1>1, RequestsInvariant, PTL

\* No task outlives its load.
THEOREM NoTaskOutlivesItsLoad == Spec => []QuietOnceReturned
<1>1. Inv => QuietOnceReturned
  BY DEF Inv, PhaseInv, QuietOnceReturned, Running, Tasks, Open
<1>. QED
  BY <1>1, RequestsInvariant, PTL

-----------------------------------------------------------------------------
(* The refinement: a task that ends takes its tag, the last one finishes the  *)
(* load, and the rest is stuttering.                                          *)

Pending == Tasks({"queued", "manifest", "metadata", "error"})

LEMMA LoadInit == Init => Load!Init
BY DEF Init, Load!Init, Visible

\* A step of a task that does not end it.
LEMMA TaskGoesOn ==
  ASSUME Inv, NEW t \in Tag, task[t] \in Open \cup {"error"},
         NEW step \in {"manifest", "metadata", "error"},
         task' = [task EXCEPT ![t] = step], UNCHANGED <<fate, pc, result>>
  PROVE  UNCHANGED Load!vars
<1>1. Tasks({"loaded"})' = Tasks({"loaded"}) /\ Pending' = Pending
  BY DEF Inv, TypeOK, Tasks, Open, Pending
<1>. QED
  BY <1>1 DEF Load!vars, Visible, Pending

\* A step that ends a task without an error.
LEMMA TaskTakes ==
  ASSUME Inv, NEW t \in Tag, task[t] \in Open, NEW step \in {"loaded", "missing"},
         task' = [task EXCEPT ![t] = step], step = "missing" => fate[t] # "visible",
         UNCHANGED <<fate, pc, result>>
  PROVE  Load!Take(t)
<1>1. pc = "group" /\ t \in Pending /\ Pending' = Pending \ {t}
  BY OpenInGroup DEF Inv, TypeOK, Tasks, Open, Pending
<1>2. Tasks({"loaded"})' = IF step = "loaded" THEN Tasks({"loaded"}) \cup {t}
                                              ELSE Tasks({"loaded"})
  BY DEF Inv, TypeOK, Tasks, Open
<1>. QED
  BY <1>1, <1>2 DEF Load!Take, Visible, Pending

LEMMA TaskRefines ==
  ASSUME Inv, NEW t \in Tag, TaskStep(t)
  PROVE  Load!Take(t) \/ UNCHANGED Load!vars
<1>1. UNCHANGED <<fate, pc, result>>
  BY DEF TaskStep, Dispatch, ManifestAnswer, MetadataAnswer, Late, Fails
<1>2. CASE task' = task
  BY <1>1, <1>2 DEF Load!vars, Visible, Tasks
<1>3. CASE task' # task
  <2>1. task[t] \in Open
    BY DEF TaskStep, Dispatch, ManifestAnswer, MetadataAnswer, Late, Fails, Running, Tasks, Open
  <2>2. \/ \E step \in {"manifest", "metadata", "error"} : task' = [task EXCEPT ![t] = step]
        \/ \E step \in {"loaded", "missing"} :
             /\ task' = [task EXCEPT ![t] = step]
             /\ step = "missing" => fate[t] # "visible"
    BY <1>3 DEF TaskStep, Dispatch, ManifestAnswer, MetadataAnswer, Metadata, Late, Fails,
                Gone, Goes, Errs
  <2>. QED
    BY <1>1, <2>1, <2>2, TaskGoesOn, TaskTakes
<1>. QED
  BY <1>2, <1>3

LEMMA LoadStep == Inv /\ [Next]_vars => [Load!Next]_(Load!vars)
<1>. SUFFICES ASSUME Inv, [Next]_vars PROVE Load!Next \/ UNCHANGED Load!vars
  OBVIOUS
<1>1. CASE Begin \/ ListLate \/ ListFails
  BY <1>1 DEF Begin, ListLate, ListFails, Load!vars, Visible
<1>2. CASE ListAnswer
  <2>1. pc = "list" /\ pc' = "group" /\ UNCHANGED <<fate, result>>
        /\ task' = [t \in Tag |-> IF t \in Visible \cap Wanted THEN "queued" ELSE "unlisted"]
    BY <1>2 DEF ListAnswer, AfterListing
  <2>2. Pending' = Visible \cap Wanted /\ Tasks({"loaded"})' = {}
    BY <2>1 DEF Pending, Tasks, Visible
  <2>3. Load!Begin
    BY <2>1, <2>2 DEF Load!Begin, Pending, Visible
  <2>. QED
    BY <2>3 DEF Load!Next
<1>3. CASE GroupDone
  <2>1. pc = "group" /\ pc' # "group" /\ UNCHANGED <<fate, task>>
        /\ Tasks({"queued"}) \cup Running = {}
    BY <1>3 DEF GroupDone, AllEnded
  <2>2. CASE Cancelled
    <3>1. result' = result
      BY <1>3, <2>2 DEF GroupDone
    <3>2. Load!Abandon
      BY <2>1, <3>1 DEF Load!Abandon, Visible
    <3>. QED
      BY <3>2 DEF Load!Next
  <2>3. CASE ~Cancelled
    <3>1. result' = Tasks({"loaded"})
      BY <1>3, <2>3 DEF GroupDone
    <3>2. Pending = {}
      BY <2>1, <2>3 DEF Inv, CauseInv, Cancelled, Pending, Tasks, Running
    <3>3. Load!Finish
      BY <2>1, <3>1, <3>2 DEF Load!Finish, Visible, Pending
    <3>. QED
      BY <3>3 DEF Load!Next
  <2>. QED
    BY <2>2, <2>3
<1>4. CASE \E t \in Tag : TaskStep(t)
  BY <1>4, TaskRefines DEF Load!Next
<1>5. CASE \E t \in Tag : Publish(t) \/ Prune(t) \/ Collect(t)
  <2>1. Load!Churn
    BY <1>5 DEF Publish, Prune, Collect, Turns, Load!Churn, Visible, Tasks
  <2>. QED
    BY <2>1 DEF Load!Next
<1>6. CASE UNCHANGED vars
  BY <1>6 DEF vars, Load!vars, Visible, Tasks
<1>. QED
  BY <1>1, <1>2, <1>3, <1>4, <1>5, <1>6 DEF Next, ListStep

\* Loading request by request implements loading tag by tag.
THEOREM RequestsImplementSegmentLoad == Spec => LoadsTagByTag
<1>1. Init => Load!Init
  BY LoadInit
<1>2. Inv /\ [Next]_vars => [Load!Next]_(Load!vars)
  BY LoadStep
<1>. QED
  BY <1>1, <1>2, RequestsInvariant, PTL DEF Spec, LoadsTagByTag, Load!Spec
=============================================================================
