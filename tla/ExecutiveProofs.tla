-------------------------- MODULE ExecutiveProofs --------------------------
(***************************************************************************)
(* What holds of every executive task, whatever its budget and whatever    *)
(* the planner, the reviewer and the verifier answer.                      *)
(***************************************************************************)
EXTENDS Executive, WorkerTaskProofs

USE ExecutiveLimit

Counted == asked \in Nat /\ invoked \in Nat /\ budget \in Nat /\ plan \in Nat /\ role \in Roles

(* The calls made before the role under way makes its own.                 *)
Before == CASE role = "planner" -> 0 [] role = "reviewer" -> 1 [] role = "verifier" -> 2

(* Each role makes one call; the steps lie between the second and third.   *)
CallsCounted ==
    /\ asked <= 3
    /\ at = "start" => role = "planner"
    /\ at \in {"start", "check", "ask"} => asked = Before
    /\ at = "reply" => asked = Before + 1
    /\ at \in {"step", "invoke"} => asked = 2

(* Nothing is invoked before the review, and then no more than was granted. *)
StepsCounted ==
    /\ invoked <= budget
    /\ at \in {"start", "check", "ask", "reply"} /\ role # "verifier" => invoked = 0 /\ plan <= budget
    /\ at \in {"step", "invoke"} => invoked + plan <= budget
    /\ at = "invoke" => plan > 0

(* Only what was checked in time may begin after it.                       *)
ExecutiveInTime ==
    /\ expired \in BOOLEAN /\ overtime \in {0, 1}
    /\ ~expired => overtime = 0
    /\ at \in {"ask", "invoke"} => overtime = 0

ExecutiveChecked == at \in {"ask", "invoke", "goal"} => late = 0

ExecutiveInv == RowOK /\ LateOK /\ Counted /\ CallsCounted /\ StepsCounted /\ ExecutiveInTime /\ ExecutiveChecked

----------------------------------------------------------------------------

(* A task that ends, for better or worse.                                  *)
LEMMA OverKeeps ==
    ASSUME ExecutiveInv, RowOK', LateOK', Counted', at' \in {"dead", "done"},
           asked' <= 3, invoked' <= budget', overtime' \in {0, 1},
           expired' = expired, ~expired => overtime' = 0
    PROVE  ExecutiveInv'
BY DEF ExecutiveInv, CallsCounted, StepsCounted, ExecutiveInTime, ExecutiveChecked

LEMMA FailedKeeps ==
    ASSUME ExecutiveInv, Fail \/ (\E s \in States : End(s)),
           UNCHANGED <<late, overtime, planVars, asked, invoked, expired>>
    PROVE  ExecutiveInv'
<1>1. RowOK' /\ task'.cancel = task.cancel /\ at' \in {"dead", "done"}
  BY FailKeeps, EndKeeps DEF ExecutiveInv
<1>2. LateOK'
  BY <1>1, NoEffectKeeps DEF ExecutiveInv
<1>3. Counted'
  BY DEF planVars, ExecutiveInv, Counted
<1> QED
  BY <1>1, <1>2, <1>3, OverKeeps DEF planVars, ExecutiveInv, CallsCounted, StepsCounted, ExecutiveInTime

LEMMA StartExecutiveKeeps == ASSUME ExecutiveInv, StartExecutive PROVE ExecutiveInv'
<1>1. UNCHANGED <<late, overtime, planVars, asked, invoked, expired>>
  BY DEF StartExecutive
<1>2. CASE Fail
  BY <1>1, <1>2, FailedKeeps
<1>3. CASE Move("planning") /\ at' = "check"
  <2>1. RowOK' /\ task'.cancel = task.cancel
    BY <1>3, MoveKeeps, StatesOfRows DEF ExecutiveInv, Active
  <2>2. LateOK'
    BY <1>1, <2>1, NoEffectKeeps DEF ExecutiveInv
  <2>3. Counted' /\ CallsCounted' /\ StepsCounted' /\ ExecutiveInTime' /\ ExecutiveChecked'
    BY <1>1, <1>3 DEF StartExecutive, planVars, ExecutiveInv, Counted, CallsCounted, Before, StepsCounted,
                      ExecutiveInTime, ExecutiveChecked
  <2> QED BY <2>1, <2>2, <2>3 DEF ExecutiveInv
<1> QED BY <1>2, <1>3 DEF StartExecutive

LEMMA CheckCallKeeps == ASSUME ExecutiveInv, CheckCall PROVE ExecutiveInv'
<1>1. UNCHANGED <<late, overtime, planVars, asked, invoked, expired>>
  BY DEF CheckCall
<1>2. CASE Fail
  BY <1>1, <1>2, FailedKeeps
<1>3. CASE ~Stopped /\ at' = "ask" /\ UNCHANGED task
  <2>1. RowOK' /\ LateOK' /\ late' = 0 /\ overtime' = 0
    BY <1>1, <1>3 DEF Stopped, ExecutiveInv, RowOK, LateOK, ExecutiveInTime
  <2>2. Counted' /\ CallsCounted' /\ StepsCounted'
    BY <1>1, <1>3 DEF CheckCall, planVars, ExecutiveInv, Counted, CallsCounted, Before, StepsCounted
  <2>3. ExecutiveInTime' /\ ExecutiveChecked'
    BY <1>1, <1>3, <2>1 DEF ExecutiveInv, ExecutiveInTime, ExecutiveChecked
  <2> QED BY <2>1, <2>2, <2>3 DEF ExecutiveInv
<1> QED BY <1>2, <1>3 DEF CheckCall

LEMMA AskModelKeeps == ASSUME ExecutiveInv, AskModel PROVE ExecutiveInv'
<1>1. late = 0 /\ overtime = 0
  BY DEF AskModel, ExecutiveInv, ExecutiveInTime, ExecutiveChecked
<1>2. RowOK' /\ LateOK'
  BY <1>1, EffectKeeps DEF AskModel, ExecutiveInv, RowOK
<1>3. ExecutiveInTime' /\ ExecutiveChecked'
  BY <1>1 DEF AskModel, Timed, ExecutiveInv, ExecutiveInTime, ExecutiveChecked
<1>4. Counted' /\ CallsCounted' /\ StepsCounted'
  BY DEF AskModel, planVars, ExecutiveInv, Counted, CallsCounted, Before, Roles, StepsCounted
<1> QED BY <1>2, <1>3, <1>4 DEF ExecutiveInv

LEMMA ModelRepliesKeeps == ASSUME ExecutiveInv, ModelReplies PROVE ExecutiveInv'
<1>1. at = "reply" /\ UNCHANGED <<expired, late, overtime, budget, asked, invoked>>
  BY DEF ModelReplies
<1>2. CASE FailExecutive \/ (\E s \in States : End(s) /\ UNCHANGED <<role, plan>>)
  BY <1>1, <1>2, FailedKeeps DEF FailExecutive, planVars
<1>3. ASSUME ~Stopped, RowOK', task'.cancel = task.cancel
      PROVE  (LateOK' /\ late' = 0 /\ ExecutiveInTime' /\ ExecutiveChecked') \/ at' \in {"ask", "invoke"}
  BY <1>1, <1>3 DEF Stopped, ExecutiveInv, LateOK, ExecutiveInTime, ExecutiveChecked
<1>4. CASE ~Stopped /\ Planned
  <2>1. PICK n \in 0..Steps + 1 : n <= budget /\ plan' = n
    BY <1>4 DEF Planned, WithinBudget
  <2>2. n \in Nat /\ role = "planner" /\ role' = "reviewer" /\ at' = "check" /\ UNCHANGED task
    BY <1>4, <2>1 DEF Planned
  <2>3. RowOK' /\ task'.cancel = task.cancel
    BY <2>2 DEF ExecutiveInv, RowOK
  <2>4. Counted' /\ CallsCounted' /\ StepsCounted'
    BY <1>1, <2>1, <2>2 DEF ExecutiveInv, Counted, Roles, CallsCounted, Before, StepsCounted
  <2> QED BY <1>3, <1>4, <2>2, <2>3, <2>4 DEF ExecutiveInv
<1>5. CASE ~Stopped /\ Reviewed
  <2>1. CASE End("needs_review") /\ UNCHANGED <<role, plan>>
    BY <1>2, <2>1, StatesOfRows
  <2>2. CASE /\ \E n \in {plan} \cup 0..Steps + 1 : WithinBudget(n) /\ plan' = n
             /\ Move("running") /\ at' = "step" /\ UNCHANGED role
    <3>1. PICK n \in {plan} \cup 0..Steps + 1 : n <= budget /\ plan' = n
      BY <2>2 DEF WithinBudget
    <3>2. n \in Nat /\ role = "reviewer"
      BY <1>5, <3>1 DEF Reviewed, ExecutiveInv, Counted
    <3>3. RowOK' /\ task'.cancel = task.cancel
      BY <2>2, MoveKeeps, StatesOfRows DEF ExecutiveInv
    <3>4. Counted' /\ CallsCounted' /\ StepsCounted'
      BY <1>1, <2>2, <3>1, <3>2 DEF ExecutiveInv, Counted, Roles, CallsCounted, Before, StepsCounted
    <3> QED BY <1>3, <1>5, <2>2, <3>3, <3>4 DEF ExecutiveInv
  <2> QED BY <1>5, <2>1, <2>2 DEF Reviewed
<1>6. CASE ~Stopped /\ Verified
  <2>1. role = "verifier" /\ at' = "goal" /\ UNCHANGED <<role, plan>>
    BY <1>6 DEF Verified
  <2>2. RowOK' /\ task'.cancel = task.cancel
    BY <1>6, MoveKeeps, StatesOfRows DEF Verified, ExecutiveInv, Active
  <2>3. Counted' /\ CallsCounted' /\ StepsCounted'
    BY <1>1, <2>1 DEF ExecutiveInv, Counted, CallsCounted, Before, StepsCounted
  <2> QED BY <1>3, <1>6, <2>1, <2>2, <2>3 DEF ExecutiveInv
<1> QED BY <1>2, <1>4, <1>5, <1>6 DEF ModelReplies

LEMMA NextStepKeeps == ASSUME ExecutiveInv, NextStep PROVE ExecutiveInv'
<1>1. at = "step" /\ UNCHANGED <<expired, late, overtime, budget, plan, asked, invoked>>
  BY DEF NextStep
<1>2. CASE plan = 0
  <2>1. Move("verifying") /\ role' = "verifier" /\ at' = "check"
    BY <1>2 DEF NextStep, ExecutiveInv, Counted
  <2>2. RowOK' /\ task'.cancel = task.cancel
    BY <2>1, MoveKeeps, StatesOfRows DEF ExecutiveInv, Active
  <2>3. LateOK'
    BY <1>1, <2>2, NoEffectKeeps DEF ExecutiveInv
  <2>4. Counted' /\ CallsCounted' /\ StepsCounted' /\ ExecutiveInTime' /\ ExecutiveChecked'
    BY <1>1, <2>1 DEF ExecutiveInv, Counted, Roles, CallsCounted, Before, StepsCounted, ExecutiveInTime, ExecutiveChecked
  <2> QED BY <2>2, <2>3, <2>4 DEF ExecutiveInv
<1>3. CASE plan > 0 /\ Stopped
  <2>1. Fail /\ UNCHANGED role
    BY <1>3 DEF NextStep, ExecutiveInv, Counted
  <2> QED BY <1>1, <2>1, FailedKeeps DEF planVars
<1>4. CASE plan > 0 /\ ~Stopped
  <2>1. at' = "invoke" /\ UNCHANGED <<task, role>>
    BY <1>4 DEF NextStep, ExecutiveInv, Counted
  <2>2. RowOK' /\ LateOK' /\ ExecutiveInTime' /\ ExecutiveChecked'
    BY <1>1, <1>4, <2>1 DEF Stopped, ExecutiveInv, RowOK, LateOK, ExecutiveInTime, ExecutiveChecked
  <2>3. Counted' /\ CallsCounted' /\ StepsCounted'
    BY <1>1, <1>4, <2>1 DEF ExecutiveInv, Counted, CallsCounted, StepsCounted
  <2> QED BY <2>2, <2>3 DEF ExecutiveInv
<1> QED BY <1>2, <1>3, <1>4 DEF ExecutiveInv, Counted

LEMMA InvokeStepKeeps == ASSUME ExecutiveInv, InvokeStep PROVE ExecutiveInv'
<1>1. /\ at = "invoke" /\ late = 0 /\ overtime = 0 /\ plan > 0 /\ invoked + plan <= budget
      /\ invoked' = invoked + 1 /\ Effect /\ Timed /\ UNCHANGED <<expired, budget, asked>>
  BY DEF InvokeStep, ExecutiveInv, ExecutiveInTime, ExecutiveChecked, StepsCounted
<1>2. overtime' \in {0, 1} /\ (~expired => overtime' = 0) /\ expired \in BOOLEAN
  BY <1>1 DEF Timed, ExecutiveInv, ExecutiveInTime
<1>3. CASE FailExecutive
  <2>1. RowOK' /\ task'.cancel = task.cancel /\ at' = "dead" /\ UNCHANGED <<role, plan>>
    BY <1>3, FailKeeps DEF FailExecutive, ExecutiveInv
  <2>2. LateOK'
    BY <1>1, <2>1, EffectKeeps DEF ExecutiveInv
  <2>3. Counted' /\ invoked' <= budget' /\ asked' <= 3
    BY <1>1, <2>1 DEF ExecutiveInv, Counted, CallsCounted
  <2> QED BY <1>1, <1>2, <2>1, <2>2, <2>3, OverKeeps
<1>4. CASE Move("running") /\ plan' = plan - 1 /\ at' = "step" /\ UNCHANGED role
  <2>1. RowOK' /\ task'.cancel = task.cancel
    BY <1>4, MoveKeeps, StatesOfRows DEF ExecutiveInv
  <2>2. LateOK'
    BY <1>1, <2>1, EffectKeeps DEF ExecutiveInv
  <2>3. Counted' /\ CallsCounted' /\ StepsCounted'
    BY <1>1, <1>4 DEF ExecutiveInv, Counted, CallsCounted, StepsCounted
  <2>4. ExecutiveInTime' /\ ExecutiveChecked'
    BY <1>1, <1>2, <1>4 DEF ExecutiveInTime, ExecutiveChecked
  <2> QED BY <2>1, <2>2, <2>3, <2>4 DEF ExecutiveInv
<1> QED BY <1>3, <1>4 DEF InvokeStep

(* The three places after the last call.                                   *)
LEMMA TailKeeps == ASSUME ExecutiveInv, NoteGoal \/ QueueOutcome \/ Finish PROVE ExecutiveInv'
<1>1. UNCHANGED <<expired, overtime, planVars, asked, invoked>>
  BY DEF NoteGoal, QueueOutcome, Finish
<1>2. RowOK' /\ LateOK' /\ at' \in {"queue", "end", "dead", "done"}
  <2>1. CASE NoteGoal
    <3>1. RowOK' /\ task'.cancel = task.cancel /\ at' = "queue"
      BY <2>1 DEF NoteGoal, ExecutiveInv, RowOK
    <3> QED BY <2>1, <3>1, EffectKeeps, NoEffectKeeps DEF NoteGoal, ExecutiveInv, ExecutiveChecked
  <2>2. CASE QueueOutcome
    BY <2>2, QueueJournalKeeps DEF QueueOutcome, ExecutiveInv
  <2>3. CASE Finish
    <3>1. RowOK' /\ task'.cancel = task.cancel /\ at' = "done"
      BY <2>3, EndKeeps, StatesOfRows DEF Finish, ExecutiveInv
    <3> QED BY <2>3, <3>1, NoEffectKeeps DEF Finish, ExecutiveInv
  <2> QED BY <2>1, <2>2, <2>3
<1>3. Counted' /\ CallsCounted' /\ StepsCounted' /\ ExecutiveInTime' /\ ExecutiveChecked'
  BY <1>1, <1>2 DEF planVars, ExecutiveInv, Counted, CallsCounted, StepsCounted, ExecutiveInTime, ExecutiveChecked
<1> QED BY <1>2, <1>3 DEF ExecutiveInv

LEMMA AroundExecutiveKeeps == ASSUME ExecutiveInv, AroundExecutive PROVE ExecutiveInv'
<1>1. UNCHANGED <<planVars, asked, invoked>>
  BY DEF AroundExecutive
<1>2. CASE Cancel
  <2>1. RowOK' /\ LateOK' /\ late' = late /\ at' = at /\ UNCHANGED <<expired, overtime>>
    BY <1>2, CancelKeeps DEF Cancel, ExecutiveInv
  <2> QED BY <1>1, <2>1 DEF planVars, ExecutiveInv, Counted, CallsCounted, Before, StepsCounted,
                            ExecutiveInTime, ExecutiveChecked
<1>3. CASE Expire
  <2>1. expired' = TRUE /\ UNCHANGED <<task, at, late, overtime>>
    BY <1>3 DEF Expire
  <2> QED BY <1>1, <2>1 DEF planVars, ExecutiveInv, RowOK, LateOK, Counted, CallsCounted, Before,
                            StepsCounted, ExecutiveInTime, ExecutiveChecked
<1>4. CASE Kill
  BY <1>1, <1>4, FailedKeeps DEF Kill
<1> QED BY <1>2, <1>3, <1>4 DEF AroundExecutive

LEMMA ExecutiveStepKeeps == ExecutiveInv /\ [ExecutiveNext]_executiveVars => ExecutiveInv'
<1>1. ASSUME ExecutiveInv, UNCHANGED executiveVars PROVE ExecutiveInv'
  BY <1>1 DEF executiveVars, workerVars, planVars, ExecutiveInv, RowOK, LateOK, Counted, CallsCounted,
              Before, StepsCounted, ExecutiveInTime, ExecutiveChecked
<1> QED
  BY <1>1, StartExecutiveKeeps, CheckCallKeeps, AskModelKeeps, ModelRepliesKeeps, NextStepKeeps, InvokeStepKeeps, TailKeeps,
     AroundExecutiveKeeps DEF ExecutiveNext

LEMMA ExecutiveStarts == ExecutiveInit => ExecutiveInv
<1> SUFFICES ASSUME ExecutiveInit PROVE ExecutiveInv
  OBVIOUS
<1>1. /\ task = Claimed("executive") /\ at = "start" /\ expired = FALSE
      /\ late = 0 /\ overtime = 0
  BY DEF ExecutiveInit, PlanInit, WorkerInit
<1>2. RowOK
  <2>1. "executive" \in KINDS
    BY DEF KINDS
  <2> QED BY <1>1, <2>1, ClaimedWorked DEF RowOK
<1>3. LateOK /\ ExecutiveChecked
  BY <1>1 DEF LateOK, ExecutiveChecked
<1>4. expired \in BOOLEAN
  BY <1>1
<1>5. ExecutiveInTime
  BY <1>1, <1>4 DEF ExecutiveInTime
<1>6. Counted /\ CallsCounted /\ StepsCounted
  BY <1>1 DEF ExecutiveInit, PlanInit, Counted, Roles, CallsCounted, Before, StepsCounted
<1> QED BY <1>2, <1>3, <1>5, <1>6 DEF ExecutiveInv

LEMMA ExecutiveAlways == ExecutiveSpec => []ExecutiveInv
BY ExecutiveStarts, ExecutiveStepKeeps, PTL DEF ExecutiveSpec

(* Three model calls, the steps that were granted, and at most one thing   *)
(* begun after the time, whatever is planned and reviewed.                 *)
THEOREM ExecutiveWithinBudgets == ExecutiveSpec => []ExecutiveBudgets
<1>1. ExecutiveInv => ExecutiveBudgets
  BY DEF ExecutiveInv, CallsCounted, StepsCounted, ExecutiveInTime, ExecutiveBudgets
<1> QED BY <1>1, ExecutiveAlways, PTL

(* After a cancel at most one more effect begins, and nothing cancelled is *)
(* completed.                                                              *)
THEOREM ExecutiveHeedsCancel == ExecutiveSpec => []ExecutiveHeeds
<1>1. ExecutiveInv => ExecutiveHeeds
  BY DEF ExecutiveInv, RowOK, LateOK, ExecutiveHeeds
<1> QED BY <1>1, ExecutiveAlways, PTL

----------------------------------------------------------------------------
(* The plan of an executive.                                               *)

(* No list of steps is longer than the budget, whoever proposed it.        *)
PlanOK ==
    /\ at \in ExecutivePlaces /\ journal \in BOOLEAN
    /\ budget \in 1..Steps /\ plan \in 0..budget

LEMMA PlanKeeps == ExecutiveInv /\ PlanOK /\ [ExecutiveNext]_executiveVars => PlanOK'
<1> SUFFICES ASSUME ExecutiveInv, PlanOK, [ExecutiveNext]_executiveVars PROVE PlanOK'
  OBVIOUS
<1>1. ASSUME at' \in ExecutivePlaces, UNCHANGED <<journal, budget>>, plan' \in 0..budget PROVE PlanOK'
  BY <1>1 DEF PlanOK
<1>2. plan \in 0..budget /\ at \in ExecutivePlaces
  BY DEF PlanOK
<1>3. CASE StartExecutive \/ CheckCall \/ AskModel \/ NextStep \/ NoteGoal \/ Finish
  <2>1. UNCHANGED <<journal, budget, plan>>
    BY <1>3 DEF StartExecutive, CheckCall, AskModel, NextStep, NoteGoal, Finish, planVars
  <2>2. at' \in {"dead", "check", "ask", "reply", "invoke", "queue", "done"}
    BY <1>3 DEF StartExecutive, CheckCall, AskModel, NextStep, NoteGoal, Finish, Fail, End
  <2> QED BY <1>1, <1>2, <2>1, <2>2 DEF ExecutivePlaces
<1>4. CASE ModelReplies
  <2>1. UNCHANGED <<journal, budget>>
    BY <1>4 DEF ModelReplies
  <2>2. at' \in {"dead", "check", "done", "step", "goal"}
    BY <1>4 DEF ModelReplies, FailExecutive, Fail, Planned, Reviewed, Verified, End
  <2>3. plan' = plan \/ \E n \in {plan} \cup 0..Steps + 1 : n <= budget /\ plan' = n
    BY <1>4 DEF ModelReplies, FailExecutive, Planned, Reviewed, Verified, WithinBudget
  <2>4. plan' \in 0..budget
    BY <1>2, <2>3 DEF PlanOK
  <2> QED BY <1>1, <2>1, <2>2, <2>4 DEF ExecutivePlaces
<1>5. CASE InvokeStep
  <2>1. at' \in {"dead", "step"} /\ UNCHANGED <<journal, budget>> /\ plan' \in {plan, plan - 1}
    BY <1>5 DEF InvokeStep, FailExecutive, Fail
  <2>2. plan > 0
    BY <1>5 DEF InvokeStep, ExecutiveInv, StepsCounted
  <2>3. plan' \in 0..budget
    BY <1>2, <2>1, <2>2 DEF PlanOK
  <2> QED BY <1>1, <2>1, <2>3 DEF ExecutivePlaces
<1>6. CASE QueueOutcome
  <2>1. at' \in {"dead", "end"} /\ journal' \in {journal, TRUE} /\ UNCHANGED <<budget, plan>>
    BY <1>6 DEF QueueOutcome, QueueJournal, Fail, planVars
  <2> QED BY <2>1 DEF PlanOK, ExecutivePlaces
<1>7. CASE AroundExecutive
  <2>1. (at' = at \/ at' = "dead") /\ UNCHANGED <<journal, budget, plan>>
    BY <1>7 DEF AroundExecutive, Cancel, Expire, Kill, Fail, planVars
  <2> QED BY <2>1 DEF PlanOK, ExecutivePlaces
<1>8. CASE UNCHANGED executiveVars
  BY <1>8 DEF executiveVars, workerVars, planVars, PlanOK
<1> QED BY <1>3, <1>4, <1>5, <1>6, <1>7, <1>8 DEF ExecutiveNext

LEMMA PlanStarts == ExecutiveInit => PlanOK
<1> SUFFICES ASSUME ExecutiveInit PROVE PlanOK
  OBVIOUS
<1>1. at \in ExecutivePlaces /\ journal \in BOOLEAN
  BY DEF ExecutiveInit, WorkerInit, ExecutivePlaces
<1>2. budget \in 1..Steps /\ plan = 0
  BY DEF ExecutiveInit, PlanInit
<1> QED BY <1>1, <1>2 DEF PlanOK

LEMMA ExecutiveTyped == ExecutiveInv /\ PlanOK => ExecutiveTypeOK
<1> SUFFICES ASSUME ExecutiveInv, PlanOK PROVE ExecutiveTypeOK
  OBVIOUS
<1>1. WorkerTypeOK(ExecutivePlaces)
  BY WorkedIsRow DEF WorkerTypeOK, ExecutiveInv, RowOK, LateOK, ExecutiveInTime, PlanOK
<1>2. plan \in 0..Steps /\ budget \in 1..Steps
  BY DEF PlanOK
<1> QED BY <1>1, <1>2 DEF ExecutiveTypeOK, ExecutiveInv, Counted

(* The plan of an executive, its row and its places keep their types: no   *)
(* list of steps is accepted beyond the budget of its task.                *)
THEOREM ExecutiveTypeCorrect == ExecutiveSpec => []ExecutiveTypeOK
BY ExecutiveStarts, ExecutiveStepKeeps, PlanStarts, PlanKeeps, ExecutiveTyped, PTL DEF ExecutiveSpec

=============================================================================
