----------------------------- MODULE Executive -----------------------------
(***************************************************************************)
(* An executive worker (src/lilith/executive.py): the model plans, a       *)
(* second call reviews the plan, its steps are invoked through the broker  *)
(* (src/lilith/capabilities.py), and a third call verifies the outcome on  *)
(* the evidence.  What the model answers and what a step does are choices; *)
(* a step is one invocation, whatever it starts.                           *)
(***************************************************************************)
EXTENDS WorkerTask, WorkerLimits

VARIABLES
    role,       \* whom the model plays in the call under way
    budget,     \* the steps of this task
    plan,       \* the steps proposed and not yet invoked
    asked, invoked          \* history: model calls and invocations

planVars == <<role, budget, plan>>
executiveVars == <<workerVars, planVars, asked, invoked>>

Roles == {"planner", "reviewer", "verifier"}

ExecutivePlaces ==
    {"start", "check", "ask", "reply", "step", "invoke", "goal", "queue", "end", "done", "dead"}

ExecutiveTypeOK ==
    /\ WorkerTypeOK(ExecutivePlaces)
    /\ role \in Roles /\ budget \in 1..Steps /\ plan \in 0..Steps
    /\ asked \in Nat /\ invoked \in Nat

PlanInit ==
    /\ role = "planner" /\ budget \in 1..Steps /\ plan = 0
    /\ asked = 0 /\ invoked = 0

ExecutiveInit == WorkerInit("executive") /\ PlanInit

----------------------------------------------------------------------------

(* check: cancelled, or out of time.                                       *)
Stopped == task.cancel \/ expired

FailExecutive == Fail /\ UNCHANGED <<role, plan>>

(* Too few model calls granted, a retained tool that does not load, or on. *)
StartExecutive ==
    /\ at = "start"
    /\ \/ Fail
       \/ ~task.cancel /\ Move("planning") /\ at' = "check"
    /\ UNCHANGED <<expired, journal, late, overtime, planVars, asked, invoked>>

(* model, before the call.                                                 *)
CheckCall ==
    /\ at = "check"
    /\ IF Stopped THEN Fail ELSE at' = "ask" /\ UNCHANGED task
    /\ UNCHANGED <<expired, journal, late, overtime, planVars, asked, invoked>>

(* The lease is waited for without a check.                                *)
AskModel ==
    /\ at = "ask"
    /\ asked' = asked + 1
    /\ Effect /\ Timed
    /\ at' = "reply"
    /\ UNCHANGED <<task, expired, journal, planVars, invoked>>

(* Mutant: the reviewer's own list of steps is taken as it comes.          *)
WithinBudget_Planner(n) == role = "planner" => n <= budget

(* A list of steps that is too long is refused.                            *)
WithinBudget(n) == n <= budget

(* What the answer leads to: a plan, its review, or the end.               *)
Planned ==
    /\ role = "planner"
    /\ \E n \in 0..Steps + 1 : WithinBudget(n) /\ plan' = n
    /\ role' = "reviewer" /\ at' = "check" /\ UNCHANGED task

Reviewed ==
    /\ role = "reviewer"
    /\ \/ End("needs_review") /\ UNCHANGED <<role, plan>>
       \/ /\ \E n \in {plan} \cup 0..Steps + 1 : WithinBudget(n) /\ plan' = n
          /\ Move("running") /\ at' = "step" /\ UNCHANGED role

Verified ==
    /\ role = "verifier"
    /\ Move("reflecting") /\ at' = "goal" /\ UNCHANGED <<role, plan>>

(* model, after the call: the check again.                                 *)
ModelReplies ==
    /\ at = "reply"
    /\ \/ FailExecutive                                 \* or a malformed answer
       \/ ~Stopped /\ (Planned \/ Reviewed \/ Verified)
    /\ UNCHANGED <<expired, journal, late, overtime, budget, asked, invoked>>

(* The loop over the steps, and the verifier after the last.               *)
NextStep ==
    /\ at = "step"
    /\ CASE plan = 0             -> Move("verifying") /\ role' = "verifier" /\ at' = "check"
         [] plan > 0 /\ Stopped  -> Fail /\ UNCHANGED role
         [] OTHER                -> at' = "invoke" /\ UNCHANGED <<task, role>>
    /\ UNCHANGED <<expired, journal, late, overtime, budget, plan, asked, invoked>>

(* The invocation takes place; then its evidence is recorded or its error  *)
(* ends the task.                                                          *)
InvokeStep ==
    /\ at = "invoke"
    /\ invoked' = invoked + 1
    /\ Effect /\ Timed
    /\ \/ FailExecutive
       \/ Move("running") /\ plan' = plan - 1 /\ at' = "step" /\ UNCHANGED role
    /\ UNCHANGED <<expired, journal, budget, asked>>

(* The goal's next action, for a task that has a goal.                     *)
NoteGoal ==
    /\ at = "goal"
    /\ Effect \/ UNCHANGED late
    /\ at' = "queue"
    /\ UNCHANGED <<task, expired, journal, overtime, planVars, asked, invoked>>

QueueOutcome ==
    /\ at = "queue"
    /\ QueueJournal("end")
    /\ UNCHANGED <<expired, overtime, planVars, asked, invoked>>

Finish ==
    /\ at = "end"
    /\ End("completed") \/ End("needs_review")
    /\ UNCHANGED <<expired, journal, late, overtime, planVars, asked, invoked>>

AroundExecutive == (Cancel \/ Expire \/ Kill) /\ UNCHANGED <<planVars, asked, invoked>>

ExecutiveNext ==
    \/ StartExecutive \/ CheckCall \/ AskModel \/ ModelReplies \/ NextStep \/ InvokeStep
    \/ NoteGoal \/ QueueOutcome \/ Finish
    \/ AroundExecutive

ExecutiveSpec == ExecutiveInit /\ [][ExecutiveNext]_executiveVars

----------------------------------------------------------------------------

(* Whatever the planner and the reviewer propose: three model calls, the   *)
(* task's steps and no more, and when its time is over at most what was    *)
(* checked before begins.                                                  *)
ExecutiveBudgets == asked <= 3 /\ invoked <= budget /\ overtime <= 1

(* After a cancel at most one more model call, invocation or note to the   *)
(* goal begins; and what was cancelled is never completed.                 *)
ExecutiveHeeds ==
    /\ late <= 1
    /\ task.cancel /\ at = "done" => task.state # "completed"

=============================================================================
