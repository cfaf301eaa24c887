----------------------------- MODULE TaskTable -----------------------------
(***************************************************************************)
(* The tasks table of src/lilith/tasks.py as a value: one row per task and *)
(* the pure functions that the store's transactions apply to it.  A table  *)
(* is a sequence, because ids are SQLite AUTOINCREMENT integers: the id of *)
(* a task is its position and an INSERT appends.  The modules that model   *)
(* the clients of the store share these operators.                         *)
(***************************************************************************)
EXTENDS Integers, Sequences, FiniteSets

CONSTANTS GoalIds,      \* ids of the goals table
          Priorities    \* the priorities in use, within 0..100

ASSUME GoalIdsAssumption == GoalIds \subseteq Nat \ {0}
ASSUME PrioritiesAssumption == Priorities \subseteq 0..100

NoGoal == 0             \* goal_id IS NULL
NoTask == 0             \* parent_task_id IS NULL

----------------------------------------------------------------------------

Active   == {"planning", "researching", "running", "waiting", "verifying", "reflecting"}
Terminal == {"completed", "failed", "cancelled", "needs_review"}
States   == {"queued"} \cup Active \cup Terminal

KINDS == {"reflection", "journal", "executive", "capability", "research", "workshop",
          "workshop_stage", "tool_invocation", "conversation", "curiosity"}

GoalStatuses == {"active", "paused", "cancelled", "completed", "needs_review"}

(* The reserved lanes: which types each of the six children may run.       *)
Lanes == {"conversation", "reflection", "journal", "work", "research", "workshop"}

LaneKinds == [conversation |-> {"conversation"},
              reflection   |-> {"reflection"},
              journal      |-> {"journal"},
              work         |-> {"executive", "capability", "tool_invocation"},
              research     |-> {"research"},
              workshop     |-> {"workshop", "workshop_stage", "curiosity"}]

(* A row.  readOnly abstracts the capability named in the input: it is in  *)
(* the broker's READ_ONLY catalog.                                         *)
Row == [state : States, kind : KINDS, priority : Priorities,
        goal : GoalIds \cup {NoGoal}, parent : Nat, cancel : BOOLEAN,
        attempts : Nat, max : 1..5, resumable : BOOLEAN, readOnly : BOOLEAN]

(* What a caller of enqueue asks for.                                      *)
Request == [kind : KINDS, priority : Priorities, max : 1..5,
            resumable : BOOLEAN, readOnly : BOOLEAN]

Live(r) == r.state \notin Terminal

----------------------------------------------------------------------------
(* enqueue: validation and the row it inserts.                             *)

ValidRequest(q) == q.resumable => q.kind = "capability" /\ q.readOnly

NewRow(q, goal, parent) ==
    [state |-> "queued", kind |-> q.kind, priority |-> q.priority,
     goal |-> goal, parent |-> parent, cancel |-> FALSE, attempts |-> 0,
     max |-> q.max, resumable |-> q.resumable, readOnly |-> q.readOnly]

(* The child a worker queues while it executes a task of this type.        *)
ChildKinds(kind) ==
    CASE kind \in {"reflection", "executive", "research"} -> {"journal"}
      [] kind = "curiosity" -> {"research"}
      [] OTHER -> {}

(* Mutant: the state is looked at and the flag is not.                     *)
ClosedParent_StateOnly(tbl, p) ==
    p \notin DOMAIN tbl \/ tbl[p].state \in {"failed", "cancelled", "needs_review"}

(* A parent that takes no more children: interrupted, or about to be.      *)
ClosedParent(tbl, p) ==
    \/ p \notin DOMAIN tbl
    \/ tbl[p].cancel
    \/ tbl[p].state \in {"failed", "cancelled", "needs_review"}

(* Mutant: a queued task of the goal goes unnoticed.                       *)
LiveGoalTasks_Started(tbl, g) == {t \in DOMAIN tbl : tbl[t].goal = g /\ tbl[t].state \in Active}

LiveGoalTasks(tbl, g) == {t \in DOMAIN tbl : tbl[t].goal = g /\ Live(tbl[t])}

LiveChildren(tbl, p) == {t \in DOMAIN tbl : tbl[t].parent = p /\ Live(tbl[t])}

(* claim: the queued row of these kinds that goes next.                    *)
Claimable(tbl, kinds) ==
    {t \in DOMAIN tbl : tbl[t].state = "queued" /\ ~tbl[t].cancel /\ tbl[t].kind \in kinds}

GoesFirst(tbl, kinds, t) ==
    /\ t \in Claimable(tbl, kinds)
    /\ \A u \in Claimable(tbl, kinds) \ {t} :
          \/ tbl[t].priority > tbl[u].priority
          \/ tbl[t].priority = tbl[u].priority /\ t < u

(* Mutant: the attempt is not counted.                                     *)
ClaimedRow_Uncounted(r) == [r EXCEPT !.state = "running"]

ClaimedRow(r) == [r EXCEPT !.state = "running", !.attempts = @ + 1]

(* Mutant: completion is recorded whatever was requested meanwhile.        *)
StateAfter_Plain(r, s) == s

(* _transition: a cancelled task can end, but not as completed.            *)
StateAfter(r, s) == IF r.cancel /\ s = "completed" THEN "needs_review" ELSE s

MovedRow(r, s) == [r EXCEPT !.state = StateAfter(r, s)]

(* Mutants: any end of its task completes the goal; a goal is closed       *)
(* whatever its status.                                                    *)
GoalsAfter_AnyEnd(gs, r, s) ==
    IF r.goal # NoGoal /\ s \in Terminal /\ gs[r.goal] = "active"
    THEN [gs EXCEPT ![r.goal] = "completed"] ELSE gs

GoalsAfter_AnyStatus(gs, r, s) ==
    IF r.goal # NoGoal /\ s \in Terminal
    THEN [gs EXCEPT ![r.goal] = IF s = "completed" THEN "completed" ELSE "needs_review"]
    ELSE gs

(* The goal of a task that reached state s: only an active goal is closed. *)
GoalsAfter(gs, r, s) ==
    IF r.goal # NoGoal /\ s \in Terminal /\ gs[r.goal] = "active"
    THEN [gs EXCEPT ![r.goal] = IF s = "completed" THEN "completed" ELSE "needs_review"]
    ELSE gs

(* cancel, its transaction: the flag, and the end of a task not started.   *)
CancelledRow(r) ==
    [r EXCEPT !.cancel = TRUE,
              !.state = IF r.state = "queued" THEN "cancelled" ELSE r.state]

GoalsPaused(gs, r) ==
    IF r.state = "queued" /\ r.goal # NoGoal /\ gs[r.goal] = "active"
    THEN [gs EXCEPT ![r.goal] = "paused"] ELSE gs

(* Mutant: the stored flag alone decides, as in legacy rows.               *)
Safe_TrustsFlag(r) == r.resumable

(* interrupted: the row is read and decided on in one transaction.         *)
Safe(r) == r.resumable /\ r.kind = "capability" /\ r.readOnly

(* Mutant: a cancelled task is retried.                                    *)
Retries_Cancelled(r) == Safe(r) /\ r.attempts < r.max

Retries(r) == Safe(r) /\ ~r.cancel /\ r.attempts < r.max

(* Mutant: a state name that the schema does not know.                     *)
InterruptedState_Spelling(r) == IF Retries(r) THEN "queued" ELSE "canceled"

InterruptedState(r) ==
    CASE ~Safe(r)              -> "needs_review"
      [] Retries(r)            -> "queued"
      [] Safe(r) /\ r.cancel   -> "cancelled"
      [] OTHER                 -> "failed"

InterruptedRow(r) == [r EXCEPT !.state = InterruptedState(r)]

(* recover leaves a workshop that waits for its child to the reconciler.   *)
WaitingWorkshop(r) == r.kind = "workshop" /\ r.state = "waiting"
============================================================================
