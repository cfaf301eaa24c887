----------------------------- MODULE TaskQueue -----------------------------
(***************************************************************************)
(* The durable queue and goal store (src/lilith/tasks.py) under all its    *)
(* clients: owner terminals and dashboards (src/lilith/commands.py), the   *)
(* worker processes and the supervisor, each with its own connection.      *)
(* Every action is one BEGIN IMMEDIATE transaction, or one read whose      *)
(* result is used later, so the interleavings are those of SQLite.         *)
(***************************************************************************)
EXTENDS TaskTable

CONSTANTS Clients,        \* processes that run owner commands
          Requests,       \* what the owner may enqueue
          ChildRequests,  \* what a worker may enqueue for its own task
          GoalPriority,   \* priority of each goal
          Progress,       \* active states that workers report
          LegacyRows,     \* rows an older version may have left behind
          MaxTasks        \* bound: rows ever inserted

ASSUME RequestsAssumption == Requests \subseteq Request /\ ChildRequests \subseteq Request
ASSUME GoalPriorityAssumption == GoalPriority \in [GoalIds -> Priorities]
ASSUME ProgressAssumption == Progress \subseteq Active
ASSUME MaxTasksAssumption == MaxTasks \in Nat
ASSUME LegacyRowsAssumption ==
    LegacyRows \subseteq {r \in Row : /\ r.state = "queued" /\ r.attempts = 0
                                      /\ r.goal = NoGoal /\ r.parent = NoTask
                                      /\ ~r.cancel}

VARIABLES
    tasks,      \* the tasks table
    goals,      \* status of each goal row, "none" before it is inserted
    todo,       \* per client: what its current command still has to do
    picked,     \* the goal schedule_goal has read and not yet enqueued
    dead        \* clients that died, each with what it left undone in todo

vars == <<tasks, goals, todo, picked, dead>>

(* A command in progress: tasks to cancel, cancelled tasks whose children  *)
(* are still to be listed, and goals whose tasks are still to be listed.   *)
Command == [cancel : SUBSET Nat, list : SUBSET Nat, drain : SUBSET GoalIds]
Done == [cancel |-> {}, list |-> {}, drain |-> {}]

TypeOK ==
    /\ tasks \in Seq(Row)
    /\ goals \in [GoalIds -> GoalStatuses \cup {"none"}]
    /\ todo \in [Clients -> Command]
    /\ picked \in GoalIds \cup {NoGoal}
    /\ dead \in SUBSET Clients

Init ==
    /\ \/ tasks = <<>>
       \/ \E r \in LegacyRows : tasks = <<r>>
    /\ goals = [g \in GoalIds |-> "none"]
    /\ todo = [c \in Clients |-> Done]
    /\ picked = NoGoal
    /\ dead = {}

----------------------------------------------------------------------------
(* enqueue.  /run, /think, /research... queue a task of their own; a       *)
(* worker queues, once, a child of the task it is executing.               *)

Insert(q, goal, parent) ==
    /\ Len(tasks) < MaxTasks
    /\ ValidRequest(q)
    /\ tasks' = Append(tasks, NewRow(q, goal, parent))

Enqueue(q) ==
    /\ Insert(q, NoGoal, NoTask)
    /\ UNCHANGED <<goals, todo, picked, dead>>

EnqueueChild(p, q) ==
    /\ tasks[p].state \in Active
    /\ q.kind \in ChildKinds(tasks[p].kind)
    /\ \A t \in DOMAIN tasks : tasks[t].parent # p
    /\ ~ClosedParent(tasks, p)
    /\ Insert(q, NoGoal, p)
    /\ UNCHANGED <<goals, todo, picked, dead>>

(* /priority: only a queued task.                                          *)
SetPriority(t, p) ==
    /\ tasks[t].state = "queued"
    /\ tasks' = [tasks EXCEPT ![t].priority = p]
    /\ UNCHANGED <<goals, todo, picked, dead>>

----------------------------------------------------------------------------
(* The life of a claimed task.                                             *)

Claim(lane) ==
    \E t \in DOMAIN tasks :
        /\ GoesFirst(tasks, LaneKinds[lane], t)
        /\ tasks' = [tasks EXCEPT ![t] = ClaimedRow(@)]
        /\ UNCHANGED <<goals, todo, picked, dead>>

Transition(t, s) ==
    /\ tasks[t].state \in Active
    /\ tasks' = [tasks EXCEPT ![t] = MovedRow(@, s)]
    /\ goals' = GoalsAfter(goals, tasks[t], StateAfter(tasks[t], s))
    /\ UNCHANGED <<todo, picked, dead>>

(* Mutant: the decision does not look at the state it overwrites.          *)
Interrupted_Stale(t) ==
    /\ tasks' = [tasks EXCEPT ![t] = InterruptedRow(@)]
    /\ goals' = GoalsAfter(goals, tasks[t], InterruptedState(tasks[t]))
    /\ UNCHANGED <<todo, picked, dead>>

(* Called by a worker whose task raised, and by the supervisor for a       *)
(* worker that exited, was cancelled, overran its deadline, was found on   *)
(* restart or is being shut down.                                          *)
Interrupted(t) ==
    /\ tasks[t].state \in Active
    /\ tasks' = [tasks EXCEPT ![t] = InterruptedRow(@)]
    /\ goals' = IF Retries(tasks[t]) THEN goals
                ELSE GoalsAfter(goals, tasks[t], InterruptedState(tasks[t]))
    /\ UNCHANGED <<todo, picked, dead>>

----------------------------------------------------------------------------
(* cancel: one transaction for the task, then, outside it, a read of its   *)
(* live children and a cancel of each.  An idle client starts with any     *)
(* task, by /cancel or from a dashboard.                                   *)

CancelTask(c, t) ==
    /\ t \in todo[c].cancel \/ todo[c] = Done
    /\ IF Live(tasks[t])
       THEN /\ tasks' = [tasks EXCEPT ![t] = CancelledRow(@)]
            /\ goals' = GoalsPaused(goals, tasks[t])
            /\ todo' = [todo EXCEPT ![c].cancel = @ \ {t}, ![c].list = @ \cup {t}]
       ELSE /\ todo' = [todo EXCEPT ![c].cancel = @ \ {t}]
            /\ UNCHANGED <<tasks, goals>>
    /\ UNCHANGED <<picked, dead>>

ListChildren(c, t) ==
    /\ t \in todo[c].list
    /\ todo' = [todo EXCEPT ![c].list = @ \ {t},
                            ![c].cancel = @ \cup LiveChildren(tasks, t)]
    /\ UNCHANGED <<tasks, goals, picked, dead>>

(* The process that runs a command dies between two of its steps.          *)
Hangup(c) ==
    /\ todo[c] # Done
    /\ dead' = dead \cup {c}
    /\ UNCHANGED <<tasks, goals, todo, picked>>

----------------------------------------------------------------------------
(* Goals.                                                                  *)

CreateGoal(g) ==
    /\ goals[g] = "none"
    /\ goals' = [goals EXCEPT ![g] = "active"]
    /\ UNCHANGED <<tasks, todo, picked, dead>>

(* /goal-state: the status in one transaction; unless it is active, the    *)
(* goal's live tasks are then read and cancelled one by one.               *)
GoalState(c, g, s) ==
    /\ todo[c] = Done
    /\ goals[g] # "none"
    /\ goals' = [goals EXCEPT ![g] = s]
    /\ todo' = IF s = "active" THEN todo ELSE [todo EXCEPT ![c].drain = {g}]
    /\ UNCHANGED <<tasks, picked, dead>>

DrainGoal(c, g) ==
    /\ g \in todo[c].drain
    /\ todo' = [todo EXCEPT ![c].drain = @ \ {g},
                            ![c].cancel = @ \cup LiveGoalTasks(tasks, g)]
    /\ UNCHANGED <<tasks, goals, picked, dead>>

(* schedule_goal: the read that picks a goal, then enqueue, which checks   *)
(* the goal again and finds a task that appeared in between.               *)
Idle(g) == goals[g] = "active" /\ LiveGoalTasks(tasks, g) = {}

PickGoal(g) ==
    /\ picked = NoGoal
    /\ Idle(g)
    /\ \A h \in GoalIds \ {g} : Idle(h) =>
          \/ GoalPriority[g] > GoalPriority[h]
          \/ GoalPriority[g] = GoalPriority[h] /\ g < h
    /\ picked' = g
    /\ UNCHANGED <<tasks, goals, todo, dead>>

GoalRequest(g) == [kind |-> "executive", priority |-> GoalPriority[g], max |-> 1,
                   resumable |-> FALSE, readOnly |-> FALSE]

EnqueueGoal ==
    /\ picked # NoGoal
    /\ IF goals[picked] = "active" /\ LiveGoalTasks(tasks, picked) = {}
       THEN Insert(GoalRequest(picked), picked, NoTask)
       ELSE UNCHANGED tasks
    /\ picked' = NoGoal
    /\ UNCHANGED <<goals, todo, dead>>

(* The supervisor dies and is restarted: its snapshot is gone.             *)
SupervisorRestart ==
    /\ picked # NoGoal
    /\ picked' = NoGoal
    /\ UNCHANGED <<tasks, goals, todo, dead>>

----------------------------------------------------------------------------

ClientStep(c) ==
    /\ c \notin dead
    /\ \/ \E t \in DOMAIN tasks : CancelTask(c, t) \/ ListChildren(c, t)
       \/ \E g \in GoalIds : DrainGoal(c, g)
       \/ \E g \in GoalIds, s \in {"active", "paused", "cancelled"} : GoalState(c, g, s)
       \/ Hangup(c)

OwnerStep ==
    \/ \E q \in Requests : Enqueue(q)
    \/ \E t \in DOMAIN tasks, p \in Priorities : SetPriority(t, p)
    \/ \E g \in GoalIds : CreateGoal(g)
    \/ \E c \in Clients : ClientStep(c)

WorkerStep(t) ==
    \/ \E q \in ChildRequests : EnqueueChild(t, q)
    \/ \E s \in Progress \cup {"completed", "needs_review"} : Transition(t, s)
    \/ Interrupted(t)

SupervisorStep ==
    \/ \E lane \in Lanes : Claim(lane)
    \/ \E g \in GoalIds : PickGoal(g)
    \/ EnqueueGoal
    \/ SupervisorRestart

Next ==
    \/ OwnerStep
    \/ \E t \in DOMAIN tasks : WorkerStep(t)
    \/ SupervisorStep

Spec == Init /\ [][Next]_vars

(* The supervisor keeps claiming, and a worker that neither ends its task  *)
(* nor dies is stopped at the task's deadline and its task interrupted.    *)
Fairness == WF_vars(\E lane \in Lanes : Claim(lane)) /\ WF_vars(\E t \in DOMAIN tasks : Interrupted(t))

FairSpec == Spec /\ Fairness

----------------------------------------------------------------------------
(* Safety.                                                                 *)

(* A queued row can be claimed: claim skips a cancelled row and nothing    *)
(* else would ever end it, so a queued row must carry no cancellation, and *)
(* it must have an attempt left.                                           *)
QueuedIsClaimable ==
    \A t \in DOMAIN tasks : tasks[t].state = "queued" =>
        ~tasks[t].cancel /\ tasks[t].attempts < tasks[t].max

(* No blind replay: a task is started at most max_attempts times, and one  *)
(* that may have side effects at most once, whatever its resumable flag.   *)
NoReplay ==
    \A t \in DOMAIN tasks :
        /\ tasks[t].attempts <= tasks[t].max
        /\ ~tasks[t].readOnly => tasks[t].attempts <= 1

(* Completion never overtakes a cancellation the owner was told of.        *)
CompletedUncancelled ==
    \A t \in DOMAIN tasks : tasks[t].state = "completed" => ~tasks[t].cancel

(* A goal has at most one live task: the partial unique index              *)
(* goal_active_task is never the one to refuse an INSERT or a retry.       *)
OneTaskPerGoal ==
    \A t, u \in DOMAIN tasks :
        /\ tasks[t].goal # NoGoal /\ tasks[t].goal = tasks[u].goal
        /\ Live(tasks[t]) /\ Live(tasks[u])
        => t = u

(* Cancelling a task reaches every live child, those enqueued while the    *)
(* traversal ran included: an uncancelled live child of a cancelled task   *)
(* is still on the list of a client, which may have died with it.          *)
CancelReachesChildren ==
    \A t \in DOMAIN tasks :
        LET p == tasks[t].parent
        IN  p # NoTask /\ tasks[p].cancel /\ Live(tasks[t]) /\ ~tasks[t].cancel =>
                \E c \in Clients : p \in todo[c].list \/ t \in todo[c].cancel

(* The status "completed" of a goal rests on a task of it that completed.  *)
GoalEvidence ==
    \A g \in GoalIds : goals[g] = "completed" =>
        \E t \in DOMAIN tasks : tasks[t].goal = g /\ tasks[t].state = "completed"

(* A goal that is not active is moved by the owner alone: no task that     *)
(* ends, is cancelled or is recovered late overwrites the owner's word.    *)
GoalStaysStopped ==
    [][tasks' # tasks => \A g \in GoalIds : goals[g] # "active" => goals'[g] = goals[g]]_vars

(* The promise of the queue, task by task.                                 *)
Abstract(r) ==
    [phase   |-> CASE r.state = "queued"    -> "pending"
                   [] r.state \in Active    -> "active"
                   [] r.state = "completed" -> "succeeded"
                   [] OTHER                 -> "ended",
     starts  |-> r.attempts,
     limit   |-> IF Safe(r) THEN r.max ELSE 1,
     flagged |-> r.cancel]

lives == [t \in DOMAIN tasks |-> Abstract(tasks[t])]

Life == INSTANCE TaskLife WITH life <- lives

ImplementsTaskLife == Life!Spec

(* Liveness: no task is left waiting or retried for ever; the tasks there  *)
(* can be, however they are claimed, interrupted, retried and cancelled,   *)
(* have all ended some day.                                                *)
EveryTaskEnds == <>[](\A t \in DOMAIN tasks : ~Live(tasks[t]))

============================================================================
