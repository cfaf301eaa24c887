--------------------------- MODULE TaskQueueProofs ---------------------------
(***************************************************************************)
(* Proofs about TaskQueue for every number of tasks, goals and clients.    *)
(*                                                                         *)
(* Every step touches the table in one of three ways: it leaves it alone,  *)
(* appends a fresh row, or changes one row in one of five ways.  TaskSteps *)
(* says so once; what concerns rows one by one then needs only RowStep.    *)
(***************************************************************************)
EXTENDS TaskQueue, TLAPS

USE GoalIdsAssumption, PrioritiesAssumption, RequestsAssumption,
    GoalPriorityAssumption, ProgressAssumption, LegacyRowsAssumption

----------------------------------------------------------------------------
(* Sequences as tables.                                                    *)

LEMMA UpdateRow ==
    ASSUME NEW S, NEW s \in Seq(S), NEW i \in DOMAIN s, NEW e \in S
    PROVE  LET n == [s EXCEPT ![i] = e]
           IN  /\ n \in Seq(S) /\ DOMAIN n = DOMAIN s
               /\ n[i] = e /\ \A j \in DOMAIN s \ {i} : n[j] = s[j]
OBVIOUS

LEMMA AppendRow ==
    ASSUME NEW S, NEW s \in Seq(S), NEW e \in S
    PROVE  /\ Append(s, e) \in Seq(S)
           /\ DOMAIN Append(s, e) = DOMAIN s \cup {Len(s) + 1}
           /\ Len(s) + 1 \notin DOMAIN s
           /\ Append(s, e)[Len(s) + 1] = e
           /\ \A j \in DOMAIN s : Append(s, e)[j] = s[j]
OBVIOUS

----------------------------------------------------------------------------
(* How one row may change, and what a new row is.                          *)

FreshRow(r) ==
    r \in Row /\ r.state = "queued" /\ ~r.cancel /\ r.attempts = 0

RowStep(r, n) ==
    \/ r.state = "queued" /\ \E p \in Priorities : n = [r EXCEPT !.priority = p]
    \/ r.state = "queued" /\ ~r.cancel /\ n = ClaimedRow(r)
    \/ r.state \in Active /\ \E s \in Active \cup Terminal : n = MovedRow(r, s)
    \/ r.state \in Active /\ n = InterruptedRow(r)
    \/ Live(r) /\ n = CancelledRow(r)

LEMMA InterruptedStates ==
    ASSUME NEW r \in Row
    PROVE  InterruptedState(r) \in {"queued"} \cup Terminal
BY DEF InterruptedState, Terminal

LEMMA RowStepTyped ==
    ASSUME NEW r \in Row, NEW n, RowStep(r, n)
    PROVE  n \in Row
<1>1. ASSUME NEW p \in Priorities, n = [r EXCEPT !.priority = p]
      PROVE  n \in Row
  BY <1>1 DEF Row
<1>2. CASE n = ClaimedRow(r)
  <2>1. r.attempts + 1 \in Nat /\ "running" \in States
    BY DEF Row, States, Active
  <2> QED BY <1>2, <2>1 DEF Row, ClaimedRow
<1>3. ASSUME NEW s \in Active \cup Terminal, n = MovedRow(r, s)
      PROVE  n \in Row
  <2>1. StateAfter(r, s) \in States
    BY DEF StateAfter, States, Active, Terminal
  <2> QED BY <1>3, <2>1 DEF Row, MovedRow
<1>4. CASE n = InterruptedRow(r)
  <2>1. InterruptedState(r) \in States
    BY InterruptedStates DEF States
  <2> QED BY <1>4, <2>1 DEF Row, InterruptedRow
<1>5. CASE n = CancelledRow(r)
  BY <1>5 DEF Row, CancelledRow, States, Terminal
<1> QED BY <1>1, <1>2, <1>3, <1>4, <1>5 DEF RowStep

LEMMA NewRowFresh ==
    ASSUME NEW q \in Request, NEW g \in GoalIds \cup {NoGoal}, NEW p \in Nat
    PROVE  FreshRow(NewRow(q, g, p))
BY DEF FreshRow, NewRow, Row, Request, States

----------------------------------------------------------------------------
(* Typing.                                                                 *)

LEMMA GoalsTyped ==
    ASSUME NEW gs \in [GoalIds -> GoalStatuses \cup {"none"}], NEW r \in Row, NEW s
    PROVE  GoalsAfter(gs, r, s) \in [GoalIds -> GoalStatuses \cup {"none"}]
BY DEF GoalsAfter, GoalStatuses, Row

LEMMA PausedTyped ==
    ASSUME NEW gs \in [GoalIds -> GoalStatuses \cup {"none"}], NEW r \in Row
    PROVE  GoalsPaused(gs, r) \in [GoalIds -> GoalStatuses \cup {"none"}]
BY DEF GoalsPaused, GoalStatuses, Row

(* Every step leaves the table alone, appends a fresh row, whose parent is *)
(* an open task and whose goal has no other live one, or changes one row.  *)
NewcomerOK(r) ==
    /\ r.goal = NoGoal \/ LiveGoalTasks(tasks, r.goal) = {}
    /\ r.parent = NoTask \/ (r.parent \in DOMAIN tasks /\ ~tasks[r.parent].cancel)

TableStep ==
    \/ UNCHANGED tasks
    \/ \E r : FreshRow(r) /\ NewcomerOK(r) /\ tasks' = Append(tasks, r)
    \/ \E t \in DOMAIN tasks : \E n :
          RowStep(tasks[t], n) /\ tasks' = [tasks EXCEPT ![t] = n]

LEMMA RowsAreRows ==
    ASSUME TypeOK, NEW t \in DOMAIN tasks
    PROVE  tasks[t] \in Row /\ t \in Nat \ {0}
BY DEF TypeOK

LEMMA TaskSteps ==
    ASSUME TypeOK, [Next]_vars
    PROVE  TableStep
<1> USE DEF TableStep
<1>1. ASSUME NEW q \in Request, NEW g \in GoalIds \cup {NoGoal}, NEW p \in Nat, Insert(q, g, p),
             g = NoGoal \/ LiveGoalTasks(tasks, g) = {},
             p = NoTask \/ (p \in DOMAIN tasks /\ ~tasks[p].cancel)
      PROVE  TableStep
  <2>1. NewRow(q, g, p).goal = g /\ NewRow(q, g, p).parent = p
    BY DEF NewRow
  <2> QED BY <1>1, <2>1, NewRowFresh DEF Insert, NewcomerOK
<1>2. CASE OwnerStep
  <2>1. ASSUME NEW q \in Requests, Enqueue(q) PROVE TableStep
    BY <2>1, <1>1 DEF Enqueue, NoTask, NoGoal
  <2>2. ASSUME NEW t \in DOMAIN tasks, NEW p \in Priorities, SetPriority(t, p)
        PROVE  TableStep
    BY <2>2, RowsAreRows DEF SetPriority, RowStep
  <2>3. ASSUME NEW g \in GoalIds, CreateGoal(g) PROVE TableStep
    BY <2>3 DEF CreateGoal
  <2>4. ASSUME NEW c \in Clients, NEW t \in DOMAIN tasks, CancelTask(c, t)
        PROVE  TableStep
    BY <2>4 DEF CancelTask, RowStep
  <2>5. ASSUME NEW c \in Clients, ClientStep(c) PROVE TableStep
    BY <2>4, <2>5 DEF ClientStep, ListChildren, DrainGoal, GoalState, Hangup
  <2> QED BY <1>2, <2>1, <2>2, <2>3, <2>5 DEF OwnerStep
<1>3. ASSUME NEW t \in DOMAIN tasks, WorkerStep(t) PROVE TableStep
  <2>1. ASSUME NEW q \in ChildRequests, EnqueueChild(t, q) PROVE TableStep
    BY <2>1, <1>1, RowsAreRows DEF EnqueueChild, ClosedParent
  <2>2. ASSUME NEW s \in Progress \cup {"completed", "needs_review"}, Transition(t, s)
        PROVE  TableStep
    <3>1. s \in Active \cup Terminal
      BY DEF Terminal
    <3> QED BY <2>2, <3>1 DEF Transition, RowStep
  <2>3. ASSUME Interrupted(t) PROVE TableStep
    BY <2>3 DEF Interrupted, RowStep
  <2> QED BY <1>3, <2>1, <2>2, <2>3 DEF WorkerStep
<1>4. CASE SupervisorStep
  <2>1. ASSUME NEW lane \in Lanes, Claim(lane) PROVE TableStep
    <3>1. PICK t \in DOMAIN tasks :
              /\ GoesFirst(tasks, LaneKinds[lane], t)
              /\ tasks' = [tasks EXCEPT ![t] = ClaimedRow(tasks[t])]
      BY <2>1 DEF Claim
    <3>2. tasks[t].state = "queued" /\ ~tasks[t].cancel
      BY <3>1 DEF GoesFirst, Claimable
    <3> QED BY <3>1, <3>2 DEF RowStep
  <2>2. ASSUME EnqueueGoal PROVE TableStep
    <3>1. CASE UNCHANGED tasks
      BY <3>1
    <3>2. CASE /\ Insert(GoalRequest(picked), picked, NoTask)
               /\ LiveGoalTasks(tasks, picked) = {}
      <4>1. picked \in GoalIds
        BY <2>2 DEF TypeOK, EnqueueGoal
      <4>2. GoalRequest(picked) \in Request
        BY <4>1 DEF GoalRequest, Request, KINDS
      <4> QED BY <1>1, <3>2, <4>1, <4>2 DEF NoTask
    <3> QED BY <2>2, <3>1, <3>2 DEF EnqueueGoal
  <2> QED BY <1>4, <2>1, <2>2 DEF SupervisorStep, PickGoal, SupervisorRestart
<1>5. CASE UNCHANGED vars
  BY <1>5 DEF vars
<1> QED BY <1>2, <1>3, <1>4, <1>5 DEF Next

LEMMA TableTyped ==
    ASSUME TypeOK, TableStep
    PROVE  tasks' \in Seq(Row)
<1>1. CASE UNCHANGED tasks
  BY <1>1 DEF TypeOK
<1>2. ASSUME NEW r, FreshRow(r), tasks' = Append(tasks, r) PROVE tasks' \in Seq(Row)
  BY <1>2 DEF TypeOK, FreshRow
<1>3. ASSUME NEW t \in DOMAIN tasks, NEW n, RowStep(tasks[t], n),
             tasks' = [tasks EXCEPT ![t] = n]
      PROVE  tasks' \in Seq(Row)
  <2>1. n \in Row
    BY <1>3, RowsAreRows, RowStepTyped
  <2> QED BY <1>3, <2>1, UpdateRow DEF TypeOK
<1> QED BY <1>1, <1>2, <1>3 DEF TableStep

LEMMA InitTyped == Init => TypeOK
<1> SUFFICES ASSUME Init PROVE TypeOK
  OBVIOUS
<1>1. tasks \in Seq(Row)
  <2>1. CASE tasks = <<>>
    BY <2>1
  <2>2. ASSUME NEW r \in LegacyRows, tasks = <<r>> PROVE tasks \in Seq(Row)
    <3>1. r \in Row
      OBVIOUS
    <3> QED BY <2>2, <3>1
  <2> QED BY <2>1, <2>2 DEF Init
<1>2. goals \in [GoalIds -> GoalStatuses \cup {"none"}]
  BY DEF Init
<1>3. todo \in [Clients -> Command]
  BY DEF Init, Command, Done
<1> QED BY <1>1, <1>2, <1>3 DEF Init, TypeOK

LEMMA CommandTyped ==
    ASSUME TypeOK, [Next]_vars
    PROVE  todo' \in [Clients -> Command]
<1>1. CASE UNCHANGED todo
  BY <1>1 DEF TypeOK
<1>2. ASSUME NEW c \in Clients, ClientStep(c) PROVE todo' \in [Clients -> Command]
  <2>1. todo[c] \in Command /\ todo \in [Clients -> Command]
    BY DEF TypeOK
  <2>2. ASSUME NEW t \in DOMAIN tasks, CancelTask(c, t)
        PROVE  todo' \in [Clients -> Command]
    <3>1. t \in Nat
      BY RowsAreRows
    <3> QED BY <2>1, <2>2, <3>1 DEF CancelTask, Command
  <2>3. ASSUME NEW t \in DOMAIN tasks, ListChildren(c, t)
        PROVE  todo' \in [Clients -> Command]
    <3>1. LiveChildren(tasks, t) \subseteq Nat
      BY RowsAreRows DEF LiveChildren
    <3> QED BY <2>1, <2>3, <3>1 DEF ListChildren, Command
  <2>4. ASSUME NEW g \in GoalIds, DrainGoal(c, g) PROVE todo' \in [Clients -> Command]
    <3>1. LiveGoalTasks(tasks, g) \subseteq Nat
      BY RowsAreRows DEF LiveGoalTasks
    <3> QED BY <2>1, <2>4, <3>1 DEF DrainGoal, Command
  <2>5. ASSUME NEW g \in GoalIds, NEW s, GoalState(c, g, s)
        PROVE  todo' \in [Clients -> Command]
    BY <2>1, <2>5 DEF GoalState, Command
  <2> QED BY <1>2, <1>1, <2>2, <2>3, <2>4, <2>5 DEF ClientStep, Hangup
<1>3. CASE OwnerStep
  BY <1>1, <1>2, <1>3 DEF OwnerStep, Enqueue, SetPriority, CreateGoal
<1>4. ASSUME NEW t \in DOMAIN tasks, WorkerStep(t) PROVE UNCHANGED todo
  BY <1>4 DEF WorkerStep, EnqueueChild, Transition, Interrupted
<1>5. CASE SupervisorStep
  BY <1>1, <1>5 DEF SupervisorStep, Claim, PickGoal, EnqueueGoal, SupervisorRestart
<1>6. CASE UNCHANGED vars
  BY <1>1, <1>6 DEF vars
<1> QED BY <1>1, <1>3, <1>4, <1>5, <1>6 DEF Next

LEMMA GoalsStepTyped ==
    ASSUME TypeOK, [Next]_vars
    PROVE  goals' \in [GoalIds -> GoalStatuses \cup {"none"}]
<1> DEFINE GT == goals' \in [GoalIds -> GoalStatuses \cup {"none"}]
<1>1. CASE UNCHANGED goals
  BY <1>1 DEF TypeOK
<1>2. ASSUME NEW g \in GoalIds, CreateGoal(g) PROVE GT
  BY <1>2 DEF CreateGoal, TypeOK, GoalStatuses
<1>3. ASSUME NEW c \in Clients, NEW t \in DOMAIN tasks, CancelTask(c, t) PROVE GT
  BY <1>3, PausedTyped, RowsAreRows DEF CancelTask, TypeOK
<1>4. ASSUME NEW c \in Clients, NEW g \in GoalIds, NEW s \in {"active", "paused", "cancelled"},
             GoalState(c, g, s)
      PROVE  GT
  BY <1>4 DEF GoalState, TypeOK, GoalStatuses
<1>5. ASSUME NEW t \in DOMAIN tasks, NEW s, Transition(t, s) PROVE GT
  BY <1>5, GoalsTyped, RowsAreRows DEF Transition, TypeOK
<1>6. ASSUME NEW t \in DOMAIN tasks, Interrupted(t) PROVE GT
  BY <1>6, GoalsTyped, RowsAreRows DEF Interrupted, TypeOK
<1>7. CASE OwnerStep
  BY <1>1, <1>2, <1>3, <1>4, <1>7
     DEF OwnerStep, ClientStep, Enqueue, SetPriority, ListChildren, DrainGoal, Hangup
<1>8. ASSUME NEW t \in DOMAIN tasks, WorkerStep(t) PROVE GT
  BY <1>1, <1>5, <1>6, <1>8 DEF WorkerStep, EnqueueChild
<1>9. CASE SupervisorStep
  BY <1>1, <1>9 DEF SupervisorStep, Claim, PickGoal, EnqueueGoal, SupervisorRestart
<1>10. CASE UNCHANGED vars
  BY <1>1, <1>10 DEF vars
<1> QED BY <1>7, <1>8, <1>9, <1>10 DEF Next

LEMMA OthersTyped ==
    ASSUME TypeOK, [Next]_vars
    PROVE  picked' \in GoalIds \cup {NoGoal} /\ dead' \in SUBSET Clients
<1> USE DEF TypeOK, NoGoal
<1>1. CASE OwnerStep
  BY <1>1 DEF OwnerStep, ClientStep, Enqueue, SetPriority, CreateGoal, CancelTask,
              ListChildren, DrainGoal, GoalState, Hangup
<1>2. ASSUME NEW t \in DOMAIN tasks, WorkerStep(t) PROVE UNCHANGED <<picked, dead>>
  BY <1>2 DEF WorkerStep, EnqueueChild, Transition, Interrupted
<1>3. CASE SupervisorStep
  BY <1>3 DEF SupervisorStep, Claim, PickGoal, EnqueueGoal, SupervisorRestart
<1>4. CASE UNCHANGED vars
  BY <1>4 DEF vars
<1> QED BY <1>1, <1>2, <1>3, <1>4 DEF Next

(* Type correctness of the queue.                                          *)
THEOREM TypeCorrect == Spec => []TypeOK
<1>1. Init => TypeOK
  BY InitTyped
<1>2. TypeOK /\ [Next]_vars => TypeOK'
  <2> SUFFICES ASSUME TypeOK, [Next]_vars PROVE TypeOK'
    OBVIOUS
  <2> QED BY TaskSteps, TableTyped, CommandTyped, GoalsStepTyped, OthersTyped DEF TypeOK
<1> QED BY <1>1, <1>2, PTL DEF Spec

----------------------------------------------------------------------------
(* Rows one by one.  What makes the safety of a row inductive: a row that  *)
(* is back in the queue after an attempt is one that may be repeated.      *)

RowInv(r) ==
    /\ r.state = "queued" => /\ ~r.cancel /\ r.attempts < r.max
                             /\ ~Safe(r) => r.attempts = 0
    /\ r.attempts <= r.max
    /\ ~Safe(r) => r.attempts <= 1
    /\ r.state = "completed" => ~r.cancel

RowsInv == \A t \in DOMAIN tasks : RowInv(tasks[t])

LEMMA FreshRowInv ==
    ASSUME NEW r, FreshRow(r) PROVE RowInv(r)
BY DEF FreshRow, RowInv, Row

LEMMA RowStepInv ==
    ASSUME NEW r \in Row, NEW n, RowInv(r), RowStep(r, n)
    PROVE  RowInv(n)
<1> USE DEF RowInv, Row
<1>1. ASSUME NEW p \in Priorities, n = [r EXCEPT !.priority = p] PROVE RowInv(n)
  BY <1>1 DEF Safe
<1>2. CASE r.state = "queued" /\ ~r.cancel /\ n = ClaimedRow(r)
  <2>1. /\ n.state = "running" /\ n.attempts = r.attempts + 1 /\ n.max = r.max
        /\ Safe(n) <=> Safe(r)
    BY <1>2 DEF ClaimedRow, Safe
  <2> QED BY <1>2, <2>1
<1>3. ASSUME r.state \in Active, NEW s \in Active \cup Terminal, n = MovedRow(r, s)
      PROVE  RowInv(n)
  <2>1. /\ n.state = StateAfter(r, s) /\ n.attempts = r.attempts /\ n.max = r.max
        /\ n.cancel = r.cancel /\ (Safe(n) <=> Safe(r))
    BY <1>3 DEF MovedRow, Safe
  <2>2. n.state # "queued" /\ (n.state = "completed" => ~n.cancel)
    BY <1>3, <2>1 DEF StateAfter, Active, Terminal
  <2> QED BY <2>1, <2>2
<1>4. CASE r.state \in Active /\ n = InterruptedRow(r)
  <2>1. /\ n.state = InterruptedState(r) /\ n.attempts = r.attempts /\ n.max = r.max
        /\ n.cancel = r.cancel /\ (Safe(n) <=> Safe(r))
    BY <1>4 DEF InterruptedRow, Safe
  <2>2. n.state = "queued" => Retries(r)
    BY <2>1 DEF InterruptedState
  <2>3. n.state # "completed"
    BY <2>1 DEF InterruptedState
  <2> QED BY <2>1, <2>2, <2>3 DEF Retries
<1>5. CASE Live(r) /\ n = CancelledRow(r)
  <2>1. /\ n.attempts = r.attempts /\ n.max = r.max /\ n.cancel
        /\ (Safe(n) <=> Safe(r))
        /\ n.state = IF r.state = "queued" THEN "cancelled" ELSE r.state
    BY <1>5 DEF CancelledRow, Safe
  <2> QED BY <1>5, <2>1 DEF Live, Terminal
<1> QED BY <1>1, <1>2, <1>3, <1>4, <1>5 DEF RowStep

LEMMA RowsInvStep ==
    ASSUME TypeOK, RowsInv, TableStep
    PROVE  RowsInv'
<1> USE DEF RowsInv
<1>1. CASE UNCHANGED tasks
  BY <1>1
<1>2. ASSUME NEW r, FreshRow(r), tasks' = Append(tasks, r) PROVE RowsInv'
  <2>1. r \in Row /\ RowInv(r)
    BY <1>2, FreshRowInv DEF FreshRow
  <2>2. tasks \in Seq(Row)
    BY DEF TypeOK
  <2> HIDE DEF RowInv
  <2> SUFFICES ASSUME NEW t \in DOMAIN tasks' PROVE RowInv(tasks'[t])
    OBVIOUS
  <2> QED BY <1>2, <2>1, <2>2, AppendRow
<1>3. ASSUME NEW t \in DOMAIN tasks, NEW n, RowStep(tasks[t], n),
             tasks' = [tasks EXCEPT ![t] = n]
      PROVE  RowsInv'
  <2>1. n \in Row /\ RowInv(n)
    BY <1>3, RowsAreRows, RowStepTyped, RowStepInv
  <2>2. tasks \in Seq(Row)
    BY DEF TypeOK
  <2> QED BY <1>3, <2>1, <2>2, UpdateRow
<1> QED BY <1>1, <1>2, <1>3 DEF TableStep

LEMMA InitRowsInv == Init => RowsInv
<1> SUFFICES ASSUME Init PROVE RowsInv
  OBVIOUS
<1>1. CASE tasks = <<>>
  BY <1>1 DEF RowsInv
<1>2. ASSUME NEW r \in LegacyRows, tasks = <<r>> PROVE RowsInv
  <2>1. FreshRow(r)
    BY DEF FreshRow
  <2>2. RowInv(r) /\ DOMAIN tasks = {1} /\ tasks[1] = r
    BY <1>2, <2>1, FreshRowInv
  <2> QED BY <2>2 DEF RowsInv
<1> QED BY <1>1, <1>2 DEF Init

LEMMA RowsInvAlways == Spec => []RowsInv
<1>1. Init => RowsInv
  BY InitRowsInv
<1>2. TypeOK /\ RowsInv /\ [Next]_vars => RowsInv'
  BY TaskSteps, RowsInvStep
<1> QED BY <1>1, <1>2, TypeCorrect, PTL DEF Spec

(* Nothing the queue holds is stuck: every queued row can be claimed.      *)
THEOREM QueuedCanBeClaimed == Spec => []QueuedIsClaimable
<1>1. RowsInv => QueuedIsClaimable
  BY DEF RowsInv, RowInv, QueuedIsClaimable
<1> QED BY <1>1, RowsInvAlways, PTL

(* Work with side effects is started at most once, repeatable work at most *)
(* max_attempts times.                                                     *)
THEOREM NothingIsReplayed == Spec => []NoReplay
<1>1. RowsInv => NoReplay
  BY DEF RowsInv, RowInv, NoReplay, Safe
<1> QED BY <1>1, RowsInvAlways, PTL

(* No task completes once its cancellation is recorded.                    *)
THEOREM CompletionRespectsCancel == Spec => []CompletedUncancelled
<1>1. RowsInv => CompletedUncancelled
  BY DEF RowsInv, RowInv, CompletedUncancelled
<1> QED BY <1>1, RowsInvAlways, PTL

----------------------------------------------------------------------------
(* Rows against each other.                                                *)

(* What no step changes in a row, and the one thing it cannot do: bring    *)
(* back a task that ended.                                                 *)
LEMMA RowStepKeeps ==
    ASSUME NEW r \in Row, NEW n, RowStep(r, n)
    PROVE  /\ n.goal = r.goal /\ n.parent = r.parent
           /\ Live(r)
           /\ n.cancel = r.cancel \/ n = CancelledRow(r)
<1> USE DEF Live, Terminal, Active
<1>1. ASSUME r.state = "queued", NEW p \in Priorities, n = [r EXCEPT !.priority = p]
      PROVE  n.goal = r.goal /\ n.parent = r.parent /\ Live(r) /\ n.cancel = r.cancel
  BY <1>1 DEF Row
<1>2. CASE r.state = "queued" /\ n = ClaimedRow(r)
  BY <1>2 DEF Row, ClaimedRow
<1>3. ASSUME r.state \in Active, NEW s, n = MovedRow(r, s)
      PROVE  n.goal = r.goal /\ n.parent = r.parent /\ Live(r) /\ n.cancel = r.cancel
  BY <1>3 DEF Row, MovedRow
<1>4. CASE r.state \in Active /\ n = InterruptedRow(r)
  BY <1>4 DEF Row, InterruptedRow
<1>5. CASE Live(r) /\ n = CancelledRow(r)
  BY <1>5 DEF Row, CancelledRow
<1> QED BY <1>1, <1>2, <1>3, <1>4, <1>5 DEF RowStep

LEMMA OneTaskStep ==
    ASSUME TypeOK, OneTaskPerGoal, TableStep
    PROVE  OneTaskPerGoal'
<1> USE DEF OneTaskPerGoal
<1>0. tasks \in Seq(Row)
  BY DEF TypeOK
<1>1. CASE UNCHANGED tasks
  BY <1>1
<1>2. ASSUME NEW r, FreshRow(r), NewcomerOK(r), tasks' = Append(tasks, r)
      PROVE  OneTaskPerGoal'
  <2>1. r \in Row
    BY <1>2 DEF FreshRow
  <2>2. \A t \in DOMAIN tasks : Live(tasks[t]) /\ r.goal # NoGoal => tasks[t].goal # r.goal
    BY <1>2 DEF NewcomerOK, LiveGoalTasks
  <2> SUFFICES ASSUME NEW t \in DOMAIN tasks', NEW u \in DOMAIN tasks',
                      tasks'[t].goal # NoGoal, tasks'[t].goal = tasks'[u].goal,
                      Live(tasks'[t]), Live(tasks'[u])
               PROVE  t = u
    OBVIOUS
  <2> QED BY <1>0, <1>2, <2>1, <2>2, AppendRow
<1>3. ASSUME NEW t \in DOMAIN tasks, NEW n, RowStep(tasks[t], n),
             tasks' = [tasks EXCEPT ![t] = n]
      PROVE  OneTaskPerGoal'
  <2>1. n.goal = tasks[t].goal /\ Live(tasks[t]) /\ n \in Row
    BY <1>3, RowsAreRows, RowStepKeeps, RowStepTyped
  <2> QED BY <1>0, <1>3, <2>1, UpdateRow
<1> QED BY <1>1, <1>2, <1>3 DEF TableStep

(* A goal has at most one live task, whatever the owner, the workers and   *)
(* the supervisor interleave.                                              *)
THEOREM GoalHasOneTask == Spec => []OneTaskPerGoal
<1>1. Init => OneTaskPerGoal
  <2> SUFFICES ASSUME Init PROVE OneTaskPerGoal
    OBVIOUS
  <2>1. \A t, u \in DOMAIN tasks : t = u
    BY DEF Init
  <2> QED BY <2>1 DEF OneTaskPerGoal
<1>2. TypeOK /\ OneTaskPerGoal /\ [Next]_vars => OneTaskPerGoal'
  BY TaskSteps, OneTaskStep
<1> QED BY <1>1, <1>2, TypeCorrect, PTL DEF Spec

----------------------------------------------------------------------------
(* The cancellation traversal.  Only CancelTask sets a flag, and it puts   *)
(* the task on its client's list in the same transaction; a child can only *)
(* join a task that carries no flag; and a list loses a task only when its *)
(* children move on to be cancelled.  ParentsExist makes this inductive.   *)

ParentsExist ==
    \A t \in DOMAIN tasks : tasks[t].parent = NoTask \/ tasks[t].parent \in DOMAIN tasks

Traversal == ParentsExist /\ CancelReachesChildren

(* A live task whose parent is flagged is on some client's way.            *)
OnTheWay(td, p, t) == \E c \in Clients : p \in td[c].list \/ t \in td[c].cancel

(* Steps that change neither a flag nor what clients have left to cancel.  *)
FlagsKept == \A t \in DOMAIN tasks : tasks'[t].cancel = tasks[t].cancel

LEMMA FlagSteps ==
    ASSUME TypeOK, [Next]_vars
    PROVE  FlagsKept \/ \E c \in Clients, t \in DOMAIN tasks : CancelTask(c, t)
<1> USE DEF FlagsKept
<1>0. tasks \in Seq(Row)
  BY DEF TypeOK
<1>1. CASE UNCHANGED tasks
  BY <1>1
<1>2. ASSUME NEW q, NEW g, NEW p, Insert(q, g, p) PROVE FlagsKept
  BY <1>0, <1>2 DEF Insert
<1>3. ASSUME NEW t \in DOMAIN tasks, NEW n, tasks' = [tasks EXCEPT ![t] = n],
             n.cancel = tasks[t].cancel
      PROVE  FlagsKept
  BY <1>0, <1>3
<1>4. ASSUME NEW t \in DOMAIN tasks, NEW p, SetPriority(t, p) PROVE FlagsKept
  <2>1. [tasks[t] EXCEPT !.priority = p].cancel = tasks[t].cancel
    BY RowsAreRows DEF Row
  <2>2. tasks' = [tasks EXCEPT ![t] = [tasks[t] EXCEPT !.priority = p]]
    BY <1>4 DEF SetPriority
  <2> QED BY <2>1, <2>2, <1>3
<1>5. ASSUME NEW t \in DOMAIN tasks, NEW s, Transition(t, s) PROVE FlagsKept
  <2>1. MovedRow(tasks[t], s).cancel = tasks[t].cancel
    BY RowsAreRows DEF Row, MovedRow
  <2> QED BY <1>5, <2>1, <1>3 DEF Transition
<1>6. ASSUME NEW t \in DOMAIN tasks, Interrupted(t) PROVE FlagsKept
  <2>1. InterruptedRow(tasks[t]).cancel = tasks[t].cancel
    BY RowsAreRows DEF Row, InterruptedRow
  <2> QED BY <1>6, <2>1, <1>3 DEF Interrupted
<1>7. ASSUME NEW lane, Claim(lane) PROVE FlagsKept
  <2>1. PICK t \in DOMAIN tasks : tasks' = [tasks EXCEPT ![t] = ClaimedRow(tasks[t])]
    BY <1>7 DEF Claim
  <2>2. ClaimedRow(tasks[t]).cancel = tasks[t].cancel
    BY RowsAreRows DEF Row, ClaimedRow
  <2> QED BY <2>1, <2>2, <1>3
<1>8. CASE OwnerStep
  BY <1>1, <1>2, <1>4, <1>8
     DEF OwnerStep, ClientStep, Enqueue, CreateGoal, ListChildren, DrainGoal, GoalState, Hangup
<1>9. ASSUME NEW t \in DOMAIN tasks, WorkerStep(t) PROVE FlagsKept
  BY <1>2, <1>5, <1>6, <1>9 DEF WorkerStep, EnqueueChild
<1>10. CASE SupervisorStep
  BY <1>1, <1>2, <1>7, <1>10 DEF SupervisorStep, PickGoal, EnqueueGoal, SupervisorRestart
<1>11. CASE UNCHANGED vars
  BY <1>1, <1>11 DEF vars
<1> QED BY <1>8, <1>9, <1>10, <1>11 DEF Next

LEMMA WayKept ==
    ASSUME TypeOK, [Next]_vars, NEW p \in DOMAIN tasks, NEW t \in DOMAIN tasks,
           tasks[t].parent = p, Live(tasks[t]), OnTheWay(todo, p, t),
           tasks'[t].cancel = FALSE, Live(tasks'[t])
    PROVE  OnTheWay(todo', p, t)
<1> USE DEF OnTheWay
<1>1. CASE UNCHANGED todo
  BY <1>1
<1>2. ASSUME NEW c \in Clients, ClientStep(c) PROVE OnTheWay(todo', p, t)
  <2>0. todo \in [Clients -> Command] /\ tasks \in Seq(Row)
    BY DEF TypeOK
  <2>1. ASSUME NEW u \in DOMAIN tasks, CancelTask(c, u) PROVE OnTheWay(todo', p, t)
    <3>1. u # t
      <4>1. CASE Live(tasks[u])
        <5>1. CancelledRow(tasks[u]).cancel = TRUE
          BY RowsAreRows DEF CancelledRow, Row
        <5>2. tasks'[u] = CancelledRow(tasks[u])
          BY <2>0, <2>1, <4>1 DEF CancelTask
        <5> QED BY <5>1, <5>2
      <4> QED BY <4>1
    <3> QED BY <2>0, <2>1, <3>1 DEF CancelTask, Command
  <2>2. ASSUME NEW u \in DOMAIN tasks, ListChildren(c, u) PROVE OnTheWay(todo', p, t)
    <3>1. u = p => t \in LiveChildren(tasks, u)
      BY DEF LiveChildren
    <3> QED BY <2>0, <2>2, <3>1 DEF ListChildren, Command
  <2>3. ASSUME NEW g \in GoalIds, DrainGoal(c, g) PROVE OnTheWay(todo', p, t)
    BY <2>0, <2>3 DEF DrainGoal, Command
  <2>4. ASSUME NEW g \in GoalIds, NEW s, GoalState(c, g, s) PROVE OnTheWay(todo', p, t)
    BY <2>0, <2>4 DEF GoalState, Command
  <2> QED BY <1>1, <1>2, <2>1, <2>2, <2>3, <2>4 DEF ClientStep, Hangup
<1>3. CASE OwnerStep
  BY <1>1, <1>2, <1>3 DEF OwnerStep, Enqueue, SetPriority, CreateGoal
<1>4. ASSUME NEW u \in DOMAIN tasks, WorkerStep(u) PROVE UNCHANGED todo
  BY <1>4 DEF WorkerStep, EnqueueChild, Transition, Interrupted
<1>5. CASE SupervisorStep
  BY <1>1, <1>5 DEF SupervisorStep, Claim, PickGoal, EnqueueGoal, SupervisorRestart
<1>6. CASE UNCHANGED vars
  BY <1>1, <1>6 DEF vars
<1> QED BY <1>1, <1>3, <1>4, <1>5, <1>6 DEF Next

(* What a step does to the rows that were there: they stay, with their     *)
(* parents, and none comes back to life; a row that was not there has an   *)
(* unflagged parent among those that were.                                 *)
LEMMA RowsThatStay ==
    ASSUME TypeOK, TableStep
    PROVE  /\ \A t \in DOMAIN tasks :
                 /\ t \in DOMAIN tasks' /\ tasks'[t].parent = tasks[t].parent
                 /\ tasks[t].cancel => tasks'[t].cancel
                 /\ Live(tasks'[t]) => Live(tasks[t])
           /\ \A t \in DOMAIN tasks' \ DOMAIN tasks :
                 \/ tasks'[t].parent = NoTask
                 \/ /\ tasks'[t].parent \in DOMAIN tasks
                    /\ ~tasks[tasks'[t].parent].cancel
<1>0. tasks \in Seq(Row)
  BY DEF TypeOK
<1>1. CASE UNCHANGED tasks
  BY <1>1
<1>2. ASSUME NEW r, FreshRow(r), NewcomerOK(r), tasks' = Append(tasks, r)
      PROVE  /\ \A t \in DOMAIN tasks : t \in DOMAIN tasks' /\ tasks'[t] = tasks[t]
             /\ \A t \in DOMAIN tasks' \ DOMAIN tasks : tasks'[t] = r
  BY <1>0, <1>2, AppendRow DEF FreshRow
<1>3. ASSUME NEW t \in DOMAIN tasks, NEW n, RowStep(tasks[t], n),
             tasks' = [tasks EXCEPT ![t] = n]
      PROVE  /\ DOMAIN tasks' = DOMAIN tasks
             /\ \A u \in DOMAIN tasks :
                  /\ tasks'[u].parent = tasks[u].parent
                  /\ tasks[u].cancel => tasks'[u].cancel
                  /\ Live(tasks'[u]) => Live(tasks[u])
  <2>1. /\ n.parent = tasks[t].parent /\ Live(tasks[t])
        /\ n.cancel = tasks[t].cancel \/ n = CancelledRow(tasks[t])
    BY <1>3, RowsAreRows, RowStepKeeps
  <2>2. CancelledRow(tasks[t]).cancel
    BY RowsAreRows DEF CancelledRow, Row
  <2> QED BY <1>0, <1>3, <2>1, <2>2
<1> QED BY <1>1, <1>2, <1>3 DEF TableStep, NewcomerOK

LEMMA TraversalStep ==
    ASSUME TypeOK, Traversal, [Next]_vars
    PROVE  Traversal'
<1>0. tasks \in Seq(Row) /\ todo \in [Clients -> Command]
  BY DEF TypeOK
<1>1. TableStep
  BY TaskSteps
<1>2. ParentsExist'
  BY <1>1, RowsThatStay DEF Traversal, ParentsExist
<1>3. ASSUME NEW t \in DOMAIN tasks', NEW p, p = tasks'[t].parent, p # NoTask,
             tasks'[p].cancel, Live(tasks'[t]), ~tasks'[t].cancel
      PROVE  OnTheWay(todo', p, t)
  <2>1. ASSUME t \in DOMAIN tasks, tasks[p].cancel PROVE OnTheWay(todo', p, t)
    <3>1. p = tasks[t].parent /\ Live(tasks[t]) /\ ~tasks[t].cancel
      BY <1>1, <1>3, <2>1, RowsThatStay
    <3>2. p \in DOMAIN tasks
      BY <1>3, <2>1, <3>1 DEF Traversal, ParentsExist
    <3>3. OnTheWay(todo, p, t)
      BY <1>3, <2>1, <3>1 DEF Traversal, CancelReachesChildren, OnTheWay
    <3>4. tasks'[t].cancel = FALSE
      BY <1>1, <1>3, TableTyped DEF Row
    <3> QED BY <1>3, <2>1, <3>1, <3>2, <3>3, <3>4, WayKept
  <2>2. CASE FlagsKept
    <3>1. t \in DOMAIN tasks
      BY <1>1, <1>3, <2>2, RowsThatStay DEF FlagsKept
    <3>2. p \in DOMAIN tasks
      BY <1>1, <1>3, <3>1, RowsThatStay DEF Traversal, ParentsExist
    <3> QED BY <1>3, <2>1, <2>2, <3>1, <3>2 DEF FlagsKept
  <2>3. ASSUME NEW c \in Clients, NEW u \in DOMAIN tasks, CancelTask(c, u)
        PROVE  OnTheWay(todo', p, t)
    <3>1. CASE UNCHANGED tasks
      BY <1>3, <2>1, <3>1
    <3>2. CASE /\ tasks' = [tasks EXCEPT ![u] = CancelledRow(@)]
               /\ todo' = [todo EXCEPT ![c].cancel = @ \ {u}, ![c].list = @ \cup {u}]
      <4>1. DOMAIN tasks' = DOMAIN tasks
        BY <1>0, <3>2
      <4>2. CASE tasks[p].cancel
        BY <1>3, <2>1, <4>1, <4>2
      <4>3. CASE ~tasks[p].cancel
        <5>1. p = u
          BY <1>0, <1>3, <3>2, <4>3
        <5>2. p \in todo'[c].list
          BY <1>0, <3>2, <5>1 DEF Command
        <5> QED BY <5>2 DEF OnTheWay
      <4> QED BY <4>2, <4>3
    <3> QED BY <2>3, <3>1, <3>2 DEF CancelTask
  <2> QED BY <2>2, <2>3, FlagSteps
<1>4. CancelReachesChildren'
  BY <1>3 DEF CancelReachesChildren, OnTheWay
<1> QED BY <1>2, <1>4 DEF Traversal

(* A cancellation reaches every live child, even one that was enqueued     *)
(* while the traversal was on its way.                                     *)
THEOREM CancellationReachesChildren == Spec => []CancelReachesChildren
<1>1. Init => Traversal
  <2> SUFFICES ASSUME Init PROVE Traversal
    OBVIOUS
  <2>1. \A t \in DOMAIN tasks : tasks[t].parent = NoTask
    <3>1. CASE tasks = <<>>
      BY <3>1
    <3>2. ASSUME NEW r \in LegacyRows, tasks = <<r>>
          PROVE  \A t \in DOMAIN tasks : tasks[t].parent = NoTask
      BY <3>2
    <3> QED BY <3>1, <3>2 DEF Init
  <2> QED BY <2>1 DEF Traversal, ParentsExist, CancelReachesChildren
<1>2. TypeOK /\ Traversal /\ [Next]_vars => Traversal'
  BY TraversalStep
<1>3. Traversal => CancelReachesChildren
  BY DEF Traversal
<1> QED BY <1>1, <1>2, <1>3, TypeCorrect, PTL DEF Spec

----------------------------------------------------------------------------
(* Goals.  A step changes at most one status: the owner's word leaves the  *)
(* table alone, and a task that ends or is cancelled closes a goal that    *)
(* was active, as completed only if the task completed.                    *)

OwnersWord ==
    /\ UNCHANGED tasks
    /\ \E g \in GoalIds, s \in {"active", "paused", "cancelled"} :
          goals' = [goals EXCEPT ![g] = s]

Closing(t, n) ==
    \E s \in {"completed", "paused", "needs_review"} :
        /\ tasks' = [tasks EXCEPT ![t] = n]
        /\ tasks[t].goal \in GoalIds /\ goals[tasks[t].goal] = "active"
        /\ goals' = [goals EXCEPT ![tasks[t].goal] = s]
        /\ s = "completed" => n.state = "completed"

GoalStep ==
    \/ UNCHANGED goals
    \/ OwnersWord
    \/ \E t \in DOMAIN tasks : \E n : RowStep(tasks[t], n) /\ Closing(t, n)

LEMMA GoalSteps ==
    ASSUME TypeOK, [Next]_vars
    PROVE  GoalStep
<1> USE DEF GoalStep
<1>1. ASSUME NEW t \in DOMAIN tasks, NEW n, RowStep(tasks[t], n), NEW s,
             tasks' = [tasks EXCEPT ![t] = n], goals' = GoalsAfter(goals, tasks[t], s),
             s = "completed" => n.state = "completed"
      PROVE  GoalStep
  <2>1. tasks[t].goal \in GoalIds \cup {NoGoal}
    BY RowsAreRows DEF Row
  <2>2. CASE tasks[t].goal # NoGoal /\ s \in Terminal /\ goals[tasks[t].goal] = "active"
    <3>1. goals' = [goals EXCEPT ![tasks[t].goal] =
                      IF s = "completed" THEN "completed" ELSE "needs_review"]
      BY <1>1, <2>2 DEF GoalsAfter
    <3>2. Closing(t, n)
      BY <1>1, <2>1, <2>2, <3>1 DEF Closing
    <3> QED BY <1>1, <3>2
  <2>3. CASE ~(tasks[t].goal # NoGoal /\ s \in Terminal /\ goals[tasks[t].goal] = "active")
    BY <1>1, <2>3 DEF GoalsAfter
  <2> QED BY <2>2, <2>3
<1>2. ASSUME NEW t \in DOMAIN tasks, NEW s \in Progress \cup {"completed", "needs_review"},
             Transition(t, s)
      PROVE  GoalStep
  <2>1. RowStep(tasks[t], MovedRow(tasks[t], s))
    BY <1>2 DEF Transition, RowStep, Terminal
  <2>2. MovedRow(tasks[t], s).state = StateAfter(tasks[t], s)
    BY RowsAreRows DEF MovedRow, Row
  <2> QED BY <1>1, <1>2, <2>1, <2>2 DEF Transition
<1>3. ASSUME NEW t \in DOMAIN tasks, Interrupted(t) PROVE GoalStep
  <2>1. RowStep(tasks[t], InterruptedRow(tasks[t]))
    BY <1>3 DEF Interrupted, RowStep
  <2>2. InterruptedState(tasks[t]) # "completed"
    BY DEF InterruptedState
  <2> QED BY <1>1, <1>3, <2>1, <2>2 DEF Interrupted
<1>4. ASSUME NEW c \in Clients, NEW t \in DOMAIN tasks, CancelTask(c, t) PROVE GoalStep
  <2>1. CASE Live(tasks[t])
    <3>1. /\ RowStep(tasks[t], CancelledRow(tasks[t]))
          /\ tasks' = [tasks EXCEPT ![t] = CancelledRow(tasks[t])]
          /\ goals' = GoalsPaused(goals, tasks[t])
      BY <1>4, <2>1 DEF CancelTask, RowStep
    <3>2. tasks[t].goal \in GoalIds \cup {NoGoal}
      BY RowsAreRows DEF Row
    <3> QED BY <3>1, <3>2 DEF GoalsPaused, Closing
  <2> QED BY <1>4, <2>1 DEF CancelTask
<1>5. CASE OwnerStep
  <2>1. ASSUME NEW g \in GoalIds, CreateGoal(g) PROVE GoalStep
    BY <2>1 DEF CreateGoal, OwnersWord
  <2>2. ASSUME NEW c \in Clients, NEW g \in GoalIds, NEW s \in {"active", "paused", "cancelled"},
               GoalState(c, g, s)
        PROVE  GoalStep
    BY <2>2 DEF GoalState, OwnersWord
  <2> QED BY <1>4, <1>5, <2>1, <2>2
          DEF OwnerStep, ClientStep, Enqueue, SetPriority, ListChildren, DrainGoal, Hangup
<1>6. ASSUME NEW t \in DOMAIN tasks, WorkerStep(t) PROVE GoalStep
  BY <1>2, <1>3, <1>6 DEF WorkerStep, EnqueueChild
<1>7. CASE SupervisorStep
  BY <1>7 DEF SupervisorStep, Claim, PickGoal, EnqueueGoal, SupervisorRestart
<1>8. CASE UNCHANGED vars
  BY <1>8 DEF vars
<1> QED BY <1>5, <1>6, <1>7, <1>8 DEF Next

(* A task that ended stays as it is, whatever else the table goes through. *)
LEMMA EndedStays ==
    ASSUME TypeOK, TableStep, NEW t \in DOMAIN tasks, ~Live(tasks[t])
    PROVE  t \in DOMAIN tasks' /\ tasks'[t] = tasks[t]
<1>0. tasks \in Seq(Row)
  BY DEF TypeOK
<1>1. CASE UNCHANGED tasks
  BY <1>1
<1>2. ASSUME NEW r, FreshRow(r), tasks' = Append(tasks, r)
      PROVE  t \in DOMAIN tasks' /\ tasks'[t] = tasks[t]
  BY <1>0, <1>2, AppendRow DEF FreshRow
<1>3. ASSUME NEW u \in DOMAIN tasks, NEW n, RowStep(tasks[u], n),
             tasks' = [tasks EXCEPT ![u] = n]
      PROVE  t \in DOMAIN tasks' /\ tasks'[t] = tasks[t]
  <2>1. Live(tasks[u])
    BY <1>3, RowsAreRows, RowStepKeeps
  <2> QED BY <1>0, <1>3, <2>1
<1> QED BY <1>1, <1>2, <1>3 DEF TableStep

LEMMA EvidenceStep ==
    ASSUME TypeOK, GoalEvidence, [Next]_vars
    PROVE  GoalEvidence'
<1> DEFINE Evidence(tbl, g) == \E t \in DOMAIN tbl : tbl[t].goal = g /\ tbl[t].state = "completed"
<1>0. tasks \in Seq(Row) /\ goals \in [GoalIds -> GoalStatuses \cup {"none"}]
  BY DEF TypeOK
<1>1. ASSUME NEW g \in GoalIds, goals[g] = "completed" PROVE Evidence(tasks', g)
  <2>1. PICK t \in DOMAIN tasks : tasks[t].goal = g /\ tasks[t].state = "completed"
    BY <1>1 DEF GoalEvidence
  <2>2. ~Live(tasks[t])
    BY <2>1 DEF Live, Terminal
  <2> QED BY <2>1, <2>2, TaskSteps, EndedStays
<1>2. ASSUME NEW g \in GoalIds, goals'[g] = "completed", goals[g] # "completed"
      PROVE  Evidence(tasks', g)
  <2>1. PICK t \in DOMAIN tasks : \E n : RowStep(tasks[t], n) /\ Closing(t, n)
    BY <1>0, <1>2, GoalSteps DEF GoalStep, OwnersWord
  <2>2. PICK n : RowStep(tasks[t], n) /\ Closing(t, n)
    BY <2>1
  <2>3. tasks[t].goal = g /\ n.state = "completed" /\ tasks' = [tasks EXCEPT ![t] = n]
    BY <1>0, <1>2, <2>2 DEF Closing
  <2>4. n.goal = g
    BY <2>2, <2>3, RowsAreRows, RowStepKeeps
  <2> QED BY <1>0, <2>3, <2>4
<1> QED BY <1>1, <1>2 DEF GoalEvidence

(* A goal is never shown as completed without a task of it that completed, *)
(* however ends, cancellations, new cycles and recoveries interleave.      *)
THEOREM GoalsRestOnEvidence == Spec => []GoalEvidence
<1>1. Init => GoalEvidence
  BY DEF Init, GoalEvidence
<1>2. TypeOK /\ GoalEvidence /\ [Next]_vars => GoalEvidence'
  BY EvidenceStep
<1> QED BY <1>1, <1>2, TypeCorrect, PTL DEF Spec

(* What the owner stopped stays as the owner left it: no task that ends,   *)
(* is cancelled or is recovered late moves a goal that is not active.      *)
THEOREM StoppedGoalsStay == Spec => GoalStaysStopped
<1>1. TypeOK /\ [Next]_vars =>
          [tasks' # tasks => \A g \in GoalIds : goals[g] # "active" => goals'[g] = goals[g]]_vars
  <2> SUFFICES ASSUME TypeOK, [Next]_vars, tasks' # tasks, NEW g \in GoalIds, goals[g] # "active"
               PROVE  goals'[g] = goals[g]
    OBVIOUS
  <2>1. goals \in [GoalIds -> GoalStatuses \cup {"none"}]
    BY DEF TypeOK
  <2> QED BY <2>1, GoalSteps DEF GoalStep, OwnersWord, Closing
<1> QED BY <1>1, TypeCorrect, PTL DEF Spec, GoalStaysStopped

----------------------------------------------------------------------------
(* The refinement of TaskLife.  A row's life is what Abstract makes of it; *)
(* RowInv is what lets every change of a row be a step of that life.       *)

Limit(r) == IF Safe(r) THEN r.max ELSE 1

LEMMA Lives ==
    ASSUME NEW r \in Row
    PROVE  /\ Abstract(r) \in Life!Task
           /\ Abstract(r).starts = r.attempts /\ Abstract(r).limit = Limit(r)
           /\ Abstract(r).flagged = r.cancel
           /\ r.state = "queued" => Abstract(r).phase = "pending"
           /\ r.state \in Active => Abstract(r).phase = "active"
           /\ r.state = "completed" => Abstract(r).phase = "succeeded"
           /\ r.state \in Terminal \ {"completed"} => Abstract(r).phase = "ended"
BY DEF Row, Limit, Abstract, Safe, Active, Terminal, Life!Task, Life!Phases

LEMMA FreshLife ==
    ASSUME NEW r, FreshRow(r)
    PROVE  \E n \in 1..5 : Abstract(r) = Life!Fresh(n)
<1>1. r \in Row /\ r.state = "queued" /\ r.attempts = 0 /\ r.cancel = FALSE
  BY DEF FreshRow, Row
<1> QED BY <1>1, Lives DEF Life!Task, Life!Fresh

(* What happens to a life, field by field.                                 *)
LifeStep(a, b) ==
    /\ b.limit = a.limit
    /\ \/ /\ a.phase = "pending" /\ b.phase = "active"
          /\ ~a.flagged /\ ~b.flagged
          /\ a.starts < a.limit /\ b.starts = a.starts + 1
       \/ /\ b.starts = a.starts
          /\ \/ /\ a.phase = "active" /\ b.phase = "pending"
                /\ ~a.flagged /\ ~b.flagged /\ a.starts < a.limit
             \/ a.phase = "active" /\ b.phase = "succeeded" /\ ~a.flagged /\ ~b.flagged
             \/ a.phase = "active" /\ b.phase = "ended" /\ b.flagged = a.flagged
             \/ a.phase = "active" /\ b.phase = "active" /\ b.flagged
             \/ a.phase = "pending" /\ b.phase = "ended" /\ b.flagged
             \/ b.phase = a.phase /\ b.flagged = a.flagged

LEMMA RowStepLife ==
    ASSUME NEW r \in Row, NEW n, RowInv(r), RowStep(r, n)
    PROVE  LifeStep(Abstract(r), Abstract(n))
<1> USE DEF Active, Terminal
<1>0. n \in Row
  BY RowStepTyped
<1>1. ASSUME r.state = "queued", NEW p \in Priorities, n = [r EXCEPT !.priority = p]
      PROVE  LifeStep(Abstract(r), Abstract(n))
  <2>1. /\ r.state = "queued" /\ n.state = "queued" /\ n.attempts = r.attempts
        /\ n.cancel = r.cancel /\ Limit(n) = Limit(r)
    BY <1>1 DEF Row, Safe, Limit
  <2> QED BY <1>0, <2>1, Lives DEF LifeStep
<1>2. CASE r.state = "queued" /\ ~r.cancel /\ n = ClaimedRow(r)
  <2>1. /\ n.state = "running" /\ n.attempts = r.attempts + 1
        /\ n.cancel = r.cancel /\ Limit(n) = Limit(r)
    BY <1>2 DEF ClaimedRow, Limit, Safe, Row
  <2>2. r.attempts < Limit(r)
    BY <1>2 DEF RowInv, Limit, Safe, Row
  <2> QED BY <1>0, <1>2, <2>1, <2>2, Lives DEF LifeStep
<1>3. ASSUME r.state \in Active, NEW s \in Active \cup Terminal, n = MovedRow(r, s)
      PROVE  LifeStep(Abstract(r), Abstract(n))
  <2>1. /\ n.state = StateAfter(r, s) /\ n.attempts = r.attempts
        /\ n.cancel = r.cancel /\ Limit(n) = Limit(r)
    BY <1>3 DEF MovedRow, Limit, Safe, Row
  <2>2. CASE s \in Active
    <3>1. n.state \in Active
      BY <2>1, <2>2 DEF StateAfter
    <3> QED BY <1>0, <1>3, <2>1, <3>1, Lives DEF LifeStep
  <2>3. CASE s = "completed" /\ ~r.cancel
    <3>1. n.state = "completed"
      BY <2>1, <2>3 DEF StateAfter
    <3> QED BY <1>0, <1>3, <2>1, <2>3, <3>1, Lives DEF LifeStep
  <2>4. CASE s \in Terminal /\ ~(s = "completed" /\ ~r.cancel)
    <3>1. n.state \in Terminal \ {"completed"}
      BY <2>1, <2>4 DEF StateAfter
    <3> QED BY <1>0, <1>3, <2>1, <3>1, Lives DEF LifeStep
  <2> QED BY <1>3, <2>2, <2>3, <2>4
<1>4. CASE r.state \in Active /\ n = InterruptedRow(r)
  <2>1. /\ n.state = InterruptedState(r) /\ n.attempts = r.attempts
        /\ n.cancel = r.cancel /\ Limit(n) = Limit(r)
    BY <1>4 DEF InterruptedRow, Limit, Safe, Row
  <2>2. CASE Retries(r)
    <3>1. n.state = "queued" /\ ~r.cancel /\ r.attempts < Limit(r)
      BY <2>1, <2>2 DEF Retries, InterruptedState, Limit
    <3> QED BY <1>0, <1>4, <2>1, <3>1, Lives DEF LifeStep
  <2>3. CASE ~Retries(r)
    <3>1. n.state \in {"needs_review", "cancelled", "failed"}
      BY <2>1, <2>3 DEF InterruptedState
    <3> QED BY <1>0, <1>4, <2>1, <3>1, Lives DEF LifeStep
  <2> QED BY <2>2, <2>3
<1>5. CASE Live(r) /\ n = CancelledRow(r)
  <2>1. /\ n.attempts = r.attempts /\ n.cancel = TRUE /\ Limit(n) = Limit(r)
        /\ n.state = IF r.state = "queued" THEN "cancelled" ELSE r.state
    BY <1>5 DEF CancelledRow, Limit, Safe, Row
  <2>2. CASE r.state = "queued"
    BY <1>0, <2>1, <2>2, Lives DEF LifeStep
  <2>3. CASE r.state \in Active
    BY <1>0, <2>1, <2>3, Lives DEF LifeStep
  <2> QED BY <1>5, <2>2, <2>3 DEF Live, Row, States
<1> QED BY <1>1, <1>2, <1>3, <1>4, <1>5 DEF RowStep

(* The mapped table is a sequence, as long as the table.                   *)
LEMMA LivesTyped ==
    ASSUME NEW tbl \in Seq(Row), NEW l, l = [t \in DOMAIN tbl |-> Abstract(tbl[t])]
    PROVE  /\ l \in Seq(Life!Task)
           /\ DOMAIN l = DOMAIN tbl /\ Len(l) = Len(tbl)
           /\ \A t \in DOMAIN tbl : l[t] = Abstract(tbl[t])
<1>1. \A t \in DOMAIN tbl : Abstract(tbl[t]) \in Life!Task
  BY Lives
<1>2. DOMAIN tbl = 1..Len(tbl) /\ Len(tbl) \in Nat
  OBVIOUS
<1>3. l \in Seq(Life!Task)
  BY <1>1, <1>2
<1> QED BY <1>2, <1>3

(* A change of one life is a step of TaskLife, or none.                    *)
LEMMA LifeStepAllowed ==
    ASSUME lives \in Seq(Life!Task), NEW t \in DOMAIN lives, NEW b \in Life!Task,
           LifeStep(lives[t], b), lives' = [lives EXCEPT ![t] = b]
    PROVE  lives' = lives \/ Life!Step(t)
<1> HIDE DEF lives
<1> DEFINE a == lives[t]
<1>0. a \in Life!Task
  OBVIOUS
<1> USE DEF Life!Step, Life!Becomes
<1>1. CASE /\ a.phase = "pending" /\ b.phase = "active" /\ ~a.flagged /\ ~b.flagged
           /\ a.starts < a.limit /\ b.starts = a.starts + 1 /\ b.limit = a.limit
  <2>1. b = [a EXCEPT !.phase = "active", !.starts = @ + 1]
    BY <1>0, <1>1 DEF Life!Task
  <2> QED BY <1>1, <2>1 DEF Life!Start
<1>2. CASE /\ a.phase = "active" /\ b.phase = "pending" /\ ~a.flagged /\ ~b.flagged
           /\ a.starts < a.limit /\ b.starts = a.starts /\ b.limit = a.limit
  <2>1. b = [a EXCEPT !.phase = "pending"]
    BY <1>0, <1>2 DEF Life!Task
  <2> QED BY <1>2, <2>1 DEF Life!Repeat
<1>3. CASE /\ a.phase = "active" /\ b.phase = "succeeded" /\ ~a.flagged /\ ~b.flagged
           /\ b.starts = a.starts /\ b.limit = a.limit
  <2>1. b = [a EXCEPT !.phase = "succeeded"]
    BY <1>0, <1>3 DEF Life!Task
  <2> QED BY <1>3, <2>1 DEF Life!Succeed
<1>4. CASE /\ a.phase = "active" /\ b.phase = "ended" /\ b.flagged = a.flagged
           /\ b.starts = a.starts /\ b.limit = a.limit
  <2>1. b = [a EXCEPT !.phase = "ended"]
    BY <1>0, <1>4 DEF Life!Task
  <2> QED BY <1>4, <2>1 DEF Life!Give
<1>5. CASE /\ \/ a.phase = "active" /\ b.phase = "active"
              \/ a.phase = "pending" /\ b.phase = "ended"
           /\ b.flagged /\ b.starts = a.starts /\ b.limit = a.limit
  <2>1. b = [a EXCEPT !.flagged = TRUE, !.phase = IF @ = "pending" THEN "ended" ELSE @]
    BY <1>0, <1>5 DEF Life!Task
  <2> QED BY <1>5, <2>1 DEF Life!Flag
<1>6. CASE /\ b.phase = a.phase /\ b.flagged = a.flagged
           /\ b.starts = a.starts /\ b.limit = a.limit
  <2>1. b = a
    BY <1>0, <1>6 DEF Life!Task
  <2> QED BY <2>1
<1> QED BY <1>1, <1>2, <1>3, <1>4, <1>5, <1>6 DEF LifeStep

LEMMA NextIsLife ==
    ASSUME TypeOK, TypeOK', RowsInv, TableStep
    PROVE  [Life!Next]_lives
<1>0. tasks \in Seq(Row) /\ tasks' \in Seq(Row)
  BY DEF TypeOK
<1>1. /\ lives \in Seq(Life!Task) /\ DOMAIN lives = DOMAIN tasks /\ Len(lives) = Len(tasks)
      /\ \A t \in DOMAIN tasks : lives[t] = Abstract(tasks[t])
  BY <1>0, LivesTyped DEF lives
<1>2. /\ lives' \in Seq(Life!Task) /\ DOMAIN lives' = DOMAIN tasks' /\ Len(lives') = Len(tasks')
      /\ \A t \in DOMAIN tasks' : lives'[t] = Abstract(tasks'[t])
  BY <1>0, LivesTyped DEF lives
<1>3. CASE UNCHANGED tasks
  BY <1>3 DEF lives
<1>4. ASSUME NEW r, FreshRow(r), tasks' = Append(tasks, r) PROVE Life!Next
  <2>1. PICK n \in 1..5 : Abstract(r) = Life!Fresh(n)
    BY <1>4, FreshLife
  <2>2. Life!Fresh(n) \in Life!Task
    BY <1>4, <2>1, Lives DEF FreshRow
  <2>3. lives' = Append(lives, Life!Fresh(n))
    <3>1. /\ DOMAIN tasks' = DOMAIN tasks \cup {Len(tasks) + 1} /\ Len(tasks') = Len(tasks) + 1
          /\ tasks'[Len(tasks) + 1] = r /\ \A j \in DOMAIN tasks : tasks'[j] = tasks[j]
      BY <1>0, <1>4 DEF FreshRow
    <3> HIDE DEF lives
    <3> QED BY <1>0, <1>1, <1>2, <2>1, <2>2, <3>1
  <2> QED BY <2>3 DEF Life!Next, Life!Accept
<1>5. ASSUME NEW t \in DOMAIN tasks, NEW n, RowStep(tasks[t], n),
             tasks' = [tasks EXCEPT ![t] = n]
      PROVE  [Life!Next]_lives
  <2>1. n \in Row
    BY <1>5, RowsAreRows, RowStepTyped
  <2>2. LifeStep(lives[t], Abstract(n))
    BY <1>1, <1>5, RowsAreRows, RowStepLife DEF RowsInv
  <2>3. DOMAIN tasks' = DOMAIN tasks /\ tasks'[t] = n /\ \A j \in DOMAIN tasks \ {t} : tasks'[j] = tasks[j]
    BY <1>0, <1>5, <2>1, UpdateRow
  <2> HIDE DEF lives
  <2>4. lives' = [lives EXCEPT ![t] = Abstract(n)]
    BY <1>1, <1>2, <2>3
  <2>5. lives' = lives \/ Life!Step(t)
    BY <1>1, <2>1, <2>2, <2>4, Lives, LifeStepAllowed
  <2> QED BY <1>1, <2>5 DEF Life!Next
<1> QED BY <1>3, <1>4, <1>5 DEF TableStep

(* The queue keeps the promise of TaskLife about every task: started at    *)
(* most as often as it may be repeated, never once cancelled, ended once,  *)
(* and successful only if nobody cancelled it.                             *)
THEOREM QueueImplementsTaskLife == Spec => ImplementsTaskLife
<1>1. Init => Life!Init
  <2> SUFFICES ASSUME Init PROVE Life!Init
    OBVIOUS
  <2>1. CASE tasks = <<>>
    BY <2>1 DEF lives, Life!Init
  <2>2. ASSUME NEW r \in LegacyRows, tasks = <<r>> PROVE Life!Init
    <3>1. FreshRow(r)
      BY DEF FreshRow
    <3>2. PICK n \in 1..5 : Abstract(r) = Life!Fresh(n)
      BY <3>1, FreshLife
    <3>3. lives = <<Life!Fresh(n)>>
      BY <2>2, <3>2 DEF lives
    <3> QED BY <3>3 DEF Life!Init
  <2> QED BY <2>1, <2>2 DEF Init
<1>2. TypeOK /\ TypeOK' /\ RowsInv /\ [Next]_vars => [Life!Next]_lives
  BY TaskSteps, NextIsLife
<1> QED BY <1>1, <1>2, TypeCorrect, RowsInvAlways, PTL DEF Spec, ImplementsTaskLife, Life!Spec
============================================================================
