--------------------------- MODULE ServiceProofs ---------------------------
(***************************************************************************)
(* Proofs about the service: curiosity keeps to its allowance, explores    *)
(* one thing at a time, and the owner's word reaches it (Curiosity,        *)
(* CuriosityPromises), for any terminals, goals, times, limits and bounds; *)
(* one runtime works at a time, and a stop that it heard stands            *)
(* (ServiceControl).                                                       *)
(***************************************************************************)
EXTENDS CuriosityPromises, ServiceControl, FiniteSetTheorems, SequenceTheorems, TLAPS

----------------------------------------------------------------------------
(* What a step does to the table of tasks.                                 *)

(* A task that is not resumable is interrupted for review and never fails. *)
Unfailing(r) == ~r.resumable /\ r.state # "failed"

(* A row after any update: the same task, never revived or uncancelled.    *)
Follows(r, s) ==
    /\ s.kind = r.kind /\ s.parent = r.parent /\ s.goal = r.goal
    /\ Unfailing(r) => Unfailing(s)
    /\ r.cancel => s.cancel
    /\ Live(s) => Live(r)

Stays ==
    /\ DOMAIN tasks' = DOMAIN tasks
    /\ \A t \in DOMAIN tasks : Follows(tasks[t], tasks'[t])

Grows(kind, goal, parent) ==
    LET new == Len(tasks) + 1 IN
    /\ DOMAIN tasks' = DOMAIN tasks \cup {new} /\ new \notin DOMAIN tasks
    /\ \A t \in DOMAIN tasks : tasks'[t] = tasks[t] /\ t < new
    /\ tasks'[new].kind = kind /\ tasks'[new].goal = goal /\ tasks'[new].parent = parent
    /\ Live(tasks'[new]) /\ ~tasks'[new].cancel /\ Unfailing(tasks'[new])

CancelsKept == \A t \in DOMAIN tasks : tasks'[t].cancel = tasks[t].cancel

(* One task is updated, or one is inserted by one of the four that insert.  *)
TasksStep ==
    \/ Stays /\ (CancelsKept \/ \E c \in Terminals : CancelTask(c))
    \/ EnqueueSession /\ Grows("curiosity", NoGoal, NoTask)
    \/ Dispatch /\ Grows("conversation", NoGoal, NoTask)
    \/ \E t \in DOMAIN tasks : QueueResearch(t) /\ Grows("research", NoGoal, t)
    \/ \E g \in GoalIds : EnqueueGoal(g) /\ Grows("executive", g, NoTask)

LEMMA RowUpdates ==
    ASSUME NEW r \in Row
    PROVE  /\ ClaimedRow(r) \in Row /\ CancelledRow(r) \in Row /\ InterruptedRow(r) \in Row
           /\ ClaimedRow(r).cancel = r.cancel /\ InterruptedRow(r).cancel = r.cancel
           /\ \A s \in States : MovedRow(r, s).cancel = r.cancel
           /\ r.state = "queued" => Follows(r, ClaimedRow(r))
           /\ Live(r) => Follows(r, CancelledRow(r))
           /\ r.state \in Active => Follows(r, InterruptedRow(r))
           /\ \A s \in Terminal \ {"failed"} : MovedRow(r, s) \in Row /\ Follows(r, MovedRow(r, s))
<1>1. InterruptedState(r) \in States
  BY DEF InterruptedState, States, Terminal
<1>2. \A s \in Terminal \ {"failed"} : StateAfter(r, s) \in Terminal \ {"failed"}
  BY DEF StateAfter, Terminal
<1>3. ClaimedRow(r) \in Row /\ CancelledRow(r) \in Row
  <2>1. ClaimedRow(r) \in Row
    <3>1. \A s \in States, n \in Nat : [r EXCEPT !.state = s, !.attempts = n] \in Row
      BY DEF Row
    <3>2. r.attempts + 1 \in Nat /\ "running" \in States
      BY DEF Row, States, Active
    <3>3. ClaimedRow(r) = [r EXCEPT !.state = "running", !.attempts = r.attempts + 1]
      BY DEF ClaimedRow
    <3> HIDE DEF Row
    <3> QED BY <3>1, <3>2, <3>3
  <2>2. \A s \in States : [r EXCEPT !.cancel = TRUE, !.state = s] \in Row
    BY DEF Row
  <2>3. (IF r.state = "queued" THEN "cancelled" ELSE r.state) \in States
    BY DEF Row, States, Terminal
  <2> QED BY <2>1, <2>2, <2>3 DEF CancelledRow
<1>4. InterruptedRow(r) \in Row
  BY <1>1 DEF Row, InterruptedRow
<1>5. \A s \in Terminal \ {"failed"} : MovedRow(r, s) \in Row
  BY <1>2 DEF Row, MovedRow, States
<1>6. r.state = "queued" => Follows(r, ClaimedRow(r))
  BY DEF Row, ClaimedRow, Follows, Live, Terminal, Unfailing
<1>7. Live(r) => Follows(r, CancelledRow(r))
  <2>1. CancelledRow(r).kind = r.kind /\ CancelledRow(r).parent = r.parent /\ CancelledRow(r).goal = r.goal
        /\ CancelledRow(r).cancel
    BY DEF Row, CancelledRow
  <2>2. Unfailing(r) => Unfailing(CancelledRow(r))
    BY DEF Row, CancelledRow, Unfailing
  <2> QED BY <2>1, <2>2 DEF Follows
<1>8. r.state \in Active => Follows(r, InterruptedRow(r))
  <2>1. Unfailing(r) => Unfailing(InterruptedRow(r))
    BY DEF Row, InterruptedRow, InterruptedState, Safe, Unfailing
  <2>2. InterruptedRow(r).kind = r.kind /\ InterruptedRow(r).parent = r.parent /\ InterruptedRow(r).goal = r.goal
        /\ InterruptedRow(r).cancel = r.cancel
    BY DEF Row, InterruptedRow
  <2> QED BY <2>1, <2>2 DEF Follows, Live, Active, Terminal
<1>9. \A s \in Terminal \ {"failed"} : Follows(r, MovedRow(r, s))
  BY <1>2 DEF Row, MovedRow, Follows, Live, Unfailing
<1>10. /\ ClaimedRow(r).cancel = r.cancel /\ InterruptedRow(r).cancel = r.cancel
       /\ \A s \in States : MovedRow(r, s).cancel = r.cancel
  BY DEF Row, ClaimedRow, InterruptedRow, MovedRow
<1> QED BY <1>3, <1>4, <1>5, <1>6, <1>7, <1>8, <1>9, <1>10

LEMMA Updated ==
    ASSUME TypeOK, NEW t \in DOMAIN tasks, NEW r \in Row, Follows(tasks[t], r),
           tasks' = [tasks EXCEPT ![t] = r]
    PROVE  tasks' \in Seq(Row) /\ Len(tasks') = Len(tasks) /\ Stays
           /\ (r.cancel = tasks[t].cancel => CancelsKept)
<1>1. tasks \in Seq(Row)
  BY DEF TypeOK
<1>2. tasks' \in Seq(Row) /\ Len(tasks') = Len(tasks) /\ DOMAIN tasks' = DOMAIN tasks
  BY <1>1
<1>3. \A u \in DOMAIN tasks : tasks'[u] = (IF u = t THEN r ELSE tasks[u])
  BY <1>1
<1> QED BY <1>2, <1>3 DEF Stays, Follows, Unfailing, CancelsKept

LEMMA Unmoved == UNCHANGED tasks => Stays /\ CancelsKept
BY DEF Stays, CancelsKept, Follows, Unfailing

LEMMA Inserted ==
    ASSUME TypeOK, NEW kind \in KINDS, NEW p \in {5, 50, 100}, NEW goal \in GoalIds \cup {NoGoal},
           NEW parent \in Nat, Insert(kind, p, goal, parent)
    PROVE  /\ tasks' \in Seq(Row) /\ Len(tasks') <= MaxTasks /\ Len(tasks') = Len(tasks) + 1
           /\ Grows(kind, goal, parent)
<1> DEFINE r == NewRow([kind |-> kind, priority |-> p, max |-> 1, resumable |-> FALSE,
                        readOnly |-> FALSE], goal, parent)
<1>1. /\ r \in Row /\ r.kind = kind /\ r.goal = goal /\ r.parent = parent /\ r.state = "queued" /\ ~r.cancel /\ ~r.resumable
  BY CuriosityPriorities DEF NewRow, Row, NoGoal, States
<1>2. tasks \in Seq(Row) /\ tasks' = Append(tasks, r) /\ Len(tasks) < MaxTasks /\ MaxTasks \in Nat
  BY CuriosityBounds DEF TypeOK, Insert
<1> HIDE DEF r
<1>3. tasks' \in Seq(Row) /\ Len(tasks') = Len(tasks) + 1 /\ DOMAIN tasks' = 1..(Len(tasks) + 1)
      /\ DOMAIN tasks = 1..Len(tasks) /\ Len(tasks) \in Nat
  BY <1>1, <1>2
<1>4. tasks'[Len(tasks) + 1] = r /\ \A t \in DOMAIN tasks : tasks'[t] = tasks[t]
  BY <1>1, <1>2
<1>5. Grows(kind, goal, parent)
  BY <1>1, <1>3, <1>4 DEF Grows, Live, Terminal, Unfailing
<1> QED BY <1>2, <1>3, <1>5

(* A message is answered by a task that exists.                            *)
InboxOK == \A m \in DOMAIN inbox : inbox[m].task \in {NoTask} \cup DOMAIN tasks

LEMMA TasksAfter ==
    ASSUME TypeOK, InboxOK, [Next]_curiosityVars
    PROVE  tasks' \in Seq(Row) /\ Len(tasks') <= MaxTasks /\ TasksStep
<1>1. tasks \in Seq(Row) /\ Len(tasks) <= MaxTasks /\ \A t \in DOMAIN tasks : tasks[t] \in Row
  BY DEF TypeOK
<1>2. ASSUME UNCHANGED tasks PROVE tasks' \in Seq(Row) /\ Len(tasks') <= MaxTasks /\ TasksStep
  BY <1>1, <1>2, Unmoved DEF TasksStep
<1>3. CASE EnqueueSession
  BY <1>3, Inserted DEF EnqueueSession, TasksStep, KINDS, NoTask
<1>4. CASE Dispatch
  <2>1. Insert("conversation", 100, NoGoal, NoTask)
    BY <1>4 DEF Dispatch
  <2> QED BY <1>4, <2>1, Inserted DEF TasksStep, KINDS, NoTask
<1>5. ASSUME NEW t \in DOMAIN tasks, QueueResearch(t)
      PROVE  tasks' \in Seq(Row) /\ Len(tasks') <= MaxTasks /\ TasksStep
  <2>1. Insert("research", 5, NoGoal, t) /\ t \in Nat
    BY <1>1, <1>5 DEF QueueResearch
  <2> QED BY <1>5, <2>1, Inserted DEF TasksStep, KINDS
<1>14. ASSUME NEW g \in GoalIds, EnqueueGoal(g)
       PROVE  tasks' \in Seq(Row) /\ Len(tasks') <= MaxTasks /\ TasksStep
  <2>1. Insert("executive", 50, g, NoTask)
    BY <1>14 DEF EnqueueGoal
  <2> QED BY <1>14, <2>1, Inserted DEF TasksStep, KINDS, NoTask
<1>6. ASSUME NEW t \in DOMAIN tasks, Claim(t) \/ Complete(t) \/ Interrupt(t)
      PROVE  \E r \in Row : Follows(tasks[t], r) /\ r.cancel = tasks[t].cancel /\ tasks' = [tasks EXCEPT ![t] = r]
  <2>1. CASE Claim(t)
    <3>1. tasks[t].state = "queued" /\ tasks' = [tasks EXCEPT ![t] = ClaimedRow(tasks[t])]
      BY <2>1 DEF Claim, GoesFirst, Claimable
    <3> QED BY <1>1, <3>1, RowUpdates
  <2>2. CASE Complete(t)
    <3>1. tasks' = [tasks EXCEPT ![t] = MovedRow(tasks[t], "completed")]
      BY <2>2 DEF Complete, Move
    <3> QED BY <1>1, <3>1, RowUpdates DEF Terminal, States
  <2>3. CASE Interrupt(t)
    <3>1. tasks[t].state \in Active /\ tasks' = [tasks EXCEPT ![t] = InterruptedRow(tasks[t])]
      BY <2>3 DEF Interrupt
    <3> QED BY <1>1, <3>1, RowUpdates
  <2> QED BY <1>6, <2>1, <2>2, <2>3
<1>7. ASSUME NEW m \in DOMAIN inbox, Reply(m), tasks' # tasks
      PROVE  \E t \in DOMAIN tasks, r \in Row : Follows(tasks[t], r) /\ r.cancel = tasks[t].cancel
                                             /\ tasks' = [tasks EXCEPT ![t] = r]
  <2> DEFINE t == inbox[m].task
             s == inbox[m].state
  <2>1. t # NoTask /\ s # "pending" /\ tasks' = [tasks EXCEPT ![t] = MovedRow(tasks[t], s)]
    BY <1>7 DEF Reply, Move
  <2>2. t \in DOMAIN tasks
    BY <2>1 DEF InboxOK
  <2>3. s \in Terminal \ {"failed"}
    <3>1. inbox[m] \in Message
      BY DEF TypeOK
    <3> QED BY <2>1, <3>1 DEF Message, Terminal
  <2> HIDE DEF t, s
  <2> QED BY <1>1, <2>1, <2>2, <2>3, RowUpdates DEF States
<1>8. ASSUME NEW c \in Terminals, CancelTask(c), tasks' # tasks
      PROVE  \E t \in DOMAIN tasks, r \in Row : Follows(tasks[t], r) /\ tasks' = [tasks EXCEPT ![t] = r]
  <2>1. PICK t \in sweep[c].todo : Live(tasks[t]) /\ tasks' = [tasks EXCEPT ![t] = CancelledRow(tasks[t])]
    BY <1>8 DEF CancelTask
  <2>2. t \in DOMAIN tasks
    BY DEF TypeOK
  <2> QED BY <1>1, <2>1, <2>2, RowUpdates
<1>9. ASSUME NEW t \in DOMAIN tasks, NEW r \in Row, Follows(tasks[t], r), tasks' = [tasks EXCEPT ![t] = r],
             r.cancel = tasks[t].cancel \/ \E c \in Terminals : CancelTask(c)
      PROVE  tasks' \in Seq(Row) /\ Len(tasks') <= MaxTasks /\ TasksStep
  BY <1>1, <1>9, Updated DEF TasksStep
<1>10. ASSUME NEW c \in Terminals, Submit(c) \/ Toggle(c) \/ ListSessions(c) \/ ListChildren(c) \/ Return(c)
       PROVE  UNCHANGED tasks
  BY <1>10 DEF Submit, Toggle, ListSessions, ListChildren, Return
<1>11. ASSUME Tick \/ BeginCheck \/ CheckInbox \/ CheckLive \/ CheckWindow \/ RecordSession \/ SyncFailures
              \/ Crash \/ Restart
       PROVE  UNCHANGED tasks
  BY <1>11 DEF Tick, BeginCheck, CheckInbox, CheckLive, CheckWindow, RecordSession, SyncFailures, Crash,
               Restart, Proceed
<1>12. CASE UNCHANGED curiosityVars
  BY <1>2, <1>12 DEF curiosityVars
<1>13. CASE Next
  BY <1>2, <1>3, <1>4, <1>5, <1>6, <1>7, <1>8, <1>9, <1>10, <1>11, <1>13, <1>14 DEF Next, CheckStep, TerminalStep
<1> QED BY <1>12, <1>13

----------------------------------------------------------------------------
(* The types of the rest, over the tasks that exist.                       *)

SessionsOf(D) == Seq([created : 0..MaxClock, task : D])

ChecksOf(D) == [at : {"off", "inbox", "live", "window", "enqueue", "record"},
                now : 0..MaxClock, task : {NoTask} \cup D]

SweepOf(D) == [at : {"off", "list", "cancel", "children", "done"},
               todo : SUBSET D, parent : {NoTask} \cup D, seen : 0..MaxTasks]

(* A message is answered by a task that exists.                            *)
MessageOf(D) == [state : {"pending", "completed", "needs_review", "cancelled"},
                 arrived : 0..MaxClock, task : {NoTask} \cup D]

InboxTyped(D) == inbox \in Seq(MessageOf(D)) /\ Len(inbox) <= MaxEvents

SmallTyped ==
    /\ enabled \in BOOLEAN /\ clock \in 0..MaxClock
    /\ runtime \in [up : BOOLEAN, started : 0..MaxClock]
    /\ toggles \in 0..MaxEvents /\ crashes \in 0..MaxEvents

(* A check holds a task between its insertion and its record.              *)
CheckTask == check.task # NoTask <=> check.at = "record"

Typed ==
    /\ tasks \in Seq(Row) /\ Len(tasks) <= MaxTasks
    /\ \A t \in DOMAIN tasks : Unfailing(tasks[t])
    /\ SmallTyped
    /\ InboxTyped(DOMAIN tasks)
    /\ sessions \in SessionsOf(DOMAIN tasks)
    /\ check \in ChecksOf(DOMAIN tasks)
    /\ CheckTask
    /\ sweep \in [Terminals -> SweepOf(DOMAIN tasks)]

LEMMA TypedIsTypeOK == Typed => TypeOK /\ InboxOK
<1> SUFFICES ASSUME Typed PROVE TypeOK /\ InboxOK
  OBVIOUS
<1>1. DOMAIN tasks \subseteq Nat /\ NoTask \in Nat
  BY DEF Typed, NoTask
<1>2. MessageOf(DOMAIN tasks) \subseteq Message
  BY <1>1 DEF MessageOf, Message
<1>3. inbox \in Seq(Message)
  BY <1>2 DEF Typed, InboxTyped
<1>4. InboxOK
  <2>1. \A m \in DOMAIN inbox : inbox[m] \in MessageOf(DOMAIN tasks)
    BY DEF Typed, InboxTyped
  <2> QED BY <2>1 DEF MessageOf, InboxOK
<1>5. Len(inbox) <= MaxEvents
  BY DEF Typed, InboxTyped
<1> QED BY <1>3, <1>4, <1>5 DEF Typed, SmallTyped, SessionsOf, ChecksOf, SweepOf, TypeOK

LEMMA MoreTasks ==
    ASSUME NEW D, NEW E, D \subseteq E
    PROVE  /\ MessageOf(D) \subseteq MessageOf(E) /\ ChecksOf(D) \subseteq ChecksOf(E)
           /\ SweepOf(D) \subseteq SweepOf(E) /\ SessionsOf(D) \subseteq SessionsOf(E)
<1>1. MessageOf(D) \subseteq MessageOf(E)
  BY DEF MessageOf
<1>2. ChecksOf(D) \subseteq ChecksOf(E)
  BY DEF ChecksOf
<1>3. SweepOf(D) \subseteq SweepOf(E)
  BY DEF SweepOf
<1>4. SessionsOf(D) \subseteq SessionsOf(E)
  <2>1. [created : 0..MaxClock, task : D] \subseteq [created : 0..MaxClock, task : E]
    OBVIOUS
  <2>2. ASSUME NEW s \in Seq([created : 0..MaxClock, task : D])
        PROVE  s \in Seq([created : 0..MaxClock, task : E])
    BY <2>1, SeqMonotonic
  <2> QED BY <2>2 DEF SessionsOf
<1> QED BY <1>1, <1>2, <1>3, <1>4

LEMMA TasksRemain == TypeOK /\ TasksStep => DOMAIN tasks \subseteq DOMAIN tasks'
BY DEF TasksStep, Stays, Grows

(* The scheduler's steps.                                                  *)
LEMMA CheckTyped ==
    ASSUME Typed, CheckStep, TasksStep
    PROVE  /\ check' \in ChecksOf(DOMAIN tasks') /\ CheckTask' /\ sessions' \in SessionsOf(DOMAIN tasks')
           /\ UNCHANGED <<inbox, enabled, clock, runtime, sweep, toggles, crashes>>
<1>1. PICK E : E = DOMAIN tasks'
  OBVIOUS
<1>2. DOMAIN tasks \subseteq E
  BY <1>1, TasksRemain, TypedIsTypeOK
<1>3. check \in ChecksOf(E) /\ sessions \in SessionsOf(E) /\ clock \in 0..MaxClock
  BY <1>2, MoreTasks DEF Typed, SmallTyped
<1>4. NoCheck \in ChecksOf(E) /\ NoCheck.task = NoTask /\ NoCheck.at = "off"
  BY <1>3, CuriosityBounds DEF NoCheck, ChecksOf
<1>5. ASSUME NEW may \in BOOLEAN, NEW next \in {"live", "window", "enqueue"}, Proceed(may, next),
             check.at # "record"
      PROVE  check' \in ChecksOf(E) /\ CheckTask' /\ UNCHANGED sessions
  BY <1>3, <1>4, <1>5 DEF Proceed, ChecksOf, Typed, CheckTask
<1>6. CASE BeginCheck
  <2>1. check' = [NoCheck EXCEPT !.at = "inbox", !.now = clock] /\ UNCHANGED sessions
    BY <1>6 DEF BeginCheck
  <2> QED BY <1>1, <1>3, <1>4, <1>6, <2>1 DEF ChecksOf, BeginCheck, CheckTask, NoCheck
<1>7. CASE CheckInbox \/ CheckLive \/ CheckWindow
  <2>1. check' \in ChecksOf(E) /\ CheckTask' /\ UNCHANGED sessions
    <3>1. CASE CheckInbox
      BY <1>5, <3>1 DEF CheckInbox
    <3>2. CASE CheckLive
      BY <1>5, <3>2 DEF CheckLive, LiveWork
    <3>3. CASE CheckWindow
      <4>1. check.at = "window" /\ \E may \in BOOLEAN : Proceed(may, "enqueue")
        BY <3>3 DEF CheckWindow
      <4> QED BY <1>5, <4>1
    <3> QED BY <1>7, <3>1, <3>2, <3>3
  <2>2. UNCHANGED <<inbox, enabled, clock, runtime, sweep, toggles, crashes>>
    BY <1>7 DEF CheckInbox, CheckLive, CheckWindow, Proceed
  <2> QED BY <1>1, <1>3, <2>1, <2>2
<1>8. CASE EnqueueSession
  <2>1. Insert("curiosity", 5, NoGoal, NoTask) /\ UNCHANGED sessions
        /\ check' = [check EXCEPT !.at = "record", !.task = Len(tasks')]
    BY <1>8 DEF EnqueueSession
  <2>2. Len(tasks') \in E
    <3>1. TypeOK /\ "curiosity" \in KINDS /\ NoTask \in Nat
      BY TypedIsTypeOK DEF KINDS, NoTask
    <3>2. tasks' \in Seq(Row) /\ Len(tasks') = Len(tasks) + 1
      BY <2>1, <3>1, Inserted
    <3>3. Len(tasks) \in Nat
      BY DEF Typed
    <3> QED BY <1>1, <3>2, <3>3
  <2>3. NoTask \notin E
    BY <1>1, TypedIsTypeOK, <2>2 DEF NoTask, TypeOK, Stays, TasksStep, Grows
  <2> QED BY <1>1, <1>3, <1>8, <2>1, <2>2, <2>3 DEF ChecksOf, EnqueueSession, CheckTask
<1>9. CASE RecordSession
  <2>1. check.at = "record" /\ check' = NoCheck
        /\ sessions' = Append(sessions, [created |-> check.now, task |-> check.task])
    BY <1>9 DEF RecordSession
  <2>2. [created |-> check.now, task |-> check.task] \in [created : 0..MaxClock, task : E]
    BY <1>2, <1>3, <2>1 DEF Typed, CheckTask, ChecksOf
  <2>3. sessions' \in SessionsOf(E)
    BY <1>3, <2>1, <2>2 DEF SessionsOf
  <2> QED BY <1>1, <1>4, <1>9, <2>1, <2>3 DEF RecordSession, CheckTask
<1> QED BY <1>6, <1>7, <1>8, <1>9 DEF CheckStep

(* The service's other steps, and the workers'.                            *)
LEMMA ServiceTyped ==
    ASSUME Typed, TasksStep,
           \/ Tick \/ Dispatch \/ SyncFailures \/ Crash \/ Restart
           \/ \E t \in DOMAIN tasks : Claim(t) \/ QueueResearch(t) \/ Complete(t) \/ Interrupt(t)
           \/ \E m \in DOMAIN inbox : Reply(m)
           \/ \E g \in GoalIds : EnqueueGoal(g)
    PROVE  /\ InboxTyped(DOMAIN tasks)' /\ SmallTyped' /\ (UNCHANGED check \/ check' = NoCheck)
           /\ UNCHANGED <<sessions, sweep>>
<1>1. PICK E : E = DOMAIN tasks'
  OBVIOUS
<1>2. DOMAIN tasks \subseteq E
  BY <1>1, TasksRemain, TypedIsTypeOK
<1>3. inbox \in Seq(MessageOf(E)) /\ Len(inbox) <= MaxEvents
  BY <1>2, MoreTasks, SeqMonotonic DEF Typed, InboxTyped
<1>4. SmallTyped /\ MaxClock \in Nat /\ MaxEvents \in Nat
  BY CuriosityBounds DEF Typed
<1>5. CASE Tick
  BY <1>1, <1>3, <1>4, <1>5 DEF Tick, SmallTyped, InboxTyped
<1>6. CASE Dispatch
  <2>1. PICK m \in DOMAIN inbox : /\ Insert("conversation", 100, NoGoal, NoTask)
                                  /\ inbox' = [inbox EXCEPT ![m].task = Len(tasks')]
                                  /\ UNCHANGED <<enabled, sessions, clock, runtime, check, sweep, toggles, crashes>>
    BY <1>6 DEF Dispatch
  <2>2. Len(tasks') \in E
    <3>1. TypeOK /\ "conversation" \in KINDS /\ NoTask \in Nat
      BY TypedIsTypeOK DEF KINDS, NoTask
    <3>2. tasks' \in Seq(Row) /\ Len(tasks') = Len(tasks) + 1
      BY <2>1, <3>1, Inserted
    <3>3. Len(tasks) \in Nat
      BY DEF Typed
    <3> QED BY <1>1, <3>2, <3>3
  <2>3. PICK n \in MessageOf(E) : n = [inbox[m] EXCEPT !.task = Len(tasks')]
    <3>1. inbox[m] \in MessageOf(E)
      BY <1>3
    <3> QED BY <2>2, <3>1 DEF MessageOf
  <2>4. inbox' = [inbox EXCEPT ![m] = n]
    BY <2>1, <2>3
  <2>5. inbox' \in Seq(MessageOf(E)) /\ Len(inbox') = Len(inbox)
    BY <1>3, <2>3, <2>4
  <2> QED BY <1>1, <1>3, <1>4, <2>1, <2>5 DEF SmallTyped, InboxTyped
<1>7. CASE SyncFailures
  <2> DEFINE new(m) == IF m \in Failed THEN [inbox[m] EXCEPT !.state = tasks[inbox[m].task].state] ELSE inbox[m]
  <2>1. ASSUME NEW m \in 1..Len(inbox) PROVE new(m) \in MessageOf(E)
    <3>1. inbox[m] \in MessageOf(E)
      BY <1>3
    <3>2. m \in Failed => tasks[inbox[m].task].state \in {"failed", "cancelled", "needs_review"}
      BY DEF Failed, Terminal
    <3>3. m \in Failed => tasks[inbox[m].task].state # "failed"
      <4>1. inbox[m].task \in {NoTask} \cup DOMAIN tasks
        BY TypedIsTypeOK, <1>3 DEF InboxOK
      <4> QED BY <4>1 DEF Failed, Typed, Unfailing
    <3> QED BY <3>1, <3>2, <3>3 DEF MessageOf
  <2>2. inbox' = [m \in 1..Len(inbox) |-> new(m)] /\ Len(inbox) \in Nat
        /\ UNCHANGED <<enabled, sessions, clock, runtime, check, sweep, toggles, crashes>>
    BY <1>3, <1>7 DEF SyncFailures
  <2> HIDE DEF new
  <2>3. inbox' \in [1..Len(inbox) -> MessageOf(E)]
    BY <2>1, <2>2
  <2>4. inbox' \in Seq(MessageOf(E)) /\ Len(inbox') = Len(inbox)
    BY <2>2, <2>3, SeqDef
  <2> QED BY <1>1, <1>3, <1>4, <2>2, <2>4 DEF SmallTyped, InboxTyped
<1>8. CASE Crash
  <2>1. crashes + 1 \in 0..MaxEvents
    BY <1>3, <1>4, <1>8 DEF Crash, Another, SmallTyped
  <2>2. [runtime EXCEPT !.up = FALSE] \in [up : BOOLEAN, started : 0..MaxClock]
    BY <1>4 DEF SmallTyped
  <2> QED BY <1>1, <1>3, <1>4, <1>8, <2>1, <2>2 DEF Crash, SmallTyped, InboxTyped
<1>9. CASE Restart
  BY <1>1, <1>3, <1>4, <1>9 DEF Restart, SmallTyped, InboxTyped
<1>10. ASSUME NEW t \in DOMAIN tasks, Claim(t) \/ QueueResearch(t) \/ Complete(t) \/ Interrupt(t)
       PROVE  UNCHANGED <<inbox, enabled, sessions, clock, runtime, check, sweep, toggles, crashes>>
  BY <1>10 DEF Claim, QueueResearch, Complete, Interrupt
<1>11. ASSUME NEW m \in DOMAIN inbox, Reply(m)
       PROVE  inbox' \in Seq(MessageOf(E)) /\ Len(inbox') = Len(inbox)
              /\ UNCHANGED <<enabled, sessions, clock, runtime, check, sweep, toggles, crashes>>
  <2>1. CASE UNCHANGED inbox
    BY <1>3, <1>11, <2>1 DEF Reply
  <2>2. CASE ~UNCHANGED inbox
    <3>1. PICK s \in {"completed", "needs_review"} : inbox' = [inbox EXCEPT ![m].state = s]
      BY <1>11, <2>2 DEF Reply
    <3>2. PICK n \in MessageOf(E) : n = [inbox[m] EXCEPT !.state = s]
      <4>1. inbox[m] \in MessageOf(E)
        BY <1>3
      <4> QED BY <4>1 DEF MessageOf
    <3>3. inbox' = [inbox EXCEPT ![m] = n]
      BY <3>1, <3>2
    <3> QED BY <1>3, <1>11, <3>2, <3>3 DEF Reply
  <2> QED BY <2>1, <2>2
<1>13. ASSUME NEW g \in GoalIds, EnqueueGoal(g)
       PROVE  UNCHANGED <<inbox, enabled, sessions, clock, runtime, check, sweep, toggles, crashes>>
  BY <1>13 DEF EnqueueGoal
<1>12. (\E t \in DOMAIN tasks : Claim(t) \/ QueueResearch(t) \/ Complete(t) \/ Interrupt(t))
       \/ (\E m \in DOMAIN inbox : Reply(m))
       \/ (\E g \in GoalIds : EnqueueGoal(g))
       => inbox' \in Seq(MessageOf(E)) /\ Len(inbox') = Len(inbox)
          /\ UNCHANGED <<enabled, sessions, clock, runtime, check, sweep, toggles, crashes>>
  BY <1>3, <1>10, <1>11, <1>13
<1> QED BY <1>1, <1>3, <1>4, <1>5, <1>6, <1>7, <1>8, <1>9, <1>12 DEF SmallTyped, InboxTyped

(* What a terminal's step does to its own sweep.                           *)
LEMMA TerminalTyped ==
    ASSUME Typed, TasksStep, NEW c \in Terminals, TerminalStep(c)
    PROVE  /\ InboxTyped(DOMAIN tasks)' /\ SmallTyped' /\ UNCHANGED sessions
           /\ UNCHANGED check
           /\ \E s \in SweepOf(DOMAIN tasks') : sweep' = [sweep EXCEPT ![c] = s]
<1>1. PICK E : E = DOMAIN tasks'
  OBVIOUS
<1>2. DOMAIN tasks \subseteq E
  BY <1>1, TasksRemain, TypedIsTypeOK
<1>3. inbox \in Seq(MessageOf(E)) /\ Len(inbox) <= MaxEvents /\ Len(inbox) \in Nat
  BY <1>2, MoreTasks, SeqMonotonic DEF Typed, InboxTyped
<1>4. SmallTyped /\ MaxClock \in Nat /\ MaxEvents \in Nat /\ MaxTasks \in Nat
  BY CuriosityBounds DEF Typed
<1>5. sweep \in [Terminals -> SweepOf(E)] /\ sweep[c] \in SweepOf(E) /\ sweep[c] \in SweepOf(DOMAIN tasks)
  BY <1>2, MoreTasks DEF Typed
<1>6. ASSUME NEW a \in {"off", "list", "cancel", "children", "done"}, NEW D \in SUBSET E,
             NEW p \in {NoTask} \cup E, NEW n \in 0..MaxTasks
      PROVE  [at |-> a, todo |-> D, parent |-> p, seen |-> n] \in SweepOf(E)
  BY DEF SweepOf
<1>7. ASSUME Intervene(c)
      PROVE  \E s \in SweepOf(E) : sweep' = [sweep EXCEPT ![c] = s]
  <2>1. PICK s \in SweepOf(E) : s = [at |-> "list", todo |-> {}, parent |-> NoTask, seen |-> 0]
    <3>1. 0 \in 0..MaxTasks
      BY <1>4
    <3>2. [at |-> "list", todo |-> {}, parent |-> NoTask, seen |-> 0] \in SweepOf(E)
      BY <1>6, <3>1
    <3> QED BY <3>2
  <2>2. s = [NoSweep EXCEPT !.at = "list"]
    <3>1. [NoSweep EXCEPT !.at = "list"] = [at |-> "list", todo |-> {}, parent |-> NoTask, seen |-> 0]
      BY DEF NoSweep
    <3> QED BY <2>1, <3>1
  <2> QED BY <1>7, <2>2 DEF Intervene
<1>8. \E s \in SweepOf(E) : sweep' = [sweep EXCEPT ![c] = s]
  <2>1. CASE UNCHANGED sweep
    BY <1>5, <2>1
  <2>2. CASE Submit(c) \/ (Toggle(c) /\ ~UNCHANGED sweep)
    BY <1>7, <2>2 DEF Submit, Toggle
  <2>3. CASE ListSessions(c)
    <3> DEFINE D == {t \in DOMAIN tasks : Live(tasks[t]) /\ SelfDirected(tasks[t])}
    <3>1. sweep' = [sweep EXCEPT ![c] = [at |-> "cancel", parent |-> NoTask, seen |-> Len(tasks), todo |-> D]]
      BY <2>3 DEF ListSessions
    <3>2. D \in SUBSET E /\ Len(tasks) \in 0..MaxTasks
      BY <1>2, <1>4 DEF Typed
    <3> HIDE DEF D
    <3>3. [at |-> "cancel", todo |-> D, parent |-> NoTask, seen |-> Len(tasks)] \in SweepOf(E)
      BY <1>6, <3>2
    <3>4. [at |-> "cancel", todo |-> D, parent |-> NoTask, seen |-> Len(tasks)]
          = [at |-> "cancel", parent |-> NoTask, seen |-> Len(tasks), todo |-> D]
      OBVIOUS
    <3> QED BY <3>1, <3>3, <3>4
  <2>4. CASE CancelTask(c)
    <3>1. PICK t \in sweep[c].todo :
                 \/ sweep' = [sweep EXCEPT ![c].at = "children", ![c].parent = t, ![c].todo = @ \ {t}]
                 \/ sweep' = [sweep EXCEPT ![c].todo = @ \ {t}]
      BY <2>4 DEF CancelTask
    <3>2. t \in E
      BY <1>5 DEF SweepOf
    <3>3. PICK s \in SweepOf(E) : s = [sweep[c] EXCEPT !.at = "children", !.parent = t, !.todo = @ \ {t}]
      BY <1>5, <3>2 DEF SweepOf
    <3>4. PICK r \in SweepOf(E) : r = [sweep[c] EXCEPT !.todo = @ \ {t}]
      BY <1>5, <3>2 DEF SweepOf
    <3>5. sweep' = [sweep EXCEPT ![c] = s] \/ sweep' = [sweep EXCEPT ![c] = r]
      BY <1>5, <3>1, <3>3, <3>4
    <3> QED BY <3>5
  <2>5. CASE ListChildren(c)
    <3>1. Reached(sweep[c].parent) \subseteq E
      BY <1>2 DEF Reached, LiveChildren
    <3>2. PICK D : D = Reached(sweep[c].parent)
      OBVIOUS
    <3>3. sweep' = [sweep EXCEPT ![c].at = "cancel", ![c].parent = NoTask, ![c].todo = @ \cup D]
      BY <2>5, <3>2 DEF ListChildren
    <3>4. PICK s \in SweepOf(E) : s = [sweep[c] EXCEPT !.at = "cancel", !.parent = NoTask, !.todo = @ \cup D]
      BY <1>5, <3>1, <3>2 DEF SweepOf
    <3>5. sweep' = [sweep EXCEPT ![c] = s]
      BY <1>5, <3>3, <3>4
    <3> QED BY <3>5
  <2>6. CASE Return(c)
    <3>1. PICK s \in SweepOf(E) : s = [sweep[c] EXCEPT !.at = "done"]
      BY <1>5 DEF SweepOf
    <3> QED BY <1>5, <2>6, <3>1 DEF Return
  <2> QED BY <2>1, <2>2, <2>3, <2>4, <2>5, <2>6 DEF TerminalStep
<1>9. UNCHANGED check
  BY DEF TerminalStep, Submit, Toggle, ListSessions, CancelTask, ListChildren, Return
<1>10. UNCHANGED sessions
  BY DEF TerminalStep, Submit, Toggle, ListSessions, CancelTask, ListChildren, Return
<1>11. inbox' \in Seq(MessageOf(E)) /\ Len(inbox') <= MaxEvents /\ SmallTyped'
  <2>1. CASE Submit(c)
    <3>1. inbox' = Append(inbox, [state |-> "pending", arrived |-> clock, task |-> NoTask])
          /\ UNCHANGED <<enabled, clock, runtime, toggles, crashes>>
      BY <2>1 DEF Submit
    <3>2. [state |-> "pending", arrived |-> clock, task |-> NoTask] \in MessageOf(E)
      BY <1>4 DEF MessageOf, SmallTyped
    <3>3. Len(inbox) + 1 <= MaxEvents
      BY <1>3, <1>4, <2>1 DEF Submit, Another, SmallTyped
    <3> QED BY <1>3, <1>4, <3>1, <3>2, <3>3 DEF SmallTyped
  <2>2. CASE Toggle(c)
    <3>1. toggles + 1 \in 0..MaxEvents
      BY <1>3, <1>4, <2>2 DEF Toggle, Another, SmallTyped
    <3> QED BY <1>3, <1>4, <2>2, <3>1 DEF Toggle, SmallTyped
  <2>3. CASE ListSessions(c) \/ CancelTask(c) \/ ListChildren(c) \/ Return(c)
    <3>1. UNCHANGED <<inbox, enabled, clock, runtime, toggles, crashes>>
      BY <2>3 DEF ListSessions, CancelTask, ListChildren, Return
    <3> QED BY <1>3, <1>4, <3>1 DEF SmallTyped
  <2> QED BY <2>1, <2>2, <2>3 DEF TerminalStep
<1> QED BY <1>1, <1>8, <1>9, <1>10, <1>11 DEF InboxTyped

LEMMA TypedInit == Init => Typed
<1> SUFFICES ASSUME Init PROVE Typed
  OBVIOUS
<1>1. tasks \in Seq(Row) /\ Len(tasks) = 0 /\ DOMAIN tasks = {} /\ inbox \in Seq(MessageOf(DOMAIN tasks))
      /\ Len(inbox) = 0 /\ sessions \in SessionsOf(DOMAIN tasks)
  BY DEF Init, SessionsOf
<1>2. SmallTyped
  BY CuriosityBounds DEF Init, SmallTyped
<1>3. check \in ChecksOf(DOMAIN tasks) /\ CheckTask
  BY CuriosityBounds DEF Init, NoCheck, ChecksOf, CheckTask
<1>4. sweep \in [Terminals -> SweepOf(DOMAIN tasks)]
  BY CuriosityBounds DEF Init, NoSweep, SweepOf
<1> QED BY <1>1, <1>2, <1>3, <1>4, CuriosityBounds DEF Typed, InboxTyped

LEMMA TypedKept == ASSUME Typed, [Next]_curiosityVars PROVE Typed' /\ TasksStep
<1>1. TypeOK /\ InboxOK
  BY TypedIsTypeOK
<1>2. tasks' \in Seq(Row) /\ Len(tasks') <= MaxTasks /\ TasksStep
  BY <1>1, TasksAfter
<1>3. \A t \in DOMAIN tasks' : Unfailing(tasks'[t])
  BY <1>2 DEF Typed, TasksStep, Stays, Grows, Follows
<1>4. PICK E : E = DOMAIN tasks'
  OBVIOUS
<1>5. /\ DOMAIN tasks \subseteq E
      /\ sessions \in SessionsOf(E) /\ check \in ChecksOf(E) /\ sweep \in [Terminals -> SweepOf(E)]
      /\ inbox \in Seq(MessageOf(E)) /\ Len(inbox) <= MaxEvents /\ SmallTyped /\ CheckTask
  <2>1. DOMAIN tasks \subseteq E
    BY <1>1, <1>2, <1>4, TasksRemain
  <2>2. SweepOf(DOMAIN tasks) \subseteq SweepOf(E)
    BY <2>1, MoreTasks
  <2> QED BY <2>1, <2>2, MoreTasks, SeqMonotonic DEF Typed, InboxTyped
<1>6. ASSUME check' = NoCheck \/ UNCHANGED check
      PROVE  check' \in ChecksOf(E) /\ CheckTask'
  <2>1. NoCheck \in ChecksOf(E) /\ NoCheck.task = NoTask /\ NoCheck.at = "off"
    BY CuriosityBounds DEF NoCheck, ChecksOf
  <2> QED BY <1>5, <1>6, <2>1 DEF CheckTask
<1>7. CASE UNCHANGED curiosityVars
  BY <1>2, <1>7 DEF curiosityVars, Typed, SmallTyped, InboxTyped, CheckTask
<1>8. CASE CheckStep
  <2>1. /\ check' \in ChecksOf(E) /\ CheckTask' /\ sessions' \in SessionsOf(E)
        /\ UNCHANGED <<inbox, enabled, clock, runtime, sweep, toggles, crashes>>
    BY <1>2, <1>4, <1>8, CheckTyped
  <2> QED BY <1>2, <1>3, <1>4, <1>5, <2>1 DEF Typed, SmallTyped, InboxTyped
<1>9. ASSUME NEW c \in Terminals, TerminalStep(c)
      PROVE  Typed'
  <2>1. InboxTyped(DOMAIN tasks)' /\ SmallTyped' /\ UNCHANGED <<sessions, check>>
    BY <1>2, <1>9, TerminalTyped
  <2>2. PICK s \in SweepOf(E) : sweep' = [sweep EXCEPT ![c] = s]
    BY <1>2, <1>4, <1>9, TerminalTyped
  <2>3. sweep' \in [Terminals -> SweepOf(E)]
    BY <1>5, <2>2
  <2> QED BY <1>2, <1>3, <1>4, <1>5, <1>6, <2>1, <2>3 DEF Typed
<1>10. ASSUME \/ Tick \/ Dispatch \/ SyncFailures \/ Crash \/ Restart
              \/ \E t \in DOMAIN tasks : Claim(t) \/ QueueResearch(t) \/ Complete(t) \/ Interrupt(t)
              \/ \E m \in DOMAIN inbox : Reply(m)
              \/ \E g \in GoalIds : EnqueueGoal(g)
       PROVE  Typed'
  <2>1. /\ InboxTyped(DOMAIN tasks)' /\ SmallTyped' /\ (UNCHANGED check \/ check' = NoCheck)
        /\ UNCHANGED <<sessions, sweep>>
    BY <1>2, <1>10, ServiceTyped
  <2> QED BY <1>2, <1>3, <1>4, <1>5, <1>6, <2>1 DEF Typed
<1> QED BY <1>2, <1>7, <1>8, <1>9, <1>10 DEF Next

----------------------------------------------------------------------------
(* What a step does to the scheduler's check and to the sessions.          *)

CheckMoves ==
    \/ check' = NoCheck /\ (Crash \/ RecordSession \/ (check.at # "record" /\ UNCHANGED <<tasks, sessions>>))
    \/ BeginCheck
    \/ check.at = "inbox" /\ Pending = {} /\ check' = [check EXCEPT !.at = "live"]
       /\ UNCHANGED <<tasks, inbox, enabled, sessions>>
    \/ check.at = "live" /\ ~LiveWork /\ check' = [check EXCEPT !.at = "window"]
       /\ UNCHANGED <<tasks, inbox, enabled, sessions>>
    \/ check.at = "window" /\ Rested(check.now) /\ ~UsedUp(check.now)
       /\ check' = [check EXCEPT !.at = "enqueue"] /\ UNCHANGED <<tasks, inbox, enabled, sessions>>
    \/ EnqueueSession
    \/ UNCHANGED <<check, sessions>>

LEMMA CheckAfter == ASSUME Typed, [Next]_curiosityVars PROVE CheckMoves
<1>1. CASE UNCHANGED curiosityVars
  BY <1>1 DEF curiosityVars, CheckMoves
<1>2. CASE BeginCheck \/ EnqueueSession
  BY <1>2 DEF CheckMoves
<1>3. CASE CheckInbox
  BY <1>3 DEF CheckInbox, Proceed, CheckMoves
<1>4. CASE CheckLive
  BY <1>4 DEF CheckLive, Proceed, CheckMoves
<1>5. CASE CheckWindow
  BY <1>5 DEF CheckWindow, Proceed, CheckMoves
<1>6. CASE RecordSession
  BY <1>6 DEF RecordSession, CheckMoves
<1>7. CASE Crash
  BY <1>7 DEF Crash, CheckMoves
<1>8. CASE Tick \/ Restart \/ Dispatch \/ SyncFailures
  BY <1>8 DEF Tick, Restart, Dispatch, SyncFailures, CheckMoves
<1>9. ASSUME NEW t \in DOMAIN tasks, Claim(t) \/ QueueResearch(t) \/ Complete(t) \/ Interrupt(t)
      PROVE  CheckMoves
  BY <1>9 DEF Claim, QueueResearch, Complete, Interrupt, CheckMoves
<1>10. ASSUME NEW m \in DOMAIN inbox, Reply(m) PROVE CheckMoves
  BY <1>10 DEF Reply, CheckMoves
<1>11. ASSUME NEW g \in GoalIds, EnqueueGoal(g) PROVE CheckMoves
  BY <1>11 DEF EnqueueGoal, CheckMoves
<1>12. ASSUME NEW c \in Terminals, TerminalStep(c) PROVE CheckMoves
  BY <1>12 DEF TerminalStep, Submit, Toggle, ListSessions, CancelTask, ListChildren, Return, CheckMoves
<1> QED BY <1>1, <1>2, <1>3, <1>4, <1>5, <1>6, <1>7, <1>8, <1>9, <1>10, <1>11, <1>12 DEF Next, CheckStep

----------------------------------------------------------------------------
(* Whose tasks they are.                                                   *)

LEMMA Origins ==
    ASSUME NEW r
    PROVE  /\ r.kind = "curiosity" => SelfDirected(r)
           /\ r.kind = "research" => SelfDirected(r)
           /\ r.kind = "conversation" => ~SelfDirected(r)
           /\ \A q : q.kind = r.kind /\ q.goal = r.goal => SelfDirected(q) = SelfDirected(r)
BY DEF SelfDirected, Origin

(* Only research has a parent, an earlier session; only a goal's task has  *)
(* a goal.                                                                 *)
RowsOK ==
    \A t \in DOMAIN tasks :
        /\ IF tasks[t].kind = "research"
           THEN /\ tasks[t].parent \in DOMAIN tasks /\ tasks[t].parent < t
                /\ tasks[tasks[t].parent].kind = "curiosity"
           ELSE tasks[t].parent = NoTask
        /\ tasks[t].goal # NoGoal => tasks[t].kind = "executive"

LEMMA RowsKept == ASSUME Typed, TasksStep, RowsOK PROVE RowsOK'
<1>1. \A t \in DOMAIN tasks : t # NoTask
  BY DEF Typed, NoTask
<1>2. CASE Stays
  BY <1>2 DEF Stays, Follows, RowsOK
<1>3. ASSUME NEW kind \in {"curiosity", "conversation"}, Grows(kind, NoGoal, NoTask) PROVE RowsOK'
  BY <1>3 DEF Grows, RowsOK
<1>4. ASSUME NEW t \in DOMAIN tasks, QueueResearch(t), Grows("research", NoGoal, t) PROVE RowsOK'
  <2>1. tasks[t].kind = "curiosity"
    BY <1>4 DEF QueueResearch
  <2> QED BY <1>4, <2>1 DEF Grows, RowsOK
<1>5. ASSUME NEW g \in GoalIds, Grows("executive", g, NoTask) PROVE RowsOK'
  BY <1>5 DEF Grows, RowsOK
<1> QED BY <1>2, <1>3, <1>4, <1>5 DEF TasksStep

----------------------------------------------------------------------------
(* What a check may rely on until it inserts a session.                    *)

(* No session and no research is alive.                                    *)
Quiet == \A t \in DOMAIN tasks : Live(tasks[t]) => ~OfCuriosity(tasks[t])

(* Between the look at the tasks and the insertion only goals' tasks and   *)
(* no exploration comes alive.                                             *)
QuietOK == check.at \in {"window", "enqueue"} => Quiet

(* Once past the window, the time of the check stays allowed.              *)
WindowOK == check.at \in {"enqueue", "record"} => Rested(check.now) /\ ~UsedUp(check.now)

LEMMA NoCheckIsOff == NoCheck.at = "off" /\ NoCheck.task = NoTask
BY DEF NoCheck

LEMMA QuietKept ==
    ASSUME Typed, TasksStep, CheckMoves, RowsOK, QuietOK
    PROVE  QuietOK'
<1>1. check \in ChecksOf(DOMAIN tasks)
  BY DEF Typed
<1>2. ASSUME UNCHANGED tasks, Quiet PROVE Quiet'
  BY <1>2 DEF Quiet
<1>3. CASE check.at = "live" /\ ~LiveWork /\ check' = [check EXCEPT !.at = "window"] /\ UNCHANGED tasks
  <2>1. Quiet
    BY <1>3 DEF LiveWork, Quiet
  <2> QED BY <1>2, <1>3, <2>1 DEF QuietOK
<1>4. CASE check.at = "window" /\ check' = [check EXCEPT !.at = "enqueue"] /\ UNCHANGED tasks
  BY <1>2, <1>4 DEF QuietOK
<1>5. CASE check' = NoCheck \/ BeginCheck
  BY <1>5, NoCheckIsOff DEF QuietOK, BeginCheck, NoCheck
<1>6. CASE check' = [check EXCEPT !.at = "live"] \/ EnqueueSession
  BY <1>1, <1>6 DEF EnqueueSession, QuietOK, ChecksOf
<1>7. CASE UNCHANGED check /\ ~EnqueueSession
  <2> SUFFICES ASSUME check.at \in {"window", "enqueue"} PROVE Quiet'
    BY <1>7 DEF QuietOK
  <2>1. Quiet
    BY DEF QuietOK
  <2>2. ~Dispatch
    BY DEF Dispatch
  <2>3. ASSUME NEW t \in DOMAIN tasks, QueueResearch(t) PROVE FALSE
    <3>1. OfCuriosity(tasks[t]) /\ Live(tasks[t])
      BY <2>3, Origins DEF QueueResearch, RowsOK, OfCuriosity, Live, Terminal
    <3> QED BY <2>1, <3>1 DEF Quiet
  <2>4. CASE Stays
    BY <2>1, <2>4, Origins DEF Stays, Follows, Quiet, OfCuriosity
  <2>5. ASSUME NEW g \in GoalIds, Grows("executive", g, NoTask) PROVE Quiet'
    <3>1. g # NoGoal
      BY GoalIdsAssumption DEF NoGoal
    <3> QED BY <2>1, <2>5, <3>1 DEF Grows, Quiet, OfCuriosity
  <2> QED BY <1>7, <2>2, <2>3, <2>4, <2>5 DEF TasksStep
<1> QED BY <1>3, <1>4, <1>5, <1>6, <1>7 DEF CheckMoves

LEMMA WindowKept ==
    ASSUME Typed, CheckMoves, WindowOK
    PROVE  WindowOK'
<1>1. check \in ChecksOf(DOMAIN tasks)
  BY DEF Typed
<1>2. ASSUME UNCHANGED sessions, check'.now = check.now, Rested(check.now), ~UsedUp(check.now)
      PROVE  Rested(check.now)' /\ ~UsedUp(check.now)'
  BY <1>2 DEF Rested, UsedUp, SessionsOn
<1>3. CASE BeginCheck
  BY <1>3 DEF BeginCheck, WindowOK, NoCheck
<1>4. CASE EnqueueSession
  BY <1>1, <1>2, <1>4 DEF EnqueueSession, WindowOK, ChecksOf
<1>5. CASE check' = NoCheck
  BY <1>5, NoCheckIsOff DEF WindowOK
<1>6. CASE UNCHANGED sessions /\ check'.at = check.at /\ check'.now = check.now
  BY <1>2, <1>6 DEF WindowOK
<1>7. CASE UNCHANGED sessions /\ check' = [check EXCEPT !.at = "enqueue"]
           /\ Rested(check.now) /\ ~UsedUp(check.now)
  BY <1>1, <1>2, <1>7 DEF WindowOK, ChecksOf
<1>8. CASE check' = [check EXCEPT !.at = "live"] \/ check' = [check EXCEPT !.at = "window"]
  BY <1>1, <1>8 DEF WindowOK, ChecksOf
<1> QED BY <1>3, <1>4, <1>5, <1>6, <1>7, <1>8 DEF CheckMoves

----------------------------------------------------------------------------
(* One exploration at a time.                                              *)

LEMMA OneSessionKept ==
    ASSUME Typed, TasksStep, RowsOK, QuietOK, OneSession
    PROVE  OneSession'
<1> DEFINE Exploring == {x \in DOMAIN tasks : Live(tasks[x]) /\ OfCuriosity(tasks[x])}
<1>1. DOMAIN tasks \subseteq Nat \ {NoTask}
  BY DEF Typed, NoTask
<1>2. CASE Stays
  <2>1. Exploring' \subseteq Exploring
    BY <1>2, Origins DEF Stays, Follows, OfCuriosity
  <2>2. \A t \in Exploring' : tasks'[t].parent = tasks[t].parent
    BY <1>2 DEF Stays, Follows
  <2> QED BY <2>1, <2>2 DEF OneSession
<1>3. ASSUME NEW kind, NEW goal, Grows(kind, goal, NoTask), kind = "conversation" \/ goal # NoGoal
      PROVE  OneSession'
  <2>1. Exploring' = Exploring
    BY <1>3, Origins DEF Grows, OfCuriosity
  <2> QED BY <1>3, <2>1 DEF Grows, OneSession
<1>6. \A g \in GoalIds : g # NoGoal
  BY GoalIdsAssumption DEF NoGoal
<1>4. CASE EnqueueSession /\ Grows("curiosity", NoGoal, NoTask)
  <2>1. Exploring = {}
    BY <1>4 DEF EnqueueSession, QuietOK, Quiet
  <2>2. Exploring' \subseteq {Len(tasks) + 1}
    BY <1>4, <2>1 DEF Grows
  <2> QED BY <1>1, <2>2 DEF OneSession, Typed
<1>5. ASSUME NEW s \in DOMAIN tasks, QueueResearch(s), Grows("research", NoGoal, s) PROVE OneSession'
  <2> DEFINE new == Len(tasks) + 1
  <2>1. /\ s \in Exploring /\ tasks[s].kind = "curiosity" /\ \A u \in DOMAIN tasks : tasks[u].parent # s
    BY <1>5, Origins DEF QueueResearch, RowsOK, OfCuriosity, Live, Terminal
  <2>2. ASSUME NEW x \in Exploring PROVE x = s
    <3>1. CASE x < s
      <4>1. tasks[s].parent = x /\ tasks[s].parent = NoTask
        BY <2>1, <3>1 DEF OneSession, RowsOK
      <4> QED BY <1>1, <4>1
    <3>2. CASE s < x
      BY <2>1, <3>2 DEF OneSession
    <3> QED BY <1>1, <3>1, <3>2
  <2>3. Exploring' \subseteq {s, new} /\ tasks'[new].parent = s /\ s < new
    <3>1. ASSUME NEW x \in Exploring' PROVE x \in {s, new}
      BY <1>5, <2>2 DEF Grows
    <3> QED BY <1>5, <3>1 DEF Grows
  <2> HIDE DEF new, Exploring
  <2>4. new \in Nat /\ s \in Nat
    BY <1>1 DEF new, Typed
  <2>5. \A t, u \in Exploring' : t < u => tasks'[u].parent = t
    BY <2>3, <2>4
  <2> QED BY <2>5 DEF OneSession, Exploring
<1> QED BY <1>2, <1>3, <1>4, <1>5, <1>6 DEF TasksStep

----------------------------------------------------------------------------
(* The allowance.                                                          *)

LEMMA SessionsAfter == ASSUME CheckMoves PROVE UNCHANGED sessions \/ RecordSession
BY DEF CheckMoves, Crash, BeginCheck, EnqueueSession

LEMMA ApartKept ==
    ASSUME Typed, WindowOK, SessionsApart, RecordSession
    PROVE  SessionsApart'
<1> DEFINE n == Len(sessions)
           e == [created |-> check.now, task |-> check.task]
<1>1. check.at = "record" /\ sessions' = Append(sessions, e)
  BY DEF RecordSession
<1>2. n \in Nat /\ DOMAIN sessions = 1..n /\ (n # 0 => sessions # <<>>)
  BY DEF Typed, SessionsOf
<1>3. n # 0 => check.now - sessions[n].created >= Interval
  BY <1>1, <1>2 DEF WindowOK, Rested, Typed, SessionsOf
<1>4. DOMAIN sessions' = 1..(n + 1) /\ sessions'[n + 1] = e /\ \A s \in 1..n : sessions'[s] = sessions[s]
  BY <1>1 DEF Typed, SessionsOf
<1> HIDE DEF n
<1>5. ASSUME NEW s \in DOMAIN sessions' \ {1}
      PROVE  sessions'[s].created - sessions'[s - 1].created >= Interval
  <2>1. CASE s = n + 1
    <3>1. n \in 1..n /\ s - 1 = n
      BY <1>2, <1>5, <2>1
    <3> QED BY <1>2, <1>3, <1>4, <2>1, <3>1
  <2>2. CASE s # n + 1
    <3>1. s \in 1..n /\ s - 1 \in 1..n
      BY <1>2, <1>4, <1>5, <2>2
    <3> QED BY <1>2, <1>4, <1>5, <3>1 DEF SessionsApart
  <2> QED BY <2>1, <2>2
<1> QED BY <1>5 DEF SessionsApart

LEMMA ADayKept ==
    ASSUME Typed, WindowOK, SessionsADay, RecordSession
    PROVE  SessionsADay'
<1> DEFINE n == Len(sessions)
           e == [created |-> check.now, task |-> check.task]
           date(x) == x \div Day
           On(d) == {u \in DOMAIN sessions : date(sessions[u].created) = d}
<1>1. check.at = "record" /\ sessions' = Append(sessions, e)
  BY DEF RecordSession
<1>2. n \in Nat /\ DOMAIN sessions = 1..n /\ Daily \in Nat
  BY CuriosityLimits DEF Typed, SessionsOf
<1>3. ~(Cardinality(On(date(check.now))) >= Daily)
  BY <1>1 DEF WindowOK, UsedUp, SessionsOn
<1>4. \A s \in DOMAIN sessions : Cardinality(On(date(sessions[s].created))) <= Daily
  BY DEF SessionsADay, SessionsOn
<1>5. DOMAIN sessions' = 1..(n + 1) /\ sessions'[n + 1] = e /\ \A s \in 1..n : sessions'[s] = sessions[s]
  BY <1>1 DEF Typed, SessionsOf
<1> HIDE DEF date
<1>6. ASSUME NEW d PROVE IsFiniteSet(On(d)) /\ Cardinality(On(d)) \in Nat /\ n + 1 \notin On(d)
  <2>1. IsFiniteSet(1..n) /\ On(d) \subseteq 1..n
    BY <1>2, FS_Interval
  <2> QED BY <1>2, <2>1, FS_Subset, FS_CardinalityType
<1>7. ASSUME NEW s \in DOMAIN sessions'
      PROVE  Cardinality({u \in DOMAIN sessions' : date(sessions'[u].created) = date(sessions'[s].created)}) <= Daily
  <2> DEFINE d == date(sessions'[s].created)
             New == {u \in DOMAIN sessions' : date(sessions'[u].created) = d}
  <2>1. CASE d = date(check.now)
    <3>1. New = On(d) \cup {n + 1}
      BY <1>2, <1>5, <2>1
    <3>2. Cardinality(New) = Cardinality(On(d)) + 1
      BY <1>6, <3>1, FS_AddElement
    <3>3. PICK m \in Nat : m = Cardinality(On(d)) /\ ~(m >= Daily)
      BY <1>3, <1>6, <2>1
    <3>4. m + 1 <= Daily
      BY <1>2, <3>3
    <3> QED BY <3>2, <3>3, <3>4
  <2>2. CASE d # date(check.now)
    <3>1. New = On(d)
      BY <1>2, <1>5, <2>2
    <3>2. s \in DOMAIN sessions /\ d = date(sessions[s].created)
      BY <1>2, <1>5, <1>7, <2>2
    <3> QED BY <1>4, <3>1, <3>2
  <2> QED BY <2>1, <2>2
<1> USE DEF date
<1> QED BY <1>7 DEF SessionsADay, SessionsOn

(* The sessions that a crash kept out of the record.                       *)
Lost == Unrecorded \ {check.task}

LEMMA CuriousAfter ==
    ASSUME Typed, TasksStep
    PROVE  IF EnqueueSession
           THEN Curious' = Curious \cup {Len(tasks')} /\ Len(tasks') \notin DOMAIN tasks
           ELSE Curious' = Curious
<1>1. CASE EnqueueSession
  <2>1. Insert("curiosity", 5, NoGoal, NoTask) /\ "curiosity" \in KINDS /\ NoTask \in Nat
    BY <1>1 DEF EnqueueSession, KINDS, NoTask
  <2>2. Len(tasks') = Len(tasks) + 1 /\ Grows("curiosity", NoGoal, NoTask)
    BY <2>1, Inserted, TypedIsTypeOK
  <2> QED BY <1>1, <2>2 DEF Grows, Curious
<1>2. CASE ~EnqueueSession
  <2>1. CASE Stays
    BY <1>2, <2>1 DEF Stays, Follows, Curious
  <2>2. ASSUME NEW kind \in {"conversation", "research", "executive"}, NEW goal, NEW p, Grows(kind, goal, p)
        PROVE  Curious' = Curious
    BY <2>2 DEF Grows, Curious
  <2> QED BY <1>2, <2>1, <2>2 DEF TasksStep
<1> QED BY <1>1, <1>2

LEMMA LostKept ==
    ASSUME Typed, TasksStep, CheckMoves, [Next]_curiosityVars, Cardinality(Lost) <= crashes
    PROVE  Cardinality(Lost') <= crashes'
<1>1. IsFiniteSet(Lost) /\ Cardinality(Lost) \in Nat /\ crashes \in Nat
  <2>1. Lost \subseteq 1..Len(tasks) /\ Len(tasks) \in Nat /\ crashes \in Nat
    BY CuriosityBounds DEF Lost, Unrecorded, Curious, Typed, SmallTyped
  <2>2. IsFiniteSet(1..Len(tasks))
    BY <2>1, FS_Interval
  <2> QED BY <2>1, <2>2, FS_Subset, FS_CardinalityType
<1>2. NoTask \notin DOMAIN tasks /\ NoTask \notin Curious /\ NoTask \notin Curious'
  BY DEF Typed, NoTask, Curious, TasksStep, Stays, Grows
<1>3. CASE Crash
  <2>1. crashes' = crashes + 1 /\ UNCHANGED <<tasks, sessions>>
    BY <1>3 DEF Crash
  <2>2. Unrecorded' = Unrecorded
    BY <2>1 DEF Unrecorded, Curious
  <2>3. IsFiniteSet(Lost \cup {check.task}) /\ Cardinality(Lost \cup {check.task}) <= Cardinality(Lost) + 1
        /\ Lost' \subseteq Lost \cup {check.task}
    BY <1>1, <2>2, FS_AddElement DEF Lost
  <2>4. Cardinality(Lost') <= Cardinality(Lost \cup {check.task}) /\ Cardinality(Lost') \in Nat
        /\ Cardinality(Lost \cup {check.task}) \in Nat
    BY <2>3, FS_Subset, FS_CardinalityType
  <2> QED BY <1>1, <2>1, <2>3, <2>4
<1>4. CASE ~Crash
  <2>1. UNCHANGED crashes
    BY <1>4 DEF Next, curiosityVars, CheckStep, TerminalStep, Tick, BeginCheck, CheckInbox, CheckLive, CheckWindow,
                EnqueueSession, RecordSession, Proceed, Dispatch, SyncFailures, Restart, Claim, QueueResearch,
                Complete, Interrupt, Reply, EnqueueGoal, Submit, Toggle, ListSessions, CancelTask, ListChildren, Return
  <2>2. CASE EnqueueSession
    <3>1. /\ UNCHANGED sessions /\ check.at = "enqueue" /\ check'.task = Len(tasks')
          /\ Curious' = Curious \cup {Len(tasks')} /\ Len(tasks') \notin DOMAIN tasks
      BY <2>2, CuriousAfter DEF EnqueueSession, Typed, ChecksOf
    <3>2. check.task = NoTask /\ \A s \in DOMAIN sessions : sessions[s].task \in DOMAIN tasks
      <4>1. check.task = NoTask
        BY <3>1 DEF Typed, CheckTask
      <4>2. sessions \in Seq([created : 0..MaxClock, task : DOMAIN tasks])
        BY DEF Typed, SessionsOf
      <4>3. \A s \in DOMAIN sessions : sessions[s] \in [created : 0..MaxClock, task : DOMAIN tasks]
        <5>1. \A S : sessions \in Seq(S) => \A s \in DOMAIN sessions : sessions[s] \in S
          OBVIOUS
        <5> QED BY <4>2, <5>1
      <4> QED BY <4>1, <4>3
    <3>3. Lost' = Lost
      BY <1>2, <3>1, <3>2 DEF Lost, Unrecorded, Curious
    <3> QED BY <2>1, <3>3
  <2>3. CASE RecordSession
    <3>1. Curious' = Curious /\ check'.task = NoTask
      BY <2>3, NoCheckIsOff DEF RecordSession, Curious
    <3>2. {sessions'[s].task : s \in DOMAIN sessions'} = {sessions[s].task : s \in DOMAIN sessions} \cup {check.task}
      <4> DEFINE n == Len(sessions)
                 e == [created |-> check.now, task |-> check.task]
      <4>1. sessions' = Append(sessions, e)
        BY <2>3 DEF RecordSession
      <4>2. n \in Nat /\ DOMAIN sessions = 1..n /\ DOMAIN sessions' = 1..(n + 1) /\ sessions'[n + 1] = e
            /\ \A s \in 1..n : sessions'[s] = sessions[s]
        BY <4>1 DEF Typed, SessionsOf
      <4> HIDE DEF n
      <4>3. \A s \in 1..(n + 1) : s \in 1..n \/ s = n + 1
        BY <4>2
      <4>4. n + 1 \in 1..(n + 1) /\ 1..n \subseteq 1..(n + 1)
        BY <4>2
      <4> QED BY <4>2, <4>3, <4>4
    <3>3. Lost' = Lost
      BY <1>2, <3>1, <3>2 DEF Lost, Unrecorded
    <3> QED BY <2>1, <3>3
  <2>4. CASE ~EnqueueSession /\ ~RecordSession
    <3>1. Curious' = Curious /\ UNCHANGED sessions
      BY <2>4, CuriousAfter, SessionsAfter
    <3>2. check'.task = check.task
      BY <1>4, <2>4, NoCheckIsOff DEF CheckMoves, BeginCheck, NoCheck, Typed, CheckTask, ChecksOf
    <3>3. Lost' = Lost
      BY <3>1, <3>2 DEF Lost, Unrecorded
    <3> QED BY <2>1, <3>3
  <2> QED BY <2>2, <2>3, <2>4
<1> QED BY <1>3, <1>4

----------------------------------------------------------------------------
(* The owner's cancellations.                                              *)

(* A task at work for her own curiosity that nobody has cancelled.         *)
Astray(t) == Live(tasks[t]) /\ ~tasks[t].cancel /\ SelfDirected(tasks[t])

(* A cancellation has seen what there was; it is done when nothing is left. *)
SweepOK ==
    \A c \in Terminals : /\ sweep[c].at \in {"off", "list", "done"} => sweep[c].todo = {}
                         /\ sweep[c].seen <= Len(tasks)

(* What a listing saw is cancelled, ended or still to be cancelled.        *)
AheadOK ==
    \A c \in Terminals : sweep[c].at \in {"cancel", "children", "done"} =>
        \A t \in DOMAIN tasks : Astray(t) => t > sweep[c].seen \/ t \in sweep[c].todo

(* The research of a cancelled session is on somebody's way.               *)
ReachingOK ==
    \A t \in DOMAIN tasks :
        (tasks[t].kind = "research" /\ Astray(t) /\ tasks[tasks[t].parent].cancel) => OnTheWay(t)

(* One terminal's step: it begins to interrupt, or goes on.                *)
Begins(c) == Ready(c) /\ sweep' = [sweep EXCEPT ![c] = [NoSweep EXCEPT !.at = "list"]] /\ UNCHANGED tasks

SweepMoves ==
    \/ UNCHANGED sweep /\ ~\E c \in Terminals : CancelTask(c) /\ ~UNCHANGED tasks
    \/ \E c \in Terminals : Begins(c) \/ ListSessions(c) \/ CancelTask(c) \/ ListChildren(c) \/ Return(c)

LEMMA SweepAfter == ASSUME Typed, [Next]_curiosityVars PROVE SweepMoves
<1>1. ASSUME NEW c \in Terminals, CancelTask(c) PROVE SweepMoves
  BY <1>1 DEF SweepMoves
<1>2. ASSUME UNCHANGED sweep PROVE SweepMoves
  BY <1>1, <1>2 DEF SweepMoves
<1>3. ASSUME NEW c \in Terminals, TerminalStep(c) PROVE SweepMoves
  <2>1. CASE Submit(c) \/ Toggle(c)
    <3>1. UNCHANGED sweep \/ Begins(c)
      BY <2>1 DEF Submit, Toggle, Intervene, Begins
    <3> QED BY <1>2, <3>1 DEF SweepMoves
  <2> QED BY <1>3, <2>1 DEF TerminalStep, SweepMoves
<1>4. CASE CheckStep
  BY <1>2, <1>4 DEF CheckStep, BeginCheck, CheckInbox, CheckLive, CheckWindow, EnqueueSession, RecordSession,
                    Proceed
<1>5. CASE Tick \/ Dispatch \/ SyncFailures \/ Crash \/ Restart \/ UNCHANGED curiosityVars
  BY <1>2, <1>5 DEF Tick, Dispatch, SyncFailures, Crash, Restart, curiosityVars
<1>6. CASE \/ \E t \in DOMAIN tasks : Claim(t) \/ QueueResearch(t) \/ Complete(t) \/ Interrupt(t)
           \/ \E m \in DOMAIN inbox : Reply(m)
           \/ \E g \in GoalIds : EnqueueGoal(g)
  BY <1>2, <1>6 DEF Claim, QueueResearch, Complete, Interrupt, Reply, EnqueueGoal
<1> QED BY <1>3, <1>4, <1>5, <1>6 DEF Next

(* Nobody is led astray again, and the new are newer than any listing.     *)
LEMMA AstrayAfter ==
    ASSUME Typed, TasksStep, NEW t \in DOMAIN tasks', Astray(t)'
    PROVE  IF t \in DOMAIN tasks
           THEN Astray(t) /\ tasks'[t].kind = tasks[t].kind /\ tasks'[t].parent = tasks[t].parent
           ELSE t = Len(tasks) + 1
<1>1. CASE Stays
  BY <1>1, Origins DEF Stays, Follows, Astray
<1>2. ASSUME NEW kind, NEW goal, NEW p, Grows(kind, goal, p)
      PROVE  IF t \in DOMAIN tasks THEN tasks'[t] = tasks[t] ELSE t = Len(tasks) + 1
  BY <1>2 DEF Grows
<1>3. CASE ~Stays
  BY <1>2, <1>3 DEF TasksStep, Astray
<1> QED BY <1>1, <1>3

(* The entry of the one terminal that moves.                               *)
LEMMA SweepEntries ==
    ASSUME Typed, NEW c \in Terminals
    PROVE  /\ Begins(c) => sweep'[c].at = "list" /\ sweep'[c].todo = {} /\ sweep'[c].seen = 0
           /\ ListSessions(c) =>
                 /\ sweep'[c].at = "cancel" /\ sweep'[c].seen = Len(tasks)
                 /\ sweep'[c].todo = {t \in DOMAIN tasks : Live(tasks[t]) /\ SelfDirected(tasks[t])}
           /\ ListChildren(c) =>
                 /\ sweep'[c].at = "cancel" /\ sweep'[c].seen = sweep[c].seen
                 /\ sweep'[c].todo = sweep[c].todo \cup LiveChildren(tasks, sweep[c].parent)
           /\ Return(c) => sweep'[c].at = "done" /\ sweep'[c].seen = sweep[c].seen /\ sweep'[c].todo = {}
           /\ Begins(c) \/ ListSessions(c) \/ CancelTask(c) \/ ListChildren(c) \/ Return(c) =>
                 \A d \in Terminals \ {c} : sweep'[d] = sweep[d]
<1>1. sweep \in [Terminals -> SweepOf(DOMAIN tasks)] /\ sweep[c] \in SweepOf(DOMAIN tasks)
  BY DEF Typed
<1>2. Begins(c) => sweep'[c].at = "list" /\ sweep'[c].todo = {} /\ sweep'[c].seen = 0
  BY <1>1 DEF Begins, NoSweep
<1>3. ListSessions(c) => /\ sweep'[c].at = "cancel" /\ sweep'[c].seen = Len(tasks)
                         /\ sweep'[c].todo = {t \in DOMAIN tasks : Live(tasks[t]) /\ SelfDirected(tasks[t])}
  BY <1>1 DEF ListSessions
<1>4. ListChildren(c) => /\ sweep'[c].at = "cancel" /\ sweep'[c].seen = sweep[c].seen
                         /\ sweep'[c].todo = sweep[c].todo \cup LiveChildren(tasks, sweep[c].parent)
  BY <1>1 DEF ListChildren, Reached, SweepOf
<1>5. Return(c) => sweep'[c].at = "done" /\ sweep'[c].seen = sweep[c].seen /\ sweep'[c].todo = {}
  BY <1>1 DEF Return, SweepOf
<1>6. Begins(c) \/ ListSessions(c) \/ CancelTask(c) \/ ListChildren(c) \/ Return(c) =>
         \A d \in Terminals \ {c} : sweep'[d] = sweep[d]
  BY <1>1 DEF Begins, ListSessions, CancelTask, ListChildren, Return
<1> QED BY <1>2, <1>3, <1>4, <1>5, <1>6

(* A cancellation of one task: of a live one the children come next.       *)
LEMMA CancelEntry ==
    ASSUME Typed, NEW c \in Terminals, CancelTask(c)
    PROVE  \E x \in sweep[c].todo :
              /\ sweep[c].at = "cancel" /\ sweep'[c].seen = sweep[c].seen /\ sweep'[c].todo = sweep[c].todo \ {x}
              /\ \A t \in DOMAIN tasks \ {x} : tasks'[t] = tasks[t]
              /\ DOMAIN tasks' = DOMAIN tasks /\ Len(tasks') = Len(tasks)
              /\ IF Live(tasks[x]) THEN sweep'[c].at = "children" /\ sweep'[c].parent = x /\ tasks'[x].cancel
                                   ELSE sweep'[c].at = "cancel" /\ UNCHANGED tasks
<1>1. sweep \in [Terminals -> SweepOf(DOMAIN tasks)] /\ sweep[c] \in SweepOf(DOMAIN tasks) /\ tasks \in Seq(Row)
  BY DEF Typed
<1>2. PICK x \in sweep[c].todo :
          IF Live(tasks[x])
          THEN /\ tasks' = [tasks EXCEPT ![x] = CancelledRow(tasks[x])]
               /\ sweep' = [sweep EXCEPT ![c].at = "children", ![c].parent = x, ![c].todo = @ \ {x}]
          ELSE sweep' = [sweep EXCEPT ![c].todo = @ \ {x}] /\ UNCHANGED tasks
  BY DEF CancelTask
<1>3. sweep[c].at = "cancel" /\ x \in DOMAIN tasks /\ tasks[x] \in Row
  BY <1>1 DEF CancelTask, SweepOf
<1>4. PICK r \in Row : r = CancelledRow(tasks[x]) /\ r.cancel
  <2>1. CancelledRow(tasks[x]) \in Row /\ CancelledRow(tasks[x]).cancel
    BY <1>3, RowUpdates DEF CancelledRow, Row
  <2> QED BY <2>1
<1>5. CASE Live(tasks[x])
  <2>1. tasks' = [tasks EXCEPT ![x] = r]
    BY <1>2, <1>4, <1>5
  <2>2. /\ \A t \in DOMAIN tasks \ {x} : tasks'[t] = tasks[t]
        /\ DOMAIN tasks' = DOMAIN tasks /\ Len(tasks') = Len(tasks) /\ tasks'[x].cancel
    BY <1>1, <1>3, <1>4, <2>1
  <2>3. /\ sweep'[c].at = "children" /\ sweep'[c].parent = x
        /\ sweep'[c].seen = sweep[c].seen /\ sweep'[c].todo = sweep[c].todo \ {x}
    BY <1>1, <1>2, <1>5 DEF SweepOf
  <2> QED BY <1>3, <1>5, <2>2, <2>3
<1>6. CASE ~Live(tasks[x])
  <2>1. sweep'[c].at = "cancel" /\ sweep'[c].seen = sweep[c].seen /\ sweep'[c].todo = sweep[c].todo \ {x}
        /\ UNCHANGED tasks
    BY <1>1, <1>2, <1>3, <1>6 DEF SweepOf
  <2> QED BY <1>3, <1>6, <2>1
<1> QED BY <1>5, <1>6

LEMMA SweepKept ==
    ASSUME Typed, Typed', TasksStep, SweepMoves, SweepOK
    PROVE  SweepOK'
<1>1. Len(tasks) <= Len(tasks') /\ Len(tasks) \in Nat /\ Len(tasks') \in Nat
  <2>1. DOMAIN tasks \subseteq DOMAIN tasks'
    BY TasksRemain, TypedIsTypeOK
  <2> QED BY <2>1 DEF Typed
<1>2. \A d \in Terminals : sweep[d].seen \in Nat /\ sweep[d] \in SweepOf(DOMAIN tasks)
  BY CuriosityBounds DEF Typed, SweepOf
<1>3. ASSUME NEW d \in Terminals, sweep'[d] = sweep[d]
      PROVE  (sweep'[d].at \in {"off", "list", "done"} => sweep'[d].todo = {}) /\ sweep'[d].seen <= Len(tasks')
  BY <1>1, <1>2, <1>3 DEF SweepOK
<1>4. CASE UNCHANGED sweep
  BY <1>3, <1>4 DEF SweepOK
<1>5. ASSUME NEW c \in Terminals, Begins(c) \/ ListSessions(c) \/ CancelTask(c) \/ ListChildren(c) \/ Return(c)
      PROVE  SweepOK'
  <2>1. \A d \in Terminals \ {c} : sweep'[d] = sweep[d]
    BY <1>5, SweepEntries
  <2>2. (sweep'[c].at \in {"off", "list", "done"} => sweep'[c].todo = {}) /\ sweep'[c].seen <= Len(tasks')
    <3>1. CASE CancelTask(c)
      BY <1>1, <1>2, <3>1, CancelEntry DEF SweepOK
    <3>2. CASE Begins(c) \/ ListSessions(c) \/ ListChildren(c) \/ Return(c)
      BY <1>1, <1>2, <3>2, SweepEntries DEF SweepOK
    <3> QED BY <1>5, <3>1, <3>2
  <2> QED BY <1>3, <2>1, <2>2 DEF SweepOK
<1> QED BY <1>4, <1>5 DEF SweepMoves

LEMMA AheadKept ==
    ASSUME Typed, Typed', TasksStep, SweepMoves, SweepOK, AheadOK
    PROVE  AheadOK'
<1> DEFINE Ahead(d) == sweep[d].at \in {"cancel", "children", "done"} =>
                          \A t \in DOMAIN tasks : Astray(t) => t > sweep[d].seen \/ t \in sweep[d].todo
<1>1. \A d \in Terminals : sweep[d].seen \in Nat /\ sweep[d].seen < Len(tasks) + 1 /\ Ahead(d)
  BY CuriosityBounds DEF Typed, SweepOf, SweepOK, AheadOK
<1>2. Len(tasks) \in Nat /\ DOMAIN tasks = 1..Len(tasks)
  BY DEF Typed
<1>3. ASSUME NEW d \in Terminals, sweep'[d].seen = sweep[d].seen, sweep[d].todo \subseteq sweep'[d].todo,
             sweep[d].at \in {"cancel", "children", "done"} \/ sweep'[d].at = sweep[d].at
      PROVE  Ahead(d)'
  <2> SUFFICES ASSUME sweep'[d].at \in {"cancel", "children", "done"}, NEW t \in DOMAIN tasks', Astray(t)'
               PROVE  t > sweep'[d].seen \/ t \in sweep'[d].todo
    OBVIOUS
  <2>1. CASE t \in DOMAIN tasks
    <3>1. Astray(t)
      BY <2>1, AstrayAfter
    <3>2. t > sweep[d].seen \/ t \in sweep[d].todo
      BY <1>1, <1>3, <2>1, <3>1
    <3> QED BY <1>3, <3>2
  <2>2. CASE t \notin DOMAIN tasks
    <3>1. t = Len(tasks) + 1
      BY <2>2, AstrayAfter
    <3> QED BY <1>1, <1>2, <1>3, <3>1
  <2> QED BY <2>1, <2>2
<1>4. CASE UNCHANGED sweep
  BY <1>3, <1>4 DEF AheadOK
<1>5. ASSUME NEW c \in Terminals, Begins(c) \/ ListSessions(c) \/ CancelTask(c) \/ ListChildren(c) \/ Return(c)
      PROVE  AheadOK'
  <2>1. \A d \in Terminals \ {c} : Ahead(d)'
    <3>1. \A d \in Terminals \ {c} : sweep'[d] = sweep[d]
      BY <1>5, SweepEntries
    <3> QED BY <1>3, <3>1
  <2>2. Ahead(c)'
    <3>1. CASE Begins(c)
      BY <3>1, SweepEntries
    <3>2. CASE ListSessions(c)
      BY <3>2, SweepEntries DEF ListSessions, Astray
    <3>3. CASE ListChildren(c)
      <4>1. sweep[c].at = "children" /\ sweep'[c].seen = sweep[c].seen /\ sweep[c].todo \subseteq sweep'[c].todo
        BY <3>3, SweepEntries DEF ListChildren
      <4> QED BY <1>3, <4>1
    <3>4. CASE Return(c)
      <4>1. /\ sweep[c].at = "cancel" /\ sweep'[c].seen = sweep[c].seen
            /\ sweep'[c].todo = {} /\ sweep[c].todo = {}
        BY <3>4, SweepEntries DEF Return
      <4> QED BY <1>3, <4>1
    <3>5. CASE CancelTask(c)
      <4>1. PICK x \in sweep[c].todo :
              /\ sweep[c].at = "cancel" /\ sweep'[c].seen = sweep[c].seen /\ sweep'[c].todo = sweep[c].todo \ {x}
              /\ DOMAIN tasks' = DOMAIN tasks
              /\ IF Live(tasks[x]) THEN tasks'[x].cancel ELSE UNCHANGED tasks
        BY <3>5, CancelEntry
      <4>2. ASSUME NEW t \in DOMAIN tasks', Astray(t)' PROVE t > sweep'[c].seen \/ t \in sweep'[c].todo
        <5>1. t \in DOMAIN tasks /\ Astray(t)
          BY <4>1, <4>2, AstrayAfter
        <5>2. t # x
          BY <4>1, <4>2, <5>1 DEF Astray
        <5> QED BY <1>1, <4>1, <5>1, <5>2
      <4> QED BY <4>2
    <3> QED BY <1>5, <3>1, <3>2, <3>3, <3>4, <3>5
  <2> QED BY <2>1, <2>2 DEF AheadOK
<1> QED BY <1>4, <1>5 DEF SweepMoves

LEMMA ReachingKept ==
    ASSUME Typed, Typed', TasksStep, SweepMoves, RowsOK, SweepOK, ReachingOK
    PROVE  ReachingOK'
<1> SUFFICES ASSUME NEW t \in DOMAIN tasks', tasks'[t].kind = "research", Astray(t)',
                    tasks'[tasks'[t].parent].cancel
             PROVE  OnTheWay(t)'
  BY DEF ReachingOK
<1>1. t \in DOMAIN tasks
  <2>1. CASE Stays
    BY <2>1 DEF Stays
  <2>2. ASSUME NEW kind \in {"curiosity", "conversation", "executive"}, NEW goal, Grows(kind, goal, NoTask)
        PROVE  t \in DOMAIN tasks
    BY <2>2, AstrayAfter DEF Grows
  <2>3. ASSUME NEW s \in DOMAIN tasks, QueueResearch(s), Grows("research", NoGoal, s) PROVE t \in DOMAIN tasks
    <3>1. ~tasks[s].cancel
      BY <2>3 DEF QueueResearch, ClosedParent
    <3> QED BY <2>3, <3>1 DEF Grows
  <2> QED BY <2>1, <2>2, <2>3 DEF TasksStep
<1> DEFINE p == tasks[t].parent
<1>2. Astray(t) /\ tasks[t].kind = "research" /\ tasks'[t].parent = p /\ p \in DOMAIN tasks
  BY <1>1, AstrayAfter DEF RowsOK
<1> HIDE DEF p
<1>3. ASSUME tasks[p].cancel
      PROVE  \E d \in Terminals : t \in sweep[d].todo \/ (sweep[d].at = "children" /\ sweep[d].parent = p)
  BY <1>1, <1>2, <1>3 DEF ReachingOK, OnTheWay, p
<1>4. ASSUME NEW d \in Terminals, t \in sweep'[d].todo \/ (sweep'[d].at = "children" /\ sweep'[d].parent = p)
      PROVE  OnTheWay(t)'
  BY <1>2, <1>4 DEF OnTheWay
<1>5. CASE UNCHANGED sweep /\ ~\E c \in Terminals : CancelTask(c) /\ ~UNCHANGED tasks
  <2>1. tasks[p].cancel
    <3>1. CASE CancelsKept
      BY <1>2, <3>1 DEF CancelsKept
    <3>2. CASE ~CancelsKept
      <4>1. CASE UNCHANGED tasks
        BY <1>2, <4>1
      <4>2. CASE Stays /\ ~UNCHANGED tasks
        BY <1>5, <3>2, <4>2 DEF TasksStep, Stays, Grows
      <4>3. ASSUME NEW kind, NEW goal, NEW q, Grows(kind, goal, q) PROVE CancelsKept
        BY <4>3 DEF Grows, CancelsKept
      <4> QED BY <3>2, <4>1, <4>2, <4>3 DEF TasksStep
    <3> QED BY <3>1, <3>2
  <2> QED BY <1>3, <1>4, <1>5, <2>1
<1>6. ASSUME NEW c \in Terminals, Begins(c) \/ ListSessions(c) \/ ListChildren(c) \/ Return(c)
      PROVE  OnTheWay(t)'
  <2>1. UNCHANGED tasks
    BY <1>6 DEF Begins, ListSessions, ListChildren, Return
  <2>2. PICK d \in Terminals : t \in sweep[d].todo \/ (sweep[d].at = "children" /\ sweep[d].parent = p)
    BY <1>2, <1>3, <2>1
  <2>3. CASE d # c
    BY <1>4, <1>6, <2>2, <2>3, SweepEntries
  <2>4. CASE d = c
    <3>1. CASE ListChildren(c)
      <4>1. t \in LiveChildren(tasks, p)
        BY <1>1, <1>2 DEF LiveChildren, p, Astray
      <4> QED BY <1>4, <2>2, <2>4, <3>1, <4>1, SweepEntries
    <3>2. CASE Begins(c) \/ ListSessions(c) \/ Return(c)
      <4>1. sweep[c].todo = {} /\ sweep[c].at # "children"
        BY <3>2 DEF Begins, Ready, ListSessions, Return, SweepOK
      <4> QED BY <2>2, <2>4, <4>1
    <3> QED BY <1>6, <3>1, <3>2
  <2> QED BY <2>3, <2>4
<1>7. ASSUME NEW c \in Terminals, CancelTask(c) PROVE OnTheWay(t)'
  <2>1. PICK x \in sweep[c].todo :
              /\ sweep[c].at = "cancel" /\ sweep'[c].todo = sweep[c].todo \ {x}
              /\ \A u \in DOMAIN tasks \ {x} : tasks'[u] = tasks[u]
              /\ IF Live(tasks[x]) THEN sweep'[c].at = "children" /\ sweep'[c].parent = x /\ tasks'[x].cancel
                                   ELSE sweep'[c].at = "cancel" /\ UNCHANGED tasks
    BY <1>7, CancelEntry
  <2>2. t # x
    BY <1>2, <2>1 DEF Astray
  <2>3. CASE p = x /\ Live(tasks[x])
    BY <1>4, <2>1, <2>3
  <2>4. CASE ~(p = x /\ Live(tasks[x]))
    <3>1. tasks[p].cancel
      BY <1>2, <2>1, <2>4
    <3>2. PICK d \in Terminals : t \in sweep[d].todo \/ (sweep[d].at = "children" /\ sweep[d].parent = p)
      BY <1>3, <3>1
    <3>3. CASE d # c
      BY <1>4, <1>7, <3>2, <3>3, SweepEntries
    <3>4. CASE d = c
      BY <1>4, <2>1, <2>2, <3>2, <3>4
    <3> QED BY <3>3, <3>4
  <2> QED BY <2>3, <2>4
<1> QED BY <1>5, <1>6, <1>7 DEF SweepMoves

----------------------------------------------------------------------------
(* The theorems about curiosity.                                           *)

CuriosityInv ==
    /\ Typed /\ RowsOK /\ QuietOK /\ WindowOK
    /\ OneSession
    /\ SessionsApart /\ SessionsADay /\ Cardinality(Lost) <= crashes
    /\ SweepOK /\ AheadOK /\ ReachingOK

LEMMA CuriosityBegins == Init => CuriosityInv
<1> SUFFICES ASSUME Init PROVE CuriosityInv
  OBVIOUS
<1>1. Typed
  BY TypedInit
<1>2. DOMAIN tasks = {} /\ Len(tasks) = 0 /\ DOMAIN sessions = {} /\ crashes = 0
  BY DEF Init
<1>3. check.at = "off" /\ \A c \in Terminals : sweep[c].at = "off" /\ sweep[c].todo = {} /\ sweep[c].seen = 0
  BY DEF Init, NoCheck, NoSweep
<1>4. QuietOK /\ WindowOK
  BY <1>3 DEF QuietOK, WindowOK
<1>5. RowsOK /\ OneSession /\ ReachingOK
  BY <1>2 DEF RowsOK, OneSession, ReachingOK
<1>6. SweepOK /\ AheadOK
  BY <1>2, <1>3 DEF SweepOK, AheadOK
<1>7. SessionsApart /\ SessionsADay
  BY <1>2 DEF SessionsApart, SessionsADay
<1>8. Cardinality(Lost) <= crashes
  <2>1. Lost = {}
    BY <1>2 DEF Lost, Unrecorded, Curious
  <2> QED BY <1>2, <2>1, FS_EmptySet
<1> QED BY <1>1, <1>4, <1>5, <1>6, <1>7, <1>8 DEF CuriosityInv

LEMMA CuriosityStep == CuriosityInv /\ [Next]_curiosityVars => CuriosityInv'
<1> SUFFICES ASSUME CuriosityInv, [Next]_curiosityVars PROVE CuriosityInv'
  OBVIOUS
<1>0. Typed /\ RowsOK /\ QuietOK /\ WindowOK /\ OneSession /\ SweepOK /\ AheadOK /\ ReachingOK
  BY DEF CuriosityInv
<1>1. Typed' /\ TasksStep
  BY <1>0, TypedKept
<1>2. CheckMoves /\ SweepMoves
  BY <1>0, CheckAfter, SweepAfter
<1>3. RowsOK' /\ QuietOK' /\ WindowOK' /\ OneSession'
  BY <1>0, <1>1, <1>2, RowsKept, QuietKept, WindowKept, OneSessionKept
<1>4. SweepOK' /\ AheadOK' /\ ReachingOK'
  BY <1>0, <1>1, <1>2, SweepKept, AheadKept, ReachingKept
<1>5. SessionsApart' /\ SessionsADay'
  <2>1. CASE RecordSession
    BY <1>0, <2>1, ApartKept, ADayKept DEF CuriosityInv
  <2>2. CASE UNCHANGED sessions
    BY <2>2 DEF CuriosityInv, SessionsApart, SessionsADay, SessionsOn
  <2> QED BY <1>2, <2>1, <2>2, SessionsAfter
<1>6. (Cardinality(Lost) <= crashes)'
  BY <1>0, <1>1, <1>2, LostKept DEF CuriosityInv
<1> QED BY <1>1, <1>3, <1>4, <1>5, <1>6 DEF CuriosityInv

LEMMA CuriosityAlways == Spec => []CuriosityInv
BY CuriosityBegins, CuriosityStep, PTL DEF Spec

(* One exploration at a time, for any terminals, times, crashes and goals: *)
(* no session and no research comes alive between the scheduler's look at  *)
(* the tasks and its insertion, whatever else does, and a session queues   *)
(* one child, while it is alive.                                           *)
THEOREM ExploresOneThing == Spec => []OneSession
<1>1. CuriosityInv => OneSession
  BY DEF CuriosityInv
<1> QED BY <1>1, CuriosityAlways, PTL

(* The allowance, for any interval, day, daily limit and crashes: the time *)
(* that a check looked at is the time it records, so what was allowed then *)
(* is allowed when it is recorded.                                         *)
THEOREM AllowanceIsKept == Spec => []SessionLimits
<1>1. CuriosityInv => SessionLimits
  BY DEF CuriosityInv, SessionLimits, Lost
<1> QED BY <1>1, CuriosityAlways, PTL

(* The owner's word reaches the work under way, for any terminals that     *)
(* interrupt at the same time and any types of goals: what a listing saw   *)
(* has ended or is flagged when the call returns, and the research of a    *)
(* flagged session never slips past all the terminals.                     *)
THEOREM CancellationReachesWork == Spec => []SweepsReach
<1>1. CuriosityInv => SweepsReach
  <2> SUFFICES ASSUME CuriosityInv PROVE SweepsReach
    OBVIOUS
  <2>1. ASSUME NEW c \in Terminals, sweep[c].at = "done",
               NEW t \in DOMAIN tasks, t <= sweep[c].seen, Live(tasks[t]), SelfDirected(tasks[t])
        PROVE  tasks[t].cancel
    <3>1. sweep[c].todo = {} /\ \A u \in DOMAIN tasks : Astray(u) => u > sweep[c].seen
      BY <2>1 DEF CuriosityInv, SweepOK, AheadOK
    <3>2. t \in Nat /\ sweep[c].seen \in Nat
      BY <2>1, CuriosityBounds DEF CuriosityInv, Typed, SweepOf
    <3> QED BY <2>1, <3>1, <3>2 DEF Astray
  <2>2. ASSUME NEW t \in DOMAIN tasks, tasks[t].kind = "research", tasks[tasks[t].parent].cancel,
               Live(tasks[t]), ~tasks[t].cancel
        PROVE  OnTheWay(t)
    BY <2>2, Origins DEF CuriosityInv, ReachingOK, Astray
  <2> QED BY <2>1, <2>2 DEF SweepsReach
<1> QED BY <1>1, CuriosityAlways, PTL

----------------------------------------------------------------------------
(* The owner's word and the check it arrives in.                           *)

(* A check that follows an overtaken word stops at it: at the setting, or  *)
(* at the inbox.                                                           *)
AgainstOK ==
    /\ against \in [pause : {0, 1}, message : {0, 1}]
    /\ against.pause = 1 => check.at \in {"off", "record"}
    /\ against.message = 1 => check.at \in {"off", "inbox", "record"}

LEMMA BegunIsEnqueued == ASSUME Typed, [Next]_curiosityVars, Begun PROVE EnqueueSession
<1>1. TasksStep /\ Typed'
  BY TypedKept
<1>2. DOMAIN tasks = 1..Len(tasks) /\ DOMAIN tasks' = 1..Len(tasks') /\ Len(tasks) \in Nat /\ Len(tasks') \in Nat
  BY <1>1 DEF Typed
<1>3. Len(tasks') \in 1..Len(tasks') /\ Len(tasks') \notin 1..Len(tasks)
  BY <1>2 DEF Begun
<1>4. ~Stays
  BY <1>2, <1>3 DEF Stays
<1>5. ASSUME NEW kind, NEW goal, NEW p, Grows(kind, goal, p) PROVE kind = "curiosity"
  <2>1. 1..Len(tasks') = 1..Len(tasks) \cup {Len(tasks) + 1} /\ tasks'[Len(tasks) + 1].kind = kind
    BY <1>2, <1>5 DEF Grows
  <2>2. Len(tasks') = Len(tasks) + 1
    BY <1>3, <2>1
  <2> QED BY <2>1, <2>2 DEF Begun
<1> QED BY <1>1, <1>4, <1>5 DEF TasksStep

LEMMA AgainstKept ==
    ASSUME Typed, AgainstOK, [WatchedNext]_watchedVars
    PROVE  AgainstOK'
<1>0. [Next]_curiosityVars
  BY DEF WatchedNext, watchedVars
<1>1. CheckMoves /\ check \in ChecksOf(DOMAIN tasks)
  BY <1>0, CheckAfter DEF Typed
<1>2. CASE UNCHANGED watchedVars
  BY <1>2 DEF AgainstOK, watchedVars, curiosityVars
<1>3. ASSUME against' = [pause   |-> Counted(against.pause, ~enabled'),
                         message |-> Counted(against.message, Pending' # {})]
      PROVE  AgainstOK'
  <2>1. /\ against'.pause = Counted(against.pause, ~enabled')
        /\ against'.message = Counted(against.message, Pending' # {})
        /\ against.pause \in {0, 1} /\ against.message \in {0, 1}
        /\ against' \in [pause : {against'.pause}, message : {against'.message}]
    BY <1>3 DEF AgainstOK
  <2>2. CASE EnqueueSession
    <3>1. check.at = "enqueue" /\ check'.at = "record"
      BY <1>1, <2>2 DEF EnqueueSession, ChecksOf
    <3>2. against.pause = 0 /\ against.message = 0
      BY <2>1, <3>1 DEF AgainstOK
    <3> QED BY <2>1, <3>1, <3>2 DEF Counted, AgainstOK
  <2>3. CASE ~EnqueueSession
    <3>1. /\ against'.pause = IF enabled' THEN 0 ELSE against.pause
          /\ against'.message = IF Pending' = {} THEN 0 ELSE against.message
      BY <1>0, <2>1, <2>3, BegunIsEnqueued DEF Counted
    <3>2. CASE UNCHANGED check \/ check' = NoCheck
      BY <2>1, <3>1, <3>2, NoCheckIsOff DEF AgainstOK
    <3>3. CASE BeginCheck
      <4>1. enabled' /\ check'.at = "inbox"
        BY <3>3 DEF BeginCheck, MayBegin, NoCheck
      <4> QED BY <2>1, <3>1, <4>1 DEF AgainstOK
    <3>4. CASE check.at = "inbox" /\ Pending = {} /\ UNCHANGED inbox
      <4>1. Pending' = {} /\ against.pause = 0
        BY <2>1, <3>4 DEF Pending, AgainstOK
      <4> QED BY <2>1, <3>1, <4>1 DEF AgainstOK
    <3>5. CASE check.at \in {"live", "window"}
      <4>1. against.pause = 0 /\ against.message = 0
        BY <2>1, <3>5 DEF AgainstOK
      <4> QED BY <2>1, <3>1, <4>1 DEF AgainstOK
    <3> QED BY <1>1, <2>3, <3>2, <3>3, <3>4, <3>5 DEF CheckMoves
  <2> QED BY <2>2, <2>3
<1> QED BY <1>2, <1>3 DEF WatchedNext

(* However often curiosity is paused, messages arrive, checks begin and    *)
(* the runtime crashes: against one word of the owner one session begins.  *)
THEOREM WordIsOvertakenOnce == WatchedSpec => []OvertakenOnce
<1>1. WatchedInit => Typed /\ AgainstOK
  BY TypedInit DEF WatchedInit, AgainstOK
<1>2. Typed /\ AgainstOK /\ [WatchedNext]_watchedVars => (Typed /\ AgainstOK)'
  <2> SUFFICES ASSUME Typed, AgainstOK, [WatchedNext]_watchedVars PROVE Typed' /\ AgainstOK'
    OBVIOUS
  <2>1. [Next]_curiosityVars
    BY DEF WatchedNext, watchedVars
  <2> QED BY <2>1, TypedKept, AgainstKept
<1>3. AgainstOK => OvertakenOnce
  BY DEF AgainstOK, OvertakenOnce
<1> QED BY <1>1, <1>2, <1>3, PTL DEF WatchedSpec

----------------------------------------------------------------------------
(* The types of the control.                                               *)

(* A watchdog about to start a runtime has an attempt left.                *)
AttemptsLeft ==
    \A w \in Watchdogs : /\ watchdog[w] \in {"none", "lock"} => attempt[w] = 0
                         /\ watchdog[w] = "spawn" => attempt[w] < Attempts

ControlInv == ControlTypeOK /\ AttemptsLeft

LEMMA ControlBegins == ControlInit => ControlInv
BY AttemptsAssumption, ControlBounds DEF ControlInit, ControlInv, ControlTypeOK, AttemptsLeft, NoRow

LEMMA ControlKept == ControlInv /\ [ControlNext]_controlVars => ControlInv'
<1> SUFFICES ASSUME ControlInv, [ControlNext]_controlVars PROVE ControlInv'
  OBVIOUS
<1>1. Attempts \in Nat /\ Attempts > 0 /\ MaxStops \in Nat /\ MaxCrashes \in Nat /\ ControlTypeOK /\ AttemptsLeft
  BY AttemptsAssumption, ControlBounds DEF ControlInv
<1>2. ASSUME UNCHANGED <<watchdog, attempt>> PROVE AttemptsLeft'
  BY <1>1, <1>2 DEF AttemptsLeft
<1>3. Flag(TRUE) \in {NoRow} \cup [of : Watchdogs, stop : BOOLEAN]
      /\ Flag(FALSE) \in {NoRow} \cup [of : Watchdogs, stop : BOOLEAN]
  BY <1>1 DEF Flag, ControlTypeOK
<1>4. \A w \in Watchdogs : Unlocked(w) \in {NoOne} \cup Watchdogs \cup Clients
  BY <1>1 DEF Unlocked, ControlTypeOK
<1>5. CASE UNCHANGED controlVars
  BY <1>1, <1>2, <1>5 DEF controlVars, ControlTypeOK, ControlInv
<1>6. CASE StopCommand
  <2>1. heard' \in SUBSET Watchdogs
    <3>1. row # NoRow => row.of \in Watchdogs
      BY <1>1 DEF ControlTypeOK
    <3>2. heard' = heard \/ (heard' = heard \cup {row.of} /\ row # NoRow)
      BY <1>6 DEF StopCommand
    <3> QED BY <1>1, <3>1, <3>2 DEF ControlTypeOK
  <2>2. stops' \in 0..MaxStops /\ row' = Flag(TRUE)
        /\ UNCHANGED <<lock, wlock, client, watchdog, attempt, run, failures>>
    BY <1>1, <1>6 DEF StopCommand, ControlTypeOK
  <2> QED BY <1>1, <1>2, <1>3, <2>1, <2>2 DEF ControlTypeOK, ControlInv
<1>7. ASSUME NEW c \in Clients, ClientStep(c) PROVE ControlInv'
  <2>1. CASE Ensure(c) \/ Probe(c) \/ EndProbe(c)
    <3>1. ControlTypeOK'
      BY <1>1, <2>1 DEF Ensure, Probe, EndProbe, ControlTypeOK
    <3> QED BY <1>2, <2>1, <3>1 DEF Ensure, Probe, EndProbe, ControlInv
  <2>2. CASE Clear(c)
    <3>1. ControlTypeOK'
      BY <1>1, <1>3, <2>2 DEF Clear, ControlTypeOK
    <3> QED BY <1>2, <2>2, <3>1 DEF Clear, ControlInv
  <2>3. CASE Launch(c)
    <3>1. ControlTypeOK'
      BY <1>1, <2>3 DEF Launch, ControlTypeOK
    <3>2. AttemptsLeft'
      BY <1>1, <2>3 DEF Launch, ControlTypeOK, AttemptsLeft
    <3> QED BY <3>1, <3>2 DEF ControlInv
  <2> QED BY <1>7, <2>1, <2>2, <2>3 DEF ClientStep
<1>8. ASSUME NEW w \in Watchdogs, WatchdogStep(w) PROVE ControlInv'
  <2>1. CASE WatchdogLock(w) \/ WaitExit(w) \/ ReadStop(w) \/ Wake(w)
    <3>1. ControlTypeOK'
      BY <1>1, <2>1 DEF WatchdogLock, WaitExit, ReadStop, Wake, ControlTypeOK
    <3>2. AttemptsLeft'
      BY <1>1, <2>1 DEF WatchdogLock, WaitExit, ReadStop, Wake, ControlTypeOK, AttemptsLeft
    <3> QED BY <3>1, <3>2 DEF ControlInv
  <2>2. CASE Spawn(w)
    <3>1. attempt[w] + 1 \in 0..Attempts
      BY <1>1, <2>2 DEF Spawn, ControlTypeOK, AttemptsLeft
    <3>2. ControlTypeOK'
      BY <1>1, <2>2, <3>1 DEF Spawn, ControlTypeOK
    <3>3. AttemptsLeft'
      BY <1>1, <2>2 DEF Spawn, ControlTypeOK, AttemptsLeft
    <3> QED BY <3>2, <3>3 DEF ControlInv
  <2> QED BY <1>8, <2>1, <2>2 DEF WatchdogStep
<1>9. ASSUME NEW w \in Watchdogs, RuntimeStep(w) PROVE ControlInv'
  <2>1. UNCHANGED <<watchdog, attempt>>
    BY <1>9 DEF RuntimeStep, Boot, Online, HeedStop, Close
  <2>2. CASE Boot(w) \/ HeedStop(w)
    BY <1>1, <1>2, <2>1, <2>2 DEF Boot, HeedStop, ControlTypeOK, ControlInv
  <2>3. CASE Online(w)
    <3>1. row' \in [of : Watchdogs, stop : BOOLEAN] /\ heard' \in SUBSET Watchdogs
      BY <1>1, <2>3 DEF Online, ControlTypeOK
    <3> QED BY <1>1, <1>2, <2>1, <2>3, <3>1 DEF Online, ControlTypeOK, ControlInv
  <2>4. CASE Close(w)
    <3>1. run' \in [Watchdogs -> {"none", "start", "boot", "serve", "closing0", "closing1", "exit0", "exit1"}]
      BY <1>1, <2>4 DEF Close, ControlTypeOK
    <3> QED BY <1>1, <1>2, <1>4, <2>1, <2>4, <3>1 DEF Close, ControlTypeOK, ControlInv
  <2> QED BY <1>9, <2>2, <2>3, <2>4 DEF RuntimeStep
<1>10. ASSUME NEW w \in Watchdogs, Disturbance(w) PROVE ControlInv'
  <2>1. ControlTypeOK'
    BY <1>1, <1>4, <1>10 DEF Disturbance, KillWatchdog, LeaveLoop, CrashRuntime, ControlTypeOK
  <2>2. AttemptsLeft'
    BY <1>1, <1>2, <1>10 DEF Disturbance, KillWatchdog, LeaveLoop, CrashRuntime, ControlTypeOK, AttemptsLeft
  <2> QED BY <2>1, <2>2 DEF ControlInv
<1> QED BY <1>5, <1>6, <1>7, <1>8, <1>9, <1>10 DEF ControlNext

(* The tables, the checks and the sweeps stay among the values the code    *)
(* gives them.                                                             *)
THEOREM CuriosityTypeCorrect == Spec => []TypeOK
<1>1. CuriosityInv => TypeOK
  BY TypedIsTypeOK DEF CuriosityInv
<1> QED BY <1>1, CuriosityAlways, PTL

(* So do the row, the locks and the processes of the control.              *)
THEOREM ControlTypeCorrect == ControlSpec => []ControlTypeOK
<1>1. ControlInv => ControlTypeOK
  BY DEF ControlInv
<1> QED BY <1>1, ControlBegins, ControlKept, PTL DEF ControlSpec

----------------------------------------------------------------------------
(* One runtime at a time, and a stop that stands.                          *)

(* The lock is where it should be: with the runtime that is past it, or    *)
(* with the probe; the row names the runtime that is online; a runtime at  *)
(* work is waited for, or has lost its watchdog.                           *)
RuntimesOK ==
    /\ \A w \in Watchdogs :
          /\ Supervises(w) => lock = w
          /\ run[w] \in {"serve", "closing0", "closing1"} => row.of = w
          /\ Running(w) => watchdog[w] \in {"wait", "gone"}
    /\ \A c \in Clients : client[c] = "probing" => lock = c

HoldInv == ControlTypeOK /\ RuntimesOK /\ StopHolds

LEMMA SomebodyElse == NoOne \notin Clients /\ NoOne \notin Watchdogs /\ \A c \in Clients : c \notin Watchdogs
BY DistinctProcesses DEF NoOne

LEMMA HoldBegins == ControlInit => RuntimesOK /\ StopHolds
BY DEF ControlInit, RuntimesOK, StopHolds, Supervises, Running

LEMMA StopHeard == ASSUME HoldInv, StopCommand PROVE RuntimesOK' /\ StopHolds'
<1>1. UNCHANGED <<lock, client, watchdog, run>>
  BY DEF StopCommand
<1>2. CASE row = NoRow
  <2>1. heard = {} /\ heard' = {} /\ row' = row
    BY <1>2, SomebodyElse DEF HoldInv, ControlTypeOK, StopHolds, StopCommand, Flag, NoRow
  <2> QED BY <1>1, <2>1 DEF HoldInv, RuntimesOK, StopHolds, Supervises, Running
<1>3. CASE row # NoRow
  <2>1. row \in [of : Watchdogs, stop : BOOLEAN] /\ row' = [row EXCEPT !.stop = TRUE]
    BY <1>3 DEF HoldInv, ControlTypeOK, StopCommand, Flag
  <2>2. row' = [of |-> row.of, stop |-> TRUE]
    BY <2>1
  <2>3. \A w \in heard' : w = row.of /\ (w \in heard \/ run[w] = "serve")
    BY <1>3 DEF StopCommand, HoldInv, StopHolds
  <2>4. StopHolds'
    BY <1>1, <2>1, <2>2, <2>3 DEF HoldInv, StopHolds, RuntimesOK, Running
  <2>5. RuntimesOK'
    BY <1>1, <2>2 DEF HoldInv, RuntimesOK, Supervises, Running
  <2> QED BY <2>4, <2>5
<1> QED BY <1>2, <1>3

LEMMA ClientHolds == ASSUME HoldInv, NEW c \in Clients, ClientStep(c) PROVE RuntimesOK' /\ StopHolds'
<1>1. CASE Ensure(c) \/ Launch(c)
  <2>1. UNCHANGED <<row, lock, run, heard>> /\ \A d \in Clients : client'[d] = "probing" => client[d] = "probing"
    BY <1>1 DEF Ensure, Launch, HoldInv, ControlTypeOK
  <2>2. \A w \in Watchdogs : watchdog'[w] = watchdog[w] \/ watchdog[w] = "none"
    BY <1>1 DEF Ensure, Launch, HoldInv, ControlTypeOK
  <2> QED BY <2>1, <2>2 DEF HoldInv, RuntimesOK, StopHolds, Supervises, Running, ControlTypeOK
<1>2. CASE Probe(c)
  <2>1. UNCHANGED <<row, watchdog, run, heard>>
    BY <1>2 DEF Probe
  <2>2. CASE lock = NoOne
    <3>1. \A w \in Watchdogs : ~Supervises(w)
      BY <2>2, SomebodyElse DEF HoldInv, RuntimesOK
    <3>2. \A d \in Clients : client'[d] = "probing" => d = c
      BY <1>2, <2>2, SomebodyElse DEF Probe, HoldInv, RuntimesOK, ControlTypeOK
    <3> QED BY <1>2, <2>1, <2>2, <3>1, <3>2 DEF Probe, HoldInv, RuntimesOK, StopHolds, Supervises, Running
  <2>3. CASE lock # NoOne
    <3>1. UNCHANGED lock /\ \A d \in Clients : client'[d] = "probing" => client[d] = "probing"
      BY <1>2, <2>3 DEF Probe, HoldInv, ControlTypeOK
    <3> QED BY <2>1, <3>1 DEF HoldInv, RuntimesOK, StopHolds, Supervises, Running
  <2> QED BY <2>2, <2>3
<1>3. CASE EndProbe(c)
  <2>1. UNCHANGED <<row, watchdog, run, heard>> /\ lock = c
    BY <1>3 DEF EndProbe, HoldInv, RuntimesOK
  <2>2. \A w \in Watchdogs : ~Supervises(w)
    BY <2>1, SomebodyElse DEF HoldInv, RuntimesOK
  <2>3. \A d \in Clients : client'[d] # "probing"
    BY <1>3, <2>1 DEF EndProbe, HoldInv, RuntimesOK, ControlTypeOK
  <2> QED BY <2>1, <2>2, <2>3 DEF HoldInv, RuntimesOK, StopHolds, Supervises, Running
<1>4. CASE Clear(c)
  <2>1. UNCHANGED <<lock, watchdog, run>> /\ heard' = {} /\ row' = Flag(FALSE)
        /\ \A d \in Clients : client'[d] = "probing" => client[d] = "probing"
    BY <1>4 DEF Clear, HoldInv, ControlTypeOK
  <2>2. row'.of = row.of
    BY <2>1 DEF Flag, HoldInv, ControlTypeOK, NoRow
  <2> QED BY <2>1, <2>2 DEF HoldInv, RuntimesOK, StopHolds, Supervises, Running
<1> QED BY <1>1, <1>2, <1>3, <1>4 DEF ClientStep

LEMMA WatchdogHolds == ASSUME HoldInv, NEW w \in Watchdogs, WatchdogStep(w) \/ KillWatchdog(w) PROVE RuntimesOK' /\ StopHolds'
<1>1. UNCHANGED <<row, lock, client, heard>>
  BY DEF WatchdogStep, WatchdogLock, Spawn, WaitExit, ReadStop, Wake, KillWatchdog
<1>2. \A v \in Watchdogs \ {w} : watchdog'[v] = watchdog[v] /\ run'[v] = run[v]
  BY DEF WatchdogStep, WatchdogLock, Spawn, WaitExit, ReadStop, Wake, KillWatchdog, HoldInv, ControlTypeOK
<1>3. w \in heard => row.stop
  BY DEF HoldInv, StopHolds
<1>4. CASE Spawn(w)
  <2>1. w \notin heard /\ run'[w] = "start" /\ watchdog'[w] = "wait"
    BY <1>4 DEF Spawn, HoldInv, StopHolds, ControlTypeOK
  <2>2. RuntimesOK'
    BY <1>1, <1>2, <2>1 DEF HoldInv, RuntimesOK, Supervises, Running
  <2>3. StopHolds'
    BY <1>1, <1>2, <2>1 DEF HoldInv, ControlTypeOK, StopHolds
  <2> QED BY <2>2, <2>3
<1>5. CASE ~Spawn(w)
  <2>1. run' = run
    BY <1>5 DEF WatchdogStep, WatchdogLock, WaitExit, ReadStop, Wake, KillWatchdog
  <2>2. Running(w) => watchdog'[w] \in {"wait", "gone"}
    BY <1>5 DEF WatchdogStep, WatchdogLock, WaitExit, ReadStop, Wake, KillWatchdog, HoldInv, RuntimesOK, ControlTypeOK
  <2>3. w \in heard => row # NoRow
    BY SomebodyElse DEF HoldInv, StopHolds, NoRow, ControlTypeOK
  <2>4. w \in heard => watchdog'[w] \in {"wait", "read", "gone"}
    BY <1>3, <1>5, <2>3 DEF WatchdogStep, WatchdogLock, WaitExit, ReadStop, NoRestart, Wake, KillWatchdog,
       HoldInv, StopHolds, ControlTypeOK
  <2>5. RuntimesOK'
    BY <1>1, <1>2, <2>1, <2>2 DEF HoldInv, RuntimesOK, Supervises, Running
  <2>6. StopHolds'
    BY <1>1, <1>2, <2>1, <2>4 DEF HoldInv, ControlTypeOK, StopHolds
  <2> QED BY <2>5, <2>6
<1> QED BY <1>4, <1>5

LEMMA RuntimeHolds ==
  ASSUME HoldInv, NEW w \in Watchdogs, RuntimeStep(w) \/ LeaveLoop(w) \/ CrashRuntime(w)
  PROVE  RuntimesOK' /\ StopHolds'
<1>1. UNCHANGED <<client, watchdog>> /\ \A v \in Watchdogs \ {w} : run'[v] = run[v]
  BY DEF RuntimeStep, Boot, Online, HeedStop, Close, LeaveLoop, CrashRuntime, HoldInv, ControlTypeOK
<1>2. CASE Boot(w) /\ lock = NoOne
  <2>1. \A v \in Watchdogs : ~Supervises(v)
    BY <1>2, SomebodyElse DEF HoldInv, RuntimesOK
  <2>2. w \notin heard /\ run'[w] = "boot" /\ lock' = w /\ watchdog[w] \in {"wait", "gone"}
    BY <1>2 DEF Boot, HoldInv, StopHolds, RuntimesOK, Running, ControlTypeOK
  <2>3. \A c \in Clients : client[c] # "probing"
    BY <1>2, SomebodyElse DEF HoldInv, RuntimesOK
  <2>4. UNCHANGED <<row, heard>>
    BY <1>2 DEF Boot
  <2>5. RuntimesOK'
    BY <1>1, <2>1, <2>2, <2>3, <2>4 DEF HoldInv, RuntimesOK, Supervises, Running
  <2>6. StopHolds'
    BY <1>1, <2>2, <2>4 DEF HoldInv, ControlTypeOK, StopHolds
  <2> QED BY <2>5, <2>6
<1>3. CASE Online(w)
  <2>1. lock = w /\ w \notin heard /\ run'[w] = "serve" /\ row'.of = w /\ lock' = lock
    BY <1>3 DEF Online, HoldInv, StopHolds, RuntimesOK, Supervises, ControlTypeOK
  <2>2. heard' = {}
    BY <1>3, <2>1 DEF Online
  <2>3. \A v \in Watchdogs \ {w} : ~Supervises(v)
    BY <2>1 DEF HoldInv, RuntimesOK
  <2>4. StopHolds'
    BY <2>2 DEF StopHolds
  <2>5. Running(w) /\ \A c \in Clients : client[c] # "probing"
    BY <1>3, <2>1, SomebodyElse DEF Online, HoldInv, RuntimesOK, Running
  <2>6. RuntimesOK'
    BY <1>1, <2>1, <2>3, <2>5 DEF HoldInv, RuntimesOK, Supervises, Running
  <2> QED BY <2>4, <2>6
<1>4. CASE HeedStop(w) \/ LeaveLoop(w)
  <2>1. run[w] = "serve" /\ run'[w] \in {"closing0", "closing1"} /\ UNCHANGED <<row, lock, heard>>
    BY <1>4 DEF HeedStop, LeaveLoop, HoldInv, ControlTypeOK
  <2> QED BY <1>1, <2>1 DEF HoldInv, RuntimesOK, StopHolds, Supervises, Running
<1>5. CASE Close(w) \/ CrashRuntime(w) \/ (Boot(w) /\ lock # NoOne)
  <2>1. run'[w] \in {"exit0", "exit1"} /\ UNCHANGED <<row, heard>>
    BY <1>5 DEF Close, CrashRuntime, Boot, HoldInv, ControlTypeOK
  <2>2. lock' = lock \/ (lock = w /\ lock' = NoOne)
    BY <1>5 DEF Close, CrashRuntime, Boot, Unlocked
  <2>3. \A v \in Watchdogs : v # w /\ Supervises(v) => lock' = v
    BY <2>2 DEF HoldInv, RuntimesOK
  <2>4. \A c \in Clients : client[c] = "probing" => lock' = c
    BY <2>2, SomebodyElse DEF HoldInv, RuntimesOK
  <2>5. w \in heard => run'[w] \in {"serve", "closing0", "closing1", "exit0", "exit1"}
    BY <2>1
  <2>6. StopHolds'
    BY <1>1, <2>1, <2>5 DEF HoldInv, ControlTypeOK, StopHolds
  <2>7. RuntimesOK'
    BY <1>1, <2>1, <2>3, <2>4 DEF HoldInv, RuntimesOK, Supervises, Running
  <2> QED BY <2>6, <2>7
<1> QED BY <1>2, <1>3, <1>4, <1>5 DEF RuntimeStep, Boot

LEMMA HoldKeeps == ControlInv /\ RuntimesOK /\ StopHolds /\ [ControlNext]_controlVars => (RuntimesOK /\ StopHolds)'
<1> SUFFICES ASSUME ControlInv, RuntimesOK, StopHolds, [ControlNext]_controlVars PROVE RuntimesOK' /\ StopHolds'
  OBVIOUS
<1>1. HoldInv
  BY DEF HoldInv, ControlInv
<1>2. CASE UNCHANGED controlVars
  BY <1>1, <1>2 DEF controlVars, HoldInv, RuntimesOK, StopHolds, Supervises, Running
<1>3. CASE ControlNext
  BY <1>1, <1>3, StopHeard, ClientHolds, WatchdogHolds, RuntimeHolds DEF ControlNext, Disturbance
<1> QED BY <1>2, <1>3

LEMMA HoldAlways == ControlSpec => [](ControlInv /\ RuntimesOK /\ StopHolds)
<1>1. ControlInit => ControlInv /\ RuntimesOK /\ StopHolds
  BY ControlBegins, HoldBegins
<1>2. ControlInv /\ RuntimesOK /\ StopHolds /\ [ControlNext]_controlVars => (ControlInv /\ RuntimesOK /\ StopHolds)'
  BY ControlKept, HoldKeeps
<1> QED BY <1>1, <1>2, PTL DEF ControlSpec

(* However many clients start it, whatever fails and whoever is killed:    *)
(* one runtime at a time works on the database.                            *)
THEOREM RuntimeIsAlone == ControlSpec => []OneRuntime
<1>1. RuntimesOK => OneRuntime
  BY DEF RuntimesOK, OneRuntime
<1> QED BY <1>1, HoldAlways, PTL

(* A stop request that was heard stands, and no watchdog is about to undo  *)
(* it: the part of StopStops that is no matter of time.                    *)
THEOREM StopStands == ControlSpec => []StopHolds
BY HoldAlways, PTL

=============================================================================
