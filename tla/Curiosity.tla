------------------------------ MODULE Curiosity ------------------------------
(***************************************************************************)
(* Autonomous curiosity (src/lilith/service.py): the service's scheduler,  *)
(* whose checks are separate reads, the owner's terminals, whose messages  *)
(* and pauses cancel what is under way one task at a time, the workers     *)
(* that execute the sessions, the research they queue and the replies, and *)
(* the supervisor, who queues the tasks of active goals.  The tasks table  *)
(* and its transactions are those of TaskTable.                            *)
(***************************************************************************)
EXTENDS TaskTable

CONSTANTS Terminals,    \* the owner's clients
          GoalType,     \* the type of each goal
          Idle,         \* idle_seconds, in ticks of the clock
          Interval,     \* interval_seconds
          Day,          \* the ticks of a date
          Daily,        \* daily_sessions
          MaxClock, MaxTasks, MaxEvents \* bounds: time, tasks, interventions and crashes

GOAL_TYPES == {"owner", "shared", "self_directed", "maintenance"}

ASSUME CuriosityGoals == GoalType \in [GoalIds -> GOAL_TYPES]
ASSUME CuriosityLimits == {Idle, Interval, Day, Daily} \subseteq Nat \ {0}
ASSUME CuriosityPriorities == {5, 50, 100} \subseteq Priorities
ASSUME CuriosityBounds == {MaxClock, MaxTasks, MaxEvents} \subseteq Nat

VARIABLES
    tasks,      \* the tasks table
    inbox,      \* the inbox table: state, arrival and conversation task of each
    enabled,    \* the setting curiosity_enabled
    sessions,   \* the curiosity_sessions table
    clock,      \* the time
    runtime,    \* the service process, and when it came up
    check,      \* the scheduler's check under way
    sweep,      \* each terminal's interrupt_curiosity
    toggles, crashes

curiosityVars == <<tasks, inbox, enabled, sessions, clock, runtime, check, sweep,
                   toggles, crashes>>

NoCheck == [at |-> "off", now |-> 0, task |-> NoTask]

(* todo: the tasks listed and not cancelled yet; at: the task whose        *)
(* children are to be listed; seen: the rows there were at the listing.    *)
NoSweep == [at |-> "off", todo |-> {}, parent |-> NoTask, seen |-> 0]

(* pending stands for queued and streaming, which no check tells apart.    *)
Message == [state : {"pending", "completed", "needs_review", "cancelled"},
            arrived : 0..MaxClock, task : Nat]

TypeOK ==
    /\ tasks \in Seq(Row) /\ Len(tasks) <= MaxTasks
    /\ inbox \in Seq(Message) /\ Len(inbox) <= MaxEvents
    /\ enabled \in BOOLEAN
    /\ sessions \in Seq([created : 0..MaxClock, task : DOMAIN tasks])
    /\ clock \in 0..MaxClock
    /\ runtime \in [up : BOOLEAN, started : 0..MaxClock]
    /\ check \in [at : {"off", "inbox", "live", "window", "enqueue", "record"},
                  now : 0..MaxClock, task : {NoTask} \cup DOMAIN tasks]
    /\ sweep \in [Terminals -> [at : {"off", "list", "cancel", "children", "done"},
                                todo : SUBSET DOMAIN tasks, parent : {NoTask} \cup DOMAIN tasks,
                                seen : 0..MaxTasks]]
    /\ toggles \in 0..MaxEvents /\ crashes \in 0..MaxEvents

Init ==
    /\ tasks = <<>> /\ inbox = <<>> /\ sessions = <<>>
    /\ enabled = TRUE
    /\ clock = 0
    /\ runtime = [up |-> TRUE, started |-> 0]
    /\ check = NoCheck
    /\ sweep = [c \in Terminals |-> NoSweep]
    /\ toggles = 0 /\ crashes = 0

----------------------------------------------------------------------------

(* The bound on disturbances: each kind once, and so many in all.          *)
Another(n) == n = 0 /\ Len(inbox) + toggles + crashes < MaxEvents

(* The origin that the producers of this module give their tasks: a        *)
(* session, its research, a goal's task, a message's conversation.         *)
Origin(r) ==
    CASE r.kind = "curiosity"    -> "self_directed"
      [] r.kind = "research"     -> "curiosity"
      [] r.kind = "executive"    -> GoalType[r.goal]
      [] r.kind = "conversation" -> "owner"

(* What the owner's word cancels.                                          *)
SelfDirected(r) == Origin(r) \in {"self_directed", "curiosity"}

(* A session or its research: what no goal asked for.                      *)
OfCuriosity(r) == SelfDirected(r) /\ r.goal = NoGoal

Pending == {m \in DOMAIN inbox : inbox[m].state = "pending"}

Insert(kind, priority, goal, parent) ==
    /\ Len(tasks) < MaxTasks
    /\ tasks' = Append(tasks, NewRow([kind |-> kind, priority |-> priority, max |-> 1,
                                      resumable |-> FALSE, readOnly |-> FALSE], goal, parent))

Move(t, state) == tasks' = [tasks EXCEPT ![t] = MovedRow(@, state)]

----------------------------------------------------------------------------
(* schedule_curiosity: one read after the other, at a time read first.     *)

(* Mutant: a pause cancels what runs and does not keep the scheduler off.  *)
MayBegin_Paused == TRUE

MayBegin == enabled

BeginCheck ==
    /\ runtime.up /\ check.at = "off" /\ MayBegin
    /\ check' = [NoCheck EXCEPT !.at = "inbox", !.now = clock]
    /\ UNCHANGED <<tasks, inbox, enabled, sessions, clock, runtime, sweep, toggles, crashes>>

Proceed(may, next) ==
    /\ check' = IF may THEN [check EXCEPT !.at = next] ELSE NoCheck
    /\ UNCHANGED <<tasks, inbox, enabled, sessions, clock, runtime, sweep, toggles, crashes>>

CheckInbox == check.at = "inbox" /\ Proceed(Pending = {}, "live")

(* Mutant: the states that the heartbeat calls busy: a queued task is not. *)
LiveWork_Busy == \E t \in DOMAIN tasks : tasks[t].state \in Active

LiveWork == \E t \in DOMAIN tasks : Live(tasks[t])

CheckLive == check.at = "live" /\ Proceed(~LiveWork, "window")

SessionsOn(date) == {s \in DOMAIN sessions : sessions[s].created \div Day = date}

(* Mutant: one session more than the daily ones.                           *)
UsedUp_More(now) == Cardinality(SessionsOn(now \div Day)) > Daily

UsedUp(now) == Cardinality(SessionsOn(now \div Day)) >= Daily

(* An interval has passed since the last session.                          *)
Rested(now) == sessions # <<>> => now - sessions[Len(sessions)].created >= Interval

(* The last message, the last session, the sessions of the date, and on a  *)
(* database without either the age of the runtime.  Only this process      *)
(* writes the sessions and its start: the reads after the first are one.   *)
CheckWindow ==
    LET now == check.now IN
    /\ check.at = "window"
    /\ Proceed(/\ inbox # <<>> => now - inbox[Len(inbox)].arrived >= Idle
               /\ Rested(now)
               /\ ~UsedUp(now)
               /\ inbox = <<>> /\ sessions = <<>> => now - runtime.started >= Idle,
               "enqueue")

EnqueueSession ==
    /\ check.at = "enqueue"
    /\ Insert("curiosity", 5, NoGoal, NoTask)
    /\ check' = [check EXCEPT !.at = "record", !.task = Len(tasks')]
    /\ UNCHANGED <<inbox, enabled, sessions, clock, runtime, sweep, toggles, crashes>>

RecordSession ==
    /\ check.at = "record"
    /\ sessions' = Append(sessions, [created |-> check.now, task |-> check.task])
    /\ check' = NoCheck
    /\ UNCHANGED <<tasks, inbox, enabled, clock, runtime, sweep, toggles, crashes>>

----------------------------------------------------------------------------
(* The rest of the service's loop, between two checks.                     *)

(* dispatch, for the oldest undispatched message of its batch.             *)
Dispatch ==
    \E m \in DOMAIN inbox :
        /\ runtime.up /\ check.at = "off"
        /\ inbox[m].state = "pending" /\ inbox[m].task = NoTask
        /\ Insert("conversation", 100, NoGoal, NoTask)
        /\ inbox' = [inbox EXCEPT ![m].task = Len(tasks')]
        /\ UNCHANGED <<enabled, sessions, clock, runtime, check, sweep, toggles, crashes>>

Failed == {m \in Pending : /\ inbox[m].task # NoTask
                           /\ tasks[inbox[m].task].state \in Terminal \ {"completed"}}

SyncFailures ==
    /\ runtime.up /\ check.at = "off" /\ Failed # {}
    /\ inbox' = [m \in DOMAIN inbox |->
                    IF m \in Failed THEN [inbox[m] EXCEPT !.state = tasks[inbox[m].task].state]
                                    ELSE inbox[m]]
    /\ UNCHANGED <<tasks, enabled, sessions, clock, runtime, check, sweep, toggles, crashes>>

(* The process dies; recovery then interrupts what was active, and the new *)
(* loop begins.                                                            *)
Crash ==
    /\ runtime.up /\ Another(crashes)
    /\ crashes' = crashes + 1
    /\ runtime' = [runtime EXCEPT !.up = FALSE]
    /\ check' = NoCheck
    /\ UNCHANGED <<tasks, inbox, enabled, sessions, clock, sweep, toggles>>

Restart ==
    /\ ~runtime.up
    /\ \A t \in DOMAIN tasks : tasks[t].state \notin Active
    /\ runtime' = [up |-> TRUE, started |-> clock]
    /\ UNCHANGED <<tasks, inbox, enabled, sessions, clock, check, sweep, toggles, crashes>>

----------------------------------------------------------------------------
(* Workers, and the supervisor that claims for them and interrupts them.   *)

Claim(t) ==
    /\ runtime.up
    /\ \E lane \in Lanes :
          /\ GoesFirst(tasks, LaneKinds[lane], t)
          /\ \A u \in DOMAIN tasks : tasks[u].state \in Active => tasks[u].kind \notin LaneKinds[lane]
    /\ tasks' = [tasks EXCEPT ![t] = ClaimedRow(@)]
    /\ UNCHANGED <<inbox, enabled, sessions, clock, runtime, check, sweep, toggles, crashes>>

(* schedule_goal, its enqueue: no live task of the goal.  That the goal is *)
(* active, in the read and again here, is a choice: the owner may have     *)
(* activated any goal just before.                                         *)
EnqueueGoal(g) ==
    /\ runtime.up
    /\ LiveGoalTasks(tasks, g) = {}
    /\ Insert("executive", 50, g, NoTask)
    /\ UNCHANGED <<inbox, enabled, sessions, clock, runtime, check, sweep, toggles, crashes>>

(* A session's one child: refused when the session has been cancelled.     *)
QueueResearch(t) ==
    /\ tasks[t].kind = "curiosity" /\ tasks[t].state = "running"
    /\ \A u \in DOMAIN tasks : tasks[u].parent # t
    /\ ~ClosedParent(tasks, t)
    /\ Insert("research", 5, NoGoal, t)
    /\ UNCHANGED <<inbox, enabled, sessions, clock, runtime, check, sweep, toggles, crashes>>

(* A worker ends its task; a session only after it has queued its child.   *)
Complete(t) ==
    /\ tasks[t].kind # "conversation" /\ tasks[t].state = "running"
    /\ tasks[t].kind = "curiosity" => \E u \in DOMAIN tasks : tasks[u].parent = t
    /\ Move(t, "completed")
    /\ UNCHANGED <<inbox, enabled, sessions, clock, runtime, check, sweep, toggles, crashes>>

(* A conversation: the reply is stored, then its task ends.                *)
Reply(m) ==
    LET t == inbox[m].task IN
    /\ t # NoTask /\ tasks[t].state = "running"
    /\ \/ /\ inbox[m].state = "pending"
          /\ \E s \in {"completed", "needs_review"} : inbox' = [inbox EXCEPT ![m].state = s]
          /\ UNCHANGED tasks
       \/ /\ inbox[m].state # "pending"
          /\ Move(t, inbox[m].state)
          /\ UNCHANGED inbox
    /\ UNCHANGED <<enabled, sessions, clock, runtime, check, sweep, toggles, crashes>>

(* Its worker fails or meets its deadline, the supervisor heeds the cancel *)
(* request, or recovery finds it.                                          *)
Interrupt(t) ==
    /\ tasks[t].state \in Active
    /\ tasks' = [tasks EXCEPT ![t] = InterruptedRow(@)]
    /\ UNCHANGED <<inbox, enabled, sessions, clock, runtime, check, sweep, toggles, crashes>>

----------------------------------------------------------------------------
(* The owner: submit and the curiosity switch, each followed by            *)
(* interrupt_curiosity in the same call.                                   *)

Ready(c) == sweep[c].at \in {"off", "done"}

(* The owner's word is in the database; the call goes on to interrupt.     *)
Intervene(c) == sweep' = [sweep EXCEPT ![c] = [NoSweep EXCEPT !.at = "list"]]

Submit(c) ==
    /\ Ready(c) /\ Another(Len(inbox))
    /\ inbox' = Append(inbox, [state |-> "pending", arrived |-> clock, task |-> NoTask])
    /\ Intervene(c)
    /\ UNCHANGED <<tasks, enabled, sessions, clock, runtime, check, toggles, crashes>>

(* The opposite of the value read, which another terminal may have changed *)
(* since: either value is written.                                         *)
Toggle(c) ==
    /\ Ready(c) /\ Another(toggles)
    /\ toggles' = toggles + 1
    /\ enabled' \in BOOLEAN
    /\ IF enabled' THEN UNCHANGED sweep ELSE Intervene(c)
    /\ UNCHANGED <<tasks, inbox, sessions, clock, runtime, check, crashes>>

ListSessions(c) ==
    /\ sweep[c].at = "list"
    /\ sweep' = [sweep EXCEPT ![c] = [at |-> "cancel", parent |-> NoTask, seen |-> Len(tasks),
                                      todo |-> {t \in DOMAIN tasks : Live(tasks[t]) /\ SelfDirected(tasks[t])}]]
    /\ UNCHANGED <<tasks, inbox, enabled, sessions, clock, runtime, check, toggles, crashes>>

(* cancel: a task that has ended is left alone, its children too.          *)
CancelTask(c) ==
    /\ sweep[c].at = "cancel"
    /\ \E t \in sweep[c].todo :
          IF Live(tasks[t])
          THEN /\ tasks' = [tasks EXCEPT ![t] = CancelledRow(@)]
               /\ sweep' = [sweep EXCEPT ![c].at = "children", ![c].parent = t, ![c].todo = @ \ {t}]
          ELSE sweep' = [sweep EXCEPT ![c].todo = @ \ {t}] /\ UNCHANGED tasks
    /\ UNCHANGED <<inbox, enabled, sessions, clock, runtime, check, toggles, crashes>>

(* Mutant: only the listed tasks are cancelled.                            *)
Reached_Listed(p) == {}

Reached(p) == LiveChildren(tasks, p)

ListChildren(c) ==
    /\ sweep[c].at = "children"
    /\ sweep' = [sweep EXCEPT ![c].at = "cancel", ![c].parent = NoTask,
                              ![c].todo = @ \cup Reached(sweep[c].parent)]
    /\ UNCHANGED <<tasks, inbox, enabled, sessions, clock, runtime, check, toggles, crashes>>

Return(c) ==
    /\ sweep[c].at = "cancel" /\ sweep[c].todo = {}
    /\ sweep' = [sweep EXCEPT ![c].at = "done"]
    /\ UNCHANGED <<tasks, inbox, enabled, sessions, clock, runtime, check, toggles, crashes>>

Tick ==
    /\ clock < MaxClock
    /\ clock' = clock + 1
    /\ UNCHANGED <<tasks, inbox, enabled, sessions, runtime, check, sweep, toggles, crashes>>

----------------------------------------------------------------------------

CheckStep == BeginCheck \/ CheckInbox \/ CheckLive \/ CheckWindow \/ EnqueueSession \/ RecordSession

TerminalStep(c) == Submit(c) \/ Toggle(c) \/ ListSessions(c) \/ CancelTask(c) \/ ListChildren(c)
                   \/ Return(c)

Next ==
    \/ Tick \/ CheckStep \/ Dispatch \/ SyncFailures \/ Crash \/ Restart
    \/ \E t \in DOMAIN tasks : Claim(t) \/ QueueResearch(t) \/ Complete(t) \/ Interrupt(t)
    \/ \E m \in DOMAIN inbox : Reply(m)
    \/ \E g \in GoalIds : EnqueueGoal(g)
    \/ \E c \in Terminals : TerminalStep(c)

Spec == Init /\ [][Next]_curiosityVars

----------------------------------------------------------------------------

Curious == {t \in DOMAIN tasks : tasks[t].kind = "curiosity"}

Unrecorded == Curious \ {sessions[s].task : s \in DOMAIN sessions}

SessionsApart ==
    \A s \in DOMAIN sessions \ {1} : sessions[s].created - sessions[s - 1].created >= Interval

SessionsADay ==
    \A s \in DOMAIN sessions : Cardinality(SessionsOn(sessions[s].created \div Day)) <= Daily

(* Curiosity keeps to its allowance: recorded sessions are an interval     *)
(* apart and at most daily_sessions a date.  A session goes unrecorded     *)
(* when a crash falls between its task and its record, and the allowance   *)
(* does not count it; the last conjunct bounds that damage.                *)
SessionLimits ==
    /\ SessionsApart /\ SessionsADay
    /\ Cardinality(Unrecorded \ {check.task}) <= crashes

(* One exploration at a time: of the tasks that curiosity alone asked for  *)
(* only a session and the research it has just queued are alive together,  *)
(* although the look at the live tasks, the insertion of a session and the *)
(* insertion of its research are separate transactions, and cancellations, *)
(* crashes and the tasks of goals come in between.                         *)
OneSession ==
    \A t, u \in {x \in DOMAIN tasks : Live(tasks[x]) /\ OfCuriosity(tasks[x])} :
        t < u => tasks[u].parent = t

(* A cancellation still under way has the research ahead of it: listed, or *)
(* about to be as a child of the session just cancelled.                   *)
OnTheWay(t) ==
    \E c \in Terminals : \/ t \in sweep[c].todo
                         \/ sweep[c].at = "children" /\ sweep[c].parent = tasks[t].parent

(* The owner's word reaches the work under way: once its interruption has  *)
(* returned, every self-directed task that its listing can have seen, a    *)
(* goal's too, has ended or is flagged; and the research of a session that *)
(* was flagged has ended, is flagged, or a terminal is about to flag it,   *)
(* however the session's insertion of it fell between the two reads.       *)
SweepsReach ==
    /\ \A c \in Terminals : sweep[c].at = "done" =>
          \A t \in DOMAIN tasks :
             t <= sweep[c].seen /\ Live(tasks[t]) /\ SelfDirected(tasks[t]) => tasks[t].cancel
    /\ \A t \in DOMAIN tasks :
          /\ tasks[t].kind = "research" /\ tasks[tasks[t].parent].cancel
          /\ Live(tasks[t]) /\ ~tasks[t].cancel
          => OnTheWay(t)

=============================================================================
