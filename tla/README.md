# Lilith: a verification project

TLA+ models of Lilith's runtime (`src/lilith/`), the TLC configurations that check
them, and TLAPS proofs of all their safety properties. Paths below are relative to the
repository; line numbers are those of the sources the models were read from
(`PROJECT.json` maps every definition to its lines).

## 1. The system

Lilith is a local assistant made of processes that share one SQLite database:
terminals and dashboards of the owner, a service process with a supervisor thread,
and one worker process per running task. There is no other communication: every
interaction is a row that one process writes and another reads, or a process that is
launched, exits or is killed. SQLite serialises transactions (`BEGIN IMMEDIATE`);
everything between two transactions may interleave.

| Component | State | Operations | Talks to | Model |
| --- | --- | --- | --- | --- |
| TaskStore (`tasks.py`) | `tasks`, `goals`, `workers` rows | enqueue, claim, transition, cancel, interrupted, recover, goal, schedule_goal | everyone | `TaskQueue` |
| Owner commands (`commands.py`) | none | /run /think /research /workshop, /cancel, /priority, /goal, /goal-state, /tool-state, /remember, /interest, /affect | the stores | `TaskQueue`, `ToolRegistry`, `SelfStore` |
| ModelArbiter (`models.py`) | `model_requests`, `model_lease` | acquire, heartbeat, release, release_task, recover | workers, supervisor, reads tasks and inbox | `ModelArbiter` |
| WorkerManager (`workers.py`) | map of children, runtime lock | start (recovery), tick (reap, reconcile, schedule, claim, launch), close | TaskStore, arbiter, workshop, OS | `TaskQueue`, `ModelArbiter`, `Workshop` |
| Worker (`workers.py` execute_task) | its process | one task of a type | TaskStore, arbiter, everything below | `WorkerTask` and its users |
| Workshop (`workshop.py`) | checkpoint in the parent's result | handoff, reconcile, nine stages | TaskStore, registry, research | `Workshop`, `ToolRegistry` |
| Service control (`service.py`) | `runtime_status`, two locks | ensure, stop, watchdog, run_service | WorkerManager | `ServiceControl` |
| Service work (`service.py`) | `inbox`, `runtime_settings`, `curiosity_sessions` | submit, dispatch, sync_failures, curiosity, interrupt_curiosity | TaskStore | `Curiosity`, `ModelArbiter` |
| ToolRegistry (`tool_registry.py`) | manifest files and `tools` rows | create, list, load, test, status, invoke | workshop, owner, executive, router | `ToolRegistry` |
| Research, PublicHTTP (`research.py`) | `research_sources`, budgets of one run | get, search, read, run | network, journal | `Research` |
| Executive (`executive.py`) | its plan and budgets | plan, review, steps, verify | broker, arbiter, journal | `Executive` |
| CapabilityBroker (`capabilities.py`) | none | invoke, _run | processes, files | `Command` (_run) |
| WorkerLog (`worker_logs.py`) | a file, a counter | drain, append, finish | supervisor, worker's pipe | `WorkerLog` |
| Database (`database.py`) | messages, memories, interests, beliefs, identity, affect | read-modify-write of each | reflection, conversation, owner | `SelfStore` |
| Conversation, Reflection (`conversation.py`, `intent.py`, `reflection.py`, `self_state.py`) | none | reply; reflect | Database, arbiter | their accesses in `SelfStore` |
| Migrations (`migrations.py`) | `schema_migrations` | migrate | whoever opens the database | `Migrations` |
| Sandbox, model gateway, reset, legacy console, dashboard, configuration | | | | see section 6 |

What is hard here:

* **Interleaving.** A cancel is a transaction per task with reads in between; a
  worker completes while the supervisor decides to interrupt it; a goal is stopped
  while it is being scheduled.
* **Stale snapshots.** The supervisor's round reads a row, looks at a process, and
  then writes; reconciliation, goal scheduling and the curiosity scheduler work from
  what they read earlier; an interest is computed from a read before the write.
* **Two places that must agree.** A tool is a file and a row, a request is a request
  and a lease, a session is a task and a record: a death in between leaves one.
* **Crashes and restarts.** Workers outlive a crashed supervisor; the next one kills
  them, clears leases and interrupts their tasks, but spares waiting workshops.
* **Timeouts and leases.** A lease can lapse under a running inference; its holder
  then comes back late.
* **Budgets.** A research, an executive, a command and a log are bounded in requests,
  bytes, calls, steps and time, across redirects, pages, threads and a cancel.
* **Priorities.** One request at a time: whatever stays at the head of the queue
  blocks all others.

What makes each part correct: a task is started no more often than it may be and
ends once; nothing completes after a cancellation, and a cancellation reaches the
children; a goal has one live task and the owner's word about it stands; the lease
has one unexpired holder, no abandoned request blocks it and the owner goes first; one
runtime at a time works on the database; a workshop works on one stage at a time, goes on from a true checkpoint, completes on
evidence only, and always ends; a stop stops; curiosity explores one thing at a time
within its allowance, and overtakes the owner's word by one session at most; generated
code runs only with its tests and its review on record, and a tool whose records differ
fails closed;
what the self is told is kept; a worker keeps to its budgets and heeds a cancel; the
schema is whole for whoever has opened it.

## 2. Modules

| Module | What it is | From |
| --- | --- | --- |
| `TaskTable` | the tasks table as a value and the pure functions that transactions apply to it | `tasks.py` |
| `TaskLife` | abstract: what the queue promises about each task | (promise) |
| `TaskQueue` | the store under all its clients; its properties; the refinement of `TaskLife` | `tasks.py`, `commands.py`, `workers.py` |
| `MCTaskQueue`, `GoalCycles` | small instance of `TaskQueue`; with the history of a goal's previous cycle | |
| `ModelArbiter`, `MCModelArbiter` | leases, workers, supervisor, runtime crashes and the message pipeline together; small instances | `models.py`, `workers.py`, `service.py` |
| `Workshop` | workshops under the supervisor's round, shutdown, crash and recovery | `workshop.py`, `workers.py`, `tasks.py` |
| `ServiceControl` | start, restart and stop of the runtime | `service.py` |
| `Curiosity` | the scheduler of self-directed work, messages, pauses, workers; rows and transactions of `TaskTable` | `service.py`, `home.py`, `tasks.py` |
| `CuriosityPromises` | `Curiosity` with a history: the sessions begun against the owner's word; what README.md:107-108 says of that word | |
| `MCCuriosity` | four small instances of it, in one run | |
| `ToolRegistry` | one generated tool: file, row, the workshop's stages, owner and runners | `tool_registry.py`, `workshop.py`, `commands.py` |
| `SelfStore` | identity, affect, interest, memory, belief under concurrent processes | `database.py`, `self_state.py`, `reflection.py` |
| `WorkerTask` | one claimed task in its worker, with cancel, time-out and kill; extends `TaskTable` | `workers.py`, `tasks.py` |
| `WorkerLimits` | the limits of what a worker may use up | (constants) |
| `Research`, `Executive` | two such workers; extend `WorkerTask` | `research.py`; `executive.py` |
| `Command` | one bounded command and its reader thread | `capabilities.py` |
| `WorkerLog` | the bounded log of a worker | `worker_logs.py` |
| `Migrations` | processes that migrate the same database | `migrations.py`, `database.py` |
| `MCWorkers` | small instances of `ToolRegistry`, `SelfStore`, `Research`, `Executive`, `Command`, `WorkerLog` and `Migrations`, in one run | |
| `TaskQueueProofs`, `ModelArbiterProofs`, `WorkshopProofs`, `ServiceProofs`, `WorkerTaskProofs`, `ResearchProofs`, `ExecutiveProofs`, `WorkersProofs` | theorems (section 5) | |

`MCWorkers` holds several specifications that share no state, and `MCCuriosity` four
instances of one. A variable `part`, chosen at the start, says which of them a
behaviour exercises: the reachable states are the sum of the parts', not their product,
and a property about one part says of the run what it says of that part alone. The
specifications are extended, so that theorems about a part are theorems about the run's
own formulas; names are therefore particular (`ResearchNext`, `AskModel`). `Research`
and `Executive` share the variables of `WorkerTask`, the row of one task: the part
decides whose it is.

### TaskQueue

`tasks` is the table (a task's id is its position), `goals` the status column of the
goals, `todo[c]` what a client's cancel command still has to do (tasks to cancel,
cancelled tasks whose children it has not listed, a goal whose tasks it has not
listed), `picked` the goal that `schedule_goal` has read and not yet enqueued, `dead`
the clients that died. One action per transaction: `Enqueue`/`EnqueueChild`/
`EnqueueGoal` (enqueue, from a command, a worker, the scheduler), `SetPriority`,
`Claim`, `Transition`, `Interrupted`, `CancelTask` and `ListChildren` (the two halves
of cancel), `CreateGoal`, `GoalState` and `DrainGoal` (the two halves of
/goal-state), `PickGoal`. `Hangup` and `SupervisorRestart` are processes that die
between two of their transactions. `Interrupted` may happen to any active task at
any time: a worker that raised, exited, was cancelled or overran its deadline, a
shutdown and a recovery are all the same transaction. Recovery spares waiting
workshops; that choice only removes behaviours here, and `Workshop` models it.

A row keeps what the properties tell apart: `readOnly` stands for "the capability in
the input is in the broker's read-only catalog". Row contents, results, errors and
audit events are left out. `LegacyRows` are rows an older version may have left with
a resumable flag on work that is not repeatable.

### ModelArbiter

`requests` and `lease` are the two tables; `lapsed` says that the lease's
`expires_at` has passed, which may happen whenever no heartbeat came in time, so
clocks, the 30 s lease and the 10 s heartbeat are abstracted to "it lapsed before
the next heartbeat or it did not". `proc` is each worker process, `children` the
supervisor's map, `runtime` the service process, `inbox` and `conv` a message and
its conversation task. `Poll` is one turn of acquire's loop: expire, then grant or
not, in one transaction. `Reap` joins `release_task` and `interrupted`, which act for
a process that is already dead; nothing that runs in between can tell. `CancelTask`
is the owner's /cancel of a conversation: a queued one ends, of one that is under way
the supervisor kills the worker, or it ends as `needs_review`. `SyncFailures` takes over
either end; a conversation is never
`failed`, as it is not resumable. The requests
are in order of `created_at`, which is chosen (`Ask`) before the row is inserted
(`Queue`). The legacy console's own requests are not modelled.

### Workshop

`tasks` as above, `checkpoint` each parent's stage, child and history (the JSON in
its result), `result` what a finished stage found, `proc` and `children` as above,
`pc` and `snap` the supervisor thread: what it is at and what it has read. `Observe`
and `Reap` are the two halves of a child's visit in tick; `Consider`, `Decide` and
`CloseWorkshop` the read of a parent, the branch taken and the transition that
follows a journal entry or a child's cancel; `Claim` and `Launch` a lane. `Stop`,
`StopChild`, `Stopped` are the loop's end, which a failure also takes; `Crash`,
`Start`, `Recover`, `Recovered` the rest. The order of the visits of a round is not
fixed (a superset of the code's rounds). Late deadlines and the 30-minute budget may
expire at any visit.

### ServiceControl

`row` is runtime_status (the watchdog whose runtime it names, the stop flag), `lock`
and `wlock` the two lock files, `client`, `watchdog` and `run` where each process of
its kind is, `attempt` how often a watchdog has started its runtime. `Ensure`,
`Probe`, `EndProbe`, `Clear`, `Launch` are ensure_service in its order; `WatchdogLock`
to `Wake` one round of watch_service; `Boot`, `Online`, `HeedStop`, `Close`
run_service. `LeaveLoop`, `CrashRuntime` and `KillWatchdog` are what may go wrong, counted by
`failures`. The back-off's length is left out: the watchdog sleeps, for as long as it
likes. `heard` remembers the runtimes that were serving when asked to stop.

### Curiosity

`check` is the scheduler's check (which read is next, the time it began with),
`sweep[c]` a terminal's interrupt_curiosity. `BeginCheck` to `RecordSession` are the
separate reads of schedule_curiosity, its enqueue and its record; `Submit` and
`Toggle` the owner's word, `ListSessions`, `CancelTask`, `ListChildren` and `Return`
what the same call does next. `Dispatch` and `SyncFailures` are the rest of the
service's loop; `QueueResearch`, `Complete`, `Reply`, `Claim`, `Interrupt` the workers
and their supervisor. The clock ticks by itself; a `Day` and an `Interval` are a few
ticks. `Restart` happens once recovery has interrupted what was active.

What the owner's word cancels is selected by origin (`service.py:45`), not by kind:
`Origin` gives each task the origin its producer gives it, and `SelfDirected` holds of a
session (`self_directed`), of its research (`curiosity`) and of the tasks of her own
goals. `EnqueueGoal` queues those: it is schedule_goal's insertion, whose origin is the
goal's type (`tasks.py:179-180`), and may come between any two of the scheduler's reads;
whether the goal is active is a choice, since the owner activates goals when she likes.
A goal's task may therefore live beside a session, and no property denies it:
`OneSession` is about `OfCuriosity`, what curiosity alone asked for. Tasks of other
origins (commands, journals, reflections, workshops) are left out: to the scheduler they
are live work that holds a session back, as a message's conversation is, and no
interruption lists them.

### ToolRegistry

`file` is the status in the manifest (partial while it is being written), `row` the
tools row, `call[p]` the registry call that a process has under way, `stage` the
workshop's stage. `List`, `ReadRow`, `ReadFile`, `Truncate`, `WriteFile`, `UpdateRow`
and `Run` are the steps of list, load, status and invoke, each one file operation or
one transaction; `Die` ends a process in the middle of one. `OwnerSets` and `RunTool`
begin the calls of an owner and of a worker; `CreateFiles`, `InsertRow`, `RunTests`
and `StageStep` are create, test and what each stage asks for. A stage that raises
ends the workshop; canary and execution withdraw the tool first. Hashes agree when
the statuses do: artifacts and schemas do not change after create.

### SelfStore

One row of each kind, `lock` SQLite's write lock when it stays held between two
actions, `todo` the accesses each process has left, `seen` what it has read for its
next write. `Read` and `Write` are the two halves of an access that reads first (an
interest, an ensured key, a memory that is saved unless it exists); an affect is
changed by one statement. `Collide` is a plain INSERT of a key that meanwhile exists:
the IntegrityError leaves the transaction open. `TimeOut` is another writer that waits
for that lock in vain; `Exit` the end of a worker. `ideal` is the value that the
committed updates add up to in the order of their commits, `stale` the rows that were
written from an outdated read.

### WorkerTask, Research, Executive

`task` is the row, `at` where its worker is. `Cancel`, `Expire` and `Kill` may happen
between any two steps of a worker. `late` counts what begins after the cancel has
committed, `overtime` what begins after the time is over. `Research` goes through
get's loop (`CheckBudgets`, `SendRequest`, `Response`, `Body`), `_save` and the summary
(`Acquire` and `Lease` are the loop of the arbiter's acquire); an error of a page is recorded and the
next page tried, of the search it ends the task, and a cancel always does. `Executive`
is plan, review, steps, verification: `CheckCall` before and `ModelReplies` after each
model call, `NextStep` and `InvokeStep` for each step. Both queue their journal with
`QueueJournal`, which a cancelled parent refuses.

### Command, WorkerLog, Migrations

`Command` is `_run`: the process and a descendant that may keep the pipe open, the
reader thread, the caller's poll, kill, join and report. The kill takes the tree of
processes that it finds; a descendant whose parent is gone may survive it. `WorkerLog` is a log as the
sequence of what was appended, with sizes; `EndLine`, `TakePart`, `EndOutput`,
`ReadFails` the reader, `Close` and `Summarise` finish. `Migrations` counts, for each
version, how many of its changes are present, committed (`schema`) and inside the
write transaction under way (`work`); `Change` fails on what is there already, except
in the baseline, which says IF NOT EXISTS; `Fault` is a failure or a death.

## 3. Runs

| Run | Instance | Shows |
| --- | --- | --- |
| `queue` | 3 rows, 1 client, 1 goal, a repeatable request and its one-shot child, a legacy row, progress reports | type, `QueuedIsClaimable`, `NoReplay`, `CompletedUncancelled`, `OneTaskPerGoal`, `CancelReachesChildren`, `GoalEvidence`, `GoalStaysStopped`, that `TaskQueue` implements `TaskLife`, and that every task ends |
| `goal_cycles` | the same without reports | a counterexample (finding 1) |
| `arbiter` | 2 messages, 1 background task, 1 crash | type, `TablesAgree`, `HolderKeepsLease`, `NothingAbandoned`, `OwnerGoesFirst`, and that every message is settled |
| `workshop` | 1 workshop, all three routes, 1 shutdown, 1 crash | `CheckpointHolds`, `OneStageAtATime`, `CompletedOnEvidence`, `JournalOncePerCrash`, `NoStageAfterCancel`, `NoStageOfEndedWorkshop`, and that every workshop ends |
| `workshop_shutdown`, `workshop_reap` | 1 workshop, 1 or no shutdown, no crash | counterexamples (findings 2 and 3) |
| `service_control` | 2 clients, 2 watchdogs of 3 attempts, 1 stop, 2 failures | `OneRuntime`, `StopHolds`, `StopStops` |
| `curiosity` | four parts, below | `SessionLimits`, `OneSession`, `OvertakenOnce`, `SweepsReach` |
| `curiosity_pause`, `curiosity_message` | as `curiosity` | counterexamples (findings 5 and 6) |
| `workers` | registry: 1 owner, 1 runner, 3 calls, 1 death; self: 3 lanes and a terminal; research: 4 requests, 2 pages, 3 hops; executive: up to 3 steps; command: 5 bytes against 3; log: 3 reads; schema: 3 processes, 3 versions, 2 faults | type; `RunsOnEvidence`, `OwnerDisableStands`, `FailsClosed`; `UpdatesSurvive`; `BudgetsHold`, `CancelHeeded`; `LogKeepsSummary`; `MigratedOnce` |
| `registry_catalog` | as `workers` | a counterexample (finding 4) |

**Bounds.** `MaxTasks` bounds the rows ever inserted. Three rows hold what the
queue's hazards need: a parent, its child and a third task, or two tasks of a goal
and one more; the proofs hold for every number. Twelve rows hold the longest workshop
(a parent, nine stages, its journal, and the repetition a crash allows). `MaxAsks`
bounds a task's inferences, one each in `arbiter`: three tasks that compete are enough
for a lease to be taken over twice, and the proofs hold for tasks that ask more often.
`MaxCrashes` and `MaxStops` bound the restarts (the watchdog itself gives up after
three); one is enough for what survives a restart to meet what is new. In
`service_control`, two watchdogs are what it takes for a killed one's runtime to meet
another's, and two clients for a probe to meet a boot. In `workers`, `MaxCalls` is two
writers of a status and one reader; `Requests`, `Bytes` and `Hops` are small enough for
every budget to run out, over two pages, and the proofs hold for all of them;
`MaxWritten` exceeds `Capture`; `LineLimit`, `Limit` and `Reserve` are chosen so that
lines are too long and the file fills up before the summary.

`curiosity` has four parts because the bound that one question needs would multiply the
states of the others. An interval is one tick, a date four, and two sessions are allowed
a date, so it is the daily limit that refuses the third of them and not the interval.
* "allowance": nobody at a terminal, the whole date and the first tick of the next, four
  tasks, a self-directed goal, a crash.
* "sessions": one terminal, two ticks and three tasks, so that a second session can
  begin; a message, a pause and a crash, two of them.
* "goals": the same with a goal, for as long as it takes to interrupt the first session,
  its research and the goal's task.
* "terminals": two terminals for as long, without the goal, so that both sweeps meet
  over one session and its research.

Runs do not check for deadlock where the system may really stop: all work done and
every terminal gone, or every bound used up.

**Fairness.** `queue` assumes that the supervisor goes on claiming while anything can be
claimed, and interrupting while anything is active (a worker that neither ends nor fails
meets its deadline); nothing is assumed of the owner or of a worker's success.
`EveryTaskEnds` says that the tasks there can be are all over from some time on; as a
task that has ended never returns (`NoReplay`, `TaskLife`), each of them ends. `arbiter`
assumes that live threads poll, inferences end, background tasks meet their deadline,
and the runtime's loop and its restart go on; it assumes neither that a lease ever
lapses nor any deadline of the conversation itself, so a message that is stuck behind an
abandoned request would stay stuck. `workshop` assumes that the supervisor's rounds go
on: some child that is gone, each waiting workshop and each lane are visited sooner or
later (strong fairness, because the model lets the visits come in any order), what is
begun is finished, processes run, and a stopped runtime is started again.
`service_control` assumes that watchdogs and runtimes that can go on do (each is a
process the operating system runs); nobody has to start, call, stop, fail or kill
anything. `curiosity` and `workers` state safety only.

## 4. Findings

1. **A reactivated goal is sent back to review by its old cycle** (`goal_cycles`).
   The owner stops a goal with an active task and reactivates it before the worker
   is terminated; the interruption of the old task finds the goal active and marks it
   `needs_review` (`tasks.py:112`). README.md:164: "/goal-state <id> active explicitly
   starts a new cycle".
2. **Shutdown interrupts a waiting workshop** (`workshop_shutdown`). The loop's end
   interrupts every task still in the children map, without the exception for waiting
   workshops that tick and recover make (`workers.py:233`). README.md:351: "Waiting
   workshop parents ... can continue after restart".
3. **Reaping decides from a stale row** (`workshop_reap`). tick reads the row, then
   looks at the process (`workers.py:304-312`); a first worker that hands over and
   exits in between is taken for one that died, and the workshop ends as
   `needs_review` with its child still queued. The child itself then refuses to
   start, which `NoStageOfEndedWorkshop` shows.

4. **One torn tool hides all tools** (`registry_catalog`). The planner and the router
   load every usable tool with nothing around the load (`executive.py:46-47`,
   `intent.py:41-42`), so a tool whose file and row differ raises out of every
   executive task and every routed request, not only out of its own use, and no status
   call can make it stop. README.md:323-325: "A modified artifact or mismatch with the
   database fails closed. The registry survives restart." The tool fails closed; the
   catalog fails with it, after a restart too.
5. **A pause is overtaken by the check it arrives in** (`curiosity_pause`). The
   scheduler reads the setting first (`service.py:78`) and enqueues after further reads
   without looking again (`service.py:99`); a pause whose interruption falls in between
   finds nothing to cancel, and the session then begins and runs. README.md:107-108:
   "Pause curiosity stops new sessions and cancels the current one." A message that
   arrives after the look at the inbox is overtaken likewise. `OvertakenOnce`, checked
   and proved, is what does hold: one session can escape, and no second one while the
   owner's word stands.
6. **An interruption misses the research of a session that ends meanwhile**
   (`curiosity_message`). interrupt_curiosity lists the self-directed tasks once and
   cancels one after the other; cancel leaves a task that has ended alone, and its
   children with it (`service.py:45-46`, `tasks.py:122-123`). A session that was listed
   while it ran, queued its research and completed leaves the research to run.
   README.md:107: "Owner messages cancel autonomous curiosity work." `SweepsReach`,
   checked and proved, is what does hold: what was listed, and the research of whatever
   session was flagged.

Also met, and stated as hazards or allowed by a property's wording:

* An owner's cancel between reconciliation's read and its journal entry makes the
  supervisor's loop fail (`workshop.py:111`); it recovers, which `WorkshopsEnd`
  covers, but every other worker is interrupted. A crash between the entry and the
  transition repeats the entry, which `JournalOncePerCrash` bounds and does not exclude.
* A terminal that dies during /cancel leaves the rest of its traversal undone;
  `CancelReachesChildren` asks nothing of it.
* A lease that lapses under a running inference lets a second inference start beside it.
  No text denies it; `InferenceIsExclusive` proves that it is the only way to two.
* A crash between a session's task and its record leaves a session that the interval and
  the daily limit do not count (`service.py:99-101`), so that more begin than
  README.md:104-106 allows; `SessionLimits` bounds it by one for each crash.
* With a second terminal, the first may return while a research it would have cancelled
  is still on the second one's list: a proof attempt showed it, and `SweepsReach` says
  so (`OnTheWay`).
* A stop that is written while no runtime has its row, or while the watchdog sleeps,
  is erased by the next runtime's INSERT OR REPLACE (`service.py:139`): `StopStops`
  speaks of a stop that reached a serving runtime, and excuses a new start and a
  killed watchdog's runtime that was still booting.
* A client's probe of the runtime lock can make a runtime that boots at that moment
  fail; its watchdog starts another.
* What the owner disables while the workshop tests or reviews the tool is overwritten
  by the review; `OwnerDisableStands` begins after it.
* Two read-modify-writes of an interest that overlap lose one (`stale`; STABILIZATION.md
  lists it as known), and two first insertions leave the loser with the write lock until
  its next plain write or exit, against every other writer.
* A descendant that keeps the pipe open past the reader's two seconds lets a command
  whose output was cut succeed; an error of a page that is none of those
  `research.py:272` names (an `http.client.HTTPException`) ends a whole research;
  the mark of truncation is itself cut when the file is full.
* The interest is reinforced before the research is recorded as completed
  (`workers.py:149` and 169), against the docstring in line 180: a kill in between
  rewards what never completes.

## 5. Proofs

Every invariant and every action property that a passing run checks is also a theorem,
for all values of the constants that satisfy the named assumptions of the modules; so
is `FailsClosed`, and that the queue implements `TaskLife`. The types of the workshop
and of the service are theorems and no longer among what their runs check. The assumptions say what
the code gives: priorities are among 0..100 and contain those it uses, limits are
positive, a summary fits into its reserve, processes are distinct.

Each proof has the same shape. An inductive invariant joins the property with what it
rests on; one lemma per action (or per group of actions that do the same to the
tables) shows that it is kept; the theorem combines them. Where many actions touch one
table, a first lemma classifies them by their effect on it, and the rest of the proof
sees the cases of that classification only (`TableStep`, `TasksStep`, `CheckMoves`,
`SweepMoves`).

**TaskQueueProofs.** All of it rests on `TaskSteps`: the thirteen actions leave the
table alone, add one fresh row, or move one row as the store moves rows (`RowStep`).
* `TypeCorrect`.
* `QueuedCanBeClaimed`, `NothingIsReplayed`, `CompletionRespectsCancel`: from one
  invariant per row (`RowInv`): a queued row is unflagged with an attempt left, an
  active one has been started, and neither count exceeds what the row allows. None of
  the three is inductive alone: an interrupted task goes back to the queue because it
  is *active*, unflagged and has attempts left.
* `GoalHasOneTask`: a row keeps its goal and never comes back from a terminal state,
  and a fresh row of a goal found none.
* `CancellationReachesChildren`: with "parents exist", a step either leaves the flags
  alone, and then what a client has left to cancel shrinks only by rows it flags or
  lists, or it flags a task and puts it on the client's list.
* `GoalsRestOnEvidence`, `StoppedGoalsStay`: from `GoalStep`, which says that a goal
  moves by the owner's word, or by the end of an own task while it is active.
* `QueueImplementsTaskLife`: field by field, for each task, a step of the queue is one
  of `TaskLife` or a stutter (`LifeStep`); the abstract limit needs `RowInv`.

**ModelArbiterProofs.** The table of requests and the lease change in eight ways
(`TableStep`).
* `ArbiterTypeCorrect`, `LeaseAndRequestsAgree`: a grant closes nobody's request but
  the one whose lease lapsed; a late release closes its own.
* `LeaseStaysWithHolder`: the last request of a worker that infers is active, or the
  clock took it. `InferenceIsExclusive` follows from the two: at most one inference is
  under an unexpired lease (`OneInference`).
* `DeadRequestsAreCleanedUp` needs `ProcessesKnown`: a process that lives is in the
  supervisor's map, or a crash has emptied the map and the runtime is still to
  recover.
* `OwnerIsServedFirst`, the action property, from the order in which a poll grants.

**WorkshopProofs.** One invariant, `Inv`, for seven theorems: every row has its shape
(`ShapeOK`), a process that lives has a running task (`ProcessOK`), what the supervisor
is about to do still holds however long ago it decided it (`SupervisorOK`,
`ClosingOK`), the checkpoint of a waiting workshop names the stage that its history
leads to (`CheckpointOK`, `RouteOK`), the only stage that may live is the checkpoint's
(`StagesOK`), the first stage has not started while its workshop's process is still to
be reaped (`FirstStageHeld`), and research, which does not ask whether its workshop
waits, has a waiting one or was cancelled with it (`ResearchOK`). The last two are what
`EndEndsTheStages` needs and what no test looks at. `JournalOnce` counts journals by
crashes and by what the supervisor has written and not yet closed (`JournalsOK`).

**ServiceProofs.** `CuriosityInv` has a part for each theorem. `ExploresOneThing`: from
the scheduler's look at the tasks until its insertion no session and no research comes
alive, though goals' tasks may (`QuietOK`). `AllowanceIsKept`: the window that was read
still stands when the session is recorded (`WindowOK`), and what was enqueued and not
recorded is bounded by the crashes (`Lost`). `WordIsOvertakenOnce`: a session against
the owner's word ended the check that began it, and the next check does not get past its
first or second read while the word stands (`AgainstOK`). `CancellationReachesWork`: a
sweep's list holds the live self-directed work that it saw or somebody flagged it, and a
research whose session is flagged is on a sweep's way (`SweepOK`, `AheadOK`,
`ReachingOK`).
`RuntimeIsAlone` and `StopStands` rest on `RuntimesOK`: the lock is with the runtime
that is past it or with the probe, the row names the runtime that is online, and a
runtime at work is waited for or has lost its watchdog. `StopStands` is the part of
`StopStops` that needs no fairness: a stop that was heard stands in the row and no
watchdog is about to start that runtime again. `CuriosityTypeCorrect` and
`ControlTypeCorrect` are the types of the two; the latter needs that a watchdog about to
start a runtime has an attempt left (`AttemptsLeft`).

**WorkerTaskProofs, ResearchProofs, ExecutiveProofs.** The first proves once what every
worker's step does to its row and to `late`. `ResearchWithinBudgets` rests on `Balance`
(what is left and what was used add up), `Covered` (a page's bytes never exceed what
was left when its body began) and `ResearchInTime` (after the deadline only the request
that had been checked begins). `ResearchHeedsCancel` and `ExecutiveHeedsCancel` rest on
`ResearchChecked` and `ExecutiveChecked`: at a place where an effect is due nothing was
late yet, because the check came just before. `ExecutiveWithinBudgets` counts calls by
role and steps by plan (`CallsCounted`, `StepsCounted`). `ResearchTypeCorrect` bounds
redirects, page sizes and sources by the urls left (`PagesOK`), `ExecutiveTypeCorrect`
the plan by its budget (`PlanOK`).

**WorkersProofs.**
* `CodeRunsOnEvidence`, `DisableStands`: `RegistryInv` says of every call under way what
  its caller knows (`CallOK`): an approval that it has read is still in the row, a
  write of a usable status has its approval behind it, and only the workshop gives a
  report, at two places. An approval in the row implies a stage after the review.
* `TornStaysTorn`, temporal: once the two records differ and nobody is past reading the
  row, whoever reads the row is about to find the file different (`TornForGood`).
* `ToldIsKept`: what a process has read is for its next access, and found nothing
  unless it is an interest's (`SeenOK`).
* `SchemaMigratedOnce`: the one writer has its version half done on top of the
  committed schema (`Changing`), and everybody has found or made all versions before
  its own (`OpenerOK`).
* `LogIsBounded`: the reader never writes into the reserve while the summary is due
  (`ReserveKept`), and a mark in the file is remembered (`MarksRemembered`).
* `CommandIsBounded`: bytes add up until some are dropped (`BytesKept`), the end of the
  output is final (`EndFinal`), and who stops polling a child that still runs kills it
  and leaves with an error (`ChildEnds`). A success is complete when its output was read
  to the end; a descendant that holds the pipe open may cut it.
* `WorkersTypeCorrect`, `WorkersWithinBudgets`, `WorkersHeedCancel`: the composed
  properties of the run, from the invariants of all parts (`StoresInv`, `TaskInv`) and
  the lemma that each step is one of every part's or leaves it alone (`PartsStep`).

Attempts that failed corrected the models: two terminals together can leave a research
alive that one of them still has on its list (above), the second terminal had not been
in the run; an access without work left has no type (`Work` holds no empty jobs); the
owner's priority of 50, and that there is any priority, are assumptions now.

Only model-checked: the liveness properties `EveryTaskEnds`, `MessageSettles`,
`WorkshopsEnd` and `StopStops`, since fairness and `ENABLED` are beyond the prover. The
modules declare no `RECURSIVE` operator and no theorem is by induction over data.

## 6. Not modelled

* Answers of language models, the text of messages and records, audit events, the
  contents of pages and of files; the user interface.
* The sandbox: an interpreter that runs in its caller's thread; its language is data
  to everything else, and its counters are one process's local variables.
* The model gateway (HTTP to the Ollama server), configuration, start-up registration,
  text filters.
* The reset utility, which runs alone and offline, and the legacy console, whose
  runtime lock `ServiceControl`'s probe looks for.
* Of the capability broker, the dispatch of the other capabilities: file and process
  access behind argument checks. Of reflection and conversation, the validation of a
  model's answer: `SelfStore` takes the accesses that follow from it.
* The launch gate's pipe of a worker. Process identities are taken to match
  (`workers.py:243` skips a recorded worker whose identity does not).

## 7. Plan

1. The steps of the liveness arguments as theorems: for `EveryTaskEnds` and
   `WorkshopsEnd`, that each helpful action moves a task forward and none moves it
   back (a measure on rows and stages), so that fairness alone is left to TLC.
2. An abstract budgeted worker that `Research` and `Executive` both implement; an
   abstract exclusive lease that `ModelArbiter` implements.
3. `CancelTree`: cancellation over three generations.
4. The launch gate and process identities in the supervisor's recovery.
