------------------------------ MODULE Workshop ------------------------------
(***************************************************************************)
(* Staged tool development (src/lilith/workshop.py) under the supervisor   *)
(* that runs it (src/lilith/workers.py).  A workshop task hands its work   *)
(* to one child task after another and waits; the supervisor's round       *)
(* reaps the processes it launched, takes each waiting workshop to its     *)
(* next stage and claims queued tasks.  The owner cancels, processes die,  *)
(* the runtime is shut down, fails, crashes and starts again.              *)
(* Every action is one transaction, or one read whose result is used in a  *)
(* later one.  The order of the visits of a round is not fixed, and a      *)
(* worker's exit is one with its last transaction: the supervisor treats a *)
(* worker that is about to exit as it treats one that has.                 *)
(***************************************************************************)
EXTENDS TaskTable

CONSTANTS NWorkshops,    \* workshops the owner has queued
          Routes,        \* what gap detection may choose
          ResearchNeeded,\* there are URLs or a query to look up
          MaxTasks,      \* bound: rows of the table
          MaxStops,      \* bound: shutdowns
          MaxCrashes     \* bound: crashes of the runtime

ASSUME WorkshopsAssumption == NWorkshops \in 1..MaxTasks /\ MaxTasks \in Nat
ASSUME RoutesAssumption == Routes \subseteq {"build", "tool", "capability"}
ASSUME NeededAssumption == ResearchNeeded \in BOOLEAN
ASSUME BoundsAssumption == MaxStops \in Nat /\ MaxCrashes \in Nat
ASSUME OwnerPriorityAssumption == 50 \in Priorities

Workshops == 1..NWorkshops
TaskIds == 1..MaxTasks

STAGES == <<"gap", "research", "design", "implementation", "test", "review",
            "canary", "execute", "verify">>

Stage == {STAGES[i] : i \in DOMAIN STAGES}

VARIABLES
    tasks,        \* the tasks table
    result,       \* what each completed stage found
    checkpoint,   \* each workshop's stage, child and finished stages
    proc,         \* the worker process of each task
    children,     \* the tasks in the supervisor's map of children
    pc,           \* what the supervisor is at, and about which task
    snap,         \* what it has read: the row of that task, and the clock
    todo,         \* the owner's cancel in progress, as in TaskQueue
    stops, crashes

vars == <<tasks, result, checkpoint, proc, children, pc, snap, todo, stops, crashes>>

NoHistory == [s \in {} |-> NoTask]      \* the finished stages and their tasks
NoCheckpoint == [stage |-> "none", child |-> NoTask, history |-> NoHistory]
NoSnap == [state |-> "none", cancel |-> FALSE, late |-> FALSE]
At(p) == [at |-> p, task |-> NoTask]

TypeOK ==
    /\ tasks \in Seq(Row) /\ Len(tasks) <= MaxTasks
    /\ result \in [TaskIds -> {"none", "found", "verified", "refuted"} \cup Routes]
    /\ \A w \in Workshops :
          /\ checkpoint[w].stage \in Stage \cup {"none"}
          /\ checkpoint[w].child \in {NoTask} \cup TaskIds
          /\ \A s \in DOMAIN checkpoint[w].history :
                s \in Stage /\ checkpoint[w].history[s] \in TaskIds
    /\ proc \in [TaskIds -> {"none", "start", "run", "gone"}]
    /\ children \in SUBSET DOMAIN tasks
    /\ pc \in [at : {"down", "recover", "idle", "launch", "reap", "decide", "close", "stopping"},
               task : {NoTask} \cup TaskIds]
    /\ snap \in [state : States \cup {"none"}, cancel : BOOLEAN, late : BOOLEAN]
    /\ todo \in [cancel : SUBSET TaskIds, list : SUBSET TaskIds]
    /\ stops \in 0..MaxStops
    /\ crashes \in 0..MaxCrashes

OwnerRequest == [kind |-> "workshop", priority |-> 50, max |-> 1,
                 resumable |-> FALSE, readOnly |-> FALSE]

Init ==
    /\ tasks = [w \in Workshops |-> NewRow(OwnerRequest, NoGoal, NoTask)]
    /\ result = [t \in TaskIds |-> "none"]
    /\ checkpoint = [w \in Workshops |-> NoCheckpoint]
    /\ proc = [t \in TaskIds |-> "none"]
    /\ children = {}
    /\ pc = At("idle")
    /\ snap = NoSnap
    /\ todo = [cancel |-> {}, list |-> {}]
    /\ stops = 0
    /\ crashes = 0

----------------------------------------------------------------------------
(* The store.                                                              *)

Child(kind, w) == NewRow([OwnerRequest EXCEPT !.kind = kind], NoGoal, w)

StageKind(stage) == IF stage = "research" THEN "research" ELSE "workshop_stage"

StageOf(t) == checkpoint[tasks[t].parent].stage

(* Mutant: the snapshot's word is taken for the parent's state.            *)
MayHandOff_Snapshot(w) == tasks[w].state \in {"running", "waiting"}

MayHandOff(w) == tasks[w].state \in {"running", "waiting"} /\ ~tasks[w].cancel

(* Mutant: the id of the row before the child.                             *)
NewCheckpoint_Row(stage, history) == [stage |-> stage, child |-> Len(tasks), history |-> history]

NewCheckpoint(stage, history) == [stage |-> stage, child |-> Len(tasks) + 1, history |-> history]

(* handoff: the child, the checkpoint and the parent's state together, or  *)
(* nothing for a parent that was cancelled or has ended.                   *)
Handoff(w, stage, history) ==
    IF MayHandOff(w)
    THEN /\ Len(tasks) < MaxTasks
         /\ tasks' = Append([tasks EXCEPT ![w].state = "waiting"], Child(StageKind(stage), w))
         /\ checkpoint' = [checkpoint EXCEPT ![w] = NewCheckpoint(stage, history)]
    ELSE UNCHANGED <<tasks, checkpoint>>

AfterInterrupted(t) ==
    IF tasks[t].state \in Active THEN [tasks EXCEPT ![t] = InterruptedRow(@)] ELSE tasks

----------------------------------------------------------------------------
(* Workers.                                                                *)

(* Mutant: a stage does not ask whether it is still the current one.       *)
MayStart_Unchecked(t) == TRUE

(* execute_task and run_stage, before any work is done.                    *)
MayStart(t) ==
    tasks[t].kind = "workshop_stage" =>
        LET w == tasks[t].parent
        IN  tasks[w].state = "waiting" /\ ~tasks[w].cancel /\ checkpoint[w].child = t

Begin(t) ==
    /\ proc[t] = "start"
    /\ IF ~tasks[t].cancel /\ MayStart(t)
       THEN proc' = [proc EXCEPT ![t] = "run"] /\ UNCHANGED tasks
       ELSE proc' = [proc EXCEPT ![t] = "gone"] /\ tasks' = AfterInterrupted(t)
    /\ UNCHANGED <<result, checkpoint, children, pc, snap, todo, stops, crashes>>

(* start_workshop                                                          *)
StartWorkshop(w) ==
    /\ proc[w] = "run"
    /\ Handoff(w, "gap", NoHistory)
    /\ proc' = [proc EXCEPT ![w] = "gone"]
    /\ UNCHANGED <<result, children, pc, snap, todo, stops, crashes>>

Findings(stage) ==
    CASE stage = "gap" -> Routes
      [] stage = "verify" -> {"verified", "refuted"}
      [] OTHER -> {"found"}

(* A stage completes, or its own verdict is that it needs review.          *)
EndStage(t) ==
    /\ proc[t] = "run" /\ t \notin Workshops
    /\ tasks[t].state \in Active
    /\ \E s \in {"completed", "needs_review"} : tasks' = [tasks EXCEPT ![t] = MovedRow(@, s)]
    /\ \E f \in Findings(StageOf(t)) : result' = [result EXCEPT ![t] = f]
    /\ proc' = [proc EXCEPT ![t] = "gone"]
    /\ UNCHANGED <<checkpoint, children, pc, snap, todo, stops, crashes>>

(* Anything raises, an invalid request included.                           *)
Raise(t) ==
    /\ proc[t] = "run"
    /\ tasks' = AfterInterrupted(t)
    /\ proc' = [proc EXCEPT ![t] = "gone"]
    /\ UNCHANGED <<result, checkpoint, children, pc, snap, todo, stops, crashes>>

Die(t) ==
    /\ proc[t] \in {"start", "run"}
    /\ proc' = [proc EXCEPT ![t] = "gone"]
    /\ UNCHANGED <<tasks, result, checkpoint, children, pc, snap, todo, stops, crashes>>

----------------------------------------------------------------------------
(* The supervisor's round.  First, a child: its row is read, then its      *)
(* process is looked at, then interrupted has its own transaction.         *)

Observe(t) ==
    /\ pc = At("idle") /\ t \in children
    /\ pc' = [at |-> "reap", task |-> t]
    /\ \E late \in BOOLEAN :
          snap' = [state |-> tasks[t].state, cancel |-> tasks[t].cancel, late |-> late]
    /\ UNCHANGED <<tasks, result, checkpoint, proc, children, todo, stops, crashes>>

Reap(t) ==
    /\ pc = [at |-> "reap", task |-> t]
    /\ IF proc[t] = "gone" \/ snap.cancel \/ snap.late
       THEN /\ proc' = [proc EXCEPT ![t] = "gone"]
            /\ children' = children \ {t}
            /\ tasks' = IF snap.state \in Active /\ ~(t \in Workshops /\ snap.state = "waiting")
                        THEN AfterInterrupted(t) ELSE tasks
       ELSE UNCHANGED <<proc, children, tasks>>
    /\ pc' = At("idle")
    /\ snap' = NoSnap
    /\ UNCHANGED <<result, checkpoint, todo, stops, crashes>>

(* reconcile_workshops: the parent is read; late is its 30-minute budget.  *)
Consider(w) ==
    /\ pc = At("idle") /\ tasks[w].state = "waiting"
    /\ pc' = [at |-> "decide", task |-> w]
    /\ \E late \in BOOLEAN :
          snap' = [state |-> "waiting", cancel |-> tasks[w].cancel, late |-> late]
    /\ UNCHANGED <<tasks, result, checkpoint, proc, children, todo, stops, crashes>>

(* Mutant: off by one, the stage that has finished comes again.            *)
NextStage_Circles(stage, found) ==
    IF stage = "gap" THEN [build |-> "design", tool |-> "canary", capability |-> "execute"][found]
    ELSE STAGES[CHOOSE i \in DOMAIN STAGES : STAGES[i] = stage]

NextStage(stage, found) ==
    IF stage = "gap"
    THEN [build |-> IF ResearchNeeded THEN "research" ELSE "design",
          tool |-> "canary", capability |-> "execute"][found]
    ELSE STAGES[1 + CHOOSE i \in DOMAIN STAGES : STAGES[i] = stage]

(* Mutant: research that has started is taken for research that is done.   *)
Finished_Started(c) ==
    tasks[c].state \in (IF tasks[c].kind = "research" THEN Active ELSE {}) \cup {"completed"}

Finished(c) == tasks[c].state = "completed"

Recorded(history, stage, c) ==
    [s \in DOMAIN history \cup {stage} |-> IF s = stage THEN c ELSE history[s]]

(* Then the child, whose end is final; one branch of the loop body.        *)
Decide(w) ==
    LET c == checkpoint[w].child
        stage == checkpoint[w].stage
        closing == pc' = [at |-> "close", task |-> w] /\ UNCHANGED <<checkpoint, snap>>
        next == pc' = At("idle") /\ snap' = NoSnap
        failing == pc' = At("stopping") /\ snap' = NoSnap /\ UNCHANGED <<tasks, checkpoint>>
    IN  /\ pc = [at |-> "decide", task |-> w]
        /\ \/ /\ snap.cancel \/ snap.late
              /\ tasks' = IF Live(tasks[c]) THEN [tasks EXCEPT ![c] = CancelledRow(@)] ELSE tasks
              /\ closing
           \/ /\ ~(snap.cancel \/ snap.late)
              /\ tasks[c].state \in {"failed", "cancelled", "needs_review"}
              /\ closing /\ UNCHANGED tasks
           \/ /\ ~(snap.cancel \/ snap.late)
              /\ Live(tasks[c])
              /\ next /\ UNCHANGED <<tasks, checkpoint>>
           \/ /\ ~(snap.cancel \/ snap.late)
              /\ Finished(c) /\ stage = "verify"
              /\ IF ClosedParent(tasks, w)
                 THEN failing
                 ELSE /\ Len(tasks) < MaxTasks
                      /\ tasks' = Append(tasks, Child("journal", w))
                      /\ closing
           \/ /\ ~(snap.cancel \/ snap.late)
              /\ Finished(c) /\ stage # "verify"
              /\ Handoff(w, NextStage(stage, result[c]), Recorded(checkpoint[w].history, stage, c))
              /\ next
        /\ UNCHANGED <<result, proc, children, todo, stops, crashes>>

(* Mutant: a workshop whose verification was negative completes as well.   *)
Verdict_Finished(w) ==
    IF checkpoint[w].stage = "verify" /\ tasks[checkpoint[w].child].state = "completed"
    THEN "completed" ELSE "needs_review"

(* Mutant: a workshop that was not verified is left as it is.              *)
Verdict_StaysOpen(w) ==
    IF checkpoint[w].stage = "verify" /\ result[checkpoint[w].child] = "refuted"
    THEN "waiting" ELSE "needs_review"

(* What the workshop ends as, from the branch that was taken.              *)
Verdict(w) ==
    IF /\ ~(snap.cancel \/ snap.late)
       /\ checkpoint[w].stage = "verify" /\ result[checkpoint[w].child] = "verified"
       /\ tasks[checkpoint[w].child].state = "completed"
    THEN "completed" ELSE "needs_review"

CloseWorkshop(w) ==
    /\ pc = [at |-> "close", task |-> w]
    /\ IF tasks[w].state \in Active
       THEN tasks' = [tasks EXCEPT ![w] = MovedRow(@, Verdict(w))] /\ pc' = At("idle")
       ELSE UNCHANGED tasks /\ pc' = At("stopping")
    /\ snap' = NoSnap
    /\ UNCHANGED <<result, checkpoint, proc, children, todo, stops, crashes>>

(* Last, the lanes: a claim, then the launch of the process.               *)
Claim(lane) ==
    /\ pc = At("idle")
    /\ \A t \in children : tasks[t].kind \notin LaneKinds[lane]
    /\ \E t \in DOMAIN tasks :
          /\ GoesFirst(tasks, LaneKinds[lane], t)
          /\ tasks' = [tasks EXCEPT ![t] = ClaimedRow(@)]
          /\ pc' = [at |-> "launch", task |-> t]
    /\ UNCHANGED <<result, checkpoint, proc, children, snap, todo, stops, crashes>>

(* The gate opens once the process is recorded; a launch that fails is     *)
(* interrupted and fails the supervisor.                                   *)
Launch(t) ==
    /\ pc = [at |-> "launch", task |-> t]
    /\ \/ /\ proc' = [proc EXCEPT ![t] = "start"]
          /\ children' = children \cup {t}
          /\ pc' = At("idle")
          /\ UNCHANGED tasks
       \/ /\ tasks' = AfterInterrupted(t)
          /\ pc' = At("stopping")
          /\ UNCHANGED <<proc, children>>
    /\ UNCHANGED <<result, checkpoint, snap, todo, stops, crashes>>

----------------------------------------------------------------------------
(* The end of the loop, by shutdown or failure, and the next start.        *)

Stop ==
    /\ pc = At("idle") /\ stops < MaxStops
    /\ stops' = stops + 1
    /\ pc' = At("stopping")
    /\ UNCHANGED <<tasks, result, checkpoint, proc, children, snap, todo, crashes>>

StopChild(t) ==
    /\ pc = At("stopping") /\ t \in children
    /\ proc' = [proc EXCEPT ![t] = "gone"]
    /\ tasks' = AfterInterrupted(t)
    /\ children' = children \ {t}
    /\ UNCHANGED <<result, checkpoint, pc, snap, todo, stops, crashes>>

Stopped ==
    /\ pc = At("stopping") /\ children = {}
    /\ pc' = At("down")
    /\ UNCHANGED <<tasks, result, checkpoint, proc, children, snap, todo, stops, crashes>>

Crash ==
    /\ pc # At("down") /\ crashes < MaxCrashes
    /\ crashes' = crashes + 1
    /\ pc' = At("down")
    /\ snap' = NoSnap
    /\ children' = {}
    /\ UNCHANGED <<tasks, result, checkpoint, proc, todo, stops>>

(* _recover_processes, then recover row by row.                            *)
Start ==
    /\ pc = At("down")
    /\ pc' = At("recover")
    /\ proc' = [t \in TaskIds |-> IF proc[t] = "none" THEN "none" ELSE "gone"]
    /\ UNCHANGED <<tasks, result, checkpoint, children, snap, todo, stops, crashes>>

Recoverable == {t \in DOMAIN tasks : tasks[t].state \in Active /\ ~WaitingWorkshop(tasks[t])}

Recover(t) ==
    /\ pc = At("recover") /\ t \in Recoverable
    /\ tasks' = AfterInterrupted(t)
    /\ UNCHANGED <<result, checkpoint, proc, children, pc, snap, todo, stops, crashes>>

Recovered ==
    /\ pc = At("recover") /\ Recoverable = {}
    /\ pc' = At("idle")
    /\ UNCHANGED <<tasks, result, checkpoint, proc, children, snap, todo, stops, crashes>>

----------------------------------------------------------------------------
(* The owner cancels: as in TaskQueue.                                     *)

CancelTask(t) ==
    /\ t \in todo.cancel \/ todo = [cancel |-> {}, list |-> {}]
    /\ IF Live(tasks[t])
       THEN /\ tasks' = [tasks EXCEPT ![t] = CancelledRow(@)]
            /\ todo' = [cancel |-> todo.cancel \ {t}, list |-> todo.list \cup {t}]
       ELSE todo' = [todo EXCEPT !.cancel = @ \ {t}] /\ UNCHANGED tasks
    /\ UNCHANGED <<result, checkpoint, proc, children, pc, snap, stops, crashes>>

ListChildren(t) ==
    /\ t \in todo.list
    /\ todo' = [cancel |-> todo.cancel \cup LiveChildren(tasks, t), list |-> todo.list \ {t}]
    /\ UNCHANGED <<tasks, result, checkpoint, proc, children, pc, snap, stops, crashes>>

----------------------------------------------------------------------------

WorkerStep(t) == Begin(t) \/ EndStage(t) \/ Raise(t) \/ Die(t)

Round ==
    \/ \E t \in DOMAIN tasks : Observe(t) \/ Reap(t) \/ Launch(t)
    \/ \E w \in Workshops : Consider(w) \/ Decide(w) \/ CloseWorkshop(w)
    \/ \E lane \in {"workshop", "research"} : Claim(lane)

Lifecycle ==
    \/ Stop \/ Stopped \/ Crash \/ Start \/ Recovered
    \/ \E t \in DOMAIN tasks : StopChild(t) \/ Recover(t)

Next ==
    \/ \E t \in DOMAIN tasks : WorkerStep(t) \/ CancelTask(t) \/ ListChildren(t)
    \/ \E w \in Workshops : StartWorkshop(w)
    \/ Round
    \/ Lifecycle

Spec == Init /\ [][Next]_vars

(* The loop's round goes on: sooner or later it visits a child that is     *)
(* gone, a waiting workshop and every lane, and finishes what it is at;    *)
(* processes run and end or meet their deadline; a stopping runtime stops  *)
(* its children, and a stopped one is started again and recovers.          *)
Fairness ==
    /\ SF_vars(\E t \in children : proc[t] = "gone" /\ Observe(t))
    /\ \A w \in Workshops : SF_vars(Consider(w))
    /\ \A lane \in {"workshop", "research"} : SF_vars(Claim(lane))
    /\ WF_vars(\E t \in DOMAIN tasks : Reap(t) \/ Launch(t))
    /\ WF_vars(\E w \in Workshops : Decide(w) \/ CloseWorkshop(w))
    /\ WF_vars(\E t \in DOMAIN tasks : WorkerStep(t)) /\ WF_vars(\E w \in Workshops : StartWorkshop(w))
    /\ WF_vars(\E t \in DOMAIN tasks : StopChild(t)) /\ WF_vars(Stopped)
    /\ WF_vars(Start) /\ WF_vars(\E t \in DOMAIN tasks : Recover(t)) /\ WF_vars(Recovered)

FairSpec == Spec /\ Fairness

----------------------------------------------------------------------------

IsStage(t) == t \notin Workshops /\ tasks[t].kind \in {"workshop_stage", "research"}

(* A waiting workshop's checkpoint is the truth, across crashes: its child *)
(* is its newest stage, and the history names stages that completed.       *)
CheckpointHolds ==
    \A w \in Workshops : tasks[w].state = "waiting" =>
        LET cp == checkpoint[w]
        IN  /\ cp.child \in DOMAIN tasks /\ tasks[cp.child].parent = w
            /\ tasks[cp.child].kind = StageKind(cp.stage)
            /\ \A t \in DOMAIN tasks : IsStage(t) /\ tasks[t].parent = w => t <= cp.child
            /\ \A s \in DOMAIN cp.history : /\ tasks[cp.history[s]].state = "completed"
                                            /\ cp.history[s] < cp.child

(* The stages of a workshop are never at work together.                    *)
OneStageAtATime ==
    \A t, u \in DOMAIN tasks :
        /\ IsStage(t) /\ IsStage(u) /\ tasks[t].parent = tasks[u].parent
        /\ Live(tasks[t]) \/ proc[t] = "run"
        /\ Live(tasks[u]) \/ proc[u] = "run"
        => t = u

(* The stages that lead from a gap's finding to the verification.          *)
Path(found) ==
    CASE found = "capability" -> {"gap", "execute", "verify"}
      [] found = "tool"       -> {"gap", "canary", "execute", "verify"}
      [] found = "build"      -> IF ResearchNeeded THEN Stage ELSE Stage \ {"research"}

(* A workshop completes only on evidence: every stage of its route was     *)
(* completed, each by a task of its own, and the verification was positive.*)
CompletedOnEvidence ==
    \A w \in Workshops : tasks[w].state = "completed" =>
        LET cp == checkpoint[w]
        IN  /\ cp.stage = "verify" /\ result[cp.child] = "verified"
            /\ tasks[cp.child].state = "completed"
            /\ DOMAIN cp.history \cup {"verify"} = Path(result[cp.history["gap"]])
            /\ Cardinality({cp.history[s] : s \in DOMAIN cp.history}) = Cardinality(DOMAIN cp.history)

(* The journal of a workshop is written once, but for one repetition per   *)
(* crash between the enqueue and the transition that belongs with it.      *)
JournalOncePerCrash ==
    \A w \in Workshops :
        Cardinality({t \in DOMAIN tasks : tasks[t].parent = w /\ tasks[t].kind = "journal"})
            <= 1 + crashes

(* A cancelled workshop is not taken to another stage, not even from the   *)
(* snapshot that the supervisor had read before the cancellation.          *)
NoStageAfterCancel ==
    [][\A t \in DOMAIN tasks' \ DOMAIN tasks : ~tasks[tasks'[t].parent].cancel]_vars

(* No stage begins to work for a workshop that has ended, whichever way it *)
(* was ended and wherever the stage was at the time.                       *)
NoStageOfEndedWorkshop ==
    [][\A t \in DOMAIN tasks :
          IsStage(t) /\ proc[t] = "start" /\ proc'[t] = "run" => Live(tasks[tasks[t].parent])]_vars

(* Every workshop ends, whatever is cancelled, stopped or crashes.         *)
WorkshopsEnd == \A w \in Workshops : <>(~Live(tasks[w]))

(* README.md: waiting workshop parents can continue after restart when the *)
(* child was safely queued or completed.                                   *)
Continuable(w) ==
    /\ tasks[w].state = "waiting" /\ ~tasks[w].cancel
    /\ tasks[checkpoint[w].child].state \in {"queued", "completed"}

ShutdownKeepsWaiting ==
    [][\A w \in Workshops : pc.at = "stopping" /\ Continuable(w) => tasks'[w].state = "waiting"]_vars

(* workers.py spares a waiting workshop when its worker has exited.        *)
ReapingKeepsWaiting ==
    [][\A w \in Workshops : pc.at = "reap" /\ ~snap.late /\ Continuable(w) => tasks'[w].state = "waiting"]_vars
=============================================================================
