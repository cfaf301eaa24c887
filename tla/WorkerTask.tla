----------------------------- MODULE WorkerTask -----------------------------
(***************************************************************************)
(* One claimed task in the process that executes it                        *)
(* (src/lilith/workers.py, execute_task): the row that the worker moves    *)
(* on, the owner who may cancel it and the supervisor who may kill the     *)
(* worker, at any point between two of the worker's steps.  Research and   *)
(* Executive are such workers; the rows and transactions are TaskTable's.  *)
(***************************************************************************)
EXTENDS TaskTable

(* A task has a priority.                                                  *)
ASSUME SomePriority == Priorities # {}

VARIABLES
    task,       \* the row
    at,         \* where its worker is
    expired,    \* the worker's own time budget has run out
    journal,    \* a journal child is queued
    late,       \* history: outside effects begun after the cancel committed
    overtime    \* history: budgeted work begun after the time ran out

workerVars == <<task, at, expired, journal, late, overtime>>

(* No property is about the priority of a single task.                     *)
AnyPriority == CHOOSE p \in Priorities : TRUE

Claimed(kind) ==
    ClaimedRow(NewRow([kind |-> kind, priority |-> AnyPriority, max |-> 1,
                       resumable |-> FALSE, readOnly |-> FALSE], NoGoal, NoTask))

WorkerInit(kind) ==
    /\ task = Claimed(kind) /\ at = "start"
    /\ expired = FALSE /\ journal = FALSE
    /\ late = 0 /\ overtime = 0

WorkerTypeOK(places) ==
    /\ task \in Row /\ at \in places
    /\ expired \in BOOLEAN /\ journal \in BOOLEAN
    /\ late \in Nat /\ overtime \in Nat

Working == at \notin {"done", "dead"}

(* Something begins that the world outside the task can see.               *)
Effect == late' = IF task.cancel THEN late + 1 ELSE late

(* Work begins that a time budget is meant to bound.                       *)
Timed == overtime' = IF expired THEN overtime + 1 ELSE overtime

Move(state) == task' = MovedRow(task, state)

(* The worker raises: its handler records the interruption and it exits.   *)
Fail == at' = "dead" /\ task' = InterruptedRow(task)

(* The last transition.                                                    *)
End(state) == at' = "done" /\ Move(state)

(* enqueue under this task, which refuses a parent about to be interrupted.*)
QueueJournal(next) ==
    IF ClosedParent(<<task>>, 1)
    THEN Fail /\ UNCHANGED <<journal, late>>
    ELSE /\ journal' = TRUE /\ Effect
         /\ at' = next /\ UNCHANGED task

----------------------------------------------------------------------------
(* Around the worker.                                                      *)

Cancel ==
    /\ Live(task) /\ ~task.cancel
    /\ task' = CancelledRow(task)
    /\ UNCHANGED <<at, expired, journal, late, overtime>>

Expire ==
    /\ Working /\ ~expired
    /\ expired' = TRUE
    /\ UNCHANGED <<task, at, journal, late, overtime>>

(* The supervisor saw the cancel or the task's deadline, or the worker     *)
(* died: the row is interrupted unless it has ended.                       *)
Kill ==
    /\ Working
    /\ Fail
    /\ UNCHANGED <<expired, journal, late, overtime>>

=============================================================================
