-------------------------- MODULE WorkerTaskProofs --------------------------
(***************************************************************************)
(* What the owner's cancel and the worker's own steps do to its row: facts *)
(* that the proofs about Research and Executive share.                     *)
(***************************************************************************)
EXTENDS WorkerTask, TLAPS

(* The row of a claimed task that may be started once.                     *)
WorkedRow ==
    [state : States, kind : KINDS, priority : {AnyPriority},
     goal : {NoGoal}, parent : {NoTask}, cancel : BOOLEAN, attempts : Nat, max : {1},
     resumable : {FALSE}, readOnly : {FALSE}]

(* The row's part of the invariants: what is cancelled is not completed.   *)
RowOK == task \in WorkedRow /\ (task.cancel => task.state # "completed")

(* Before a cancel nothing is late, after it one thing at most.            *)
LateOK == late \in Nat /\ late <= 1 /\ (~task.cancel => late = 0)

LEMMA StatesOfRows ==
    /\ Active \subseteq States /\ Terminal \subseteq States /\ "queued" \in States
    /\ "completed" \in Terminal /\ "needs_review" \in States /\ "cancelled" \in States
    /\ "running" \in States
BY DEF States, Active, Terminal

LEMMA WorkedIsRow == WorkedRow \subseteq Row
<1>1. AnyPriority \in Priorities
  BY SomePriority DEF AnyPriority
<1>2. 1 \in 1..5 /\ NoTask \in Nat /\ FALSE \in BOOLEAN
  BY DEF NoTask
<1> QED BY <1>1, <1>2 DEF WorkedRow, Row

LEMMA ClaimedWorked ==
    ASSUME NEW kind \in KINDS
    PROVE  /\ Claimed(kind) \in WorkedRow /\ ~Claimed(kind).cancel
           /\ Claimed(kind).state = "running"
<1> DEFINE q == [kind |-> kind, priority |-> AnyPriority, max |-> 1,
                 resumable |-> FALSE, readOnly |-> FALSE]
           r == NewRow(q, NoGoal, NoTask)
<1>1. r \in WorkedRow /\ ~r.cancel
  BY StatesOfRows DEF NewRow, WorkedRow
<1>2. Claimed(kind) = ClaimedRow(r)
  BY DEF Claimed
<1> HIDE DEF r
<1>3. r.attempts + 1 \in Nat /\ "running" \in States
  BY <1>1, StatesOfRows DEF WorkedRow
<1>4. ClaimedRow(r) \in WorkedRow /\ ~ClaimedRow(r).cancel /\ ClaimedRow(r).state = "running"
  BY <1>1, <1>3 DEF ClaimedRow, WorkedRow
<1> QED
  BY <1>2, <1>4

(* A transition keeps the flag, and completes only an uncancelled task.    *)
LEMMA MovedKeeps ==
    ASSUME NEW r \in WorkedRow, NEW s \in States
    PROVE  /\ MovedRow(r, s) \in WorkedRow /\ MovedRow(r, s).cancel = r.cancel
           /\ r.cancel => MovedRow(r, s).state # "completed"
<1>1. StateAfter(r, s) \in States /\ (r.cancel => StateAfter(r, s) # "completed")
  BY StatesOfRows DEF StateAfter
<1> QED
  BY <1>1 DEF MovedRow, WorkedRow

LEMMA InterruptedKeeps ==
    ASSUME NEW r \in WorkedRow
    PROVE  /\ InterruptedRow(r) \in WorkedRow /\ InterruptedRow(r).cancel = r.cancel
           /\ InterruptedRow(r).state = "needs_review"
<1>1. ~Safe(r)
  BY DEF Safe, WorkedRow
<1>2. InterruptedState(r) = "needs_review"
  BY <1>1 DEF InterruptedState, Retries
<1>3. "needs_review" \in States
  BY StatesOfRows
<1>4. InterruptedRow(r) = [r EXCEPT !.state = "needs_review"]
  BY <1>2 DEF InterruptedRow
<1> QED
  BY <1>3, <1>4 DEF WorkedRow

LEMMA CancelledKeeps ==
    ASSUME NEW r \in WorkedRow, Live(r)
    PROVE  /\ CancelledRow(r) \in WorkedRow /\ CancelledRow(r).cancel
           /\ CancelledRow(r).state # "completed"
BY StatesOfRows DEF CancelledRow, WorkedRow, Live

----------------------------------------------------------------------------
(* What the parts of a worker's step do to the row and to the count of     *)
(* what was begun too late.                                                *)

LEMMA MoveKeeps ==
    ASSUME RowOK, NEW s \in States, Move(s)
    PROVE  RowOK' /\ task'.cancel = task.cancel
BY MovedKeeps DEF RowOK, Move

LEMMA FailKeeps ==
    ASSUME RowOK, Fail
    PROVE  RowOK' /\ task'.cancel = task.cancel /\ at' = "dead"
BY InterruptedKeeps DEF RowOK, Fail

LEMMA EndKeeps ==
    ASSUME RowOK, NEW s \in States, End(s)
    PROVE  RowOK' /\ task'.cancel = task.cancel /\ at' = "done"
BY MoveKeeps DEF End

LEMMA CancelKeeps ==
    ASSUME RowOK, LateOK, Cancel
    PROVE  RowOK' /\ LateOK' /\ late' = late /\ at' = at
<1>1. /\ CancelledRow(task) \in WorkedRow /\ CancelledRow(task).cancel
      /\ CancelledRow(task).state # "completed"
  BY CancelledKeeps DEF RowOK, Cancel
<1> QED
  BY <1>1 DEF RowOK, LateOK, Cancel

(* An effect of a place that no cancel has passed yet is the first late one. *)
LEMMA EffectKeeps ==
    ASSUME LateOK, late = 0, Effect, task'.cancel = task.cancel
    PROVE  LateOK'
BY DEF LateOK, Effect

LEMMA NoEffectKeeps ==
    ASSUME LateOK, UNCHANGED late, task'.cancel = task.cancel
    PROVE  LateOK'
BY DEF LateOK

(* A child is queued for an uncancelled task only.                         *)
LEMMA QueueJournalKeeps ==
    ASSUME RowOK, LateOK, NEW next, QueueJournal(next)
    PROVE  /\ RowOK' /\ LateOK' /\ task'.cancel = task.cancel
           /\ at' = "dead" \/ (at' = next /\ late' = 0)
<1>1. CASE ClosedParent(<<task>>, 1)
  <2>1. Fail /\ UNCHANGED late
    BY <1>1 DEF QueueJournal
  <2> QED BY <2>1, FailKeeps, NoEffectKeeps
<1>2. CASE ~ClosedParent(<<task>>, 1)
  <2>1. ~task.cancel
    BY <1>2 DEF ClosedParent
  <2>2. Effect /\ at' = next /\ UNCHANGED task
    BY <1>2 DEF QueueJournal
  <2> QED BY <2>1, <2>2 DEF RowOK, LateOK, Effect
<1> QED BY <1>1, <1>2

=============================================================================
