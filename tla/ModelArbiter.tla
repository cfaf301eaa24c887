---------------------------- MODULE ModelArbiter ----------------------------
(***************************************************************************)
(* The durable priority lease on the inference server                      *)
(* (src/lilith/models.py) with the processes that use it and those that    *)
(* clean up behind them: workers that ask, wait, infer and may die at any  *)
(* point, the supervisor that launches and reaps them, crashes and is      *)
(* started again (src/lilith/workers.py), and the service that turns the   *)
(* owner's messages into conversation tasks (src/lilith/service.py).       *)
(* Every action is one transaction on the shared database, or one event of *)
(* a process.  A worker stands for the one task it executes.               *)
(***************************************************************************)
EXTENDS Integers, Sequences, FiniteSets

CONSTANTS Messages,      \* messages of the owner, each one conversation task
          Background,    \* the other tasks that ask for inference
          RolesOf,       \* the roles each task asks in
          MaxAsks,       \* bound: requests of each task
          MaxCrashes     \* bound: crashes of the runtime

Workers == Messages \cup Background

PRIORITY == [conversation |-> 100, router |-> 95, owner_executive |-> 80,
             owner_research |-> 75, owner_workshop |-> 70, reflection |-> 40,
             background |-> 30, curiosity |-> 10, maintenance |-> 5]

Roles == DOMAIN PRIORITY

ASSUME WorkersAssumption == Messages \cap Background = {}
ASSUME RolesAssumption ==
    /\ RolesOf \in [Workers -> SUBSET Roles]
    /\ \A m \in Messages : RolesOf[m] \subseteq {"conversation", "router"}
ASSUME BoundsAssumption == MaxAsks \in [Workers -> Nat] /\ MaxCrashes \in Nat

VARIABLES
    requests,   \* model_requests, in the order of created_at
    lease,      \* model_lease: the request that holds it, or NoLease
    lapsed,     \* the lease's expires_at has passed
    proc,       \* each worker process
    children,   \* the supervisor's map of the workers it launched
    runtime,    \* the supervisor and service process
    inbox,      \* state of each message
    conv,       \* state of the conversation task of each message
    crashes     \* crashes of the runtime so far

vars == <<requests, lease, lapsed, proc, children, runtime, inbox, conv, crashes>>

NoLease == 0

(* How a message, and its task, can end; a conversation is not resumable   *)
(* and never fails.                                                        *)
Settled == {"completed", "needs_review", "cancelled"}

Request == [task : Workers, role : Roles,
            state : {"new", "waiting", "active", "completed", "cancelled", "expired"}]

(* A worker is idle when it runs and does not wait for the lease; gone     *)
(* when its process has ended, whoever ended it.                           *)
TypeOK ==
    /\ requests \in Seq(Request)
    /\ lease \in {NoLease} \cup DOMAIN requests
    /\ lapsed \in BOOLEAN
    /\ proc \in [Workers -> {"none", "idle", "waiting", "infer", "gone"}]
    /\ children \in SUBSET Workers
    /\ runtime \in {"down", "starting", "up"}
    /\ inbox \in [Messages -> {"none", "queued", "streaming"} \cup Settled]
    /\ conv \in [Messages -> {"none", "queued", "running"} \cup Settled]
    /\ crashes \in 0..MaxCrashes

Init ==
    /\ requests = <<>>
    /\ lease = NoLease
    /\ lapsed = FALSE
    /\ proc = [w \in Workers |-> "none"]
    /\ children = {}
    /\ runtime = "up"
    /\ inbox = [m \in Messages |-> "none"]
    /\ conv = [m \in Messages |-> "none"]
    /\ crashes = 0

----------------------------------------------------------------------------
(* The tables.                                                             *)

Open(r) == requests[r].state \in {"waiting", "active"}

Waiting(reqs) == {r \in DOMAIN reqs : reqs[r].state = "waiting"}

(* ORDER BY priority DESC, created_at                                      *)
First(reqs, r) ==
    /\ r \in Waiting(reqs)
    /\ \A q \in Waiting(reqs) \ {r} :
          \/ PRIORITY[reqs[r].role] > PRIORITY[reqs[q].role]
          \/ PRIORITY[reqs[r].role] = PRIORITY[reqs[q].role] /\ r < q

(* Mutant: a message that has not been dispatched goes unnoticed.          *)
OwnerPending_TasksOnly == \E m \in Messages : conv[m] \in {"queued", "running"}

OwnerPending ==
    \E m \in Messages : conv[m] \in {"queued", "running"} \/ inbox[m] \in {"queued", "streaming"}

BlockedByOwner(role) == PRIORITY[role] < PRIORITY.router /\ OwnerPending

(* Mutant: the request of an expired lease stays active.                   *)
AfterExpiry_LeaseOnly == requests

(* _expire_stale: the request of an expired lease.                         *)
AfterExpiry == IF lease # NoLease /\ lapsed
               THEN [requests EXCEPT ![lease].state = IF @ = "active" THEN "expired" ELSE @]
               ELSE requests

(* The request that a worker is waiting or inferring under: its last one.  *)
IsLast(w, r) == /\ requests[r].task = w
                /\ \A q \in DOMAIN requests : requests[q].task = w => q <= r

Asked(w) == Cardinality({r \in DOMAIN requests : requests[r].task = w})

----------------------------------------------------------------------------
(* A worker: acquire, the inference under the lease, release.              *)

(* uuid and created_at are chosen before the row is inserted.              *)
Ask(w, role) ==
    /\ proc[w] = "idle"
    /\ w \in Messages => conv[w] = "running" /\ inbox[w] = "streaming"
    /\ role \in RolesOf[w]
    /\ Asked(w) < MaxAsks[w]
    /\ requests' = Append(requests, [task |-> w, role |-> role, state |-> "new"])
    /\ proc' = [proc EXCEPT ![w] = "waiting"]
    /\ UNCHANGED <<lease, lapsed, children, runtime, inbox, conv, crashes>>

Queue(w) ==
    \E r \in DOMAIN requests :
        /\ proc[w] = "waiting" /\ IsLast(w, r) /\ requests[r].state = "new"
        /\ requests' = [requests EXCEPT ![r].state = "waiting"]
        /\ UNCHANGED <<lease, lapsed, proc, children, runtime, inbox, conv, crashes>>

(* One turn of the polling loop.                                           *)
Poll(w) ==
    \E r \in DOMAIN requests :
        /\ proc[w] = "waiting" /\ IsLast(w, r) /\ requests[r].state # "new"
        /\ LET free == lease = NoLease \/ lapsed
               reqs == AfterExpiry
           IN  IF free /\ First(reqs, r) /\ ~BlockedByOwner(reqs[r].role)
               THEN /\ lease' = r
                    /\ requests' = [reqs EXCEPT ![r].state = "active"]
                    /\ proc' = [proc EXCEPT ![w] = "infer"]
               ELSE /\ lease' = IF free THEN NoLease ELSE lease
                    /\ requests' = reqs
                    /\ UNCHANGED proc
        /\ lapsed' = FALSE
        /\ UNCHANGED <<children, runtime, inbox, conv, crashes>>

(* The clock passes expires_at: no heartbeat came in time.                 *)
Lapse ==
    /\ lease # NoLease
    /\ lapsed' = TRUE
    /\ UNCHANGED <<requests, lease, proc, children, runtime, inbox, conv, crashes>>

(* heartbeat: WHERE request_id is the caller's own.                        *)
Heartbeat(w) ==
    /\ proc[w] = "infer"
    /\ lease # NoLease /\ IsLast(w, lease)
    /\ lapsed' = FALSE
    /\ UNCHANGED <<requests, lease, proc, children, runtime, inbox, conv, crashes>>

(* Mutant: whoever holds the lease loses it.                               *)
LeaseAfterRelease_Any(r) == NoLease

LeaseAfterRelease(r) == IF lease = r THEN NoLease ELSE lease

Close(r, s) ==
    /\ lease' = LeaseAfterRelease(r)
    /\ requests' = [requests EXCEPT ![r].state = IF Open(r) THEN s ELSE @]
    /\ lapsed' = (lapsed /\ lease' # NoLease)

(* The inference has ended.                                                *)
Release(w) ==
    \E r \in DOMAIN requests :
        /\ proc[w] = "infer" /\ IsLast(w, r)
        /\ Close(r, "completed")
        /\ proc' = [proc EXCEPT ![w] = "idle"]
        /\ UNCHANGED <<children, runtime, inbox, conv, crashes>>

(* acquire raises: its check, or the database.                             *)
Withdraw(w) ==
    \E r \in DOMAIN requests :
        /\ proc[w] = "waiting" /\ IsLast(w, r) /\ requests[r].state # "new"
        /\ Close(r, "cancelled")
        /\ proc' = [proc EXCEPT ![w] = "idle"]
        /\ UNCHANGED <<children, runtime, inbox, conv, crashes>>

----------------------------------------------------------------------------
(* The conversation worker's own bookkeeping, and the end of a process.    *)

Stream(m) ==
    /\ proc[m] = "idle" /\ conv[m] = "running" /\ inbox[m] = "queued"
    /\ inbox' = [inbox EXCEPT ![m] = "streaming"]
    /\ UNCHANGED <<requests, lease, lapsed, proc, children, runtime, conv, crashes>>

(* The reply is stored, or the reason why there is none.                   *)
Reply(m) ==
    /\ proc[m] = "idle" /\ inbox[m] = "streaming" /\ Asked(m) > 0
    /\ \E s \in {"completed", "needs_review"} : inbox' = [inbox EXCEPT ![m] = s]
    /\ UNCHANGED <<requests, lease, lapsed, proc, children, runtime, conv, crashes>>

(* The task follows in a second transaction, for review if the owner has   *)
(* cancelled it by then.                                                   *)
EndTask(m) ==
    /\ proc[m] = "idle" /\ conv[m] = "running"
    /\ inbox[m] \in {"completed", "needs_review"}
    /\ \E s \in {inbox[m], "needs_review"} : conv' = [conv EXCEPT ![m] = s]
    /\ UNCHANGED <<requests, lease, lapsed, proc, children, runtime, inbox, crashes>>

(* A worker that has done its work exits; any worker may die.              *)
Exit(w) ==
    /\ proc[w] \in {"idle", "waiting", "infer"}
    /\ proc' = [proc EXCEPT ![w] = "gone"]
    /\ UNCHANGED <<requests, lease, lapsed, children, runtime, inbox, conv, crashes>>

----------------------------------------------------------------------------
(* The runtime.                                                            *)

(* One child per lane: the messages share the conversation lane.           *)
Launch(w) ==
    /\ runtime = "up"
    /\ proc[w] = "none"
    /\ IF w \in Messages
       THEN /\ conv[w] = "queued" /\ children \cap Messages = {}
            /\ conv' = [conv EXCEPT ![w] = "running"]
       ELSE UNCHANGED conv
    /\ proc' = [proc EXCEPT ![w] = "idle"]
    /\ children' = children \cup {w}
    /\ UNCHANGED <<requests, lease, lapsed, runtime, inbox, crashes>>

(* Cancellation, a deadline or a shutdown: the process is killed.          *)
Terminate(w) ==
    /\ runtime = "up" /\ w \in children
    /\ proc[w] \in {"idle", "waiting", "infer"}
    /\ proc' = [proc EXCEPT ![w] = "gone"]
    /\ UNCHANGED <<requests, lease, lapsed, children, runtime, inbox, conv, crashes>>

(* Mutant: only an active request is cleaned up.                           *)
CleanedUp_Active(r) == requests[r].state = "active"

CleanedUp(r) == Open(r)

(* Mutant: a state that the inbox does not know.                           *)
Interrupt_Failed(m) == IF conv[m] = "running" THEN "failed" ELSE conv[m]

Interrupt(m) == IF conv[m] = "running" THEN "needs_review" ELSE conv[m]

(* tick, for a child whose process has ended: release_task, interrupted.   *)
Reap(w) ==
    /\ runtime = "up" /\ w \in children /\ proc[w] = "gone"
    /\ requests' = [r \in DOMAIN requests |->
          IF requests[r].task = w /\ CleanedUp(r)
          THEN [requests[r] EXCEPT !.state = "cancelled"] ELSE requests[r]]
    /\ lease' = IF lease # NoLease /\ requests[lease].task = w /\ CleanedUp(lease)
                THEN NoLease ELSE lease
    /\ lapsed' = (lapsed /\ lease' # NoLease)
    /\ conv' = IF w \in Messages THEN [conv EXCEPT ![w] = Interrupt(w)] ELSE conv
    /\ children' = children \ {w}
    /\ UNCHANGED <<proc, runtime, inbox, crashes>>

(* The runtime dies with its map of children; the workers live on.         *)
Crash ==
    /\ runtime # "down" /\ crashes < MaxCrashes
    /\ runtime' = "down"
    /\ children' = {}
    /\ crashes' = crashes + 1
    /\ UNCHANGED <<requests, lease, lapsed, proc, inbox, conv>>

Start ==
    /\ runtime = "down"
    /\ runtime' = "starting"
    /\ UNCHANGED <<requests, lease, lapsed, proc, children, inbox, conv, crashes>>

(* _recover_processes: the recorded workers of the previous runtime.       *)
KillOrphan(w) ==
    /\ runtime = "starting"
    /\ proc[w] \in {"idle", "waiting", "infer"}
    /\ proc' = [proc EXCEPT ![w] = "gone"]
    /\ UNCHANGED <<requests, lease, lapsed, children, runtime, inbox, conv, crashes>>

(* Mutant: the lease is cleared and the abandoned waiters stay.            *)
RecoveredRequest_Active(r) ==
    IF requests[r].state = "active" THEN [requests[r] EXCEPT !.state = "cancelled"] ELSE requests[r]

RecoveredRequest(r) ==
    IF Open(r) THEN [requests[r] EXCEPT !.state = "cancelled"] ELSE requests[r]

(* recover of the arbiter and of the tasks, once no orphan is left.        *)
Recover ==
    /\ runtime = "starting"
    /\ \A w \in Workers : proc[w] \in {"none", "gone"}
    /\ requests' = [r \in DOMAIN requests |-> RecoveredRequest(r)]
    /\ lease' = NoLease
    /\ lapsed' = FALSE
    /\ conv' = [m \in Messages |-> Interrupt(m)]
    /\ runtime' = "up"
    /\ UNCHANGED <<proc, children, inbox, crashes>>

----------------------------------------------------------------------------
(* The service: submit by any terminal, then two steps of its loop.        *)

Submit(m) ==
    /\ inbox[m] = "none"
    /\ inbox' = [inbox EXCEPT ![m] = "queued"]
    /\ UNCHANGED <<requests, lease, lapsed, proc, children, runtime, conv, crashes>>

(* The owner cancels a conversation: a queued one ends here, of a running  *)
(* one the supervisor kills the worker.                                    *)
CancelTask(m) ==
    /\ conv[m] = "queued"
    /\ conv' = [conv EXCEPT ![m] = "cancelled"]
    /\ UNCHANGED <<requests, lease, lapsed, proc, children, runtime, inbox, crashes>>

Dispatch ==
    /\ runtime = "up"
    /\ \E m \in Messages : inbox[m] = "queued" /\ conv[m] = "none"
    /\ conv' = [m \in Messages |->
          IF inbox[m] = "queued" /\ conv[m] = "none" THEN "queued" ELSE conv[m]]
    /\ UNCHANGED <<requests, lease, lapsed, proc, children, runtime, inbox, crashes>>

Failed(m) == inbox[m] \in {"queued", "streaming"} /\ conv[m] \in Settled \ {"completed"}

SyncFailures ==
    /\ runtime = "up"
    /\ \E m \in Messages : Failed(m)
    /\ inbox' = [m \in Messages |-> IF Failed(m) THEN conv[m] ELSE inbox[m]]
    /\ UNCHANGED <<requests, lease, lapsed, proc, children, runtime, conv, crashes>>

----------------------------------------------------------------------------

WorkerStep(w) ==
    \/ \E role \in Roles : Ask(w, role)
    \/ Queue(w) \/ Poll(w) \/ Heartbeat(w) \/ Release(w) \/ Withdraw(w) \/ Exit(w)

MessageStep(m) == Submit(m) \/ Stream(m) \/ Reply(m) \/ EndTask(m) \/ CancelTask(m)

RuntimeStep ==
    \/ \E w \in Workers : Launch(w) \/ Terminate(w) \/ Reap(w) \/ KillOrphan(w)
    \/ Dispatch \/ SyncFailures \/ Crash \/ Start \/ Recover

Next ==
    \/ \E w \in Workers : WorkerStep(w)
    \/ \E m \in Messages : MessageStep(m)
    \/ RuntimeStep
    \/ Lapse

Spec == Init /\ [][Next]_vars

(* Threads keep running and inferences end; the runtime's loop and its     *)
(* watchdog keep running; a background task that does not end by itself    *)
(* meets its deadline.  No deadline of a conversation is assumed, nor that *)
(* a lease ever lapses: a message must be settled without them.            *)
Fairness ==
    /\ \A w \in Workers : /\ WF_vars(Queue(w))
                          /\ WF_vars(Poll(w))
                          /\ WF_vars(Release(w))
                          /\ WF_vars(Reap(w))
                          /\ WF_vars(KillOrphan(w))
    /\ \A m \in Messages : /\ WF_vars(Launch(m)) /\ WF_vars(Stream(m))
                           /\ WF_vars(\E role \in Roles : Ask(m, role))
                           /\ WF_vars(Reply(m)) /\ WF_vars(EndTask(m))
                           /\ WF_vars(conv[m] = "completed" /\ Exit(m))
                           /\ WF_vars(conv[m] = "needs_review" /\ Exit(m))
    /\ \A b \in Background : WF_vars(Terminate(b))
    /\ WF_vars(Dispatch) /\ WF_vars(SyncFailures) /\ WF_vars(Start) /\ WF_vars(Recover)

FairSpec == Spec /\ Fairness

----------------------------------------------------------------------------

(* The two tables tell one story: the request that holds the lease is the  *)
(* one that is active, through expiry, release, cleanup and restart.       *)
TablesAgree == \A r \in DOMAIN requests : requests[r].state = "active" <=> lease = r

(* Nobody but the clock takes the lease from a worker that is inferring:   *)
(* neither the late release of an expired holder nor the cleanup of        *)
(* another task.  With TablesAgree: at most one unexpired inference.       *)
HolderKeepsLease ==
    \A w \in Workers, r \in DOMAIN requests :
        proc[w] = "infer" /\ IsLast(w, r) => lease = r \/ requests[r].state = "expired"

(* No request of a dead process is forgotten: it would stay at the head of *)
(* the queue.  The supervisor still has its worker to reap, or the runtime *)
(* has yet to recover.                                                     *)
NothingAbandoned ==
    \A r \in DOMAIN requests :
        Open(r) /\ proc[requests[r].task] = "gone" =>
            requests[r].task \in children \/ runtime # "up"

(* From the moment a terminal has submitted a message until it is settled, *)
(* no inference below routing starts, dispatched or not, crash or not, and *)
(* what starts is of the highest priority that waits.                      *)
OwnerGoesFirst ==
    [][\A r \in DOMAIN requests :
          lease' = r /\ lease # r =>
              /\ PRIORITY[requests[r].role] < PRIORITY.router =>
                    \A m \in Messages : inbox[m] \in {"none"} \cup Settled
              /\ \A q \in DOMAIN requests :
                    requests[q].state = "waiting" =>
                        PRIORITY[requests[q].role] <= PRIORITY[requests[r].role]]_vars

(* A message is answered or reported as interrupted or cancelled, whatever *)
(* holds the lease when it arrives and whichever processes die on its way. *)
MessageSettles ==
    \A m \in Messages : inbox[m] = "queued" ~> inbox[m] \in Settled
=============================================================================
