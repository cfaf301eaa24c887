------------------------- MODULE ModelArbiterProofs -------------------------
(***************************************************************************)
(* Proofs about ModelArbiter for any messages, background tasks, roles and *)
(* bounds.                                                                 *)
(***************************************************************************)
EXTENDS ModelArbiter, TLAPS

----------------------------------------------------------------------------
(* Sequences of requests.                                                  *)

RequestStates == {"new", "waiting", "active", "completed", "cancelled", "expired"}

LEMMA RequestRows ==
    ASSUME NEW reqs \in Seq(Request), NEW r \in DOMAIN reqs
    PROVE  /\ reqs[r] \in Request /\ r \in Nat \ {0} /\ r # NoLease
           /\ reqs[r].task \in Workers /\ reqs[r].role \in Roles
           /\ reqs[r].state \in RequestStates
<1>1. reqs[r] \in Request /\ r \in Nat \ {0}
  OBVIOUS
<1> QED BY <1>1 DEF Request, NoLease, RequestStates

LEMMA UpdatedRequest ==
    ASSUME NEW reqs \in Seq(Request), NEW r \in DOMAIN reqs, NEW s \in RequestStates,
           NEW n, n = [reqs EXCEPT ![r].state = s]
    PROVE  /\ n \in Seq(Request) /\ DOMAIN n = DOMAIN reqs
           /\ \A q \in DOMAIN reqs :
                 /\ n[q].task = reqs[q].task /\ n[q].role = reqs[q].role
                 /\ n[q].state = IF q = r THEN s ELSE reqs[q].state
<1>1. \A q \in DOMAIN reqs : reqs[q] \in Request
  OBVIOUS
<1>2. [reqs[r] EXCEPT !.state = s] \in Request
  BY <1>1 DEF Request, RequestStates
<1>3. [reqs EXCEPT ![r] = [reqs[r] EXCEPT !.state = s]] \in Seq(Request)
  BY <1>2
<1> QED BY <1>1, <1>3 DEF Request

----------------------------------------------------------------------------
(* What a step does to the two tables and to the processes that ask: it    *)
(* leaves the tables alone and starts no inference, or it is one of seven  *)
(* changes.  What concerns tables and inferences needs these cases only.   *)

SameRows ==
    /\ requests' \in Seq(Request) /\ DOMAIN requests' = DOMAIN requests
    /\ \A q \in DOMAIN requests : /\ requests'[q].task = requests[q].task
                                  /\ requests'[q].role = requests[q].role

Rests ==
    /\ UNCHANGED <<requests, lease>>
    /\ \A w \in Workers : proc'[w] = "infer" => proc[w] = "infer"

Asks(w) ==
    /\ proc[w] = "idle" /\ proc' = [proc EXCEPT ![w] = "waiting"]
    /\ \E role \in Roles :
          requests' = Append(requests, [task |-> w, role |-> role, state |-> "new"])
    /\ UNCHANGED lease

Queues(w, r) ==
    /\ requests[r].task = w /\ requests[r].state = "new"
    /\ SameRows
    /\ \A q \in DOMAIN requests :
          requests'[q].state = IF q = r THEN "waiting" ELSE requests[q].state
    /\ proc[w] = "waiting" /\ UNCHANGED <<lease, proc>>

Grants(w, r) ==
    /\ IsLast(w, r) /\ First(AfterExpiry, r) /\ ~BlockedByOwner(requests[r].role)
    /\ lease = NoLease \/ lapsed
    /\ requests[r].state = "waiting"
    /\ SameRows
    /\ \A q \in DOMAIN requests :
          requests'[q].state = IF q = r THEN "active"
                               ELSE IF q = lease /\ requests[q].state = "active" THEN "expired"
                               ELSE requests[q].state
    /\ lease' = r
    /\ proc[w] = "waiting" /\ proc' = [proc EXCEPT ![w] = "infer"]

Expires ==
    /\ SameRows
    /\ \A q \in DOMAIN requests :
          requests'[q].state = IF q = lease /\ lapsed /\ requests[q].state = "active"
                               THEN "expired" ELSE requests[q].state
    /\ lease' = IF lapsed THEN NoLease ELSE lease
    /\ UNCHANGED proc

Closes(w, r) ==
    /\ requests[r].task = w
    /\ SameRows
    /\ \E s \in {"completed", "cancelled"} : \A q \in DOMAIN requests :
          requests'[q].state = IF q = r /\ Open(r) THEN s ELSE requests[q].state
    /\ lease' = LeaseAfterRelease(r)
    /\ proc[w] \in {"waiting", "infer"} /\ proc' = [proc EXCEPT ![w] = "idle"]

Reaps(w) ==
    /\ SameRows
    /\ \A q \in DOMAIN requests :
          requests'[q].state = IF requests[q].task = w /\ Open(q) THEN "cancelled"
                               ELSE requests[q].state
    /\ lease' = IF lease # NoLease /\ requests[lease].task = w /\ Open(lease)
                THEN NoLease ELSE lease
    /\ proc[w] = "gone" /\ UNCHANGED proc

Recovers ==
    /\ SameRows
    /\ \A q \in DOMAIN requests :
          requests'[q].state = IF Open(q) THEN "cancelled" ELSE requests[q].state
    /\ lease' = NoLease
    /\ \A w \in Workers : proc[w] \in {"none", "gone"}
    /\ UNCHANGED proc

TableStep ==
    \/ Rests \/ Expires \/ Recovers
    \/ \E w \in Workers : Asks(w) \/ Reaps(w)
    \/ \E w \in Workers, r \in DOMAIN requests : Queues(w, r) \/ Grants(w, r) \/ Closes(w, r)

LEMMA ExpiryEffect ==
    ASSUME TypeOK
    PROVE  /\ AfterExpiry \in Seq(Request) /\ DOMAIN AfterExpiry = DOMAIN requests
           /\ \A q \in DOMAIN requests :
                 /\ AfterExpiry[q].task = requests[q].task
                 /\ AfterExpiry[q].role = requests[q].role
                 /\ AfterExpiry[q].state =
                       IF q = lease /\ lapsed /\ requests[q].state = "active" THEN "expired"
                       ELSE requests[q].state
<1>0. requests \in Seq(Request) /\ lease \in {NoLease} \cup DOMAIN requests
  BY DEF TypeOK
<1>1. CASE lease # NoLease /\ lapsed
  <2>1. lease \in DOMAIN requests
    BY <1>0, <1>1
  <2> DEFINE s == IF requests[lease].state = "active" THEN "expired" ELSE requests[lease].state
  <2>2. s \in RequestStates
    BY <1>0, <2>1, RequestRows DEF RequestStates
  <2>3. AfterExpiry = [requests EXCEPT ![lease].state = s]
    BY <1>1, <2>1 DEF AfterExpiry
  <2> QED BY <1>0, <1>1, <2>1, <2>2, <2>3, UpdatedRequest
<1>2. CASE ~(lease # NoLease /\ lapsed)
  BY <1>0, <1>2, RequestRows DEF AfterExpiry
<1> QED BY <1>1, <1>2

(* requests' built as a function over the old rows.                        *)
LEMMA CleanedRequests ==
    ASSUME NEW reqs \in Seq(Request), NEW D \in SUBSET DOMAIN reqs, NEW n,
           n = [q \in DOMAIN reqs |-> IF q \in D THEN [reqs[q] EXCEPT !.state = "cancelled"]
                                      ELSE reqs[q]]
    PROVE  /\ n \in Seq(Request) /\ DOMAIN n = DOMAIN reqs
           /\ \A q \in DOMAIN reqs :
                 /\ n[q].task = reqs[q].task /\ n[q].role = reqs[q].role
                 /\ n[q].state = IF q \in D THEN "cancelled" ELSE reqs[q].state
<1> DEFINE e(q) == IF q \in D THEN [reqs[q] EXCEPT !.state = "cancelled"] ELSE reqs[q]
<1>0. n = [q \in DOMAIN reqs |-> e(q)]
  OBVIOUS
<1>1. \A q \in DOMAIN reqs : /\ e(q) \in Request /\ e(q).task = reqs[q].task /\ e(q).role = reqs[q].role
                             /\ e(q).state = IF q \in D THEN "cancelled" ELSE reqs[q].state
  <2> TAKE q \in DOMAIN reqs
  <2>1. reqs[q] \in Request
    OBVIOUS
  <2> QED BY <2>1 DEF Request
<1>2. DOMAIN reqs = 1..Len(reqs) /\ Len(reqs) \in Nat
  OBVIOUS
<1> HIDE DEF e
<1>3. n \in Seq(Request)
  BY <1>0, <1>1, <1>2
<1>4. \A q \in DOMAIN reqs : n[q] = e(q)
  BY <1>0
<1> QED BY <1>0, <1>1, <1>3, <1>4

LEMMA CloseEffect ==
    ASSUME TypeOK, NEW w \in Workers, NEW r \in DOMAIN requests, requests[r].task = w,
           NEW s \in {"completed", "cancelled"}, Close(r, s),
           proc[w] \in {"waiting", "infer"}, proc' = [proc EXCEPT ![w] = "idle"]
    PROVE  Closes(w, r)
<1>0. requests \in Seq(Request)
  BY DEF TypeOK
<1> DEFINE n == IF Open(r) THEN s ELSE requests[r].state
<1>1. n \in RequestStates
  BY <1>0, RequestRows DEF RequestStates
<1>2. requests' = [requests EXCEPT ![r].state = n] /\ lease' = LeaseAfterRelease(r)
  BY DEF Close
<1>3. SameRows /\ \A q \in DOMAIN requests :
          requests'[q].state = IF q = r /\ Open(r) THEN s ELSE requests[q].state
  BY <1>0, <1>1, <1>2, UpdatedRequest DEF SameRows
<1> QED BY <1>2, <1>3 DEF Closes

LEMMA WorkerTables ==
    ASSUME TypeOK, NEW w \in Workers, WorkerStep(w)
    PROVE  TableStep
<1> USE DEF TableStep
<1>0. requests \in Seq(Request) /\ lease \in {NoLease} \cup DOMAIN requests
      /\ proc \in [Workers -> {"none", "idle", "waiting", "infer", "gone"}]
  BY DEF TypeOK
<1>1. ASSUME NEW role \in Roles, Ask(w, role) PROVE TableStep
  BY <1>1 DEF Ask, Asks
<1>2. CASE Queue(w)
  <2>1. PICK r \in DOMAIN requests :
            /\ proc[w] = "waiting" /\ IsLast(w, r) /\ requests[r].state = "new"
            /\ requests' = [requests EXCEPT ![r].state = "waiting"]
            /\ UNCHANGED <<lease, proc>>
    BY <1>2 DEF Queue
  <2>2. SameRows /\ \A q \in DOMAIN requests :
            requests'[q].state = IF q = r THEN "waiting" ELSE requests[q].state
    BY <1>0, <2>1, UpdatedRequest DEF SameRows, RequestStates
  <2>3. Queues(w, r)
    BY <2>1, <2>2 DEF Queues, IsLast
  <2> QED BY <2>3
<1>3. CASE Poll(w)
  <2> DEFINE free == lease = NoLease \/ lapsed
             reqs == AfterExpiry
  <2>0. PICK r \in DOMAIN requests :
          /\ proc[w] = "waiting" /\ IsLast(w, r)
          /\ IF free /\ First(reqs, r) /\ ~BlockedByOwner(reqs[r].role)
             THEN /\ lease' = r
                  /\ requests' = [reqs EXCEPT ![r].state = "active"]
                  /\ proc' = [proc EXCEPT ![w] = "infer"]
             ELSE /\ lease' = IF free THEN NoLease ELSE lease
                  /\ requests' = reqs
                  /\ UNCHANGED proc
    BY <1>3 DEF Poll
  <2>1. CASE free /\ First(reqs, r) /\ ~BlockedByOwner(reqs[r].role)
    <3>1. /\ lease' = r /\ requests' = [reqs EXCEPT ![r].state = "active"]
          /\ proc' = [proc EXCEPT ![w] = "infer"]
      BY <2>0, <2>1
    <3>2. reqs[r].state = "waiting" /\ reqs[r].role = requests[r].role
      BY <2>1, ExpiryEffect DEF First, Waiting
    <3>3. requests[r].state = "waiting"
      BY <3>2, ExpiryEffect
    <3>4. SameRows /\ \A q \in DOMAIN requests :
              requests'[q].state = IF q = r THEN "active" ELSE reqs[q].state
      <4>1. reqs \in Seq(Request) /\ r \in DOMAIN reqs /\ DOMAIN reqs = DOMAIN requests
        BY ExpiryEffect
      <4>2. "active" \in RequestStates /\ requests' = [reqs EXCEPT ![r].state = "active"]
        BY <3>1 DEF RequestStates
      <4> HIDE DEF reqs
      <4>3. /\ requests' \in Seq(Request) /\ DOMAIN requests' = DOMAIN reqs
            /\ \A q \in DOMAIN reqs :
                  /\ requests'[q].task = reqs[q].task /\ requests'[q].role = reqs[q].role
                  /\ requests'[q].state = IF q = r THEN "active" ELSE reqs[q].state
        BY <4>1, <4>2, UpdatedRequest
      <4> QED BY <4>1, <4>3, ExpiryEffect DEF SameRows, reqs
    <3>5. \A q \in DOMAIN requests : q = lease => lapsed
      BY <1>0, <2>1, RequestRows
    <3>6. \A q \in DOMAIN requests : requests'[q].state =
              IF q = r THEN "active"
              ELSE IF q = lease /\ requests[q].state = "active" THEN "expired"
              ELSE requests[q].state
      BY <3>4, <3>5, ExpiryEffect
    <3>7. Grants(w, r)
      BY <2>0, <2>1, <3>1, <3>2, <3>3, <3>4, <3>6 DEF Grants
    <3> QED BY <3>7
  <2>2. CASE ~(free /\ First(reqs, r) /\ ~BlockedByOwner(reqs[r].role))
    <3>1. requests' = reqs /\ UNCHANGED proc /\ lease' = IF lapsed THEN NoLease ELSE lease
      BY <2>0, <2>2
    <3>2. Expires
      BY <3>1, ExpiryEffect DEF Expires, SameRows
    <3> QED BY <3>2
  <2> QED BY <2>1, <2>2
<1>4. CASE Heartbeat(w) \/ Exit(w)
  BY <1>0, <1>4 DEF Heartbeat, Exit, Rests
<1>5. CASE Release(w)
  <2>1. PICK r \in DOMAIN requests : /\ proc[w] = "infer" /\ IsLast(w, r) /\ Close(r, "completed")
                                     /\ proc' = [proc EXCEPT ![w] = "idle"]
    BY <1>5 DEF Release
  <2> QED BY <2>1, CloseEffect DEF IsLast
<1>6. CASE Withdraw(w)
  <2>1. PICK r \in DOMAIN requests : /\ proc[w] = "waiting" /\ IsLast(w, r) /\ Close(r, "cancelled")
                                     /\ proc' = [proc EXCEPT ![w] = "idle"]
    BY <1>6 DEF Withdraw
  <2> QED BY <2>1, CloseEffect DEF IsLast
<1> QED BY <1>1, <1>2, <1>3, <1>4, <1>5, <1>6 DEF WorkerStep

LEMMA ReapEffect ==
    ASSUME TypeOK, NEW w \in Workers, Reap(w)
    PROVE  Reaps(w)
<1> DEFINE D == {q \in DOMAIN requests : requests[q].task = w /\ Open(q)}
<1>1. requests \in Seq(Request) /\ D \in SUBSET DOMAIN requests
  BY DEF TypeOK
<1>2. requests' = [q \in DOMAIN requests |->
          IF q \in D THEN [requests[q] EXCEPT !.state = "cancelled"] ELSE requests[q]]
  BY DEF Reap, CleanedUp
<1> HIDE DEF D
<1>3. SameRows /\ \A q \in DOMAIN requests :
          requests'[q].state = IF q \in D THEN "cancelled" ELSE requests[q].state
  BY <1>1, <1>2, CleanedRequests DEF SameRows
<1> QED BY <1>3 DEF Reap, CleanedUp, Reaps, D

LEMMA RecoverEffect ==
    ASSUME TypeOK, Recover
    PROVE  Recovers
<1> DEFINE D == {q \in DOMAIN requests : Open(q)}
<1>1. requests \in Seq(Request) /\ D \in SUBSET DOMAIN requests
  BY DEF TypeOK
<1>2. requests' = [q \in DOMAIN requests |->
          IF q \in D THEN [requests[q] EXCEPT !.state = "cancelled"] ELSE requests[q]]
  BY DEF Recover, RecoveredRequest
<1> HIDE DEF D
<1>3. SameRows /\ \A q \in DOMAIN requests :
          requests'[q].state = IF q \in D THEN "cancelled" ELSE requests[q].state
  BY <1>1, <1>2, CleanedRequests DEF SameRows
<1> QED BY <1>3 DEF Recover, Recovers, D

LEMMA RuntimeTables ==
    ASSUME TypeOK, RuntimeStep
    PROVE  TableStep
<1> USE DEF TableStep
<1>0. requests \in Seq(Request) /\ lease \in {NoLease} \cup DOMAIN requests
      /\ proc \in [Workers -> {"none", "idle", "waiting", "infer", "gone"}]
  BY DEF TypeOK
<1>1. CASE Recover \/ \E w \in Workers : Reap(w)
  BY <1>1, ReapEffect, RecoverEffect
<1>3. ASSUME NEW w \in Workers, Launch(w) \/ Terminate(w) \/ KillOrphan(w) PROVE TableStep
  BY <1>0, <1>3 DEF Launch, Terminate, KillOrphan, Rests
<1>4. CASE Dispatch \/ SyncFailures \/ Crash \/ Start
  BY <1>4 DEF Dispatch, SyncFailures, Crash, Start, Rests
<1> QED BY <1>1, <1>3, <1>4 DEF RuntimeStep

LEMMA TableSteps ==
    ASSUME TypeOK, [Next]_vars
    PROVE  TableStep
<1>1. ASSUME NEW m \in Messages, MessageStep(m) PROVE TableStep
  BY <1>1 DEF MessageStep, Submit, Stream, Reply, EndTask, CancelTask, TableStep, Rests
<1>2. CASE Lapse \/ UNCHANGED vars
  BY <1>2 DEF Lapse, vars, TableStep, Rests
<1> QED BY <1>1, <1>2, WorkerTables, RuntimeTables DEF Next

----------------------------------------------------------------------------
(* The type invariant.                                                     *)

(* The rows that were there keep their task and their role.                *)
RowsKept ==
    /\ requests' \in Seq(Request) /\ lease' \in {NoLease} \cup DOMAIN requests'
    /\ DOMAIN requests \subseteq DOMAIN requests'
    /\ \A q \in DOMAIN requests : /\ requests'[q].task = requests[q].task
                                  /\ requests'[q].role = requests[q].role

LEMMA TablesTyped ==
    ASSUME TypeOK, TableStep
    PROVE  RowsKept
<1> USE DEF RowsKept
<1>0. requests \in Seq(Request) /\ lease \in {NoLease} \cup DOMAIN requests
  BY DEF TypeOK
<1>1. CASE Rests \/ Expires \/ Recovers
  BY <1>0, <1>1 DEF Rests, Expires, Recovers, SameRows
<1>2. ASSUME NEW w \in Workers, Asks(w) PROVE RowsKept
  <2>1. PICK role \in Roles :
            requests' = Append(requests, [task |-> w, role |-> role, state |-> "new"])
    BY <1>2 DEF Asks
  <2>2. [task |-> w, role |-> role, state |-> "new"] \in Request
    BY DEF Request
  <2>3. requests' \in Seq(Request) /\ \A q \in DOMAIN requests : requests'[q] = requests[q]
    BY <1>0, <2>1, <2>2
  <2>4. DOMAIN requests \subseteq DOMAIN requests'
    BY <1>0, <2>1, <2>2
  <2> QED BY <1>0, <1>2, <2>3, <2>4 DEF Asks
<1>3. ASSUME NEW w \in Workers, Reaps(w) PROVE RowsKept
  BY <1>0, <1>3 DEF Reaps, SameRows
<1>4. ASSUME NEW w \in Workers, NEW r \in DOMAIN requests,
             Queues(w, r) \/ Grants(w, r) \/ Closes(w, r)
      PROVE RowsKept
  BY <1>0, <1>4 DEF Queues, Grants, Closes, SameRows, LeaseAfterRelease
<1> QED BY <1>1, <1>2, <1>3, <1>4 DEF TableStep

LEMMA WorkerTyped ==
    ASSUME TypeOK, NEW w \in Workers, WorkerStep(w)
    PROVE  TypeOK'
<1>1. RowsKept
  BY WorkerTables, TablesTyped
<1>2. /\ lapsed' \in BOOLEAN
      /\ proc' \in [Workers -> {"none", "idle", "waiting", "infer", "gone"}]
      /\ UNCHANGED <<children, runtime, inbox, conv, crashes>>
  BY DEF TypeOK, WorkerStep, Ask, Queue, Poll, Heartbeat, Release, Withdraw, Close, Exit
<1> QED BY <1>1, <1>2 DEF TypeOK, RowsKept

LEMMA RuntimeTyped ==
    ASSUME TypeOK, RuntimeStep
    PROVE  TypeOK'
<1>1. RowsKept
  BY RuntimeTables, TablesTyped
<1>2. /\ lapsed' \in BOOLEAN
      /\ proc' \in [Workers -> {"none", "idle", "waiting", "infer", "gone"}]
      /\ children' \in SUBSET Workers /\ runtime' \in {"down", "starting", "up"}
      /\ crashes' \in 0..MaxCrashes
  <2>1. ASSUME NEW w \in Workers, Launch(w) \/ Terminate(w) \/ KillOrphan(w) PROVE <1>2!:
    BY <2>1 DEF TypeOK, Launch, Terminate, KillOrphan
  <2>2. CASE Recover \/ \E w \in Workers : Reap(w)
    BY <2>2 DEF TypeOK, Reap, Recover
  <2>3. CASE Dispatch \/ SyncFailures \/ Crash \/ Start
    BY <2>3, BoundsAssumption DEF TypeOK, Dispatch, SyncFailures, Crash, Start
  <2> QED BY <2>1, <2>2, <2>3 DEF RuntimeStep
<1>3. inbox' \in [Messages -> {"none", "queued", "streaming"} \cup Settled]
  BY DEF TypeOK, RuntimeStep, Launch, Terminate, Reap, KillOrphan, Dispatch, SyncFailures, Failed,
     Settled, Crash, Start, Recover
<1>4. conv' \in [Messages -> {"none", "queued", "running"} \cup Settled]
  <2> DEFINE C == {"none", "queued", "running"} \cup Settled
  <2>0. conv \in [Messages -> C] /\ \A m \in Messages : Interrupt(m) \in C
    BY DEF TypeOK, Interrupt, Settled
  <2>1. CASE \E w \in Workers : Launch(w) \/ Reap(w)
    BY <2>0, <2>1 DEF Launch, Reap
  <2>2. CASE Recover \/ Dispatch
    BY <2>0, <2>2 DEF Recover, Dispatch
  <2>3. CASE UNCHANGED conv
    BY <2>0, <2>3
  <2> QED BY <2>1, <2>2, <2>3 DEF RuntimeStep, Terminate, KillOrphan, SyncFailures, Crash, Start
<1> QED BY <1>1, <1>2, <1>3, <1>4 DEF TypeOK, RowsKept

LEMMA TypeStep ==
    ASSUME TypeOK, [Next]_vars
    PROVE  TypeOK'
<1>1. ASSUME NEW m \in Messages, MessageStep(m) PROVE TypeOK'
  <2>1. inbox' \in [Messages -> {"none", "queued", "streaming"} \cup Settled]
    BY <1>1 DEF TypeOK, MessageStep, Submit, Stream, Reply, EndTask, CancelTask, Settled
  <2>2. conv' \in [Messages -> {"none", "queued", "running"} \cup Settled]
    BY <1>1 DEF TypeOK, MessageStep, Submit, Stream, Reply, EndTask, CancelTask, Settled
  <2>3. UNCHANGED <<requests, lease, lapsed, proc, children, runtime, crashes>>
    BY <1>1 DEF MessageStep, Submit, Stream, Reply, EndTask, CancelTask
  <2> QED BY <2>1, <2>2, <2>3 DEF TypeOK
<1>2. CASE Lapse \/ UNCHANGED vars
  BY <1>2 DEF TypeOK, Lapse, vars
<1> QED BY <1>1, <1>2, WorkerTyped, RuntimeTyped DEF Next

(* Every reachable state of the arbiter and of the processes around it is  *)
(* well typed; in particular the lease names a request that exists.        *)
THEOREM ArbiterTypeCorrect == Spec => []TypeOK
<1>1. ASSUME Init PROVE TypeOK
  <2>1. requests \in Seq(Request) /\ lease \in {NoLease} \cup DOMAIN requests
    BY <1>1 DEF Init
  <2>2. crashes \in 0..MaxCrashes
    BY <1>1, BoundsAssumption DEF Init
  <2>3. /\ proc \in [Workers -> {"none", "idle", "waiting", "infer", "gone"}]
        /\ inbox \in [Messages -> {"none", "queued", "streaming"} \cup Settled]
        /\ conv \in [Messages -> {"none", "queued", "running"} \cup Settled]
    BY <1>1 DEF Init
  <2> QED BY <1>1, <2>1, <2>2, <2>3 DEF Init, TypeOK
<1> QED BY <1>1, TypeStep, PTL DEF Spec

----------------------------------------------------------------------------
(* The two tables agree.                                                   *)

LEMMA AgreeStep ==
    ASSUME TypeOK, TablesAgree, TableStep
    PROVE  TablesAgree'
<1>0. requests \in Seq(Request) /\ lease \in {NoLease} \cup DOMAIN requests
      /\ \A r \in DOMAIN requests : r # NoLease
  BY RequestRows DEF TypeOK
<1>1. CASE Rests \/ Expires \/ Recovers
  BY <1>0, <1>1 DEF Rests, Expires, Recovers, SameRows, TablesAgree, Open
<1>2. ASSUME NEW w \in Workers, Asks(w) PROVE TablesAgree'
  <2>1. PICK role \in Roles :
            requests' = Append(requests, [task |-> w, role |-> role, state |-> "new"])
    BY <1>2 DEF Asks
  <2>2. DOMAIN requests = 1..Len(requests) /\ Len(requests) \in Nat
    BY <1>0
  <2>3. ASSUME NEW r \in DOMAIN requests'
        PROVE  \/ r \in DOMAIN requests /\ requests'[r] = requests[r]
               \/ r \notin DOMAIN requests /\ requests'[r].state = "new" /\ r # NoLease
    BY <1>0, <2>1, <2>2 DEF NoLease
  <2> QED BY <1>0, <1>2, <2>3 DEF Asks, TablesAgree
<1>3. ASSUME NEW w \in Workers, Reaps(w) PROVE TablesAgree'
  BY <1>0, <1>3 DEF Reaps, SameRows, TablesAgree, Open
<1>4. ASSUME NEW w \in Workers, NEW r \in DOMAIN requests, Queues(w, r) \/ Grants(w, r)
      PROVE  TablesAgree'
  BY <1>0, <1>4 DEF Queues, Grants, SameRows, TablesAgree
<1>5. ASSUME NEW w \in Workers, NEW r \in DOMAIN requests, Closes(w, r)
      PROVE  TablesAgree'
  BY <1>0, <1>5 DEF Closes, SameRows, TablesAgree, LeaseAfterRelease, Open
<1> QED BY <1>1, <1>2, <1>3, <1>4, <1>5 DEF TableStep

(* The request that holds the lease is the one that is active, through     *)
(* polling, expiry, late releases, cleanup by the supervisor and restarts. *)
THEOREM LeaseAndRequestsAgree == Spec => []TablesAgree
<1>1. Init => TablesAgree
  BY DEF Init, TablesAgree
<1>2. TypeOK /\ TablesAgree /\ [Next]_vars => TablesAgree'
  BY TableSteps, AgreeStep
<1> QED BY <1>1, <1>2, ArbiterTypeCorrect, PTL DEF Spec

----------------------------------------------------------------------------
(* The holder of the lease.                                                *)

(* With the same rows, a worker's last request is the same.                *)
LEMMA SameLast ==
    ASSUME SameRows, NEW w, NEW r \in DOMAIN requests
    PROVE  IsLast(w, r)' <=> IsLast(w, r)
BY DEF SameRows, IsLast

(* A request of one worker leaves the last ones of the others in place.    *)
LEMMA LastAfterAsk ==
    ASSUME TypeOK, NEW v \in Workers, Asks(v), NEW w \in Workers \ {v}, NEW r \in DOMAIN requests'
    PROVE  /\ IsLast(w, r)' <=> r \in DOMAIN requests /\ IsLast(w, r)
           /\ r \in DOMAIN requests => requests'[r] = requests[r]
<1>1. PICK role \in Roles :
          requests' = Append(requests, [task |-> v, role |-> role, state |-> "new"])
  BY DEF Asks
<1>2. requests \in Seq(Request) /\ DOMAIN requests = 1..Len(requests) /\ Len(requests) \in Nat
  BY DEF TypeOK
<1>3. DOMAIN requests' = DOMAIN requests \cup {Len(requests) + 1}
  BY <1>1, <1>2
<1>4. \A q \in DOMAIN requests : requests'[q] = requests[q]
  BY <1>1, <1>2
<1>5. requests'[Len(requests) + 1].task = v
  BY <1>1, <1>2
<1> QED BY <1>3, <1>4, <1>5 DEF IsLast

LEMMA HolderStep ==
    ASSUME TypeOK, TablesAgree, HolderKeepsLease, TableStep
    PROVE  HolderKeepsLease'
<1>0. /\ requests \in Seq(Request) /\ lease \in {NoLease} \cup DOMAIN requests
      /\ \A r \in DOMAIN requests : r # NoLease
      /\ proc \in [Workers -> {"none", "idle", "waiting", "infer", "gone"}]
  BY RequestRows DEF TypeOK
<1>1. SUFFICES ASSUME NEW w \in Workers, NEW r \in DOMAIN requests',
                      proc'[w] = "infer", IsLast(w, r)'
               PROVE  lease' = r \/ requests'[r].state = "expired"
  BY DEF HolderKeepsLease
<1>2. CASE Rests
  BY <1>1, <1>2 DEF Rests, HolderKeepsLease, IsLast
<1>3. CASE Expires
  <2>1. r \in DOMAIN requests /\ IsLast(w, r) /\ proc[w] = "infer"
    BY <1>1, <1>3, SameLast DEF Expires, SameRows
  <2>2. lease = r \/ requests[r].state = "expired"
    BY <2>1 DEF HolderKeepsLease
  <2> QED BY <1>3, <2>1, <2>2 DEF Expires, TablesAgree
<1>4. CASE Recovers
  BY <1>1, <1>4 DEF Recovers
<1>5. ASSUME NEW v \in Workers, Asks(v) PROVE lease' = r \/ requests'[r].state = "expired"
  <2>1. v # w /\ proc[w] = "infer"
    BY <1>0, <1>1, <1>5 DEF Asks
  <2>2. r \in DOMAIN requests /\ IsLast(w, r) /\ requests'[r] = requests[r]
    BY <1>1, <1>5, <2>1, LastAfterAsk
  <2> QED BY <1>5, <2>1, <2>2 DEF Asks, HolderKeepsLease
<1>6. ASSUME NEW v \in Workers, Reaps(v) PROVE lease' = r \/ requests'[r].state = "expired"
  <2>1. r \in DOMAIN requests /\ IsLast(w, r) /\ proc[w] = "infer" /\ v # w
    BY <1>1, <1>6, SameLast DEF Reaps, SameRows
  <2>2. lease = r \/ requests[r].state = "expired"
    BY <2>1 DEF HolderKeepsLease
  <2> QED BY <1>6, <2>1, <2>2 DEF Reaps, IsLast
<1>7. ASSUME NEW v \in Workers, NEW q \in DOMAIN requests, Queues(v, q) \/ Closes(v, q)
      PROVE  lease' = r \/ requests'[r].state = "expired"
  <2>1. v # w /\ proc[w] = "infer"
    BY <1>0, <1>1, <1>7 DEF Queues, Closes
  <2>2. r \in DOMAIN requests /\ IsLast(w, r) /\ r # q
    BY <1>1, <1>7, <2>1, SameLast DEF Queues, Closes, SameRows, IsLast
  <2>3. lease = r \/ requests[r].state = "expired"
    BY <2>1, <2>2 DEF HolderKeepsLease
  <2> QED BY <1>7, <2>2, <2>3 DEF Queues, Closes, LeaseAfterRelease
<1>8. ASSUME NEW v \in Workers, NEW q \in DOMAIN requests, Grants(v, q)
      PROVE  lease' = r \/ requests'[r].state = "expired"
  <2>1. r \in DOMAIN requests /\ IsLast(w, r)
    BY <1>1, <1>8, SameLast DEF Grants, SameRows
  <2>2. CASE w = v
    <3>1. q \in Nat /\ r \in Nat
      BY <1>0, <2>1
    <3>2. r = q
      BY <1>8, <2>1, <2>2, <3>1 DEF Grants, IsLast
    <3> QED BY <1>8, <3>2 DEF Grants
  <2>3. CASE w # v
    <3>1. proc[w] = "infer" /\ r # q
      BY <1>0, <1>1, <1>8, <2>1, <2>3 DEF Grants, IsLast
    <3>2. lease = r \/ requests[r].state = "expired"
      BY <2>1, <3>1 DEF HolderKeepsLease
    <3> QED BY <1>0, <1>8, <2>1, <3>1, <3>2 DEF Grants, TablesAgree
  <2> QED BY <2>2, <2>3
<1> QED BY <1>2, <1>3, <1>4, <1>5, <1>6, <1>7, <1>8 DEF TableStep

(* A worker that infers holds the lease, or the clock took it: no late     *)
(* release of an earlier holder, no cleanup of another task and no restart *)
(* of the runtime ends somebody else's lease.                              *)
THEOREM LeaseStaysWithHolder == Spec => []HolderKeepsLease
<1>1. Init => HolderKeepsLease
  BY DEF Init, HolderKeepsLease
<1>2. TypeOK /\ TablesAgree /\ HolderKeepsLease /\ [Next]_vars => HolderKeepsLease'
  BY TableSteps, HolderStep
<1> QED BY <1>1, <1>2, ArbiterTypeCorrect, LeaseAndRequestsAgree, PTL DEF Spec

(* The single request row that makes the inference server exclusive: two   *)
(* workers that infer, neither of them past its lease, are one.            *)
OneInference ==
    \A v, w \in Workers : \A q, r \in DOMAIN requests :
        /\ proc[v] = "infer" /\ IsLast(v, q) /\ requests[q].state # "expired"
        /\ proc[w] = "infer" /\ IsLast(w, r) /\ requests[r].state # "expired"
        => v = w

(* At most one inference runs under a lease that has not expired, however  *)
(* many workers ask, die and are replaced.                                 *)
THEOREM InferenceIsExclusive == Spec => []OneInference
<1>1. HolderKeepsLease => OneInference
  BY DEF HolderKeepsLease, OneInference, IsLast
<1> QED BY <1>1, LeaseStaysWithHolder, PTL

----------------------------------------------------------------------------
(* Requests of dead processes.                                             *)

Alive(w) == proc[w] \in {"idle", "waiting", "infer"}

(* What makes NothingAbandoned inductive: when a process dies, the         *)
(* supervisor has it in its map, or a crash has emptied the map and the    *)
(* runtime is still to recover.                                            *)
ProcessesKnown == \A w \in Workers : Alive(w) => w \in children \/ runtime # "up"

LEMMA KnownStep ==
    ASSUME TypeOK, ProcessesKnown, [Next]_vars
    PROVE  ProcessesKnown'
<1> USE DEF ProcessesKnown, Alive
<1>0. proc \in [Workers -> {"none", "idle", "waiting", "infer", "gone"}]
  BY DEF TypeOK
<1>1. ASSUME NEW w \in Workers, WorkerStep(w) PROVE ProcessesKnown'
  <2>1. UNCHANGED <<children, runtime>> /\ \A v \in Workers : Alive(v)' => Alive(v)
    BY <1>0, <1>1 DEF WorkerStep, Ask, Queue, Poll, Heartbeat, Release, Withdraw, Exit
  <2> QED BY <2>1
<1>2. ASSUME NEW w \in Workers, Launch(w) \/ Terminate(w) \/ Reap(w) \/ KillOrphan(w)
      PROVE  ProcessesKnown'
  BY <1>0, <1>2 DEF Launch, Terminate, Reap, KillOrphan
<1>3. CASE Dispatch \/ SyncFailures \/ Crash \/ Start \/ Recover
  BY <1>3 DEF Dispatch, SyncFailures, Crash, Start, Recover
<1>4. ASSUME NEW m \in Messages, MessageStep(m) PROVE ProcessesKnown'
  BY <1>4 DEF MessageStep, Submit, Stream, Reply, EndTask, CancelTask
<1>5. CASE Lapse \/ UNCHANGED vars
  BY <1>5 DEF Lapse, vars
<1> QED BY <1>1, <1>2, <1>3, <1>4, <1>5 DEF Next, RuntimeStep

(* A request that is open after a step, its process dead, was open before: *)
(* only a process that runs opens one.                                     *)
LEMMA OpenedByTheLiving ==
    ASSUME TypeOK, TableStep, NEW r \in DOMAIN requests', Open(r)',
           proc'[requests'[r].task] = "gone"
    PROVE  /\ r \in DOMAIN requests /\ Open(r) /\ requests'[r].task = requests[r].task
           /\ requests[r].task \in Workers
<1>0. /\ requests \in Seq(Request)
      /\ proc \in [Workers -> {"none", "idle", "waiting", "infer", "gone"}]
  BY DEF TypeOK
<1>1. CASE r \in DOMAIN requests
  <2>1. requests[r].task \in Workers /\ requests'[r].task = requests[r].task
    BY <1>0, <1>1, RequestRows, TablesTyped DEF RowsKept
  <2>2. Open(r)
    <3>1. CASE Rests \/ Expires \/ Recovers
      BY <1>1, <3>1 DEF Rests, Expires, Recovers, Open
    <3>2. ASSUME NEW w \in Workers, Asks(w) PROVE Open(r)
      <4>1. requests'[r] = requests[r]
        BY <1>0, <1>1, <3>2 DEF Asks
      <4> QED BY <4>1 DEF Open
    <3>3. ASSUME NEW w \in Workers, Reaps(w) PROVE Open(r)
      BY <1>1, <3>3 DEF Reaps, Open
    <3>4. ASSUME NEW w \in Workers, NEW q \in DOMAIN requests,
                 Queues(w, q) \/ Grants(w, q) \/ Closes(w, q)
          PROVE  Open(r)
      BY <1>0, <1>1, <3>4, <2>1 DEF Queues, Grants, Closes, Open, IsLast
    <3> QED BY <3>1, <3>2, <3>3, <3>4 DEF TableStep
  <2> QED BY <1>1, <2>1, <2>2
<1>2. CASE r \notin DOMAIN requests
  <2>1. PICK w \in Workers : Asks(w)
    BY <1>2 DEF TableStep, Rests, Expires, Recovers, Reaps, Queues, Grants, Closes, SameRows
  <2>2. requests'[r].state = "new"
    BY <1>0, <1>2, <2>1 DEF Asks
  <2> QED BY <2>2 DEF Open
<1> QED BY <1>1, <1>2

LEMMA AbandonedStep ==
    ASSUME TypeOK, ProcessesKnown, NothingAbandoned, [Next]_vars
    PROVE  NothingAbandoned'
<1>0. proc \in [Workers -> {"none", "idle", "waiting", "infer", "gone"}]
  BY DEF TypeOK
<1>1. SUFFICES ASSUME NEW r \in DOMAIN requests', Open(r)', proc'[requests'[r].task] = "gone",
                      runtime' = "up"
               PROVE  requests'[r].task \in children'
  BY DEF NothingAbandoned
<1> DEFINE w == requests[r].task
<1>2. r \in DOMAIN requests /\ Open(r) /\ requests'[r].task = w /\ w \in Workers
  BY <1>1, TableSteps, OpenedByTheLiving
<1>3. CASE Recover
  BY <1>1, <1>2, <1>3, RecoverEffect DEF Recovers, Open
<1>4. ASSUME NEW v \in Workers, Reap(v) PROVE w \in children'
  <2>1. w # v
    BY <1>1, <1>2, <1>4, ReapEffect DEF Reaps, Open
  <2>2. proc[w] = "gone" /\ runtime = "up"
    BY <1>1, <1>2, <1>4 DEF Reap
  <2> QED BY <1>2, <1>4, <2>1, <2>2 DEF Reap, NothingAbandoned
<1>5. CASE ~Recover /\ ~ \E v \in Workers : Reap(v)
  <2>1. runtime = "up" /\ children \subseteq children'
    BY <1>1, <1>5 DEF Next, WorkerStep, Ask, Queue, Poll, Heartbeat, Release, Withdraw, Exit,
       MessageStep, Submit, Stream, Reply, EndTask, CancelTask, Lapse, vars, RuntimeStep, Launch, Terminate,
       KillOrphan, Dispatch, SyncFailures, Crash, Start
  <2>2. proc[w] = "gone" \/ Alive(w)
    <3>1. CASE UNCHANGED proc
      BY <1>1, <1>2, <3>1
    <3>2. ASSUME NEW v \in Workers, WorkerStep(v) PROVE proc[w] = "gone" \/ Alive(w)
      BY <1>0, <1>1, <1>2, <3>2 DEF WorkerStep, Ask, Queue, Poll, Heartbeat, Release, Withdraw,
         Exit, Alive
    <3>3. ASSUME NEW v \in Workers, Launch(v) \/ Terminate(v) \/ KillOrphan(v)
          PROVE  proc[w] = "gone" \/ Alive(w)
      BY <1>0, <1>1, <1>2, <3>3 DEF Launch, Terminate, KillOrphan, Alive
    <3> QED BY <1>5, <3>1, <3>2, <3>3 DEF Next, MessageStep, Submit, Stream, Reply, EndTask, CancelTask, Lapse,
        vars, RuntimeStep, Dispatch, SyncFailures, Crash, Start
  <2>3. w \in children
    BY <1>2, <2>1, <2>2 DEF NothingAbandoned, ProcessesKnown
  <2> QED BY <1>2, <2>1, <2>3
<1> QED BY <1>2, <1>3, <1>4, <1>5

(* No dead process holds the lease or waits at the head of the queue       *)
(* without somebody left to clean up behind it: the supervisor that will   *)
(* reap it, or the runtime that has yet to recover.                        *)
THEOREM DeadRequestsAreCleanedUp == Spec => []NothingAbandoned
<1>1. Init => ProcessesKnown /\ NothingAbandoned
  BY DEF Init, ProcessesKnown, NothingAbandoned, Alive
<1>2. /\ TypeOK /\ ProcessesKnown /\ [Next]_vars => ProcessesKnown'
      /\ TypeOK /\ ProcessesKnown /\ NothingAbandoned /\ [Next]_vars => NothingAbandoned'
  BY KnownStep, AbandonedStep
<1> QED BY <1>1, <1>2, ArbiterTypeCorrect, PTL DEF Spec

----------------------------------------------------------------------------
(* The owner goes first.                                                   *)

(* Only the poll of a waiting request gives it the lease.                  *)
LEMMA OnlyGrantsGive ==
    ASSUME TypeOK, TableStep, NEW r \in DOMAIN requests, lease' = r, lease # r
    PROVE  \E w \in Workers : Grants(w, r)
<1>1. r # NoLease
  BY RequestRows DEF TypeOK
<1> QED BY <1>1 DEF TableStep, Rests, Expires, Recovers, Asks, Reaps, Queues, Grants, Closes,
        LeaseAfterRelease

LEMMA OwnerStep ==
    ASSUME TypeOK, [Next]_vars, NEW r \in DOMAIN requests, lease' = r, lease # r
    PROVE  /\ PRIORITY[requests[r].role] < PRIORITY.router =>
                \A m \in Messages : inbox[m] \in {"none"} \cup Settled
           /\ \A q \in DOMAIN requests :
                requests[q].state = "waiting" =>
                    PRIORITY[requests[q].role] <= PRIORITY[requests[r].role]
<1>1. PICK w \in Workers : Grants(w, r)
  BY TableSteps, OnlyGrantsGive
<1>2. First(AfterExpiry, r) /\ ~BlockedByOwner(requests[r].role)
  BY <1>1 DEF Grants
<1>3. \A m \in Messages :
         inbox[m] \in {"none", "queued", "streaming"} \cup Settled
  BY DEF TypeOK
<1>4. PRIORITY[requests[r].role] < PRIORITY.router =>
          \A m \in Messages : inbox[m] \in {"none"} \cup Settled
  BY <1>2, <1>3 DEF BlockedByOwner, OwnerPending
<1>5. ASSUME NEW q \in DOMAIN requests, requests[q].state = "waiting"
      PROVE  PRIORITY[requests[q].role] <= PRIORITY[requests[r].role]
  <2>1. PRIORITY[requests[q].role] \in Int /\ PRIORITY[requests[r].role] \in Int
    <3>1. requests[q].role \in Roles /\ requests[r].role \in Roles
      BY RequestRows DEF TypeOK
    <3>2. \A role \in Roles : PRIORITY[role] \in Int
      BY DEF Roles, PRIORITY
    <3> QED BY <3>1, <3>2
  <2>2. q \in Waiting(AfterExpiry)
    BY <1>5, ExpiryEffect DEF Waiting
  <2>3. /\ AfterExpiry[q].role = requests[q].role
        /\ AfterExpiry[r].role = requests[r].role
    BY ExpiryEffect
  <2> HIDE DEF AfterExpiry
  <2> QED BY <1>2, <2>1, <2>2, <2>3 DEF First
<1> QED BY <1>4, <1>5

(* Whatever the order in which messages arrive, tasks poll and processes   *)
(* die: while the owner waits for an answer no inference below routing     *)
(* starts, and the lease always goes to the most urgent request.           *)
THEOREM OwnerIsServedFirst == Spec => OwnerGoesFirst
<1>1. ASSUME TypeOK, [Next]_vars
      PROVE  \A r \in DOMAIN requests :
                lease' = r /\ lease # r =>
                    /\ PRIORITY[requests[r].role] < PRIORITY.router =>
                          \A m \in Messages : inbox[m] \in {"none"} \cup Settled
                    /\ \A q \in DOMAIN requests :
                          requests[q].state = "waiting" =>
                              PRIORITY[requests[q].role] <= PRIORITY[requests[r].role]
  BY <1>1, OwnerStep
<1> QED BY <1>1, ArbiterTypeCorrect, PTL DEF Spec, OwnerGoesFirst
============================================================================
