--------------------------- MODULE WorkshopProofs ---------------------------
(***************************************************************************)
(* Proofs about Workshop for any number of workshops, rows, stops and      *)
(* crashes, and any routes.                                                *)
(***************************************************************************)
EXTENDS Workshop, FiniteSetTheorems, TLAPS

----------------------------------------------------------------------------
(* The inductive invariant, part by part.                                  *)

(* A workshop is the owner's task; every other row is a child of one.      *)
ShapeOK ==
    /\ NWorkshops <= Len(tasks)
    /\ \A t \in DOMAIN tasks :
          /\ ~tasks[t].resumable
          /\ IF t \in Workshops
             THEN tasks[t].kind = "workshop" /\ tasks[t].parent = NoTask
             ELSE /\ tasks[t].parent \in Workshops
                  /\ tasks[t].kind \in {"workshop_stage", "research", "journal"}
          /\ \/ tasks[t].state \in {"queued", "running"} \cup Terminal
             \/ t \in Workshops /\ tasks[t].state = "waiting"

(* A process that lives has a running task; a queued task has none.        *)
ProcessOK ==
    \A t \in TaskIds :
        /\ proc[t] \in {"start", "run"} => t \in DOMAIN tasks /\ tasks[t].state = "running"
        /\ t \in DOMAIN tasks => (tasks[t].state = "queued" => proc[t] = "none")
        /\ t \notin DOMAIN tasks => proc[t] = "none"

(* What the supervisor is at, however long ago it decided to do it.        *)
SupervisorOK ==
    /\ pc.at = "launch" => /\ pc.task \in DOMAIN tasks /\ proc[pc.task] = "none"
                           /\ tasks[pc.task].state = "running"
    /\ pc.at = "reap" => pc.task \in children
    /\ pc.at \in {"decide", "close"} => pc.task \in Workshops /\ tasks[pc.task].state = "waiting"
    /\ pc.at = "recover" => \A t \in TaskIds : proc[t] \in {"none", "gone"}
    /\ \A t \in children : proc[t] # "none"

(* The checkpoint of a workshop that waits or was completed.               *)
CheckedOut(w) == tasks[w].state \in {"waiting", "completed"}

CheckpointOK(w) ==
    LET cp == checkpoint[w]
    IN  /\ cp.child \in DOMAIN tasks \ Workshops /\ tasks[cp.child].parent = w
        /\ cp.stage \in Stage
        /\ tasks[cp.child].kind = StageKind(cp.stage)
        /\ \A t \in DOMAIN tasks : IsStage(t) /\ tasks[t].parent = w => t <= cp.child
        /\ \A s \in DOMAIN cp.history :
              /\ cp.history[s] \in DOMAIN tasks /\ cp.history[s] < cp.child
              /\ tasks[cp.history[s]].state = "completed"

(* A workshop that has not waited yet has no children; the only stage that *)
(* may live is the one its checkpoint names.                               *)
StagesOK ==
    /\ \A t \in DOMAIN tasks \ Workshops :
          tasks[tasks[t].parent].state \notin {"queued", "running"}
    /\ \A t \in DOMAIN tasks :
          IsStage(t) /\ Live(tasks[t]) => t = checkpoint[tasks[t].parent].child

(* While the supervisor has a waiting workshop's process to reap, its lane *)
(* is taken: the first stage has not started.                              *)
FirstStageHeld(w) ==
    w \in children /\ tasks[w].state = "waiting" =>
        checkpoint[w].stage = "gap" /\ tasks[checkpoint[w].child].state \in {"queued", "cancelled"}

(* Research does not ask whether its workshop still waits: it does, unless *)
(* the research was cancelled with it.                                     *)
ResearchOK(t) ==
    t \notin Workshops /\ tasks[t].kind = "research" /\ Live(tasks[t]) /\ ~tasks[t].cancel =>
        tasks[tasks[t].parent].state = "waiting"

ClosingOK ==
    pc.at = "close" =>
        LET c == checkpoint[pc.task].child IN ~Live(tasks[c]) \/ tasks[c].cancel

(* The stages of a route that come before one of its stages.               *)
Position == [gap |-> 1, research |-> 2, design |-> 3, implementation |-> 4, test |-> 5,
             review |-> 6, canary |-> 7, execute |-> 8, verify |-> 9]

Before(stage, found) == {s \in Path(found) : Position[s] < Position[stage]}

(* The history of a checkpoint: the way the workshop has come.             *)
RouteOK(w) ==
    LET cp == checkpoint[w]
    IN  /\ cp.stage = "gap" => DOMAIN cp.history = {}
        /\ cp.stage # "gap" =>
              /\ "gap" \in DOMAIN cp.history
              /\ LET found == result[cp.history["gap"]]
                 IN  /\ found \in Routes
                     /\ cp.stage \in Path(found)
                     /\ DOMAIN cp.history = Before(cp.stage, found)
        /\ \A s, u \in DOMAIN cp.history : cp.history[s] = cp.history[u] => s = u
        /\ tasks[cp.child].state = "completed" => result[cp.child] \in Findings(cp.stage)
        /\ tasks[w].state = "completed" =>
              /\ cp.stage = "verify" /\ result[cp.child] = "verified"
              /\ tasks[cp.child].state = "completed"

Journals(w) == {t \in DOMAIN tasks : tasks[t].parent = w /\ tasks[t].kind = "journal"}

(* The journal that has been written and not yet been paid for by the end  *)
(* of its workshop.                                                        *)
Written(w) == IF ~Live(tasks[w]) \/ pc = [at |-> "close", task |-> w] THEN 1 ELSE 0

JournalsOK(w) == Cardinality(Journals(w)) <= crashes + Written(w)

Inv ==
    /\ TypeOK /\ DOMAIN checkpoint = Workshops
    /\ ShapeOK /\ ProcessOK /\ SupervisorOK /\ StagesOK /\ ClosingOK
    /\ \A t \in DOMAIN tasks : ResearchOK(t)
    /\ \A w \in Workshops :
          /\ CheckedOut(w) => CheckpointOK(w) /\ RouteOK(w)
          /\ FirstStageHeld(w)
          /\ JournalsOK(w)

----------------------------------------------------------------------------
(* What the transactions do to the rows.                                   *)

LEMMA Sets ==
    /\ Workshops \subseteq TaskIds /\ TaskIds \subseteq Nat \ {0} /\ NWorkshops \in Nat
    /\ NoTask \notin TaskIds /\ MaxTasks \in Nat
BY WorkshopsAssumption DEF Workshops, TaskIds, NoTask

LEMMA Rows ==
    ASSUME TypeOK
    PROVE  /\ DOMAIN tasks = 1..Len(tasks) /\ Len(tasks) \in Nat /\ DOMAIN tasks \subseteq TaskIds
           /\ \A t \in DOMAIN tasks : tasks[t] \in Row
           /\ ShapeOK => Workshops \subseteq DOMAIN tasks
<1>1. tasks \in Seq(Row) /\ Len(tasks) <= MaxTasks
  BY DEF TypeOK
<1>2. DOMAIN tasks = 1..Len(tasks) /\ Len(tasks) \in Nat
  BY <1>1
<1>3. \A t \in DOMAIN tasks : tasks[t] \in Row
  BY <1>1
<1> QED BY <1>1, <1>2, <1>3, Sets DEF ShapeOK, TaskIds, Workshops

(* The rows that were there keep what no transaction rewrites.             *)
Kept ==
    /\ tasks' \in Seq(Row)
    /\ \A q \in DOMAIN tasks : /\ tasks'[q].kind = tasks[q].kind
                               /\ tasks'[q].parent = tasks[q].parent
                               /\ tasks'[q].resumable = tasks[q].resumable

SetsState(t, s) ==
    /\ Kept /\ DOMAIN tasks' = DOMAIN tasks /\ Len(tasks') = Len(tasks)
    /\ \A q \in DOMAIN tasks : /\ tasks'[q].cancel = tasks[q].cancel
                               /\ tasks'[q].state = IF q = t THEN s ELSE tasks[q].state

Flags(t) ==
    /\ Kept /\ DOMAIN tasks' = DOMAIN tasks /\ Len(tasks') = Len(tasks)
    /\ \A q \in DOMAIN tasks :
          /\ tasks'[q].cancel = IF q = t THEN TRUE ELSE tasks[q].cancel
          /\ tasks'[q].state = IF q = t /\ tasks[q].state = "queued" THEN "cancelled"
                               ELSE tasks[q].state

(* A child of w, and w in state s.                                         *)
Adds(w, kind, s) ==
    /\ Kept /\ DOMAIN tasks' = DOMAIN tasks \cup {Len(tasks) + 1}
    /\ Len(tasks') = Len(tasks) + 1 /\ Len(tasks') <= MaxTasks
    /\ \A q \in DOMAIN tasks : /\ tasks'[q].cancel = tasks[q].cancel
                               /\ tasks'[q].state = IF q = w THEN s ELSE tasks[q].state
    /\ LET r == tasks'[Len(tasks) + 1]
       IN  /\ r.kind = kind /\ r.parent = w /\ r.state = "queued"
           /\ ~r.cancel /\ ~r.resumable

LEMMA SetRow ==
    ASSUME NEW tbl \in Seq(Row), NEW t \in DOMAIN tbl, NEW r \in Row,
           NEW n, n = [tbl EXCEPT ![t] = r]
    PROVE  /\ n \in Seq(Row) /\ DOMAIN n = DOMAIN tbl /\ Len(n) = Len(tbl)
           /\ \A q \in DOMAIN tbl : n[q] = IF q = t THEN r ELSE tbl[q]
OBVIOUS

LEMMA MovedRows ==
    ASSUME NEW r \in Row, NEW s \in States
    PROVE  LET m == MovedRow(r, s)
           IN  /\ m \in Row /\ m.state = StateAfter(r, s) /\ m.cancel = r.cancel
               /\ m.kind = r.kind /\ m.parent = r.parent /\ m.resumable = r.resumable
BY DEF MovedRow, StateAfter, Row, States, Terminal

LEMMA InterruptedRows ==
    ASSUME NEW r \in Row, ~r.resumable
    PROVE  LET m == InterruptedRow(r)
           IN  /\ m \in Row /\ m.state = "needs_review" /\ m.cancel = r.cancel
               /\ m.kind = r.kind /\ m.parent = r.parent /\ m.resumable = r.resumable
<1>0. ~Safe(r) /\ ~Retries(r)
  BY DEF Safe, Retries
<1>1. InterruptedState(r) = "needs_review"
  BY <1>0 DEF InterruptedState
<1>2. "needs_review" \in States
  BY DEF States, Terminal
<1> QED BY <1>1, <1>2 DEF InterruptedRow, Row

LEMMA ClaimedRows ==
    ASSUME NEW r \in Row
    PROVE  LET m == ClaimedRow(r)
           IN  /\ m \in Row /\ m.state = "running" /\ m.cancel = r.cancel
               /\ m.kind = r.kind /\ m.parent = r.parent /\ m.resumable = r.resumable
<1>1. "running" \in States /\ r.attempts + 1 \in Nat
  BY DEF States, Active, Row
<1> QED BY <1>1 DEF ClaimedRow, Row

LEMMA CancelledRows ==
    ASSUME NEW r \in Row
    PROVE  LET m == CancelledRow(r)
           IN  /\ m \in Row /\ m.cancel = TRUE
               /\ m.state = IF r.state = "queued" THEN "cancelled" ELSE r.state
               /\ m.kind = r.kind /\ m.parent = r.parent /\ m.resumable = r.resumable
BY DEF CancelledRow, Row, States, Terminal

LEMMA WaitingRows ==
    ASSUME NEW r \in Row, NEW m, m = [r EXCEPT !.state = "waiting"]
    PROVE  /\ m \in Row /\ m.state = "waiting" /\ m.cancel = r.cancel
           /\ m.kind = r.kind /\ m.parent = r.parent /\ m.resumable = r.resumable
BY DEF Row, States, Active

LEMMA ChildRows ==
    ASSUME NEW kind \in KINDS, NEW w \in Nat, NEW m, m = Child(kind, w)
    PROVE  /\ m \in Row /\ m.state = "queued" /\ ~m.cancel
           /\ m.kind = kind /\ m.parent = w /\ ~m.resumable
<1>1. 50 \in Priorities
  BY OwnerPriorityAssumption
<1> QED BY <1>1 DEF Child, OwnerRequest, NewRow, Row, States, NoGoal

(* One row is replaced by one with the same kind, parent and retry flag.   *)
LEMMA Replaced ==
    ASSUME TypeOK, NEW t \in DOMAIN tasks, NEW r \in Row, tasks' = [tasks EXCEPT ![t] = r],
           r.kind = tasks[t].kind, r.parent = tasks[t].parent, r.resumable = tasks[t].resumable
    PROVE  /\ Kept /\ DOMAIN tasks' = DOMAIN tasks /\ Len(tasks') = Len(tasks)
           /\ \A q \in DOMAIN tasks : tasks'[q] = IF q = t THEN r ELSE tasks[q]
<1>1. tasks \in Seq(Row)
  BY DEF TypeOK
<1>2. /\ tasks' \in Seq(Row) /\ DOMAIN tasks' = DOMAIN tasks /\ Len(tasks') = Len(tasks)
      /\ \A q \in DOMAIN tasks : tasks'[q] = IF q = t THEN r ELSE tasks[q]
  BY <1>1, SetRow
<1> QED BY <1>2 DEF Kept

LEMMA MoveEffect ==
    ASSUME TypeOK, NEW t \in DOMAIN tasks, NEW s \in States,
           tasks' = [tasks EXCEPT ![t] = MovedRow(@, s)]
    PROVE  SetsState(t, StateAfter(tasks[t], s))
<1>1. tasks[t] \in Row
  BY Rows
<1> DEFINE r == MovedRow(tasks[t], s)
<1>2. /\ r \in Row /\ r.state = StateAfter(tasks[t], s) /\ r.cancel = tasks[t].cancel
      /\ r.kind = tasks[t].kind /\ r.parent = tasks[t].parent /\ r.resumable = tasks[t].resumable
  BY <1>1, MovedRows
<1>3. tasks' = [tasks EXCEPT ![t] = r]
  OBVIOUS
<1> HIDE DEF r
<1> QED BY <1>2, <1>3, Replaced DEF SetsState

LEMMA InterruptEffect ==
    ASSUME TypeOK, ShapeOK, NEW t \in DOMAIN tasks, tasks' = AfterInterrupted(t)
    PROVE  IF tasks[t].state \in Active THEN SetsState(t, "needs_review") ELSE tasks' = tasks
<1>0. CASE tasks[t].state \notin Active
  BY <1>0 DEF AfterInterrupted
<1>1. CASE tasks[t].state \in Active
  <2>1. tasks[t] \in Row /\ ~tasks[t].resumable
    BY Rows DEF ShapeOK
  <2> DEFINE r == InterruptedRow(tasks[t])
  <2>2. /\ r \in Row /\ r.state = "needs_review" /\ r.cancel = tasks[t].cancel
        /\ r.kind = tasks[t].kind /\ r.parent = tasks[t].parent /\ r.resumable = tasks[t].resumable
    BY <2>1, InterruptedRows
  <2>3. tasks' = [tasks EXCEPT ![t] = r]
    BY <1>1 DEF AfterInterrupted
  <2> HIDE DEF r
  <2>4. SetsState(t, "needs_review")
    BY <2>2, <2>3, Replaced DEF SetsState
  <2> QED BY <1>1, <2>4
<1> QED BY <1>0, <1>1

LEMMA ClaimEffect ==
    ASSUME TypeOK, NEW t \in DOMAIN tasks, tasks' = [tasks EXCEPT ![t] = ClaimedRow(@)]
    PROVE  SetsState(t, "running")
<1>1. tasks[t] \in Row
  BY Rows
<1> DEFINE r == ClaimedRow(tasks[t])
<1>2. /\ r \in Row /\ r.state = "running" /\ r.cancel = tasks[t].cancel
      /\ r.kind = tasks[t].kind /\ r.parent = tasks[t].parent /\ r.resumable = tasks[t].resumable
  BY <1>1, ClaimedRows
<1>3. tasks' = [tasks EXCEPT ![t] = r]
  OBVIOUS
<1> HIDE DEF r
<1> QED BY <1>2, <1>3, Replaced DEF SetsState

LEMMA CancelEffect ==
    ASSUME TypeOK, NEW t \in DOMAIN tasks, tasks' = [tasks EXCEPT ![t] = CancelledRow(@)]
    PROVE  Flags(t)
<1>1. tasks[t] \in Row
  BY Rows
<1> DEFINE r == CancelledRow(tasks[t])
<1>2. /\ r \in Row /\ r.cancel = TRUE
      /\ r.state = IF tasks[t].state = "queued" THEN "cancelled" ELSE tasks[t].state
      /\ r.kind = tasks[t].kind /\ r.parent = tasks[t].parent /\ r.resumable = tasks[t].resumable
  BY <1>1, CancelledRows
<1>3. tasks' = [tasks EXCEPT ![t] = r]
  OBVIOUS
<1> HIDE DEF r
<1> QED BY <1>2, <1>3, Replaced DEF Flags

LEMMA AddEffect ==
    ASSUME TypeOK, Len(tasks) < MaxTasks, NEW w \in Workshops, w \in DOMAIN tasks,
           NEW kind \in {"workshop_stage", "research", "journal"}, NEW rows,
           NEW s, rows \in Seq(Row), Len(rows) = Len(tasks),
           \A q \in DOMAIN tasks : /\ rows[q].kind = tasks[q].kind
                                   /\ rows[q].parent = tasks[q].parent
                                   /\ rows[q].resumable = tasks[q].resumable
                                   /\ rows[q].cancel = tasks[q].cancel
                                   /\ rows[q].state = IF q = w THEN s ELSE tasks[q].state,
           tasks' = Append(rows, Child(kind, w))
    PROVE  Adds(w, kind, s)
<1>1. DOMAIN tasks = 1..Len(tasks) /\ Len(tasks) \in Nat /\ MaxTasks \in Nat
  BY Rows, Sets
<1>0. PICK m : m = Child(kind, w)
  OBVIOUS
<1>2. /\ m \in Row /\ m.state = "queued" /\ ~m.cancel
      /\ m.kind = kind /\ m.parent = w /\ ~m.resumable
  <2>1. w \in Nat /\ kind \in KINDS
    BY Sets DEF KINDS
  <2> QED BY <1>0, <2>1, ChildRows
<1>3. tasks' = Append(rows, m)
  BY <1>0
<1>4. /\ tasks' \in Seq(Row) /\ Len(tasks') = Len(tasks) + 1
      /\ DOMAIN tasks' = 1..(Len(tasks) + 1) /\ tasks'[Len(tasks) + 1] = m
      /\ \A q \in DOMAIN tasks : tasks'[q] = rows[q]
  BY <1>1, <1>2, <1>3
<1>5. DOMAIN tasks' = DOMAIN tasks \cup {Len(tasks) + 1}
  BY <1>1, <1>4
<1>6. Kept
  BY <1>4 DEF Kept
<1>7. Len(tasks') <= MaxTasks
  BY <1>1, <1>4
<1> QED BY <1>2, <1>4, <1>5, <1>6, <1>7 DEF Adds

LEMMA HandoffEffect ==
    ASSUME TypeOK, NEW w \in Workshops, w \in DOMAIN tasks, NEW stage \in Stage, NEW history,
           MayHandOff(w), Handoff(w, stage, history)
    PROVE  /\ Adds(w, StageKind(stage), "waiting")
           /\ checkpoint' = [checkpoint EXCEPT ![w] = [stage |-> stage, child |-> Len(tasks) + 1,
                                                       history |-> history]]
<1>1. tasks \in Seq(Row) /\ tasks[w] \in Row
  BY Rows DEF TypeOK
<1> DEFINE r == [tasks[w] EXCEPT !.state = "waiting"]
           rows == [tasks EXCEPT ![w] = r]
<1>2. /\ r \in Row /\ r.state = "waiting" /\ r.cancel = tasks[w].cancel
      /\ r.kind = tasks[w].kind /\ r.parent = tasks[w].parent /\ r.resumable = tasks[w].resumable
  BY <1>1, WaitingRows
<1> HIDE DEF r
<1>3. /\ rows \in Seq(Row) /\ DOMAIN rows = DOMAIN tasks /\ Len(rows) = Len(tasks)
      /\ \A q \in DOMAIN tasks : rows[q] = IF q = w THEN r ELSE tasks[q]
  BY <1>1, <1>2, SetRow
<1>4. Len(tasks) < MaxTasks /\ tasks' = Append(rows, Child(StageKind(stage), w))
  BY DEF Handoff, r
<1> HIDE DEF rows
<1>5. StageKind(stage) \in {"workshop_stage", "research", "journal"}
  BY DEF StageKind
<1>6. \A q \in DOMAIN tasks : /\ rows[q].kind = tasks[q].kind
                              /\ rows[q].parent = tasks[q].parent
                              /\ rows[q].resumable = tasks[q].resumable
                              /\ rows[q].cancel = tasks[q].cancel
                              /\ rows[q].state = IF q = w THEN "waiting" ELSE tasks[q].state
  BY <1>2, <1>3
<1>7. Adds(w, StageKind(stage), "waiting")
  BY <1>3, <1>4, <1>5, <1>6, AddEffect
<1> QED BY <1>7 DEF Handoff, NewCheckpoint

LEMMA JournalEffect ==
    ASSUME TypeOK, NEW w \in Workshops, w \in DOMAIN tasks, Len(tasks) < MaxTasks,
           tasks' = Append(tasks, Child("journal", w))
    PROVE  Adds(w, "journal", tasks[w].state)
<1>1. tasks \in Seq(Row)
  BY DEF TypeOK
<1>2. \A q \in DOMAIN tasks : tasks[q].state = IF q = w THEN tasks[w].state ELSE tasks[q].state
  OBVIOUS
<1> QED BY <1>1, <1>2, AddEffect

----------------------------------------------------------------------------
(* The route of a workshop.                                                *)

LEMMA StagesListed ==
    /\ Stage = {"gap", "research", "design", "implementation", "test", "review",
                "canary", "execute", "verify"}
    /\ \A i, j \in DOMAIN STAGES : STAGES[i] = STAGES[j] => i = j
<1>1. DOMAIN STAGES = 1..9
  BY DEF STAGES
<1>2. /\ STAGES[1] = "gap" /\ STAGES[2] = "research" /\ STAGES[3] = "design"
      /\ STAGES[4] = "implementation" /\ STAGES[5] = "test" /\ STAGES[6] = "review"
      /\ STAGES[7] = "canary" /\ STAGES[8] = "execute" /\ STAGES[9] = "verify"
  BY DEF STAGES
<1>3. \A i \in 1..9 : i \in {1, 2, 3, 4, 5, 6, 7, 8, 9}
  OBVIOUS
<1>4. \A i, j \in 1..9 : STAGES[i] = STAGES[j] => i = j
  BY <1>2, <1>3
<1>5. Stage = {STAGES[1], STAGES[2], STAGES[3], STAGES[4], STAGES[5], STAGES[6], STAGES[7],
               STAGES[8], STAGES[9]}
  BY <1>1, <1>3 DEF Stage
<1> QED BY <1>1, <1>2, <1>4, <1>5

LEMMA NextStages ==
    ASSUME NEW i \in 2..8, NEW found
    PROVE  NextStage(STAGES[i], found) = STAGES[i + 1]
<1>1. i \in DOMAIN STAGES /\ 1 \in DOMAIN STAGES /\ STAGES[1] = "gap" /\ i # 1
  BY DEF STAGES
<1>2. STAGES[i] # "gap"
  BY <1>1, StagesListed
<1>3. (CHOOSE j \in DOMAIN STAGES : STAGES[j] = STAGES[i]) = i
  BY <1>1, StagesListed
<1>4. NextStage(STAGES[i], found) = STAGES[1 + i]
  BY <1>2, <1>3 DEF NextStage
<1>5. 1 + i = i + 1
  OBVIOUS
<1> QED BY <1>4, <1>5

(* What follows each stage.                                                *)
LEMMA Followers ==
    /\ NextStage("gap", "capability") = "execute" /\ NextStage("gap", "tool") = "canary"
    /\ NextStage("gap", "build") = IF ResearchNeeded THEN "research" ELSE "design"
    /\ \A found : /\ NextStage("research", found) = "design"
                  /\ NextStage("design", found) = "implementation"
                  /\ NextStage("implementation", found) = "test"
                  /\ NextStage("test", found) = "review"
                  /\ NextStage("review", found) = "canary"
                  /\ NextStage("canary", found) = "execute"
                  /\ NextStage("execute", found) = "verify"
<1>1. /\ NextStage("gap", "capability") = "execute" /\ NextStage("gap", "tool") = "canary"
      /\ NextStage("gap", "build") = IF ResearchNeeded THEN "research" ELSE "design"
  BY DEF NextStage
<1>2. /\ STAGES[2] = "research" /\ STAGES[3] = "design" /\ STAGES[4] = "implementation"
      /\ STAGES[5] = "test" /\ STAGES[6] = "review" /\ STAGES[7] = "canary"
      /\ STAGES[8] = "execute" /\ STAGES[9] = "verify"
  BY DEF STAGES
<1>3. ASSUME NEW found
      PROVE  \A i \in 2..8 : NextStage(STAGES[i], found) = STAGES[i + 1]
  BY NextStages
<1>4. ASSUME NEW found
      PROVE  /\ NextStage(STAGES[2], found) = STAGES[3] /\ NextStage(STAGES[3], found) = STAGES[4]
             /\ NextStage(STAGES[4], found) = STAGES[5] /\ NextStage(STAGES[5], found) = STAGES[6]
             /\ NextStage(STAGES[6], found) = STAGES[7] /\ NextStage(STAGES[7], found) = STAGES[8]
             /\ NextStage(STAGES[8], found) = STAGES[9]
  BY <1>3
<1> QED BY <1>1, <1>2, <1>4

(* The next stage is on the route too, and what comes before it is what    *)
(* came before this one and this one.                                      *)
LEMMA OnRoute ==
    ASSUME NEW found \in {"build", "tool", "capability"}, NEW s \in Path(found), s # "verify",
           NEW r, s = "gap" => r = found
    PROVE  LET n == NextStage(s, r)
           IN  /\ n \in Path(found) /\ n # "gap" /\ n \in Stage
               /\ Before(n, found) = Before(s, found) \cup {s}
<1>1. /\ Position["gap"] = 1 /\ Position["research"] = 2 /\ Position["design"] = 3
      /\ Position["implementation"] = 4 /\ Position["test"] = 5 /\ Position["review"] = 6
      /\ Position["canary"] = 7 /\ Position["execute"] = 8 /\ Position["verify"] = 9
  BY DEF Position
<1>2. CASE found = "capability"
  <2>1. Path(found) = {"gap", "execute", "verify"}
    BY <1>2 DEF Path
  <2>2. CASE s = "gap"
    BY <1>1, <1>2, <2>1, <2>2, Followers, StagesListed DEF Before
  <2>3. CASE s = "execute"
    BY <1>1, <1>2, <2>1, <2>3, Followers, StagesListed DEF Before
  <2> QED BY <2>1, <2>2, <2>3
<1>3. CASE found = "tool"
  <2>1. Path(found) = {"gap", "canary", "execute", "verify"}
    BY <1>3 DEF Path
  <2>2. CASE s = "gap"
    BY <1>1, <1>3, <2>1, <2>2, Followers, StagesListed DEF Before
  <2>3. CASE s = "canary" \/ s = "execute"
    BY <1>1, <1>3, <2>1, <2>3, Followers, StagesListed DEF Before
  <2> QED BY <2>1, <2>2, <2>3
<1>4. CASE found = "build"
  <2>1. Path(found) = IF ResearchNeeded THEN Stage ELSE Stage \ {"research"}
    BY <1>4 DEF Path
  <2>2. CASE s = "gap"
    BY <1>1, <1>4, <2>1, <2>2, Followers, StagesListed DEF Before
  <2>3. CASE s = "research" \/ s = "design" \/ s = "implementation"
    BY <1>1, <1>4, <2>1, <2>3, Followers, StagesListed DEF Before
  <2>4. CASE s = "test" \/ s = "review"
    BY <1>1, <1>4, <2>1, <2>4, Followers, StagesListed DEF Before
  <2>5. CASE s = "canary" \/ s = "execute"
    BY <1>1, <1>4, <2>1, <2>5, Followers, StagesListed DEF Before
  <2> QED BY <2>1, <2>2, <2>3, <2>4, <2>5, StagesListed
<1> QED BY <1>2, <1>3, <1>4

----------------------------------------------------------------------------
(* What a step does to tasks, results and checkpoints: nothing, or one of  *)
(* eight changes, each with what the rest of the state says about it.      *)

TablesOK ==
    /\ DOMAIN checkpoint = Workshops
    /\ ShapeOK /\ StagesOK
    /\ \A t \in DOMAIN tasks : ResearchOK(t)
    /\ \A w \in Workshops : CheckedOut(w) => CheckpointOK(w) /\ RouteOK(w)

Interrupting(t) ==
    /\ SetsState(t, "needs_review") /\ UNCHANGED <<result, checkpoint>>
    /\ t \in DOMAIN tasks /\ tasks[t].state \in Active
    /\ t \in Workshops /\ tasks[t].state = "waiting" => checkpoint[t].stage = "gap"

Ending(t, s, f) ==
    /\ SetsState(t, s) /\ result' = [result EXCEPT ![t] = f] /\ UNCHANGED checkpoint
    /\ t \in DOMAIN tasks \ Workshops /\ tasks[t].state = "running"
    /\ s \in {"completed", "needs_review"} /\ f \in Findings(StageOf(t))

Claiming(t) ==
    /\ SetsState(t, "running") /\ UNCHANGED <<result, checkpoint>>
    /\ t \in DOMAIN tasks /\ tasks[t].state = "queued"

Flagging(t) ==
    /\ Flags(t) /\ UNCHANGED <<result, checkpoint>>
    /\ t \in DOMAIN tasks

Handing(w, stage, history) ==
    /\ Adds(w, StageKind(stage), "waiting") /\ UNCHANGED result
    /\ checkpoint' = [checkpoint EXCEPT ![w] = [stage |-> stage, child |-> Len(tasks) + 1,
                                                history |-> history]]
    /\ stage \in Stage

Entering(w) == tasks[w].state = "running" /\ Handing(w, "gap", NoHistory)

Advancing(w) ==
    LET cp == checkpoint[w]
    IN  /\ tasks[w].state = "waiting" /\ tasks[cp.child].state = "completed" /\ cp.stage # "verify"
        /\ Handing(w, NextStage(cp.stage, result[cp.child]),
                   Recorded(cp.history, cp.stage, cp.child))

Closing(w, s) ==
    LET cp == checkpoint[w]
    IN  /\ SetsState(w, s) /\ UNCHANGED <<result, checkpoint>>
        /\ tasks[w].state = "waiting" /\ s \in {"completed", "needs_review"}
        /\ ~Live(tasks[cp.child]) \/ tasks[cp.child].cancel
        /\ s = "completed" => /\ cp.stage = "verify" /\ result[cp.child] = "verified"
                              /\ tasks[cp.child].state = "completed"

Journalling(w) ==
    /\ Adds(w, "journal", tasks[w].state) /\ UNCHANGED <<result, checkpoint>>
    /\ tasks[w].state = "waiting"

TableStep ==
    \/ UNCHANGED <<tasks, result, checkpoint>>
    \/ \E t \in DOMAIN tasks : Interrupting(t) \/ Claiming(t) \/ Flagging(t)
    \/ \E t \in DOMAIN tasks : \E s, f : Ending(t, s, f)
    \/ \E w \in Workshops : Entering(w) \/ Advancing(w) \/ Journalling(w)
    \/ \E w \in Workshops : \E s : Closing(w, s)

LEMMA ShapeKept ==
    ASSUME TypeOK, TablesOK, TableStep
    PROVE  ShapeOK' /\ DOMAIN checkpoint' = Workshops
<1>0. /\ ShapeOK /\ DOMAIN checkpoint = Workshops /\ Workshops \subseteq DOMAIN tasks
      /\ DOMAIN tasks = 1..Len(tasks) /\ Len(tasks) \in Nat /\ NWorkshops \in Nat
  BY Rows, Sets DEF TablesOK
<1>1. ASSUME NEW t \in DOMAIN tasks, NEW s \in {"running"} \cup Terminal, SetsState(t, s)
      PROVE  ShapeOK'
  BY <1>0, <1>1 DEF SetsState, Kept, ShapeOK
<1>2. ASSUME NEW t \in DOMAIN tasks, Flags(t)
      PROVE  ShapeOK'
  <2>1. "cancelled" \in Terminal
    BY DEF Terminal
  <2>2. \A q \in DOMAIN tasks : tasks'[q].state = tasks[q].state \/ tasks'[q].state = "cancelled"
    BY <1>2 DEF Flags
  <2> QED BY <1>0, <1>2, <2>1, <2>2 DEF Flags, Kept, ShapeOK
<1>3. ASSUME NEW w \in Workshops, NEW kind \in {"workshop_stage", "research", "journal"},
             Adds(w, kind, "waiting")
      PROVE  ShapeOK'
  <2>1. Len(tasks) + 1 \notin Workshops /\ w \in DOMAIN tasks
    BY <1>0 DEF Workshops, ShapeOK
  <2>2. NWorkshops <= Len(tasks')
    BY <1>0, <1>3 DEF Adds, ShapeOK
  <2>3. ASSUME NEW q \in DOMAIN tasks
        PROVE  /\ ~tasks'[q].resumable
               /\ IF q \in Workshops
                  THEN tasks'[q].kind = "workshop" /\ tasks'[q].parent = NoTask
                  ELSE /\ tasks'[q].parent \in Workshops
                       /\ tasks'[q].kind \in {"workshop_stage", "research", "journal"}
               /\ \/ tasks'[q].state \in {"queued", "running"} \cup Terminal
                  \/ q \in Workshops /\ tasks'[q].state = "waiting"
    BY <1>0, <1>3 DEF Adds, Kept, ShapeOK
  <2> QED BY <1>3, <2>1, <2>2, <2>3 DEF Adds, ShapeOK
<1>4. "needs_review" \in Terminal /\ "completed" \in Terminal
  BY DEF Terminal
<1>5. \A stage : StageKind(stage) \in {"workshop_stage", "research", "journal"}
  BY DEF StageKind
<1>6. CASE UNCHANGED <<tasks, result, checkpoint>>
  BY <1>0, <1>6 DEF ShapeOK
<1>7. ASSUME NEW t \in DOMAIN tasks, Interrupting(t) \/ Claiming(t) \/ Flagging(t)
      PROVE  ShapeOK' /\ DOMAIN checkpoint' = Workshops
  BY <1>0, <1>1, <1>2, <1>4, <1>7 DEF Interrupting, Claiming, Flagging
<1>8. ASSUME NEW t \in DOMAIN tasks, NEW s, NEW f, Ending(t, s, f)
      PROVE  ShapeOK' /\ DOMAIN checkpoint' = Workshops
  BY <1>0, <1>1, <1>4, <1>8 DEF Ending
<1>9. ASSUME NEW w \in Workshops, Entering(w) \/ Advancing(w) \/ Journalling(w)
      PROVE  ShapeOK' /\ DOMAIN checkpoint' = Workshops
  BY <1>0, <1>3, <1>5, <1>9 DEF Entering, Advancing, Handing, Journalling
<1>10. ASSUME NEW w \in Workshops, NEW s, Closing(w, s)
       PROVE  ShapeOK' /\ DOMAIN checkpoint' = Workshops
  BY <1>0, <1>1, <1>4, <1>10 DEF Closing
<1> QED BY <1>6, <1>7, <1>8, <1>9, <1>10 DEF TableStep

(* Where a row can go: no state is entered twice.                          *)
RowMoves(q) ==
    /\ q \in DOMAIN tasks'
    /\ tasks'[q].kind = tasks[q].kind /\ tasks'[q].parent = tasks[q].parent
    /\ tasks[q].cancel => tasks'[q].cancel
    /\ ~Live(tasks[q]) => tasks'[q].state = tasks[q].state
    /\ tasks'[q].state = "queued" => tasks[q].state = "queued"
    /\ tasks'[q].state = "running" => tasks[q].state \in {"queued", "running"}
    /\ tasks'[q].state = "waiting" => tasks[q].state \in {"running", "waiting"}

LEMMA RowsMove ==
    ASSUME TypeOK, TablesOK, TableStep, NEW q \in DOMAIN tasks
    PROVE  RowMoves(q)
<1> USE DEF RowMoves
<1>0. "queued" \notin Terminal /\ "running" \notin Terminal /\ "waiting" \notin Terminal
      /\ "queued" \notin Active /\ \A s \in Active : s \notin Terminal
  BY DEF Terminal, Active
<1>1. CASE UNCHANGED <<tasks, result, checkpoint>>
  BY <1>1
<1>2. ASSUME NEW t \in DOMAIN tasks, Interrupting(t) PROVE RowMoves(q)
  BY <1>0, <1>2 DEF Interrupting, SetsState, Kept, Live
<1>3. ASSUME NEW t \in DOMAIN tasks, Claiming(t) PROVE RowMoves(q)
  BY <1>0, <1>3 DEF Claiming, SetsState, Kept, Live
<1>4. ASSUME NEW t \in DOMAIN tasks, Flagging(t) PROVE RowMoves(q)
  BY <1>0, <1>4 DEF Flagging, Flags, Kept, Live
<1>5. ASSUME NEW t \in DOMAIN tasks, NEW s, NEW f, Ending(t, s, f) PROVE RowMoves(q)
  BY <1>0, <1>5 DEF Ending, SetsState, Kept, Live
<1>6. ASSUME NEW w \in Workshops, Entering(w) \/ Advancing(w) PROVE RowMoves(q)
  <2>1. PICK stage, history : Handing(w, stage, history)
    BY <1>6 DEF Entering, Advancing
  <2>2. tasks[w].state \in {"running", "waiting"}
    BY <1>6 DEF Entering, Advancing
  <2> QED BY <1>0, <2>1, <2>2 DEF Handing, Adds, Kept, Live
<1>7. ASSUME NEW w \in Workshops, Journalling(w) PROVE RowMoves(q)
  BY <1>0, <1>7 DEF Journalling, Adds, Kept, Live
<1>8. ASSUME NEW w \in Workshops, NEW s, Closing(w, s) PROVE RowMoves(q)
  BY <1>0, <1>8 DEF Closing, SetsState, Kept, Live
<1> QED BY <1>1, <1>2, <1>3, <1>4, <1>5, <1>6, <1>7, <1>8 DEF TableStep

(* A new row is the child of a workshop that waits.                        *)
LEMMA NewRows ==
    ASSUME TypeOK, TablesOK, TableStep, NEW t \in DOMAIN tasks', t \notin DOMAIN tasks
    PROVE  \E w \in Workshops :
              /\ Entering(w) \/ Advancing(w) \/ Journalling(w)
              /\ t = Len(tasks) + 1 /\ tasks'[t].parent = w /\ tasks'[w].state = "waiting"
              /\ tasks'[t].state = "queued" /\ ~tasks'[t].cancel
<1>0. Workshops \subseteq DOMAIN tasks
  BY Rows DEF TablesOK
<1>1. PICK w \in Workshops : Entering(w) \/ Advancing(w) \/ Journalling(w)
  BY DEF TableStep, Interrupting, Claiming, Flagging, Ending, Closing, SetsState, Flags
<1>2. PICK kind : Adds(w, kind, "waiting")
  BY <1>1 DEF Entering, Advancing, Journalling, Handing
<1> QED BY <1>0, <1>1, <1>2 DEF Adds

LEMMA StagesKept ==
    ASSUME TypeOK, TablesOK, TableStep
    PROVE  StagesOK'
<1>0. /\ ShapeOK /\ DOMAIN checkpoint = Workshops /\ Workshops \subseteq DOMAIN tasks /\ StagesOK
      /\ DOMAIN tasks = 1..Len(tasks) /\ Len(tasks) \in Nat
  BY Rows DEF TablesOK
<1>1. ASSUME NEW t \in DOMAIN tasks' \ Workshops
      PROVE  tasks'[tasks'[t].parent].state \notin {"queued", "running"}
  <2>1. CASE t \in DOMAIN tasks
    <3>1. tasks[t].parent \in Workshops /\ tasks[tasks[t].parent].state \notin {"queued", "running"}
      BY <1>0, <1>1, <2>1 DEF ShapeOK, StagesOK
    <3> QED BY <1>0, <2>1, <3>1, RowsMove DEF RowMoves
  <2>2. CASE t \notin DOMAIN tasks
    BY <1>1, <2>2, NewRows
  <2> QED BY <2>1, <2>2
<1>2. ASSUME NEW t \in DOMAIN tasks', IsStage(t)', Live(tasks'[t])
      PROVE  t = checkpoint'[tasks'[t].parent].child
  <2>1. CASE t \in DOMAIN tasks
    <3>1. IsStage(t) /\ Live(tasks[t]) /\ tasks'[t].parent = tasks[t].parent
      BY <1>2, <2>1, RowsMove DEF RowMoves, IsStage, Live
    <3>2. t = checkpoint[tasks[t].parent].child /\ tasks[t].parent \in Workshops
      BY <1>0, <2>1, <3>1 DEF StagesOK, ShapeOK, IsStage
    <3>3. ASSUME NEW w \in Workshops, tasks[t].parent = w, Entering(w) \/ Advancing(w) PROVE FALSE
      BY <1>0, <2>1, <3>1, <3>2, <3>3 DEF Entering, Advancing, StagesOK, IsStage, Live, Terminal
    <3>4. checkpoint'[tasks[t].parent] = checkpoint[tasks[t].parent]
      BY <1>0, <3>2, <3>3 DEF TableStep, Interrupting, Claiming, Flagging, Ending, Closing,
         Journalling, Entering, Advancing, Handing
    <3> QED BY <3>1, <3>2, <3>4
  <2>2. CASE t \notin DOMAIN tasks
    <3>1. PICK w \in Workshops : /\ Entering(w) \/ Advancing(w) \/ Journalling(w)
                                 /\ t = Len(tasks) + 1 /\ tasks'[t].parent = w
      BY <1>2, <2>2, NewRows
    <3>2. CASE Journalling(w)
      BY <1>2, <3>1, <3>2 DEF Journalling, Adds, IsStage
    <3>3. CASE Entering(w) \/ Advancing(w)
      <4>1. checkpoint'[w].child = Len(tasks) + 1
        BY <1>0, <3>3 DEF Entering, Advancing, Handing
      <4> QED BY <3>1, <4>1
    <3> QED BY <3>1, <3>2, <3>3
  <2> QED BY <2>1, <2>2
<1> QED BY <1>1, <1>2 DEF StagesOK

LEMMA ResearchKept ==
    ASSUME TypeOK, TablesOK, TableStep, NEW t \in DOMAIN tasks'
    PROVE  ResearchOK(t)'
<1>0. /\ ShapeOK /\ DOMAIN checkpoint = Workshops /\ Workshops \subseteq DOMAIN tasks /\ StagesOK
  BY Rows DEF TablesOK
<1>1. SUFFICES ASSUME t \notin Workshops, tasks'[t].kind = "research", Live(tasks'[t]),
                      ~tasks'[t].cancel
               PROVE  tasks'[tasks'[t].parent].state = "waiting"
  BY DEF ResearchOK
<1>2. CASE t \in DOMAIN tasks
  <2>1. /\ tasks[t].kind = "research" /\ Live(tasks[t]) /\ ~tasks[t].cancel
        /\ tasks'[t].parent = tasks[t].parent
    BY <1>1, <1>2, RowsMove DEF RowMoves, Live
  <2> DEFINE w == tasks[t].parent
  <2>2. /\ w \in Workshops /\ tasks[w].state = "waiting" /\ t = checkpoint[w].child
        /\ CheckpointOK(w)
    BY <1>0, <1>1, <1>2, <2>1 DEF TablesOK, ResearchOK, ShapeOK, StagesOK, IsStage, CheckedOut
  <2>3. checkpoint[w].stage # "gap"
    BY <2>1, <2>2 DEF CheckpointOK, StageKind
  <2> HIDE DEF w
  <2>4. ~Interrupting(w) /\ ~Claiming(w) /\ \A s, f : ~Ending(w, s, f)
    BY <2>2, <2>3 DEF Interrupting, Claiming, Ending
  <2>5. \A s : ~Closing(w, s)
    BY <2>1, <2>2 DEF Closing
  <2>6. tasks'[w].state = "waiting"
    <3>1. ASSUME NEW u \in DOMAIN tasks, Interrupting(u) \/ Claiming(u)
          PROVE  tasks'[w].state = "waiting"
      BY <1>0, <2>2, <2>4, <3>1 DEF Interrupting, Claiming, SetsState
    <3>2. ASSUME NEW u \in DOMAIN tasks, Flagging(u)
          PROVE  tasks'[w].state = "waiting"
      BY <1>0, <2>2, <3>2 DEF Flagging, Flags
    <3>3. ASSUME NEW u \in DOMAIN tasks, NEW s, NEW f, Ending(u, s, f)
          PROVE  tasks'[w].state = "waiting"
      BY <1>0, <2>2, <3>3 DEF Ending, SetsState
    <3>4. ASSUME NEW u \in Workshops, Entering(u) \/ Advancing(u) \/ Journalling(u)
          PROVE  tasks'[w].state = "waiting"
      BY <1>0, <2>2, <3>4 DEF Entering, Advancing, Handing, Journalling, Adds
    <3>5. ASSUME NEW u \in Workshops, NEW s, Closing(u, s)
          PROVE  tasks'[w].state = "waiting"
      BY <1>0, <2>2, <2>5, <3>5 DEF Closing, SetsState
    <3> QED BY <2>2, <3>1, <3>2, <3>3, <3>4, <3>5 DEF TableStep
  <2> QED BY <2>1, <2>6 DEF w
<1>3. CASE t \notin DOMAIN tasks
  BY <1>3, NewRows
<1> QED BY <1>2, <1>3

(* A workshop is given a child, or its checkpoint stays what it is.        *)
LEMMA Handed ==
    ASSUME TypeOK, TablesOK, NEW w \in Workshops, Entering(w) \/ Advancing(w)
    PROVE  /\ Len(tasks) + 1 \notin DOMAIN tasks /\ Len(tasks) + 1 \notin Workshops
           /\ checkpoint'[w].child = Len(tasks) + 1 /\ checkpoint'[w].stage \in Stage
           /\ \E kind : Adds(w, kind, "waiting") /\ kind = StageKind(checkpoint'[w].stage)
           /\ UNCHANGED result
           /\ Entering(w) => checkpoint'[w].stage = "gap" /\ checkpoint'[w].history = NoHistory
           /\ Advancing(w) =>
                 /\ checkpoint'[w].stage = NextStage(checkpoint[w].stage, result[checkpoint[w].child])
                 /\ checkpoint'[w].history =
                       Recorded(checkpoint[w].history, checkpoint[w].stage, checkpoint[w].child)
<1>1. w \in DOMAIN checkpoint
  BY DEF TablesOK
<1>2. Len(tasks) + 1 \notin DOMAIN tasks
  BY Rows
<1>3. Len(tasks) + 1 \notin Workshops
  BY <1>2, Rows DEF TablesOK
<1>4. ASSUME NEW stage, NEW history, Handing(w, stage, history)
      PROVE  /\ checkpoint'[w].child = Len(tasks) + 1 /\ checkpoint'[w].stage = stage
             /\ checkpoint'[w].history = history /\ stage \in Stage
             /\ Adds(w, StageKind(stage), "waiting") /\ UNCHANGED result
  BY <1>1, <1>4 DEF Handing
<1>5. ASSUME Entering(w)
      PROVE  Handing(w, "gap", NoHistory) /\ ~Advancing(w)
  BY <1>5 DEF Entering, Advancing
<1>6. ASSUME Advancing(w)
      PROVE  Handing(w, NextStage(checkpoint[w].stage, result[checkpoint[w].child]),
                     Recorded(checkpoint[w].history, checkpoint[w].stage, checkpoint[w].child))
  BY <1>6 DEF Advancing
<1>7. CASE Entering(w)
  BY <1>2, <1>3, <1>4, <1>5, <1>7
<1>8. CASE Advancing(w)
  BY <1>2, <1>3, <1>4, <1>5, <1>6, <1>8
<1> QED BY <1>7, <1>8

LEMMA CheckpointStays ==
    ASSUME TypeOK, TablesOK, TableStep, NEW w \in Workshops, ~Entering(w), ~Advancing(w)
    PROVE  /\ checkpoint'[w] = checkpoint[w]
           /\ CheckedOut(w)' => CheckedOut(w)
           /\ \A t \in DOMAIN tasks' : IsStage(t)' /\ tasks'[t].parent = w => t \in DOMAIN tasks
<1>0. /\ DOMAIN checkpoint = Workshops /\ Workshops \subseteq DOMAIN tasks
  BY Rows DEF TablesOK
<1>1. checkpoint'[w] = checkpoint[w]
  BY <1>0 DEF TableStep, Interrupting, Claiming, Flagging, Ending, Closing, Journalling,
     Entering, Advancing, Handing
<1>2. ASSUME CheckedOut(w)', ~CheckedOut(w)
      PROVE  FALSE
  <2>1. ASSUME NEW u \in DOMAIN tasks, Interrupting(u) \/ Claiming(u)
        PROVE  FALSE
    BY <1>0, <1>2, <2>1 DEF Interrupting, Claiming, SetsState, CheckedOut
  <2>2. ASSUME NEW u \in DOMAIN tasks, Flagging(u)
        PROVE  FALSE
    BY <1>0, <1>2, <2>2 DEF Flagging, Flags, CheckedOut
  <2>3. ASSUME NEW u \in DOMAIN tasks, NEW s, NEW f, Ending(u, s, f)
        PROVE  FALSE
    BY <1>0, <1>2, <2>3 DEF Ending, SetsState, CheckedOut
  <2>4. ASSUME NEW u \in Workshops, Entering(u) \/ Advancing(u) \/ Journalling(u)
        PROVE  FALSE
    BY <1>0, <1>2, <2>4 DEF Entering, Advancing, Handing, Journalling, Adds, CheckedOut
  <2>5. ASSUME NEW u \in Workshops, NEW s, Closing(u, s)
        PROVE  FALSE
    BY <1>0, <1>2, <2>5 DEF Closing, SetsState, CheckedOut
  <2> QED BY <1>2, <2>1, <2>2, <2>3, <2>4, <2>5 DEF TableStep, CheckedOut
<1>3. ASSUME NEW t \in DOMAIN tasks', IsStage(t)', tasks'[t].parent = w, t \notin DOMAIN tasks
      PROVE  FALSE
  <2>1. PICK u \in Workshops : /\ Entering(u) \/ Advancing(u) \/ Journalling(u)
                               /\ t = Len(tasks) + 1 /\ tasks'[t].parent = u
    BY <1>3, NewRows
  <2>2. u = w /\ Journalling(w)
    BY <1>3, <2>1
  <2> QED BY <1>3, <2>1, <2>2 DEF Journalling, Adds, IsStage
<1> QED BY <1>1, <1>2, <1>3

LEMMA CheckpointKept ==
    ASSUME TypeOK, TablesOK, TableStep, NEW w \in Workshops, CheckedOut(w)'
    PROVE  CheckpointOK(w)'
<1>0. /\ ShapeOK /\ Workshops \subseteq DOMAIN tasks
      /\ DOMAIN tasks = 1..Len(tasks) /\ Len(tasks) \in Nat
  BY Rows DEF TablesOK
<1>1. \A q \in DOMAIN tasks : /\ q \in DOMAIN tasks'
                              /\ tasks'[q].kind = tasks[q].kind /\ tasks'[q].parent = tasks[q].parent
                              /\ tasks[q].state = "completed" => tasks'[q].state = "completed"
  <2>1. \A q \in DOMAIN tasks : tasks[q].state = "completed" => ~Live(tasks[q])
    BY DEF Live, Terminal
  <2> QED BY <2>1, RowsMove DEF RowMoves
<1>2. CASE Entering(w) \/ Advancing(w)
  <2>1. /\ Len(tasks) + 1 \notin Workshops
        /\ checkpoint'[w].child = Len(tasks) + 1 /\ checkpoint'[w].stage \in Stage
    BY <1>2, Handed
  <2>2. PICK kind : Adds(w, kind, "waiting") /\ kind = StageKind(checkpoint'[w].stage)
    BY <1>2, Handed
  <2>3. /\ DOMAIN tasks' = 1..(Len(tasks) + 1) /\ tasks'[Len(tasks) + 1].parent = w
        /\ tasks'[Len(tasks) + 1].kind = kind
    BY <1>0, <2>2 DEF Adds
  <2>4. ASSUME NEW s \in DOMAIN checkpoint'[w].history
        PROVE  /\ checkpoint'[w].history[s] \in DOMAIN tasks
               /\ tasks[checkpoint'[w].history[s]].state = "completed"
    <3>1. CASE Entering(w)
      BY <2>4, <3>1, Handed DEF NoHistory
    <3>2. CASE Advancing(w)
      <4> DEFINE cp == checkpoint[w]
      <4>1. CheckpointOK(w) /\ tasks[cp.child].state = "completed"
        BY <3>2 DEF Advancing, TablesOK, CheckedOut
      <4>2. checkpoint'[w].history = Recorded(cp.history, cp.stage, cp.child)
        BY <3>2, Handed
      <4>3. \/ s \in DOMAIN cp.history /\ checkpoint'[w].history[s] = cp.history[s]
            \/ checkpoint'[w].history[s] = cp.child
        BY <2>4, <4>2 DEF Recorded
      <4> QED BY <4>1, <4>3 DEF CheckpointOK
    <3> QED BY <1>2, <3>1, <3>2
  <2> QED BY <1>0, <1>1, <2>1, <2>2, <2>3, <2>4 DEF CheckpointOK
<1>3. CASE ~Entering(w) /\ ~Advancing(w)
  <2>1. /\ checkpoint'[w] = checkpoint[w] /\ CheckpointOK(w)
        /\ \A t \in DOMAIN tasks' : IsStage(t)' /\ tasks'[t].parent = w => t \in DOMAIN tasks
    BY <1>3, CheckpointStays DEF TablesOK
  <2>2. \A t \in DOMAIN tasks' : IsStage(t)' /\ tasks'[t].parent = w => t <= checkpoint[w].child
    BY <1>1, <2>1 DEF CheckpointOK, IsStage
  <2> QED BY <1>1, <2>1, <2>2 DEF CheckpointOK
<1> QED BY <1>2, <1>3

(* What a completed task has found is final.                               *)
LEMMA ResultsStay ==
    ASSUME TypeOK, TablesOK, TableStep, NEW q \in DOMAIN tasks, tasks[q].state = "completed"
    PROVE  result'[q] = result[q] /\ tasks'[q].state = "completed"
<1>1. tasks'[q].state = "completed"
  BY RowsMove DEF RowMoves, Live, Terminal
<1>2. UNCHANGED result \/ \E t \in DOMAIN tasks : \E s, f : Ending(t, s, f)
  BY DEF TableStep, Interrupting, Claiming, Flagging, Closing, Entering, Advancing, Handing,
     Journalling
<1>3. ASSUME NEW t \in DOMAIN tasks, NEW s, NEW f, Ending(t, s, f)
      PROVE  result'[q] = result[q]
  BY <1>3 DEF Ending
<1> QED BY <1>1, <1>2, <1>3

(* The next stage of a workshop continues its route.                       *)
LEMMA RouteGoesOn ==
    ASSUME TypeOK, TablesOK, TableStep, NEW w \in Workshops, Advancing(w)
    PROVE  RouteOK(w)'
<1> DEFINE cp == checkpoint[w]
           new == checkpoint'[w]
<1>1. /\ CheckpointOK(w) /\ RouteOK(w) /\ tasks[cp.child].state = "completed"
      /\ cp.stage # "verify"
  BY DEF Advancing, TablesOK, CheckedOut
<1>2. /\ new.stage = NextStage(cp.stage, result[cp.child]) /\ new.child = Len(tasks) + 1
      /\ new.history = Recorded(cp.history, cp.stage, cp.child)
      /\ UNCHANGED result
  BY Handed
<1>3. /\ DOMAIN new.history = DOMAIN cp.history \cup {cp.stage}
      /\ new.history[cp.stage] = cp.child
      /\ \A s \in DOMAIN cp.history : s # cp.stage => new.history[s] = cp.history[s]
  <2>1. PICK h, st, c : h = cp.history /\ st = cp.stage /\ c = cp.child
    OBVIOUS
  <2>2. PICK n : n = new.history
    OBVIOUS
  <2>3. n = Recorded(h, st, c)
    BY <1>2, <2>1, <2>2
  <2>4. /\ DOMAIN n = DOMAIN h \cup {st} /\ n[st] = c
        /\ \A s \in DOMAIN h : s # st => n[s] = h[s]
    BY <2>3 DEF Recorded
  <2> QED BY <2>1, <2>2, <2>4
<1>4. tasks'[Len(tasks) + 1].state = "queued" /\ tasks'[w].state = "waiting"
  <2>1. PICK kind : Adds(w, kind, "waiting")
    BY Handed
  <2> QED BY <2>1, Rows DEF Adds, TablesOK
<1>5. result[cp.child] \in Findings(cp.stage) /\ cp.stage \in Stage
      /\ cp.child \in DOMAIN tasks
  BY <1>1 DEF RouteOK, CheckpointOK
<1>6. \A s \in DOMAIN cp.history : cp.history[s] # cp.child
  <2>1. \A s \in DOMAIN cp.history : cp.history[s] \in Nat /\ cp.history[s] < cp.child
    BY <1>1, Rows, Sets DEF CheckpointOK
  <2>2. cp.child \in Nat
    BY <1>5, Rows, Sets
  <2> QED BY <2>1, <2>2
<1>7. \A s, u \in DOMAIN new.history : new.history[s] = new.history[u] => s = u
  <2>1. \A s, u \in DOMAIN cp.history : cp.history[s] = cp.history[u] => s = u
    BY <1>1 DEF RouteOK
  <2> QED BY <1>3, <1>6, <2>1
<1> DEFINE found == result[new.history["gap"]]
<1>8. /\ found \in Routes /\ cp.stage \in Path(found) /\ "gap" \in DOMAIN new.history
      /\ DOMAIN cp.history = Before(cp.stage, found)
      /\ cp.stage = "gap" => result[cp.child] = found
  <2>1. CASE cp.stage = "gap"
    <3>1. found = result[cp.child] /\ DOMAIN cp.history = {} /\ "gap" \in DOMAIN new.history
      BY <1>1, <1>3, <2>1 DEF RouteOK
    <3>2. found \in Routes
      BY <1>5, <2>1, <3>1 DEF Findings
    <3>3. "gap" \in Path(found)
      BY <3>2, RoutesAssumption, StagesListed DEF Path
    <3>4. Before("gap", found) = {}
      <4>1. Path(found) \subseteq Stage
        BY <3>2, RoutesAssumption, StagesListed DEF Path
      <4>2. \A s \in Stage : ~(Position[s] < Position["gap"])
        BY StagesListed DEF Position
      <4> QED BY <4>1, <4>2 DEF Before
    <3> HIDE DEF found, cp, new
    <3> QED BY <2>1, <3>1, <3>2, <3>3, <3>4
  <2>2. CASE cp.stage # "gap"
    <3>1. "gap" \in DOMAIN cp.history
      BY <1>1, <2>2 DEF RouteOK
    <3>2. found = result[cp.history["gap"]]
      BY <1>3, <2>2, <3>1
    <3>3. result[cp.history["gap"]] \in Routes /\ cp.stage \in Path(result[cp.history["gap"]])
          /\ DOMAIN cp.history = Before(cp.stage, result[cp.history["gap"]])
      BY <1>1, <2>2 DEF RouteOK
    <3> QED BY <1>3, <2>2, <3>1, <3>2, <3>3
  <2> QED BY <2>1, <2>2
<1>9. found \in {"build", "tool", "capability"}
  BY <1>8, RoutesAssumption
<1>10. /\ new.stage \in Path(found) /\ new.stage # "gap"
       /\ Before(new.stage, found) = Before(cp.stage, found) \cup {cp.stage}
  <2>1. PICK r : r = result[cp.child]
    OBVIOUS
  <2>2. PICK st : st = cp.stage
    OBVIOUS
  <2>3. PICK fo : fo = found
    OBVIOUS
  <2>4. fo \in {"build", "tool", "capability"} /\ st \in Path(fo) /\ st # "verify"
        /\ (st = "gap" => r = fo)
    BY <1>1, <1>8, <1>9, <2>1, <2>2, <2>3
  <2>5. /\ NextStage(st, r) \in Path(fo) /\ NextStage(st, r) # "gap"
        /\ Before(NextStage(st, r), fo) = Before(st, fo) \cup {st}
    BY <2>4, OnRoute
  <2> QED BY <1>2, <2>1, <2>2, <2>3, <2>5
<1>11. DOMAIN new.history = Before(new.stage, found)
  BY <1>3, <1>8, <1>10
<1>12. result'[new.history["gap"]] = found
  BY <1>2
<1> QED BY <1>2, <1>4, <1>7, <1>8, <1>10, <1>11, <1>12 DEF RouteOK

LEMMA RouteKept ==
    ASSUME TypeOK, TablesOK, TableStep, NEW w \in Workshops, CheckedOut(w)'
    PROVE  RouteOK(w)'
<1>0. /\ ShapeOK /\ Workshops \subseteq DOMAIN tasks /\ DOMAIN tasks \subseteq TaskIds
  BY Rows DEF TablesOK
<1>1. CASE Entering(w)
  <2>1. PICK kind : Adds(w, kind, "waiting")
    BY <1>1, Handed
  <2>2. tasks'[Len(tasks) + 1].state = "queued" /\ tasks'[w].state = "waiting"
    BY <1>0, <2>1 DEF Adds
  <2>3. /\ checkpoint'[w].stage = "gap" /\ DOMAIN checkpoint'[w].history = {}
        /\ checkpoint'[w].child = Len(tasks) + 1
    BY <1>1, Handed DEF NoHistory
  <2> QED BY <2>2, <2>3 DEF RouteOK
<1>2. CASE ~Entering(w) /\ ~Advancing(w)
  <2> DEFINE cp == checkpoint[w]
  <2>1. checkpoint'[w] = cp /\ CheckpointOK(w) /\ RouteOK(w) /\ CheckedOut(w)
    BY <1>2, CheckpointStays DEF TablesOK
  <2>2. \A s \in DOMAIN cp.history : result'[cp.history[s]] = result[cp.history[s]]
    BY <2>1, ResultsStay DEF CheckpointOK
  <2>3. cp.child \in DOMAIN tasks \ Workshops /\ tasks[cp.child].parent = w
    BY <2>1 DEF CheckpointOK
  <2>4. ASSUME tasks'[cp.child].state = "completed"
        PROVE  result'[cp.child] \in Findings(cp.stage)
    <3>1. CASE tasks[cp.child].state = "completed"
      BY <2>1, <2>3, <3>1, ResultsStay DEF RouteOK
    <3>2. CASE tasks[cp.child].state # "completed"
      <4>1. PICK s, f : Ending(cp.child, s, f)
        <5>1. ASSUME NEW u \in DOMAIN tasks, Interrupting(u) \/ Claiming(u)
              PROVE  FALSE
          BY <2>3, <2>4, <3>2, <5>1 DEF Interrupting, Claiming, SetsState
        <5>2. ASSUME NEW u \in DOMAIN tasks, Flagging(u)
              PROVE  FALSE
          BY <2>3, <2>4, <3>2, <5>2 DEF Flagging, Flags
        <5>3. ASSUME NEW u \in Workshops, Entering(u) \/ Advancing(u) \/ Journalling(u)
              PROVE  FALSE
          BY <2>3, <2>4, <3>2, <5>3 DEF Entering, Advancing, Handing, Journalling, Adds
        <5>4. ASSUME NEW u \in Workshops, NEW s, Closing(u, s)
              PROVE  FALSE
          BY <2>3, <2>4, <3>2, <5>4 DEF Closing, SetsState
        <5>5. ASSUME NEW u \in DOMAIN tasks, NEW s, NEW f, Ending(u, s, f)
              PROVE  u = cp.child
          BY <2>3, <2>4, <3>2, <5>5 DEF Ending, SetsState
        <5> QED BY <2>4, <3>2, <5>1, <5>2, <5>3, <5>4, <5>5 DEF TableStep
      <4>2. f \in Findings(cp.stage) /\ result' = [result EXCEPT ![cp.child] = f]
        BY <2>3, <4>1 DEF Ending, StageOf
      <4>3. cp.child \in DOMAIN result
        BY <1>0, <2>3 DEF TypeOK
      <4> QED BY <4>2, <4>3
    <3> QED BY <3>1, <3>2
  <2>5. ASSUME tasks'[w].state = "completed"
        PROVE  /\ cp.stage = "verify" /\ result'[cp.child] = "verified"
               /\ tasks'[cp.child].state = "completed"
    <3>1. CASE tasks[w].state = "completed"
      BY <2>1, <2>3, <3>1, ResultsStay DEF RouteOK
    <3>2. CASE tasks[w].state = "waiting"
      <4>1. Closing(w, "completed")
        <5>1. ASSUME NEW u \in DOMAIN tasks, Interrupting(u) \/ Claiming(u)
              PROVE  FALSE
          BY <1>0, <2>5, <3>2, <5>1 DEF Interrupting, Claiming, SetsState
        <5>2. ASSUME NEW u \in DOMAIN tasks, Flagging(u)
              PROVE  FALSE
          BY <1>0, <2>5, <3>2, <5>2 DEF Flagging, Flags
        <5>3. ASSUME NEW u \in Workshops, Entering(u) \/ Advancing(u) \/ Journalling(u)
              PROVE  FALSE
          BY <1>0, <2>5, <3>2, <5>3 DEF Entering, Advancing, Handing, Journalling, Adds
        <5>4. ASSUME NEW u \in Workshops, NEW s, Closing(u, s)
              PROVE  u = w /\ s = "completed"
          BY <1>0, <2>5, <3>2, <5>4 DEF Closing, SetsState
        <5>5. ASSUME NEW u \in DOMAIN tasks, NEW s, NEW f, Ending(u, s, f)
              PROVE  FALSE
          BY <1>0, <2>5, <3>2, <5>5 DEF Ending, SetsState
        <5> QED BY <2>5, <3>2, <5>1, <5>2, <5>3, <5>4, <5>5 DEF TableStep
      <4> QED BY <2>3, <4>1, ResultsStay DEF Closing
    <3> QED BY <2>1, <3>1, <3>2 DEF CheckedOut
  <2>6. \A s, u \in DOMAIN cp.history : cp.history[s] = cp.history[u] => s = u
    BY <2>1 DEF RouteOK
  <2>7. /\ cp.stage = "gap" => DOMAIN cp.history = {}
        /\ cp.stage # "gap" =>
              /\ "gap" \in DOMAIN cp.history
              /\ result'[cp.history["gap"]] \in Routes
              /\ cp.stage \in Path(result'[cp.history["gap"]])
              /\ DOMAIN cp.history = Before(cp.stage, result'[cp.history["gap"]])
    BY <2>1, <2>2 DEF RouteOK
  <2> QED BY <2>1, <2>4, <2>5, <2>6, <2>7 DEF RouteOK
<1> QED BY <1>1, <1>2, RouteGoesOn

LEMMA TablesKept ==
    ASSUME TypeOK, TablesOK, TableStep
    PROVE  TablesOK'
<1>1. Workshops' = Workshops
  OBVIOUS
<1> QED BY <1>1, ShapeKept, StagesKept, ResearchKept, CheckpointKept, RouteKept DEF TablesOK

----------------------------------------------------------------------------
(* The actions.  Most of them neither take a workshop to its next stage    *)
(* nor write a journal.                                                    *)

Quiet ==
    \/ UNCHANGED <<tasks, result, checkpoint>>
    \/ \E t \in DOMAIN tasks : Interrupting(t) \/ Claiming(t) \/ Flagging(t)
    \/ \E t \in DOMAIN tasks : \E s, f : Ending(t, s, f)
    \/ \E w \in Workshops : Entering(w)
    \/ \E w \in Workshops : \E s : Closing(w, s)

LEMMA QuietSteps ==
    ASSUME TypeOK, TablesOK, Quiet
    PROVE  /\ TableStep
           /\ \A w \in Workshops :
                 /\ tasks[w].state = "waiting" => checkpoint'[w] = checkpoint[w]
                 /\ tasks'[w].state = "waiting" => tasks[w].state = "waiting" \/ Entering(w)
                 /\ Journals(w)' = Journals(w)
<1>0. /\ DOMAIN checkpoint = Workshops /\ Workshops \subseteq DOMAIN tasks /\ ShapeOK
  BY Rows DEF TablesOK
<1>1. TableStep
  BY DEF Quiet, TableStep
<1>2. ASSUME NEW w \in Workshops, tasks[w].state = "waiting"
      PROVE  checkpoint'[w] = checkpoint[w]
  BY <1>0, <1>2 DEF Quiet, Interrupting, Claiming, Flagging, Ending, Closing, Entering, Handing
<1>3. ASSUME NEW w \in Workshops, tasks'[w].state = "waiting", tasks[w].state # "waiting"
      PROVE  Entering(w)
  <2>1. ASSUME NEW u \in DOMAIN tasks, Interrupting(u) \/ Claiming(u) PROVE FALSE
    BY <1>0, <1>3, <2>1 DEF Interrupting, Claiming, SetsState
  <2>2. ASSUME NEW u \in DOMAIN tasks, Flagging(u) PROVE FALSE
    BY <1>0, <1>3, <2>2 DEF Flagging, Flags
  <2>3. ASSUME NEW u \in DOMAIN tasks, NEW s, NEW f, Ending(u, s, f) PROVE FALSE
    BY <1>0, <1>3, <2>3 DEF Ending, SetsState
  <2>4. ASSUME NEW u \in Workshops, Entering(u) PROVE u = w
    BY <1>0, <1>3, <2>4 DEF Entering, Handing, Adds
  <2>5. ASSUME NEW u \in Workshops, NEW s, Closing(u, s) PROVE FALSE
    BY <1>0, <1>3, <2>5 DEF Closing, SetsState
  <2> QED BY <1>3, <2>1, <2>2, <2>3, <2>4, <2>5 DEF Quiet
<1>4. ASSUME NEW t \in DOMAIN tasks', t \notin DOMAIN tasks
      PROVE  tasks'[t].kind # "journal"
  <2>1. PICK u \in Workshops : Entering(u)
    BY <1>4 DEF Quiet, Interrupting, Claiming, Flagging, Ending, Closing, SetsState, Flags
  <2> QED BY <1>4, <2>1 DEF Entering, Handing, Adds, StageKind
<1>5. \A q \in DOMAIN tasks : RowMoves(q)
  BY <1>1, RowsMove
<1>6. ASSUME NEW w \in Workshops
      PROVE  Journals(w)' = Journals(w)
  BY <1>4, <1>5 DEF Journals, RowMoves
<1> QED BY <1>1, <1>2, <1>3, <1>6

LEMMA InvTables == Inv => TypeOK /\ TablesOK
BY DEF Inv, TablesOK

LEMMA Interrupted ==
    ASSUME Inv, NEW t \in DOMAIN tasks, tasks' = AfterInterrupted(t),
           UNCHANGED <<result, checkpoint>>,
           t \in Workshops /\ tasks[t].state = "waiting" => checkpoint[t].stage = "gap"
    PROVE  UNCHANGED <<tasks, result, checkpoint>> \/ Interrupting(t)
BY InterruptEffect DEF Inv, Interrupting

(* A worker's step or the owner's: what it may do whatever the supervisor  *)
(* is at.  Only the process of a task takes that task out of "running".    *)
Procs == {"none", "start", "run", "gone"}

Outside ==
    /\ Quiet
    /\ UNCHANGED <<children, pc, snap, stops, crashes>>
    /\ proc' \in [TaskIds -> Procs] /\ todo' \in [cancel : SUBSET TaskIds, list : SUBSET TaskIds]
    /\ \A q \in TaskIds : \/ proc'[q] = proc[q]
                          \/ proc[q] \in {"start", "run"} /\ proc'[q] \in {"run", "gone"}
    /\ \A q \in DOMAIN tasks :
          \/ tasks'[q].state = tasks[q].state
          \/ tasks[q].state = "queued" /\ tasks'[q].state = "cancelled"
          \/ proc[q] \in {"start", "run"} /\ proc'[q] = "gone"

LEMMA BeginOutside ==
    ASSUME Inv, NEW t \in DOMAIN tasks, Begin(t)
    PROVE  Outside
<1>0. /\ proc \in [TaskIds -> Procs] /\ DOMAIN tasks \subseteq TaskIds /\ t \in TaskIds
      /\ todo \in [cancel : SUBSET TaskIds, list : SUBSET TaskIds]
  BY Rows DEF Inv, TypeOK, Procs
<1>1. /\ proc[t] = "start" /\ tasks[t].state = "running"
      /\ UNCHANGED <<result, checkpoint, children, pc, snap, todo, stops, crashes>>
  BY <1>0 DEF Begin, Inv, ProcessOK
<1>2. CASE proc' = [proc EXCEPT ![t] = "run"] /\ UNCHANGED tasks
  BY <1>0, <1>1, <1>2 DEF Outside, Quiet, Procs
<1>3. CASE proc' = [proc EXCEPT ![t] = "gone"] /\ tasks' = AfterInterrupted(t)
  <2>1. UNCHANGED <<tasks, result, checkpoint>> \/ Interrupting(t)
    BY <1>1, <1>3, Interrupted
  <2>2. Quiet
    BY <2>1 DEF Quiet
  <2>3. \A q \in DOMAIN tasks : tasks'[q].state = tasks[q].state \/ q = t
    BY <2>1 DEF Interrupting, SetsState
  <2> QED BY <1>0, <1>1, <1>3, <2>2, <2>3 DEF Outside, Procs
<1> QED BY <1>2, <1>3 DEF Begin

LEMMA RaiseOutside ==
    ASSUME Inv, NEW t \in DOMAIN tasks, Raise(t)
    PROVE  Outside
<1>0. /\ proc \in [TaskIds -> Procs] /\ DOMAIN tasks \subseteq TaskIds /\ t \in TaskIds
      /\ todo \in [cancel : SUBSET TaskIds, list : SUBSET TaskIds]
  BY Rows DEF Inv, TypeOK, Procs
<1>1. /\ proc[t] = "run" /\ tasks[t].state = "running" /\ proc' = [proc EXCEPT ![t] = "gone"]
      /\ tasks' = AfterInterrupted(t)
      /\ UNCHANGED <<result, checkpoint, children, pc, snap, todo, stops, crashes>>
  BY <1>0 DEF Raise, Inv, ProcessOK
<1>2. UNCHANGED <<tasks, result, checkpoint>> \/ Interrupting(t)
  BY <1>1, Interrupted
<1>3. Quiet
  BY <1>2 DEF Quiet
<1>4. \A q \in DOMAIN tasks : tasks'[q].state = tasks[q].state \/ q = t
  BY <1>2 DEF Interrupting, SetsState
<1> QED BY <1>0, <1>1, <1>3, <1>4 DEF Outside, Procs

LEMMA DieOutside ==
    ASSUME Inv, NEW t \in DOMAIN tasks, Die(t)
    PROVE  Outside
<1>0. /\ proc \in [TaskIds -> Procs] /\ t \in TaskIds
      /\ todo \in [cancel : SUBSET TaskIds, list : SUBSET TaskIds]
  BY Rows DEF Inv, TypeOK, Procs
<1> QED BY <1>0 DEF Die, Outside, Quiet, Procs

LEMMA EndStageOutside ==
    ASSUME Inv, NEW t \in DOMAIN tasks, EndStage(t)
    PROVE  Outside
<1>0. /\ proc \in [TaskIds -> Procs] /\ DOMAIN tasks \subseteq TaskIds /\ t \in TaskIds
      /\ todo \in [cancel : SUBSET TaskIds, list : SUBSET TaskIds]
  BY Rows DEF Inv, TypeOK, Procs
<1>1. /\ proc[t] = "run" /\ tasks[t].state = "running" /\ proc' = [proc EXCEPT ![t] = "gone"]
      /\ t \notin Workshops
      /\ UNCHANGED <<checkpoint, children, pc, snap, todo, stops, crashes>>
  BY <1>0 DEF EndStage, Inv, ProcessOK
<1>2. PICK s \in {"completed", "needs_review"} : tasks' = [tasks EXCEPT ![t] = MovedRow(@, s)]
  BY DEF EndStage
<1>3. PICK f \in Findings(StageOf(t)) : result' = [result EXCEPT ![t] = f]
  BY DEF EndStage
<1>4. PICK a : a = StateAfter(tasks[t], s)
  OBVIOUS
<1>5. SetsState(t, a) /\ a \in {"completed", "needs_review"}
  <2>1. s \in States
    BY DEF States, Terminal
  <2>2. SetsState(t, StateAfter(tasks[t], s))
    BY <1>2, <2>1, MoveEffect, InvTables
  <2>3. StateAfter(tasks[t], s) \in {"completed", "needs_review"}
    BY DEF StateAfter
  <2> QED BY <1>4, <2>2, <2>3
<1>6. Ending(t, a, f)
  BY <1>1, <1>3, <1>5 DEF Ending
<1>7. Quiet
  BY <1>6 DEF Quiet
<1>8. \A q \in DOMAIN tasks : tasks'[q].state = tasks[q].state \/ q = t
  BY <1>5 DEF SetsState
<1> QED BY <1>0, <1>1, <1>7, <1>8 DEF Outside, Procs

LEMMA StartWorkshopOutside ==
    ASSUME Inv, NEW w \in Workshops, StartWorkshop(w)
    PROVE  Outside
<1>0. /\ proc \in [TaskIds -> Procs] /\ w \in TaskIds /\ w \in DOMAIN tasks
      /\ todo \in [cancel : SUBSET TaskIds, list : SUBSET TaskIds]
  BY Rows, Sets DEF Inv, TypeOK, Procs
<1>1. /\ proc[w] = "run" /\ tasks[w].state = "running" /\ proc' = [proc EXCEPT ![w] = "gone"]
      /\ Handoff(w, "gap", NoHistory)
      /\ UNCHANGED <<result, children, pc, snap, todo, stops, crashes>>
  BY <1>0 DEF StartWorkshop, Inv, ProcessOK
<1>2. CASE ~MayHandOff(w)
  BY <1>0, <1>1, <1>2 DEF Handoff, Outside, Quiet, Procs
<1>3. CASE MayHandOff(w)
  <2>1. "gap" \in Stage
    BY StagesListed
  <2>2. Entering(w)
    BY <1>0, <1>1, <1>3, <2>1, HandoffEffect, InvTables DEF Entering, Handing
  <2>3. Quiet
    BY <2>2 DEF Quiet
  <2>4. \A q \in DOMAIN tasks : tasks'[q].state = tasks[q].state \/ q = w
    BY <2>2 DEF Entering, Handing, Adds
  <2> QED BY <1>0, <1>1, <2>3, <2>4 DEF Outside, Procs
<1> QED BY <1>2, <1>3

LEMMA OwnerOutside ==
    ASSUME Inv, NEW t \in DOMAIN tasks, CancelTask(t) \/ ListChildren(t)
    PROVE  Outside
<1>0. /\ proc \in [TaskIds -> Procs] /\ DOMAIN tasks \subseteq TaskIds
      /\ todo \in [cancel : SUBSET TaskIds, list : SUBSET TaskIds]
  BY Rows DEF Inv, TypeOK, Procs
<1>1. CASE ListChildren(t)
  <2>1. LiveChildren(tasks, t) \subseteq TaskIds
    BY <1>0 DEF LiveChildren
  <2> QED BY <1>0, <1>1, <2>1 DEF ListChildren, Outside, Quiet, Procs
<1>2. CASE CancelTask(t)
  <2>1. /\ UNCHANGED <<result, checkpoint, proc, children, pc, snap, stops, crashes>>
        /\ todo' \in [cancel : SUBSET TaskIds, list : SUBSET TaskIds]
    BY <1>0, <1>2 DEF CancelTask
  <2>2. UNCHANGED tasks \/ Flags(t)
    BY <1>2, CancelEffect, InvTables DEF CancelTask
  <2>3. Quiet
    BY <2>1, <2>2 DEF Quiet, Flagging
  <2>4. \A q \in DOMAIN tasks : \/ tasks'[q].state = tasks[q].state
                                \/ tasks[q].state = "queued" /\ tasks'[q].state = "cancelled"
    BY <2>2 DEF Flags
  <2> QED BY <1>0, <2>1, <2>3, <2>4 DEF Outside
<1> QED BY <1>1, <1>2

----------------------------------------------------------------------------
(* What an action has to leave in order for the invariant to hold after it.*)

ControlTypes ==
    /\ proc \in [TaskIds -> Procs]
    /\ children \in SUBSET DOMAIN tasks
    /\ pc \in [at : {"down", "recover", "idle", "launch", "reap", "decide", "close", "stopping"},
               task : {NoTask} \cup TaskIds]
    /\ snap \in [state : States \cup {"none"}, cancel : BOOLEAN, late : BOOLEAN]
    /\ todo \in [cancel : SUBSET TaskIds, list : SUBSET TaskIds]
    /\ stops \in 0..MaxStops
    /\ crashes \in 0..MaxCrashes

LEMMA TableTypes ==
    ASSUME TypeOK, TablesOK, TableStep
    PROVE  /\ tasks' \in Seq(Row) /\ Len(tasks') <= MaxTasks
           /\ DOMAIN tasks \subseteq DOMAIN tasks'
           /\ result' \in [TaskIds -> {"none", "found", "verified", "refuted"} \cup Routes]
           /\ \A w \in Workshops :
                 /\ checkpoint'[w].stage \in Stage \cup {"none"}
                 /\ checkpoint'[w].child \in {NoTask} \cup TaskIds
                 /\ \A s \in DOMAIN checkpoint'[w].history :
                       s \in Stage /\ checkpoint'[w].history[s] \in TaskIds
<1>0. /\ tasks \in Seq(Row) /\ Len(tasks) <= MaxTasks /\ Len(tasks) \in Nat /\ MaxTasks \in Nat
      /\ DOMAIN tasks \subseteq TaskIds
      /\ result \in [TaskIds -> {"none", "found", "verified", "refuted"} \cup Routes]
  BY Rows, Sets DEF TypeOK
<1>1. tasks' \in Seq(Row)
  BY <1>0 DEF TableStep, Interrupting, Claiming, Flagging, Ending, Closing, Entering, Advancing,
     Handing, Journalling, SetsState, Flags, Adds, Kept
<1>2. Len(tasks') <= MaxTasks
  BY <1>0 DEF TableStep, Interrupting, Claiming, Flagging, Ending, Closing, Entering, Advancing,
     Handing, Journalling, SetsState, Flags, Adds
<1>3. DOMAIN tasks \subseteq DOMAIN tasks'
  BY RowsMove DEF RowMoves
<1>4. result' \in [TaskIds -> {"none", "found", "verified", "refuted"} \cup Routes]
  <2>1. UNCHANGED result \/ \E t \in DOMAIN tasks : \E s, f : Ending(t, s, f)
    BY DEF TableStep, Interrupting, Claiming, Flagging, Closing, Entering, Advancing, Handing,
       Journalling
  <2>2. ASSUME NEW t \in DOMAIN tasks, NEW s, NEW f, Ending(t, s, f)
        PROVE  result' \in [TaskIds -> {"none", "found", "verified", "refuted"} \cup Routes]
    <3>1. f \in {"none", "found", "verified", "refuted"} \cup Routes
      BY <2>2 DEF Ending, Findings
    <3> QED BY <1>0, <2>2, <3>1 DEF Ending
  <2> QED BY <1>0, <2>1, <2>2
<1>5. ASSUME NEW w \in Workshops
      PROVE  /\ checkpoint'[w].stage \in Stage \cup {"none"}
             /\ checkpoint'[w].child \in {NoTask} \cup TaskIds
             /\ \A s \in DOMAIN checkpoint'[w].history :
                   s \in Stage /\ checkpoint'[w].history[s] \in TaskIds
  <2> DEFINE cp == checkpoint[w]
  <2>0. /\ cp.stage \in Stage \cup {"none"}
        /\ cp.child \in {NoTask} \cup TaskIds
        /\ \A s \in DOMAIN cp.history : s \in Stage /\ cp.history[s] \in TaskIds
    BY DEF TypeOK
  <2>1. CASE ~Entering(w) /\ ~Advancing(w)
    BY <2>0, <2>1, CheckpointStays
  <2>2. CASE Entering(w) \/ Advancing(w)
    <3>1. checkpoint'[w].child = Len(tasks) + 1 /\ checkpoint'[w].stage \in Stage
      BY <2>2, Handed
    <3>2. PICK kind : Adds(w, kind, "waiting")
      BY <2>2, Handed
    <3>3. Len(tasks) + 1 \in TaskIds
      BY <1>0, <3>2 DEF Adds, TaskIds
    <3>4. CASE Entering(w)
      BY <3>1, <3>3, <3>4, Handed DEF NoHistory
    <3>5. CASE Advancing(w)
      <4>1. CheckpointOK(w)
        BY <3>5 DEF Advancing, TablesOK, CheckedOut
      <4>2. cp.child \in TaskIds /\ cp.stage \in Stage
        BY <1>0, <4>1 DEF CheckpointOK
      <4>3. checkpoint'[w].history = Recorded(cp.history, cp.stage, cp.child)
        BY <3>5, Handed
      <4>4. \A s \in DOMAIN checkpoint'[w].history :
               s \in Stage /\ checkpoint'[w].history[s] \in TaskIds
        BY <2>0, <4>2, <4>3 DEF Recorded
      <4> QED BY <3>1, <3>3, <4>4
    <3> QED BY <2>2, <3>4, <3>5
  <2> QED BY <2>1, <2>2
<1> QED BY <1>1, <1>2, <1>3, <1>4, <1>5

(* A process starts only for a running task.                               *)
ProcsStep ==
    \A q \in TaskIds :
        /\ proc'[q] \in {"start", "run"} => q \in DOMAIN tasks /\ tasks'[q].state = "running"
        /\ proc[q] = "none" /\ (q \in DOMAIN tasks => tasks[q].state # "running") =>
              proc'[q] = "none"

LEMMA ProcessKept ==
    ASSUME TypeOK, TablesOK, ProcessOK, TableStep, ProcsStep
    PROVE  ProcessOK'
<1>1. ASSUME NEW q \in TaskIds
      PROVE  /\ proc'[q] \in {"start", "run"} => q \in DOMAIN tasks' /\ tasks'[q].state = "running"
             /\ q \in DOMAIN tasks' => (tasks'[q].state = "queued" => proc'[q] = "none")
             /\ q \notin DOMAIN tasks' => proc'[q] = "none"
  <2>1. CASE q \in DOMAIN tasks
    BY <2>1, RowsMove DEF RowMoves, ProcsStep, ProcessOK
  <2>2. CASE q \notin DOMAIN tasks
    BY <2>2 DEF ProcsStep, ProcessOK
  <2> QED BY <2>1, <2>2
<1> QED BY <1>1 DEF ProcessOK

(* No child is added for a waiting workshop, and nothing is claimed in a   *)
(* lane that is taken.                                                     *)
LaneStep ==
    \A w \in Workshops :
        /\ w \in children' /\ tasks'[w].state = "waiting" => w \in children
        /\ w \in children /\ tasks[w].state = "waiting" /\ tasks[checkpoint[w].child].state = "queued" =>
              tasks'[checkpoint[w].child].state # "running"

LEMMA QueuedMoves ==
    ASSUME TypeOK, TablesOK, TableStep, NEW q \in DOMAIN tasks \ Workshops, tasks[q].state = "queued"
    PROVE  tasks'[q].state \in {"queued", "running", "cancelled"}
<1>1. ASSUME NEW t \in DOMAIN tasks, Interrupting(t) PROVE tasks'[q].state = "queued"
  BY <1>1 DEF Interrupting, SetsState, Active
<1>2. ASSUME NEW t \in DOMAIN tasks, Claiming(t) PROVE tasks'[q].state \in {"queued", "running"}
  BY <1>2 DEF Claiming, SetsState
<1>3. ASSUME NEW t \in DOMAIN tasks, Flagging(t) PROVE tasks'[q].state \in {"queued", "cancelled"}
  BY <1>3 DEF Flagging, Flags
<1>4. ASSUME NEW t \in DOMAIN tasks, NEW s, NEW f, Ending(t, s, f) PROVE tasks'[q].state = "queued"
  BY <1>4 DEF Ending, SetsState
<1>5. ASSUME NEW w \in Workshops, Entering(w) \/ Advancing(w) \/ Journalling(w)
      PROVE  tasks'[q].state = "queued"
  BY <1>5 DEF Entering, Advancing, Handing, Journalling, Adds
<1>6. ASSUME NEW w \in Workshops, NEW s, Closing(w, s) PROVE tasks'[q].state = "queued"
  BY <1>6 DEF Closing, SetsState
<1> QED BY <1>1, <1>2, <1>3, <1>4, <1>5, <1>6 DEF TableStep

LEMMA FirstStageKept ==
    ASSUME TypeOK, TablesOK, TableStep, LaneStep, NEW w \in Workshops, FirstStageHeld(w)
    PROVE  FirstStageHeld(w)'
<1>1. SUFFICES ASSUME w \in children', tasks'[w].state = "waiting"
               PROVE  /\ checkpoint'[w].stage = "gap"
                      /\ tasks'[checkpoint'[w].child].state \in {"queued", "cancelled"}
  BY DEF FirstStageHeld
<1>2. w \in children
  BY <1>1 DEF LaneStep
<1>3. CASE Entering(w)
  <2>1. checkpoint'[w].stage = "gap" /\ checkpoint'[w].child = Len(tasks) + 1
    BY <1>3, Handed
  <2>2. PICK kind : Adds(w, kind, "waiting")
    BY <1>3, Handed
  <2> QED BY <2>1, <2>2 DEF Adds
<1>4. CASE Advancing(w)
  <2>1. tasks[w].state = "waiting" /\ tasks[checkpoint[w].child].state = "completed"
    BY <1>4 DEF Advancing
  <2> QED BY <1>2, <2>1 DEF FirstStageHeld
<1>5. CASE ~Entering(w) /\ ~Advancing(w)
  <2>1. checkpoint'[w] = checkpoint[w] /\ CheckedOut(w)
    BY <1>1, <1>5, CheckpointStays DEF CheckedOut
  <2>2. w \in DOMAIN tasks
    BY Rows DEF TablesOK
  <2>3. tasks[w].state = "waiting"
    BY <1>1, <2>1, <2>2, RowsMove DEF RowMoves, CheckedOut
  <2> DEFINE c == checkpoint[w].child
  <2>4. checkpoint[w].stage = "gap" /\ tasks[c].state \in {"queued", "cancelled"}
    BY <1>2, <2>3 DEF FirstStageHeld
  <2>5. c \in DOMAIN tasks \ Workshops
    BY <2>1 DEF TablesOK, CheckpointOK
  <2> HIDE DEF c
  <2>6. CASE tasks[c].state = "cancelled"
    BY <2>1, <2>4, <2>5, <2>6, RowsMove DEF RowMoves, Live, Terminal, c
  <2>7. CASE tasks[c].state = "queued"
    <3>1. tasks'[c].state \in {"queued", "running", "cancelled"}
      BY <2>5, <2>7, QueuedMoves
    <3>2. tasks'[c].state # "running"
      BY <1>2, <2>3, <2>7 DEF LaneStep, c
    <3> QED BY <2>1, <2>4, <3>1, <3>2 DEF c
  <2> QED BY <2>4, <2>6, <2>7
<1> QED BY <1>3, <1>4, <1>5

(* One journal is written when the supervisor decides to close.            *)
JournalStep(w) ==
    \/ /\ Journals(w)' = Journals(w)
       /\ \/ crashes' = crashes + 1
          \/ crashes' = crashes /\ (pc = [at |-> "close", task |-> w] => pc' = pc \/ ~Live(tasks'[w]))
    \/ /\ Journals(w)' = Journals(w) \cup {Len(tasks) + 1}
       /\ crashes' = crashes /\ Written(w) = 0 /\ pc' = [at |-> "close", task |-> w]

LEMMA JournalsCounted ==
    ASSUME TypeOK, NEW w
    PROVE  IsFiniteSet(Journals(w)) /\ Cardinality(Journals(w)) \in Nat
<1>1. Journals(w) \subseteq 1..Len(tasks) /\ Len(tasks) \in Nat
  BY Rows DEF Journals
<1>2. IsFiniteSet(1..Len(tasks))
  BY <1>1, FS_Interval
<1>3. IsFiniteSet(Journals(w))
  BY <1>1, <1>2, FS_Subset
<1> QED BY <1>3, FS_CardinalityType

LEMMA JournalsKept ==
    ASSUME TypeOK, TablesOK, TableStep, NEW w \in Workshops, JournalsOK(w), JournalStep(w)
    PROVE  JournalsOK(w)'
<1>0. /\ IsFiniteSet(Journals(w)) /\ Cardinality(Journals(w)) \in Nat
      /\ crashes \in Nat /\ Written(w) \in {0, 1} /\ Written(w)' \in {0, 1}
      /\ Cardinality(Journals(w)) <= crashes + Written(w)
  BY JournalsCounted, BoundsAssumption DEF Written, JournalsOK, TypeOK
<1>1. ~Live(tasks[w]) => ~Live(tasks'[w])
  BY Rows, RowsMove DEF TablesOK, RowMoves, Live
<1>2. ASSUME Journals(w)' = Journals(w)
      PROVE  Cardinality(Journals(w)') = Cardinality(Journals(w))
  BY <1>2
<1>3. CASE Journals(w)' = Journals(w) /\ crashes' = crashes + 1
  BY <1>0, <1>2, <1>3 DEF JournalsOK
<1>4. CASE /\ Journals(w)' = Journals(w) /\ crashes' = crashes
           /\ pc = [at |-> "close", task |-> w] => pc' = pc \/ ~Live(tasks'[w])
  <2>1. Written(w) = 1 => Written(w)' = 1
    BY <1>1, <1>4 DEF Written
  <2> QED BY <1>0, <1>2, <1>4, <2>1 DEF JournalsOK
<1>5. CASE /\ Journals(w)' = Journals(w) \cup {Len(tasks) + 1}
           /\ crashes' = crashes /\ Written(w) = 0 /\ pc' = [at |-> "close", task |-> w]
  <2>1. Len(tasks) + 1 \notin Journals(w)
    BY Rows DEF Journals
  <2>2. Cardinality(Journals(w) \cup {Len(tasks) + 1}) = Cardinality(Journals(w)) + 1
    BY <1>0, <2>1, FS_AddElement
  <2>3. Cardinality(Journals(w)') = Cardinality(Journals(w)) + 1
    BY <1>5, <2>2
  <2>4. Written(w)' = 1
    BY <1>5 DEF Written
  <2> QED BY <1>0, <1>5, <2>3, <2>4 DEF JournalsOK
<1> QED BY <1>3, <1>4, <1>5 DEF JournalStep

(* The decision to close holds until the workshop is closed.               *)
LEMMA ClosingStays ==
    ASSUME Inv, Quiet, pc' = pc
    PROVE  ClosingOK'
<1>1. SUFFICES ASSUME pc.at = "close"
               PROVE  LET c == checkpoint'[pc.task].child IN ~Live(tasks'[c]) \/ tasks'[c].cancel
  BY DEF ClosingOK
<1> DEFINE c == checkpoint[pc.task].child
<1>2. pc.task \in Workshops /\ tasks[pc.task].state = "waiting"
      /\ (~Live(tasks[c]) \/ tasks[c].cancel)
  BY <1>1 DEF Inv, SupervisorOK, ClosingOK
<1>3. checkpoint'[pc.task] = checkpoint[pc.task] /\ TableStep
  BY <1>2, QuietSteps, InvTables
<1>4. c \in DOMAIN tasks
  BY <1>2 DEF Inv, CheckedOut, CheckpointOK
<1>5. ~Live(tasks'[c]) \/ tasks'[c].cancel
  BY <1>2, <1>3, <1>4, InvTables, RowsMove DEF RowMoves, Live
<1> QED BY <1>3, <1>5

LEMMA InvKept ==
    ASSUME Inv, TableStep, ControlTypes', ProcsStep, LaneStep, SupervisorOK', ClosingOK',
           \A w \in Workshops : JournalStep(w)
    PROVE  Inv'
<1>1. /\ TypeOK /\ TablesOK /\ ProcessOK
      /\ \A w \in Workshops : FirstStageHeld(w) /\ JournalsOK(w)
  BY InvTables DEF Inv
<1>2. TypeOK'
  <2>1. /\ tasks' \in Seq(Row) /\ Len(tasks') <= MaxTasks
        /\ result' \in [TaskIds -> {"none", "found", "verified", "refuted"} \cup Routes]
        /\ \A w \in Workshops :
              /\ checkpoint'[w].stage \in Stage \cup {"none"}
              /\ checkpoint'[w].child \in {NoTask} \cup TaskIds
              /\ \A s \in DOMAIN checkpoint'[w].history :
                    s \in Stage /\ checkpoint'[w].history[s] \in TaskIds
    BY <1>1, TableTypes
  <2> QED BY <2>1 DEF TypeOK, ControlTypes, Procs
<1>3. TablesOK'
  BY <1>1, TablesKept
<1>4. ProcessOK'
  BY <1>1, ProcessKept
<1>5. \A w \in Workshops : FirstStageHeld(w)' /\ JournalsOK(w)'
  BY <1>1, FirstStageKept, JournalsKept
<1> QED BY <1>2, <1>3, <1>4, <1>5 DEF Inv, TablesOK

LEMMA QuietKept ==
    ASSUME Inv, Quiet, ControlTypes', ProcsStep, LaneStep, SupervisorOK', ClosingOK',
           crashes' \in {crashes, crashes + 1},
           pc.at = "close" => pc' = pc \/ ~Live(tasks'[pc.task]) \/ crashes' = crashes + 1
    PROVE  Inv'
<1>1. TableStep /\ \A w \in Workshops : Journals(w)' = Journals(w)
  BY QuietSteps, InvTables
<1>2. \A w \in Workshops : JournalStep(w)
  BY <1>1 DEF JournalStep
<1> QED BY <1>1, <1>2, InvKept

LEMMA InvControl == Inv => ControlTypes
BY DEF Inv, TypeOK, ControlTypes, Procs

LEMMA OutsideKept ==
    ASSUME Inv, Outside
    PROVE  Inv'
<1>0. /\ TypeOK /\ TablesOK /\ ProcessOK /\ SupervisorOK /\ Quiet /\ ControlTypes
      /\ Workshops \subseteq DOMAIN tasks /\ DOMAIN tasks \subseteq TaskIds
  BY InvTables, InvControl, Rows DEF Outside, Inv, TablesOK
<1>1. /\ TableStep
      /\ \A w \in Workshops : tasks'[w].state = "waiting" => tasks[w].state = "waiting" \/ Entering(w)
  BY <1>0, QuietSteps
<1>2. ControlTypes'
  BY <1>0, <1>1, TableTypes DEF Outside, ControlTypes
<1>3. ProcsStep
  <2>1. ASSUME NEW q \in TaskIds, proc'[q] \in {"start", "run"}
        PROVE  q \in DOMAIN tasks /\ tasks'[q].state = "running"
    <3>1. proc[q] \in {"start", "run"}
      BY <2>1 DEF Outside
    <3>2. q \in DOMAIN tasks /\ tasks[q].state = "running"
      BY <1>0, <3>1 DEF ProcessOK
    <3> QED BY <2>1, <3>2 DEF Outside
  <2>2. \A q \in TaskIds : proc[q] = "none" => proc'[q] = "none"
    BY DEF Outside
  <2> QED BY <2>1, <2>2 DEF ProcsStep
<1>4. \A q \in DOMAIN tasks : tasks[q].state \in {"running", "waiting"} =>
         \/ tasks'[q].state = tasks[q].state
         \/ proc[q] \in {"start", "run"}
  BY DEF Outside
<1>5. LaneStep
  <2>1. ASSUME NEW w \in Workshops, tasks[w].state = "waiting",
               tasks[checkpoint[w].child].state = "queued"
        PROVE  tasks'[checkpoint[w].child].state # "running"
    <3>1. checkpoint[w].child \in DOMAIN tasks
      BY <1>0, <2>1 DEF TablesOK, CheckedOut, CheckpointOK
    <3>2. proc[checkpoint[w].child] = "none"
      BY <1>0, <2>1, <3>1 DEF ProcessOK
    <3> QED BY <2>1, <3>1, <3>2 DEF Outside
  <2>2. children' = children
    BY DEF Outside
  <2> QED BY <2>1, <2>2 DEF LaneStep
<1>6. SupervisorOK'
  <2>1. pc' = pc /\ children' = children
    BY DEF Outside
  <2>2. ASSUME pc.at = "launch"
        PROVE  pc.task \in DOMAIN tasks' /\ proc'[pc.task] = "none" /\ tasks'[pc.task].state = "running"
    BY <1>0, <1>1, <1>4, <2>2, RowsMove DEF SupervisorOK, Outside, RowMoves
  <2>3. ASSUME pc.at \in {"decide", "close"}
        PROVE  pc.task \in Workshops /\ tasks'[pc.task].state = "waiting"
    BY <1>0, <1>4, <2>3 DEF SupervisorOK, ProcessOK
  <2>4. ASSUME pc.at = "recover"
        PROVE  \A t \in TaskIds : proc'[t] \in {"none", "gone"}
    BY <1>0, <2>4 DEF SupervisorOK, Outside
  <2>5. \A t \in children : proc'[t] # "none"
    BY <1>0 DEF SupervisorOK, Outside, ControlTypes
  <2> QED BY <1>0, <2>1, <2>2, <2>3, <2>4, <2>5 DEF SupervisorOK
<1>7. ClosingOK'
  BY <1>0, ClosingStays DEF Outside
<1> QED BY <1>0, <1>2, <1>3, <1>5, <1>6, <1>7, QuietKept DEF Outside

----------------------------------------------------------------------------
(* The supervisor's own steps.  Those that leave the tables alone:         *)

LEMMA ControlKept ==
    ASSUME Inv, UNCHANGED <<tasks, result, checkpoint>>, ControlTypes', SupervisorOK',
           pc'.at # "close", pc.at = "close" => crashes' = crashes + 1,
           crashes' \in {crashes, crashes + 1}, ProcsStep,
           \A w \in Workshops : w \in children' => w \in children \/ tasks[w].state = "running"
    PROVE  Inv'
<1>1. Quiet
  BY DEF Quiet
<1>2. ClosingOK'
  BY DEF ClosingOK
<1>3. LaneStep
  BY DEF LaneStep
<1> QED BY <1>1, <1>2, <1>3, QuietKept

(* Processes that no step starts.                                          *)
LEMMA ProcsGo ==
    ASSUME Inv, UNCHANGED tasks, NEW T,
           proc' = [q \in TaskIds |-> IF q \in T /\ proc[q] # "none" THEN "gone" ELSE proc[q]]
    PROVE  ProcsStep /\ proc' \in [TaskIds -> Procs]
<1>1. proc \in [TaskIds -> Procs] /\ ProcessOK
  BY InvControl DEF Inv, ControlTypes
<1> QED BY <1>1 DEF ProcsStep, ProcessOK, Procs

LEMMA ProcsStay ==
    ASSUME Inv, UNCHANGED <<tasks, proc>>
    PROVE  ProcsStep
BY DEF Inv, ProcessOK, ProcsStep

LEMMA ObserveKept ==
    ASSUME Inv, NEW t \in DOMAIN tasks, Observe(t)
    PROVE  Inv'
<1>0. ControlTypes /\ SupervisorOK /\ t \in TaskIds /\ tasks[t] \in Row
  BY InvControl, Rows DEF Inv
<1>1. /\ pc = At("idle") /\ t \in children /\ pc' = [at |-> "reap", task |-> t]
      /\ UNCHANGED <<tasks, result, checkpoint, proc, children, todo, stops, crashes>>
  BY DEF Observe
<1>2. PICK late \in BOOLEAN :
         snap' = [state |-> tasks[t].state, cancel |-> tasks[t].cancel, late |-> late]
  BY DEF Observe
<1>3. ControlTypes'
  BY <1>0, <1>1, <1>2 DEF ControlTypes, Row
<1>4. SupervisorOK'
  BY <1>0, <1>1 DEF SupervisorOK, At
<1> QED BY <1>1, <1>3, <1>4, ControlKept, ProcsStay DEF At

LEMMA ConsiderKept ==
    ASSUME Inv, NEW w \in Workshops, Consider(w)
    PROVE  Inv'
<1>0. ControlTypes /\ SupervisorOK /\ w \in TaskIds /\ tasks[w] \in Row
  BY InvControl, Rows, Sets DEF Inv
<1>1. /\ pc = At("idle") /\ tasks[w].state = "waiting" /\ pc' = [at |-> "decide", task |-> w]
      /\ UNCHANGED <<tasks, result, checkpoint, proc, children, todo, stops, crashes>>
  BY DEF Consider
<1>2. PICK late \in BOOLEAN :
         snap' = [state |-> "waiting", cancel |-> tasks[w].cancel, late |-> late]
  BY DEF Consider
<1>3. ControlTypes'
  BY <1>0, <1>1, <1>2 DEF ControlTypes, Row, States, Active
<1>4. SupervisorOK'
  BY <1>0, <1>1 DEF SupervisorOK, At
<1> QED BY <1>1, <1>3, <1>4, ControlKept, ProcsStay DEF At

LEMMA LifecycleKept ==
    ASSUME Inv, Stop \/ Stopped \/ Crash \/ Start \/ Recovered
    PROVE  Inv'
<1>0. ControlTypes /\ SupervisorOK /\ stops \in Nat /\ crashes \in Nat
      /\ MaxStops \in Nat /\ MaxCrashes \in Nat
  BY InvControl, BoundsAssumption DEF Inv, ControlTypes
<1>1. UNCHANGED <<tasks, result, checkpoint>> /\ children' \subseteq children
  BY DEF Stop, Stopped, Crash, Start, Recovered
<1>2. CASE Stop
  <2>1. ControlTypes'
    BY <1>0, <1>2 DEF Stop, ControlTypes, At
  <2>2. SupervisorOK'
    BY <1>0, <1>2 DEF Stop, SupervisorOK, At
  <2> QED BY <1>0, <1>1, <1>2, <2>1, <2>2, ControlKept, ProcsStay DEF Stop, At
<1>3. CASE Stopped
  <2>1. ControlTypes'
    BY <1>0, <1>3 DEF Stopped, ControlTypes, At
  <2>2. SupervisorOK'
    BY <1>0, <1>3 DEF Stopped, SupervisorOK, At
  <2> QED BY <1>0, <1>1, <1>3, <2>1, <2>2, ControlKept, ProcsStay DEF Stopped, At
<1>4. CASE Crash
  <2>1. ControlTypes'
    BY <1>0, <1>4 DEF Crash, ControlTypes, At, NoSnap
  <2>2. SupervisorOK'
    BY <1>0, <1>4 DEF Crash, SupervisorOK, At
  <2> QED BY <1>0, <1>1, <1>4, <2>1, <2>2, ControlKept, ProcsStay DEF Crash, At
<1>5. CASE Recovered
  <2>1. ControlTypes'
    BY <1>0, <1>5 DEF Recovered, ControlTypes, At
  <2>2. SupervisorOK'
    BY <1>0, <1>5 DEF Recovered, SupervisorOK, At
  <2> QED BY <1>0, <1>1, <1>5, <2>1, <2>2, ControlKept, ProcsStay DEF Recovered, At
<1>6. CASE Start
  <2>1. proc' = [q \in TaskIds |-> IF q \in TaskIds /\ proc[q] # "none" THEN "gone" ELSE proc[q]]
    BY <1>6 DEF Start
  <2>2. ProcsStep /\ proc' \in [TaskIds -> Procs]
    BY <1>1, <2>1, ProcsGo
  <2>3. ControlTypes'
    BY <1>0, <1>6, <2>2 DEF Start, ControlTypes, At
  <2>4. SupervisorOK'
    <3>1. children' = children /\ pc' = At("recover") /\ children \subseteq TaskIds
      BY <1>0, <1>6, Rows DEF Start, ControlTypes, Inv
    <3>2. \A q \in TaskIds : /\ proc'[q] \in {"none", "gone"}
                             /\ proc[q] # "none" => proc'[q] # "none"
      BY <1>6 DEF Start
    <3>3. pc'.at = "recover" /\ \A q \in children' : proc'[q] # "none"
      BY <1>0, <3>1, <3>2 DEF SupervisorOK, At
    <3> QED BY <3>2, <3>3 DEF SupervisorOK
  <2> QED BY <1>0, <1>1, <1>6, <2>2, <2>3, <2>4, ControlKept DEF Start, At
<1> QED BY <1>2, <1>3, <1>4, <1>5, <1>6

LEMMA RecoverKept ==
    ASSUME Inv, NEW t \in DOMAIN tasks, Recover(t)
    PROVE  Inv'
<1>0. ControlTypes /\ SupervisorOK /\ ShapeOK /\ TypeOK /\ TablesOK /\ ProcessOK
      /\ Workshops \subseteq DOMAIN tasks
  BY InvControl, InvTables, Rows DEF Inv
<1>1. /\ pc = At("recover") /\ t \in Recoverable /\ tasks' = AfterInterrupted(t)
      /\ UNCHANGED <<result, checkpoint, proc, children, pc, snap, todo, stops, crashes>>
  BY DEF Recover
<1>2. t \in Workshops => tasks[t].state # "waiting"
  BY <1>0, <1>1 DEF Recoverable, WaitingWorkshop, ShapeOK
<1>3. UNCHANGED <<tasks, result, checkpoint>> \/ Interrupting(t)
  BY <1>1, <1>2, Interrupted
<1>4. Quiet
  BY <1>3 DEF Quiet
<1>5. \A q \in TaskIds : proc[q] \in {"none", "gone"}
  BY <1>0, <1>1 DEF SupervisorOK, At
<1>6. ControlTypes'
  BY <1>0, <1>1, <1>4, QuietSteps, TableTypes DEF ControlTypes
<1>7. ProcsStep
  BY <1>1, <1>5 DEF ProcsStep
<1>8. \A q \in DOMAIN tasks : tasks'[q].state \in {tasks[q].state, "needs_review"}
  BY <1>3 DEF Interrupting, SetsState
<1>9. LaneStep
  BY <1>0, <1>1, <1>8 DEF LaneStep, TablesOK, CheckedOut, CheckpointOK
<1>10. SupervisorOK'
  BY <1>0, <1>1 DEF SupervisorOK, At
<1>11. ClosingOK'
  BY <1>1 DEF ClosingOK, At
<1> QED BY <1>1, <1>4, <1>6, <1>7, <1>9, <1>10, <1>11, QuietKept

LEMMA LaunchKept ==
    ASSUME Inv, NEW t \in DOMAIN tasks, Launch(t)
    PROVE  Inv'
<1>0. ControlTypes /\ SupervisorOK /\ ShapeOK /\ TypeOK /\ TablesOK /\ ProcessOK
      /\ Workshops \subseteq DOMAIN tasks /\ DOMAIN tasks \subseteq TaskIds
  BY InvControl, InvTables, Rows DEF Inv
<1>1. /\ pc.at = "launch" /\ pc.task = t /\ proc[t] = "none" /\ tasks[t].state = "running"
      /\ UNCHANGED <<result, checkpoint, snap, todo, stops, crashes>>
  BY <1>0 DEF Launch, SupervisorOK
<1>2. CASE /\ proc' = [proc EXCEPT ![t] = "start"]
           /\ children' = children \cup {t}
           /\ pc' = At("idle")
           /\ UNCHANGED tasks
  <2>1. ControlTypes'
    BY <1>0, <1>1, <1>2 DEF ControlTypes, At, Procs
  <2>2. ProcsStep
    BY <1>0, <1>1, <1>2 DEF ProcsStep, ProcessOK, ControlTypes
  <2>3. SupervisorOK'
    BY <1>0, <1>2 DEF SupervisorOK, ControlTypes, At
  <2> QED BY <1>1, <1>2, <2>1, <2>2, <2>3, ControlKept DEF At
<1>3. CASE /\ tasks' = AfterInterrupted(t)
           /\ pc' = At("stopping")
           /\ UNCHANGED <<proc, children>>
  <2>1. UNCHANGED <<tasks, result, checkpoint>> \/ Interrupting(t)
    BY <1>1, <1>3, Interrupted
  <2>2. Quiet
    BY <2>1 DEF Quiet
  <2>3. \A q \in DOMAIN tasks : \/ tasks'[q].state = tasks[q].state
                                \/ q = t /\ tasks'[q].state = "needs_review"
    BY <2>1 DEF Interrupting, SetsState
  <2>4. ControlTypes'
    BY <1>0, <1>1, <1>3, <2>2, QuietSteps, TableTypes DEF ControlTypes, At
  <2>5. ProcsStep
    BY <1>0, <1>1, <1>3, <2>3 DEF ProcsStep, ProcessOK
  <2>6. LaneStep
    BY <1>0, <1>1, <1>3, <2>1, <2>3, QuietSteps, <2>2
       DEF LaneStep, TablesOK, CheckedOut, CheckpointOK, Entering
  <2>7. SupervisorOK'
    BY <1>0, <1>3 DEF SupervisorOK, At
  <2>8. ClosingOK'
    BY <1>3 DEF ClosingOK, At
  <2> QED BY <1>1, <2>2, <2>4, <2>5, <2>6, <2>7, <2>8, QuietKept
<1> QED BY <1>2, <1>3 DEF Launch

Snaps == [state : States \cup {"none"}, cancel : BOOLEAN, late : BOOLEAN]

LEMMA ReapedKept ==
    ASSUME Inv, NEW t \in DOMAIN tasks, Reap(t) \/ StopChild(t)
    PROVE  Inv'
<1>0. ControlTypes /\ SupervisorOK /\ ShapeOK /\ TypeOK /\ TablesOK /\ ProcessOK
      /\ Workshops \subseteq DOMAIN tasks /\ DOMAIN tasks \subseteq TaskIds
  BY InvControl, InvTables, Rows DEF Inv
<1>1. /\ t \in children /\ pc.at \notin {"launch", "decide", "close", "recover"}
      /\ pc' \in {At("idle"), At("stopping")} /\ snap' \in Snaps
      /\ UNCHANGED <<result, checkpoint, todo, stops, crashes>>
  <2>1. snap \in Snaps /\ NoSnap \in Snaps
    BY <1>0 DEF ControlTypes, Snaps, NoSnap
  <2> QED BY <1>0, <2>1 DEF Reap, StopChild, SupervisorOK, At
<1>2. CASE UNCHANGED <<tasks, proc, children>>
  <2>1. ControlTypes'
    <3>1. pc' \in [at : {"idle", "stopping"}, task : {NoTask}]
      BY <1>1 DEF At
    <3>2. snap' \in Snaps
      BY <1>1
    <3> QED BY <1>0, <1>1, <1>2, <3>1, <3>2 DEF ControlTypes, Snaps
  <2>2. SupervisorOK'
    BY <1>0, <1>1, <1>2 DEF SupervisorOK, At
  <2> QED BY <1>1, <1>2, <2>1, <2>2, ControlKept, ProcsStay DEF At
<1>3. CASE /\ tasks' = tasks \/ tasks' = AfterInterrupted(t)
           /\ proc' = [proc EXCEPT ![t] = "gone"] /\ children' = children \ {t}
  <2>1. t \in Workshops /\ tasks[t].state = "waiting" => checkpoint[t].stage = "gap"
    BY <1>1 DEF Inv, FirstStageHeld
  <2>2. UNCHANGED <<tasks, result, checkpoint>> \/ Interrupting(t)
    BY <1>1, <1>3, <2>1, Interrupted
  <2>3. Quiet
    BY <2>2 DEF Quiet
  <2>4. /\ proc' \in [TaskIds -> Procs] /\ children' \subseteq children
        /\ \A q \in TaskIds : proc'[q] = IF q = t THEN "gone" ELSE proc[q]
    BY <1>0, <1>3 DEF ControlTypes, Procs
  <2>5. \A q \in DOMAIN tasks : \/ tasks'[q].state = tasks[q].state
                                \/ q = t /\ tasks'[q].state = "needs_review"
    BY <2>2 DEF Interrupting, SetsState
  <2>6. ControlTypes'
    <3>1. pc' \in [at : {"idle", "stopping"}, task : {NoTask}]
      BY <1>1 DEF At
    <3>2. snap' \in Snaps
      BY <1>1
    <3>3. DOMAIN tasks \subseteq DOMAIN tasks'
      BY <1>0, <2>3, QuietSteps, TableTypes
    <3> QED BY <1>0, <1>1, <2>4, <3>1, <3>2, <3>3 DEF ControlTypes, Snaps
  <2>7. ProcsStep
    <3>1. proc[t] # "none"
      BY <1>0, <1>1 DEF SupervisorOK
    <3> QED BY <1>0, <2>4, <2>5, <3>1 DEF ProcsStep, ProcessOK
  <2>8. LaneStep
    <3>1. \A q \in DOMAIN tasks : tasks'[q].state \in {tasks[q].state, "needs_review"}
      BY <2>5
    <3> QED BY <1>0, <2>4, <3>1 DEF LaneStep, TablesOK, CheckedOut, CheckpointOK
  <2>9. SupervisorOK'
    <3>1. \A q \in children' : proc'[q] # "none"
      BY <1>0, <2>4 DEF SupervisorOK, ControlTypes
    <3>2. pc'.at \in {"idle", "stopping"}
      BY <1>1 DEF At
    <3> QED BY <3>1, <3>2 DEF SupervisorOK
  <2>10. ClosingOK'
    BY <1>1 DEF ClosingOK, At
  <2> QED BY <1>1, <2>3, <2>6, <2>7, <2>8, <2>9, <2>10, QuietKept
<1> QED BY <1>2, <1>3 DEF Reap, StopChild

LEMMA ClaimKept ==
    ASSUME Inv, NEW lane \in {"workshop", "research"}, Claim(lane)
    PROVE  Inv'
<1>0. ControlTypes /\ SupervisorOK /\ ShapeOK /\ TypeOK /\ TablesOK /\ ProcessOK
      /\ Workshops \subseteq DOMAIN tasks /\ DOMAIN tasks \subseteq TaskIds
  BY InvControl, InvTables, Rows DEF Inv
<1>1. /\ pc = At("idle") /\ \A t \in children : tasks[t].kind \notin LaneKinds[lane]
      /\ UNCHANGED <<result, checkpoint, proc, children, snap, todo, stops, crashes>>
  BY DEF Claim
<1>2. PICK t \in DOMAIN tasks : /\ GoesFirst(tasks, LaneKinds[lane], t)
                                /\ tasks' = [tasks EXCEPT ![t] = ClaimedRow(@)]
                                /\ pc' = [at |-> "launch", task |-> t]
  BY DEF Claim
<1>3. tasks[t].state = "queued" /\ tasks[t].kind \in LaneKinds[lane] /\ proc[t] = "none"
  <2>1. tasks[t].state = "queued" /\ tasks[t].kind \in LaneKinds[lane]
    BY <1>2 DEF GoesFirst, Claimable
  <2> QED BY <1>0, <2>1 DEF ProcessOK
<1>4. SetsState(t, "running")
  BY <1>0, <1>2, ClaimEffect
<1>5. Claiming(t)
  BY <1>1, <1>3, <1>4 DEF Claiming
<1>6. Quiet
  BY <1>5 DEF Quiet
<1>7. ControlTypes'
  <2>1. pc' \in [at : {"launch"}, task : TaskIds]
    BY <1>0, <1>2
  <2>2. DOMAIN tasks' = DOMAIN tasks
    BY <1>4 DEF SetsState
  <2> QED BY <1>0, <1>1, <2>1, <2>2 DEF ControlTypes
<1>8. ProcsStep
  <2>1. \A q \in DOMAIN tasks : tasks[q].state = "running" => tasks'[q].state = "running"
    BY <1>4 DEF SetsState
  <2> QED BY <1>0, <1>1, <2>1 DEF ProcsStep, ProcessOK
<1>9. LaneStep
  <2>1. ASSUME NEW w \in Workshops, w \in children, tasks[w].state = "waiting"
        PROVE  tasks'[checkpoint[w].child].state # "running" \/ tasks[checkpoint[w].child].state # "queued"
    <3>1. checkpoint[w].child \in DOMAIN tasks /\ tasks[checkpoint[w].child].kind = "workshop_stage"
      BY <2>1 DEF Inv, FirstStageHeld, CheckedOut, CheckpointOK, StageKind
    <3>2. tasks[w].kind = "workshop"
      BY <1>0 DEF ShapeOK
    <3>3. t # checkpoint[w].child
      BY <1>1, <1>3, <2>1, <3>1, <3>2 DEF LaneKinds
    <3> QED BY <1>4, <3>1, <3>3 DEF SetsState
  <2> QED BY <1>1, <2>1 DEF LaneStep
<1>10. SupervisorOK'
  <2>1. pc'.at = "launch" /\ pc'.task = t
    BY <1>2
  <2>2. t \in DOMAIN tasks' /\ tasks'[t].state = "running"
    BY <1>4 DEF SetsState
  <2>3. \A q \in children' : proc'[q] # "none"
    BY <1>0, <1>1 DEF SupervisorOK
  <2> QED BY <1>1, <1>3, <2>1, <2>2, <2>3 DEF SupervisorOK
<1>11. ClosingOK'
  BY <1>2 DEF ClosingOK
<1> QED BY <1>1, <1>6, <1>7, <1>8, <1>9, <1>10, <1>11, QuietKept DEF At

LEMMA CloseKept ==
    ASSUME Inv, NEW w \in Workshops, CloseWorkshop(w)
    PROVE  Inv'
<1>0. ControlTypes /\ SupervisorOK /\ ShapeOK /\ TypeOK /\ TablesOK /\ ProcessOK
      /\ Workshops \subseteq DOMAIN tasks /\ DOMAIN tasks \subseteq TaskIds
  BY InvControl, InvTables, Rows DEF Inv
<1>1. /\ pc.at = "close" /\ pc.task = w /\ tasks[w].state = "waiting" /\ tasks[w].state \in Active
      /\ UNCHANGED <<result, checkpoint, proc, children, todo, stops, crashes>> /\ snap' = NoSnap
  BY <1>0 DEF CloseWorkshop, SupervisorOK, Active
<1>2. tasks' = [tasks EXCEPT ![w] = MovedRow(@, Verdict(w))] /\ pc' = At("idle")
  BY <1>1 DEF CloseWorkshop
<1>3. /\ Verdict(w) \in {"completed", "needs_review"} /\ Verdict(w) \in States
      /\ Verdict(w) = "completed" =>
            /\ checkpoint[w].stage = "verify" /\ result[checkpoint[w].child] = "verified"
            /\ tasks[checkpoint[w].child].state = "completed"
  BY DEF Verdict, States, Terminal
<1>4. PICK v : v = Verdict(w)
  OBVIOUS
<1>5. PICK a : a = StateAfter(tasks[w], v)
  OBVIOUS
<1>6. a \in {"completed", "needs_review"} /\ (a = "completed" => v = "completed")
  BY <1>3, <1>4, <1>5 DEF StateAfter
<1>7. SetsState(w, a)
  BY <1>0, <1>2, <1>3, <1>4, <1>5, MoveEffect
<1>8. ~Live(tasks[checkpoint[w].child]) \/ tasks[checkpoint[w].child].cancel
  BY <1>1 DEF Inv, ClosingOK
<1>9. Closing(w, a)
  BY <1>1, <1>3, <1>4, <1>6, <1>7, <1>8 DEF Closing
<1>10. Quiet
  BY <1>9 DEF Quiet
<1>11. DOMAIN tasks' = DOMAIN tasks /\ tasks'[w].state \in Terminal
       /\ \A q \in DOMAIN tasks : q # w => tasks'[q].state = tasks[q].state
  BY <1>0, <1>6, <1>7 DEF SetsState, Terminal
<1>12. ControlTypes'
  BY <1>0, <1>1, <1>2, <1>11 DEF ControlTypes, At, NoSnap
<1>13. ProcsStep
  BY <1>0, <1>1, <1>11 DEF ProcsStep, ProcessOK
<1>14. LaneStep
  <2>1. \A q \in DOMAIN tasks : tasks[q].state = "queued" => tasks'[q].state # "running"
    BY <1>6, <1>7 DEF SetsState
  <2> QED BY <1>0, <1>1, <2>1 DEF LaneStep, TablesOK, CheckedOut, CheckpointOK
<1>15. SupervisorOK'
  BY <1>0, <1>1, <1>2 DEF SupervisorOK, At
<1>16. ClosingOK'
  BY <1>2 DEF ClosingOK, At
<1>17. ~Live(tasks'[w])
  BY <1>11 DEF Live
<1> QED BY <1>1, <1>10, <1>12, <1>13, <1>14, <1>15, <1>16, <1>17, QuietKept

(* What a decision leaves as it was, and what a decision to close needs.   *)
LEMMA DecisionKept ==
    ASSUME Inv, NEW w \in Workshops, pc = [at |-> "decide", task |-> w], TableStep,
           UNCHANGED <<result, proc, children, todo, stops, crashes>>,
           snap' \in {snap, NoSnap},
           \A q \in DOMAIN tasks :
              \/ tasks'[q].state = tasks[q].state
              \/ tasks[q].state = "queued" /\ tasks'[q].state = "cancelled",
           \/ pc' \in {At("idle"), At("stopping")} /\ \A u \in Workshops : Journals(u)' = Journals(u)
           \/ /\ pc' = [at |-> "close", task |-> w] /\ ClosingOK'
              /\ \/ \A u \in Workshops : Journals(u)' = Journals(u)
                 \/ Journalling(w)
    PROVE  Inv'
<1>0. ControlTypes /\ SupervisorOK /\ ShapeOK /\ TypeOK /\ TablesOK /\ ProcessOK
      /\ Workshops \subseteq DOMAIN tasks /\ DOMAIN tasks \subseteq TaskIds
  BY InvControl, InvTables, Rows DEF Inv
<1>1. tasks[w].state = "waiting" /\ tasks'[w].state = "waiting"
  BY <1>0 DEF SupervisorOK
<1>2. pc'.at \in {"idle", "stopping", "close"} /\ (pc'.at = "close" => pc'.task = w)
  BY DEF At
<1>3. ControlTypes'
  <2>1. pc' \in [at : {"idle", "stopping", "close"}, task : {NoTask} \cup TaskIds]
    BY <1>0 DEF At
  <2>2. DOMAIN tasks \subseteq DOMAIN tasks'
    BY <1>0, TableTypes
  <2>3. snap \in Snaps /\ NoSnap \in Snaps
    BY <1>0 DEF ControlTypes, Snaps, NoSnap
  <2>4. snap' \in Snaps
    BY <2>3
  <2> QED BY <1>0, <2>1, <2>2, <2>4 DEF ControlTypes, Snaps
<1>4. ProcsStep
  BY <1>0 DEF ProcsStep, ProcessOK
<1>5. LaneStep
  <2>1. \A u \in Workshops : tasks'[u].state = "waiting" => tasks[u].state = "waiting"
    BY <1>0
  <2> QED BY <1>0, <2>1 DEF LaneStep, TablesOK, CheckedOut, CheckpointOK
<1>6. SupervisorOK'
  BY <1>0, <1>1, <1>2 DEF SupervisorOK
<1>7. ClosingOK'
  BY <1>2 DEF ClosingOK, At
<1>8. ASSUME NEW u \in Workshops
      PROVE  JournalStep(u)
  <2>1. CASE Journals(u)' = Journals(u)
    BY <2>1 DEF JournalStep
  <2>2. CASE Journalling(w) /\ pc' = [at |-> "close", task |-> w]
    <3>1. /\ DOMAIN tasks' = DOMAIN tasks \cup {Len(tasks) + 1}
          /\ tasks'[Len(tasks) + 1].kind = "journal" /\ tasks'[Len(tasks) + 1].parent = w
      BY <2>2 DEF Journalling, Adds
    <3>2. Len(tasks) + 1 \notin DOMAIN tasks
      BY <1>0, Rows
    <3>3. \A q \in DOMAIN tasks : /\ tasks'[q].kind = tasks[q].kind
                                  /\ tasks'[q].parent = tasks[q].parent
      BY <1>0, RowsMove DEF RowMoves
    <3>4. CASE u = w
      <4>1. Journals(w)' = Journals(w) \cup {Len(tasks) + 1}
        BY <3>1, <3>2, <3>3 DEF Journals
      <4>2. Written(w) = 0
        BY <1>1 DEF Written, Live, Terminal
      <4> QED BY <2>2, <3>4, <4>1, <4>2 DEF JournalStep
    <3>5. CASE u # w
      <4>1. Journals(u)' = Journals(u)
        BY <3>1, <3>2, <3>3, <3>5 DEF Journals
      <4> QED BY <4>1 DEF JournalStep
    <3> QED BY <3>4, <3>5
  <2> QED BY <2>1, <2>2
<1> QED BY <1>0, <1>3, <1>4, <1>5, <1>6, <1>7, <1>8, InvKept

(* A stage that has completed, other than the last, has one that follows.  *)
LEMMA StagesGoOn ==
    ASSUME NEW w, CheckpointOK(w), RouteOK(w), checkpoint[w].stage # "verify",
           tasks[checkpoint[w].child].state = "completed"
    PROVE  NextStage(checkpoint[w].stage, result[checkpoint[w].child]) \in Stage
<1>1. PICK st, r : st = checkpoint[w].stage /\ r = result[checkpoint[w].child]
  OBVIOUS
<1>2. st \in Stage /\ st # "verify" /\ (st = "gap" => r \in Routes)
  BY <1>1 DEF CheckpointOK, RouteOK, Findings
<1>3. CASE st = "gap"
  <2>1. r = "build" \/ r = "tool" \/ r = "capability"
    BY <1>2, <1>3, RoutesAssumption
  <2> QED BY <1>1, <1>3, <2>1, Followers, StagesListed
<1>4. CASE st \in {"research", "design", "implementation", "test"}
  BY <1>1, <1>4, Followers, StagesListed
<1>5. CASE st \in {"review", "canary", "execute"}
  BY <1>1, <1>5, Followers, StagesListed
<1> QED BY <1>2, <1>3, <1>4, <1>5, StagesListed

LEMMA DecideKept ==
    ASSUME Inv, NEW w \in Workshops, Decide(w)
    PROVE  Inv'
<1> DEFINE c == checkpoint[w].child
           stage == checkpoint[w].stage
           closing == pc' = [at |-> "close", task |-> w] /\ UNCHANGED <<checkpoint, snap>>
           next == pc' = At("idle") /\ snap' = NoSnap
<1>0. /\ SupervisorOK /\ ShapeOK /\ TypeOK /\ TablesOK
      /\ Workshops \subseteq DOMAIN tasks
  BY InvTables, Rows DEF Inv
<1>1. /\ pc = [at |-> "decide", task |-> w] /\ tasks[w].state = "waiting"
      /\ UNCHANGED <<result, proc, children, todo, stops, crashes>>
  BY <1>0 DEF Decide, SupervisorOK
<1>2. CheckpointOK(w) /\ RouteOK(w) /\ c \in DOMAIN tasks /\ c \notin Workshops
  BY <1>0, <1>1 DEF TablesOK, CheckedOut, CheckpointOK
<1>3. CASE /\ tasks' = IF Live(tasks[c]) THEN [tasks EXCEPT ![c] = CancelledRow(@)] ELSE tasks
           /\ closing
  <2>1. (UNCHANGED tasks /\ ~Live(tasks[c])) \/ Flags(c)
    BY <1>0, <1>2, <1>3, CancelEffect
  <2>2. Quiet
    BY <1>1, <1>2, <1>3, <2>1 DEF Quiet, Flagging
  <2>3. TableStep /\ \A u \in Workshops : Journals(u)' = Journals(u)
    BY <1>0, <2>2, QuietSteps
  <2>4. ~Live(tasks'[c]) \/ tasks'[c].cancel
    BY <1>2, <2>1 DEF Flags
  <2>5. ClosingOK'
    BY <1>3, <2>4 DEF ClosingOK
  <2>6. \A q \in DOMAIN tasks : \/ tasks'[q].state = tasks[q].state
                                \/ tasks[q].state = "queued" /\ tasks'[q].state = "cancelled"
    BY <2>1 DEF Flags
  <2> QED BY <1>1, <1>3, <2>3, <2>5, <2>6, DecisionKept
<1>4. CASE tasks[c].state \in {"failed", "cancelled", "needs_review"} /\ closing /\ UNCHANGED tasks
  <2>1. Quiet
    BY <1>1, <1>4 DEF Quiet
  <2>2. TableStep /\ \A u \in Workshops : Journals(u)' = Journals(u)
    BY <1>0, <2>1, QuietSteps
  <2>3. ClosingOK'
    BY <1>4 DEF ClosingOK, Live, Terminal
  <2> QED BY <1>1, <1>4, <2>2, <2>3, DecisionKept
<1>5. CASE /\ UNCHANGED <<tasks, checkpoint>>
           /\ snap' = NoSnap /\ pc' \in {At("idle"), At("stopping")}
  <2>1. Quiet
    BY <1>1, <1>5 DEF Quiet
  <2>2. TableStep /\ \A u \in Workshops : Journals(u)' = Journals(u)
    BY <1>0, <2>1, QuietSteps
  <2> QED BY <1>1, <1>5, <2>2, DecisionKept
<1>6. CASE /\ Finished(c) /\ Len(tasks) < MaxTasks
           /\ tasks' = Append(tasks, Child("journal", w)) /\ closing
  <2>1. Adds(w, "journal", tasks[w].state)
    BY <1>0, <1>6, JournalEffect
  <2>2. Journalling(w)
    BY <1>1, <1>6, <2>1 DEF Journalling
  <2>3. TableStep
    BY <2>2 DEF TableStep
  <2>4. \A q \in DOMAIN tasks : tasks'[q].state = tasks[q].state
    BY <2>1 DEF Adds
  <2>5. ClosingOK'
    BY <1>2, <1>6, <2>4 DEF ClosingOK, Finished, Live, Terminal
  <2> QED BY <1>1, <1>6, <2>2, <2>3, <2>4, <2>5, DecisionKept
<1>7. CASE /\ Finished(c) /\ stage # "verify" /\ MayHandOff(w)
           /\ Handoff(w, NextStage(stage, result[c]), Recorded(checkpoint[w].history, stage, c))
           /\ next
  <2>1. NextStage(stage, result[c]) \in Stage
    BY <1>2, <1>7, StagesGoOn DEF Finished
  <2>2. PICK n : n = NextStage(stage, result[c])
    OBVIOUS
  <2>3. PICK h : h = Recorded(checkpoint[w].history, stage, c)
    OBVIOUS
  <2>4. /\ Adds(w, StageKind(n), "waiting")
        /\ checkpoint' = [checkpoint EXCEPT ![w] = [stage |-> n, child |-> Len(tasks) + 1,
                                                    history |-> h]]
    <3>1. Handoff(w, n, h) /\ n \in Stage
      BY <1>7, <2>1, <2>2, <2>3
    <3> QED BY <1>0, <1>7, <3>1, HandoffEffect
  <2>5. Handing(w, n, h)
    BY <1>1, <2>1, <2>2, <2>4 DEF Handing
  <2>6. Advancing(w)
    BY <1>1, <1>7, <2>2, <2>3, <2>5 DEF Advancing, Finished
  <2>7. TableStep
    BY <2>6 DEF TableStep
  <2>8. \A q \in DOMAIN tasks : tasks'[q].state = tasks[q].state
    BY <1>1, <2>4 DEF Adds
  <2>9. \A u \in Workshops : Journals(u)' = Journals(u)
    <3>1. /\ DOMAIN tasks' = DOMAIN tasks \cup {Len(tasks) + 1}
          /\ tasks'[Len(tasks) + 1].kind # "journal"
      BY <2>4 DEF Adds, StageKind
    <3>2. \A q \in DOMAIN tasks : /\ tasks'[q].kind = tasks[q].kind
                                  /\ tasks'[q].parent = tasks[q].parent
      BY <1>0, <2>7, RowsMove DEF RowMoves
    <3> QED BY <3>1, <3>2 DEF Journals
  <2> QED BY <1>1, <1>7, <2>7, <2>8, <2>9, DecisionKept
<1>8. CASE /\ Finished(c) /\ ~MayHandOff(w) /\ next
           /\ Handoff(w, NextStage(stage, result[c]), Recorded(checkpoint[w].history, stage, c))
  <2>1. UNCHANGED <<tasks, checkpoint>>
    BY <1>8 DEF Handoff
  <2> QED BY <1>5, <1>8, <2>1
<1> QED BY <1>3, <1>4, <1>5, <1>6, <1>7, <1>8 DEF Decide

LEMMA InvInit == Init => Inv
<1> SUFFICES ASSUME Init PROVE Inv
  OBVIOUS
<1> USE DEF Init
<1>0. /\ Workshops \subseteq TaskIds /\ NWorkshops \in Nat /\ NWorkshops <= MaxTasks
      /\ 50 \in Priorities
  BY Sets, WorkshopsAssumption, OwnerPriorityAssumption
<1>1. PICK r : r = NewRow(OwnerRequest, NoGoal, NoTask)
  OBVIOUS
<1>2. /\ r \in Row /\ r.state = "queued" /\ r.kind = "workshop" /\ r.parent = NoTask
      /\ ~r.cancel /\ ~r.resumable
  BY <1>0, <1>1 DEF OwnerRequest, NewRow, Row, States, NoGoal, NoTask, KINDS
<1>3. tasks = [w \in Workshops |-> r]
  BY <1>1
<1>4. tasks \in Seq(Row) /\ Len(tasks) = NWorkshops /\ DOMAIN tasks = Workshops
  <2>1. tasks \in [1..NWorkshops -> Row]
    BY <1>2, <1>3 DEF Workshops
  <2>2. tasks \in Seq(Row)
    BY <1>0, <2>1
  <2>3. DOMAIN tasks = 1..NWorkshops
    BY <2>1
  <2> QED BY <1>0, <2>2, <2>3 DEF Workshops
<1>5. \A t \in DOMAIN tasks : tasks[t] = r
  BY <1>3, <1>4
<1>6. TypeOK
  BY <1>0, <1>4, BoundsAssumption DEF TypeOK, NoCheckpoint, NoHistory, NoSnap, At
<1>7. DOMAIN checkpoint = Workshops
  OBVIOUS
<1>8. ShapeOK
  BY <1>0, <1>2, <1>4, <1>5 DEF ShapeOK
<1>9. ProcessOK
  BY <1>0, <1>4 DEF ProcessOK
<1>10. SupervisorOK
  BY DEF SupervisorOK, At
<1>11. StagesOK /\ \A t \in DOMAIN tasks : ResearchOK(t)
  BY <1>4 DEF StagesOK, IsStage, ResearchOK
<1>12. ClosingOK
  BY DEF ClosingOK, At
<1>13. ASSUME NEW w \in Workshops
       PROVE  (CheckedOut(w) => CheckpointOK(w) /\ RouteOK(w)) /\ FirstStageHeld(w) /\ JournalsOK(w)
  <2>1. tasks[w].state = "queued"
    BY <1>2, <1>4, <1>5
  <2>2. Journals(w) = {}
    BY <1>2, <1>4, <1>5 DEF Journals
  <2>3. JournalsOK(w)
    BY <2>2, FS_EmptySet DEF JournalsOK, Written
  <2> QED BY <2>1, <2>3 DEF CheckedOut, FirstStageHeld
<1> QED BY <1>6, <1>7, <1>8, <1>9, <1>10, <1>11, <1>12, <1>13 DEF Inv

LEMMA InvStays == Inv /\ UNCHANGED vars => Inv'
<1> SUFFICES ASSUME Inv, UNCHANGED vars PROVE Inv'
  OBVIOUS
<1>1. Outside
  BY InvControl DEF vars, Outside, Quiet, ControlTypes
<1> QED BY <1>1, OutsideKept

LEMMA InvNext == Inv /\ Next => Inv'
<1> SUFFICES ASSUME Inv, Next PROVE Inv'
  OBVIOUS
<1>1. ASSUME NEW t \in DOMAIN tasks, WorkerStep(t) PROVE Inv'
  BY <1>1, BeginOutside, EndStageOutside, RaiseOutside, DieOutside, OutsideKept DEF WorkerStep
<1>2. ASSUME NEW t \in DOMAIN tasks, CancelTask(t) \/ ListChildren(t) PROVE Inv'
  BY <1>2, OwnerOutside, OutsideKept
<1>3. ASSUME NEW w \in Workshops, StartWorkshop(w) PROVE Inv'
  BY <1>3, StartWorkshopOutside, OutsideKept
<1>4. ASSUME Round PROVE Inv'
  BY <1>4, ObserveKept, ReapedKept, LaunchKept, ConsiderKept, DecideKept, CloseKept, ClaimKept
     DEF Round
<1>5. ASSUME Lifecycle PROVE Inv'
  BY <1>5, LifecycleKept, ReapedKept, RecoverKept DEF Lifecycle
<1> QED BY <1>1, <1>2, <1>3, <1>4, <1>5 DEF Next

(* The invariant of the workshop under its supervisor.                     *)
LEMMA Invariant == Spec => []Inv
<1>1. Inv /\ [Next]_vars => Inv'
  BY InvStays, InvNext
<1> QED BY <1>1, InvInit, PTL DEF Spec

----------------------------------------------------------------------------
(* What the runs check.                                                    *)

(* Tasks, results, checkpoints, processes and what the supervisor is at    *)
(* keep their types, in the table's bounds.                                *)
THEOREM WorkshopTypeCorrect == Spec => []TypeOK
<1>1. Inv => TypeOK
  BY DEF Inv
<1> QED BY <1>1, Invariant, PTL

(* The checkpoint written by handoff is the truth about a workshop that    *)
(* waits, across crashes and restarts.                                     *)
THEOREM CheckpointIsTrue == Spec => []CheckpointHolds
<1>1. ASSUME Inv, NEW w \in Workshops, tasks[w].state = "waiting"
      PROVE  CheckpointOK(w)
  BY <1>1 DEF Inv, CheckedOut
<1>2. Inv => CheckpointHolds
  BY <1>1 DEF CheckpointHolds, CheckpointOK
<1> QED BY <1>2, Invariant, PTL

(* The stages of a workshop are never at work together.                    *)
THEOREM StagesTakeTurns == Spec => []OneStageAtATime
<1>1. ASSUME Inv, NEW t \in DOMAIN tasks, IsStage(t), Live(tasks[t]) \/ proc[t] = "run"
      PROVE  t = checkpoint[tasks[t].parent].child
  <2>1. t \in TaskIds
    BY <1>1, Rows DEF Inv
  <2>2. Live(tasks[t])
    BY <1>1, <2>1 DEF Inv, ProcessOK, Live, Terminal
  <2> QED BY <1>1, <2>2 DEF Inv, StagesOK
<1>2. Inv => OneStageAtATime
  BY <1>1 DEF OneStageAtATime
<1> QED BY <1>2, Invariant, PTL

(* A record of distinct tasks has as many tasks as entries.                *)
LEMMA DistinctValues ==
    ASSUME NEW f, IsFiniteSet(DOMAIN f), \A x, y \in DOMAIN f : f[x] = f[y] => x = y
    PROVE  Cardinality({f[x] : x \in DOMAIN f}) = Cardinality(DOMAIN f)
<1> DEFINE D == DOMAIN f
           T == {f[x] : x \in D}
           g == [x \in D |-> f[x]]
<1>1. g \in Bijection(D, T)
  <2>1. g \in [D -> T] /\ \A x, y \in D : g[x] = g[y] => x = y
    OBVIOUS
  <2>2. \A v \in T : \E x \in D : g[x] = v
    OBVIOUS
  <2> QED BY <2>1, <2>2 DEF Bijection, Injection, Surjection, IsInjective
<1>2. ExistsBijection(D, T)
  BY <1>1 DEF ExistsBijection
<1>3. IsFiniteSet(D)
  OBVIOUS
<1> HIDE DEF T, D
<1>4. Cardinality(T) = Cardinality(D)
  BY <1>2, <1>3, FS_Bijection
<1> QED BY <1>4 DEF T, D

(* Every route ends with the verification.                                 *)
LEMMA Paths ==
    ASSUME NEW found \in {"build", "tool", "capability"}
    PROVE  /\ "verify" \in Path(found) /\ Path(found) \subseteq Stage
           /\ Before("verify", found) \cup {"verify"} = Path(found)
<1>1. "verify" \in Path(found) /\ Path(found) \subseteq Stage
  <2>1. CASE found = "capability"
    BY <2>1, StagesListed DEF Path
  <2>2. CASE found = "tool"
    BY <2>2, StagesListed DEF Path
  <2>3. CASE found = "build"
    BY <2>3, StagesListed DEF Path
  <2> QED BY <2>1, <2>2, <2>3
<1>2. \A s \in Stage : Position[s] < Position["verify"] <=> s # "verify"
  <2>1. /\ Position["gap"] = 1 /\ Position["research"] = 2 /\ Position["design"] = 3
        /\ Position["implementation"] = 4 /\ Position["test"] = 5 /\ Position["review"] = 6
        /\ Position["canary"] = 7 /\ Position["execute"] = 8 /\ Position["verify"] = 9
    BY DEF Position
  <2> QED BY <2>1, StagesListed
<1> QED BY <1>1, <1>2 DEF Before

(* A workshop is completed only when each stage of its route was, by a     *)
(* task of its own, and the verification was positive.                     *)
THEOREM WorkshopsCompleteOnEvidence == Spec => []CompletedOnEvidence
<1>1. ASSUME Inv, NEW w \in Workshops, tasks[w].state = "completed"
      PROVE  LET cp == checkpoint[w]
             IN  /\ cp.stage = "verify" /\ result[cp.child] = "verified"
                 /\ tasks[cp.child].state = "completed"
                 /\ DOMAIN cp.history \cup {"verify"} = Path(result[cp.history["gap"]])
                 /\ Cardinality({cp.history[s] : s \in DOMAIN cp.history})
                       = Cardinality(DOMAIN cp.history)
  <2> DEFINE cp == checkpoint[w]
  <2>1. RouteOK(w)
    BY <1>1 DEF Inv, CheckedOut
  <2>2. /\ cp.stage = "verify" /\ result[cp.child] = "verified"
        /\ tasks[cp.child].state = "completed"
    BY <1>1, <2>1 DEF RouteOK
  <2>3. PICK found : found = result[cp.history["gap"]]
    OBVIOUS
  <2>4. found \in Routes /\ DOMAIN cp.history = Before("verify", found)
    BY <2>1, <2>2, <2>3 DEF RouteOK
  <2>5. found \in {"build", "tool", "capability"}
    BY <2>4, RoutesAssumption
  <2>6. Before("verify", found) \cup {"verify"} = Path(found)
    BY <2>5, Paths
  <2>7. DOMAIN cp.history \subseteq Stage
    <3>1. Path(found) \subseteq Stage
      BY <2>5, Paths
    <3> QED BY <2>4, <3>1 DEF Before
  <2>8. IsFiniteSet(DOMAIN cp.history)
    <3>1. IsFiniteSet(Stage)
      <4>1. DOMAIN STAGES = 1..9 /\ STAGES \in [1..9 -> Stage]
        BY DEF Stage, STAGES
      <4>2. \A s \in Stage : \E i \in 1..9 : STAGES[i] = s
        BY <4>1 DEF Stage
      <4>3. STAGES \in Surjection(1..9, Stage)
        BY <4>1, <4>2 DEF Surjection
      <4>4. IsFiniteSet(1..9)
        <5>1. 1 \in Int /\ 9 \in Int
          OBVIOUS
        <5> QED BY ONLY <5>1, FS_Interval
      <4> QED BY <4>3, <4>4, FS_Surjection
    <3> QED BY <2>7, <3>1, FS_Subset
  <2>9. \A s, u \in DOMAIN cp.history : cp.history[s] = cp.history[u] => s = u
    BY <2>1 DEF RouteOK
  <2> QED BY <2>2, <2>3, <2>4, <2>6, <2>8, <2>9, DistinctValues
<1>2. Inv => CompletedOnEvidence
  BY <1>1 DEF CompletedOnEvidence
<1> QED BY <1>2, Invariant, PTL

(* The journal of a workshop is written once, or once more for every crash *)
(* between the enqueue and the transition that belongs with it.            *)
THEOREM JournalOnce == Spec => []JournalOncePerCrash
<1>1. ASSUME Inv, NEW w \in Workshops
      PROVE  Cardinality(Journals(w)) <= 1 + crashes
  <2>1. /\ Cardinality(Journals(w)) \in Nat /\ crashes \in Nat /\ Written(w) \in {0, 1}
        /\ Cardinality(Journals(w)) <= crashes + Written(w)
    BY <1>1, JournalsCounted, BoundsAssumption DEF Inv, TypeOK, JournalsOK, Written
  <2> QED BY <2>1
<1>2. Inv => JournalOncePerCrash
  BY <1>1 DEF JournalOncePerCrash, Journals
<1> QED BY <1>2, Invariant, PTL

(* No stage is queued for a cancelled workshop, from no snapshot.          *)
THEOREM CancelEndsTheStages == Spec => NoStageAfterCancel
<1> DEFINE A == \A t \in DOMAIN tasks' \ DOMAIN tasks : ~tasks[tasks'[t].parent].cancel
<1>1. ASSUME NEW w, ~tasks[w].cancel, NEW kind, NEW s, Adds(w, kind, s)
      PROVE  A
  BY <1>1 DEF Adds
<1>2. ASSUME DOMAIN tasks' = DOMAIN tasks
      PROVE  A
  BY <1>2
<1>3. ASSUME NEW t, tasks' = AfterInterrupted(t)
      PROVE  A
  BY <1>2, <1>3 DEF AfterInterrupted
<1>4. ASSUME Inv, NEW w \in Workshops, NEW stage, NEW history, Handoff(w, stage, history),
             MayHandOff(w) => stage \in Stage
      PROVE  A
  <2>1. CASE MayHandOff(w)
    <3>1. Adds(w, StageKind(stage), "waiting")
      BY <1>4, <2>1, HandoffEffect, InvTables, Rows DEF Inv
    <3> QED BY <1>1, <2>1, <3>1 DEF MayHandOff
  <2>2. CASE ~MayHandOff(w)
    BY <1>2, <1>4, <2>2 DEF Handoff
  <2> QED BY <2>1, <2>2
<1>5. ASSUME NEW t, WorkerStep(t) \/ CancelTask(t) \/ ListChildren(t)
      PROVE  A
  <2>1. CASE Begin(t) \/ Raise(t) \/ Die(t) \/ ListChildren(t)
    BY <1>2, <1>3, <2>1 DEF Begin, Raise, Die, ListChildren
  <2>2. CASE EndStage(t) \/ CancelTask(t)
    BY <1>2, <2>2 DEF EndStage, CancelTask
  <2> QED BY <1>5, <2>1, <2>2 DEF WorkerStep
<1>6. ASSUME Inv, NEW w \in Workshops, StartWorkshop(w)
      PROVE  A
  BY <1>4, <1>6, StagesListed DEF StartWorkshop
<1>7. ASSUME NEW t, Observe(t) \/ Reap(t) \/ Launch(t)
      PROVE  A
  BY <1>2, <1>3, <1>7 DEF Observe, Reap, Launch
<1>8. ASSUME NEW w, Consider(w) \/ CloseWorkshop(w)
      PROVE  A
  BY <1>2, <1>8 DEF Consider, CloseWorkshop
<1>9. ASSUME NEW lane, Claim(lane)
      PROVE  A
  BY <1>2, <1>9 DEF Claim
<1>10. ASSUME NEW t, Stop \/ Stopped \/ Crash \/ Start \/ Recovered \/ StopChild(t) \/ Recover(t)
       PROVE  A
  BY <1>2, <1>3, <1>10 DEF Stop, Stopped, Crash, Start, Recovered, StopChild, Recover
<1>11. ASSUME Inv, NEW w \in Workshops, Decide(w)
       PROVE  A
  <2> DEFINE c == checkpoint[w].child
             stage == checkpoint[w].stage
  <2>1. \/ UNCHANGED tasks
        \/ tasks' = [tasks EXCEPT ![c] = CancelledRow(@)]
        \/ /\ ~ClosedParent(tasks, w) /\ Len(tasks) < MaxTasks
           /\ tasks' = Append(tasks, Child("journal", w))
        \/ /\ Finished(c) /\ stage # "verify"
           /\ Handoff(w, NextStage(stage, result[c]), Recorded(checkpoint[w].history, stage, c))
    BY <1>11 DEF Decide
  <2>2. CASE UNCHANGED tasks \/ tasks' = [tasks EXCEPT ![c] = CancelledRow(@)]
    BY <1>2, <2>2
  <2>3. CASE /\ ~ClosedParent(tasks, w) /\ Len(tasks) < MaxTasks
             /\ tasks' = Append(tasks, Child("journal", w))
    <3>1. w \in DOMAIN tasks /\ TypeOK
      BY <1>11, Rows DEF Inv
    <3>2. Adds(w, "journal", tasks[w].state)
      BY <2>3, <3>1, JournalEffect
    <3> QED BY <1>1, <2>3, <3>2 DEF ClosedParent
  <2>4. CASE /\ Finished(c) /\ stage # "verify"
             /\ Handoff(w, NextStage(stage, result[c]), Recorded(checkpoint[w].history, stage, c))
    <3>1. CheckpointOK(w) /\ RouteOK(w)
      BY <1>11 DEF Decide, Inv, SupervisorOK, CheckedOut
    <3>2. NextStage(stage, result[c]) \in Stage
      BY <2>4, <3>1, StagesGoOn DEF Finished
    <3> QED BY <1>4, <1>11, <2>4, <3>2
  <2> QED BY <2>1, <2>2, <2>3, <2>4
<1>12. Inv /\ Next => A
  BY <1>5, <1>6, <1>7, <1>8, <1>9, <1>10, <1>11 DEF Next, Round, Lifecycle
<1>13. Inv /\ [Next]_vars => [A]_vars
  BY <1>12
<1> QED BY <1>13, Invariant, PTL DEF Spec, NoStageAfterCancel

(* No stage begins to work for a workshop that has ended.                  *)
THEOREM EndEndsTheStages == Spec => NoStageOfEndedWorkshop
<1> DEFINE A == \A t \in DOMAIN tasks :
                   IsStage(t) /\ proc[t] = "start" /\ proc'[t] = "run" => Live(tasks[tasks[t].parent])
<1>1. ASSUME Inv
      PROVE  proc \in [TaskIds -> Procs] /\ DOMAIN tasks \subseteq TaskIds
  BY <1>1, InvControl, Rows DEF Inv, ControlTypes
<1>2. ASSUME Inv, NEW t \in DOMAIN tasks, ~tasks[t].cancel, MayStart(t), IsStage(t),
             tasks[t].state = "running"
      PROVE  Live(tasks[tasks[t].parent])
  <2>1. CASE tasks[t].kind = "workshop_stage"
    BY <1>2, <2>1 DEF MayStart, Live, Terminal
  <2>2. CASE tasks[t].kind = "research"
    <3>1. Live(tasks[t]) /\ ResearchOK(t)
      BY <1>2 DEF Inv, Live, Terminal
    <3> QED BY <1>2, <2>2, <3>1 DEF ResearchOK, IsStage, Live, Terminal
  <2> QED BY <1>2, <2>1, <2>2 DEF IsStage
<1>3. ASSUME Inv, NEW t \in DOMAIN tasks, Begin(t)
      PROVE  A
  <2>1. tasks[t].state = "running"
    BY <1>1, <1>3 DEF Begin, Inv, ProcessOK
  <2>2. ASSUME NEW q \in DOMAIN tasks, proc[q] = "start", proc'[q] = "run"
        PROVE  q = t /\ ~tasks[t].cancel /\ MayStart(t)
    BY <1>1, <1>3, <2>2 DEF Begin
  <2> QED BY <1>2, <1>3, <2>1, <2>2
<1>4. ASSUME Inv, UNCHANGED proc \/ \E t \in TaskIds : \/ proc' = [proc EXCEPT ![t] = "gone"]
                                                        \/ proc' = [proc EXCEPT ![t] = "start"]
      PROVE  A
  BY <1>1, <1>4
<1>5. ASSUME Inv, NEW t \in DOMAIN tasks, WorkerStep(t) \/ CancelTask(t) \/ ListChildren(t)
      PROVE  A
  <2>1. CASE EndStage(t) \/ Raise(t) \/ Die(t)
    <3>1. proc' = [proc EXCEPT ![t] = "gone"]
      BY <2>1 DEF EndStage, Raise, Die
    <3> QED BY <1>1, <1>4, <1>5, <3>1
  <2>2. CASE CancelTask(t) \/ ListChildren(t)
    <3>1. UNCHANGED proc
      BY <2>2 DEF CancelTask, ListChildren
    <3> QED BY <1>4, <1>5, <3>1
  <2> QED BY <1>3, <1>5, <2>1, <2>2 DEF WorkerStep
<1>6. ASSUME Inv, NEW w \in Workshops, StartWorkshop(w)
      PROVE  A
  BY <1>4, <1>6, Sets DEF StartWorkshop
<1>7. ASSUME Inv, NEW t \in DOMAIN tasks,
             Observe(t) \/ Reap(t) \/ Launch(t) \/ StopChild(t) \/ Recover(t)
      PROVE  A
  BY <1>1, <1>4, <1>7 DEF Observe, Reap, Launch, StopChild, Recover
<1>8. ASSUME Inv, NEW w, Consider(w) \/ Decide(w) \/ CloseWorkshop(w)
      PROVE  A
  <2>1. Consider(w) \/ CloseWorkshop(w) => UNCHANGED proc
    BY DEF Consider, CloseWorkshop
  <2>2. Decide(w) => UNCHANGED proc
    BY Zenon DEF Decide
  <2> QED BY <1>4, <1>8, <2>1, <2>2
<1>9. ASSUME Inv, NEW lane, Claim(lane)
      PROVE  A
  BY <1>4, <1>9 DEF Claim
<1>10. ASSUME Inv, Stop \/ Stopped \/ Crash \/ Recovered
       PROVE  A
  BY <1>4, <1>10 DEF Stop, Stopped, Crash, Recovered
<1>11. ASSUME Inv, Start
       PROVE  A
  BY <1>1, <1>11 DEF Start
<1>12. Inv /\ Next => A
  BY <1>3, <1>5, <1>6, <1>7, <1>8, <1>9, <1>10, <1>11 DEF Next, Round, Lifecycle
<1>13. Inv /\ [Next]_vars => [A]_vars
  BY <1>12
<1> QED BY <1>13, Invariant, PTL DEF Spec, NoStageOfEndedWorkshop
=============================================================================
