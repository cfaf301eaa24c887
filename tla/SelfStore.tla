------------------------------ MODULE SelfStore ------------------------------
(***************************************************************************)
(* Lilith's persistent self (src/lilith/database.py, self_state.py): one   *)
(* identity key, one affect variable, one interest, one memory and one     *)
(* belief, read and written by the owner's terminals and by the workers    *)
(* that reply, reflect and reinforce.  A lane runs one worker process      *)
(* after the other, one per task.  Every write commits on its own; some    *)
(* are decided by an earlier read outside the write's transaction.  Every  *)
(* action is one such read or one write with its commit, or the end of a   *)
(* process.                                                                *)
(***************************************************************************)
EXTENDS Integers, Sequences

CONSTANTS WorkerLanes,        \* the lanes whose workers use the store
          Terminals,    \* the owner's terminals, which outlive an error
          Work,         \* what each does: a sequence of tasks or commands
          Top,          \* affect and fascination lie in 0..Top
          Default       \* the default of the affect variable and the first fascination

Processes == WorkerLanes \cup Terminals

(* One access: "identity" ensures the key, "default" the affect variable;  *)
(* "memory" and "belief" are items of a reflection, "remember" the owner's.*)
Access == [do : {"identity", "default", "affect", "set", "interest", "memory", "belief", "remember"},
           by : -Top..Top]

ASSUME StoreAssumption == Top \in Nat /\ Default \in 0..Top /\ WorkerLanes \cap Terminals = {}
ASSUME WorkAssumption == Work \in [Processes -> Seq(Seq(Access) \ {<<>>})]

(* What each process does: the accesses of one task or command, one after  *)
(* the other.  A reflection's lists are the model's items that are valid.  *)
Do(what, by) == [do |-> what, by |-> by]

Bootstrap == <<Do("identity", 0), Do("default", Default)>>
Interaction(by) == <<Do("affect", by)>>
Reply(by) == Bootstrap \o Interaction(by)

Memories(n) == [i \in 1..n |-> Do("memory", 0)]
Beliefs(n) == [i \in 1..n |-> Do("belief", 0)]
Interests(deltas) == [i \in DOMAIN deltas |-> Do("interest", deltas[i])]
Affects(deltas) == [i \in DOMAIN deltas |-> Do("affect", deltas[i])]
Reflection(memories, beliefs, interests, affects) ==
    Bootstrap \o Memories(memories) \o Beliefs(beliefs) \o Interests(interests) \o Affects(affects)

Reinforcement(by) == <<Do("interest", by)>>

Remember == <<Do("remember", 0)>>
Strengthen(by) == Bootstrap \o <<Do("interest", by)>>
Override(value) == Bootstrap \o <<Do("set", value)>>

VARIABLES
    store,      \* the rows: a value, or Absent
    lock,       \* the connection that holds SQLite's write lock between actions
    todo,       \* the tasks or commands left to each process, the first under way
    seen,       \* what each process has read for its next write
    failing,    \* processes whose insert collided, the transaction still open
    ideal,      \* history: the value that every committed update adds up to
    stale       \* history: rows overwritten on the strength of an outdated read

selfVars == <<store, lock, todo, seen, failing, ideal, stale>>

Absent == -1
NotRead == -2
NoOne == "no one"

Rows == {"identity", "affect", "interest", "memory", "belief"}

RowOf == [identity |-> "identity", default |-> "affect", affect |-> "affect", set |-> "affect",
          interest |-> "interest", memory |-> "memory", remember |-> "memory", belief |-> "belief"]

SelfTypeOK ==
    /\ store \in [Rows -> {Absent} \cup 0..Top]
    /\ lock \in {NoOne} \cup Processes
    /\ todo \in [Processes -> Seq(Seq(Access) \ {<<>>})]
    /\ seen \in [Processes -> {NotRead, Absent} \cup 0..Top]
    /\ failing \in SUBSET Processes
    /\ ideal \in [{"affect", "interest"} -> {Absent} \cup 0..Top]
    /\ stale \in SUBSET {"affect", "interest"}

SelfInit ==
    /\ store = [r \in Rows |-> Absent]
    /\ lock = NoOne
    /\ todo = Work
    /\ seen = [p \in Processes |-> NotRead]
    /\ failing = {}
    /\ ideal = [r \in {"affect", "interest"} |-> Absent]
    /\ stale = {}

----------------------------------------------------------------------------

Clamp(v) == IF v < 0 THEN 0 ELSE IF v > Top THEN Top ELSE v

Busy(p) == todo[p] # <<>> /\ ~(p \in failing /\ p \in WorkerLanes)
NextAccess(p) == Head(Head(todo[p]))

(* The rest of a process's work after its next access, and after an error  *)
(* that ends its task or command.                                          *)
Advanced(p) ==
    LET first == Head(todo[p]) IN
    [todo EXCEPT ![p] = IF Len(first) = 1 THEN Tail(@) ELSE <<Tail(first)>> \o Tail(@)]
Abandoned(p) == [todo EXCEPT ![p] = Tail(@)]

(* The accesses that read first.                                           *)
ReadsFirst(a) == a.do \in {"identity", "default", "interest", "memory", "belief"}

(* A row that is already there leaves nothing to do, but to an interest.   *)
Satisfied(a, now) == now # Absent /\ a.do # "interest"

Read(p) ==
    LET a == NextAccess(p) now == store[RowOf[a.do]] IN
    /\ Busy(p) /\ ReadsFirst(a) /\ seen[p] = NotRead
    /\ IF Satisfied(a, now)
       THEN todo' = Advanced(p) /\ UNCHANGED seen
       ELSE seen' = [seen EXCEPT ![p] = now] /\ UNCHANGED todo
    /\ UNCHANGED <<store, lock, failing, ideal, stale>>

(* adjust_affect and adjust_interest: a change, from the default when new. *)
Changed(v, by) == Clamp((IF v = Absent THEN Default ELSE v) + by)

AdjustInterest(base, by) == Changed(base, by)
AdjustAffect(now, by) == Changed(now, by)
SetAffect(value) == Clamp(value)

(* One more row, counted up to the bound Top.                              *)
OneMore(now) == Clamp(IF now = Absent THEN 1 ELSE now + 1)
EnsureIdentity(now) == OneMore(now)
SaveMemory(now) == OneMore(now)
AddSelfBelief(now) == OneMore(now)

(* Mutant: the conflict clause takes the excluded value, as set_affect's.  *)
Written_Excluded(a, base, now) ==
    CASE a.do = "interest"               -> AdjustInterest(base, a.by)
      [] a.do = "affect"                 -> AdjustAffect(Absent, a.by)
      [] a.do \in {"set", "default"}     -> SetAffect(a.by)
      [] a.do = "identity"               -> EnsureIdentity(now)
      [] a.do \in {"memory", "remember"} -> SaveMemory(now)
      [] a.do = "belief"                 -> AddSelfBelief(now)

(* The row after the write: an interest is computed from what was read, an *)
(* affect by the statement itself.                                         *)
Written(a, base, now) ==
    CASE a.do = "interest"               -> AdjustInterest(base, a.by)
      [] a.do = "affect"                 -> AdjustAffect(now, a.by)
      [] a.do \in {"set", "default"}     -> SetAffect(a.by)
      [] a.do = "identity"               -> EnsureIdentity(now)
      [] a.do \in {"memory", "remember"} -> SaveMemory(now)
      [] a.do = "belief"                 -> AddSelfBelief(now)

(* What the update means, whatever was read.                               *)
Meant(a, v) ==
    CASE a.do \in {"interest", "affect"}       -> Changed(v, a.by)
      [] a.do = "default" /\ v # Absent        -> v
      [] OTHER                                 -> Clamp(a.by)

(* A plain INSERT of a key that another process has inserted since.        *)
Collides(p) ==
    LET a == NextAccess(p) IN
    a.do \in {"identity", "interest"} /\ seen[p] = Absent /\ store[RowOf[a.do]] # Absent

Ready(p) == Busy(p) /\ (ReadsFirst(NextAccess(p)) => seen[p] # NotRead)

(* commit: whatever the connection had open is over, the lock free.        *)
Write(p) ==
    LET a == NextAccess(p) row == RowOf[a.do] now == store[row] IN
    /\ Ready(p) /\ lock \in {NoOne, p} /\ ~Collides(p)
    /\ store' = [store EXCEPT ![row] = Written(a, seen[p], now)]
    /\ IF row \in DOMAIN ideal
       THEN /\ ideal' = [ideal EXCEPT ![row] = Meant(a, @)]
            /\ stale' = CASE ReadsFirst(a) /\ seen[p] # now -> stale \cup {row}
                          [] a.do = "set" -> stale \ {row}
                          [] OTHER -> stale
       ELSE UNCHANGED <<ideal, stale>>
    /\ lock' = NoOne
    /\ failing' = failing \ {p}
    /\ seen' = [seen EXCEPT ![p] = NotRead]
    /\ todo' = Advanced(p)

(* The IntegrityError leaves the connection inside the transaction that    *)
(* the INSERT had opened; a worker has still to exit.                      *)
Collide(p) ==
    /\ Ready(p) /\ lock \in {NoOne, p} /\ Collides(p)
    /\ lock' = p
    /\ failing' = failing \cup {p}
    /\ seen' = [seen EXCEPT ![p] = NotRead]
    /\ todo' = IF p \in Terminals THEN Abandoned(p) ELSE todo
    /\ UNCHANGED <<store, ideal, stale>>

(* The lock is not given up within the busy timeout: an error, and of a    *)
(* worker the end.                                                         *)
TimeOut(p) ==
    /\ Ready(p) /\ lock \notin {NoOne, p}
    /\ seen' = [seen EXCEPT ![p] = NotRead]
    /\ todo' = Abandoned(p)
    /\ UNCHANGED <<store, lock, failing, ideal, stale>>

(* A worker's process ends: it failed, or it is killed.                    *)
Exit(p) ==
    /\ p \in WorkerLanes /\ todo[p] # <<>>
    /\ lock' = IF lock = p THEN NoOne ELSE lock
    /\ failing' = failing \ {p}
    /\ seen' = [seen EXCEPT ![p] = NotRead]
    /\ todo' = Abandoned(p)
    /\ UNCHANGED <<store, ideal, stale>>

Step(p) == Read(p) \/ Write(p) \/ Collide(p) \/ TimeOut(p) \/ Exit(p)

SelfNext == \E p \in Processes : Step(p)

SelfSpec == SelfInit /\ [][SelfNext]_selfVars

----------------------------------------------------------------------------

(* Nothing the self is told is lost or doubled unless two processes really *)
(* overlapped between a read and the write it decided: affect and interest *)
(* are what the committed updates add up to, in the order of their commits.*)
UpdatesSurvive == \A r \in DOMAIN ideal : store[r] = ideal[r] \/ r \in stale

=============================================================================
