--------------------------- MODULE WorkersProofs ---------------------------
(***************************************************************************)
(* Proofs about what a worker shares with other processes or does beside   *)
(* its task: what Lilith is told survives (SelfStore), the schema of her   *)
(* database is brought up to date once (Migrations), a generated tool runs *)
(* on evidence (ToolRegistry), and a log is bounded (WorkerLog); for any   *)
(* processes, work, calls, faults and sizes.                               *)
(***************************************************************************)
EXTENDS MCWorkers, ResearchProofs, ExecutiveProofs, SequenceTheorems, TLAPS


----------------------------------------------------------------------------
(* The persistent self.                                                    *)

Job == Seq(Access) \ {<<>>}

(* The work left after an access, and after an abandoned task.             *)
LEMMA WorkLeft ==
    ASSUME SelfTypeOK, NEW p \in Processes, todo[p] # <<>>
    PROVE  /\ Abandoned(p) \in [Processes -> Seq(Job)] /\ Advanced(p) \in [Processes -> Seq(Job)]
           /\ NextAccess(p) \in Access
<1>1. todo \in [Processes -> Seq(Job)] /\ todo[p] \in Seq(Job)
  BY DEF SelfTypeOK, Job
<1>2. Tail(todo[p]) \in Seq(Job) /\ Head(todo[p]) \in Job
  BY <1>1
<1> DEFINE first == Head(todo[p])
<1>3. first \in Seq(Access) /\ Len(first) \in Nat \ {0}
  BY <1>2 DEF Job
<1>4. Head(first) \in Access /\ Tail(first) \in Seq(Access)
  BY <1>3
<1>5. ASSUME Len(first) # 1 PROVE Tail(first) \in Job
  <2> HIDE DEF first
  <2>1. first # <<>>
    BY <1>3, EmptySeq
  <2>2. Len(Tail(first)) = Len(first) - 1
    BY <1>3, <2>1, HeadTailProperties
  <2>3. Len(Tail(first)) # 0
    BY <1>3, <1>5, <2>2
  <2>4. Tail(first) # <<>>
    BY <2>3, EmptySeq
  <2> QED BY <1>4, <2>4 DEF Job
<1>6. Len(first) # 1 => <<Tail(first)>> \o Tail(todo[p]) \in Seq(Job)
  BY <1>2, <1>5
<1> QED BY <1>1, <1>2, <1>4, <1>6 DEF Abandoned, Advanced, NextAccess

LEMMA ClampBounds ==
    ASSUME NEW v \in Int
    PROVE  Clamp(v) \in 0..Top
BY StoreAssumption DEF Clamp

LEMMA WrittenBounds ==
    ASSUME NEW a \in Access, NEW base \in {Absent} \cup 0..Top, NEW now \in {Absent} \cup 0..Top
    PROVE  Written(a, base, now) \in 0..Top /\ Meant(a, now) \in {Absent} \cup 0..Top
<1>1. base \in Int /\ now \in Int /\ a.by \in Int /\ Default \in Int
  BY StoreAssumption DEF Absent, Access
<1>2. Changed(base, a.by) \in 0..Top /\ Changed(now, a.by) \in 0..Top
  BY <1>1, ClampBounds DEF Changed
<1>3. OneMore(now) \in 0..Top /\ Clamp(a.by) \in 0..Top
  BY <1>1, ClampBounds DEF OneMore
<1>4. a.do \in {"identity", "default", "affect", "set", "interest", "memory", "belief", "remember"}
  BY DEF Access
<1> QED BY <1>2, <1>3, <1>4 DEF Written, Meant, AdjustInterest, AdjustAffect, SetAffect,
        EnsureIdentity, SaveMemory, AddSelfBelief

(* What a process has read is for the next access of its work: an access   *)
(* that reads first and found, unless it is an interest's, nothing there.  *)
SeenOK ==
    \A p \in Processes : seen[p] # NotRead =>
        /\ todo[p] # <<>> /\ ReadsFirst(NextAccess(p))
        /\ NextAccess(p).do # "interest" => seen[p] = Absent

LEMMA SeenStep ==
    ASSUME SelfTypeOK, SeenOK, NEW p \in Processes, Step(p)
    PROVE  SeenOK'
<1>0. seen \in [Processes -> {NotRead, Absent} \cup 0..Top] /\ DOMAIN todo = Processes
  BY DEF SelfTypeOK
<1>1. ASSUME NEW q \in Processes \ {p}
      PROVE  todo'[q] = todo[q] /\ seen'[q] = seen[q]
  BY <1>0, <1>1 DEF Step, Read, Write, Collide, TimeOut, Exit, Advanced, Abandoned
<1>2. CASE seen'[p] = NotRead
  BY <1>1, <1>2 DEF SeenOK, NextAccess
<1>3. CASE seen'[p] # NotRead
  <2>1. Read(p) /\ seen[p] = NotRead
    BY <1>0, <1>3 DEF Step, Read, Write, Collide, TimeOut, Exit
  <2>2. /\ Busy(p) /\ ReadsFirst(NextAccess(p)) /\ todo' = todo
        /\ ~Satisfied(NextAccess(p), store[RowOf[NextAccess(p).do]])
        /\ seen'[p] = store[RowOf[NextAccess(p).do]]
    BY <1>0, <1>3, <2>1 DEF Read
  <2> QED BY <1>1, <2>2 DEF SeenOK, NextAccess, Satisfied, Busy
<1> QED BY <1>2, <1>3

LEMMA ReadyAccess ==
    ASSUME SelfTypeOK, NEW p \in Processes, Ready(p)
    PROVE  /\ todo[p] # <<>> /\ NextAccess(p) \in Access
           /\ RowOf[NextAccess(p).do] \in Rows
           /\ RowOf[NextAccess(p).do] \in DOMAIN ideal => 
                 NextAccess(p).do \in {"default", "affect", "set", "interest"}
<1>1. todo[p] # <<>> /\ NextAccess(p) \in Access
  BY WorkLeft DEF Ready, Busy
<1>2. NextAccess(p).do \in
          {"identity", "default", "affect", "set", "interest", "memory", "belief", "remember"}
  BY <1>1 DEF Access
<1>3. DOMAIN ideal = {"affect", "interest"}
  BY DEF SelfTypeOK
<1> QED BY <1>1, <1>2, <1>3 DEF RowOf, Rows

LEMMA WriteTyped ==
    ASSUME SelfTypeOK, NEW p \in Processes, Write(p)
    PROVE  SelfTypeOK'
<1> DEFINE a == NextAccess(p)
           cell == RowOf[a.do]
           now == store[cell]
<1>1. /\ todo[p] # <<>> /\ a \in Access /\ cell \in Rows
      /\ cell \in DOMAIN ideal => a.do \in {"default", "affect", "set", "interest"}
  BY ReadyAccess DEF Write
<1>2. now \in {Absent} \cup 0..Top /\ seen[p] \in {Absent} \cup 0..Top \cup {NotRead}
  BY <1>1 DEF SelfTypeOK
<1>3. Written(a, seen[p], now) \in 0..Top
  <2> HIDE DEF a
  <2>1. CASE seen[p] \in {Absent} \cup 0..Top
    BY <1>1, <1>2, <2>1, WrittenBounds
  <2>2. CASE seen[p] = NotRead
    <3>1. a.do # "interest"
      BY <2>2 DEF Write, Ready, ReadsFirst, a
    <3>2. Written(a, seen[p], now) = Written(a, Absent, now)
      BY <1>1, <3>1 DEF Written, Access
    <3> QED BY <1>1, <1>2, <3>2, WrittenBounds
  <2> QED BY <1>2, <2>1, <2>2
<1>4. cell \in DOMAIN ideal => Meant(a, ideal[cell]) \in {Absent} \cup 0..Top
  BY <1>1, WrittenBounds DEF SelfTypeOK
<1>5. store' \in [Rows -> {Absent} \cup 0..Top]
  BY <1>3 DEF Write, SelfTypeOK
<1>6. /\ ideal' \in [{"affect", "interest"} -> {Absent} \cup 0..Top]
      /\ stale' \in SUBSET {"affect", "interest"}
  <2>1. CASE cell \in DOMAIN ideal
    <3>1. ideal' = [ideal EXCEPT ![cell] = Meant(a, @)]
      BY <2>1 DEF Write
    <3>2. \/ stale' = stale \cup {cell}
          \/ stale' = stale \ {cell}
          \/ stale' = stale
      BY <2>1 DEF Write
    <3>3. ideal \in [{"affect", "interest"} -> {Absent} \cup 0..Top] /\ cell \in {"affect", "interest"}
      BY <2>1 DEF SelfTypeOK
    <3>4. ideal' \in [{"affect", "interest"} -> {Absent} \cup 0..Top]
      BY <1>4, <2>1, <3>1, <3>3
    <3> QED BY <3>2, <3>3, <3>4 DEF SelfTypeOK
  <2>2. CASE cell \notin DOMAIN ideal
    BY <2>2 DEF Write, SelfTypeOK
  <2> QED BY <2>1, <2>2
<1>7. /\ lock' \in {NoOne} \cup Processes /\ failing' \in SUBSET Processes
      /\ seen' \in [Processes -> {NotRead, Absent} \cup 0..Top]
  BY DEF Write, SelfTypeOK
<1>8. todo' \in [Processes -> Seq(Seq(Access) \ {<<>>})]
  BY <1>1, WorkLeft DEF Write, Job
<1> QED BY <1>5, <1>6, <1>7, <1>8 DEF SelfTypeOK

LEMMA OtherTyped ==
    ASSUME SelfTypeOK, NEW p \in Processes, Read(p) \/ Collide(p) \/ TimeOut(p) \/ Exit(p)
    PROVE  SelfTypeOK'
<1>1. todo[p] # <<>>
  BY DEF Read, Collide, TimeOut, Exit, Ready, Busy
<1>2. todo' \in [Processes -> Seq(Seq(Access) \ {<<>>})]
  <2>1. todo' = todo \/ todo' = Advanced(p) \/ todo' = Abandoned(p)
    BY DEF Read, Collide, TimeOut, Exit
  <2> QED BY <1>1, <2>1, WorkLeft DEF Job, SelfTypeOK
<1>3. UNCHANGED <<store, ideal, stale>>
  BY DEF Read, Collide, TimeOut, Exit
<1>4. lock' \in {NoOne} \cup Processes /\ failing' \in SUBSET Processes
  BY DEF Read, Collide, TimeOut, Exit, SelfTypeOK
<1>5. seen' \in [Processes -> {NotRead, Absent} \cup 0..Top]
  <2>1. CASE Read(p)
    <3>1. RowOf[NextAccess(p).do] \in Rows
      BY <1>1, WorkLeft DEF Access, RowOf, Rows
    <3> QED BY <2>1, <3>1 DEF Read, SelfTypeOK
  <2>2. CASE Collide(p) \/ TimeOut(p) \/ Exit(p)
    BY <2>2 DEF Collide, TimeOut, Exit, SelfTypeOK
  <2> QED BY <2>1, <2>2
<1> QED BY <1>2, <1>3, <1>4, <1>5 DEF SelfTypeOK

SelfInv == SelfTypeOK /\ SeenOK

LEMMA SelfStarts == SelfInit => SelfInv
<1>1. SelfInit => SelfTypeOK
  BY WorkAssumption DEF SelfInit, SelfTypeOK
<1> QED BY <1>1 DEF SelfInit, SelfInv, SeenOK

LEMMA SelfKeeps == SelfInv /\ [SelfNext]_selfVars => SelfInv'
<1> SUFFICES ASSUME SelfInv, [SelfNext]_selfVars PROVE SelfInv'
  OBVIOUS
<1>1. CASE UNCHANGED selfVars
  BY <1>1 DEF SelfInv, SelfTypeOK, SeenOK, NextAccess, selfVars
<1>2. ASSUME NEW p \in Processes, Step(p) PROVE SelfInv'
  BY <1>2, SeenStep, WriteTyped, OtherTyped DEF SelfInv, Step
<1> QED BY <1>1, <1>2 DEF SelfNext

LEMMA SelfInvariant == SelfSpec => []SelfInv
BY SelfStarts, SelfKeeps, PTL DEF SelfSpec

LEMMA WrittenAsMeant ==
    ASSUME SelfInv, UpdatesSurvive, NEW p \in Processes, Write(p),
           NEW r \in DOMAIN ideal, r \notin stale'
    PROVE  store'[r] = ideal'[r]
<1> DEFINE a == NextAccess(p)
           cell == RowOf[a.do]
           now == store[cell]
<1>0. SelfTypeOK /\ SeenOK
  BY DEF SelfInv
<1>1. /\ a \in Access /\ cell \in Rows
      /\ cell \in DOMAIN ideal => a.do \in {"default", "affect", "set", "interest"}
  BY <1>0, ReadyAccess DEF Write
<1>2. /\ DOMAIN store = Rows /\ DOMAIN ideal = {"affect", "interest"}
      /\ store' = [store EXCEPT ![cell] = Written(a, seen[p], now)]
  BY <1>0 DEF Write, SelfTypeOK
<1>3. CASE cell \in DOMAIN ideal
  <2>1. /\ ideal' = [ideal EXCEPT ![cell] = Meant(a, @)]
        /\ ReadsFirst(a) /\ seen[p] # now => stale' = stale \cup {cell}
        /\ ~(ReadsFirst(a) /\ seen[p] # now) /\ a.do # "set" => stale' = stale
        /\ a.do = "set" => stale' = stale \ {cell}
    BY <1>3 DEF Write, ReadsFirst
  <2>2. CASE r # cell
    <3>1. r \notin stale
      BY <1>1, <1>3, <2>1, <2>2
    <3> QED BY <1>2, <2>1, <2>2, <3>1 DEF UpdatesSurvive
  <2>3. CASE r = cell
    <3>1. store'[r] = Written(a, seen[p], now) /\ ideal'[r] = Meant(a, ideal[r])
      BY <1>1, <1>2, <1>3, <2>1, <2>3
    <3>2. CASE a.do = "set"
      BY <3>1, <3>2 DEF Written, Meant, SetAffect
    <3>3. CASE a.do # "set"
      <4>1. now = ideal[r] /\ (ReadsFirst(a) => seen[p] = now)
        BY <1>3, <2>1, <2>3, <3>3 DEF UpdatesSurvive
      <4>2. CASE a.do \in {"interest", "affect"}
        <5>1. a.do = "interest" => seen[p] = now
          BY <4>1 DEF ReadsFirst
        <5> QED BY <3>1, <4>1, <4>2, <5>1 DEF Written, Meant, AdjustInterest, AdjustAffect
      <4>3. CASE a.do = "default"
        <5>1. now = Absent
          BY <1>0, <4>1, <4>3 DEF Write, Ready, SeenOK, ReadsFirst
        <5> QED BY <3>1, <4>1, <4>3, <5>1 DEF Written, Meant, SetAffect
      <4> QED BY <1>1, <1>3, <3>3, <4>2, <4>3
    <3> QED BY <3>2, <3>3
  <2> QED BY <2>2, <2>3
<1>4. CASE cell \notin DOMAIN ideal
  BY <1>2, <1>4 DEF Write, UpdatesSurvive
<1> QED BY <1>3, <1>4

(* What the self is told by any number of terminals and workers, in any    *)
(* order, with collisions, timeouts and deaths, adds up: only a read that  *)
(* another commit has outdated can lose or double an update.               *)
THEOREM ToldIsKept == SelfSpec => []UpdatesSurvive
<1>1. SelfInit => UpdatesSurvive
  BY DEF SelfInit, UpdatesSurvive, Rows
<1>2. ASSUME SelfInv, UpdatesSurvive, [SelfNext]_selfVars PROVE UpdatesSurvive'
  <2>1. CASE UNCHANGED selfVars
    BY <1>2, <2>1 DEF UpdatesSurvive, selfVars
  <2>2. ASSUME NEW p \in Processes, Read(p) \/ Collide(p) \/ TimeOut(p) \/ Exit(p)
        PROVE  UpdatesSurvive'
    BY <1>2, <2>2 DEF UpdatesSurvive, Read, Collide, TimeOut, Exit
  <2>3. ASSUME NEW p \in Processes, Write(p) PROVE UpdatesSurvive'
    <3>1. DOMAIN ideal' = DOMAIN ideal
      BY <2>3 DEF Write
    <3> QED BY <1>2, <2>3, <3>1, WrittenAsMeant DEF UpdatesSurvive
  <2> QED BY <1>2, <2>1, <2>2, <2>3 DEF SelfNext, Step
<1> QED BY <1>1, <1>2, SelfInvariant, PTL DEF SelfSpec

----------------------------------------------------------------------------
(* The schema.                                                             *)

(* A process that changes the schema is the writer; it has done a part of  *)
(* its version's statements, on top of what was committed.                 *)
Changing(p) ==
    LET v == Version(p) IN
    /\ writer = p /\ v \notin recorded
    /\ opener[p].done <= Changes[v]
    /\ work[v] >= opener[p].done /\ work[v] <= Changes[v]
    /\ IfNotExists(v) \/ work[v] = opener[p].done
    /\ \A u \in Versions \ {v} : work[u] = schema[u]

(* Every process has found or made all the versions before its own.        *)
OpenerOK(p) ==
    /\ opener[p].at \in {"begin", "change"} =>
          Version(p) \in Versions /\ \A u \in Versions : u < Version(p) => u \in recorded
    /\ At(p, "change") => Changing(p)
    /\ At(p, "open") => Versions \subseteq recorded

Opener == [at : {"closed", "begin", "change", "open"}, version : 0..Len(Changes) + 1, done : Nat]

VersionOK(v) ==
    /\ v \in recorded => schema[v] = Changes[v] /\ \A u \in Versions : u <= v => u \in recorded
    /\ v \notin recorded => IfNotExists(v) \/ schema[v] = 0

MigrationInv ==
    /\ schema \in [Versions -> Nat] /\ work \in [Versions -> Nat]
    /\ \A v \in Versions : schema[v] <= Changes[v]
    /\ recorded \subseteq Versions
    /\ opener \in [Openers -> Opener]
    /\ refused = {}
    /\ \A v \in Versions : VersionOK(v)
    /\ \A p \in Openers : OpenerOK(p)

----------------------------------------------------------------------------

LEMMA VersionsAre ==
  /\ Len(Changes) \in Nat \ {0} /\ Versions = 1..Len(Changes)
  /\ \A v \in Versions : Changes[v] \in Nat \ {0}
<1>1. Changes \in Seq(Nat \ {0}) /\ Changes # <<>>
  BY ChangesAssumption
<1>2. Len(Changes) \in Nat /\ Len(Changes) # 0 /\ Versions = 1..Len(Changes)
  BY <1>1 DEF Versions
<1> QED BY <1>1, <1>2

LEMMA MigrationStarts == MigrationInit => MigrationInv
<1> SUFFICES ASSUME MigrationInit PROVE MigrationInv
  OBVIOUS
<1>1. PICK n \in 0..Changes[1] : schema = [v \in Versions |-> IF v = 1 THEN n ELSE 0]
  BY DEF MigrationInit
<1>2. schema \in [Versions -> Nat] /\ \A v \in Versions : schema[v] <= Changes[v] /\ (IfNotExists(v) \/ schema[v] = 0)
  BY <1>1, VersionsAre DEF IfNotExists
<1>3. Closed \in Opener
  BY VersionsAre DEF Closed, Opener
<1> QED BY <1>2, <1>3 DEF MigrationInit, MigrationInv, VersionOK, OpenerOK, At, Closed

(* One process moves, and takes nothing away that others rely on.          *)
LEMMA OpenersKeep ==
  ASSUME MigrationInv, NEW p \in Openers, NEW o \in Opener, opener' = [opener EXCEPT ![p] = o],
         recorded \subseteq recorded', \A q \in Openers \ {p} : At(q, "change") => UNCHANGED <<schema, work, writer, recorded>>,
         OpenerOK(p)'
  PROVE  opener' \in [Openers -> Opener] /\ (\A q \in Openers : OpenerOK(q))'
<1>1. opener' \in [Openers -> Opener]
  BY DEF MigrationInv
<1>2. ASSUME NEW q \in Openers PROVE OpenerOK(q)'
  <2>1. CASE q = p
    BY <2>1
  <2>2. CASE q # p
    <3>1. opener'[q] = opener[q] /\ OpenerOK(q)
      BY <2>2 DEF MigrationInv
    <3> QED BY <2>2, <3>1 DEF OpenerOK, At, Version, Changing
  <2> QED BY <2>1, <2>2
<1> QED BY <1>1, <1>2

(* While one process writes, no other does.                                *)
LEMMA OneWriter ==
  ASSUME MigrationInv, NEW p \in Openers, NEW q \in Openers, At(p, "change"), At(q, "change")
  PROVE  p = q
  BY DEF MigrationInv, OpenerOK, Changing

LEMMA ConnectKeeps == ASSUME MigrationInv, NEW p \in Openers, Connect(p) PROVE MigrationInv'
<1> DEFINE o == [at |-> "begin", version |-> 1, done |-> 0]
<1>1. o \in Opener /\ opener' = [opener EXCEPT ![p] = o]
  BY VersionsAre DEF Opener, Connect, Goto
<1>2. OpenerOK(p)'
  BY <1>1, VersionsAre DEF OpenerOK, At, Version, MigrationInv
<1>3. UNCHANGED <<schema, recorded, work, writer, refused>>
  BY DEF Connect
<1> HIDE DEF o
<1> QED BY <1>1, <1>2, <1>3, OpenersKeep DEF MigrationInv, VersionOK

(* On to the next version, once this one is recorded.                      *)
LEMMA OnwardsKeeps ==
  ASSUME MigrationInv, NEW p \in Openers, Version(p) \in Versions, Onwards(p),
         \A u \in Versions : u <= Version(p) => u \in recorded',
         recorded \subseteq recorded',
         \A q \in Openers \ {p} : At(q, "change") => UNCHANGED <<schema, work, writer, recorded>>
  PROVE  opener' \in [Openers -> Opener] /\ (\A q \in Openers : OpenerOK(q))'
<1> DEFINE next == Version(p) + 1
           o == [at |-> IF next > Len(Changes) THEN "open" ELSE "begin", version |-> next, done |-> 0]
<1>1. Version(p) \in 1..Len(Changes)
  BY VersionsAre
<1>2. o \in Opener /\ opener' = [opener EXCEPT ![p] = o]
  BY <1>1, VersionsAre DEF Opener, Onwards, Goto
<1>3. o.version = next /\ o.at = (IF next > Len(Changes) THEN "open" ELSE "begin") /\ opener'[p] = o
  BY <1>2 DEF MigrationInv
<1>4. ASSUME next > Len(Changes) PROVE OpenerOK(p)'
  <2>1. \A u \in Versions : u <= Version(p)
    BY <1>1, <1>4, VersionsAre
  <2>2. opener'[p].at = "open" /\ Versions \subseteq recorded'
    BY <1>3, <1>4, <2>1
  <2> QED BY <2>2 DEF OpenerOK, At
<1>5. ASSUME ~(next > Len(Changes)) PROVE OpenerOK(p)'
  <2>1. next \in Versions /\ \A u \in Versions : u < next => u <= Version(p)
    BY <1>1, <1>5, VersionsAre
  <2>2. opener'[p].at = "begin" /\ opener'[p].version = next
    BY <1>3, <1>5
  <2> QED BY <2>1, <2>2 DEF OpenerOK, At, Version
<1>6. OpenerOK(p)'
  BY <1>4, <1>5
<1> HIDE DEF o
<1> QED BY <1>2, <1>6, OpenersKeep

LEMMA BeginKeeps == ASSUME MigrationInv, NEW p \in Openers, Begin(p) PROVE MigrationInv'
<1>1. /\ OpenerOK(p) /\ opener[p] \in Opener /\ Version(p) \in Versions
      /\ \A u \in Versions : u < Version(p) => u \in recorded
      /\ UNCHANGED <<schema, recorded, refused>> /\ work' = schema
  BY DEF MigrationInv, Begin, At, OpenerOK
<1>2. \A q \in Openers : ~At(q, "change")
  <2> SUFFICES ASSUME NEW q \in Openers, At(q, "change") PROVE FALSE
    OBVIOUS
  <2>1. writer = q /\ writer = "nobody"
    BY DEF MigrationInv, OpenerOK, Changing, Begin
  <2>2. q # "nobody"
    BY OpenersAssumption
  <2> QED BY <2>1, <2>2
<1>3. (\A v \in Versions : VersionOK(v))' /\ work' \in [Versions -> Nat] /\ schema' \in [Versions -> Nat]
  BY <1>1 DEF MigrationInv, VersionOK
<1>4. CASE Version(p) \in recorded
  <2>1. \A u \in Versions : u <= Version(p) => u \in recorded'
    BY <1>1, <1>4 DEF MigrationInv, VersionOK
  <2>2. Onwards(p)
    BY <1>4 DEF Begin
  <2> QED BY <1>1, <1>2, <1>3, <2>1, <2>2, OnwardsKeeps DEF MigrationInv
<1>5. CASE Version(p) \notin recorded
  <2> DEFINE o == [at |-> "change", version |-> Version(p), done |-> 0]
  <2>1. o \in Opener /\ opener' = [opener EXCEPT ![p] = o] /\ writer' = p
    BY <1>1, <1>5 DEF Opener, Begin, Goto, Version
  <2>2. opener'[p] = o /\ o.at = "change" /\ o.version = Version(p) /\ o.done = 0
    BY <2>1 DEF MigrationInv
  <2>3. OpenerOK(p)'
    BY <1>1, <1>5, <2>1, <2>2, VersionsAre DEF OpenerOK, At, Version, Changing, MigrationInv, VersionOK
  <2> HIDE DEF o
  <2> QED BY <1>1, <1>2, <1>3, <2>1, <2>3, OpenersKeep DEF MigrationInv
<1> QED BY <1>4, <1>5

(* A transaction is rolled back: the schema is what it was.                *)
LEMMA AbortKeeps ==
  ASSUME MigrationInv, NEW p \in Openers, Abort(p), UNCHANGED <<recorded, refused>>,
         \A q \in Openers \ {p} : ~At(q, "change")
  PROVE  MigrationInv'
<1>1. opener' = [opener EXCEPT ![p] = Closed] /\ Closed \in Opener /\ schema' = schema /\ work' = schema
  BY VersionsAre DEF Abort, AfterRollback, Closed, Opener
<1>2. OpenerOK(p)'
  BY <1>1 DEF OpenerOK, At, Closed, MigrationInv
<1> QED BY <1>1, <1>2, OpenersKeep DEF MigrationInv, VersionOK

LEMMA ChangeKeeps == ASSUME MigrationInv, NEW p \in Openers, Change(p) PROVE MigrationInv'
<1> DEFINE v == Version(p)
           n == opener[p].done + 1
           o == [at |-> "change", version |-> v, done |-> n]
<1>1. /\ At(p, "change") /\ n <= Changes[v] /\ OpenerOK(p) /\ opener[p] \in Opener /\ v \in Versions
      /\ Changing(p) /\ \A u \in Versions : u < v => u \in recorded
  BY DEF MigrationInv, Change, OpenerOK, At
<1>2. \A q \in Openers \ {p} : ~At(q, "change")
  BY <1>1, OneWriter
<1>3. UNCHANGED <<recorded, faults>>
  BY DEF Change
<1>4. work[v] \in Nat /\ n \in Nat /\ opener[p].done \in Nat /\ Changes[v] \in Nat
  BY <1>1, VersionsAre DEF MigrationInv, Opener
<1>5. ~(work[v] < n \/ IfNotExists(v)) => FALSE
  BY <1>1, <1>4 DEF Changing
<1>6. /\ work' = [work EXCEPT ![v] = IF @ < n THEN n ELSE @]
      /\ opener' = [opener EXCEPT ![p].done = n]
      /\ UNCHANGED <<schema, writer, refused>>
  BY <1>5 DEF Change
<1>7. o \in Opener /\ opener' = [opener EXCEPT ![p] = o]
  <2>1. opener[p] = [at |-> "change", version |-> v, done |-> opener[p].done] /\ v \in 0..Len(Changes) + 1
    BY <1>1 DEF Opener, At, Version
  <2>2. o \in Opener
    BY <1>4, <2>1 DEF Opener
  <2>3. o = [opener[p] EXCEPT !.done = n]
    BY <2>1
  <2> QED BY <1>6, <2>2, <2>3 DEF MigrationInv
<1>8. opener'[p] = o /\ work' \in [Versions -> Nat] /\ work'[v] = (IF work[v] < n THEN n ELSE work[v])
      /\ \A u \in Versions \ {v} : work'[u] = work[u]
  BY <1>1, <1>4, <1>6, <1>7 DEF MigrationInv
<1>9. OpenerOK(p)'
  BY <1>1, <1>3, <1>4, <1>6, <1>8 DEF OpenerOK, At, Version, Changing, IfNotExists
<1> HIDE DEF o
<1> QED BY <1>2, <1>3, <1>6, <1>7, <1>8, <1>9, OpenersKeep DEF MigrationInv, VersionOK

LEMMA CommitKeeps == ASSUME MigrationInv, NEW p \in Openers, Commit(p) PROVE MigrationInv'
<1> DEFINE v == Version(p)
<1>1. /\ At(p, "change") /\ opener[p].done = Changes[v] /\ opener[p] \in Opener /\ v \in Versions
      /\ Changing(p) /\ \A u \in Versions : u < v => u \in recorded
      /\ schema' = work /\ recorded' = recorded \cup {v} /\ UNCHANGED <<work, refused>>
  BY DEF MigrationInv, Commit, OpenerOK, At
<1>2. \A q \in Openers \ {p} : ~At(q, "change")
  BY <1>1, OneWriter
<1>3. work[v] = Changes[v] /\ (\A u \in Versions \ {v} : work[u] = schema[u]) /\ v \in 1..Len(Changes)
  BY <1>1, VersionsAre DEF Changing, MigrationInv
<1>4. ASSUME NEW u \in Versions PROVE VersionOK(u)' /\ schema'[u] <= Changes[u]
  <2>1. u \in 1..Len(Changes) /\ VersionOK(u) /\ schema[u] <= Changes[u] /\ Changes[u] \in Nat
    BY VersionsAre DEF MigrationInv
  <2>2. CASE u = v
    <3>1. \A w \in Versions : w <= v => w = v \/ w < v
      BY <1>3, VersionsAre
    <3> QED BY <1>1, <1>3, <2>1, <2>2, <3>1 DEF VersionOK
  <2>3. CASE u # v
    <3>1. work[u] = schema[u] /\ (u \in recorded' <=> u \in recorded)
      BY <1>1, <1>3, <2>3
    <3> QED BY <1>1, <2>1, <3>1 DEF VersionOK
  <2> QED BY <2>2, <2>3
<1>5. \A u \in Versions : u <= v => u \in recorded'
  BY <1>1, <1>3, VersionsAre
<1>6. Onwards(p)
  BY DEF Commit
<1>7. opener' \in [Openers -> Opener] /\ (\A q \in Openers : OpenerOK(q))'
  BY <1>1, <1>2, <1>5, <1>6, OnwardsKeeps
<1> QED BY <1>1, <1>4, <1>7 DEF MigrationInv

LEMMA FaultKeeps == ASSUME MigrationInv, NEW p \in Openers, Fault(p) PROVE MigrationInv'
<1>1. UNCHANGED <<recorded, refused>>
  BY DEF Fault
<1>2. CASE writer = p
  <2>1. \A q \in Openers \ {p} : ~At(q, "change")
    BY <1>2 DEF MigrationInv, OpenerOK, Changing
  <2> QED BY <1>1, <1>2, <2>1, AbortKeeps DEF Fault
<1>3. CASE writer # p
  <2>1. opener' = [opener EXCEPT ![p] = Closed] /\ UNCHANGED <<schema, work, writer>> /\ Closed \in Opener
    BY <1>3, VersionsAre DEF Fault, Closed, Opener
  <2>2. OpenerOK(p)'
    BY <2>1 DEF OpenerOK, At, Closed, MigrationInv
  <2> QED BY <1>1, <2>1, <2>2, OpenersKeep DEF MigrationInv, VersionOK
<1> QED BY <1>2, <1>3

LEMMA MigrationKeeps == MigrationInv /\ [MigrationNext]_migrationVars => MigrationInv'
<1> SUFFICES ASSUME MigrationInv, [MigrationNext]_migrationVars PROVE MigrationInv'
  OBVIOUS
<1>1. CASE UNCHANGED migrationVars
  BY <1>1 DEF migrationVars, MigrationInv, VersionOK, OpenerOK, At, Version, Changing
<1>2. CASE MigrationNext
  BY <1>2, ConnectKeeps, BeginKeeps, ChangeKeeps, CommitKeeps, FaultKeeps DEF MigrationNext, MigrationStep
<1> QED BY <1>1, <1>2

(* Every version is in the schema once and whole, in order, or not at all, *)
(* no process fails on another's half, and who has opened the database has *)
(* all of it.                                                              *)
THEOREM SchemaMigratedOnce == MigrationSpec => []MigratedOnce
<1>1. MigrationInv => MigratedOnce
  <2> SUFFICES ASSUME MigrationInv PROVE MigratedOnce
    OBVIOUS
  <2>1. ASSUME NEW v \in Versions PROVE Whole(v)
    <3>1. VersionOK(v) /\ v \in 1..Len(Changes)
      BY VersionsAre DEF MigrationInv
    <3>2. v \in recorded => 1..v \subseteq recorded
      BY <3>1, VersionsAre DEF VersionOK
    <3> QED BY <3>1, <3>2 DEF Whole, VersionOK
  <2>2. ASSUME NEW p \in Openers, At(p, "open") PROVE recorded = Versions
    BY <2>2 DEF MigrationInv, OpenerOK
  <2> QED BY <2>1, <2>2 DEF MigrationInv, MigratedOnce
<1> QED BY <1>1, MigrationStarts, MigrationKeeps, PTL DEF MigrationSpec
----------------------------------------------------------------------------
(* The tool registry.                                                      *)


(* The row, or that there is none.                                         *)
RowType == [status : STATUSES \cup {"none"}, report : Reports]

(* The stages after a positive review.                                     *)
Later == {"canary", "execute", "withdraw", "verify", "over"}

Writes == {"write", "writing", "update"}

(* A report is given by the workshop only, at its two places.              *)
GivenBy(p, c) ==
    /\ p = Workshop
    /\ \/ c.report = "approved" /\ stage = "judge" /\ c.next = "canary"
       \/ c.report = "failed" /\ stage = "ran" /\ c.next = "over"

(* What a call in progress says of the row: an approval that it has loaded *)
(* is still there, and so is the one that lets it write or run.            *)
CallOK(p, c) ==
    /\ c.at = "idle" => c = NoCall
    /\ c.report # "none" => GivenBy(p, c)
    /\ c.loaded.report = "approved" => row.report = "approved"
    /\ c.loaded.status \in Usable => row.report = "approved"
    /\ c.at \in Writes => c.kind = "status" /\ (c.want \in Usable => "approved" \in {c.report, row.report})
    /\ c.at = "run" => row.report = "approved"
    /\ c.kind = "status" => p \notin Runners
    /\ p = Workshop /\ stage \in Later => c.next \in Later /\ (c.kind = "status" => c.want = "disabled")

ToolRowOK ==
    /\ row.report = "approved" => stage \in Later
    /\ row.status \in Usable => row.report = "approved"

StandsOK == withdrawn => row.status = "disabled" /\ stage \in Later

RegistryInv ==
    /\ row \in RowType
    /\ call \in [Callers -> Call]
    /\ ToolRowOK /\ StandsOK
    /\ \A p \in Callers : CallOK(p, call[p])

----------------------------------------------------------------------------

LEMMA NoCallIsCall == NoCall \in Call /\ NoCall.at = "idle" /\ NoCall.kind = "load"
                      /\ NoCall.report = "none" /\ NoCall.loaded = NoRow /\ NoCall.next = "over"
  BY DEF NoCall, Call, NoRow, STATUSES, Usable, Reports

LEMMA NoCallOK == ASSUME NEW p PROVE CallOK(p, NoCall)'
  BY NoCallIsCall DEF CallOK, NoRow, Usable, Writes, Later

LEMMA WorkshopApart == Workshop \notin Owners /\ Workshop \notin Runners /\ Workshop \in Callers
                       /\ \A p \in Owners : p \in Callers /\ p \notin Runners
  BY CallersAssumption DEF Callers

(* One process's call changes, and nobody else moves the workshop's stage: *)
(* the calls of the others stand if an approval is not taken back.         *)
LEMMA OthersKeep ==
  ASSUME RegistryInv, NEW p \in Callers, NEW c \in Call, call' = [call EXCEPT ![p] = c],
         row.report = "approved" => row'.report = "approved",
         p # Workshop => stage' = stage,
         CallOK(p, c)'
  PROVE  call' \in [Callers -> Call] /\ (\A q \in Callers : CallOK(q, call[q]))'
<1>1. call' \in [Callers -> Call]
  BY DEF RegistryInv
<1>2. ASSUME NEW q \in Callers PROVE CallOK(q, call[q])'
  <2>1. CASE q = p
    BY <2>1 DEF RegistryInv
  <2>2. CASE q # p
    <3>1. call'[q] = call[q] /\ CallOK(q, call[q]) /\ (q = Workshop => stage' = stage)
      BY <2>2 DEF RegistryInv
    <3> QED BY <3>1 DEF CallOK, GivenBy
  <2> QED BY <2>1, <2>2
<1> QED BY <1>1, <1>2

(* A step within a call.                                                   *)
LEMMA CallKeeps ==
  ASSUME RegistryInv, NEW p \in Callers, NEW c \in Call, call' = [call EXCEPT ![p] = c],
         UNCHANGED <<row, withdrawn, stage>>, CallOK(p, c)
  PROVE  RegistryInv'
<1>1. CallOK(p, c)'
  BY DEF CallOK, GivenBy
<1>2. ToolRowOK' /\ StandsOK'
  BY DEF RegistryInv, ToolRowOK, StandsOK
<1> QED BY <1>1, <1>2, OthersKeep DEF RegistryInv

(* The end of a call, with a stage after it that is late if the last was.  *)
LEMMA CallEndKeeps ==
  ASSUME RegistryInv, NEW p \in Callers, call' = [call EXCEPT ![p] = NoCall],
         UNCHANGED <<row, withdrawn>>,
         p # Workshop => stage' = stage,
         stage \in Later => stage' \in Later
  PROVE  RegistryInv'
<1>1. ToolRowOK' /\ StandsOK'
  BY DEF RegistryInv, ToolRowOK, StandsOK
<1> QED BY <1>1, NoCallIsCall, NoCallOK, OthersKeep DEF RegistryInv

LEMMA ReturnKeeps ==
  ASSUME RegistryInv, NEW p \in Callers, Return(p), UNCHANGED <<row, withdrawn>>
  PROVE  RegistryInv'
<1>1. CallOK(p, call[p])
  BY DEF RegistryInv
<1> QED BY <1>1, CallEndKeeps DEF Return, CallOK

LEMMA RaiseKeeps ==
  ASSUME RegistryInv, NEW p \in Callers, Raise(p), UNCHANGED <<row, withdrawn>>
  PROVE  RegistryInv'
<1>1. stage \in Later => stage' \in Later
  BY DEF Raise, Later
<1>2. p # Workshop => stage' = stage
  BY DEF Raise
<1> QED BY <1>1, <1>2, CallEndKeeps DEF Raise

(* The rest of a call: same caller, same purpose, further on.              *)
LEMMA GoesKeeps ==
  ASSUME RegistryInv, NEW p \in Callers, NEW place \in {"row", "write", "writing", "update", "run"},
         Goes(p, place), UNCHANGED <<row, withdrawn>>,
         place \in Writes => call[p].kind = "status"
                              /\ (call[p].want \in Usable => "approved" \in {call[p].report, row.report}),
         place = "run" => row.report = "approved"
  PROVE  RegistryInv'
<1>1. call[p] \in Call /\ CallOK(p, call[p])
  BY DEF RegistryInv
<1> DEFINE c == [call[p] EXCEPT !.at = place]
<1>2. c \in Call
  BY <1>1 DEF Call
<1>3. CallOK(p, c)
  BY <1>1 DEF CallOK, GivenBy, Call
<1>4. call' = [call EXCEPT ![p] = c] /\ UNCHANGED stage
  BY DEF Goes
<1> HIDE DEF c
<1> QED BY <1>2, <1>3, <1>4, CallKeeps

----------------------------------------------------------------------------
(* The steps of a call.                                                    *)

LEMMA ListKeeps == ASSUME RegistryInv, NEW p \in Callers, List(p) PROVE RegistryInv'
<1>1. CASE Goes(p, "row")
  BY <1>1, GoesKeeps DEF List, Writes
<1>2. CASE Return(p)
  BY <1>2, ReturnKeeps DEF List
<1> QED BY <1>1, <1>2 DEF List

LEMMA ReadRowKeeps == ASSUME RegistryInv, NEW p \in Callers, ReadRow(p) PROVE RegistryInv'
<1>1. CASE Raise(p)
  BY <1>1, RaiseKeeps DEF ReadRow
<1>2. CASE row # NoRow /\ call' = [call EXCEPT ![p].at = "file", ![p].loaded = row] /\ UNCHANGED stage
  <2>1. call[p] \in Call /\ CallOK(p, call[p]) /\ call[p].at = "row"
    BY DEF RegistryInv, ReadRow
  <2>2. row \in [status : STATUSES \cup {"none"}, report : Reports]
    BY DEF RegistryInv, RowType
  <2> DEFINE c == [call[p] EXCEPT !.at = "file", !.loaded = row]
  <2>3. c \in Call
    BY <2>1, <2>2 DEF Call
  <2>4. CallOK(p, c)
    BY <2>1 DEF CallOK, GivenBy, Call, RegistryInv, ToolRowOK, Writes
  <2>5. call' = [call EXCEPT ![p] = c]
    BY <1>2
  <2> HIDE DEF c
  <2> QED BY <1>2, <2>3, <2>4, <2>5, CallKeeps DEF ReadRow
<1> QED BY <1>1, <1>2 DEF ReadRow

LEMMA ReadFileKeeps == ASSUME RegistryInv, NEW p \in Callers, ReadFile(p) PROVE RegistryInv'
<1>1. call[p] \in Call /\ CallOK(p, call[p])
  BY DEF RegistryInv
<1>2. UNCHANGED <<row, withdrawn>>
  BY DEF ReadFile
<1>3. CASE Raise(p)
  BY <1>2, <1>3, RaiseKeeps
<1>4. CASE Return(p)
  BY <1>2, <1>4, ReturnKeeps
<1>5. CASE Goes(p, "write") /\ call[p].kind = "status" /\ (call[p].want \in Usable => HasEvidence(call[p]))
  <2>1. call[p].want \in Usable => "approved" \in {call[p].report, row.report}
    BY <1>1, <1>5 DEF HasEvidence, CallOK
  <2> QED BY <1>2, <1>5, <2>1, GoesKeeps
<1>6. CASE Goes(p, "run") /\ call[p].loaded.status \in Usable
  <2>1. row.report = "approved"
    BY <1>1, <1>6 DEF CallOK
  <2> QED BY <1>2, <1>6, <2>1, GoesKeeps DEF Writes
<1>7. call[p].kind \in {"load", "status", "invoke", "catalog"}
  BY <1>1 DEF Call
<1> QED BY <1>3, <1>4, <1>5, <1>6, <1>7 DEF ReadFile

LEMMA WriteKeeps ==
  ASSUME RegistryInv, NEW p \in Callers, Truncate(p) \/ WriteFile(p) PROVE RegistryInv'
<1>1. CallOK(p, call[p]) /\ call[p].at \in Writes /\ UNCHANGED <<row, withdrawn>>
  BY DEF RegistryInv, Truncate, WriteFile, Writes
<1>2. call[p].kind = "status" /\ (call[p].want \in Usable => "approved" \in {call[p].report, row.report})
  BY <1>1 DEF CallOK
<1>3. Goes(p, "writing") \/ Goes(p, "update")
  BY DEF Truncate, WriteFile
<1> QED BY <1>1, <1>2, <1>3, GoesKeeps

LEMMA UpdateRowKeeps == ASSUME RegistryInv, NEW p \in Callers, UpdateRow(p) PROVE RegistryInv'
<1> DEFINE c == call[p]
<1>1. c \in Call /\ CallOK(p, c) /\ c.at = "update" /\ c.kind = "status"
  BY DEF RegistryInv, UpdateRow, CallOK, Writes
<1>2. row' = [status |-> c.want, report |-> IF c.report = "none" THEN row.report ELSE c.report]
  BY DEF UpdateRow
<1>3. call' = [call EXCEPT ![p] = NoCall] /\ stage' = IF p = Workshop THEN c.next ELSE stage
  BY DEF UpdateRow, Return
<1>4. row.report = "approved" => c.report = "none" /\ row'.report = "approved" /\ stage \in Later
  BY <1>1, <1>2 DEF RegistryInv, ToolRowOK, CallOK, GivenBy, Later
<1>5. stage \in Later => stage' \in Later
  BY <1>1, <1>3 DEF CallOK
<1>6. c.report = "approved" => stage' \in Later
  BY <1>1, <1>3 DEF CallOK, GivenBy, Later
<1>7. ToolRowOK'
  BY <1>1, <1>2, <1>4, <1>5, <1>6 DEF ToolRowOK, CallOK, Writes
<1>8. StandsOK'
  <2>1. CASE p \in Owners
    <3>1. stage' = stage /\ withdrawn' = (c.want = "disabled" /\ ~Contended(p))
      BY <2>1, <1>3, WorkshopApart DEF UpdateRow
    <3> QED BY <1>2, <3>1 DEF StandsOK, Contended, Later
  <2>2. CASE p = Workshop
    <3>1. withdrawn' = withdrawn
      BY <2>2, WorkshopApart DEF UpdateRow
    <3>2. withdrawn => c.want = "disabled" /\ stage \in Later
      BY <2>2, <1>1 DEF RegistryInv, StandsOK, CallOK
    <3> QED BY <1>2, <1>5, <3>1, <3>2 DEF StandsOK
  <2> QED BY <1>1, <2>1, <2>2 DEF Callers, CallOK
<1>9. row' \in RowType
  BY <1>1, <1>2 DEF RegistryInv, RowType, Call, Reports
<1> QED BY <1>3, <1>4, <1>7, <1>8, <1>9, NoCallIsCall, NoCallOK, OthersKeep DEF RegistryInv

LEMMA RunOrDieKeeps == ASSUME RegistryInv, NEW p \in Callers, Run(p) \/ Die(p) PROVE RegistryInv'
<1>1. CASE Run(p)
  BY <1>1, ReturnKeeps, RaiseKeeps DEF Run
<1>2. CASE Die(p)
  BY <1>2, CallEndKeeps DEF Die, Later
<1> QED BY <1>1, <1>2

----------------------------------------------------------------------------
(* The beginnings of a call and the workshop's stages.                     *)

LEMMA OwnerOrRunnerKeeps ==
  ASSUME RegistryInv, NEW p \in Callers, p # Workshop, UNCHANGED <<row, withdrawn, stage>>,
         NEW c \in Call, call' = [call EXCEPT ![p] = c], c.report = "none", c.loaded = NoRow,
         c.at \in {"row", "list"}, c.kind = "status" => p \notin Runners
  PROVE  RegistryInv'
<1>1. CallOK(p, c)
  BY DEF CallOK, NoRow, Usable, Writes
<1> QED BY <1>1, CallKeeps

LEMMA CallsAreCalls ==
  /\ \A want \in STATUSES, report \in Reports, next \in {"tests", "canary", "over"} :
        Status(want, report, next) \in Call
  /\ \A next \in {"execute", "verify", "over"} : Invoke(next) \in Call
  /\ \A next \in {"ran", "judge", "execute"} : Load(next) \in Call
  /\ Catalog \in Call
  BY DEF Status, Invoke, Load, Catalog, NoCall, Call, NoRow, STATUSES, Usable, Reports

LEMMA OwnerSetsKeeps == ASSUME RegistryInv, NEW p \in Owners, OwnerSets(p) PROVE RegistryInv'
<1>1. PICK want \in {"approved", "experimental", "deprecated", "disabled"} :
        call' = [call EXCEPT ![p] = Status(want, "none", "over")]
  BY DEF OwnerSets
<1> DEFINE c == Status(want, "none", "over")
<1>2. c \in Call
  BY CallsAreCalls DEF STATUSES, Usable, Reports
<1>3. c.report = "none" /\ c.loaded = NoRow /\ c.at = "row"
  BY DEF Status, NoCall
<1>4. p \in Callers /\ p # Workshop /\ p \notin Runners
  BY WorkshopApart
<1>5. call' = [call EXCEPT ![p] = c] /\ UNCHANGED <<row, withdrawn, stage>>
  BY <1>1 DEF OwnerSets
<1> HIDE DEF c
<1> QED BY <1>2, <1>3, <1>4, <1>5, OwnerOrRunnerKeeps

LEMMA RunToolKeeps == ASSUME RegistryInv, NEW p \in Runners, RunTool(p) PROVE RegistryInv'
<1>1. PICK c \in {Invoke("over"), Catalog} : call' = [call EXCEPT ![p] = c]
  BY DEF RunTool
<1>2. c \in Call
  BY CallsAreCalls
<1>3. c.report = "none" /\ c.loaded = NoRow /\ c.at \in {"row", "list"} /\ c.kind # "status"
  BY DEF Invoke, Catalog, NoCall
<1>4. p \in Callers /\ p # Workshop
  BY WorkshopApart DEF Callers
<1> QED BY <1>1, <1>2, <1>3, <1>4, OwnerOrRunnerKeeps DEF RunTool

(* Before its tests have run, a tool has no report that lets it be used.   *)
LEMMA EarlyStage ==
  ASSUME RegistryInv, stage \notin Later
  PROVE  row.report # "approved" /\ row.status \notin Usable /\ ~withdrawn
  BY DEF RegistryInv, ToolRowOK, StandsOK

(* The stage moves among those before a review, the row with it.           *)
LEMMA EarlyKeeps ==
  ASSUME RegistryInv, stage \notin Later \cup {"judge", "ran"}, stage' \notin Later,
         UNCHANGED <<call, withdrawn>>,
         row' \in RowType, row'.report # "approved", row'.status \notin Usable
  PROVE  RegistryInv'
<1>1. ToolRowOK' /\ StandsOK'
  BY EarlyStage DEF ToolRowOK, StandsOK
<1>2. ASSUME NEW p \in Callers PROVE CallOK(p, call[p])'
  <2>1. CallOK(p, call[p]) /\ row.report # "approved"
    BY EarlyStage DEF RegistryInv
  <2> QED BY <2>1 DEF CallOK, GivenBy
<1> QED BY <1>1, <1>2 DEF RegistryInv

LEMMA CreateKeeps == ASSUME RegistryInv, CreateFiles \/ InsertRow PROVE RegistryInv'
<1>1. CASE CreateFiles
  BY <1>1, EarlyStage, EarlyKeeps DEF CreateFiles, Later, RegistryInv
<1>2. CASE InsertRow
  <2>1. row' \in RowType /\ row'.report # "approved" /\ row'.status \notin Usable
    BY <1>2 DEF InsertRow, Usable, RowType, STATUSES, Reports
  <2> QED BY <1>2, <2>1, EarlyKeeps DEF InsertRow, Later
<1> QED BY <1>1, <1>2

LEMMA RunTestsKeeps == ASSUME RegistryInv, RunTests PROVE RegistryInv'
<1>1. PICK report \in {"passed", "failed"} :
        /\ row' = [row EXCEPT !.report = report]
        /\ IF report = "passed"
           THEN stage' = "review" /\ UNCHANGED call
           ELSE call' = [call EXCEPT ![Workshop] = Status("disabled", "failed", "over")] /\ UNCHANGED stage
  BY DEF RunTests
<1>2. row' = [status |-> row.status, report |-> report]
  BY <1>1 DEF RegistryInv, RowType
<1>3. row.report # "approved" /\ row.status \notin Usable /\ ~withdrawn /\ stage = "ran" /\ ~withdrawn'
  BY EarlyStage DEF RunTests, Later
<1>4. row' \in RowType /\ ToolRowOK' /\ StandsOK'
  BY <1>2, <1>3 DEF ToolRowOK, StandsOK, RegistryInv, RowType, Reports
<1>5. CASE report = "passed"
  <2>1. ASSUME NEW p \in Callers PROVE CallOK(p, call[p])'
    <3>1. CallOK(p, call[p]) /\ (p = Workshop => call[p] = NoCall)
      BY WorkshopApart DEF RegistryInv, CallOK, RunTests
    <3>2. CASE p = Workshop
      BY <1>1, <1>5, <3>1, <3>2, NoCallOK
    <3>3. CASE p # Workshop
      BY <1>1, <1>2, <1>3, <1>5, <3>1, <3>3 DEF CallOK, GivenBy
    <3> QED BY <3>2, <3>3
  <2> QED BY <1>1, <1>4, <1>5, <2>1 DEF RegistryInv
<1>6. CASE report # "passed"
  <2> DEFINE c == Status("disabled", "failed", "over")
  <2>1. c \in Call
    BY CallsAreCalls DEF STATUSES, Usable, Reports
  <2>2. call' = [call EXCEPT ![Workshop] = c] /\ UNCHANGED stage
    BY <1>1, <1>6
  <2>3. c.report = "failed" /\ c.loaded = NoRow /\ c.at = "row" /\ c.kind = "status" /\ c.next = "over"
    BY DEF Status, NoCall
  <2> HIDE DEF c
  <2>4. CallOK(Workshop, c)'
    BY <1>3, <2>2, <2>3, WorkshopApart DEF CallOK, GivenBy, NoRow, Usable, Writes, Later
  <2> QED BY <1>3, <1>4, <2>1, <2>2, <2>4, WorkshopApart, OthersKeep DEF RegistryInv
<1> QED BY <1>5, <1>6

(* The workshop asks for what its stage is for.                            *)
LEMMA StageCallOK ==
  ASSUME NEW c \in StageCalls, c # NoCall
  PROVE  c \in Call /\ CallOK(Workshop, c)
<1>1. c.loaded = NoRow /\ c.at = "row"
  BY DEF StageCalls, AfterVerify, Status, Load, Invoke, NoCall
<1>2. CASE stage = "test"
  <2>1. c = Status("testing", "none", "tests")
    BY <1>2 DEF StageCalls
  <2>2. c \in Call
    BY <2>1, CallsAreCalls DEF STATUSES, Usable, Reports
  <2>3. c.report = "none"
    BY <2>1 DEF Status, NoCall
  <2> QED BY <1>1, <1>2, <2>2, <2>3, WorkshopApart DEF CallOK, NoRow, Usable, Writes, Later
<1>3. CASE stage \in {"tests", "review"}
  <2>1. c = Load("ran") \/ c = Load("judge")
    BY <1>3 DEF StageCalls
  <2>2. c \in Call
    BY <2>1, CallsAreCalls
  <2>3. c.report = "none"
    BY <2>1 DEF Load, NoCall
  <2> QED BY <1>1, <1>3, <2>2, <2>3, WorkshopApart DEF CallOK, NoRow, Usable, Writes, Later
<1>4. CASE stage = "judge" /\ c = Status("experimental", "approved", "canary")
  <2>1. c \in Call
    BY <1>4, CallsAreCalls DEF STATUSES, Usable, Reports
  <2>2. GivenBy(Workshop, c)
    BY <1>4 DEF GivenBy, Status, NoCall
  <2> QED BY <1>1, <1>4, <2>1, <2>2, WorkshopApart DEF CallOK, NoRow, Usable, Writes, Later
<1>5. CASE stage \in {"judge", "withdraw", "verify"} /\ c = Status("disabled", "none", "over")
  <2>1. c \in Call
    BY <1>5, CallsAreCalls DEF STATUSES, Usable, Reports
  <2>2. c.report = "none" /\ c.want = "disabled" /\ c.next = "over"
    BY <1>5 DEF Status, NoCall
  <2> QED BY <1>1, <2>1, <2>2, WorkshopApart DEF CallOK, NoRow, Usable, Writes, Later
<1>6. CASE stage \in {"canary", "execute"}
  <2>1. c \in {Load("execute"), Invoke("execute"), Invoke("verify")}
    BY <1>6 DEF StageCalls
  <2>2. c \in Call
    BY <2>1, CallsAreCalls
  <2>3. c.report = "none" /\ c.kind # "status" /\ c.next \in {"execute", "verify"}
    BY <2>1 DEF Load, Invoke, NoCall
  <2> QED BY <1>1, <2>2, <2>3, WorkshopApart DEF CallOK, NoRow, Usable, Writes, Later
<1> QED BY <1>2, <1>3, <1>4, <1>5, <1>6 DEF StageCalls, AfterVerify

LEMMA StageStepKeeps == ASSUME RegistryInv, StageStep PROVE RegistryInv'
<1>1. PICK c \in StageCalls : /\ call' = [call EXCEPT ![Workshop] = c]
                              /\ stage' = IF c = NoCall THEN "over" ELSE stage
  BY DEF StageStep
<1>2. UNCHANGED <<row, withdrawn>>
  BY DEF StageStep
<1>3. CASE c = NoCall
  BY <1>1, <1>2, <1>3, WorkshopApart, CallEndKeeps DEF Later
<1>4. CASE c # NoCall
  BY <1>1, <1>2, <1>4, WorkshopApart, StageCallOK, CallKeeps
<1> QED BY <1>3, <1>4

----------------------------------------------------------------------------

LEMMA CallStepKeeps == ASSUME RegistryInv, NEW p \in Callers, CallStep(p) PROVE RegistryInv'
  BY ListKeeps, ReadRowKeeps, ReadFileKeeps, WriteKeeps, UpdateRowKeeps, RunOrDieKeeps DEF CallStep

LEMMA StutterKeeps == ASSUME RegistryInv, UNCHANGED registryVars PROVE RegistryInv'
<1>1. UNCHANGED <<row, stage, call, withdrawn>>
  BY DEF registryVars
<1> QED BY <1>1 DEF RegistryInv, ToolRowOK, StandsOK, CallOK, GivenBy

LEMMA RegistryStarts == RegistryInit => RegistryInv
<1> SUFFICES ASSUME RegistryInit PROVE RegistryInv
  OBVIOUS
<1>1. row \in RowType /\ ToolRowOK /\ StandsOK
  BY DEF RegistryInit, NoRow, RowType, STATUSES, Usable, Reports, ToolRowOK, StandsOK
<1>2. ASSUME NEW p \in Callers PROVE CallOK(p, call[p])
  BY NoCallIsCall DEF RegistryInit, CallOK, NoRow, Usable, Writes, Later
<1> QED BY <1>1, <1>2, NoCallIsCall DEF RegistryInit, RegistryInv

LEMMA RegistryKeeps == RegistryInv /\ [RegistryNext]_registryVars => RegistryInv'
  BY CallStepKeeps, CreateKeeps, RunTestsKeeps, StageStepKeeps, OwnerSetsKeeps, RunToolKeeps,
     StutterKeeps DEF RegistryNext

LEMMA RegistryHolds == RegistrySpec => []RegistryInv
  BY RegistryStarts, RegistryKeeps, PTL DEF RegistrySpec

(* No generated code runs before its tests and its review are on record,   *)
(* for any number of owners, runners, calls and deaths.                    *)
THEOREM CodeRunsOnEvidence == RegistrySpec => []RunsOnEvidence
<1>1. RegistryInv => RunsOnEvidence
  BY DEF RegistryInv, CallOK, RunsOnEvidence
<1> QED BY <1>1, RegistryHolds, PTL

(* What the owner disables after the review stays disabled.                *)
THEOREM DisableStands == RegistrySpec => []OwnerDisableStands
<1>1. RegistryInv => OwnerDisableStands
  BY DEF RegistryInv, StandsOK, OwnerDisableStands
<1> QED BY <1>1, RegistryHolds, PTL

----------------------------------------------------------------------------
(* A torn tool stays torn.                                                 *)

(* Before create has inserted the row nobody has got beyond looking for    *)
(* it, and the workshop has no call under way; then the row stays.         *)
Fresh ==
    /\ row \in RowType /\ call \in [Callers -> Call]
    /\ IF stage \in {"draft", "files"}
       THEN row = NoRow /\ call[Workshop].at = "idle" /\ \A p \in Callers : Loading(p)
       ELSE row.status # "none"

LEMMA FreshStarts == RegistryInit => Fresh
  BY NoCallIsCall, WorkshopApart
  DEF RegistryInit, Fresh, RowType, NoRow, STATUSES, Reports, Loading

Early == {"draft", "files"}

(* A call of somebody else that has not found a row yet.                   *)
LEMMA FreshLooking ==
  ASSUME Fresh, NEW p \in Callers, p # Workshop, NEW c \in Call, c.at \in {"idle", "list", "row"},
         call' = [call EXCEPT ![p] = c], row' = row, stage' = stage
  PROVE  Fresh'
<1>1. call' \in [Callers -> Call]
  BY DEF Fresh
<1> QED BY <1>1, WorkshopApart DEF Fresh, Loading

(* Any call, once there is a row.                                          *)
LEMMA FreshLater ==
  ASSUME Fresh, NEW p \in Callers, NEW c \in Call, call' = [call EXCEPT ![p] = c],
         stage \notin Early, stage' \notin Early, row' \in RowType, row'.status # "none"
  PROVE  Fresh'
  BY DEF Fresh, Early

LEMMA FreshCallStep == ASSUME Fresh, NEW p \in Callers, CallStep(p) PROVE Fresh'
<1>1. call[p] \in Call /\ row \in RowType /\ call[p].at # "idle"
  BY DEF Fresh, CallStep, List, ReadRow, ReadFile, Truncate, WriteFile, UpdateRow, Run, Die
<1>2. CASE stage \in Early
  <2>1. p # Workshop /\ row = NoRow /\ call[p].at \in {"list", "row"}
    BY <1>1, <1>2 DEF Fresh, Loading, Early
  <2>2. row' = row /\ stage' = stage /\ call' = [call EXCEPT ![p] = NoCall]
    BY <2>1 DEF CallStep, List, ReadRow, ReadFile, Truncate, WriteFile, UpdateRow, Run, Die,
                Return, Raise, NoRow, Usable
  <2> QED BY <2>1, <2>2, NoCallIsCall, FreshLooking
<1>3. CASE stage \notin Early
  <2>1. row.status # "none" /\ row # NoRow
    BY <1>3 DEF Fresh, Early, NoRow
  <2>2. call[p].next \notin Early /\ call[p].want \in STATUSES /\ call[p].report \in Reports
    BY <1>1 DEF Call, Early
  <2>3. /\ row' = row \/ row' = [status |-> call[p].want,
                                 report |-> IF call[p].report = "none" THEN row.report ELSE call[p].report]
        /\ \/ Return(p) \/ Raise(p) \/ Die(p)
           \/ \E place \in {"row", "write", "writing", "update", "run"} : Goes(p, place)
           \/ call' = [call EXCEPT ![p].at = "file", ![p].loaded = row] /\ UNCHANGED stage
    BY <1>1, <2>1 DEF CallStep, List, ReadRow, ReadFile, Truncate, WriteFile, UpdateRow, Run, Die, Call
  <2>4. row' \in RowType /\ row'.status # "none"
    BY <1>1, <2>1, <2>2, <2>3 DEF RowType, STATUSES, Usable
  <2>5. CASE Return(p) \/ Raise(p) \/ Die(p)
    <3>1. call' = [call EXCEPT ![p] = NoCall] /\ stage' \notin Early
      BY <1>3, <2>2, <2>5 DEF Return, Raise, Die, Early
    <3> QED BY <1>3, <2>4, <3>1, NoCallIsCall, FreshLater
  <2>6. CASE \E place \in {"row", "write", "writing", "update", "run"} : Goes(p, place)
    <3>1. PICK place \in {"row", "write", "writing", "update", "run"} : Goes(p, place)
      BY <2>6
    <3> DEFINE c == [call[p] EXCEPT !.at = place]
    <3>2. c \in Call
      BY <1>1 DEF Call
    <3>3. call' = [call EXCEPT ![p] = c] /\ stage' \notin Early
      BY <1>3, <3>1 DEF Goes
    <3> HIDE DEF c
    <3> QED BY <1>3, <2>4, <3>2, <3>3, FreshLater
  <2>7. CASE call' = [call EXCEPT ![p].at = "file", ![p].loaded = row] /\ UNCHANGED stage
    <3> DEFINE c == [call[p] EXCEPT !.at = "file", !.loaded = row]
    <3>1. c \in Call
      BY <1>1 DEF Call, RowType
    <3>2. call' = [call EXCEPT ![p] = c] /\ stage' \notin Early
      BY <1>3, <2>7
    <3> HIDE DEF c
    <3> QED BY <1>3, <2>4, <3>1, <3>2, FreshLater
  <2> QED BY <2>3, <2>5, <2>6, <2>7
<1> QED BY <1>2, <1>3

LEMMA FreshKeeps == Fresh /\ [RegistryNext]_registryVars => Fresh'
<1> SUFFICES ASSUME Fresh, [RegistryNext]_registryVars PROVE Fresh'
  OBVIOUS
<1>1. CASE CreateFiles
  BY <1>1 DEF Fresh, CreateFiles, Loading
<1>2. CASE InsertRow
  BY <1>2 DEF Fresh, InsertRow, RowType, STATUSES, Reports
<1>3. CASE RunTests
  <2>1. PICK report \in {"passed", "failed"} :
          /\ row' = [row EXCEPT !.report = report]
          /\ IF report = "passed"
             THEN stage' = "review" /\ UNCHANGED call
             ELSE call' = [call EXCEPT ![Workshop] = Status("disabled", "failed", "over")] /\ UNCHANGED stage
    BY <1>3 DEF RunTests
  <2>2. stage = "ran" /\ row \in RowType /\ row.status # "none"
    BY <1>3 DEF RunTests, Fresh
  <2>3. row' \in RowType /\ row'.status # "none"
    BY <2>1, <2>2 DEF RowType, Reports
  <2>4. Status("disabled", "failed", "over") \in Call
    BY CallsAreCalls DEF STATUSES, Usable, Reports
  <2> QED BY <2>1, <2>2, <2>3, <2>4, WorkshopApart DEF Fresh
<1>4. CASE StageStep
  <2>1. PICK c \in StageCalls : /\ call' = [call EXCEPT ![Workshop] = c]
                                /\ stage' = IF c = NoCall THEN "over" ELSE stage
    BY <1>4 DEF StageStep
  <2>2. stage \notin Early /\ stage' \notin Early /\ c \in Call
    BY <2>1, StageCallOK, NoCallIsCall DEF StageCalls, Early
  <2>3. row' \in RowType /\ row'.status # "none"
    BY <1>4, <2>2 DEF StageStep, Fresh, Early
  <2> QED BY <2>1, <2>2, <2>3, WorkshopApart, FreshLater
<1>5. ASSUME NEW p \in Callers, CallStep(p) PROVE Fresh'
  BY <1>5, FreshCallStep
<1>6. ASSUME NEW p \in Callers, p # Workshop, NEW c \in Call, c.at \in {"row", "list"},
             call' = [call EXCEPT ![p] = c], UNCHANGED <<row, stage>>
      PROVE  Fresh'
  BY <1>6, FreshLooking
<1>7. ASSUME NEW p \in Owners, OwnerSets(p) PROVE Fresh'
  <2>1. PICK want \in {"approved", "experimental", "deprecated", "disabled"} :
          call' = [call EXCEPT ![p] = Status(want, "none", "over")]
    BY <1>7 DEF OwnerSets
  <2>2. Status(want, "none", "over") \in Call /\ Status(want, "none", "over").at = "row"
    BY CallsAreCalls DEF STATUSES, Usable, Reports, Status, NoCall
  <2> QED BY <1>6, <1>7, <2>1, <2>2, WorkshopApart DEF OwnerSets
<1>8. ASSUME NEW p \in Runners, RunTool(p) PROVE Fresh'
  <2>1. PICK c \in {Invoke("over"), Catalog} : call' = [call EXCEPT ![p] = c]
    BY <1>8 DEF RunTool
  <2>2. c \in Call /\ c.at \in {"row", "list"}
    BY CallsAreCalls DEF Invoke, Catalog, NoCall
  <2> QED BY <1>6, <1>8, <2>1, <2>2, WorkshopApart DEF RunTool, Callers
<1>9. CASE UNCHANGED registryVars
  BY <1>9 DEF registryVars, Fresh, Loading
<1> QED BY <1>1, <1>2, <1>3, <1>4, <1>5, <1>7, <1>8, <1>9 DEF RegistryNext

(* Whoever has read the row of a torn tool is about to find it torn.       *)
DoomedCall(c) ==
    /\ c.at \in {"idle", "list", "row", "file"}
    /\ c.at = "file" => c.loaded.status = row.status

TornForGood ==
    /\ Torn /\ stage \notin Early
    /\ \A p \in Callers : DoomedCall(call[p])

LEMMA TornAtRest ==
  Fresh /\ Torn /\ (\A p \in Callers : Loading(p)) => TornForGood
  BY DEF Fresh, Torn, Loading, TornForGood, DoomedCall, Early

(* One call changes, and neither record's status does.                     *)
LEMMA TornCall ==
  ASSUME Fresh, TornForGood, NEW p \in Callers, NEW c, DoomedCall(c),
         call' = [call EXCEPT ![p] = c], stage' \notin Early,
         file' = file, row'.status = row.status
  PROVE  TornForGood'
<1>1. Torn'
  BY DEF Fresh, TornForGood, Torn, Early, NoRow
<1>2. ASSUME NEW q \in Callers PROVE DoomedCall(call[q])'
  BY DEF Fresh, TornForGood, DoomedCall
<1> QED BY <1>1, <1>2 DEF TornForGood

LEMMA TornCallStep ==
  ASSUME Fresh, TornForGood, NEW p \in Callers, CallStep(p) PROVE TornForGood'
<1>1. /\ call[p] \in Call /\ call[p].at \in {"list", "row", "file"}
      /\ call[p].at = "file" => call[p].loaded.status = row.status
      /\ stage \notin Early /\ file # row.status
  BY DEF Fresh, TornForGood, DoomedCall, Torn, CallStep, List, ReadRow, ReadFile, Truncate, WriteFile,
         UpdateRow, Run, Die
<1>2. file' = file /\ row' = row
  BY <1>1 DEF CallStep, List, ReadRow, ReadFile, Truncate, WriteFile, UpdateRow, Run, Die
<1>3. CASE Return(p) \/ Raise(p) \/ Die(p)
  <2>1. call' = [call EXCEPT ![p] = NoCall] /\ stage' \notin Early
    BY <1>1, <1>3 DEF Return, Raise, Die, Early, Call
  <2>2. DoomedCall(NoCall)
    BY NoCallIsCall DEF DoomedCall
  <2> QED BY <1>2, <2>1, <2>2, TornCall
<1>4. CASE Goes(p, "row")
  <2> DEFINE c == [call[p] EXCEPT !.at = "row"]
  <2>1. c.at = "row"
    BY <1>1 DEF Call
  <2>2. call' = [call EXCEPT ![p] = c] /\ stage' \notin Early
    BY <1>1, <1>4 DEF Goes
  <2> HIDE DEF c
  <2> QED BY <1>2, <2>1, <2>2, TornCall DEF DoomedCall
<1>5. CASE call' = [call EXCEPT ![p].at = "file", ![p].loaded = row] /\ UNCHANGED stage
  <2> DEFINE c == [call[p] EXCEPT !.at = "file", !.loaded = row]
  <2>1. c.at = "file" /\ c.loaded = row
    BY <1>1 DEF Call
  <2>2. call' = [call EXCEPT ![p] = c] /\ stage' \notin Early
    BY <1>1, <1>5
  <2> HIDE DEF c
  <2> QED BY <1>2, <2>1, <2>2, TornCall DEF DoomedCall
<1> QED BY <1>1, <1>3, <1>4, <1>5
        DEF CallStep, List, ReadRow, ReadFile, Agrees, Truncate, WriteFile, UpdateRow, Run

LEMMA TornKeeps == Fresh /\ TornForGood /\ [RegistryNext]_registryVars => TornForGood'
<1> SUFFICES ASSUME Fresh, TornForGood, [RegistryNext]_registryVars PROVE TornForGood'
  OBVIOUS
<1>1. ~CreateFiles /\ ~InsertRow
  BY DEF TornForGood, CreateFiles, InsertRow, Early
<1>2. ASSUME NEW p \in Callers, NEW c \in Call, c.at \in {"idle", "list", "row"},
             call' = [call EXCEPT ![p] = c], UNCHANGED <<file, row>>, stage' \notin Early
      PROVE  TornForGood'
  BY <1>2, TornCall DEF DoomedCall
<1>3. CASE RunTests
  <2>1. PICK report \in {"passed", "failed"} :
          /\ row' = [row EXCEPT !.report = report]
          /\ IF report = "passed"
             THEN stage' = "review" /\ UNCHANGED call
             ELSE call' = [call EXCEPT ![Workshop] = Status("disabled", "failed", "over")] /\ UNCHANGED stage
    BY <1>3 DEF RunTests
  <2>2. row'.status = row.status /\ file' = file /\ stage' \notin Early
    BY <1>3, <2>1 DEF RunTests, Fresh, RowType, Early
  <2>3. CASE report = "passed"
    <3>1. call' = [call EXCEPT ![Workshop] = call[Workshop]] /\ DoomedCall(call[Workshop])
      BY <2>1, <2>3, WorkshopApart DEF Fresh, TornForGood
    <3> QED BY <2>2, <3>1, WorkshopApart, TornCall
  <2>4. CASE report # "passed"
    <3>1. DoomedCall(Status("disabled", "failed", "over"))
      BY DEF DoomedCall, Status, NoCall
    <3> QED BY <2>1, <2>2, <2>4, <3>1, WorkshopApart, TornCall
  <2> QED BY <2>3, <2>4
<1>4. CASE StageStep
  <2>1. PICK c \in StageCalls : /\ call' = [call EXCEPT ![Workshop] = c]
                                /\ stage' = IF c = NoCall THEN "over" ELSE stage
    BY <1>4 DEF StageStep
  <2>2. c \in Call /\ c.at \in {"idle", "row"}
    BY NoCallIsCall, StageCallOK DEF StageCalls, AfterVerify, Status, Load, Invoke, NoCall
  <2>3. stage' \notin Early /\ UNCHANGED <<file, row>>
    BY <1>4, <2>1 DEF TornForGood, StageStep, Early
  <2> QED BY <1>2, <2>1, <2>2, <2>3, WorkshopApart
<1>5. ASSUME NEW p \in Owners, OwnerSets(p) PROVE TornForGood'
  <2>1. PICK want \in {"approved", "experimental", "deprecated", "disabled"} :
          call' = [call EXCEPT ![p] = Status(want, "none", "over")]
    BY <1>5 DEF OwnerSets
  <2>2. Status(want, "none", "over") \in Call /\ Status(want, "none", "over").at = "row"
    BY CallsAreCalls DEF STATUSES, Usable, Reports, Status, NoCall
  <2>3. stage' \notin Early /\ UNCHANGED <<file, row>>
    BY <1>5 DEF TornForGood, OwnerSets
  <2> QED BY <1>2, <2>1, <2>2, <2>3, WorkshopApart
<1>6. ASSUME NEW p \in Runners, RunTool(p) PROVE TornForGood'
  <2>1. PICK c \in {Invoke("over"), Catalog} : call' = [call EXCEPT ![p] = c]
    BY <1>6 DEF RunTool
  <2>2. c \in Call /\ c.at \in {"row", "list"}
    BY CallsAreCalls DEF Invoke, Catalog, NoCall
  <2>3. stage' \notin Early /\ UNCHANGED <<file, row>>
    BY <1>6 DEF TornForGood, RunTool
  <2> QED BY <1>2, <2>1, <2>2, <2>3 DEF Callers
<1>7. CASE UNCHANGED registryVars
  BY <1>7 DEF registryVars, TornForGood, Torn, DoomedCall
<1> QED BY <1>1, <1>3, <1>4, <1>5, <1>6, <1>7, TornCallStep DEF RegistryNext

(* A tool whose records differ once everybody's writes are over never runs *)
(* again, and nothing makes its records agree.                             *)
THEOREM TornStaysTorn == RegistrySpec => FailsClosed
<1>1. RegistrySpec => []Fresh
  BY FreshStarts, FreshKeeps, PTL DEF RegistrySpec
<1>2. TornForGood => Torn /\ \A p \in Callers : call[p].at \in {"idle", "list", "row", "file"}
  BY DEF TornForGood, DoomedCall
<1> QED BY <1>1, <1>2, TornAtRest, TornKeeps, PTL DEF RegistrySpec, FailsClosed

----------------------------------------------------------------------------
(* The diagnostic log.                                                     *)


(* Until the summary is there, its room is kept free.                      *)
ReserveKept == finish # "done" => size <= Limit - Reserve

(* The flag remembers every mark.                                          *)
MarksRemembered == \A i \in DOMAIN log : log[i].what = "marker" => truncated

FileInv == size <= Limit /\ MarksRemembered /\ NoGapAfterMark

LogInv == LogTypeOK /\ FileInv /\ ReserveKept /\ SummaryWhole

(* What is in the file stays there.                                        *)
Grown == Len(log) <= Len(log') /\ \A i \in DOMAIN log : log'[i] = log[i]

FileTyped == log \in Seq(Entry) /\ size \in Nat /\ truncated \in BOOLEAN

Whats == {"line", "omitted", "summary"}

----------------------------------------------------------------------------

(* append keeps the file in order, and with final false below the reserve. *)
(* A text that comes after a mark must be the summary, and must fit.       *)
LEMMA AppendKeeps ==
    ASSUME FileTyped, FileInv,
           NEW what \in Whats, NEW length \in Nat, NEW final \in BOOLEAN,
           Append_(what, length, final),
           truncated => ~final \/ (what = "summary" /\ length <= Room(TRUE))
    PROVE  /\ FileTyped' /\ FileInv' /\ Grown
           /\ ~final /\ size <= Limit - Reserve => size' <= Limit - Reserve
           /\ length <= Room(TRUE) /\ final =>
                 log' = Append(log, [what |-> what, size |-> length])
<1> USE DEF FileTyped
<1>0. Limit \in Nat /\ Reserve \in Nat /\ Reserve <= Limit /\ Marker \in Nat
  BY SizesAssumption, ReserveAssumption
<1>1. Room(final) \in Nat /\ (Room(final) = 0 \/ size + Room(final) = Cap(final))
  BY <1>0 DEF Room, AtLeast0, Cap
<1>2. Cap(final) <= Limit /\ (~final => Cap(final) = Limit - Reserve)
  BY <1>0 DEF Cap
<1>3. CASE truncated /\ ~final
  <2>1. log' = log /\ size' = size /\ truncated' = truncated
    BY <1>3 DEF Append_, fileVars
  <2>2. FileInv' /\ Grown
    BY <2>1 DEF FileInv, MarksRemembered, NoGapAfterMark, Grown
  <2> QED
    BY <1>3, <2>1, <2>2
<1>4. CASE ~(truncated /\ ~final) /\ length <= Room(final)
  <2> DEFINE new == [what |-> what, size |-> length]
  <2>1. log' = Append(log, new) /\ size' = size + length /\ truncated' = truncated
    BY <1>4 DEF Append_
  <2>2. new \in Entry /\ new.what # "marker"
    BY DEF Entry, Whats
  <2>3. /\ log' \in Seq(Entry) /\ Len(log') = Len(log) + 1
        /\ \A i \in DOMAIN log : log'[i] = log[i]
        /\ log'[Len(log) + 1] = new
    BY <2>1, <2>2
  <2>4. size' \in Nat /\ size' <= Limit /\ (~final /\ size <= Limit - Reserve => size' <= Limit - Reserve)
    BY <1>0, <1>1, <1>2, <1>4, <2>1 DEF FileInv
  <2>5. MarksRemembered'
    BY <2>1, <2>2, <2>3 DEF FileInv, MarksRemembered
  <2>6. NoGapAfterMark'
    <3> SUFFICES ASSUME NEW i \in DOMAIN log', NEW j \in DOMAIN log', i < j, log'[i].what = "marker"
                 PROVE  log'[j].what = "summary"
      BY DEF NoGapAfterMark
    <3>1. i \in DOMAIN log /\ log[i].what = "marker"
      BY <2>3
    <3>2. CASE j \in DOMAIN log
      BY <3>1, <3>2, <2>3 DEF FileInv, NoGapAfterMark
    <3>3. CASE j \notin DOMAIN log
      <4>1. truncated
        BY <3>1 DEF FileInv, MarksRemembered
      <4>2. j = Len(log) + 1 /\ what = "summary"
        BY <1>4, <4>1, <3>3, <2>3
      <4> QED
        BY <4>2, <2>3
    <3> QED
      BY <3>2, <3>3
  <2> QED
    BY <2>1, <2>3, <2>4, <2>5, <2>6 DEF Grown, FileInv
<1>5. CASE ~(truncated /\ ~final) /\ ~(length <= Room(final))
  <2> DEFINE kept == AtLeast0(Room(final) - Marker)
             mark == Least(Marker, Room(final))
             first == [what |-> what, size |-> kept]
             second == [what |-> "marker", size |-> mark]
  <2>1. log' = log \o <<first, second>> /\ size' = size + kept + mark /\ truncated' = TRUE
    BY <1>5 DEF Append_
  <2>2. kept \in Nat /\ mark \in Nat /\ kept + mark <= Room(final)
    BY <1>0, <1>1 DEF AtLeast0, Least
  <2>3. ~truncated
    BY <1>5 
  <2>4. first \in Entry /\ second \in Entry /\ first.what # "marker" /\ second.what = "marker"
    BY <2>2 DEF Entry, Whats
  <2> HIDE DEF kept, mark, first, second
  <2>5. /\ log' \in Seq(Entry) /\ Len(log') = Len(log) + 2
        /\ \A i \in DOMAIN log : log'[i] = log[i]
        /\ log'[Len(log) + 1] = first /\ log'[Len(log) + 2] = second
    BY <2>1, <2>4
  <2>6. /\ size' \in Nat /\ size' <= Limit
        /\ ~final /\ size <= Limit - Reserve => size' <= Limit - Reserve
    BY <1>0, <1>1, <1>2, <2>1, <2>2 DEF FileInv
  <2>7. \A i \in DOMAIN log' : log'[i].what = "marker" => i = Len(log')
    <3> SUFFICES ASSUME NEW i \in DOMAIN log', i # Len(log')
                 PROVE  log'[i].what # "marker"
      OBVIOUS
    <3>1. CASE i \in DOMAIN log
      BY <3>1, <2>3, <2>5 DEF FileInv, MarksRemembered
    <3>2. CASE i \notin DOMAIN log
      BY <3>2, <2>4, <2>5
    <3> QED
      BY <3>1, <3>2
  <2>8. NoGapAfterMark' /\ MarksRemembered'
    BY <2>1, <2>5, <2>7 DEF NoGapAfterMark, MarksRemembered
  <2>9. ~(length <= Room(TRUE) /\ final)
    BY <1>5
  <2>10. FileInv' /\ Grown
    BY <2>5, <2>6, <2>8 DEF Grown, FileInv
  <2> QED
    BY <2>1, <2>5, <2>6, <2>9, <2>10
<1> QED
  BY <1>3, <1>4, <1>5

(* What the reader's steps do to the file: they append a text that is not  *)
(* final, or leave the file alone.                                         *)
ReaderWrites ==
    \/ UNCHANGED fileVars
    \/ \E what \in {"line", "omitted"}, length \in Nat : Append_(what, length, FALSE)

LEMMA ReaderKeeps ==
    ASSUME LogInv, ReaderWrites, finish' # "done" => finish # "done",
           finish' = "done" => finish = "done"
    PROVE  FileTyped' /\ FileInv' /\ ReserveKept' /\ SummaryWhole'
<1>0. FileTyped /\ FileInv
  BY DEF LogInv, LogTypeOK, FileTyped
<1>1. /\ FileTyped' /\ FileInv' /\ Grown
      /\ size <= Limit - Reserve => size' <= Limit - Reserve
  <2>1. CASE UNCHANGED fileVars
    <3>1. log' = log /\ size' = size /\ truncated' = truncated
      BY <2>1 DEF fileVars
    <3>2. FileTyped' /\ FileInv' /\ Grown
      BY <1>0, <3>1 DEF FileTyped, FileInv, MarksRemembered, NoGapAfterMark, Grown
    <3> QED BY <3>1, <3>2
  <2>2. ASSUME NEW what \in {"line", "omitted"}, NEW length \in Nat, Append_(what, length, FALSE)
        PROVE  /\ FileTyped' /\ FileInv' /\ Grown
               /\ size <= Limit - Reserve => size' <= Limit - Reserve
    <3>1. what \in Whats
      BY DEF Whats
    <3> QED BY <1>0, <2>2, <3>1, AppendKeeps
  <2> QED BY <2>1, <2>2 DEF ReaderWrites
<1>2. ReserveKept'
  BY <1>1 DEF LogInv, ReserveKept
<1>3. SummaryWhole'
  <2> SUFFICES ASSUME finish' = "done"
               PROVE  \E i \in DOMAIN log' : log'[i] = [what |-> "summary", size |-> Summary]
    BY DEF SummaryWhole
  <2>1. PICK i \in DOMAIN log : log[i] = [what |-> "summary", size |-> Summary]
    BY DEF LogInv, SummaryWhole
  <2>2. i \in DOMAIN log' /\ log'[i] = log[i]
    BY <1>0, <1>1, <2>1 DEF Grown, FileTyped
  <2> QED BY <2>1, <2>2
<1> QED BY <1>1, <1>2, <1>3

(* The supervisor's summary: its room was kept free.                       *)
LEMMA SummaryKeeps ==
    ASSUME LogInv, Summarise
    PROVE  FileTyped' /\ FileInv' /\ ReserveKept' /\ SummaryWhole'
<1>0. FileTyped /\ FileInv /\ finish' = "done" /\ Summary \in Nat
  BY SizesAssumption DEF LogInv, LogTypeOK, FileTyped, Summarise
<1>1. Summary <= Room(TRUE)
  <2>1. size <= Limit - Reserve /\ size \in Nat
    BY DEF LogInv, ReserveKept, Summarise, LogTypeOK
  <2> QED BY <2>1, SizesAssumption, ReserveAssumption DEF Room, Cap, AtLeast0
<1>2. FileTyped' /\ FileInv' /\ log' = Append(log, [what |-> "summary", size |-> Summary])
  <2>1. Append_("summary", Summary, TRUE) /\ "summary" \in Whats
    BY DEF Summarise, Whats
  <2> QED BY <1>0, <1>1, <2>1, AppendKeeps
<1>3. ReserveKept'
  BY <1>0 DEF ReserveKept
<1>4. SummaryWhole'
  <2>1. [what |-> "summary", size |-> Summary] \in Entry
    BY <1>0 DEF Entry
  <2>2. Len(log) + 1 \in DOMAIN log' /\ log'[Len(log) + 1] = [what |-> "summary", size |-> Summary]
    BY <1>0, <1>2, <2>1 DEF FileTyped
  <2> QED BY <2>2 DEF SummaryWhole
<1> QED BY <1>0, <1>2, <1>3, <1>4

(* The rest of the type invariant: the reader's side.                      *)
ReaderTyped ==
    /\ chunk \in Seq(Nat) /\ newline \in BOOLEAN
    /\ pending \in 0..LineLimit /\ dropping \in BOOLEAN
    /\ reader \in {"reading", "done"} /\ stream \in {"open", "blocked", "closed"}
    /\ finish \in {"waiting", "closed", "done"}
    /\ reads \in 0..MaxChunks

LEMMA TakePartTyped ==
    ASSUME ReaderTyped, TakePart
    PROVE  ReaderTyped'
<1>1. LineLimit \in Nat
  BY SizesAssumption
<1>2. Head(chunk) \in Nat /\ Tail(chunk) \in Seq(Nat)
  BY DEF ReaderTyped, TakePart
<1>3. chunk' \in Seq(Nat) /\ newline' = TRUE
  BY <1>2 DEF TakePart
<1>4. pending' \in 0..LineLimit
  BY <1>1, <1>2 DEF ReaderTyped, TakePart
<1>5. dropping' \in BOOLEAN
  BY DEF ReaderTyped, TakePart
<1>6. UNCHANGED <<reader, stream, reads, finish>>
  BY DEF TakePart
<1> QED BY <1>3, <1>4, <1>5, <1>6 DEF ReaderTyped

LEMMA LineLengths ==
    ASSUME pending \in 0..LineLimit, NEW newlines \in {0, 1}, AppendLine(newlines)
    PROVE  ReaderWrites
<1>1. Growth * (pending + newlines) \in Nat
  <2>1. Growth \in Nat /\ pending + newlines \in Nat
    BY SizesAssumption
  <2> QED BY <2>1
<1>2. PICK length \in 0..Growth * (pending + newlines) : Append_("line", length, FALSE)
  BY DEF AppendLine
<1>3. length \in Nat
  BY <1>1, <1>2
<1> QED BY <1>2, <1>3 DEF ReaderWrites

LEMMA LogStepKeeps == LogInv /\ [LogNext]_logVars => LogInv'
<1> SUFFICES ASSUME LogInv, [LogNext]_logVars PROVE LogInv'
  OBVIOUS
<1>0. ReaderTyped /\ MaxChunks \in Nat /\ Omitted \in Nat /\ LineLimit \in Nat
  BY SizesAssumption, ChunksAssumption DEF LogInv, LogTypeOK, ReaderTyped
<1>1. ASSUME ReaderTyped', ReaderWrites, finish' # "done" => finish # "done",
             finish' = "done" => finish = "done"
      PROVE  LogInv'
  BY <1>1, ReaderKeeps DEF LogInv, LogTypeOK, ReaderTyped, FileTyped
<1>2. CASE ReadChunk
  <2>1. chunk' \in Seq(Nat)
    BY <1>2, ChunksAssumption DEF ReadChunk
  <2>2. reads' \in 0..MaxChunks
    BY <1>0, <1>2 DEF ReadChunk, ReaderTyped
  <2>3. stream' \in {"open", "blocked", "closed"}
    BY <1>0, <1>2 DEF ReadChunk, ReaderTyped
  <2>4. newline' = FALSE /\ UNCHANGED <<pending, dropping, reader, finish>>
    BY <1>2 DEF ReadChunk
  <2>5. ReaderTyped'
    BY <1>0, <2>1, <2>2, <2>3, <2>4 DEF ReaderTyped
  <2> QED BY <1>1, <1>2, <2>5 DEF ReadChunk, ReaderWrites
<1>3. CASE EndLine
  <2>0. /\ pending' = 0 /\ dropping' = FALSE /\ newline' = FALSE
        /\ UNCHANGED <<chunk, reader, stream, reads, finish>>
    BY <1>3 DEF EndLine
  <2>a. newline' \in BOOLEAN /\ dropping' \in BOOLEAN
    BY <2>0
  <2>b. pending' \in 0..LineLimit
    BY <1>0, <2>0
  <2>1. ReaderTyped'
    BY <1>0, <2>0, <2>a, <2>b DEF ReaderTyped
  <2>2. ReaderWrites
    BY <1>0, <1>3, LineLengths DEF EndLine, ReaderWrites, ReaderTyped
  <2> QED BY <1>1, <1>3, <2>1, <2>2 DEF EndLine
<1>4. CASE TakePart
  BY <1>0, <1>1, <1>4, TakePartTyped DEF TakePart, ReaderWrites
<1>5. CASE EndOutput
  <2>1. ReaderTyped'
    BY <1>0, <1>5 DEF EndOutput, ReaderTyped
  <2>2. ReaderWrites
    BY <1>0, <1>5, LineLengths DEF EndOutput, ReaderWrites, ReaderTyped
  <2> QED BY <1>1, <1>5, <2>1, <2>2 DEF EndOutput
<1>6. CASE ReadFails
  <2>1. ReaderTyped'
    BY <1>0, <1>6 DEF ReadFails, ReaderTyped
  <2> QED BY <1>1, <1>6, <2>1 DEF ReadFails, ReaderWrites
<1>7. CASE Close
  <2>1. ReaderTyped'
    BY <1>0, <1>7 DEF Close, ReaderTyped
  <2> QED BY <1>1, <1>7, <2>1 DEF Close, ReaderWrites
<1>8. CASE Summarise
  <2>1. ReaderTyped'
    BY <1>0, <1>8 DEF Summarise, readerVars, ReaderTyped
  <2> QED BY <1>8, <2>1, SummaryKeeps DEF LogInv, LogTypeOK, ReaderTyped, FileTyped
<1>9. CASE UNCHANGED logVars
  <2>1. ReaderTyped'
    BY <1>0, <1>9 DEF logVars, readerVars, ReaderTyped
  <2> QED BY <1>1, <1>9, <2>1 DEF logVars, ReaderWrites
<1> QED BY <1>2, <1>3, <1>4, <1>5, <1>6, <1>7, <1>8, <1>9 DEF LogNext

LEMMA LogStarts == LogInit => LogInv
<1> SUFFICES ASSUME LogInit PROVE LogInv
  OBVIOUS
<1>0. LineLimit \in Nat /\ MaxChunks \in Nat /\ <<>> \in Seq(Entry) /\ <<>> \in Seq(Nat)
  BY SizesAssumption, ChunksAssumption
<1>a. newline \in BOOLEAN /\ dropping \in BOOLEAN /\ truncated \in BOOLEAN
  BY DEF LogInit
<1>b. pending \in 0..LineLimit /\ reads \in 0..MaxChunks /\ size \in Nat
  BY <1>0 DEF LogInit
<1>1. LogTypeOK
  BY <1>0, <1>a, <1>b DEF LogInit, LogTypeOK
<1>2. FileInv /\ SummaryWhole
  BY SizesAssumption DEF LogInit, FileInv, MarksRemembered, NoGapAfterMark, SummaryWhole
<1>3. ReserveKept
  BY SizesAssumption, ReserveAssumption DEF LogInit, ReserveKept
<1> QED BY <1>1, <1>2, <1>3 DEF LogInv

(* However long the lines, however they arrive and whenever the reader is  *)
(* given up: the log keeps to its limit, holds the summary whole and has   *)
(* no gap before its mark.                                                 *)
THEOREM LogIsBounded == LogSpec => []LogKeepsSummary
<1>1. LogInv => LogKeepsSummary
  BY DEF LogInv, FileInv, LogKeepsSummary
<1> QED BY <1>1, LogStarts, LogStepKeeps, PTL DEF LogSpec

----------------------------------------------------------------------------
(* A command.                                                              *)

(* What was written is in the pipe or was kept, until some was dropped.    *)
BytesKept == captured + piped <= written /\ (~exceeded => captured + piped = written)

(* The end of the output is final: the writers are gone and nothing is     *)
(* left to read; it is not found once the pipe is being closed.            *)
EndFinal ==
    /\ drain = "ended" => piped = 0 /\ ~Writers
    /\ caller \in {"closing", "returned"} => pipe # "open"

(* A child that still runs when the caller stops polling is killed, and    *)
(* the caller leaves with an error.                                        *)
ChildEnds ==
    /\ caller = "stopping" /\ ~raising => child = "exited"
    /\ caller = "polling" => child # "killed"
    /\ caller \in {"joining", "closing", "returned"} =>
          child # "running" /\ (~raising => child = "exited")

OutcomeOK ==
    /\ outcome # "none" <=> caller = "returned"
    /\ outcome = "ok" => ~raising /\ (drain = "ended" => ~exceeded)

CommandInv == CommandTypeOK /\ BytesKept /\ EndFinal /\ ChildEnds /\ OutcomeOK

LEMMA CommandSizes == /\ Capture \in Nat /\ MaxWritten \in Nat /\ Chunk \in Nat
                      /\ 0 \in 0..Capture /\ 0 \in 0..MaxWritten
BY CommandLimits, ResearchLimits

LEMMA CommandStarts == CommandInit => CommandInv
<1> SUFFICES ASSUME CommandInit PROVE CommandInv
  OBVIOUS
<1>1. CommandTypeOK
  BY CommandSizes DEF CommandInit, CommandTypeOK
<1>2. BytesKept /\ EndFinal /\ ChildEnds /\ OutcomeOK
  BY DEF CommandInit, BytesKept, EndFinal, ChildEnds, OutcomeOK
<1> QED BY <1>1, <1>2 DEF CommandInv

LEMMA CommandKeeps == CommandInv /\ [CommandNext]_commandVars => CommandInv'
<1> SUFFICES ASSUME CommandInv, [CommandNext]_commandVars PROVE CommandInv'
  OBVIOUS
<1> USE CommandSizes DEF CommandInv, CommandTypeOK
<1>1. CASE UNCHANGED commandVars
  BY <1>1 DEF commandVars, BytesKept, EndFinal, Writers, ChildEnds, OutcomeOK
<1>2. CASE Output
  <2>1. PICK n \in 1..MaxWritten - written : written' = written + n /\ piped' = piped + n
    BY <1>2 DEF Output
  <2>2. written' \in 0..MaxWritten /\ piped' \in 0..MaxWritten /\ BytesKept'
    BY <1>2, <2>1 DEF Output, BytesKept
  <2> QED BY <1>2, <2>2 DEF Output, EndFinal, Writers, ChildEnds, OutcomeOK
<1>3. CASE Spawn \/ ExitChild \/ DescendantExits
  <2>1. CommandTypeOK'
    BY <1>3 DEF Spawn, ExitChild, DescendantExits
  <2>2. EndFinal'
    BY <1>3 DEF Spawn, ExitChild, DescendantExits, EndFinal, Writers
  <2>3. BytesKept' /\ OutcomeOK' /\ ChildEnds'
    BY <1>3 DEF Spawn, ExitChild, DescendantExits, BytesKept, OutcomeOK, ChildEnds
  <2> QED BY <2>1, <2>2, <2>3
<1>4. CASE ReadOutput
  <2>1. PICK n \in 1..Chunk : /\ n <= piped /\ piped' = piped - n
                              /\ captured' = captured + Kept(n)
                              /\ exceeded' = (exceeded \/ Kept(n) < n)
    BY <1>4 DEF ReadOutput
  <2>2. Kept(n) \in 0..n /\ captured + Kept(n) <= Capture
    BY <2>1 DEF Kept
  <2>3. captured' \in 0..Capture /\ piped' \in 0..MaxWritten /\ exceeded' \in BOOLEAN
    BY <2>1, <2>2
  <2>4. (~exceeded' => ~exceeded /\ Kept(n) = n) /\ (exceeded => exceeded')
    <3>1. exceeded' <=> (exceeded \/ Kept(n) < n)
      BY <2>1, Zenon
    <3> QED BY <2>2, <3>1
  <2>5. BytesKept'
    BY <1>4, <2>1, <2>2, <2>4 DEF ReadOutput, BytesKept
  <2> QED BY <1>4, <2>3, <2>5 DEF ReadOutput, EndFinal, Writers, ChildEnds, OutcomeOK
<1>5. CASE EndOfOutput
  <2>1. caller \notin {"closing", "returned"}
    BY <1>5 DEF EndOfOutput, EndFinal
  <2> QED BY <1>5, <2>1 DEF EndOfOutput, BytesKept, EndFinal, Writers, ChildEnds, OutcomeOK
<1>8. CASE Stop
  <2>1. /\ child' \in {child, "killed"} /\ child' # "running"
        /\ (child # "running" => child' = child)
        /\ descendant' \in BOOLEAN /\ (descendant' => descendant)
        /\ UNCHANGED <<written, piped, captured, exceeded, drain, pipe, raising, outcome>>
        /\ caller = "stopping" /\ caller' = "joining"
    BY <1>8 DEF Stop
  <2>2. CommandTypeOK'
    BY <2>1
  <2>3. BytesKept' /\ EndFinal' /\ ChildEnds' /\ OutcomeOK'
    BY <2>1 DEF BytesKept, EndFinal, ChildEnds, OutcomeOK, Writers
  <2> QED BY <2>2, <2>3
<1>6. CASE DrainFails \/ Poll \/ Join
  <2>1. CommandTypeOK' /\ BytesKept'
    BY <1>6 DEF DrainFails, Poll, Join, BytesKept
  <2>2. EndFinal'
    BY <1>6 DEF DrainFails, Poll, Join, EndFinal, Writers
  <2>3. ChildEnds' /\ OutcomeOK'
    BY <1>6 DEF DrainFails, Poll, Join, ChildEnds, OutcomeOK
  <2> QED BY <2>1, <2>2, <2>3
<1>7. CASE Report
  BY <1>7 DEF Report, Refused, BytesKept, EndFinal, Writers, ChildEnds, OutcomeOK
<1> QED BY <1>1, <1>2, <1>3, <1>4, <1>5, <1>6, <1>7, <1>8 DEF CommandNext

(* However fast a command writes, whatever it leaves behind and whenever   *)
(* it ends or is killed: what is kept is bounded, it no longer runs when   *)
(* its outcome is known, a success was not killed, and it was not cut      *)
(* short either when its output was read to the end: what an orphan that   *)
(* holds the pipe open keeps from the reader may be missing.               *)
THEOREM CommandIsBounded == CommandSpec => []OutputBounded
<1>1. CommandInv => OutputBounded
  BY CommandLimits DEF CommandInv, CommandTypeOK, BytesKept, EndFinal, ChildEnds, OutcomeOK, OutputBounded
<1> QED BY <1>1, CommandStarts, CommandKeeps, PTL DEF CommandSpec

----------------------------------------------------------------------------
(* All of them: the run MCWorkers.                                         *)

(* The rest of the registry's types.                                       *)
RegistryRest ==
    /\ file \in STATUSES \cup {"none", "partial"}
    /\ stage \in {"draft", "files", "test", "tests", "ran", "review", "judge", "canary", "execute",
                  "withdraw", "verify", "over"}
    /\ withdrawn \in BOOLEAN
    /\ calls \in 0..MaxCalls /\ deaths \in 0..MaxDeaths

LEMMA RestStarts == RegistryInit => RegistryRest
<1> SUFFICES ASSUME RegistryInit PROVE RegistryRest
  OBVIOUS
<1>1. withdrawn \in BOOLEAN
  BY DEF RegistryInit
<1> QED BY <1>1, RegistryBounds DEF RegistryInit, RegistryRest

LEMMA RestCallStep ==
  ASSUME RegistryInv, RegistryRest, NEW p \in Callers, CallStep(p)
  PROVE  RegistryRest'
<1>1. call[p].next \in {"tests", "ran", "review", "judge", "canary", "execute", "verify", "over"}
      /\ call[p].want \in STATUSES
  BY DEF RegistryInv, Call
<1>2. CASE List(p) \/ ReadRow(p) \/ ReadFile(p) \/ Run(p)
  <2>1. UNCHANGED <<file, withdrawn, calls, deaths>>
    BY <1>2 DEF List, ReadRow, ReadFile, Run
  <2>2. call[p].kind \in {"load", "catalog", "status", "invoke"}
    BY DEF RegistryInv, Call
  <2>3. ReadFile(p) => Return(p) \/ Raise(p) \/ UNCHANGED stage
    BY <2>2 DEF ReadFile, Goes
  <2>4. List(p) \/ ReadRow(p) \/ Run(p) => Return(p) \/ Raise(p) \/ UNCHANGED stage
    BY DEF List, ReadRow, Run, Goes
  <2> QED BY <1>1, <1>2, <2>1, <2>3, <2>4 DEF RegistryRest, Return, Raise
<1>3. CASE Truncate(p) \/ WriteFile(p)
  <2>1. file' \in STATUSES \cup {"none", "partial"}
    BY <1>1, <1>3 DEF Truncate, WriteFile
  <2>2. UNCHANGED <<stage, withdrawn, calls, deaths>>
    BY <1>3 DEF Truncate, WriteFile, Goes
  <2> QED BY <2>1, <2>2 DEF RegistryRest
<1>4. CASE UpdateRow(p)
  <2>1. withdrawn' = (call[p].want = "disabled" /\ ~Contended(p)) \/ withdrawn' = withdrawn
    BY <1>4 DEF UpdateRow
  <2>2. withdrawn' \in BOOLEAN
    BY <2>1, Zenon DEF RegistryRest
  <2> QED BY <1>1, <1>4, <2>2 DEF UpdateRow, Return, RegistryRest
<1>5. CASE Die(p)
  <2>1. deaths' \in 0..MaxDeaths
    BY <1>5, RegistryBounds DEF Die, RegistryRest
  <2> QED BY <1>5, <2>1 DEF Die, RegistryRest
<1> QED BY <1>2, <1>3, <1>4, <1>5 DEF CallStep

LEMMA RestKeeps == RegistryInv /\ RegistryRest /\ [RegistryNext]_registryVars => RegistryRest'
<1> SUFFICES ASSUME RegistryInv, RegistryRest, [RegistryNext]_registryVars PROVE RegistryRest'
  OBVIOUS
<1>1. CASE CreateFiles \/ InsertRow \/ RunTests
  BY <1>1 DEF CreateFiles, InsertRow, RunTests, RegistryRest, STATUSES
<1>2. CASE StageStep
  BY <1>2 DEF StageStep, RegistryRest
<1>3. ASSUME NEW p, OwnerSets(p) \/ RunTool(p) PROVE RegistryRest'
  <2>1. calls' \in 0..MaxCalls
    BY <1>3, RegistryBounds DEF OwnerSets, RunTool, RegistryRest
  <2> QED BY <1>3, <2>1 DEF OwnerSets, RunTool, RegistryRest
<1>4. CASE UNCHANGED registryVars
  BY <1>4 DEF registryVars, RegistryRest
<1> QED BY <1>1, <1>2, <1>3, <1>4, RestCallStep DEF RegistryNext

(* A row that is not there yet is no row; any other has a status.          *)
LEMMA RegistryTyped == RegistryInv /\ Fresh /\ RegistryRest => RegistryTypeOK
<1> SUFFICES ASSUME RegistryInv, Fresh, RegistryRest PROVE RegistryTypeOK
  OBVIOUS
<1>1. row = NoRow \/ row \in [status : STATUSES, report : Reports]
  BY DEF Fresh, RowType
<1> QED BY <1>1 DEF RegistryInv, RegistryRest, RegistryTypeOK

(* The rest of the migrations' types: the transaction's schema is within   *)
(* the versions' changes.                                                  *)
MigrationRest ==
    /\ \A v \in Versions : work[v] <= Changes[v]
    /\ writer \in {"nobody"} \cup Openers
    /\ faults \in 0..MaxFaults

LEMMA SchemaStarts == MigrationInit => MigrationRest
<1> SUFFICES ASSUME MigrationInit PROVE MigrationRest
  OBVIOUS
<1>1. \A v \in Versions : schema[v] <= Changes[v]
  BY MigrationStarts DEF MigrationInv
<1> QED BY <1>1, FaultsAssumption DEF MigrationInit, MigrationRest

LEMMA SchemaKeeps == MigrationInv /\ MigrationRest /\ [MigrationNext]_migrationVars => MigrationRest'
<1> SUFFICES ASSUME MigrationInv, MigrationRest, [MigrationNext]_migrationVars PROVE MigrationRest'
  OBVIOUS
<1>1. ASSUME NEW p \in Openers, Connect(p) \/ Begin(p) \/ Commit(p) PROVE MigrationRest'
  <2>1. work' = work \/ work' = schema
    BY <1>1 DEF Connect, Begin, Commit
  <2>2. writer' \in {writer, "nobody", p} /\ faults' = faults
    BY <1>1 DEF Connect, Begin, Commit
  <2> QED BY <2>1, <2>2 DEF MigrationInv, MigrationRest
<1>2. ASSUME NEW p \in Openers, Abort(p), faults' \in 0..MaxFaults PROVE MigrationRest'
  BY <1>2 DEF Abort, AfterRollback, MigrationInv, MigrationRest
<1>3. ASSUME NEW p \in Openers, Change(p) PROVE MigrationRest'
  <2> DEFINE v == Version(p)
  <2> DEFINE n == opener[p].done + 1
  <2>1. n <= Changes[v] /\ faults' = faults
    BY <1>3 DEF Change
  <2>2. CASE Abort(p)
    BY <1>2, <2>1, <2>2 DEF MigrationRest
  <2>3. CASE work' = [work EXCEPT ![v] = IF @ < n THEN n ELSE @] /\ UNCHANGED writer
    <3>1. \A u \in Versions : work'[u] = work[u] \/ (u = v /\ work'[u] = n)
      BY <2>3 DEF MigrationInv
    <3> QED BY <2>1, <2>3, <3>1 DEF MigrationRest
  <2> QED BY <1>3, <2>2, <2>3 DEF Change
<1>4. ASSUME NEW p \in Openers, Fault(p) PROVE MigrationRest'
  <2>1. faults' \in 0..MaxFaults
    BY <1>4, FaultsAssumption DEF Fault, MigrationRest
  <2> QED BY <1>2, <1>4, <2>1 DEF Fault, MigrationRest
<1>5. CASE UNCHANGED migrationVars
  BY <1>5 DEF migrationVars, MigrationRest
<1> QED BY <1>1, <1>3, <1>4, <1>5 DEF MigrationNext, MigrationStep

LEMMA MigrationTyped == MigrationInv /\ MigrationRest => MigrationTypeOK
BY DEF MigrationInv, MigrationRest, MigrationTypeOK, Schemas, Opener

(* The stores and what a worker does beside its task; and the task: of an  *)
(* executive, or of a research, with nothing of the other's used.          *)
StoresInv ==
    /\ RegistryInv /\ Fresh /\ RegistryRest
    /\ SelfInv /\ LogInv /\ CommandInv
    /\ MigrationInv /\ MigrationRest

TaskInv ==
    /\ part = "executive" => ExecutiveInv /\ PlanOK /\ FetchInit
    /\ part # "executive" => ResearchInv /\ PagesOK /\ PlanInit

(* Every step is one of each part's own, or leaves the part alone.         *)
LEMMA PartsStep ==
  ASSUME [Next]_vars
  PROVE  /\ [RegistryNext]_registryVars /\ [SelfNext]_selfVars /\ [LogNext]_logVars
         /\ [CommandNext]_commandVars /\ [MigrationNext]_migrationVars
         /\ part' = part
<1>1. CASE RegistryStep
  BY <1>1 DEF RegistryStep
<1>2. CASE SelfStep
  BY <1>2 DEF SelfStep
<1>3. CASE ResearchStep
  BY <1>3 DEF ResearchStep
<1>4. CASE ExecutiveStep
  BY <1>4 DEF ExecutiveStep
<1>5. CASE LogStep
  BY <1>5 DEF LogStep
<1>6. CASE CommandStep
  BY <1>6 DEF CommandStep
<1>7. CASE SchemaStep
  BY <1>7 DEF SchemaStep
<1>8. CASE UNCHANGED vars
  BY <1>8 DEF vars
<1> QED BY <1>1, <1>2, <1>3, <1>4, <1>5, <1>6, <1>7, <1>8 DEF Next

LEMMA TaskStep ==
  ASSUME [Next]_vars
  PROVE  /\ part = "executive" => [ExecutiveNext]_executiveVars /\ UNCHANGED <<budgetVars, fetchVars>>
         /\ part # "executive" => [ResearchNext]_researchVars /\ UNCHANGED <<planVars, asked, invoked>>
<1>1. CASE ResearchStep
  BY <1>1 DEF ResearchStep
<1>2. CASE ExecutiveStep
  BY <1>2 DEF ExecutiveStep
<1>3. ASSUME UNCHANGED <<researchVars, executiveVars>>
      PROVE  UNCHANGED <<researchVars, executiveVars, budgetVars, fetchVars, planVars, asked, invoked>>
  BY <1>3 DEF researchVars, executiveVars
<1>4. CASE RegistryStep \/ SelfStep \/ LogStep \/ CommandStep \/ SchemaStep
  BY <1>3, <1>4 DEF RegistryStep, SelfStep, LogStep, CommandStep, SchemaStep
<1>5. CASE UNCHANGED vars
  BY <1>3, <1>5 DEF vars
<1> QED BY <1>1, <1>2, <1>4, <1>5 DEF Next

LEMMA StoresHold == Spec => []StoresInv
<1>1. Init => StoresInv
  BY RegistryStarts, FreshStarts, RestStarts, SelfStarts, LogStarts, CommandStarts, MigrationStarts,
     SchemaStarts DEF Init, StoresInv
<1>2. StoresInv /\ [Next]_vars => StoresInv'
  BY PartsStep, RegistryKeeps, FreshKeeps, RestKeeps, SelfKeeps, LogStepKeeps, CommandKeeps,
     MigrationKeeps, SchemaKeeps DEF StoresInv
<1> QED BY <1>1, <1>2, PTL DEF Spec

LEMMA TaskHolds == Spec => []TaskInv
<1>1. Init => TaskInv
  <2>1. Init /\ part = "executive" => ExecutiveInit /\ FetchInit
    BY DEF Init, ExecutiveInit
  <2>2. Init /\ part # "executive" => ResearchInit /\ PlanInit
    BY DEF Init, ResearchInit
  <2> QED BY <2>1, <2>2, ExecutiveStarts, PlanStarts, ResearchStarts, PagesStart DEF TaskInv
<1>2. TaskInv /\ [Next]_vars => TaskInv'
  <2> SUFFICES ASSUME TaskInv, [Next]_vars PROVE TaskInv'
    OBVIOUS
  <2>1. part' = part
    BY PartsStep
  <2>2. FetchInit /\ UNCHANGED <<budgetVars, fetchVars>> => FetchInit'
    BY DEF FetchInit, budgetVars, fetchVars, NewPage
  <2>3. PlanInit /\ UNCHANGED <<planVars, asked, invoked>> => PlanInit'
    BY DEF PlanInit, planVars
  <2> QED BY <2>1, <2>2, <2>3, TaskStep, ExecutiveStepKeeps, PlanKeeps, ResearchStepKeeps, PagesKeep
         DEF TaskInv
<1> QED BY <1>1, <1>2, PTL DEF Spec

(* Rows, files, calls, transactions, logs, commands, pages and plans keep  *)
(* their types.                                                            *)
THEOREM WorkersTypeCorrect == Spec => []TypeOK
<1>1. StoresInv /\ TaskInv => TypeOK
  BY RegistryTyped, MigrationTyped, ResearchTyped, ExecutiveTyped
  DEF StoresInv, TaskInv, SelfInv, LogInv, CommandInv, TypeOK
<1> QED BY <1>1, StoresHold, TaskHolds, PTL

(* Whatever servers send, the model proposes or a command writes: what one *)
(* task uses up is bounded, over all its pages, answers and steps.         *)
THEOREM WorkersWithinBudgets == Spec => []BudgetsHold
<1>1. CommandInv => OutputBounded
  BY CommandLimits DEF CommandInv, CommandTypeOK, BytesKept, EndFinal, ChildEnds, OutcomeOK, OutputBounded
<1>2. ExecutiveInv /\ FetchInit => ResearchBudgets /\ ExecutiveBudgets
  BY ResearchLimits
  DEF FetchInit, ExecutiveInv, CallsCounted, StepsCounted, ExecutiveInTime, ExecutiveBudgets, ResearchBudgets
<1>3. ResearchInv /\ PlanInit => ResearchBudgets /\ ExecutiveBudgets
  BY ExecutiveLimit DEF PlanInit, ResearchInv, Balance, Covered, ResearchInTime, ExecutiveBudgets, ResearchBudgets
<1>4. StoresInv /\ TaskInv => BudgetsHold
  BY <1>1, <1>2, <1>3 DEF StoresInv, TaskInv, BudgetsHold
<1> QED BY <1>4, StoresHold, TaskHolds, PTL

(* A cancel is heeded by every worker that looks at it: one effect more at *)
(* most, and no completion.                                                *)
THEOREM WorkersHeedCancel == Spec => []CancelHeeded
<1>1. TaskInv => CancelHeeded
  BY DEF TaskInv, ResearchInv, ExecutiveInv, RowOK, LateOK, ResearchHeeds, ExecutiveHeeds, CancelHeeded
<1> QED BY <1>1, TaskHolds, PTL

=============================================================================
