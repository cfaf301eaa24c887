----------------------------- MODULE Migrations -----------------------------
(***************************************************************************)
(* Opening the database (src/lilith/migrations.py, database.py): every     *)
(* process migrates the schema it finds before it uses it, beside other    *)
(* processes that open the same file, and may fail or be killed at any     *)
(* statement.  A version's changes are counted: n of them are present.     *)
(***************************************************************************)
EXTENDS Integers, Sequences

CONSTANTS Openers,      \* processes that open the database
          Changes,      \* the number of statements of each version
          MaxFaults     \* bound: failures and deaths while migrating

ASSUME ChangesAssumption == Changes \in Seq(Nat \ {0}) /\ Changes # <<>>
ASSUME OpenersAssumption == "nobody" \notin Openers
ASSUME FaultsAssumption == MaxFaults \in Nat

VARIABLES
    schema,     \* committed: how many of each version's changes are present
    recorded,   \* committed: schema_migrations
    work,       \* the schema as the write transaction under way has it
    writer,     \* the process in a write transaction
    opener,     \* where each process is
    refused,    \* history: processes that failed on what they found
    faults

migrationVars == <<schema, recorded, work, writer, opener, refused, faults>>

Versions == DOMAIN Changes
Schemas == {s \in [Versions -> Nat] : \A v \in Versions : s[v] <= Changes[v]}

Closed == [at |-> "closed", version |-> 0, done |-> 0]

MigrationTypeOK ==
    /\ schema \in Schemas /\ work \in Schemas
    /\ recorded \subseteq Versions
    /\ writer \in {"nobody"} \cup Openers
    /\ opener \in [Openers -> [at : {"closed", "begin", "change", "open"}, version : 0..Len(Changes) + 1,
                            done : Nat]]
    /\ refused \subseteq Openers
    /\ faults \in 0..MaxFaults

(* Only the first version knows databases without records: its statements  *)
(* create what is not there yet.                                           *)
IfNotExists(v) == v = 1

(* A new database, or one from before the migrations with some tables.     *)
MigrationInit ==
    /\ \E n \in 0..Changes[1] : schema = [v \in Versions |-> IF v = 1 THEN n ELSE 0]
    /\ recorded = {}
    /\ work = schema /\ writer = "nobody"
    /\ opener = [p \in Openers |-> Closed]
    /\ refused = {} /\ faults = 0

----------------------------------------------------------------------------

At(p, place) == opener[p].at = place
Version(p) == opener[p].version

Goto(p, place, version) == opener' = [opener EXCEPT ![p] = [at |-> place, version |-> version, done |-> 0]]

(* The next version, or the schema is complete.                            *)
Onwards(p) ==
    LET next == Version(p) + 1 IN
    IF next > Len(Changes) THEN Goto(p, "open", next) ELSE Goto(p, "begin", next)

(* Connect, and the table schema_migrations if there is none.              *)
Connect(p) ==
    /\ At(p, "closed")
    /\ Goto(p, "begin", 1)
    /\ UNCHANGED <<schema, recorded, work, writer, refused, faults>>

(* BEGIN IMMEDIATE, for which one waits, and the look for the record.      *)
Begin(p) ==
    /\ At(p, "begin") /\ writer = "nobody"
    /\ IF Version(p) \in recorded
       THEN Onwards(p) /\ UNCHANGED writer
       ELSE writer' = p /\ Goto(p, "change", Version(p))
    /\ work' = schema
    /\ UNCHANGED <<schema, recorded, refused, faults>>

(* Mutant: a connection that commits every statement by itself.            *)
AfterRollback_Autocommit == work

(* rollback, or the journal of a dead process: nothing was committed.      *)
AfterRollback == schema

Abort(p) ==
    /\ schema' = AfterRollback /\ work' = AfterRollback
    /\ writer' = "nobody"
    /\ opener' = [opener EXCEPT ![p] = Closed]

(* One statement: to create what is there already is an error, but where   *)
(* the statement says IF NOT EXISTS.                                       *)
Change(p) ==
    LET v == Version(p)  n == opener[p].done + 1 IN
    /\ At(p, "change") /\ n <= Changes[v]
    /\ IF work[v] < n \/ IfNotExists(v)
       THEN /\ work' = [work EXCEPT ![v] = IF @ < n THEN n ELSE @]
            /\ opener' = [opener EXCEPT ![p].done = n]
            /\ UNCHANGED <<schema, writer, refused>>
       ELSE Abort(p) /\ refused' = refused \cup {p}
    /\ UNCHANGED <<recorded, faults>>

(* All statements done: the record, and commit.                            *)
Commit(p) ==
    LET v == Version(p) IN
    /\ At(p, "change") /\ opener[p].done = Changes[v]
    /\ schema' = work /\ recorded' = recorded \cup {v}
    /\ writer' = "nobody"
    /\ Onwards(p)
    /\ UNCHANGED <<work, refused, faults>>

(* The lock is not had in time, a statement fails, the process is killed:  *)
(* it, or another in its place, may connect again.                         *)
Fault(p) ==
    /\ opener[p].at \in {"begin", "change"} /\ faults < MaxFaults
    /\ faults' = faults + 1
    /\ IF writer = p THEN Abort(p) ELSE opener' = [opener EXCEPT ![p] = Closed]
                                        /\ UNCHANGED <<schema, work, writer>>
    /\ UNCHANGED <<recorded, refused>>

MigrationStep(p) == Connect(p) \/ Begin(p) \/ Change(p) \/ Commit(p) \/ Fault(p)

MigrationNext == \E p \in Openers : MigrationStep(p)

MigrationSpec == MigrationInit /\ [][MigrationNext]_migrationVars

----------------------------------------------------------------------------

(* Whichever processes open the database together and whenever one of them *)
(* dies: a version is in the schema whole if it is recorded, after all     *)
(* those before it, and not at all if it is not, so that nobody ever fails *)
(* on another's half; and who has opened the database has all of it.       *)
Whole(v) ==
    IF v \in recorded THEN schema[v] = Changes[v] /\ 1..v \subseteq recorded
    ELSE IfNotExists(v) \/ schema[v] = 0

MigratedOnce ==
    /\ \A v \in Versions : Whole(v)
    /\ refused = {}
    /\ \A p \in Openers : At(p, "open") => recorded = Versions

=============================================================================
