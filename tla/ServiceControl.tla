--------------------------- MODULE ServiceControl ---------------------------
(***************************************************************************)
(* How the runtime is started, kept up and stopped                         *)
(* (src/lilith/service.py): clients that ensure a service, the watchdog    *)
(* that each of them may launch, the runtime process that a watchdog       *)
(* starts and restarts, and the owner's stop request, a flag in the        *)
(* runtime_status row that clients, watchdogs and runtimes all write.      *)
(* Every action is one transaction, one lock operation or the start or end *)
(* of a process.                                                           *)
(***************************************************************************)
EXTENDS Integers, FiniteSets

CONSTANTS Clients,      \* terminals and dashboards that call ensure_service
          Watchdogs,    \* bound: the watchdog processes that may be launched
          Attempts,     \* runtimes that one watchdog starts at most
          MaxStops,     \* bound: stop requests
          MaxCrashes    \* bound: failures of a runtime, kills of a watchdog

ASSUME AttemptsAssumption == Attempts \in Nat \ {0}
ASSUME ControlBounds == MaxStops \in Nat /\ MaxCrashes \in Nat
ASSUME DistinctProcesses == Clients \cap Watchdogs = {} /\ "no one" \notin Clients \cup Watchdogs

VARIABLES
    row,        \* runtime_status: the watchdog whose runtime it names, the flag
    lock,       \* who holds the runtime lock: a watchdog's runtime or a probe
    wlock,      \* the watchdog that holds the watchdog lock
    client,     \* where each call of ensure_service is
    watchdog,   \* where each watchdog is
    attempt,    \* the runtimes each watchdog has started
    run,        \* the runtime that each watchdog started last
    heard,      \* history: the runtimes that were serving when asked to stop
    stops, failures

controlVars == <<row, lock, wlock, client, watchdog, attempt, run, heard, stops, failures>>

NoOne == "no one"
NoRow == [of |-> NoOne, stop |-> FALSE]     \* runtime_status is empty

ControlTypeOK ==
    /\ row \in {NoRow} \cup [of : Watchdogs, stop : BOOLEAN]
    /\ lock \in {NoOne} \cup Watchdogs \cup Clients
    /\ wlock \in {NoOne} \cup Watchdogs
    /\ client \in [Clients -> {"idle", "probe", "probing", "clear", "launch"}]
    /\ watchdog \in [Watchdogs -> {"none", "lock", "spawn", "wait", "read", "sleep", "gone"}]
    /\ attempt \in [Watchdogs -> 0..Attempts]
    /\ run \in [Watchdogs -> {"none", "start", "boot", "serve", "closing0", "closing1", "exit0", "exit1"}]
    /\ heard \in SUBSET Watchdogs
    /\ stops \in 0..MaxStops
    /\ failures \in 0..MaxCrashes

ControlInit ==
    /\ row = NoRow /\ lock = NoOne /\ wlock = NoOne
    /\ client = [c \in Clients |-> "idle"]
    /\ watchdog = [w \in Watchdogs |-> "none"]
    /\ attempt = [w \in Watchdogs |-> 0]
    /\ run = [w \in Watchdogs |-> "none"]
    /\ heard = {} /\ stops = 0 /\ failures = 0

----------------------------------------------------------------------------

Running(w) == run[w] \in {"start", "boot", "serve", "closing0", "closing1"}

(* status: the row names a process that runs.  A runtime that has not yet  *)
(* written its row is not named by it.                                     *)
Alive == row # NoRow /\ run[row.of] \in {"serve", "closing0", "closing1"}

Flag(value) == IF row = NoRow THEN row ELSE [row EXCEPT !.stop = value]

(* Mutant: the lock's file is taken away, whoever holds it.                *)
Unlocked_Any(w) == NoOne

(* A runtime's lock is released when its process ends.                     *)
Unlocked(w) == IF lock = w THEN NoOne ELSE lock

----------------------------------------------------------------------------
(* ensure_service.                                                         *)

Ensure(c) ==
    /\ client[c] = "idle" /\ ~Alive
    /\ client' = [client EXCEPT ![c] = "probe"]
    /\ UNCHANGED <<row, lock, wlock, watchdog, attempt, run, heard, stops, failures>>

(* The probe for a legacy console: a held lock is an error.                *)
Probe(c) ==
    /\ client[c] = "probe"
    /\ IF lock = NoOne
       THEN lock' = c /\ client' = [client EXCEPT ![c] = "probing"]
       ELSE client' = [client EXCEPT ![c] = "idle"] /\ UNCHANGED lock
    /\ UNCHANGED <<row, wlock, watchdog, attempt, run, heard, stops, failures>>

EndProbe(c) ==
    /\ client[c] = "probing"
    /\ lock' = NoOne
    /\ client' = [client EXCEPT ![c] = "clear"]
    /\ UNCHANGED <<row, wlock, watchdog, attempt, run, heard, stops, failures>>

Clear(c) ==
    /\ client[c] = "clear"
    /\ row' = Flag(FALSE)
    /\ heard' = {}
    /\ client' = [client EXCEPT ![c] = "launch"]
    /\ UNCHANGED <<lock, wlock, watchdog, attempt, run, stops, failures>>

(* The wait that follows ends with the service alive, with the watchdog's  *)
(* exit or at a deadline, and changes nothing.                             *)
Launch(c) ==
    \E w \in Watchdogs :
        /\ client[c] = "launch" /\ watchdog[w] = "none"
        /\ watchdog' = [watchdog EXCEPT ![w] = "lock"]
        /\ client' = [client EXCEPT ![c] = "idle"]
        /\ UNCHANGED <<row, lock, wlock, attempt, run, heard, stops, failures>>

(* The owner: /shutdown in a dashboard, or the stop command.               *)
StopCommand ==
    /\ stops < MaxStops
    /\ stops' = stops + 1
    /\ row' = Flag(TRUE)
    /\ heard' = IF row # NoRow /\ run[row.of] = "serve" THEN heard \cup {row.of} ELSE heard
    /\ UNCHANGED <<lock, wlock, client, watchdog, attempt, run, failures>>

----------------------------------------------------------------------------
(* watch_service.                                                          *)

WatchdogLock(w) ==
    /\ watchdog[w] = "lock"
    /\ IF wlock = NoOne
       THEN wlock' = w /\ watchdog' = [watchdog EXCEPT ![w] = "spawn"]
       ELSE watchdog' = [watchdog EXCEPT ![w] = "gone"] /\ UNCHANGED wlock
    /\ UNCHANGED <<row, lock, client, attempt, run, heard, stops, failures>>

Spawn(w) ==
    /\ watchdog[w] = "spawn"
    /\ run' = [run EXCEPT ![w] = "start"]
    /\ attempt' = [attempt EXCEPT ![w] = @ + 1]
    /\ watchdog' = [watchdog EXCEPT ![w] = "wait"]
    /\ UNCHANGED <<row, lock, wlock, client, heard, stops, failures>>

WaitExit(w) ==
    /\ watchdog[w] = "wait" /\ ~Running(w)
    /\ watchdog' = [watchdog EXCEPT ![w] = "read"]
    /\ UNCHANGED <<row, lock, wlock, client, attempt, run, heard, stops, failures>>

(* Mutant: a runtime that failed after the request is restarted.           *)
NoRestart_CodeOnly(w) == run[w] = "exit0"

NoRestart(w) == run[w] = "exit0" \/ (row # NoRow /\ row.stop)

(* The flag is read after the exit; the last attempt sleeps, then ends.    *)
ReadStop(w) ==
    /\ watchdog[w] = "read"
    /\ IF NoRestart(w)
       THEN watchdog' = [watchdog EXCEPT ![w] = "gone"] /\ wlock' = NoOne
       ELSE watchdog' = [watchdog EXCEPT ![w] = "sleep"] /\ UNCHANGED wlock
    /\ UNCHANGED <<row, lock, client, attempt, run, heard, stops, failures>>

Wake(w) ==
    /\ watchdog[w] = "sleep"
    /\ IF attempt[w] < Attempts
       THEN watchdog' = [watchdog EXCEPT ![w] = "spawn"] /\ UNCHANGED wlock
       ELSE watchdog' = [watchdog EXCEPT ![w] = "gone"] /\ wlock' = NoOne
    /\ UNCHANGED <<row, lock, client, attempt, run, heard, stops, failures>>

(* Somebody ends the watchdog's process: its runtime lives on.             *)
KillWatchdog(w) ==
    /\ watchdog[w] \notin {"none", "gone"} /\ failures < MaxCrashes
    /\ failures' = failures + 1
    /\ watchdog' = [watchdog EXCEPT ![w] = "gone"]
    /\ wlock' = IF wlock = w THEN NoOne ELSE wlock
    /\ UNCHANGED <<row, lock, client, attempt, run, heard, stops>>

----------------------------------------------------------------------------
(* run_service.                                                            *)

(* manager.start: a lock held by another runtime or by a probe is an error. *)
Boot(w) ==
    /\ run[w] = "start"
    /\ IF lock = NoOne
       THEN lock' = w /\ run' = [run EXCEPT ![w] = "boot"]
       ELSE run' = [run EXCEPT ![w] = "exit1"] /\ UNCHANGED lock
    /\ UNCHANGED <<row, wlock, client, watchdog, attempt, heard, stops, failures>>

(* INSERT OR REPLACE: a new row, its stop flag down, whoever raised it.    *)
Online(w) ==
    /\ run[w] = "boot"
    /\ row' = [of |-> w, stop |-> FALSE]
    /\ heard' = heard \cap {w}
    /\ run' = [run EXCEPT ![w] = "serve"]
    /\ UNCHANGED <<lock, wlock, client, watchdog, attempt, stops, failures>>

(* One round of the loop that finds the flag up.                           *)
HeedStop(w) ==
    /\ run[w] = "serve" /\ row.stop
    /\ run' = [run EXCEPT ![w] = "closing0"]
    /\ UNCHANGED <<row, lock, wlock, client, watchdog, attempt, heard, stops, failures>>

(* A signal ends the loop, an error of the supervisor or of the database   *)
(* raises out of it.                                                       *)
LeaveLoop(w) ==
    /\ run[w] = "serve" /\ failures < MaxCrashes
    /\ failures' = failures + 1
    /\ \E s \in {"closing0", "closing1"} : run' = [run EXCEPT ![w] = s]
    /\ UNCHANGED <<row, lock, wlock, client, watchdog, attempt, heard, stops>>

(* The finally clause and the exit: the lock goes with the process.        *)
Close(w) ==
    /\ run[w] \in {"closing0", "closing1"}
    /\ run' = [run EXCEPT ![w] = IF @ = "closing0" THEN "exit0" ELSE "exit1"]
    /\ lock' = Unlocked(w)
    /\ UNCHANGED <<row, wlock, client, watchdog, attempt, heard, stops, failures>>

(* The process is killed, or the machine takes it down.                    *)
CrashRuntime(w) ==
    /\ Running(w) /\ failures < MaxCrashes
    /\ failures' = failures + 1
    /\ run' = [run EXCEPT ![w] = "exit1"]
    /\ lock' = Unlocked(w)
    /\ UNCHANGED <<row, wlock, client, watchdog, attempt, heard, stops>>

----------------------------------------------------------------------------

ClientStep(c) == Ensure(c) \/ Probe(c) \/ EndProbe(c) \/ Clear(c) \/ Launch(c)

WatchdogStep(w) == WatchdogLock(w) \/ Spawn(w) \/ WaitExit(w) \/ ReadStop(w) \/ Wake(w)

RuntimeStep(w) == Boot(w) \/ Online(w) \/ HeedStop(w) \/ Close(w)

Disturbance(w) == KillWatchdog(w) \/ LeaveLoop(w) \/ CrashRuntime(w)

ControlNext ==
    \/ StopCommand
    \/ \E c \in Clients : ClientStep(c)
    \/ \E w \in Watchdogs : WatchdogStep(w) \/ RuntimeStep(w) \/ Disturbance(w)

ControlSpec == ControlInit /\ [][ControlNext]_controlVars

(* The operating system runs every process that can go on; nobody has to   *)
(* start a client's call, and nothing has to fail.                         *)
ControlFairness ==
    \A w \in Watchdogs : WF_controlVars(WatchdogStep(w)) /\ WF_controlVars(RuntimeStep(w))

FairControlSpec == ControlSpec /\ ControlFairness

----------------------------------------------------------------------------

(* A stop request that reached a serving runtime is final: that runtime    *)
(* ends and its watchdog, which restarts whatever fails, ends without      *)
(* another one, even if the runtime crashes on its way out or the watchdog *)
(* is killed.  Excused are a start whose ensure_service takes the request  *)
(* back and the runtime of another, killed watchdog that was still booting.*)
StopStops ==
    \A w \in Watchdogs :
        w \in heard ~> (w \notin heard \/ (~Running(w) /\ watchdog[w] = "gone"))

(* Two supervisors never work on one database: from the lock to the end of *)
(* its process a runtime is alone, though runtimes outlive their watchdogs *)
(* and fail at any point, and clients try the same lock.                   *)
Supervises(w) == run[w] \in {"boot", "serve", "closing0", "closing1"}

OneRuntime == \A v, w \in Watchdogs : Supervises(v) /\ Supervises(w) => v = w

(* A stop request that reached a serving runtime is not overwritten until  *)
(* a start takes it back: it stands in that runtime's row, and nothing is  *)
(* on its way to start the runtime again.                                  *)
StopHolds ==
    \A w \in heard :
        /\ row = [of |-> w, stop |-> TRUE]
        /\ run[w] \in {"serve", "closing0", "closing1", "exit0", "exit1"}
        /\ watchdog[w] \in {"wait", "read", "gone"}

=============================================================================
