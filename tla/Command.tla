------------------------------ MODULE Command ------------------------------
(***************************************************************************)
(* One bounded command of the capability broker (src/lilith/capabilities.py,*)
(* _run): a child process that writes to a pipe and may leave a descendant *)
(* behind that holds it open, a reader thread that drains the pipe and     *)
(* keeps at most a limit of it, and the caller, who polls the child, kills *)
(* it when its time or output budget is exceeded, joins the reader for a   *)
(* while and reports the outcome.                                          *)
(***************************************************************************)
EXTENDS WorkerLimits

VARIABLES
    child,      \* the process: running, exited by itself, or killed
    descendant, \* a process of its that holds the pipe's other end
    written, piped,         \* bytes written in all, and not read yet
    captured, exceeded,     \* bytes kept, and the event
    drain,      \* the thread: reading, at the end of the output, or failed
    pipe,       \* the pipe's end here: open, closed, or closed under a blocked read
    caller,     \* where the caller is
    raising,    \* it is leaving with an error
    outcome

commandVars == <<child, descendant, written, piped, captured, exceeded, drain, pipe, caller,
                 raising, outcome>>

CommandTypeOK ==
    /\ child \in {"running", "exited", "killed"} /\ descendant \in BOOLEAN
    /\ written \in 0..MaxWritten /\ piped \in 0..MaxWritten
    /\ captured \in 0..Capture /\ exceeded \in BOOLEAN
    /\ drain \in {"reading", "ended", "failed"} /\ pipe \in {"open", "blocked", "closed"}
    /\ caller \in {"polling", "stopping", "joining", "closing", "returned"}
    /\ raising \in BOOLEAN /\ outcome \in {"none", "ok", "error"}

CommandInit ==
    /\ child = "running" /\ descendant = FALSE
    /\ written = 0 /\ piped = 0
    /\ captured = 0 /\ exceeded = FALSE
    /\ drain = "reading" /\ pipe = "open"
    /\ caller = "polling" /\ raising = FALSE /\ outcome = "none"

----------------------------------------------------------------------------
(* The command, outside.                                                   *)

Writers == child = "running" \/ descendant

Output ==
    /\ Writers /\ pipe # "closed"
    /\ \E n \in 1..MaxWritten - written : written' = written + n /\ piped' = piped + n
    /\ UNCHANGED <<child, descendant, captured, exceeded, drain, pipe, caller, raising, outcome>>

Spawn ==
    /\ child = "running" /\ ~descendant
    /\ descendant' = TRUE
    /\ UNCHANGED <<child, written, piped, captured, exceeded, drain, pipe, caller, raising, outcome>>

ExitChild ==
    /\ child = "running"
    /\ child' = "exited"
    /\ UNCHANGED <<descendant, written, piped, captured, exceeded, drain, pipe, caller, raising, outcome>>

DescendantExits ==
    /\ descendant
    /\ descendant' = FALSE
    /\ UNCHANGED <<child, written, piped, captured, exceeded, drain, pipe, caller, raising, outcome>>

----------------------------------------------------------------------------
(* drain.                                                                  *)

Kept(n) == IF n < Capture - captured THEN n ELSE Capture - captured

ReadOutput ==
    /\ drain = "reading" /\ pipe # "closed"
    /\ \E n \in 1..Chunk :
          /\ n <= piped
          /\ piped' = piped - n
          /\ captured' = captured + Kept(n)
          /\ exceeded' = (exceeded \/ Kept(n) < n)
    /\ pipe' = IF pipe = "blocked" THEN "closed" ELSE pipe
    /\ UNCHANGED <<child, descendant, written, drain, caller, raising, outcome>>

EndOfOutput ==
    /\ drain = "reading" /\ pipe = "open" /\ piped = 0 /\ ~Writers
    /\ drain' = "ended"
    /\ UNCHANGED <<child, descendant, written, piped, captured, exceeded, pipe, caller, raising, outcome>>

DrainFails ==
    /\ drain = "reading" /\ pipe # "open"
    /\ drain' = "failed"
    /\ UNCHANGED <<child, descendant, written, piped, captured, exceeded, pipe, caller, raising, outcome>>

----------------------------------------------------------------------------
(* The caller.                                                             *)

(* The child has ended; or its time is over, at any point, or its output   *)
(* is too long.                                                            *)
Poll ==
    /\ caller = "polling"
    /\ \/ child # "running" /\ UNCHANGED raising
       \/ raising' = TRUE
    /\ caller' = "stopping"
    /\ UNCHANGED <<child, descendant, written, piped, captured, exceeded, drain, pipe, outcome>>

(* A child that still runs is killed and reaped, and with it the           *)
(* descendants that are its children's children: an orphan is not found.   *)
Stop ==
    /\ caller = "stopping"
    /\ IF child = "running" THEN child' = "killed" /\ descendant' \in {FALSE, descendant}
       ELSE UNCHANGED <<child, descendant>>
    /\ caller' = "joining"
    /\ UNCHANGED <<written, piped, captured, exceeded, drain, pipe, raising, outcome>>

(* The reader has ended, or two seconds are over; the pipe is closed.      *)
Join ==
    /\ caller = "joining"
    /\ pipe' = IF drain = "reading" THEN "blocked" ELSE "closed"
    /\ caller' = "closing"
    /\ UNCHANGED <<child, descendant, written, piped, captured, exceeded, drain, raising, outcome>>

(* An error of the loop, or the event that was set after its last look.    *)
Refused == raising \/ exceeded

Report ==
    /\ caller = "closing"
    /\ outcome' = IF Refused THEN "error" ELSE "ok"
    /\ caller' = "returned"
    /\ UNCHANGED <<child, descendant, written, piped, captured, exceeded, drain, pipe, raising>>

CommandNext ==
    \/ Output \/ Spawn \/ ExitChild \/ DescendantExits
    \/ ReadOutput \/ EndOfOutput \/ DrainFails
    \/ Poll \/ Stop \/ Join \/ Report

CommandSpec == CommandInit /\ [][CommandNext]_commandVars

----------------------------------------------------------------------------

(* However fast the command writes and whenever it ends: no more than the  *)
(* limit is kept, it no longer runs once its outcome is known, a command   *)
(* that was killed is not a success, and, if its output could be read to   *)
(* the end, neither is one whose output was longer than the limit.         *)
OutputBounded ==
    /\ captured <= Capture
    /\ outcome # "none" => child # "running"
    /\ outcome = "ok" => child = "exited" /\ (drain = "ended" => captured = written)

=============================================================================
