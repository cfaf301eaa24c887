------------------------- MODULE CuriosityPromises -------------------------
(***************************************************************************)
(* Curiosity with a history, how many sessions began against the owner's   *)
(* word: what README.md:107-108 says of that word, beside the bound that   *)
(* does hold.                                                              *)
(***************************************************************************)
EXTENDS Curiosity

VARIABLE
    against     \* sessions begun since curiosity is paused, since a message is pending

watchedVars == <<curiosityVars, against>>

WatchedInit == Init /\ against = [pause |-> 0, message |-> 0]

Begun == Len(tasks') > Len(tasks) /\ tasks'[Len(tasks')].kind = "curiosity"

(* Counted from the owner's word on, until it no longer stands.            *)
Counted(n, stands) == IF ~stands THEN 0 ELSE IF Begun THEN n + 1 ELSE n

WatchedNext ==
    /\ Next
    /\ against' = [pause   |-> Counted(against.pause, ~enabled'),
                   message |-> Counted(against.message, Pending' # {})]

WatchedSpec == WatchedInit /\ [][WatchedNext]_watchedVars

----------------------------------------------------------------------------

(* The owner's word is overtaken once at most: of the sessions that begin  *)
(* while curiosity stays paused, or while a message stays unanswered, the  *)
(* first is that of the check the word arrived in, and there is no second, *)
(* whatever is toggled, crashes and restarts.                              *)
OvertakenOnce == against.pause <= 1 /\ against.message <= 1

(* README.md:107: "Pause curiosity stops new sessions and cancels the      *)
(* current one."  While it is paused, and the call that paused it has      *)
(* returned, no session is left to run.                                    *)
PauseStopsSessions ==
    ~enabled /\ (\A c \in Terminals : Ready(c)) =>
        \A t \in DOMAIN tasks : tasks[t].kind = "curiosity" /\ Live(tasks[t]) => tasks[t].cancel

(* README.md:107: "Owner messages cancel autonomous curiosity work."  Once *)
(* the interruption has returned, the research of a session that was there *)
(* when it listed the work is not left to run either.                      *)
InterruptionReachesResearch ==
    \A c \in Terminals : sweep[c].at = "done" =>
        \A t \in DOMAIN tasks :
            /\ tasks[t].kind = "research" /\ tasks[t].parent <= sweep[c].seen
            /\ Live(tasks[t])
            => tasks[t].cancel
=============================================================================
