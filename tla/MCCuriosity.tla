---------------------------- MODULE MCCuriosity ----------------------------
(* TLC: four small instances of Curiosity in one run, since what each has  *)
(* to bound generously would multiply the states of the others.  A         *)
(* behaviour belongs to one part: "allowance", nobody at a terminal and    *)
(* all the time and the tasks there are; "sessions", one terminal and time *)
(* for a second session; "goals", one terminal and a goal, until the first *)
(* session and its research have been interrupted; "terminals", all the    *)
(* terminals together for as long.                                         *)
EXTENDS CuriosityPromises

CONSTANT Home   \* the terminal that is alone

VARIABLE part

vars == <<part, watchedVars>>

(* The goals are hers: their tasks are self-directed.                      *)
MCGoalType == [g \in GoalIds |-> "self_directed"]

NoGoals == \A t \in DOMAIN tasks' : tasks'[t].goal = NoGoal

HomeOnly == \A c \in Terminals \ {Home} : sweep'[c] = sweep[c]

Until(time) == clock' <= time /\ Len(tasks') <= 3

MCInit == part \in {"allowance", "sessions", "goals", "terminals"} /\ WatchedInit

AllowanceStep == part = "allowance" /\ WatchedNext /\ UNCHANGED <<part, inbox, toggles>>

SessionsStep == part = "sessions" /\ WatchedNext /\ Until(2) /\ HomeOnly /\ NoGoals /\ UNCHANGED part

GoalsStep == part = "goals" /\ WatchedNext /\ Until(1) /\ HomeOnly /\ UNCHANGED part

TerminalsStep == part = "terminals" /\ WatchedNext /\ Until(1) /\ NoGoals /\ UNCHANGED part

MCNext == AllowanceStep \/ SessionsStep \/ GoalsStep \/ TerminalsStep

MCSpec == MCInit /\ [][MCNext]_vars
=============================================================================
