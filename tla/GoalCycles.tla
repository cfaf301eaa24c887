----------------------------- MODULE GoalCycles -----------------------------
(***************************************************************************)
(* TaskQueue with one history variable: the tasks that were still live     *)
(* when the owner reactivated their goal, that is, the cycle before the    *)
(* one "/goal-state <id> active" asks for.                                 *)
(***************************************************************************)
EXTENDS MCTaskQueue

VARIABLE oldCycle

Reactivated(g) == goals[g] \notin {"none", "active"} /\ goals'[g] = "active"

CycleInit == Init /\ oldCycle = {}

CycleNext ==
    /\ Next
    /\ oldCycle' = oldCycle \cup
          UNION {LiveGoalTasks(tasks, g) : g \in {h \in GoalIds : Reactivated(h)}}

CycleSpec == CycleInit /\ [][CycleNext]_<<vars, oldCycle>>

(* README.md:164: "/goal-state <id> active explicitly starts a new cycle   *)
(* after review".  A task of the cycle before must then not be what takes  *)
(* the reactivated goal back to review when its worker is finally stopped. *)
NewCycleOutlivesOld ==
    [][\A t \in oldCycle :
          LET g == tasks[t].goal
          IN  goals[g] = "active" /\ Live(tasks[t]) /\ ~Live(tasks'[t])
              => goals'[g] # "needs_review"]_<<vars, oldCycle>>
=============================================================================
