---------------------------- MODULE MCTaskQueue ----------------------------
(* A small instance of TaskQueue for TLC: a repeatable read, its one-shot   *)
(* journal, a legacy row whose resumable flag is wrong, one goal.           *)
EXTENDS TaskQueue, FiniteSetsExt

MCRequests ==
    {[kind |-> "capability", priority |-> Max(Priorities), max |-> 2,
      resumable |-> TRUE, readOnly |-> TRUE]}

MCChildRequests ==
    {[kind |-> "journal", priority |-> Min(Priorities), max |-> 1, resumable |-> FALSE, readOnly |-> FALSE]}

MCLegacyRows ==
    {[state |-> "queued", kind |-> "capability", priority |-> Max(Priorities), goal |-> NoGoal,
      parent |-> NoTask, cancel |-> FALSE, attempts |-> 0, max |-> 2,
      resumable |-> TRUE, readOnly |-> FALSE]}

MCGoalPriority == [g \in GoalIds |-> Max(Priorities)]
============================================================================
