----------------------------- MODULE MCWorkers -----------------------------
(* TLC: what a worker process does by itself (a research, an executive, a  *)
(* command and its log) and the stores that processes share (the schema,   *)
(* the tool registry and the self), in one run.  The parts share no state: *)
(* a behaviour exercises the part it starts with and the others rest.  The *)
(* research and the executive are each the worker of one task.             *)
EXTENDS ToolRegistry, SelfStore, Research, Executive, Command, WorkerLog, Migrations

VARIABLE part

(* A first start of everything: a reply, two reflections, a reinforcement, *)
(* and an owner who remembers, strengthens an interest and sets an affect. *)
MCWork == [p \in Processes |->
    CASE p = "conversation" -> <<Reply(-1)>>
      [] p = "reflection" -> <<Reflection(1, 1, <<1>>, <<2>>), Reflection(1, 0, <<>>, <<1>>)>>
      [] p = "research" -> <<Reinforcement(1)>>
      [] OTHER -> <<Remember, Strengthen(1), Override(0)>>]

(* A baseline of two statements, then versions of one and of two.          *)
MCChanges == <<2, 1, 2>>

(* Reads of the log: a piece of a line, two lines, and one that is too     *)
(* long, with and without its end.                                         *)
MCChunks == {<<2>>, <<1, 1, 0>>, <<LineLimit + 1>>, <<LineLimit, 2>>}

vars == <<part, registryVars, selfVars, researchVars, executiveVars, logVars, commandVars,
          migrationVars>>

Init ==
    /\ part \in {"registry", "self", "research", "executive", "log", "command", "schema"}
    /\ RegistryInit /\ SelfInit /\ LogInit /\ CommandInit /\ MigrationInit
    /\ part # "schema" => \A v \in Versions : schema[v] = 0
    /\ WorkerInit(IF part = "executive" THEN "executive" ELSE "research")
    /\ FetchInit /\ PlanInit /\ (part # "executive" => budget = 1)

RegistryStep ==
    /\ part = "registry" /\ RegistryNext
    /\ UNCHANGED <<part, selfVars, researchVars, executiveVars, logVars, commandVars, migrationVars>>

SelfStep ==
    /\ part = "self" /\ SelfNext
    /\ UNCHANGED <<part, registryVars, researchVars, executiveVars, logVars, commandVars, migrationVars>>

ResearchStep ==
    /\ part = "research" /\ ResearchNext
    /\ UNCHANGED <<part, registryVars, selfVars, planVars, asked, invoked, logVars, commandVars, migrationVars>>

ExecutiveStep ==
    /\ part = "executive" /\ ExecutiveNext
    /\ UNCHANGED <<part, registryVars, selfVars, budgetVars, fetchVars, logVars, commandVars, migrationVars>>

LogStep ==
    /\ part = "log" /\ LogNext
    /\ UNCHANGED <<part, registryVars, selfVars, researchVars, executiveVars, commandVars, migrationVars>>

CommandStep ==
    /\ part = "command" /\ CommandNext
    /\ UNCHANGED <<part, registryVars, selfVars, researchVars, executiveVars, logVars, migrationVars>>

SchemaStep ==
    /\ part = "schema" /\ MigrationNext
    /\ UNCHANGED <<part, registryVars, selfVars, researchVars, executiveVars, logVars, commandVars>>

Next == RegistryStep \/ SelfStep \/ ResearchStep \/ ExecutiveStep \/ LogStep \/ CommandStep \/ SchemaStep

Spec == Init /\ [][Next]_vars

----------------------------------------------------------------------------

(* Rows, files, calls, budgets, processes and threads keep their types.    *)
TypeOK ==
    /\ RegistryTypeOK /\ SelfTypeOK /\ LogTypeOK /\ MigrationTypeOK /\ CommandTypeOK
    /\ part # "executive" => ResearchTypeOK
    /\ part = "executive" => ExecutiveTypeOK

(* Requests, bytes, time, model calls and steps are bounded per task, over *)
(* all its pages, redirects and answers; so is what a command returns.     *)
BudgetsHold == ResearchBudgets /\ ExecutiveBudgets /\ OutputBounded

(* After a cancel at most one more outside effect of the task begins, and  *)
(* the task is not completed.                                              *)
CancelHeeded == ResearchHeeds /\ ExecutiveHeeds

=============================================================================
