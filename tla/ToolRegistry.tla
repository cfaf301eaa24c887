---------------------------- MODULE ToolRegistry ----------------------------
(***************************************************************************)
(* One generated tool (src/lilith/tool_registry.py): a manifest file and a *)
(* row of the tools table that must agree, written one after the other by  *)
(* the workshop that builds it (src/lilith/workshop.py) and by the owner's *)
(* /tool-state (src/lilith/commands.py), while queued invocations load and *)
(* run it.  Each process makes one registry call at a time; every action   *)
(* is one file operation or one transaction of a call.                     *)
(***************************************************************************)
EXTENDS Integers, FiniteSets

CONSTANTS Owners,       \* the owner's terminals
          Runners,      \* workers that execute tool_invocation tasks
          MaxCalls,     \* bound: calls that owners and runners make in all
          MaxDeaths     \* bound: processes that die in the middle of a call

Workshop == "workshop"

Callers == Owners \cup Runners \cup {Workshop}

ASSUME CallersAssumption == Workshop \notin Owners \cup Runners /\ Owners \cap Runners = {}
ASSUME RegistryBounds == MaxCalls \in Nat /\ MaxDeaths \in Nat

VARIABLES
    file,       \* the status in manifest.json, "none" before it is written
    row,        \* the tools row: status and report
    stage,      \* the workshop's stage
    call,       \* each process's call in progress
    withdrawn,  \* history: the owner's disable was the last word
    calls, deaths

registryVars == <<file, row, stage, call, withdrawn, calls, deaths>>

Usable == {"experimental", "approved"}
STATUSES == Usable \cup {"draft", "testing", "disabled", "deprecated"}

Reports == {"none", "failed", "passed", "approved"}

NoRow == [status |-> "none", report |-> "none"]

(* A call: where it is, what it does, the status and report that it gives, *)
(* the row as it loaded it, and the workshop's stage after it.             *)
Call == [at : {"idle", "list", "row", "file", "write", "writing", "update", "run"},
         kind : {"load", "status", "invoke", "catalog"}, want : STATUSES, report : Reports,
         loaded : [status : STATUSES \cup {"none"}, report : Reports],
         next : {"tests", "ran", "review", "judge", "canary", "execute", "verify", "over"}]

NoCall == [at |-> "idle", kind |-> "load", want |-> "draft", report |-> "none",
           loaded |-> NoRow, next |-> "over"]

RegistryTypeOK ==
    /\ file \in STATUSES \cup {"none", "partial"}
    /\ row = NoRow \/ row \in [status : STATUSES, report : Reports]
    /\ stage \in {"draft", "files", "test", "tests", "ran", "review", "judge", "canary", "execute",
                  "withdraw", "verify", "over"}
    /\ call \in [Callers -> Call]
    /\ withdrawn \in BOOLEAN
    /\ calls \in 0..MaxCalls /\ deaths \in 0..MaxDeaths

RegistryInit ==
    /\ file = "none" /\ row = NoRow
    /\ stage = "draft"
    /\ call = [p \in Callers |-> NoCall]
    /\ withdrawn = FALSE
    /\ calls = 0 /\ deaths = 0

----------------------------------------------------------------------------
(* The calls.                                                              *)

Load(next) == [NoCall EXCEPT !.at = "row", !.next = next]
Status(want, report, next) ==
    [NoCall EXCEPT !.at = "row", !.kind = "status", !.want = want, !.report = report, !.next = next]
Invoke(next) == [NoCall EXCEPT !.at = "row", !.kind = "invoke", !.next = next]
Catalog == [NoCall EXCEPT !.at = "list", !.kind = "catalog"]

(* A call returns, or raises: a stage that raises ends its workshop, but   *)
(* canary and execution withdraw the tool first.                           *)
Return(p) ==
    /\ call' = [call EXCEPT ![p] = NoCall]
    /\ stage' = IF p = Workshop THEN call[p].next ELSE stage

Raise(p) ==
    /\ call' = [call EXCEPT ![p] = NoCall]
    /\ stage' = IF p # Workshop THEN stage
                ELSE IF stage \in {"canary", "execute"} THEN "withdraw" ELSE "over"

Goes(p, at) ==
    /\ call' = [call EXCEPT ![p].at = at]
    /\ UNCHANGED stage

(* list, for whoever offers the usable tools to the model: each of them is *)
(* then loaded for its contract.                                           *)
List(p) ==
    /\ call[p].at = "list"
    /\ IF row.status \in Usable THEN Goes(p, "row") ELSE Return(p)
    /\ UNCHANGED <<file, row, withdrawn, calls, deaths>>

(* load, its first half: the row.                                          *)
ReadRow(p) ==
    /\ call[p].at = "row"
    /\ IF row = NoRow THEN Raise(p)
       ELSE call' = [call EXCEPT ![p].at = "file", ![p].loaded = row] /\ UNCHANGED stage
    /\ UNCHANGED <<file, row, withdrawn, calls, deaths>>

(* Mutant: the hash of the artifacts alone, which leaves the status out.   *)
Agrees_HashOnly(c) == file # "partial"

(* load, its second half: the manifest must say what the row said.         *)
Agrees(c) == file = c.loaded.status

(* Mutant: passing tests are enough.                                       *)
HasEvidence_Tests(c) ==
    (IF c.report # "none" THEN c.report ELSE c.loaded.report) \in {"passed", "approved"}

(* The report given or, without one, the row's.                            *)
HasEvidence(c) == (IF c.report # "none" THEN c.report ELSE c.loaded.report) = "approved"

ReadFile(p) ==
    LET c == call[p] IN
    /\ c.at = "file"
    /\ CASE ~Agrees(c) -> Raise(p)
         [] Agrees(c) /\ c.kind \in {"load", "catalog"} -> Return(p)
         [] Agrees(c) /\ c.kind = "status" ->
               IF c.want \in Usable => HasEvidence(c) THEN Goes(p, "write") ELSE Raise(p)
         [] Agrees(c) /\ c.kind = "invoke" ->
               IF c.loaded.status \in Usable THEN Goes(p, "run") ELSE Raise(p)
    /\ UNCHANGED <<file, row, withdrawn, calls, deaths>>

(* status, the manifest: truncated, then written.                          *)
Truncate(p) ==
    /\ call[p].at = "write"
    /\ file' = "partial"
    /\ Goes(p, "writing")
    /\ UNCHANGED <<row, withdrawn, calls, deaths>>

WriteFile(p) ==
    /\ call[p].at = "writing"
    /\ file' = call[p].want
    /\ Goes(p, "update")
    /\ UNCHANGED <<row, withdrawn, calls, deaths>>

(* Another status call is under way, or the workshop is not past review:   *)
(* their writes do not look at the status they replace.                    *)
Contended(p) ==
    \/ \E q \in Callers \ {p} : call[q].kind = "status"
    \/ stage \notin {"canary", "execute", "withdraw", "verify", "over"}

(* status, the row: the report is kept unless one is given.                *)
UpdateRow(p) ==
    LET c == call[p] IN
    /\ c.at = "update"
    /\ row' = [status |-> c.want, report |-> IF c.report = "none" THEN row.report ELSE c.report]
    /\ withdrawn' = IF p \in Owners THEN c.want = "disabled" /\ ~Contended(p) ELSE withdrawn
    /\ Return(p)
    /\ UNCHANGED <<file, calls, deaths>>

(* invoke: the sandbox's result is valid, or the tool fails.               *)
Run(p) ==
    /\ call[p].at = "run"
    /\ Return(p) \/ Raise(p)
    /\ UNCHANGED <<file, row, withdrawn, calls, deaths>>

(* The process dies or is killed.                                          *)
Die(p) ==
    /\ call[p].at # "idle" /\ deaths < MaxDeaths
    /\ deaths' = deaths + 1
    /\ call' = [call EXCEPT ![p] = NoCall]
    /\ stage' = IF p = Workshop THEN "over" ELSE stage
    /\ UNCHANGED <<file, row, withdrawn, calls>>

----------------------------------------------------------------------------
(* Who calls.                                                              *)

OwnerSets(p) ==
    /\ call[p].at = "idle" /\ calls < MaxCalls
    /\ calls' = calls + 1
    /\ \E want \in {"approved", "experimental", "deprecated", "disabled"} :
          call' = [call EXCEPT ![p] = Status(want, "none", "over")]
    /\ UNCHANGED <<file, row, stage, withdrawn, deaths>>

(* A queued invocation, or an executive's or a routed message's catalog.   *)
RunTool(p) ==
    /\ call[p].at = "idle" /\ calls < MaxCalls
    /\ calls' = calls + 1
    /\ \E c \in {Invoke("over"), Catalog} : call' = [call EXCEPT ![p] = c]
    /\ UNCHANGED <<file, row, stage, withdrawn, deaths>>

(* create: the files first, then the row that makes them a tool.           *)
CreateFiles ==
    /\ stage = "draft"
    /\ file' = "draft"
    /\ stage' = "files"
    /\ UNCHANGED <<row, call, withdrawn, calls, deaths>>

InsertRow ==
    /\ stage = "files"
    /\ row' = [status |-> "draft", report |-> "none"]
    /\ stage' = "test"
    /\ UNCHANGED <<file, call, withdrawn, calls, deaths>>

(* test, after its load: the report is stored whatever the status is now.  *)
RunTests ==
    /\ stage = "ran" /\ call[Workshop].at = "idle"
    /\ \E report \in {"passed", "failed"} :
          /\ row' = [row EXCEPT !.report = report]
          /\ IF report = "passed"
             THEN stage' = "review" /\ UNCHANGED call
             ELSE call' = [call EXCEPT ![Workshop] = Status("disabled", "failed", "over")] /\ UNCHANGED stage
    /\ UNCHANGED <<file, withdrawn, calls, deaths>>

(* Mutant: the owner's request is met, so the tool is put back to use.     *)
AfterVerify_Restores == {Status("experimental", "none", "over"), Status("disabled", "none", "over")}

(* Not verified: the tool is withdrawn; verified: it stays as it is.       *)
AfterVerify == {NoCall, Status("disabled", "none", "over")}

(* What each stage asks of the registry; verified, it asks nothing.        *)
StageCalls ==
    CASE stage = "test"     -> {Status("testing", "none", "tests")}
      [] stage = "tests"    -> {Load("ran")}
      [] stage = "review"   -> {Load("judge")}
      [] stage = "judge"    -> {Status("experimental", "approved", "canary"),
                                Status("disabled", "none", "over")}
      [] stage = "canary"   -> {Load("execute"), Invoke("execute")}
      [] stage = "execute"  -> {Invoke("verify")}
      [] stage = "withdraw" -> {Status("disabled", "none", "over")}
      [] stage = "verify"   -> AfterVerify
      [] OTHER              -> {}

StageStep ==
    /\ call[Workshop].at = "idle"
    /\ \E c \in StageCalls :
          /\ call' = [call EXCEPT ![Workshop] = c]
          /\ stage' = IF c = NoCall THEN "over" ELSE stage
    /\ UNCHANGED <<file, row, withdrawn, calls, deaths>>

----------------------------------------------------------------------------

CallStep(p) == List(p) \/ ReadRow(p) \/ ReadFile(p) \/ Truncate(p) \/ WriteFile(p) \/ UpdateRow(p)
               \/ Run(p) \/ Die(p)

RegistryNext ==
    \/ CreateFiles \/ InsertRow \/ RunTests \/ StageStep
    \/ \E p \in Callers : CallStep(p)
    \/ \E p \in Owners : OwnerSets(p)
    \/ \E p \in Runners : RunTool(p)

RegistrySpec == RegistryInit /\ [][RegistryNext]_registryVars

----------------------------------------------------------------------------

(* No generated code runs for anybody before its tests have passed and the *)
(* review has approved it, whatever statuses the owner tries to give it in *)
(* between: the row that let it run has, and keeps, both findings.         *)
RunsOnEvidence ==
    \A p \in Callers : call[p].at = "run" => row.report = "approved"

(* A tool whose manifest and row were left different, by a death between   *)
(* the two writes or by two writers that crossed, is out of use for good:  *)
(* nothing runs it and no later status call makes the two agree.           *)
Torn == row # NoRow /\ file # row.status
Loading(p) == call[p].at \in {"idle", "list", "row"}

FailsClosed ==
    [](Torn /\ (\A p \in Callers : Loading(p))
       => [](Torn /\ \A p \in Callers : call[p].at \in {"idle", "list", "row", "file"}))

(* The registry survives, and only the one tool fails closed, when a death *)
(* or crossed writers leave its manifest and row different: with no change *)
(* of status under way, whoever asks what tools there are gets an answer.  *)
CatalogAnswers ==
    Torn /\ (\A q \in Callers : call[q].kind # "status") =>
        \A p \in Callers : call[p].kind = "catalog" /\ call[p].at = "file" => Agrees(call[p])

(* Once the review has ended, what the owner disables stays disabled until *)
(* the owner says otherwise: later stages only withdraw a tool.            *)
OwnerDisableStands == withdrawn => row.status = "disabled"

=============================================================================
