------------------------------ MODULE Research ------------------------------
(***************************************************************************)
(* A research worker (src/lilith/research.py): pages fetched under one     *)
(* budget of requests, bytes and time, saved as sources, summarised by the *)
(* model with citations, and journalled.  What a server answers, what a    *)
(* page holds and what the model says are choices; urls are not modelled,  *)
(* only how many are left.                                                 *)
(***************************************************************************)
EXTENDS WorkerTask, WorkerLimits

VARIABLES
    requests, remaining,    \* what is left of the budgets
    page,       \* the fetch: whether it is the search, its hops, size and limit
    left,       \* urls not dealt with yet, this one included
    sources,    \* pages saved
    rewarded,   \* the topic's interest has been reinforced
    sent, received, saved   \* history: requests, bytes read, bytes saved

budgetVars == <<requests, remaining, sent, received>>
fetchVars == <<page, left, sources, saved, rewarded>>
researchVars == <<workerVars, budgetVars, fetchVars>>

ResearchPlaces ==
    {"start", "check", "connect", "response", "body", "save",
     "verify", "ask", "lease", "answer", "queue", "reward", "complete", "done", "dead"}

NewPage(search) == [search |-> search, hops |-> 0, size |-> 0, limit |-> 0]

ResearchTypeOK ==
    /\ WorkerTypeOK(ResearchPlaces)
    /\ requests \in 0..Requests /\ remaining \in -1..Bytes
    /\ page \in [search : BOOLEAN, hops : 0..Hops, size : 0..PageLimit + 1, limit : 0..PageLimit]
    /\ left \in 0..Urls /\ sources \in 0..Urls /\ rewarded \in BOOLEAN
    /\ sent \in Nat /\ received \in Nat /\ saved \in Nat

FetchInit ==
    /\ requests = Requests /\ remaining = Bytes
    /\ page = NewPage(FALSE)
    /\ left = 0 /\ sources = 0 /\ rewarded = FALSE
    /\ sent = 0 /\ received = 0 /\ saved = 0

ResearchInit == WorkerInit("research") /\ FetchInit

----------------------------------------------------------------------------
(* What an error does: of the search it ends the task, of a page it is     *)
(* recorded and the next page is tried, unless it is of another kind.      *)

NextPage ==
    /\ Move("researching")
    /\ left' = left - 1
    /\ page' = NewPage(FALSE)
    /\ at' = IF left = 1 THEN "verify" ELSE "check"

FailResearch == Fail /\ UNCHANGED <<page, left>>

PageFailed == IF page.search THEN FailResearch ELSE NextPage

(* A cancel is a RuntimeError: no page's handler takes it for its own.     *)
Cancelled == FailResearch

Stays == UNCHANGED <<task, page, left>>

(* run: the urls given, or a search for some.                              *)
StartResearch ==
    /\ at = "start"
    /\ \/ Fail /\ UNCHANGED <<page, left>>      \* cancelled before, or too many urls
       \/ /\ ~task.cancel
          /\ Move("researching") /\ at' = "check"
          /\ \/ page' = NewPage(TRUE) /\ UNCHANGED left
             \/ left' \in 1..Urls /\ UNCHANGED page
    /\ UNCHANGED <<expired, journal, late, overtime, budgetVars, sources, saved, rewarded>>

(* Mutant: the deadline is looked at while a body is read only.            *)
Exhausted_Untimed == requests <= 0 \/ remaining <= 0

Exhausted == requests <= 0 \/ remaining <= 0 \/ expired

(* get, the loop over redirects: check, the budgets, the next request.     *)
CheckBudgets ==
    /\ at = "check"
    /\ IF task.cancel THEN Cancelled
       ELSE IF Exhausted THEN PageFailed
       ELSE at' = "connect" /\ Stays
    /\ UNCHANGED <<expired, journal, late, overtime, budgetVars, sources, saved, rewarded>>

(* public_target: the url is no public one, before a request is spent.     *)
RefusedTarget == PageFailed

SendRequest ==
    /\ at = "connect"
    /\ \/ RefusedTarget /\ UNCHANGED <<budgetVars, late, overtime>>
       \/ /\ requests' = requests - 1 /\ sent' = sent + 1
          /\ Effect /\ Timed
          /\ at' = "response" /\ Stays /\ UNCHANGED <<remaining, received>>
    /\ UNCHANGED <<expired, journal, sources, saved, rewarded>>

BodyLimit == IF PageLimit < remaining THEN PageLimit ELSE remaining

(* The connection fails, the response is refused, redirects or has a body. *)
Response ==
    /\ at = "response"
    /\ \/ PageFailed
       \/ FailResearch
       \/ IF page.hops + 1 = Hops THEN PageFailed
          ELSE page' = [page EXCEPT !.hops = @ + 1] /\ at' = "check" /\ UNCHANGED <<task, left>>
       \/ page' = [page EXCEPT !.size = 0, !.limit = BodyLimit] /\ at' = "body" /\ UNCHANGED <<task, left>>
    /\ UNCHANGED <<expired, journal, late, overtime, budgetVars, sources, saved, rewarded>>

(* One read may go one byte past the limit, to see that it is exceeded.    *)
Body ==
    /\ at = "body"
    /\ IF task.cancel \/ expired
       THEN (IF task.cancel THEN Cancelled ELSE PageFailed) /\ UNCHANGED <<remaining, received>>
       ELSE \E n \in 0..Chunk :
          /\ n <= page.limit - page.size + 1
          /\ remaining' = remaining - n /\ received' = received + n
          /\ IF n = 0 THEN at' = "save" /\ Stays
             ELSE IF page.size + n > page.limit THEN PageFailed
             ELSE page' = [page EXCEPT !.size = @ + n] /\ UNCHANGED <<task, at, left>>
    /\ UNCHANGED <<expired, journal, late, overtime, requests, sent, sources, saved, rewarded>>

(* A search, saved, yields urls to fetch or none.                          *)
Found ==
    \/ FailResearch
    \/ /\ left' \in 1..Urls /\ page' = NewPage(FALSE)
       /\ at' = "check" /\ UNCHANGED task

(* _save: unreadable content is an error; a source is a row.               *)
Save ==
    /\ at = "save"
    /\ \/ PageFailed /\ UNCHANGED <<sources, saved, late>>
       \/ /\ saved' = saved + page.size /\ Effect
          /\ IF page.search
             THEN Found /\ UNCHANGED sources
             ELSE sources' = sources + 1 /\ NextPage
    /\ UNCHANGED <<expired, journal, overtime, budgetVars, rewarded>>

----------------------------------------------------------------------------
(* The summary.                                                            *)

Verify ==
    /\ at = "verify"
    /\ IF sources = 0 THEN Fail ELSE Move("verifying") /\ at' = "ask"
    /\ UNCHANGED <<expired, journal, late, overtime, budgetVars, fetchVars>>

(* Mutant: the gateway is made without the check, as the executive's is.   *)
AskHeeds_Unchecked == FALSE

(* acquire: the check, then a try for the lease, until it is had; then the *)
(* model is asked.                                                         *)
AskHeeds == task.cancel

Acquire ==
    /\ at = "ask"
    /\ IF AskHeeds THEN Fail ELSE at' = "lease" /\ UNCHANGED task
    /\ UNCHANGED <<expired, journal, late, overtime, budgetVars, fetchVars>>

Lease ==
    /\ at = "lease"
    /\ \/ at' = "ask" /\ UNCHANGED late
       \/ at' = "answer" /\ Effect
    /\ UNCHANGED <<task, expired, journal, overtime, budgetVars, fetchVars>>

(* The claims cite the sources saved, or the answer is refused.            *)
Answer ==
    /\ at = "answer"
    /\ \/ Fail
       \/ at' = "queue" /\ UNCHANGED task
    /\ UNCHANGED <<expired, journal, late, overtime, budgetVars, fetchVars>>

QueueSummary ==
    /\ at = "queue"
    /\ QueueJournal("reward")
    /\ UNCHANGED <<expired, overtime, budgetVars, fetchVars>>

(* reinforce_curiosity_outcome: only research that curiosity queued.       *)
Reward ==
    /\ at = "reward"
    /\ \/ rewarded' = TRUE /\ Effect
       \/ UNCHANGED <<rewarded, late>>
    /\ at' = "complete"
    /\ UNCHANGED <<task, expired, journal, overtime, budgetVars, page, left, sources, saved>>

Complete ==
    /\ at = "complete"
    /\ End("completed")
    /\ UNCHANGED <<expired, journal, late, overtime, budgetVars, fetchVars>>

----------------------------------------------------------------------------

Fetching == CheckBudgets \/ SendRequest \/ Response \/ Body \/ Save
Summing == Verify \/ Acquire \/ Lease \/ Answer \/ QueueSummary \/ Reward \/ Complete
AroundResearch == (Cancel \/ Expire \/ Kill) /\ UNCHANGED <<budgetVars, fetchVars>>

ResearchNext == StartResearch \/ Fetching \/ Summing \/ AroundResearch

ResearchSpec == ResearchInit /\ [][ResearchNext]_researchVars

----------------------------------------------------------------------------

(* Across the search, all pages and all their redirects: the requests, the *)
(* bytes read (one more, to notice) and the bytes kept stay within one     *)
(* budget, and when the time is over at most the request being made is.    *)
ResearchBudgets ==
    /\ sent <= Requests
    /\ received <= Bytes + 1 /\ saved <= Bytes
    /\ overtime <= 1

(* After a cancel at most one more thing begins that was already checked:  *)
(* a request, a source, the summary's model call or the reward; and what   *)
(* was cancelled is never completed.                                       *)
ResearchHeeds ==
    /\ late <= 1
    /\ task.cancel /\ at = "done" => task.state # "completed"

=============================================================================
