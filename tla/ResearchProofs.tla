--------------------------- MODULE ResearchProofs ---------------------------
(***************************************************************************)
(* What holds of every research, whatever its limits and whatever servers, *)
(* pages and the model answer: the budgets of requests, bytes and time     *)
(* bound the whole task, and a cancel is heeded.                           *)
(***************************************************************************)
EXTENDS Research, WorkerTaskProofs

USE ResearchLimits

PageOK == page \in [search : BOOLEAN, hops : Nat, size : Nat, limit : Nat]

(* Requests and bytes are only moved from what is left to what is used.    *)
Balance ==
    /\ requests \in Nat /\ sent \in Nat /\ sent + requests = Requests
    /\ remaining \in Int /\ remaining >= -1
    /\ received \in Nat /\ received + remaining = Bytes
    /\ saved \in Nat /\ saved <= Bytes /\ saved <= received

(* Beyond the check there is something left to spend; a body never grows   *)
(* beyond what was left when its limit was set.                            *)
Covered ==
    /\ at = "connect" => requests > 0 /\ remaining > 0
    /\ at = "response" => remaining > 0
    /\ at \in {"body", "save"} =>
          /\ page.size <= page.limit
          /\ page.limit - page.size <= remaining
          /\ saved + page.size <= received

(* Only the request that was about to be made may come after the time.     *)
ResearchInTime ==
    /\ expired \in BOOLEAN /\ overtime \in {0, 1}
    /\ ~expired => overtime = 0
    /\ at = "connect" => overtime = 0

(* The places where an effect is about to begin lie right behind a check.  *)
ResearchChecked == at \in {"connect", "save", "lease", "reward"} => late = 0

ResearchInv == RowOK /\ LateOK /\ PageOK /\ Balance /\ Covered /\ ResearchInTime /\ ResearchChecked

----------------------------------------------------------------------------

(* Where a page's error leads.                                             *)
LEMMA NextPageKeeps ==
    ASSUME RowOK, NextPage
    PROVE  RowOK' /\ PageOK' /\ task'.cancel = task.cancel /\ at' \in {"verify", "check"}
<1>1. RowOK' /\ task'.cancel = task.cancel
  <2>1. Move("researching") /\ "researching" \in States
    BY StatesOfRows DEF NextPage, Active
  <2> QED BY <2>1, MoveKeeps
<1>2. PageOK'
  BY DEF NextPage, NewPage, PageOK
<1> QED BY <1>1, <1>2 DEF NextPage

LEMMA FailResearchKeeps ==
    ASSUME RowOK, PageOK, FailResearch
    PROVE  RowOK' /\ PageOK' /\ task'.cancel = task.cancel /\ at' = "dead"
BY FailKeeps DEF FailResearch, PageOK

LEMMA PageFailedKeeps ==
    ASSUME RowOK, PageOK, PageFailed
    PROVE  RowOK' /\ PageOK' /\ task'.cancel = task.cancel /\ at' \in {"dead", "verify", "check"}
BY NextPageKeeps, FailResearchKeeps DEF PageFailed

LEMMA StaysKeeps ==
    ASSUME RowOK, PageOK, Stays
    PROVE  RowOK' /\ PageOK' /\ task'.cancel = task.cancel
BY DEF Stays, RowOK, PageOK

(* What a step does that spends nothing and begins nothing: if it leads to *)
(* none of the places of a fetch or an effect, the invariant holds on.     *)
LEMMA QuietKeeps ==
    ASSUME ResearchInv, RowOK', PageOK', task'.cancel = task.cancel,
           UNCHANGED <<expired, late, overtime, budgetVars, saved>>,
           at' \notin {"connect", "response", "body", "save", "lease", "reward"}
    PROVE  ResearchInv'
<1>1. Balance' /\ Covered' /\ ResearchInTime' /\ ResearchChecked'
  BY DEF ResearchInv, Balance, Covered, ResearchInTime, ResearchChecked, budgetVars
<1>2. LateOK'
  BY NoEffectKeeps DEF ResearchInv
<1> QED BY <1>1, <1>2 DEF ResearchInv

LEMMA StartResearchKeeps == ASSUME ResearchInv, StartResearch PROVE ResearchInv'
<1>1. RowOK' /\ PageOK' /\ task'.cancel = task.cancel /\ at' \in {"dead", "check"}
  <2>1. CASE Fail /\ UNCHANGED <<page, left>>
    BY <2>1, FailKeeps DEF ResearchInv, PageOK
  <2>2. CASE /\ Move("researching") /\ at' = "check"
             /\ page' = NewPage(TRUE) \/ UNCHANGED page
    <3>1. RowOK' /\ task'.cancel = task.cancel
      BY <2>2, MoveKeeps, StatesOfRows DEF ResearchInv, Active
    <3>2. PageOK'
      <4>1. CASE page' = NewPage(TRUE)
        BY <4>1 DEF PageOK, NewPage
      <4>2. CASE UNCHANGED page
        BY <4>2 DEF ResearchInv, PageOK
      <4> QED BY <2>2, <4>1, <4>2
    <3> QED BY <2>2, <3>1, <3>2
  <2> QED BY <2>1, <2>2 DEF StartResearch
<1>2. UNCHANGED <<expired, late, overtime, budgetVars, saved>>
  BY DEF StartResearch
<1> QED BY <1>1, <1>2, QuietKeeps

LEMMA CheckBudgetsKeeps == ASSUME ResearchInv, CheckBudgets PROVE ResearchInv'
<1>1. UNCHANGED <<expired, late, overtime, budgetVars, saved>>
  BY DEF CheckBudgets
<1>2. CASE task.cancel \/ Exhausted
  <2>1. RowOK' /\ PageOK' /\ task'.cancel = task.cancel /\ at' \in {"dead", "verify", "check"}
    BY <1>2, FailResearchKeeps, PageFailedKeeps DEF CheckBudgets, Cancelled, ResearchInv
  <2> QED BY <1>1, <2>1, QuietKeeps
<1>3. CASE ~(task.cancel \/ Exhausted)
  <2>1. at' = "connect" /\ RowOK' /\ PageOK' /\ task'.cancel = task.cancel
    BY <1>3, StaysKeeps DEF CheckBudgets, ResearchInv
  <2>2. requests > 0 /\ remaining > 0 /\ ~expired
    BY <1>3 DEF Exhausted, ResearchInv, Balance
  <2>3. Balance' /\ Covered' /\ ResearchInTime'
    BY <1>1, <2>1, <2>2 DEF ResearchInv, Balance, Covered, ResearchInTime, budgetVars
  <2>4. LateOK' /\ ResearchChecked'
    BY <1>1, <1>3, <2>1 DEF ResearchInv, LateOK, ResearchChecked
  <2> QED BY <2>1, <2>3, <2>4 DEF ResearchInv
<1> QED BY <1>2, <1>3

LEMMA SendRequestKeeps == ASSUME ResearchInv, SendRequest PROVE ResearchInv'
<1>1. CASE PageFailed /\ UNCHANGED <<budgetVars, late, overtime>>
  <2>1. RowOK' /\ PageOK' /\ task'.cancel = task.cancel /\ at' \in {"dead", "verify", "check"}
    BY <1>1, PageFailedKeeps DEF ResearchInv
  <2> QED BY <1>1, <2>1, QuietKeeps DEF SendRequest
<1>2. CASE /\ requests' = requests - 1 /\ sent' = sent + 1
           /\ Effect /\ Timed
           /\ at' = "response" /\ Stays /\ UNCHANGED <<remaining, received>>
  <2>1. RowOK' /\ PageOK' /\ task'.cancel = task.cancel
    BY <1>2, StaysKeeps DEF ResearchInv
  <2>2. at = "connect" /\ requests > 0 /\ remaining > 0 /\ overtime = 0 /\ late = 0
    BY DEF SendRequest, ResearchInv, Covered, ResearchInTime, ResearchChecked
  <2>3. UNCHANGED <<expired, saved>>
    BY DEF SendRequest
  <2>4. Balance' /\ Covered'
    BY <1>2, <2>2, <2>3 DEF ResearchInv, Balance, Covered
  <2>5. ResearchInTime'
    BY <1>2, <2>2, <2>3 DEF ResearchInv, ResearchInTime, Timed
  <2>6. LateOK' /\ ResearchChecked'
    BY <1>2, <2>1, <2>2, EffectKeeps DEF ResearchInv, ResearchChecked
  <2> QED BY <2>1, <2>4, <2>5, <2>6 DEF ResearchInv
<1> QED BY <1>1, <1>2 DEF SendRequest, RefusedTarget

LEMMA ResponseKeeps == ASSUME ResearchInv, Response PROVE ResearchInv'
<1>1. UNCHANGED <<expired, late, overtime, budgetVars, saved>>
  BY DEF Response
<1>2. CASE PageFailed \/ FailResearch
  <2>1. RowOK' /\ PageOK' /\ task'.cancel = task.cancel /\ at' \in {"dead", "verify", "check"}
    BY <1>2, FailResearchKeeps, PageFailedKeeps DEF ResearchInv
  <2> QED BY <1>1, <2>1, QuietKeeps
<1>3. CASE page' = [page EXCEPT !.hops = @ + 1] /\ at' = "check" /\ UNCHANGED <<task, left>>
  <2>1. RowOK' /\ PageOK' /\ task'.cancel = task.cancel
    BY <1>3 DEF ResearchInv, RowOK, PageOK
  <2> QED BY <1>1, <1>3, <2>1, QuietKeeps
<1>4. CASE page' = [page EXCEPT !.size = 0, !.limit = BodyLimit] /\ at' = "body"
           /\ UNCHANGED <<task, left>>
  <2>1. remaining > 0 /\ BodyLimit \in Nat /\ BodyLimit <= remaining
    BY DEF Response, ResearchInv, Covered, Balance, BodyLimit
  <2>2. PageOK' /\ page'.size = 0 /\ page'.limit = BodyLimit
    BY <1>4, <2>1 DEF ResearchInv, PageOK
  <2>3. RowOK' /\ LateOK' /\ Balance' /\ ResearchInTime' /\ ResearchChecked'
    BY <1>1, <1>4 DEF ResearchInv, RowOK, LateOK, Balance, ResearchInTime, ResearchChecked, budgetVars
  <2>4. Covered'
    BY <1>1, <1>4, <2>1, <2>2 DEF ResearchInv, Balance, Covered, budgetVars
  <2> QED BY <2>2, <2>3, <2>4 DEF ResearchInv
<1> QED BY <1>2, <1>3, <1>4 DEF Response

LEMMA BodyKeeps == ASSUME ResearchInv, Body PROVE ResearchInv'
<1>1. UNCHANGED <<expired, late, overtime, requests, sent, saved>>
  BY DEF Body
<1>2. CASE task.cancel \/ expired
  <2>1. RowOK' /\ PageOK' /\ task'.cancel = task.cancel /\ at' \in {"dead", "verify", "check"}
    BY <1>2, FailResearchKeeps, PageFailedKeeps DEF Body, Cancelled, ResearchInv
  <2> QED BY <1>1, <1>2, <2>1, QuietKeeps DEF Body, budgetVars
<1>3. CASE ~(task.cancel \/ expired)
  <2>1. PICK n \in 0..Chunk :
          /\ n <= page.limit - page.size + 1
          /\ remaining' = remaining - n /\ received' = received + n
          /\ IF n = 0 THEN at' = "save" /\ Stays
             ELSE IF page.size + n > page.limit THEN PageFailed
             ELSE page' = [page EXCEPT !.size = @ + n] /\ UNCHANGED <<task, at, left>>
    BY <1>3 DEF Body
  <2>2. /\ n \in Nat /\ page.size \in Nat /\ page.limit \in Nat
        /\ page.size <= page.limit /\ page.limit - page.size <= remaining
        /\ saved + page.size <= received
    BY DEF Body, ResearchInv, PageOK, Covered
  <2>3. Balance'
    BY <1>1, <2>1, <2>2 DEF ResearchInv, Balance
  <2>4. CASE n = 0
    <3>1. at' = "save" /\ RowOK' /\ PageOK' /\ task' = task /\ page' = page
      BY <2>1, <2>4, StaysKeeps DEF ResearchInv, Stays
    <3>2. remaining' = remaining /\ received' = received
      BY <2>1, <2>4 DEF ResearchInv, Balance
    <3>3. Covered' /\ ResearchInTime'
      BY <1>1, <2>2, <3>1, <3>2 DEF ResearchInv, Covered, ResearchInTime
    <3>4. LateOK' /\ ResearchChecked'
      BY <1>1, <1>3, <3>1 DEF ResearchInv, LateOK, ResearchChecked
    <3> QED BY <2>3, <3>1, <3>3, <3>4 DEF ResearchInv
  <2>5. CASE n # 0 /\ page.size + n > page.limit
    <3>1. RowOK' /\ PageOK' /\ task'.cancel = task.cancel /\ at' \in {"dead", "verify", "check"}
      BY <2>1, <2>5, PageFailedKeeps DEF ResearchInv
    <3>2. Covered' /\ ResearchInTime' /\ ResearchChecked'
      BY <1>1, <3>1 DEF ResearchInv, Covered, ResearchInTime, ResearchChecked
    <3>3. LateOK'
      BY <1>1, <3>1 DEF ResearchInv, LateOK
    <3> QED BY <2>3, <3>1, <3>2, <3>3 DEF ResearchInv
  <2>6. CASE n # 0 /\ ~(page.size + n > page.limit)
    <3>1. page' = [page EXCEPT !.size = @ + n] /\ UNCHANGED <<task, at>>
      BY <2>1, <2>6
    <3>2. PageOK' /\ page'.size = page.size + n /\ page'.limit = page.limit
      BY <2>2, <3>1 DEF ResearchInv, PageOK
    <3>3. at' = "body"
      BY <3>1 DEF Body
    <3>4. Covered'
      BY <1>1, <2>1, <2>2, <2>6, <3>2, <3>3 DEF ResearchInv, Balance, Covered
    <3>5. RowOK' /\ LateOK' /\ ResearchInTime' /\ ResearchChecked'
      BY <1>1, <3>1, <3>3 DEF ResearchInv, RowOK, LateOK, ResearchInTime, ResearchChecked
    <3> QED BY <2>3, <3>2, <3>4, <3>5 DEF ResearchInv
  <2> QED BY <2>4, <2>5, <2>6
<1> QED BY <1>2, <1>3

LEMMA SaveKeeps == ASSUME ResearchInv, Save PROVE ResearchInv'
<1>1. UNCHANGED <<expired, overtime, budgetVars>>
  BY DEF Save
<1>2. CASE PageFailed /\ UNCHANGED <<sources, saved, late>>
  <2>1. RowOK' /\ PageOK' /\ task'.cancel = task.cancel /\ at' \in {"dead", "verify", "check"}
    BY <1>2, PageFailedKeeps DEF ResearchInv
  <2> QED BY <1>1, <1>2, <2>1, QuietKeeps
<1>3. CASE /\ saved' = saved + page.size /\ Effect
           /\ IF page.search
              THEN Found /\ UNCHANGED sources
              ELSE sources' = sources + 1 /\ NextPage
  <2>1. RowOK' /\ PageOK' /\ task'.cancel = task.cancel /\ at' \in {"dead", "verify", "check"}
    <3>1. CASE FailResearch
      BY <3>1, FailResearchKeeps DEF ResearchInv
    <3>2. CASE page' = NewPage(FALSE) /\ at' = "check" /\ UNCHANGED task
      BY <3>2 DEF ResearchInv, RowOK, PageOK, NewPage
    <3>3. CASE NextPage
      BY <3>3, NextPageKeeps DEF ResearchInv
    <3> QED BY <1>3, <3>1, <3>2, <3>3 DEF Found
  <2>2. /\ page.size \in Nat /\ page.limit \in Nat /\ page.size <= page.limit
        /\ page.limit - page.size <= remaining /\ saved + page.size <= received /\ late = 0
    BY DEF Save, ResearchInv, PageOK, Covered, ResearchChecked
  <2>3. Balance'
    BY <1>1, <1>3, <2>2 DEF ResearchInv, Balance, budgetVars
  <2>4. Covered' /\ ResearchInTime' /\ ResearchChecked'
    BY <1>1, <2>1 DEF ResearchInv, Covered, ResearchInTime, ResearchChecked
  <2>5. LateOK'
    BY <1>3, <2>1, <2>2, EffectKeeps DEF ResearchInv
  <2> QED BY <2>1, <2>3, <2>4, <2>5 DEF ResearchInv
<1> QED BY <1>2, <1>3 DEF Save

----------------------------------------------------------------------------
(* The summary, and what happens around the worker.                        *)

LEMMA SumKeeps == ASSUME ResearchInv, Summing PROVE ResearchInv'
<1>1. CASE Verify
  <2>1. RowOK' /\ task'.cancel = task.cancel /\ at' \in {"dead", "ask"}
    BY <1>1, FailKeeps, MoveKeeps, StatesOfRows DEF Verify, ResearchInv, Active
  <2> QED BY <1>1, <2>1, QuietKeeps DEF Verify, fetchVars, ResearchInv, PageOK
<1>2. CASE Acquire
  <2>1. CASE AskHeeds
    <3>1. RowOK' /\ task'.cancel = task.cancel /\ at' = "dead"
      BY <1>2, <2>1, FailKeeps DEF Acquire, ResearchInv
    <3> QED BY <1>2, <3>1, QuietKeeps DEF Acquire, fetchVars, ResearchInv, PageOK
  <2>2. CASE ~AskHeeds
    <3>1. at' = "lease" /\ late = 0 /\ UNCHANGED <<task, expired, late, overtime, budgetVars, fetchVars>>
      BY <1>2, <2>2 DEF Acquire, AskHeeds, ResearchInv, LateOK
    <3> QED BY <3>1 DEF fetchVars, budgetVars, ResearchInv, RowOK, LateOK, PageOK, Balance,
                        Covered, ResearchInTime, ResearchChecked
  <2> QED BY <2>1, <2>2
<1>3. CASE Lease
  <2>1. RowOK' /\ PageOK' /\ task'.cancel = task.cancel /\ at' \in {"ask", "answer"}
    BY <1>3 DEF Lease, fetchVars, ResearchInv, RowOK, PageOK
  <2>2. LateOK'
    BY <1>3, <2>1, EffectKeeps, NoEffectKeeps DEF Lease, ResearchInv, ResearchChecked
  <2> QED BY <1>3, <2>1, <2>2 DEF Lease, fetchVars, budgetVars, ResearchInv, Balance, Covered,
                                  ResearchInTime, ResearchChecked
<1>4. CASE Answer
  <2>1. RowOK' /\ task'.cancel = task.cancel /\ at' \in {"dead", "queue"}
    BY <1>4, FailKeeps DEF Answer, ResearchInv, RowOK
  <2> QED BY <1>4, <2>1, QuietKeeps DEF Answer, fetchVars, ResearchInv, PageOK
<1>5. CASE QueueSummary
  <2>1. /\ RowOK' /\ LateOK'
        /\ at' = "dead" \/ (at' = "reward" /\ late' = 0)
    BY <1>5, QueueJournalKeeps DEF QueueSummary, ResearchInv
  <2> QED BY <1>5, <2>1 DEF QueueSummary, fetchVars, budgetVars, ResearchInv, PageOK, Balance, Covered,
                            ResearchInTime, ResearchChecked
<1>6. CASE Reward
  <2>1. RowOK' /\ PageOK' /\ task'.cancel = task.cancel /\ at' = "complete"
    BY <1>6 DEF Reward, ResearchInv, RowOK, PageOK
  <2>2. LateOK'
    BY <1>6, <2>1, EffectKeeps, NoEffectKeeps DEF Reward, ResearchInv, ResearchChecked
  <2> QED BY <1>6, <2>1, <2>2 DEF Reward, budgetVars, ResearchInv, Balance, Covered, ResearchInTime, ResearchChecked
<1>7. CASE Complete
  <2>1. RowOK' /\ task'.cancel = task.cancel /\ at' = "done"
    BY <1>7, EndKeeps, StatesOfRows DEF Complete, ResearchInv
  <2> QED BY <1>7, <2>1, QuietKeeps DEF Complete, fetchVars, ResearchInv, PageOK
<1> QED BY <1>1, <1>2, <1>3, <1>4, <1>5, <1>6, <1>7 DEF Summing

LEMMA AroundResearchKeeps == ASSUME ResearchInv, AroundResearch PROVE ResearchInv'
<1>0. PageOK' /\ Balance' /\ UNCHANGED <<page, remaining, received, saved, requests>>
  BY DEF AroundResearch, fetchVars, budgetVars, ResearchInv, PageOK, Balance
<1>1. CASE Cancel
  <2>1. RowOK' /\ LateOK' /\ late' = late /\ at' = at
    BY <1>1, CancelKeeps DEF ResearchInv
  <2> QED BY <1>0, <1>1, <2>1 DEF Cancel, ResearchInv, Covered, ResearchInTime, ResearchChecked
<1>2. CASE Expire
  BY <1>0, <1>2 DEF Expire, ResearchInv, RowOK, LateOK, Covered, ResearchInTime, ResearchChecked
<1>3. CASE Kill
  <2>1. RowOK' /\ task'.cancel = task.cancel /\ at' = "dead"
    BY <1>3, FailKeeps DEF Kill, ResearchInv
  <2>2. LateOK'
    BY <1>3, <2>1, NoEffectKeeps DEF Kill, ResearchInv
  <2> QED BY <1>0, <1>3, <2>1, <2>2 DEF Kill, ResearchInv, Covered, ResearchInTime, ResearchChecked
<1> QED BY <1>1, <1>2, <1>3 DEF AroundResearch

LEMMA ResearchStepKeeps == ResearchInv /\ [ResearchNext]_researchVars => ResearchInv'
<1> SUFFICES ASSUME ResearchInv, [ResearchNext]_researchVars PROVE ResearchInv'
  OBVIOUS
<1>1. CASE Fetching
  BY <1>1, CheckBudgetsKeeps, SendRequestKeeps, ResponseKeeps, BodyKeeps, SaveKeeps DEF Fetching
<1>2. CASE UNCHANGED researchVars
  BY <1>2 DEF researchVars, workerVars, budgetVars, fetchVars, ResearchInv, RowOK, LateOK, PageOK,
              Balance, Covered, ResearchInTime, ResearchChecked
<1> QED BY <1>1, <1>2, StartResearchKeeps, SumKeeps, AroundResearchKeeps DEF ResearchNext

LEMMA ResearchStarts == ResearchInit => ResearchInv
<1> SUFFICES ASSUME ResearchInit PROVE ResearchInv
  OBVIOUS
<1>1. /\ task = Claimed("research") /\ at = "start" /\ expired = FALSE
      /\ late = 0 /\ overtime = 0
  BY DEF ResearchInit, FetchInit, WorkerInit
<1>2. RowOK
  <2>1. "research" \in KINDS
    BY DEF KINDS
  <2> QED BY <1>1, <2>1, ClaimedWorked DEF RowOK
<1>3. LateOK /\ ResearchChecked /\ Covered
  BY <1>1 DEF LateOK, ResearchChecked, Covered
<1>5. expired \in BOOLEAN
  BY <1>1
<1>6. ResearchInTime
  BY <1>1, <1>5 DEF ResearchInTime
<1>4. PageOK /\ Balance
  BY DEF ResearchInit, FetchInit, NewPage, PageOK, Balance
<1> QED BY <1>2, <1>3, <1>4, <1>6 DEF ResearchInv

LEMMA ResearchAlways == ResearchSpec => []ResearchInv
BY ResearchStarts, ResearchStepKeeps, PTL DEF ResearchSpec

(* Across the search, all pages and their redirects: requests, bytes read  *)
(* and kept, and work begun after the time stay within one budget.         *)
THEOREM ResearchWithinBudgets == ResearchSpec => []ResearchBudgets
<1>1. ResearchInv => ResearchBudgets
  BY DEF ResearchInv, Balance, ResearchInTime, ResearchBudgets
<1> QED BY <1>1, ResearchAlways, PTL

(* After a cancel at most one more effect begins, one that was checked     *)
(* before it, and the research is not completed.                           *)
THEOREM ResearchHeedsCancel == ResearchSpec => []ResearchHeeds
<1>1. ResearchInv => ResearchHeeds
  BY DEF ResearchInv, RowOK, LateOK, ResearchHeeds
<1> QED BY <1>1, ResearchAlways, PTL

----------------------------------------------------------------------------
(* The pages of a research.                                                *)

FetchPlaces == {"check", "connect", "response", "body", "save"}

(* A page is within its limits; a page under way is the search, before any *)
(* source, or one of the urls left; and every url is one source at most.   *)
PagesOK ==
    /\ at \in ResearchPlaces /\ journal \in BOOLEAN /\ rewarded \in BOOLEAN
    /\ page.hops < Hops /\ page.limit <= PageLimit /\ page.size <= page.limit
    /\ left \in Nat /\ sources \in Nat /\ left + sources <= Urls
    /\ at = "start" => sources = 0
    /\ page.search => sources = 0
    /\ at \in FetchPlaces => page.search \/ left > 0

LEMMA NextPageLeft ==
    ASSUME PagesOK, left > 0, NextPage, sources' \in {sources, sources + 1},
           UNCHANGED <<journal, rewarded>>
    PROVE  PagesOK'
BY DEF PagesOK, NextPage, NewPage, ResearchPlaces, FetchPlaces

LEMMA FailResearchLeft ==
    ASSUME PagesOK, Fail, UNCHANGED <<page, left, sources, journal, rewarded>>
    PROVE  PagesOK'
BY DEF PagesOK, Fail, ResearchPlaces, FetchPlaces

LEMMA PageFailedLeft ==
    ASSUME PagesOK, at \in FetchPlaces, PageFailed, UNCHANGED <<sources, journal, rewarded>>
    PROVE  PagesOK'
<1>1. CASE page.search
  BY <1>1, FailResearchLeft DEF PageFailed, FailResearch
<1>2. CASE ~page.search
  BY <1>2, NextPageLeft DEF PageFailed, PagesOK
<1> QED BY <1>1, <1>2

(* A step that stays with the page, or goes on behind the last one.        *)
LEMMA SamePageLeft ==
    ASSUME PagesOK, UNCHANGED <<page, left, sources>>, journal' \in BOOLEAN, rewarded' \in BOOLEAN,
           at' \in ResearchPlaces \ {"start"}, at \in FetchPlaces \/ at' \notin FetchPlaces
    PROVE  PagesOK'
BY DEF PagesOK, FetchPlaces

LEMMA FetchingLeft == ASSUME ResearchInv, PagesOK, Fetching PROVE PagesOK'
<1>0. at \in FetchPlaces /\ UNCHANGED <<journal, rewarded>> /\ journal \in BOOLEAN /\ rewarded \in BOOLEAN
  BY DEF Fetching, CheckBudgets, SendRequest, Response, Body, Save, FetchPlaces, PagesOK
<1>1. CASE CheckBudgets
  <2>1. CASE at' = "connect" /\ Stays
    BY <1>0, <1>1, <2>1, SamePageLeft DEF CheckBudgets, Stays, ResearchPlaces, FetchPlaces
  <2> QED BY <1>0, <1>1, <2>1, FailResearchLeft, PageFailedLeft DEF CheckBudgets, Cancelled, FailResearch
<1>2. CASE SendRequest
  <2>1. CASE at' = "response" /\ Stays
    BY <1>0, <1>2, <2>1, SamePageLeft DEF SendRequest, Stays, ResearchPlaces, FetchPlaces
  <2> QED BY <1>0, <1>2, <2>1, PageFailedLeft DEF SendRequest, RefusedTarget
<1>3. CASE Response
  <2>1. UNCHANGED sources /\ PageOK
    BY <1>3 DEF Response, ResearchInv
  <2>2. CASE page.hops + 1 # Hops /\ page' = [page EXCEPT !.hops = @ + 1] /\ at' = "check"
             /\ UNCHANGED left
    BY <1>0, <2>1, <2>2 DEF PageOK, PagesOK, ResearchPlaces, FetchPlaces
  <2>3. CASE page' = [page EXCEPT !.size = 0, !.limit = BodyLimit] /\ at' = "body" /\ UNCHANGED left
    <3>1. BodyLimit \in Nat /\ BodyLimit <= PageLimit
      BY <1>3 DEF Response, ResearchInv, Covered, Balance, BodyLimit
    <3>2. page'.size = 0 /\ page'.limit = BodyLimit /\ page'.hops = page.hops /\ page'.search = page.search
      BY <2>1, <2>3 DEF PageOK
    <3> QED BY <1>0, <2>1, <2>3, <3>1, <3>2 DEF PagesOK, ResearchPlaces, FetchPlaces
  <2> QED BY <1>0, <1>3, <2>1, <2>2, <2>3, FailResearchLeft, PageFailedLeft DEF Response, FailResearch
<1>4. CASE Body
  <2>1. UNCHANGED sources /\ PageOK /\ at = "body"
    BY <1>4 DEF Body, ResearchInv
  <2>2. CASE at' = "save" /\ Stays
    BY <1>0, <2>1, <2>2, SamePageLeft DEF Stays, ResearchPlaces, FetchPlaces
  <2>3. ASSUME NEW n \in 0..Chunk, ~(page.size + n > page.limit),
               page' = [page EXCEPT !.size = @ + n], UNCHANGED <<at, left>>
        PROVE  PagesOK'
    <3>1. page'.size = page.size + n /\ page'.limit = page.limit /\ page'.hops = page.hops
          /\ page'.search = page.search /\ page.size \in Nat /\ page.limit \in Nat /\ n \in Nat
      BY <2>1, <2>3 DEF PageOK
    <3> QED BY <1>0, <2>1, <2>3, <3>1 DEF PagesOK, ResearchPlaces, FetchPlaces
  <2> QED BY <1>0, <1>4, <2>1, <2>2, <2>3, FailResearchLeft, PageFailedLeft DEF Body, Cancelled, FailResearch
<1>5. CASE Save
  <2>1. CASE PageFailed /\ UNCHANGED sources
    BY <1>0, <2>1, PageFailedLeft
  <2>2. CASE page.search /\ Found /\ UNCHANGED sources
    <3>1. CASE left' \in 1..Urls /\ page' = NewPage(FALSE) /\ at' = "check"
      BY <1>0, <2>2, <3>1 DEF NewPage, PagesOK, ResearchPlaces, FetchPlaces
    <3> QED BY <1>0, <2>2, <3>1, FailResearchLeft DEF Found, FailResearch
  <2>3. CASE ~page.search /\ sources' = sources + 1 /\ NextPage
    BY <1>0, <2>3, NextPageLeft DEF PagesOK
  <2> QED BY <1>5, <2>1, <2>2, <2>3 DEF Save
<1> QED BY <1>1, <1>2, <1>3, <1>4, <1>5 DEF Fetching

LEMMA PagesKeep == ResearchInv /\ PagesOK /\ [ResearchNext]_researchVars => PagesOK'
<1> SUFFICES ASSUME ResearchInv, PagesOK, [ResearchNext]_researchVars PROVE PagesOK'
  OBVIOUS
<1>1. CASE StartResearch
  <2>1. CASE Fail /\ UNCHANGED <<page, left>>
    BY <1>1, <2>1, FailResearchLeft DEF StartResearch
  <2>2. CASE at' = "check" /\ page' = NewPage(TRUE) /\ UNCHANGED left
    BY <1>1, <2>2 DEF StartResearch, NewPage, PagesOK, ResearchPlaces, FetchPlaces
  <2>3. CASE at' = "check" /\ left' \in 1..Urls /\ UNCHANGED page
    BY <1>1, <2>3 DEF StartResearch, PagesOK, ResearchPlaces, FetchPlaces
  <2> QED BY <1>1, <2>1, <2>2, <2>3 DEF StartResearch
<1>2. CASE Summing
  <2>1. UNCHANGED <<page, left, sources>>
    BY <1>2 DEF Summing, Verify, Acquire, Lease, Answer, QueueSummary, Reward, Complete, fetchVars
  <2>2. journal' \in BOOLEAN /\ rewarded' \in BOOLEAN
    BY <1>2 DEF Summing, Verify, Acquire, Lease, Answer, QueueSummary, QueueJournal, Reward, Complete,
                fetchVars, PagesOK
  <2>3. at' \in {"ask", "lease", "answer", "queue", "reward", "complete", "done", "dead"}
    BY <1>2 DEF Summing, Verify, Acquire, Lease, Answer, QueueSummary, QueueJournal, Reward, Complete,
                End, Fail
  <2> QED BY <2>1, <2>2, <2>3, SamePageLeft DEF ResearchPlaces, FetchPlaces
<1>3. CASE AroundResearch
  <2>1. UNCHANGED <<page, left, sources, rewarded, journal>> /\ (at' = at \/ Fail)
    BY <1>3 DEF AroundResearch, fetchVars, Cancel, Expire, Kill
  <2> QED BY <2>1, FailResearchLeft DEF PagesOK
<1>4. CASE UNCHANGED researchVars
  BY <1>4 DEF researchVars, workerVars, budgetVars, fetchVars, PagesOK
<1> QED BY <1>1, <1>2, <1>3, <1>4, FetchingLeft DEF ResearchNext

LEMMA PagesStart == ResearchInit => PagesOK
<1> SUFFICES ASSUME ResearchInit PROVE PagesOK
  OBVIOUS
<1>1. Hops \in Nat /\ Hops > 0 /\ Urls \in Nat /\ PageLimit \in Nat
  BY ResearchLimits
<1>2. at = "start" /\ journal \in BOOLEAN /\ rewarded \in BOOLEAN /\ left = 0 /\ sources = 0
  BY DEF ResearchInit, FetchInit, WorkerInit
<1>3. page.hops = 0 /\ page.size = 0 /\ page.limit = 0
  BY DEF ResearchInit, FetchInit, NewPage
<1> QED BY <1>1, <1>2, <1>3 DEF PagesOK, ResearchPlaces, FetchPlaces

LEMMA ResearchTyped == ResearchInv /\ PagesOK => ResearchTypeOK
<1> SUFFICES ASSUME ResearchInv, PagesOK PROVE ResearchTypeOK
  OBVIOUS
<1>1. WorkerTypeOK(ResearchPlaces)
  BY WorkedIsRow DEF WorkerTypeOK, ResearchInv, RowOK, LateOK, ResearchInTime, PagesOK
<1>2. page \in [search : BOOLEAN, hops : 0..Hops, size : 0..PageLimit + 1, limit : 0..PageLimit]
  <2>1. page.hops \in 0..Hops /\ page.size \in 0..PageLimit + 1 /\ page.limit \in 0..PageLimit
    BY DEF ResearchInv, PageOK, PagesOK
  <2> QED BY <2>1 DEF ResearchInv, PageOK
<1>3. requests \in 0..Requests /\ remaining \in -1..Bytes /\ left \in 0..Urls /\ sources \in 0..Urls
  BY DEF ResearchInv, Balance, PagesOK
<1> QED BY <1>1, <1>2, <1>3 DEF ResearchTypeOK, ResearchInv, Balance, PagesOK

(* The pages, the urls left and the budgets of a research stay within      *)
(* their limits: no fetch is redirected more often than it may be, and no  *)
(* research has more sources than urls.                                    *)
THEOREM ResearchTypeCorrect == ResearchSpec => []ResearchTypeOK
BY ResearchStarts, ResearchStepKeeps, PagesStart, PagesKeep, ResearchTyped, PTL DEF ResearchSpec

=============================================================================
