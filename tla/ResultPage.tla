------------------------------ MODULE ResultPage ------------------------------
(***************************************************************************)
(* The result pages beside the practice sessions: GetResult of             *)
(* backend/internal/practice and the polling of                            *)
(* front-web/.../PracticeResultPage.vue.                                   *)
(*                                                                         *)
(* GetResult reads the session, its jobs, its results and their sums with  *)
(* four statements on the pool, outside any transaction, so everything     *)
(* PracticeSession does may happen between them.  The page asks again      *)
(* every few seconds until an answer says that nothing is under way; from  *)
(* then on it stays as it is.  A page that will ask again has nothing to   *)
(* keep: it is polling.                                                    *)
(***************************************************************************)
EXTENDS PracticeSession

VARIABLE page \* per session, the answer a page of it reads or shows

pageVars == <<vars, page>>

Sources == {"none", "deterministic", "ai"}
ResultStatus == {"none", "pending", "correct", "incorrect", "unanswered", "failed"}

\* The analyses a session was ever given.  A job keeps its payload, so this set only grows.
Analyses(s) ==
  {j \in JobIds : task[j] = [kind |-> "analyze_practice_session_ai", session |-> s]}

\* Summary: how many results have which status, by who judged them.
Summary(results) ==
  [source \in Sources |-> [status \in ResultStatus |->
     Cardinality({i \in Items : results[i].source = source /\ results[i].status = status})]]

\* asked: the jobs are looked at next.  rows: the results are.  sums: the counts are.
Page == [step : {"polling", "asked", "rows", "sums", "shown"},
         status : SessionStatus,             \* the status and
         results : [Items -> Grading],       \* the results of the answer
         counts : [Sources -> [ResultStatus -> Nat]],
         analyses : SUBSET JobIds]           \* history: the analyses when the reading began

Unread == [i \in Items |-> NoGrading]
Polling == [step |-> "polling", status |-> "absent", results |-> Unread,
            counts |-> [source \in Sources |-> [status \in ResultStatus |-> 0]], analyses |-> {}]

PageInit == Init /\ page = [s \in Sessions |-> Polling]

\* The request is lost or refused, the page is left, or the answer says that something
\* is still under way.
KeepsPolling(s) == page' = [page EXCEPT ![s] = Polling]

Reads(s, before, after) ==
  /\ page[s].step = before
  /\ page' = [page EXCEPT ![s] = after]

\* SessionMetaForUser, of a new page or a page that asks again.  With a pending summary
\* or while grading the page goes on polling, whatever the rest of the answer says.
SessionMetaForUser(s) ==
  LET status == sessions[s].status
  IN  /\ sessions[s].deleted = "no"
      /\ status \in {"completed", "analysis_failed"} /\ sessions[s].summary # "pending"
      /\ \E before \in {"polling", "shown"} :
           Reads(s, before, [Polling EXCEPT !.step = IF status = "completed" THEN "asked" ELSE "rows",
                                            !.status = status, !.analyses = Analyses(s)])

\* Mutant: the page does not ask for the jobs of a completed session.
JobsForgotten(s) == Reads(s, "asked", [page[s] EXCEPT !.step = "rows"])

\* A completed session whose analysis is under way is shown as grading.
HasPendingAIJobs(s) ==
  /\ ActiveAnalyses(s) = {}
  /\ Reads(s, "asked", [page[s] EXCEPT !.step = "rows"])

ResultRows(s) == Reads(s, "rows", [page[s] EXCEPT !.step = "sums", !.results = grades[s]])

Sums(s) == Reads(s, "sums", [page[s] EXCEPT !.step = "shown", !.counts = Summary(grades[s])])

PageStep(s) ==
  \/ SessionMetaForUser(s)
  \/ HasPendingAIJobs(s)
  \/ ResultRows(s)
  \/ Sums(s)
  \/ KeepsPolling(s)

PageNext ==
  \/ Next /\ UNCHANGED page
  \/ \E s \in Sessions : PageStep(s) /\ UNCHANGED vars

PageSpec == PageInit /\ [][PageNext]_pageVars

FairPageSpec == PageSpec /\ Fairness

-----------------------------------------------------------------------------
(* Properties                                                              *)

\* The last attempt of an analysis the page knew of ended without success.
GivenUp(s) == \E j \in page[s].analyses : state[j] = "given up"

\* A page that stopped polling shows the final result, until the learner asks for
\* another analysis: every verdict is the one the session keeps, none is open, the
\* counts are those of the verdicts, and no attempt that is still under way writes any
\* more.  The status is the one of the session too, but for one case: it was read
\* before the jobs, so the page may say completed of a session whose analysis was given
\* up between the two reads and that now is analysis_failed.
ShownIsFinal ==
  \A s \in Sessions : page[s].step = "shown" /\ page[s].analyses = Analyses(s) =>
    /\ page[s].results = grades[s]
    /\ page[s].counts = Summary(page[s].results)
    /\ PendingIn(page[s].results) = {}
    /\ \A j \in ActiveAnalyses(s) : stage[j] = "refused"
    /\ \/ page[s].status = sessions[s].status
       \/ page[s].status = "completed" /\ sessions[s].status = "analysis_failed" /\ GivenUp(s)

=============================================================================
