--------------------------- MODULE PracticeSession ---------------------------
(***************************************************************************)
(* The practice sessions of one account, from their creation to their      *)
(* result, with the AI jobs that run for them (backend/internal/practice,  *)
(* backend/internal/ai).                                                   *)
(*                                                                         *)
(* HTTP handlers and workers meet in two tables, sessions and jobs.  Every *)
(* transaction is one action; what a handler of a job reads before the AI  *)
(* call and uses after it is kept in batch.  The jobs are those of         *)
(* JobContract, which the job table implements (JobQueueProofs): an attempt *)
(* is taken back when it fails, crashes, or loses its lease, and an attempt *)
(* that was taken back commits nothing any more.                           *)
(*                                                                         *)
(* Not followed here: what the questions say, the AI call itself, and the  *)
(* statistics the analysis refreshes before it asks (LearningMemory).      *)
(***************************************************************************)
EXTENDS Naturals, FiniteSets

CONSTANTS
  Sessions,      \* practice sessions that may be created
  Review,        \* those of them created in mode review
  Items,         \* the positions of the questions in a session
  AnswerKind,    \* what is known of the answer of an item
  Values,        \* answers a learner can give
  RightValue,    \* the one the key of an item accepts
  JobIds,        \* jobs that may be enqueued, in the order of created_at
  MaxAttempts    \* jobs.max_attempts

NoValue == "no value"

\* official: an answer key.  generated: no key, but the answer the AI stored when it
\* generated the objective question.  short: a short answer with such a stored
\* answer.  open: nothing Grade could use, which includes a short answer with a key.
AnswerKinds == {"official", "generated", "short", "open"}

ASSUME SessionsAssumption == Review \subseteq Sessions
ASSUME ItemsAssumption == IsFiniteSet(Items) /\ AnswerKind \in [Items -> AnswerKinds]
ASSUME ValuesAssumption == NoValue \notin Values
ASSUME JobsAssumption == JobIds \subseteq Nat /\ MaxAttempts \in Nat \ {0}

VARIABLES
  sessions,   \* practice_sessions
  answers,    \* user_answers, per session and item
  grades,     \* grading_results, per session and item
  request,    \* the answers of the submission that was accepted
  task,       \* kind and payload of each job
  stage,      \* how far the handler of a granted job has come
  batch,      \* what the analysis found to do when it read the session
  rebuild,    \* whether a statistics rebuild of the account is queued
  state, grants, committed   \* the jobs, as JobContract sees them

business == <<sessions, answers, grades, request, rebuild>>
handlers == <<stage, batch>>
queue == <<state, grants, committed>>
vars == <<business, task, handlers, queue>>

Queue == INSTANCE JobContract WITH Jobs <- JobIds, Limit <- MaxAttempts

SessionStatus ==
  {"absent", "generating", "generation_failed", "active", "grading", "completed", "analysis_failed"}
SummaryStatus == {"not_requested", "pending", "completed", "failed"}

Session == [status : SessionStatus, summary : SummaryStatus, deleted : {"no", "yes"}]

Grading == [source : {"none", "deterministic", "ai"},
            status : {"none", "pending", "correct", "incorrect", "unanswered", "failed"},
            answer : Values \cup {NoValue},
            explanation : {"plain", "garbled"}]

Task == [kind : {"none", "analyze_practice_session_ai", "generate_ai_practice_session"},
         session : Sessions \cup {"none"}]

\* started: claimed.  asked: the session has been read, the AI is being asked.
\* done: the handler has nothing left to do but return.  refused: the failure has
\* been recorded, the handler returns the error.
Stage == {"idle", "started", "asked", "done", "refused"}

NoSession == [status |-> "absent", summary |-> "not_requested", deleted |-> "no"]
NoGrading == [source |-> "none", status |-> "none", answer |-> NoValue, explanation |-> "plain"]
NoBatch == [pending |-> {}, garbled |-> {}]
NoTask == [kind |-> "none", session |-> "none"]
Unanswered == [i \in Items |-> NoValue]
NoRequest == [sent |-> "no", body |-> Unanswered]

Init ==
  /\ sessions = [s \in Sessions |-> NoSession]
  /\ answers = [s \in Sessions |-> Unanswered]
  /\ grades = [s \in Sessions |-> [i \in Items |-> NoGrading]]
  /\ request = [s \in Sessions |-> NoRequest]
  /\ task = [j \in JobIds |-> NoTask]
  /\ stage = [j \in JobIds |-> "idle"]
  /\ batch = [j \in JobIds |-> NoBatch]
  /\ rebuild = "none"
  /\ Queue!Init

-----------------------------------------------------------------------------
(* Creating a session                                                      *)

\* The next job row.
EnqueueTx(j, kind, s) ==
  /\ \A i \in JobIds : i < j => state[i] # "unknown"
  /\ Queue!Submit(j)
  /\ task' = [task EXCEPT ![j] = [kind |-> kind, session |-> s]]

ActiveReviewSessions ==
  {s \in Review : sessions[s].status \in {"active", "grading"} /\ sessions[s].deleted = "no"}

InsertSession(s) == sessions' = [sessions EXCEPT ![s] = [NoSession EXCEPT !.status = "active"]]

\* The lock on the account makes the check and the insert one step.
CreateSession(s) ==
  /\ sessions[s].status = "absent"
  /\ s \in Review => ActiveReviewSessions = {}
  /\ InsertSession(s)
  /\ UNCHANGED <<answers, grades, request, rebuild, task, handlers, queue>>

\* One generation per account at a time; a second request is answered with the
\* session that is already generating, or refused.
CreateGeneratedSession(s, j) ==
  /\ s \notin Review
  /\ sessions[s].status = "absent"
  /\ ~\E other \in Sessions : sessions[other].status = "generating"
  /\ sessions' = [sessions EXCEPT ![s] = [NoSession EXCEPT !.status = "generating"]]
  /\ EnqueueTx(j, "generate_ai_practice_session", s)
  /\ UNCHANGED <<answers, grades, request, rebuild, handlers>>

-----------------------------------------------------------------------------
(* Answering and submitting                                                *)

\* Mutant: the status is not looked at again after the wait.
UpsertAnswerUnlocked(s, i, v) ==
  /\ sessions[s].status \in {"active", "grading"}
  /\ answers' = [answers EXCEPT ![s] = [answers[s] EXCEPT ![i] = v]]

\* The row lock on the session orders a write before or after a submission.
UpsertAnswer(s, i, v) ==
  /\ sessions[s].status = "active"
  /\ answers' = [answers EXCEPT ![s] = [answers[s] EXCEPT ![i] = v]]

\* Autosave.
SaveAnswer(s, i, v) ==
  /\ UpsertAnswer(s, i, v)
  /\ UNCHANGED <<sessions, grades, request, rebuild, task, handlers, queue>>

KeepingOmitted(saved, body) == [i \in Items |-> IF body[i] = NoValue THEN saved[i] ELSE body[i]]

\* The submission lists the final answers; one it omits is cleared.
FinalAnswers(saved, body) == body

SubmitFinalAnswers(s, body) == answers' = [answers EXCEPT ![s] = FinalAnswers(answers[s], body)]

\* Grade, with the source Submit stores next to its outcome.
Graded(i, v) ==
  LET source == IF AnswerKind[i] \in {"generated", "short"} THEN "ai" ELSE "deterministic"
      outcome(by, status) == [NoGrading EXCEPT !.source = by, !.status = status, !.answer = v]
  IN  IF v = NoValue THEN outcome(source, "unanswered")
      ELSE IF AnswerKind[i] \in {"short", "open"} THEN outcome("ai", "pending")
      ELSE outcome(source, IF v = RightValue THEN "correct" ELSE "incorrect")

PendingIn(results) == {i \in Items : results[i].status = "pending"}

MarkSubmitted(session) == [session EXCEPT !.status = "grading", !.summary = "pending"]

\* Mutant: pending results do not keep the session open.
AlwaysCompleted(session, results) == [session EXCEPT !.status = "completed"]

\* Nothing is left for the AI to judge.
CompletedAtOnce(session, results) ==
  IF PendingIn(results) = {} THEN [session EXCEPT !.status = "completed"] ELSE session

\* A submission is accepted once.  Any later one, with the same Idempotency-Key or
\* another, is answered without changing anything.
Submit(s, body, j) ==
  /\ sessions[s].status = "active"
  /\ LET results == [i \in Items |-> Graded(i, body[i])]
     IN  /\ grades' = [grades EXCEPT ![s] = results]
         /\ sessions' = [sessions EXCEPT ![s] = CompletedAtOnce(MarkSubmitted(sessions[s]), results)]
  /\ SubmitFinalAnswers(s, body)
  /\ request' = [request EXCEPT ![s] = [sent |-> "yes", body |-> body]]
  /\ rebuild' = "queued"
  /\ EnqueueTx(j, "analyze_practice_session_ai", s)
  /\ UNCHANGED handlers

-----------------------------------------------------------------------------
(* Retrying and deleting                                                   *)

\* HasActiveBatchAnalysisJob, HasPendingAIJobs: queued or running.
ActiveAnalyses(s) ==
  {j \in JobIds : task[j] = [kind |-> "analyze_practice_session_ai", session |-> s]
                  /\ state[j] \in {"waiting", "granted"}}

RetryableItems(s) ==
  {i \in Items : grades[s][i].source = "ai" /\ grades[s][i].explanation = "garbled"}

ResetAll(grade) ==
  IF grade.source = "ai" THEN [grade EXCEPT !.status = "pending", !.explanation = "plain"] ELSE grade

\* ResetAIAnalysisForRetry, for one result.
ResetForRetry(grade) ==
  IF grade.source = "ai" /\ grade.status = "failed"
  THEN [grade EXCEPT !.status = "pending", !.explanation = "plain"]
  ELSE grade

RetryAnalysis(s, j) ==
  /\ sessions[s].status \notin {"absent", "active"} /\ sessions[s].deleted = "no"
  /\ ActiveAnalyses(s) = {}
  /\ \/ sessions[s].status = "analysis_failed"
     \/ sessions[s].summary = "failed"
     \/ RetryableItems(s) # {}
  /\ grades' = [grades EXCEPT ![s] = [i \in Items |-> ResetForRetry(grades[s][i])]]
  /\ sessions' = [sessions EXCEPT ![s] = [sessions[s] EXCEPT !.status = "grading", !.summary = "pending"]]
  /\ EnqueueTx(j, "analyze_practice_session_ai", s)
  /\ UNCHANGED <<answers, request, rebuild, handlers>>

DeleteSession(s) ==
  /\ sessions[s].status \notin {"absent", "generating"} /\ sessions[s].deleted = "no"
  /\ sessions' = [sessions EXCEPT ![s] = [sessions[s] EXCEPT !.deleted = "yes"]]
  /\ UNCHANGED <<answers, grades, request, rebuild, task, handlers, queue>>

-----------------------------------------------------------------------------
(* Workers                                                                 *)

\* A transaction of the handler of job j, under the lease of its attempt.
Guarded(j, before, after) ==
  /\ stage[j] \in before
  /\ Queue!Commit(j)
  /\ stage' = [stage EXCEPT ![j] = after]
  /\ UNCHANGED task

Claim(j) ==
  /\ Queue!Grant(j)
  /\ stage' = [stage EXCEPT ![j] = "started"]
  /\ UNCHANGED <<business, task, batch>>

\* The handler has returned nil and the job is completed.
Complete(j) ==
  /\ stage[j] = "done"
  /\ Queue!Settle(j)
  /\ stage' = [stage EXCEPT ![j] = "idle"]
  /\ batch' = [batch EXCEPT ![j] = NoBatch]
  /\ UNCHANGED <<business, task>>

PendingToFailed(results) ==
  [i \in Items |-> IF results[i].source = "ai" /\ results[i].status = "pending"
                   THEN [results[i] EXCEPT !.status = "failed"]
                   ELSE results[i]]

GenerationForgotten(session) == session

GenerationGivenUp(session) ==
  IF session.status = "generating"
  THEN [session EXCEPT !.status = "generation_failed", !.summary = "failed"]
  ELSE session

FailingOnlyCompleted(session) ==
  IF session.status = "completed"
  THEN [session EXCEPT !.status = "analysis_failed", !.summary = "failed"]
  ELSE session

AnalysisGivenUp(session) ==
  IF session.status \in {"grading", "completed"}
  THEN [session EXCEPT !.status = "analysis_failed", !.summary = "failed"]
  ELSE session

\* Attempts end without success: the handler failed (Fail), or its lease ran out
\* (ReleaseExpired).  Where it was the last one, failTerminalBusiness ends the
\* session in the same transaction.
TakeBack(lost) ==
  /\ lost # {}
  /\ Queue!TakeBack(lost)
  /\ LET ended(kind) == {task[j].session : j \in {i \in lost : grants[i] = MaxAttempts
                                                           /\ task[i].kind = kind}}
         generation(s) == IF s \in ended("generate_ai_practice_session")
                          THEN GenerationGivenUp(sessions[s]) ELSE sessions[s]
     IN  /\ sessions' = [s \in Sessions |-> IF s \in ended("analyze_practice_session_ai")
                                            THEN AnalysisGivenUp(generation(s)) ELSE generation(s)]
         /\ grades' = [s \in Sessions |-> IF s \in ended("analyze_practice_session_ai")
                                          THEN PendingToFailed(grades[s]) ELSE grades[s]]
  /\ stage' = [j \in JobIds |-> IF j \in lost THEN "idle" ELSE stage[j]]
  /\ batch' = [j \in JobIds |-> IF j \in lost THEN NoBatch ELSE batch[j]]
  /\ UNCHANGED <<answers, request, rebuild, task>>

-----------------------------------------------------------------------------
(* generate_ai_practice_session                                            *)

Generates(j) == task[j].kind = "generate_ai_practice_session"

\* The session left generating in an earlier attempt: nothing to do.
GenerationIsOver(j) ==
  /\ Generates(j) /\ stage[j] = "started"
  /\ sessions[task[j].session].status # "generating"
  /\ stage' = [stage EXCEPT ![j] = "done"]
  /\ UNCHANGED <<business, task, batch, queue>>

persistGeneratedQuestions(j) ==
  /\ Generates(j) /\ sessions[task[j].session].status = "generating"
  /\ Guarded(j, {"started"}, "done")
  /\ LET s == task[j].session
     IN sessions' = [sessions EXCEPT ![s] = [sessions[s] EXCEPT !.status = "active"]]
  /\ UNCHANGED <<answers, grades, request, rebuild, batch>>

\* The call budget is used up or the error is final: the handler returns nil.  Any
\* other error of the last attempt: the handler returns it.
markGenerationFailed(j, after) ==
  /\ Generates(j) /\ sessions[task[j].session].status = "generating"
  /\ after = "refused" => grants[j] = MaxAttempts
  /\ Guarded(j, {"started"}, after)
  /\ LET s == task[j].session
     IN sessions' = [sessions EXCEPT ![s] = GenerationGivenUp(sessions[s])]
  /\ UNCHANGED <<answers, grades, request, rebuild, batch>>

-----------------------------------------------------------------------------
(* analyze_practice_session_ai                                             *)

Analyzes(j) == task[j].kind = "analyze_practice_session_ai"

\* The read before the AI call decides which verdicts will be accepted after it.
loadBatch(j) ==
  /\ Analyzes(j) /\ stage[j] = "started"
  /\ LET results == grades[task[j].session]
     IN  batch' = [batch EXCEPT ![j] =
           [pending |-> {i \in PendingIn(results) : results[i].source = "ai"},
            garbled |-> {i \in Items : results[i].explanation = "garbled"}]]
  /\ stage' = [stage EXCEPT ![j] = "asked"]
  /\ UNCHANGED <<business, task, queue>>

\* CompleteIfDone, for the results the transaction is about to commit.
CompleteIfDone(session, results) ==
  IF session.status # "grading" \/ PendingIn(results) # {} THEN session
  ELSE [session EXCEPT !.status = IF \E i \in Items : results[i].status = "failed"
                                  THEN "analysis_failed" ELSE "completed"]

SetAISummary(session, summary) ==
  [session EXCEPT !.summary = summary,
                  !.status = IF summary = "completed" /\ session.status \in {"grading", "analysis_failed"}
                             THEN "completed" ELSE session.status]

\* What the AI may conclude of an item; only a stored answer can make the fallback
\* text unusable.
Verdicts(i) ==
  {"correct", "incorrect", "cannot_determine"} \cup (IF AnswerKind[i] = "short" THEN {"garbled"} ELSE {})

JudgedVerbatim(grade, isPending, isGarbled, verdict) ==
  IF isPending /\ grade.status = "pending" THEN [grade EXCEPT !.status = verdict] ELSE grade

\* One grading row in the final transaction of the analysis.
Judged(grade, isPending, isGarbled, verdict) ==
  IF isPending /\ grade.source = "ai" /\ grade.status = "pending"
  THEN [grade EXCEPT !.status = IF verdict \in {"correct", "incorrect"} THEN verdict ELSE "failed",
                     !.explanation = IF verdict = "garbled" THEN "garbled" ELSE "plain"]
  ELSE IF ~isPending /\ isGarbled /\ grade.source = "ai" THEN [grade EXCEPT !.explanation = "plain"]
  ELSE grade

\* A rebuild is queued for any conclusive verdict, also on an item that was not asked.
WriteAnalysis(j, verdict) ==
  LET s == task[j].session
      results == [i \in Items |-> Judged(grades[s][i], i \in batch[j].pending,
                                         i \in batch[j].garbled, verdict[i])]
  IN  /\ Analyzes(j)
      /\ \A i \in batch[j].pending : verdict[i] \in Verdicts(i)
      /\ Guarded(j, {"asked"}, "done")
      /\ grades' = [grades EXCEPT ![s] = results]
      /\ sessions' = [sessions EXCEPT ![s] =
           SetAISummary(CompleteIfDone(sessions[s], results), "completed")]
      /\ rebuild' \in (IF \E i \in batch[j].pending : verdict[i] \in {"correct", "incorrect"}
                       THEN {"queued"} ELSE {rebuild, "queued"})
      /\ UNCHANGED <<answers, request, batch>>

\* The last attempt could not use what the AI answered, or got no answer.
failBatchAnalysis(j) ==
  LET s == task[j].session
      results == PendingToFailed(grades[s])
  IN  /\ Analyzes(j) /\ grants[j] = MaxAttempts
      /\ Guarded(j, {"started", "asked"}, "refused")
      /\ grades' = [grades EXCEPT ![s] = results]
      /\ sessions' = [sessions EXCEPT ![s] =
           SetAISummary(CompleteIfDone(sessions[s], results), "failed")]
      /\ UNCHANGED <<answers, request, rebuild, batch>>

\* The queued rebuild is claimed; LearningMemory follows it from there.
ClaimRebuild ==
  /\ rebuild = "queued"
  /\ rebuild' = "none"
  /\ UNCHANGED <<sessions, answers, grades, request, task, handlers, queue>>

-----------------------------------------------------------------------------
(* The specification                                                       *)

Answers == Values \cup {NoValue}

LearnerStep(s) ==
  \/ CreateSession(s)
  \/ \E i \in Items, v \in Answers : SaveAnswer(s, i, v)
  \/ DeleteSession(s)
  \/ \E j \in JobIds : \/ CreateGeneratedSession(s, j)
                       \/ RetryAnalysis(s, j)
                       \/ \E body \in [Items -> Answers] : Submit(s, body, j)

HandlerStep(j) ==
  \/ GenerationIsOver(j)
  \/ persistGeneratedQuestions(j)
  \/ \E after \in {"done", "refused"} : markGenerationFailed(j, after)
  \/ loadBatch(j)
  \/ \E verdict \in [batch[j].pending -> UNION {Verdicts(i) : i \in Items}] :
       WriteAnalysis(j, verdict)
  \/ failBatchAnalysis(j)

Next ==
  \/ \E s \in Sessions : LearnerStep(s)
  \/ \E j \in JobIds : Claim(j) \/ HandlerStep(j) \/ Complete(j)
  \/ \E lost \in SUBSET JobIds : TakeBack(lost)
  \/ ClaimRebuild

Spec == Init /\ [][Next]_vars

\* What the job table guarantees: a queued job is claimed, and an attempt ends.
Fairness == \A j \in JobIds : WF_vars(Claim(j)) /\ WF_vars(Complete(j) \/ TakeBack({j}))

FairSpec == Spec /\ Fairness

-----------------------------------------------------------------------------
(* Properties                                                              *)

\* Every variable has its type.
TypeOK ==
  /\ sessions \in [Sessions -> Session]
  /\ answers \in [Sessions -> [Items -> Answers]]
  /\ grades \in [Sessions -> [Items -> Grading]]
  /\ request \in [Sessions -> [sent : {"no", "yes"}, body : [Items -> Answers]]]
  /\ task \in [JobIds -> Task]
  /\ stage \in [JobIds -> Stage]
  /\ batch \in [JobIds -> [pending : SUBSET Items, garbled : SUBSET Items]]
  /\ rebuild \in {"none", "queued"}

\* The submitted answers are the ones graded and the ones kept, whatever autosaves
\* came before, during or after the submission, and however often it is sent.
GradedAsSubmitted ==
  \A s \in Sessions : request[s].sent = "yes" =>
    /\ answers[s] = request[s].body
    /\ \A i \in Items : grades[s][i].answer = answers[s][i]

\* Outside grading no result is left open, so a finished session never shows a
\* question that will stay pending.
PendingOnlyWhileGrading ==
  \A s \in Sessions : PendingIn(grades[s]) # {} => sessions[s].status = "grading"

\* A session that waits for verdicts has exactly one analysis that will bring them:
\* none would leave it grading forever, two would pay the AI twice.
GradingIsDriven ==
  /\ PendingOnlyWhileGrading
  /\ \A s \in Sessions :
       /\ sessions[s].status = "grading" => ActiveAnalyses(s) # {}
       /\ Cardinality(ActiveAnalyses(s)) <= 1

\* A verdict stands: neither a retry, nor a second analysis, nor a failure of the
\* batch changes a result that is not pending or failed.
VerdictsStand ==
  [][\A s \in Sessions, i \in Items :
       grades[s][i].status \in {"correct", "incorrect", "unanswered"}
       => grades'[s][i].status = grades[s][i].status]_vars

\* Every submitted session gets a result and every generation ends, through failed
\* attempts, crashed workers and lost leases.
SessionsFinish ==
  \A s \in Sessions :
    /\ sessions[s].status = "grading" ~> sessions[s].status \in {"completed", "analysis_failed"}
    /\ sessions[s].status = "generating" ~> sessions[s].status \in {"active", "generation_failed"}

\* "analysis_failed keeps the known results": the summary of a finished analysis is
\* not taken back unless the learner asks for a new one.
KnownResultsKept ==
  [][\A s \in Sessions : sessions[s].summary = "completed" => sessions'[s].summary # "failed"]_vars

=============================================================================
