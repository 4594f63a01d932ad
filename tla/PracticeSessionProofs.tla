----------------------- MODULE PracticeSessionProofs -----------------------
(***************************************************************************)
(* What holds of the practice sessions for any number of sessions,         *)
(* questions, answers and jobs.                                            *)
(***************************************************************************)
EXTENDS ResultPage, FiniteSetTheorems, TLAPS

-----------------------------------------------------------------------------
(* The inductive invariant                                                 *)

\* The jobs have the states of JobContract; only a granted job has a handler, and every
\* job has a session.
JobsInv ==
  /\ state \in [JobIds -> {"unknown", "waiting", "granted", "settled", "given up"}]
  /\ \A j \in JobIds : stage[j] # "idle" => state[j] = "granted"
  /\ \A j \in JobIds : task[j].kind # "none" => task[j].session \in Sessions

\* Nothing has been graded before the submission.
Fresh(s) == sessions[s].status \in {"absent", "generating", "active"}

FreshInv ==
  \A s \in Sessions : Fresh(s) =>
    /\ request[s].sent = "no"
    /\ ActiveAnalyses(s) = {}
    /\ \A i \in Items : grades[s][i].status = "none"

\* Only the AI leaves a result open.
OpenIsForTheAI ==
  \A s \in Sessions, i \in Items : grades[s][i].status = "pending" => grades[s][i].source = "ai"

\* A session has at most one analysis queued or running, and one while it is grading.
DrivenInv ==
  \A s \in Sessions :
    /\ sessions[s].status = "grading" => ActiveAnalyses(s) # {}
    /\ \A j, k \in ActiveAnalyses(s) : j = k

\* An analysis that has read the session knows every open result; one that has
\* written leaves none.
HandlerInv ==
  \A j \in JobIds : Analyzes(j) =>
    /\ stage[j] = "asked" => PendingIn(grades[task[j].session]) \subseteq batch[j].pending
    /\ stage[j] = "done" => sessions[task[j].session].status # "grading"

IInv ==
  /\ TypeOK /\ JobsInv /\ FreshInv /\ OpenIsForTheAI /\ DrivenInv /\ HandlerInv
  /\ PendingOnlyWhileGrading /\ GradedAsSubmitted

-----------------------------------------------------------------------------
(* What the helpers return                                                 *)

\* Grading an answer keeps it, and leaves it open only to the AI.
LEMMA GradedFact ==
  ASSUME NEW i \in Items, NEW v \in Answers
  PROVE  /\ Graded(i, v) \in Grading
         /\ Graded(i, v).answer = v
         /\ Graded(i, v).status = "pending" => Graded(i, v).source = "ai"
BY DEF Graded, Grading, NoGrading, Answers

\* A retry opens failed results of the AI again, and nothing else.
LEMMA ResetFact ==
  ASSUME NEW g \in Grading, g.status = "pending" => g.source = "ai"
  PROVE  /\ ResetForRetry(g) \in Grading
         /\ ResetForRetry(g).answer = g.answer
         /\ ResetForRetry(g).status = "pending" => ResetForRetry(g).source = "ai"
         /\ g.status # "failed" => ResetForRetry(g).status = g.status
BY DEF ResetForRetry, Grading

\* The end of the last attempt closes every open result.
LEMMA FailedFact ==
  ASSUME NEW results \in [Items -> Grading],
         \A i \in Items : results[i].status = "pending" => results[i].source = "ai"
  PROVE  /\ PendingToFailed(results) \in [Items -> Grading]
         /\ PendingIn(PendingToFailed(results)) = {}
         /\ \A i \in Items :
              /\ PendingToFailed(results)[i].answer = results[i].answer
              /\ results[i].status # "pending" => PendingToFailed(results)[i].status = results[i].status
<1>1. \A i \in Items : /\ PendingToFailed(results)[i] \in Grading
                       /\ PendingToFailed(results)[i].status # "pending"
                       /\ PendingToFailed(results)[i].answer = results[i].answer
                       /\ results[i].status # "pending"
                            => PendingToFailed(results)[i].status = results[i].status
  <2> SUFFICES ASSUME NEW i \in Items
               PROVE  /\ PendingToFailed(results)[i] \in Grading
                      /\ PendingToFailed(results)[i].status # "pending"
                      /\ PendingToFailed(results)[i].answer = results[i].answer
                      /\ results[i].status # "pending"
                           => PendingToFailed(results)[i].status = results[i].status
    OBVIOUS
  <2>1. results[i] \in Grading
    OBVIOUS
  <2>2. PendingToFailed(results)[i] = IF results[i].source = "ai" /\ results[i].status = "pending"
                                      THEN [results[i] EXCEPT !.status = "failed"] ELSE results[i]
    BY DEF PendingToFailed
  <2> QED
    BY <2>1, <2>2 DEF Grading
<1> QED
  BY <1>1 DEF PendingToFailed, PendingIn

\* How the status of a session moves: a submission leaves it grading unless nothing is
\* open; an analysis completes it; what ends it leaves nothing grading.
LEMMA SessionFact ==
  ASSUME NEW row \in Session, NEW results, NEW summary \in {"completed", "failed"}
  PROVE  /\ CompletedAtOnce(MarkSubmitted(row), results) \in Session
         /\ CompletedAtOnce(MarkSubmitted(row), results).status \in {"grading", "completed"}
         /\ CompletedAtOnce(MarkSubmitted(row), results).status = "completed" => PendingIn(results) = {}
         /\ SetAISummary(CompleteIfDone(row, results), summary) \in Session
         /\ SetAISummary(CompleteIfDone(row, results), summary).status
              \in {row.status, "completed", "analysis_failed"}
         /\ summary = "completed" \/ PendingIn(results) = {}
              => SetAISummary(CompleteIfDone(row, results), summary).status # "grading"
         /\ row.status = "absent" => SetAISummary(CompleteIfDone(row, results), summary).status = "absent"
         /\ row.status \in {"generating", "active"}
              => SetAISummary(CompleteIfDone(row, results), summary).status = row.status
<1>1. /\ MarkSubmitted(row) \in Session
      /\ MarkSubmitted(row).status = "grading"
  BY DEF MarkSubmitted, Session, SessionStatus, SummaryStatus
<1>2. /\ CompletedAtOnce(MarkSubmitted(row), results) \in Session
      /\ CompletedAtOnce(MarkSubmitted(row), results).status \in {"grading", "completed"}
      /\ CompletedAtOnce(MarkSubmitted(row), results).status = "completed" => PendingIn(results) = {}
  BY <1>1 DEF CompletedAtOnce, Session, SessionStatus
<1>3. /\ CompleteIfDone(row, results) \in Session
      /\ CompleteIfDone(row, results).status \in {row.status, "completed", "analysis_failed"}
      /\ row.status # "grading" => CompleteIfDone(row, results).status = row.status
      /\ PendingIn(results) = {} => CompleteIfDone(row, results).status # "grading"
  BY DEF CompleteIfDone, Session, SessionStatus
<1>4. \A r \in Session : /\ SetAISummary(r, summary) \in Session
                         /\ SetAISummary(r, summary).status \in {r.status, "completed"}
                         /\ r.status \notin {"grading", "analysis_failed"}
                              => SetAISummary(r, summary).status = r.status
                         /\ summary = "completed" => SetAISummary(r, summary).status # "grading"
  BY ZenonT(30) DEF SetAISummary, Session, SessionStatus, SummaryStatus
<1> DEFINE r == CompleteIfDone(row, results)
<1>5. r \in Session
  BY <1>3
<1> HIDE DEF r
<1>6. /\ SetAISummary(r, summary) \in Session
      /\ SetAISummary(r, summary).status \in {r.status, "completed"}
      /\ r.status \notin {"grading", "analysis_failed"} => SetAISummary(r, summary).status = r.status
      /\ summary = "completed" => SetAISummary(r, summary).status # "grading"
  BY <1>4, <1>5
<1>7. /\ r.status \in {row.status, "completed", "analysis_failed"}
      /\ row.status # "grading" => r.status = row.status
      /\ PendingIn(results) = {} => r.status # "grading"
  BY <1>3 DEF r
<1>8. /\ SetAISummary(r, summary) \in Session
      /\ SetAISummary(r, summary).status \in {row.status, "completed", "analysis_failed"}
      /\ summary = "completed" \/ PendingIn(results) = {} => SetAISummary(r, summary).status # "grading"
      /\ row.status = "absent" => SetAISummary(r, summary).status = "absent"
      /\ row.status \in {"generating", "active"} => SetAISummary(r, summary).status = row.status
  BY <1>6, <1>7
<1> QED
  BY <1>2, <1>8 DEF r

\* What ends a session when its last attempt is lost.
LEMMA GivenUpFact ==
  ASSUME NEW row \in Session
  PROVE  /\ GenerationGivenUp(row) \in Session
         /\ GenerationGivenUp(row).status \in {row.status, "generation_failed"}
         /\ AnalysisGivenUp(row) \in Session
         /\ AnalysisGivenUp(row).status \in {row.status, "analysis_failed"}
         /\ AnalysisGivenUp(row).status # "grading"
BY DEF GenerationGivenUp, AnalysisGivenUp, Session, SessionStatus, SummaryStatus

-----------------------------------------------------------------------------
(* The jobs of a session                                                   *)

Enqueued == {"analyze_practice_session_ai", "generate_ai_practice_session"}

\* A job that is enqueued was unknown; it is one more analysis of its session, or
\* none.
LEMMA EnqueuedFact ==
  ASSUME TypeOK, JobsInv, NEW j \in JobIds, NEW kind \in Enqueued, NEW s \in Sessions,
         EnqueueTx(j, kind, s), stage' = stage
  PROVE  /\ state[j] = "unknown" /\ stage[j] = "idle"
         /\ task' \in [JobIds -> Task]
         /\ JobsInv'
         /\ \A k \in JobIds : k # j => task'[k] = task[k] /\ state'[k] = state[k]
         /\ kind = "analyze_practice_session_ai" => ActiveAnalyses(s)' = ActiveAnalyses(s) \cup {j}
         /\ \A x \in Sessions : x # s \/ kind # "analyze_practice_session_ai"
                                => ActiveAnalyses(x)' = ActiveAnalyses(x)
<1>1. state[j] = "unknown" /\ state' = [state EXCEPT ![j] = "waiting"]
  BY DEF EnqueueTx, Queue!Submit
<1>2. stage[j] = "idle"
  BY <1>1 DEF JobsInv
<1>3. task' = [task EXCEPT ![j] = [kind |-> kind, session |-> s]]
  BY DEF EnqueueTx
<1>4. task' \in [JobIds -> Task]
  BY <1>3 DEF TypeOK, Task, Enqueued
<1>5. \A k \in JobIds : k # j => task'[k] = task[k] /\ state'[k] = state[k]
  BY <1>1, <1>3 DEF TypeOK, JobsInv
<1>6. /\ task'[j] = [kind |-> kind, session |-> s]
      /\ state'[j] = "waiting"
  BY <1>1, <1>3 DEF TypeOK, JobsInv
<1>7. JobsInv'
  <2>1. state' \in [JobIds -> {"unknown", "waiting", "granted", "settled", "given up"}]
    BY <1>1 DEF JobsInv
  <2>2. \A k \in JobIds : stage'[k] # "idle" => state'[k] = "granted"
    BY <1>2, <1>5 DEF JobsInv
  <2>3. ASSUME NEW k \in JobIds, task'[k].kind # "none"
        PROVE  task'[k].session \in Sessions
    <3>1. CASE k = j
      BY <1>6, <3>1
    <3>2. CASE k # j
      BY <1>5, <2>3, <3>2 DEF JobsInv, Analyzes
    <3> QED
      BY <3>1, <3>2
  <2> QED
    BY <2>1, <2>2, <2>3 DEF JobsInv, Analyzes
<1>8. kind = "analyze_practice_session_ai" => ActiveAnalyses(s)' = ActiveAnalyses(s) \cup {j}
  BY <1>5, <1>6 DEF ActiveAnalyses
<1>9. ASSUME NEW x \in Sessions, x # s \/ kind # "analyze_practice_session_ai"
      PROVE  ActiveAnalyses(x)' = ActiveAnalyses(x)
  <2>1. task'[j] # [kind |-> "analyze_practice_session_ai", session |-> x]
    BY <1>6, <1>9
  <2> QED
    BY <1>1, <1>5, <2>1 DEF ActiveAnalyses
<1> QED
  BY <1>1, <1>2, <1>4, <1>5, <1>7, <1>8, <1>9

\* While the jobs stay what they are, so do the analyses.
LEMMA SameJobs ==
  ASSUME UNCHANGED <<task, state>>
  PROVE  \A x \in Sessions : ActiveAnalyses(x)' = ActiveAnalyses(x)
BY DEF ActiveAnalyses

\* A transaction of a handler: its job is granted, and only its stage changes.
LEMMA GuardedFact ==
  ASSUME TypeOK, JobsInv, NEW j \in JobIds, NEW before, NEW after \in Stage, Guarded(j, before, after)
  PROVE  /\ state[j] = "granted" /\ stage[j] \in before
         /\ stage' \in [JobIds -> Stage]
         /\ stage'[j] = after
         /\ \A k \in JobIds : k # j => stage'[k] = stage[k]
         /\ UNCHANGED <<task, state>>
         /\ JobsInv'
<1>1. /\ state[j] = "granted" /\ stage[j] \in before
      /\ stage' = [stage EXCEPT ![j] = after]
      /\ UNCHANGED <<task, state>>
  BY DEF Guarded, Queue!Commit
<1>2. stage' \in [JobIds -> Stage]
  BY <1>1 DEF TypeOK
<1>3. /\ stage'[j] = after
      /\ \A k \in JobIds : k # j => stage'[k] = stage[k]
  BY <1>1 DEF TypeOK
<1>4. \A k \in JobIds : stage'[k] # "idle" => state'[k] = "granted"
  BY <1>1, <1>3 DEF JobsInv
<1> QED
  BY <1>1, <1>2, <1>3, <1>4 DEF JobsInv, Analyzes

\* An analysis with a handler is the analysis of its session.
LEMMA HandledIsActive ==
  ASSUME TypeOK, JobsInv, NEW j \in JobIds, Analyzes(j), stage[j] # "idle"
  PROVE  task[j].session \in Sessions /\ j \in ActiveAnalyses(task[j].session)
<1>1. task[j] \in Task /\ task[j].session \in Sessions /\ state[j] = "granted"
  BY DEF TypeOK, JobsInv, Analyzes
<1>2. task[j] = [kind |-> "analyze_practice_session_ai", session |-> task[j].session]
  BY <1>1 DEF Task, Analyzes
<1> QED
  BY <1>1, <1>2 DEF ActiveAnalyses

-----------------------------------------------------------------------------
(* Steps of the learner                                                    *)

\* A new session, of either kind.
LEMMA Creates ==
  ASSUME IInv, NEW s \in Sessions, sessions[s].status = "absent",
         NEW status \in {"active", "generating"},
         sessions' = [sessions EXCEPT ![s] = [NoSession EXCEPT !.status = status]],
         UNCHANGED <<answers, grades, request, rebuild, stage, batch>>,
         task' \in [JobIds -> Task], JobsInv',
         \A x \in Sessions : ActiveAnalyses(x)' = ActiveAnalyses(x),
         \A k \in JobIds : state[k] # "unknown" => task'[k] = task[k]
  PROVE  IInv'
<1>1. [NoSession EXCEPT !.status = status] \in Session
  BY DEF NoSession, Session, SessionStatus, SummaryStatus
<1>2. TypeOK'
  BY <1>1 DEF IInv, TypeOK
<1>3. sessions'[s].status = status /\ \A x \in Sessions : x # s => sessions'[x] = sessions[x]
  BY DEF IInv, TypeOK, NoSession
<1>4. FreshInv' /\ OpenIsForTheAI'
  <2>1. \A x \in Sessions : Fresh(x)' => Fresh(x)
    BY <1>3 DEF Fresh
  <2> QED
    BY <2>1 DEF IInv, FreshInv, OpenIsForTheAI
<1>5. DrivenInv'
  BY <1>3 DEF IInv, DrivenInv
<1>6. HandlerInv'
  <2>1. \A k \in JobIds : stage[k] # "idle" => task'[k] = task[k]
    BY DEF IInv, JobsInv
  <2>2. \A x \in Sessions : sessions[x].status # "grading" => sessions'[x].status # "grading"
    BY <1>3
  <2> QED
    BY ZenonT(30), <2>1, <2>2 DEF IInv, JobsInv, HandlerInv, Analyzes, PendingIn
<1>7. PendingOnlyWhileGrading' /\ GradedAsSubmitted'
  BY <1>3 DEF IInv, PendingOnlyWhileGrading, GradedAsSubmitted, PendingIn
<1> QED
  BY <1>2, <1>4, <1>5, <1>6, <1>7 DEF IInv

\* A session of questions of the bank is created.
LEMMA CreateSessionStep ==
  ASSUME IInv, NEW s \in Sessions, CreateSession(s)
  PROVE  IInv'
<1>1. \A x \in Sessions : ActiveAnalyses(x)' = ActiveAnalyses(x)
  BY SameJobs DEF CreateSession, queue
<1>2. JobsInv' /\ task' \in [JobIds -> Task]
  BY DEF IInv, JobsInv, TypeOK, CreateSession, queue, handlers, Analyzes
<1> QED
  BY Creates, <1>1, <1>2 DEF CreateSession, InsertSession, handlers

\* A session that awaits its questions is created with its job.
LEMMA CreateGeneratedSessionStep ==
  ASSUME IInv, NEW s \in Sessions, NEW j \in JobIds, CreateGeneratedSession(s, j)
  PROVE  IInv'
<1>1. /\ EnqueueTx(j, "generate_ai_practice_session", s)
      /\ UNCHANGED <<answers, grades, request, rebuild, stage, batch>>
      /\ sessions[s].status = "absent"
      /\ sessions' = [sessions EXCEPT ![s] = [NoSession EXCEPT !.status = "generating"]]
  BY DEF CreateGeneratedSession, handlers
<1>2. /\ task' \in [JobIds -> Task] /\ JobsInv' /\ state[j] = "unknown"
      /\ \A x \in Sessions : ActiveAnalyses(x)' = ActiveAnalyses(x)
      /\ \A k \in JobIds : k # j => task'[k] = task[k]
  BY <1>1, EnqueuedFact DEF IInv, Enqueued
<1> QED
  BY Creates, <1>1, <1>2

\* Autosave reaches active sessions only, which have not been submitted.
LEMMA SaveAnswerStep ==
  ASSUME IInv, NEW s \in Sessions, NEW i \in Items, NEW v \in Answers, SaveAnswer(s, i, v)
  PROVE  IInv'
<1>1. /\ sessions[s].status = "active"
      /\ answers' = [answers EXCEPT ![s] = [answers[s] EXCEPT ![i] = v]]
      /\ UNCHANGED <<sessions, grades, request, rebuild, task, stage, batch, state>>
  BY DEF SaveAnswer, UpsertAnswer, handlers, queue
<1>2. \A x \in Sessions : ActiveAnalyses(x)' = ActiveAnalyses(x)
  BY <1>1, SameJobs
<1>3. request[s].sent = "no"
  BY <1>1 DEF IInv, FreshInv, Fresh
<1>4. \A x \in Sessions : x # s => answers'[x] = answers[x]
  BY <1>1 DEF IInv, TypeOK
<1>5. TypeOK'
  <2>1. [answers[s] EXCEPT ![i] = v] \in [Items -> Answers]
    BY DEF IInv, TypeOK
  <2> QED
    BY <1>1, <2>1 DEF IInv, TypeOK
<1>6. JobsInv' /\ FreshInv' /\ OpenIsForTheAI' /\ DrivenInv'
  <2>1. JobsInv'
    BY <1>1 DEF IInv, JobsInv, Analyzes
  <2>2. FreshInv' /\ OpenIsForTheAI'
    BY <1>1, <1>2 DEF IInv, FreshInv, Fresh, OpenIsForTheAI
  <2>3. DrivenInv'
    BY <1>1, <1>2 DEF IInv, DrivenInv
  <2> QED
    BY <2>1, <2>2, <2>3
<1>7. HandlerInv' /\ PendingOnlyWhileGrading'
  BY <1>1 DEF IInv, HandlerInv, Analyzes, PendingOnlyWhileGrading, PendingIn
<1>8. GradedAsSubmitted'
  BY <1>1, <1>3, <1>4 DEF IInv, GradedAsSubmitted
<1> QED
  BY <1>5, <1>6, <1>7, <1>8 DEF IInv

\* A deletion leaves the status alone.
LEMMA DeleteSessionStep ==
  ASSUME IInv, NEW s \in Sessions, DeleteSession(s)
  PROVE  IInv'
<1>1. /\ sessions' = [sessions EXCEPT ![s] = [sessions[s] EXCEPT !.deleted = "yes"]]
      /\ UNCHANGED <<answers, grades, request, rebuild, task, stage, batch, state>>
  BY DEF DeleteSession, handlers, queue
<1>2. \A x \in Sessions : ActiveAnalyses(x)' = ActiveAnalyses(x)
  BY <1>1, SameJobs
<1>3. \A x \in Sessions : sessions'[x] \in Session /\ sessions'[x].status = sessions[x].status
  <2>1. \A x \in Sessions : sessions[x] \in Session
    BY DEF IInv, TypeOK
  <2>2. \A row \in Session : /\ [row EXCEPT !.deleted = "yes"] \in Session
                             /\ [row EXCEPT !.deleted = "yes"].status = row.status
    BY DEF Session
  <2>3. \A x \in Sessions : sessions'[x] = IF x = s THEN [sessions[s] EXCEPT !.deleted = "yes"]
                                            ELSE sessions[x]
    BY <1>1 DEF IInv, TypeOK
  <2> QED
    BY <2>1, <2>2, <2>3
<1>4. TypeOK'
  BY <1>1, <1>3 DEF IInv, TypeOK
<1>5. JobsInv' /\ FreshInv' /\ OpenIsForTheAI' /\ DrivenInv'
  <2>1. JobsInv'
    BY <1>1 DEF IInv, JobsInv, Analyzes
  <2>2. FreshInv' /\ OpenIsForTheAI'
    BY <1>1, <1>2, <1>3 DEF IInv, FreshInv, Fresh, OpenIsForTheAI
  <2>3. DrivenInv'
    BY <1>2, <1>3 DEF IInv, DrivenInv
  <2> QED
    BY <2>1, <2>2, <2>3
<1>6. HandlerInv' /\ PendingOnlyWhileGrading' /\ GradedAsSubmitted'
  <2>1. HandlerInv'
    BY <1>1, <1>3 DEF IInv, JobsInv, HandlerInv, Analyzes, PendingIn
  <2>2. PendingOnlyWhileGrading' /\ GradedAsSubmitted'
    BY <1>1, <1>3 DEF IInv, PendingOnlyWhileGrading, PendingIn, GradedAsSubmitted
  <2> QED
    BY <2>1, <2>2
<1> QED
  BY <1>4, <1>5, <1>6 DEF IInv

\* An analysis is queued for a session that had none: a submission or a retry.
LEMMA Reopens ==
  ASSUME IInv, NEW s \in Sessions, NEW j \in JobIds,
         EnqueueTx(j, "analyze_practice_session_ai", s), ActiveAnalyses(s) = {},
         sessions' \in [Sessions -> Session], grades' \in [Sessions -> [Items -> Grading]],
         answers' \in [Sessions -> [Items -> Answers]],
         request' \in [Sessions -> [sent : {"no", "yes"}, body : [Items -> Answers]]],
         \A x \in Sessions : x # s => /\ sessions'[x] = sessions[x] /\ grades'[x] = grades[x]
                                      /\ answers'[x] = answers[x] /\ request'[x] = request[x],
         sessions'[s].status \in {"grading", "completed"},
         sessions'[s].status = "completed" => PendingIn(grades'[s]) = {},
         \A i \in Items : grades'[s][i].status = "pending" => grades'[s][i].source = "ai",
         request'[s].sent = "yes" => /\ answers'[s] = request'[s].body
                                     /\ \A i \in Items : grades'[s][i].answer = answers'[s][i],
         rebuild' \in {"none", "queued"}, stage' = stage, batch' = batch
  PROVE  IInv'
<1>1. /\ state[j] = "unknown" /\ stage[j] = "idle"
      /\ task' \in [JobIds -> Task] /\ JobsInv'
      /\ \A k \in JobIds : k # j => task'[k] = task[k] /\ state'[k] = state[k]
      /\ ActiveAnalyses(s)' = {j}
      /\ \A x \in Sessions : x # s => ActiveAnalyses(x)' = ActiveAnalyses(x)
  BY EnqueuedFact DEF IInv, Enqueued
<1>3. TypeOK'
  <2>1. task' \in [JobIds -> Task]
    BY <1>1
  <2> QED
    BY <2>1 DEF IInv, TypeOK
<1>4. FreshInv'
  <2> SUFFICES ASSUME NEW x \in Sessions, Fresh(x)'
               PROVE  /\ request'[x].sent = "no"
                      /\ ActiveAnalyses(x)' = {}
                      /\ \A i \in Items : grades'[x][i].status = "none"
    BY DEF FreshInv
  <2>1. x # s
    BY DEF Fresh
  <2>2. /\ sessions'[x] = sessions[x] /\ grades'[x] = grades[x] /\ request'[x] = request[x]
        /\ ActiveAnalyses(x)' = ActiveAnalyses(x)
    BY <1>1, <2>1
  <2> QED
    BY <2>2 DEF IInv, FreshInv, Fresh
<1>5. OpenIsForTheAI'
  <2> SUFFICES ASSUME NEW x \in Sessions, NEW i \in Items, grades'[x][i].status = "pending"
               PROVE  grades'[x][i].source = "ai"
    BY DEF OpenIsForTheAI
  <2>1. CASE x = s
    BY <2>1
  <2>2. CASE x # s
    BY <2>2 DEF IInv, OpenIsForTheAI
  <2> QED
    BY <2>1, <2>2
<1>6. DrivenInv'
  <2> SUFFICES ASSUME NEW x \in Sessions
               PROVE  /\ sessions'[x].status = "grading" => ActiveAnalyses(x)' # {}
                      /\ \A k, l \in ActiveAnalyses(x)' : k = l
    BY DEF DrivenInv
  <2>1. CASE x = s
    BY <1>1, <2>1
  <2>2. CASE x # s
    BY SMTT(30), <1>1, <2>2 DEF IInv, DrivenInv
  <2> QED
    BY <2>1, <2>2
<1>7. HandlerInv'
  <2> SUFFICES ASSUME NEW k \in JobIds, Analyzes(k)', stage[k] # "idle"
               PROVE  /\ stage[k] = "asked" => PendingIn(grades[task[k].session])' \subseteq batch[k].pending
                      /\ stage[k] = "done" => sessions'[task'[k].session].status # "grading"
    BY DEF HandlerInv
  <2>1. k # j /\ task'[k] = task[k] /\ Analyzes(k)
    BY <1>1 DEF Analyzes
  <2>2. task[k].session \in Sessions /\ k \in ActiveAnalyses(task[k].session)
    BY <2>1, HandledIsActive DEF IInv
  <2>3. task[k].session # s
    BY <2>2
  <2>4. sessions'[task[k].session] = sessions[task[k].session] /\ grades'[task[k].session] = grades[task[k].session]
    BY <2>2, <2>3
  <2> QED
    BY <2>1, <2>4 DEF IInv, HandlerInv, PendingIn
<1>8. PendingOnlyWhileGrading'
  <2> SUFFICES ASSUME NEW x \in Sessions, PendingIn(grades'[x]) # {}
               PROVE  sessions'[x].status = "grading"
    BY DEF PendingOnlyWhileGrading, PendingIn
  <2>1. CASE x = s
    BY <2>1
  <2>2. CASE x # s
    BY <2>2 DEF IInv, PendingOnlyWhileGrading
  <2> QED
    BY <2>1, <2>2
<1>9. GradedAsSubmitted'
  <2> SUFFICES ASSUME NEW x \in Sessions, request'[x].sent = "yes"
               PROVE  /\ answers'[x] = request'[x].body
                      /\ \A i \in Items : grades'[x][i].answer = answers'[x][i]
    BY DEF GradedAsSubmitted
  <2>1. CASE x = s
    BY <2>1
  <2>2. CASE x # s
    <3>1. answers'[x] = answers[x] /\ grades'[x] = grades[x] /\ request'[x] = request[x]
      BY <2>2
    <3>2. GradedAsSubmitted
      BY DEF IInv
    <3> QED
      BY <3>1, <3>2 DEF GradedAsSubmitted
  <2> QED
    BY <2>1, <2>2
<1> QED
  BY <1>1, <1>3, <1>4, <1>5, <1>6, <1>7, <1>8, <1>9 DEF IInv

\* A submission grades, and enqueues the analysis when it is needed.
LEMMA SubmitStep ==
  ASSUME IInv, NEW s \in Sessions, NEW j \in JobIds, NEW body \in [Items -> Answers], Submit(s, body, j)
  PROVE  IInv'
<1> DEFINE results == [i \in Items |-> Graded(i, body[i])]
           row == CompletedAtOnce(MarkSubmitted(sessions[s]), results)
<1>1. /\ sessions[s].status = "active"
      /\ grades' = [grades EXCEPT ![s] = results]
      /\ sessions' = [sessions EXCEPT ![s] = row]
      /\ answers' = [answers EXCEPT ![s] = body]
      /\ request' = [request EXCEPT ![s] = [sent |-> "yes", body |-> body]]
      /\ rebuild' = "queued"
      /\ EnqueueTx(j, "analyze_practice_session_ai", s)
      /\ UNCHANGED <<stage, batch>>
  BY DEF Submit, SubmitFinalAnswers, FinalAnswers, handlers
<1>2. ActiveAnalyses(s) = {}
  BY <1>1 DEF IInv, FreshInv, Fresh
<1>3. /\ results \in [Items -> Grading]
      /\ \A i \in Items : results[i].status = "pending" => results[i].source = "ai"
      /\ \A i \in Items : results[i].answer = body[i]
  BY GradedFact
<1>4. sessions[s] \in Session
  BY DEF IInv, TypeOK
<1>5. /\ row \in Session
      /\ row.status \in {"grading", "completed"}
      /\ row.status = "completed" => PendingIn(results) = {}
  BY <1>4, SessionFact
<1> HIDE DEF results, row
<1>6. /\ sessions' \in [Sessions -> Session] /\ grades' \in [Sessions -> [Items -> Grading]]
      /\ sessions'[s] = row /\ grades'[s] = results
      /\ \A x \in Sessions : x # s => sessions'[x] = sessions[x] /\ grades'[x] = grades[x]
  BY <1>1, <1>3, <1>5 DEF IInv, TypeOK
<1>7. /\ answers' \in [Sessions -> [Items -> Answers]]
      /\ request' \in [Sessions -> [sent : {"no", "yes"}, body : [Items -> Answers]]]
      /\ \A x \in Sessions : x # s => answers'[x] = answers[x] /\ request'[x] = request[x]
      /\ answers'[s] = body /\ request'[s].body = body
  BY <1>1 DEF IInv, TypeOK
<1>8. /\ sessions'[s].status \in {"grading", "completed"}
      /\ sessions'[s].status = "completed" => PendingIn(grades'[s]) = {}
      /\ \A i \in Items : grades'[s][i].status = "pending" => grades'[s][i].source = "ai"
      /\ answers'[s] = request'[s].body
      /\ \A i \in Items : grades'[s][i].answer = answers'[s][i]
      /\ rebuild' \in {"none", "queued"} /\ stage' = stage /\ batch' = batch
  BY <1>1, <1>3, <1>5, <1>6, <1>7
<1> QED
  BY Reopens, <1>1, <1>2, <1>6, <1>7, <1>8

\* A failed analysis or generation is taken up again by a fresh job.
LEMMA RetryAnalysisStep ==
  ASSUME IInv, NEW s \in Sessions, NEW j \in JobIds, RetryAnalysis(s, j)
  PROVE  IInv'
<1> DEFINE results == [i \in Items |-> ResetForRetry(grades[s][i])]
           row == [sessions[s] EXCEPT !.status = "grading", !.summary = "pending"]
<1>1. /\ sessions[s].status \notin {"absent", "active"}
      /\ ActiveAnalyses(s) = {}
      /\ grades' = [grades EXCEPT ![s] = results]
      /\ sessions' = [sessions EXCEPT ![s] = row]
      /\ EnqueueTx(j, "analyze_practice_session_ai", s)
      /\ UNCHANGED <<answers, request, rebuild, stage, batch>>
  BY DEF RetryAnalysis, handlers
<1>2. \A i \in Items : grades[s][i] \in Grading /\ (grades[s][i].status = "pending" => grades[s][i].source = "ai")
  BY DEF IInv, TypeOK, OpenIsForTheAI
<1>3. /\ results \in [Items -> Grading]
      /\ \A i \in Items : results[i].status = "pending" => results[i].source = "ai"
      /\ \A i \in Items : results[i].answer = grades[s][i].answer
  BY <1>2, ResetFact
<1>4. row \in Session /\ row.status = "grading"
  <2>1. sessions[s] \in Session
    BY DEF IInv, TypeOK
  <2> QED
    BY <2>1 DEF Session, SessionStatus, SummaryStatus
<1> HIDE DEF results, row
<1>5. request[s].sent = "yes" => /\ answers[s] = request[s].body
                                 /\ \A i \in Items : results[i].answer = answers[s][i]
  BY <1>3 DEF IInv, GradedAsSubmitted
<1>6. /\ sessions' \in [Sessions -> Session] /\ grades' \in [Sessions -> [Items -> Grading]]
      /\ sessions'[s] = row /\ grades'[s] = results
      /\ \A x \in Sessions : x # s => sessions'[x] = sessions[x] /\ grades'[x] = grades[x]
  BY <1>1, <1>3, <1>4 DEF IInv, TypeOK
<1>7. /\ answers' \in [Sessions -> [Items -> Answers]]
      /\ request' \in [Sessions -> [sent : {"no", "yes"}, body : [Items -> Answers]]]
      /\ rebuild' \in {"none", "queued"}
      /\ \A x \in Sessions : answers'[x] = answers[x] /\ request'[x] = request[x]
  BY <1>1 DEF IInv, TypeOK
<1>8. /\ sessions'[s].status = "grading" /\ stage' = stage /\ batch' = batch
      /\ \A i \in Items : grades'[s][i].status = "pending" => grades'[s][i].source = "ai"
      /\ request'[s].sent = "yes" => /\ answers'[s] = request'[s].body
                                     /\ \A i \in Items : grades'[s][i].answer = answers'[s][i]
  BY <1>1, <1>3, <1>4, <1>5, <1>6
<1> QED
  BY Reopens, <1>1, <1>6, <1>7, <1>8

-----------------------------------------------------------------------------
(* Steps of the workers                                                    *)

\* Only the job itself changes: an attempt starts or ends, no row is written.
LEMMA ClaimStep ==
  ASSUME IInv, NEW j \in JobIds, Claim(j)
  PROVE  IInv'
<1>1. /\ state[j] = "waiting" /\ state' = [state EXCEPT ![j] = "granted"]
      /\ stage' = [stage EXCEPT ![j] = "started"]
      /\ UNCHANGED <<sessions, answers, grades, request, rebuild, task, batch>>
  BY DEF Claim, Queue!Grant, business
<1>2. /\ stage'[j] = "started" /\ state'[j] = "granted"
      /\ \A k \in JobIds : k # j => stage'[k] = stage[k] /\ state'[k] = state[k]
  BY <1>1 DEF IInv, TypeOK, JobsInv
<1>3. \A x \in Sessions : ActiveAnalyses(x)' = ActiveAnalyses(x)
  BY <1>1, <1>2 DEF ActiveAnalyses
<1>4. TypeOK'
  <2>1. stage' \in [JobIds -> Stage]
    BY <1>1 DEF IInv, TypeOK, Stage
  <2> QED
    BY <1>1, <2>1 DEF IInv, TypeOK
<1>5. JobsInv'
  <2>1. state' \in [JobIds -> {"unknown", "waiting", "granted", "settled", "given up"}]
    BY <1>1 DEF IInv, JobsInv
  <2> QED
    BY <1>1, <1>2, <2>1 DEF IInv, JobsInv, Analyzes
<1>6. FreshInv' /\ OpenIsForTheAI'
  BY <1>1, <1>3 DEF IInv, FreshInv, Fresh, OpenIsForTheAI
<1>7. DrivenInv'
  BY <1>1, <1>3 DEF IInv, DrivenInv
<1>8. HandlerInv'
  BY <1>1, <1>2 DEF IInv, HandlerInv, Analyzes, PendingIn
<1>9. PendingOnlyWhileGrading' /\ GradedAsSubmitted'
  BY <1>1 DEF IInv, PendingOnlyWhileGrading, PendingIn, GradedAsSubmitted
<1> QED
  BY <1>4, <1>5, <1>6, <1>7, <1>8, <1>9 DEF IInv

\* A handler returned nil, and its job is completed.
LEMMA CompleteStep ==
  ASSUME IInv, NEW j \in JobIds, Complete(j)
  PROVE  IInv'
<1>1. /\ stage[j] = "done" /\ state[j] = "granted" /\ state' = [state EXCEPT ![j] = "settled"]
      /\ stage' = [stage EXCEPT ![j] = "idle"]
      /\ batch' = [batch EXCEPT ![j] = NoBatch]
      /\ UNCHANGED <<sessions, answers, grades, request, rebuild, task>>
  BY DEF Complete, Queue!Settle, business
<1>2. /\ stage'[j] = "idle" /\ state'[j] = "settled"
      /\ \A k \in JobIds : k # j => stage'[k] = stage[k] /\ state'[k] = state[k] /\ batch'[k] = batch[k]
  BY <1>1 DEF IInv, TypeOK, JobsInv
<1>3. \A x \in Sessions : ActiveAnalyses(x)' = ActiveAnalyses(x) \ {j}
  BY <1>1, <1>2 DEF ActiveAnalyses
<1>4. TypeOK'
  <2>1. stage' \in [JobIds -> Stage] /\ batch' \in [JobIds -> [pending : SUBSET Items, garbled : SUBSET Items]]
    BY <1>1 DEF IInv, TypeOK, Stage, NoBatch
  <2> QED
    BY <1>1, <2>1 DEF IInv, TypeOK
<1>5. JobsInv'
  <2>1. state' \in [JobIds -> {"unknown", "waiting", "granted", "settled", "given up"}]
    BY <1>1 DEF IInv, JobsInv
  <2> QED
    BY <1>1, <1>2, <2>1 DEF IInv, JobsInv, Analyzes
<1>6. FreshInv' /\ OpenIsForTheAI'
  BY <1>1, <1>3 DEF IInv, FreshInv, Fresh, OpenIsForTheAI
<1>7. DrivenInv'
  <2>1. ASSUME NEW x \in Sessions, sessions[x].status = "grading"
        PROVE  j \notin ActiveAnalyses(x)
    <3>1. ASSUME j \in ActiveAnalyses(x) PROVE FALSE
      <4>1. task[j] = [kind |-> "analyze_practice_session_ai", session |-> x]
        BY <3>1 DEF ActiveAnalyses
      <4> QED
        BY <1>1, <2>1, <4>1 DEF IInv, HandlerInv, Analyzes
    <3> QED
      BY <3>1
  <2> QED
    BY <1>1, <1>3, <2>1 DEF IInv, DrivenInv
<1>8. HandlerInv'
  BY <1>1, <1>2 DEF IInv, HandlerInv, Analyzes, PendingIn
<1>9. PendingOnlyWhileGrading' /\ GradedAsSubmitted'
  BY <1>1 DEF IInv, PendingOnlyWhileGrading, PendingIn, GradedAsSubmitted
<1> QED
  BY <1>4, <1>5, <1>6, <1>7, <1>8, <1>9 DEF IInv

\* A transaction of a handler that writes the rows of its session.
LEMMA HandlerWrites ==
  ASSUME IInv, NEW j \in JobIds, NEW before, NEW after \in {"done", "refused"}, Guarded(j, before, after),
         NEW s \in Sessions, task[j].session = s,
         sessions' \in [Sessions -> Session], grades' \in [Sessions -> [Items -> Grading]],
         \A x \in Sessions : x # s => sessions'[x] = sessions[x] /\ grades'[x] = grades[x],
         \A i \in Items : /\ grades'[s][i].answer = grades[s][i].answer
                          /\ grades'[s][i].status = "pending"
                               => grades[s][i].status = "pending" /\ grades'[s][i].source = "ai",
         sessions'[s].status = "grading" => sessions[s].status = "grading",
         Fresh(s)' => Fresh(s) /\ grades'[s] = grades[s],
         PendingIn(grades'[s]) # {} => sessions'[s].status = "grading",
         Analyzes(j) /\ after = "done" => sessions'[s].status # "grading",
         answers' = answers, request' = request, batch' = batch, rebuild' \in {"none", "queued"}
  PROVE  IInv'
<1>1. after \in Stage
  BY DEF Stage
<1>2. /\ stage' \in [JobIds -> Stage] /\ stage'[j] = after
      /\ \A k \in JobIds : k # j => stage'[k] = stage[k]
      /\ UNCHANGED <<task, state>> /\ JobsInv'
  BY <1>1, GuardedFact DEF IInv
<1>3. \A x \in Sessions : ActiveAnalyses(x)' = ActiveAnalyses(x)
  BY <1>2, SameJobs
<1>4. TypeOK'
  BY <1>2 DEF IInv, TypeOK
<1>5. FreshInv'
  <2> SUFFICES ASSUME NEW x \in Sessions, Fresh(x)'
               PROVE  Fresh(x) /\ grades'[x] = grades[x]
    BY <1>3 DEF FreshInv, IInv
  <2> QED
    BY DEF Fresh
<1>6. OpenIsForTheAI'
  BY DEF IInv, OpenIsForTheAI
<1>7. DrivenInv'
  BY <1>3 DEF IInv, DrivenInv
<1>8. \A x \in Sessions : /\ sessions'[x].status = "grading" => sessions[x].status = "grading"
                          /\ PendingIn(grades'[x]) \subseteq PendingIn(grades[x])
  BY DEF PendingIn
<1>9. HandlerInv'
  <2> SUFFICES ASSUME NEW k \in JobIds, Analyzes(k)
               PROVE  /\ stage'[k] = "asked" => PendingIn(grades'[task[k].session]) \subseteq batch[k].pending
                      /\ stage'[k] = "done" => sessions'[task[k].session].status # "grading"
    BY <1>2 DEF HandlerInv, Analyzes, PendingIn
  <2>1. CASE k = j
    BY <1>2, <2>1
  <2>2. CASE k # j
    <3>1. task[k].session \in Sessions /\ stage'[k] = stage[k]
      BY <1>2, <2>2 DEF IInv, JobsInv, Analyzes
    <3> QED
      BY <1>8, <3>1 DEF IInv, HandlerInv
  <2> QED
    BY <2>1, <2>2
<1>10. PendingOnlyWhileGrading'
  <2> SUFFICES ASSUME NEW x \in Sessions, PendingIn(grades'[x]) # {}
               PROVE  sessions'[x].status = "grading"
    BY DEF PendingOnlyWhileGrading, PendingIn
  <2>1. CASE x = s
    BY <2>1
  <2>2. CASE x # s
    <3>1. sessions'[x] = sessions[x] /\ grades'[x] = grades[x]
      BY <2>2
    <3>2. PendingIn(grades[x]) # {}
      BY <3>1
    <3>3. sessions[x].status = "grading"
      BY <3>2 DEF IInv, PendingOnlyWhileGrading
    <3> QED
      BY <3>1, <3>3
  <2> QED
    BY <2>1, <2>2
<1>11. GradedAsSubmitted'
  BY DEF IInv, GradedAsSubmitted
<1> QED
  BY <1>2, <1>4, <1>5, <1>6, <1>7, <1>9, <1>10, <1>11 DEF IInv

\* A generation finds its session decided.
LEMMA GenerationIsOverStep ==
  ASSUME IInv, NEW j \in JobIds, GenerationIsOver(j)
  PROVE  IInv'
<1>1. /\ ~Analyzes(j) /\ stage[j] = "started" /\ stage' = [stage EXCEPT ![j] = "done"]
      /\ UNCHANGED <<sessions, answers, grades, request, rebuild, task, batch, state>>
  BY DEF GenerationIsOver, Generates, Analyzes, business, queue
<1>2. \A k \in JobIds : k # j => stage'[k] = stage[k]
  BY <1>1 DEF IInv, TypeOK
<1>3. \A x \in Sessions : ActiveAnalyses(x)' = ActiveAnalyses(x)
  BY <1>1, SameJobs
<1>4. TypeOK'
  <2>1. stage' \in [JobIds -> Stage]
    BY <1>1 DEF IInv, TypeOK, Stage
  <2> QED
    BY <1>1, <2>1 DEF IInv, TypeOK
<1>5. JobsInv'
  BY <1>1, <1>2 DEF IInv, JobsInv, Analyzes
<1>6. FreshInv' /\ OpenIsForTheAI'
  BY <1>1, <1>3 DEF IInv, FreshInv, Fresh, OpenIsForTheAI
<1>7. DrivenInv'
  BY <1>1, <1>3 DEF IInv, DrivenInv
<1>8. HandlerInv'
  BY <1>1, <1>2 DEF IInv, HandlerInv, Analyzes, PendingIn
<1>9. PendingOnlyWhileGrading' /\ GradedAsSubmitted'
  BY <1>1 DEF IInv, PendingOnlyWhileGrading, PendingIn, GradedAsSubmitted
<1> QED
  BY <1>4, <1>5, <1>6, <1>7, <1>8, <1>9 DEF IInv

\* The end of a generation, either way: nothing has been graded yet.
LEMMA GenerationEnds ==
  ASSUME IInv, NEW j \in JobIds, NEW after \in {"done", "refused"}, Guarded(j, {"started"}, after),
         Generates(j), NEW row \in Session, row.status # "grading",
         sessions[task[j].session].status = "generating",
         task[j].session \in Sessions,
         sessions' = [sessions EXCEPT ![task[j].session] = row],
         UNCHANGED <<answers, grades, request, rebuild, batch>>
  PROVE  IInv'
<1> DEFINE s == task[j].session
<1>1. s \in Sessions /\ Fresh(s) /\ ~Analyzes(j)
  BY DEF Fresh, Generates, Analyzes
<1>2. /\ sessions' \in [Sessions -> Session] /\ grades' \in [Sessions -> [Items -> Grading]]
      /\ sessions'[s] = row /\ grades' = grades
      /\ \A x \in Sessions : x # s => sessions'[x] = sessions[x]
      /\ rebuild' \in {"none", "queued"}
  BY DEF IInv, TypeOK
<1>3. PendingIn(grades[s]) = {}
  BY <1>1 DEF IInv, FreshInv, PendingIn
<1>4. \A i \in Items : grades[s][i].status = "pending" => grades[s][i].source = "ai"
  BY <1>1 DEF IInv, OpenIsForTheAI
<1> HIDE DEF s
<1>5. task[j].session = s /\ answers' = answers /\ request' = request /\ batch' = batch
  BY DEF s
<1> QED
  BY HandlerWrites, <1>1, <1>2, <1>3, <1>4, <1>5

\* The questions are persisted and the session opened.
LEMMA persistGeneratedQuestionsStep ==
  ASSUME IInv, NEW j \in JobIds, persistGeneratedQuestions(j)
  PROVE  IInv'
<1>1. /\ Generates(j) /\ sessions[task[j].session].status = "generating"
      /\ Guarded(j, {"started"}, "done")
      /\ sessions' = [sessions EXCEPT ![task[j].session] = [sessions[task[j].session] EXCEPT !.status = "active"]]
      /\ UNCHANGED <<answers, grades, request, rebuild, batch>>
  BY DEF persistGeneratedQuestions
<1>2. task[j].session \in Sessions
  BY <1>1 DEF IInv, JobsInv, Generates
<1>3. sessions[task[j].session] \in Session
  BY <1>2 DEF IInv, TypeOK
<1>4. /\ [sessions[task[j].session] EXCEPT !.status = "active"] \in Session
      /\ [sessions[task[j].session] EXCEPT !.status = "active"].status # "grading"
  BY <1>3 DEF Session, SessionStatus
<1> QED
  BY GenerationEnds, <1>1, <1>2, <1>4

\* A generation gives up.
LEMMA markGenerationFailedStep ==
  ASSUME IInv, NEW j \in JobIds, NEW after \in {"done", "refused"}, markGenerationFailed(j, after)
  PROVE  IInv'
<1>1. /\ Generates(j) /\ sessions[task[j].session].status = "generating"
      /\ Guarded(j, {"started"}, after)
      /\ sessions' = [sessions EXCEPT ![task[j].session] = GenerationGivenUp(sessions[task[j].session])]
      /\ UNCHANGED <<answers, grades, request, rebuild, batch>>
  BY DEF markGenerationFailed
<1>2. task[j].session \in Sessions
  BY <1>1 DEF IInv, JobsInv, Generates
<1>3. sessions[task[j].session] \in Session
  BY <1>2 DEF IInv, TypeOK
<1>4. /\ GenerationGivenUp(sessions[task[j].session]) \in Session
      /\ GenerationGivenUp(sessions[task[j].session]).status # "grading"
  BY <1>1, <1>3, GivenUpFact
<1> QED
  BY GenerationEnds, <1>1, <1>2, <1>4

\* The read of an analysis finds every open result, since each is the AI's.
LEMMA loadBatchStep ==
  ASSUME IInv, NEW j \in JobIds, loadBatch(j)
  PROVE  IInv'
<1> DEFINE results == grades[task[j].session]
           found == [pending |-> {i \in PendingIn(results) : results[i].source = "ai"},
                     garbled |-> {i \in Items : results[i].explanation = "garbled"}]
<1>1. /\ Analyzes(j) /\ stage[j] = "started"
      /\ batch' = [batch EXCEPT ![j] = found]
      /\ stage' = [stage EXCEPT ![j] = "asked"]
      /\ UNCHANGED <<sessions, answers, grades, request, rebuild, task, state>>
  BY DEF loadBatch, business, queue
<1>2. task[j].session \in Sessions
  BY <1>1, HandledIsActive DEF IInv
<1>3. PendingIn(results) \subseteq found.pending
  BY <1>2 DEF IInv, OpenIsForTheAI, PendingIn
<1>4. found \in [pending : SUBSET Items, garbled : SUBSET Items]
  BY DEF PendingIn
<1> HIDE DEF found
<1>5. /\ batch'[j] = found /\ stage'[j] = "asked"
      /\ \A k \in JobIds : k # j => stage'[k] = stage[k] /\ batch'[k] = batch[k]
  BY <1>1 DEF IInv, TypeOK
<1>6. \A x \in Sessions : ActiveAnalyses(x)' = ActiveAnalyses(x)
  BY <1>1, SameJobs
<1>7. TypeOK'
  <2>1. /\ stage' \in [JobIds -> Stage]
        /\ batch' \in [JobIds -> [pending : SUBSET Items, garbled : SUBSET Items]]
    BY <1>1, <1>4 DEF IInv, TypeOK, Stage
  <2> QED
    BY <1>1, <2>1 DEF IInv, TypeOK
<1>8. JobsInv'
  BY <1>1, <1>5 DEF IInv, JobsInv
<1>9. FreshInv' /\ OpenIsForTheAI'
  BY <1>1, <1>6 DEF IInv, FreshInv, Fresh, OpenIsForTheAI
<1>10. DrivenInv'
  BY <1>1, <1>6 DEF IInv, DrivenInv
<1>11. HandlerInv'
  <2> SUFFICES ASSUME NEW k \in JobIds, Analyzes(k)
               PROVE  /\ stage'[k] = "asked" => PendingIn(grades[task[k].session]) \subseteq batch'[k].pending
                      /\ stage'[k] = "done" => sessions[task[k].session].status # "grading"
    BY <1>1 DEF HandlerInv, Analyzes, PendingIn
  <2>1. CASE k = j
    BY <1>3, <1>5, <2>1
  <2>2. CASE k # j
    BY <1>5, <2>2 DEF IInv, HandlerInv
  <2> QED
    BY <2>1, <2>2
<1>12. PendingOnlyWhileGrading' /\ GradedAsSubmitted'
  BY <1>1 DEF IInv, PendingOnlyWhileGrading, PendingIn, GradedAsSubmitted
<1> QED
  BY <1>7, <1>8, <1>9, <1>10, <1>11, <1>12 DEF IInv

\* What the analysis writes: every open result was asked about, and gets its end.
LEMMA WriteAnalysisFact ==
  ASSUME IInv, NEW j \in JobIds, NEW verdict, WriteAnalysis(j, verdict)
  PROVE  LET s == task[j].session
         IN  /\ s \in Sessions
             /\ Guarded(j, {"asked"}, "done") /\ ~Fresh(s)
             /\ sessions' \in [Sessions -> Session] /\ grades' \in [Sessions -> [Items -> Grading]]
             /\ \A x \in Sessions : x # s => sessions'[x] = sessions[x] /\ grades'[x] = grades[x]
             /\ \A i \in Items : /\ grades'[s][i].answer = grades[s][i].answer
                                 /\ grades'[s][i].status # "pending"
                                 /\ grades[s][i].status # "pending" => grades'[s][i].status = grades[s][i].status
             /\ sessions'[s].status \in {sessions[s].status, "completed", "analysis_failed"} \ {"grading"}
             /\ UNCHANGED <<answers, request, batch>> /\ rebuild' \in {"none", "queued"}
<1> DEFINE s == task[j].session
           results == [i \in Items |-> Judged(grades[s][i], i \in batch[j].pending,
                                              i \in batch[j].garbled, verdict[i])]
           row == SetAISummary(CompleteIfDone(sessions[s], results), "completed")
<1>1. /\ Analyzes(j) /\ Guarded(j, {"asked"}, "done")
      /\ grades' = [grades EXCEPT ![s] = results]
      /\ sessions' = [sessions EXCEPT ![s] = row]
      /\ UNCHANGED <<answers, request, batch>>
      /\ rebuild' \in {"queued"} \/ rebuild' \in {rebuild, "queued"}
  BY DEF WriteAnalysis
<1>2. stage[j] = "asked"
  BY <1>1 DEF Guarded
<1>3. s \in Sessions /\ j \in ActiveAnalyses(s)
  BY <1>1, <1>2, HandledIsActive DEF IInv
<1>4. ~Fresh(s)
  BY <1>3 DEF IInv, FreshInv
<1>5. \A i \in Items : grades[s][i].status = "pending" => i \in batch[j].pending
  BY <1>1, <1>2 DEF IInv, HandlerInv, PendingIn
<1>6. ASSUME NEW i \in Items
      PROVE  /\ results[i] \in Grading /\ results[i].answer = grades[s][i].answer
             /\ results[i].status # "pending"
             /\ grades[s][i].status # "pending" => results[i].status = grades[s][i].status
  <2>1. /\ grades[s][i] \in Grading
        /\ grades[s][i].status = "pending" => grades[s][i].source = "ai" /\ i \in batch[j].pending
    BY <1>3, <1>5 DEF IInv, TypeOK, OpenIsForTheAI
  <2>2. results[i] = Judged(grades[s][i], i \in batch[j].pending, i \in batch[j].garbled, verdict[i])
    OBVIOUS
  <2> HIDE DEF results
  <2> QED
    BY <2>1, <2>2 DEF Judged, Grading
<1>7. results \in [Items -> Grading]
  BY <1>6
<1>8. sessions[s] \in Session
  BY <1>3 DEF IInv, TypeOK
<1> HIDE DEF results
<1>9. row \in Session /\ row.status \in {sessions[s].status, "completed", "analysis_failed"} \ {"grading"}
  BY <1>8, SessionFact
<1> HIDE DEF row, s
<1>10. /\ sessions' \in [Sessions -> Session] /\ grades' \in [Sessions -> [Items -> Grading]]
       /\ sessions'[s] = row /\ grades'[s] = results
       /\ \A x \in Sessions : x # s => sessions'[x] = sessions[x] /\ grades'[x] = grades[x]
       /\ rebuild' \in {"none", "queued"}
  BY <1>1, <1>3, <1>7, <1>9 DEF IInv, TypeOK
<1> QED
  BY <1>1, <1>3, <1>4, <1>6, <1>9, <1>10 DEF s

\* An analysis writes its verdicts.
LEMMA WriteAnalysisStep ==
  ASSUME IInv, NEW j \in JobIds, NEW verdict, WriteAnalysis(j, verdict)
  PROVE  IInv'
<1>0. PICK s \in Sessions : task[j].session = s
  BY WriteAnalysisFact
<1>1. /\ Guarded(j, {"asked"}, "done") /\ ~Fresh(s)
      /\ sessions' \in [Sessions -> Session] /\ grades' \in [Sessions -> [Items -> Grading]]
      /\ \A x \in Sessions : x # s => sessions'[x] = sessions[x] /\ grades'[x] = grades[x]
      /\ \A i \in Items : /\ grades'[s][i].answer = grades[s][i].answer
                          /\ grades'[s][i].status # "pending"
      /\ sessions'[s].status \in {sessions[s].status, "completed", "analysis_failed"} \ {"grading"}
      /\ answers' = answers /\ request' = request /\ batch' = batch /\ rebuild' \in {"none", "queued"}
  BY <1>0, WriteAnalysisFact
<1>2. PendingIn(grades'[s]) = {}
  BY <1>1 DEF PendingIn
<1>3. ~Fresh(s)'
  BY <1>1 DEF Fresh
<1> QED
  BY HandlerWrites, <1>0, <1>1, <1>2, <1>3

\* What failing an analysis does to a session and its items.
LEMMA failBatchAnalysisFact ==
  ASSUME IInv, NEW j \in JobIds, failBatchAnalysis(j)
  PROVE  LET s == task[j].session
         IN  /\ s \in Sessions
             /\ Guarded(j, {"started", "asked"}, "refused") /\ ~Fresh(s)
             /\ sessions' \in [Sessions -> Session] /\ grades' \in [Sessions -> [Items -> Grading]]
             /\ \A x \in Sessions : x # s => sessions'[x] = sessions[x] /\ grades'[x] = grades[x]
             /\ \A i \in Items : /\ grades'[s][i].answer = grades[s][i].answer
                                 /\ grades'[s][i].status # "pending"
                                 /\ grades[s][i].status # "pending" => grades'[s][i].status = grades[s][i].status
             /\ sessions'[s].status \in {sessions[s].status, "completed", "analysis_failed"} \ {"grading"}
             /\ UNCHANGED <<answers, request, batch, rebuild>>
<1> DEFINE s == task[j].session
           results == PendingToFailed(grades[s])
           row == SetAISummary(CompleteIfDone(sessions[s], results), "failed")
<1>1. /\ Analyzes(j) /\ Guarded(j, {"started", "asked"}, "refused")
      /\ grades' = [grades EXCEPT ![s] = results]
      /\ sessions' = [sessions EXCEPT ![s] = row]
      /\ UNCHANGED <<answers, request, batch, rebuild>>
  BY DEF failBatchAnalysis
<1>2. stage[j] # "idle"
  BY <1>1 DEF Guarded
<1>3. s \in Sessions /\ j \in ActiveAnalyses(s)
  BY <1>1, <1>2, HandledIsActive DEF IInv
<1>4. ~Fresh(s)
  BY <1>3 DEF IInv, FreshInv
<1>5. /\ sessions[s] \in Session /\ grades[s] \in [Items -> Grading]
      /\ \A i \in Items : grades[s][i].status = "pending" => grades[s][i].source = "ai"
  BY <1>3 DEF IInv, TypeOK, OpenIsForTheAI
<1>6. /\ results \in [Items -> Grading] /\ PendingIn(results) = {}
      /\ \A i \in Items : /\ results[i].answer = grades[s][i].answer
                          /\ grades[s][i].status # "pending" => results[i].status = grades[s][i].status
  BY <1>5, FailedFact
<1>7. \A i \in Items : results[i].status # "pending"
  BY <1>6 DEF PendingIn
<1> HIDE DEF results
<1>8. row \in Session /\ row.status \in {sessions[s].status, "completed", "analysis_failed"} \ {"grading"}
  BY <1>5, <1>6, SessionFact
<1> HIDE DEF row, s
<1>9. /\ sessions' \in [Sessions -> Session] /\ grades' \in [Sessions -> [Items -> Grading]]
      /\ sessions'[s] = row /\ grades'[s] = results
      /\ \A x \in Sessions : x # s => sessions'[x] = sessions[x] /\ grades'[x] = grades[x]
  BY <1>1, <1>3, <1>6, <1>8 DEF IInv, TypeOK
<1> QED
  BY <1>1, <1>3, <1>4, <1>6, <1>7, <1>8, <1>9 DEF s

\* An analysis gives up.
LEMMA failBatchAnalysisStep ==
  ASSUME IInv, NEW j \in JobIds, failBatchAnalysis(j)
  PROVE  IInv'
<1>0. PICK s \in Sessions : task[j].session = s
  BY failBatchAnalysisFact
<1>1. /\ Guarded(j, {"started", "asked"}, "refused") /\ ~Fresh(s)
      /\ sessions' \in [Sessions -> Session] /\ grades' \in [Sessions -> [Items -> Grading]]
      /\ \A x \in Sessions : x # s => sessions'[x] = sessions[x] /\ grades'[x] = grades[x]
      /\ \A i \in Items : /\ grades'[s][i].answer = grades[s][i].answer
                          /\ grades'[s][i].status # "pending"
      /\ sessions'[s].status \in {sessions[s].status, "completed", "analysis_failed"} \ {"grading"}
      /\ answers' = answers /\ request' = request /\ batch' = batch /\ rebuild' = rebuild
  BY <1>0, failBatchAnalysisFact
<1>2. PendingIn(grades'[s]) = {}
  BY <1>1 DEF PendingIn
<1>3. ~Fresh(s)'
  BY <1>1 DEF Fresh
<1>4. rebuild' \in {"none", "queued"}
  BY <1>1 DEF IInv, TypeOK
<1> QED
  BY HandlerWrites, <1>0, <1>1, <1>2, <1>3, <1>4

\* Attempts end without success.  A session whose last attempt ended is no longer
\* grading; the job of any other session is queued again.
LEMMA TakeBackFact ==
  ASSUME IInv, NEW lost \in SUBSET JobIds, TakeBack(lost)
  PROVE  /\ \A k \in lost : state[k] = "granted" /\ state'[k] \in {"waiting", "given up"}
         /\ \A k \in JobIds \ lost : /\ state'[k] = state[k] /\ stage'[k] = stage[k]
                                     /\ batch'[k] = batch[k]
         /\ \A k \in lost : stage'[k] = "idle"
         /\ \A x \in Sessions : sessions'[x] \in Session /\ grades'[x] \in [Items -> Grading]
         /\ \A x \in Sessions : sessions'[x].status \in {sessions[x].status, "generation_failed", "analysis_failed"}
         /\ \A x \in Sessions, i \in Items : grades'[x][i].answer = grades[x][i].answer
         /\ \A x \in Sessions, i \in Items : grades'[x][i].status = "pending" => grades'[x][i] = grades[x][i]
         /\ \A x \in Sessions, i \in Items :
              grades[x][i].status # "pending" => grades'[x][i].status = grades[x][i].status
         /\ \A x \in Sessions : sessions'[x].status = "grading" =>
              \A k \in lost : task[k] = [kind |-> "analyze_practice_session_ai", session |-> x]
                              => state'[k] = "waiting"
         /\ \A x \in Sessions : sessions'[x].status # "grading" /\ sessions[x].status = "grading"
              => PendingIn(grades'[x]) = {}
         /\ \A x \in Sessions : grades'[x] # grades[x] => \E k \in lost :
              task[k] = [kind |-> "analyze_practice_session_ai", session |-> x]
<1> DEFINE ended(kind) == {task[j].session : j \in {i \in lost : grants[i] = MaxAttempts
                                                          /\ task[i].kind = kind}}
           generation(x) == IF x \in ended("generate_ai_practice_session")
                            THEN GenerationGivenUp(sessions[x]) ELSE sessions[x]
<1>1. /\ \A k \in lost : state[k] = "granted"
      /\ state' = [k \in JobIds |-> IF k \notin lost THEN state[k]
                                    ELSE IF grants[k] = MaxAttempts THEN "given up" ELSE "waiting"]
  BY DEF TakeBack, Queue!TakeBack
<1>2. /\ sessions' = [x \in Sessions |-> IF x \in ended("analyze_practice_session_ai")
                                         THEN AnalysisGivenUp(generation(x)) ELSE generation(x)]
      /\ grades' = [x \in Sessions |-> IF x \in ended("analyze_practice_session_ai")
                                       THEN PendingToFailed(grades[x]) ELSE grades[x]]
  BY DEF TakeBack
<1>3. /\ stage' = [k \in JobIds |-> IF k \in lost THEN "idle" ELSE stage[k]]
      /\ batch' = [k \in JobIds |-> IF k \in lost THEN NoBatch ELSE batch[k]]
  BY DEF TakeBack
<1>4. \A k \in lost : task[k] \in Task
  BY DEF IInv, TypeOK
<1>5. ASSUME NEW x \in Sessions, x \in ended("analyze_practice_session_ai")
      PROVE  \E k \in lost : task[k] = [kind |-> "analyze_practice_session_ai", session |-> x]
  BY <1>4, <1>5 DEF Task
<1>6. ASSUME NEW x \in Sessions, x \notin ended("analyze_practice_session_ai"), NEW k \in lost,
             task[k] = [kind |-> "analyze_practice_session_ai", session |-> x]
      PROVE  grants[k] # MaxAttempts
  BY <1>6
<1> HIDE DEF ended
<1>7. ASSUME NEW x \in Sessions
      PROVE  /\ generation(x) \in Session
             /\ generation(x).status \in {sessions[x].status, "generation_failed"}
  <2>1. sessions[x] \in Session
    BY DEF IInv, TypeOK
  <2> QED
    BY <2>1, GivenUpFact
<1> HIDE DEF generation
<1>8. ASSUME NEW x \in Sessions
      PROVE  /\ sessions'[x] \in Session /\ grades'[x] \in [Items -> Grading]
             /\ sessions'[x].status \in {sessions[x].status, "generation_failed", "analysis_failed"}
             /\ \A i \in Items : /\ grades'[x][i].answer = grades[x][i].answer
                                 /\ grades'[x][i].status = "pending" => grades'[x][i] = grades[x][i]
                                 /\ grades[x][i].status # "pending" => grades'[x][i].status = grades[x][i].status
             /\ sessions'[x].status = "grading" =>
                  \A k \in lost : task[k] = [kind |-> "analyze_practice_session_ai", session |-> x]
                                  => state'[k] = "waiting"
             /\ sessions'[x].status # "grading" /\ sessions[x].status = "grading" => PendingIn(grades'[x]) = {}
             /\ grades'[x] # grades[x] => \E k \in lost :
                  task[k] = [kind |-> "analyze_practice_session_ai", session |-> x]
  <2>0. /\ grades[x] \in [Items -> Grading]
        /\ \A i \in Items : grades[x][i].status = "pending" => grades[x][i].source = "ai"
    BY DEF IInv, TypeOK, OpenIsForTheAI
  <2>1. CASE x \in ended("analyze_practice_session_ai")
    <3>1. sessions'[x] = AnalysisGivenUp(generation(x)) /\ grades'[x] = PendingToFailed(grades[x])
      BY <1>2, <2>1
    <3>2. /\ sessions'[x] \in Session /\ sessions'[x].status # "grading"
          /\ sessions'[x].status \in {sessions[x].status, "generation_failed", "analysis_failed"}
      BY <1>7, <3>1, GivenUpFact
    <3>3. /\ grades'[x] \in [Items -> Grading] /\ PendingIn(grades'[x]) = {}
          /\ \A i \in Items : /\ grades'[x][i].answer = grades[x][i].answer
                              /\ grades[x][i].status # "pending" => grades'[x][i].status = grades[x][i].status
      BY <2>0, <3>1, FailedFact
    <3>4. \A i \in Items : grades'[x][i].status # "pending"
      BY <3>3 DEF PendingIn
    <3> QED
      BY <1>5, <2>1, <3>2, <3>3, <3>4
  <2>2. CASE x \notin ended("analyze_practice_session_ai")
    <3>1. sessions'[x] = generation(x) /\ grades'[x] = grades[x]
      BY <1>2, <2>2
    <3>2. \A k \in lost : task[k] = [kind |-> "analyze_practice_session_ai", session |-> x]
                          => state'[k] = "waiting"
      BY <1>1, <1>6, <2>2
    <3>3. sessions'[x].status # "grading" /\ sessions[x].status = "grading" => PendingIn(grades'[x]) = {}
      BY <1>7, <3>1 DEF generation, GenerationGivenUp
    <3> QED
      BY <1>7, <2>0, <3>1, <3>2, <3>3
  <2> QED
    BY <2>1, <2>2
<1>9. /\ \A k \in lost : state'[k] \in {"waiting", "given up"} /\ stage'[k] = "idle"
      /\ \A k \in JobIds \ lost : /\ state'[k] = state[k] /\ stage'[k] = stage[k]
                                  /\ batch'[k] = batch[k]
  BY <1>1, <1>3
<1>10. \A x \in Sessions : sessions'[x] \in Session /\ grades'[x] \in [Items -> Grading]
  BY <1>8
<1>11. \A x \in Sessions : sessions'[x].status \in {sessions[x].status, "generation_failed", "analysis_failed"}
  BY <1>8
<1>12. ASSUME NEW x \in Sessions, NEW i \in Items
       PROVE  /\ grades'[x][i].answer = grades[x][i].answer
              /\ grades'[x][i].status = "pending" => grades'[x][i] = grades[x][i]
              /\ grades[x][i].status # "pending" => grades'[x][i].status = grades[x][i].status
  <2>1. \A k \in Items : /\ grades'[x][k].answer = grades[x][k].answer
                         /\ grades'[x][k].status = "pending" => grades'[x][k] = grades[x][k]
                         /\ grades[x][k].status # "pending" => grades'[x][k].status = grades[x][k].status
    BY <1>8, Zenon
  <2> QED
    BY <2>1
<1>13. \A x \in Sessions, i \in Items : grades'[x][i].answer = grades[x][i].answer
  BY <1>12
<1>14. \A x \in Sessions, i \in Items : grades'[x][i].status = "pending" => grades'[x][i] = grades[x][i]
  BY <1>12
<1>15. \A x \in Sessions, i \in Items :
         grades[x][i].status # "pending" => grades'[x][i].status = grades[x][i].status
  BY <1>12
<1>16. \A x \in Sessions : sessions'[x].status = "grading" =>
         \A k \in lost : task[k] = [kind |-> "analyze_practice_session_ai", session |-> x]
                         => state'[k] = "waiting"
  BY <1>8
<1>17. \A x \in Sessions : sessions'[x].status # "grading" /\ sessions[x].status = "grading"
         => PendingIn(grades'[x]) = {}
  BY <1>8
<1>18. \A x \in Sessions : grades'[x] # grades[x] => \E k \in lost :
         task[k] = [kind |-> "analyze_practice_session_ai", session |-> x]
  BY <1>8
<1>19. /\ \A k \in lost : state[k] = "granted" /\ state'[k] \in {"waiting", "given up"}
       /\ \A k \in lost : stage'[k] = "idle"
  BY <1>1, <1>9
<1> QED
  BY <1>9, <1>10, <1>11, <1>13, <1>14, <1>15, <1>16, <1>17, <1>18, <1>19, Zenon

\* A job is taken back, and its session failed after the last attempt.
LEMMA TakeBackStep ==
  ASSUME IInv, NEW lost \in SUBSET JobIds, TakeBack(lost)
  PROVE  IInv'
<1>1. /\ \A k \in lost : state[k] = "granted" /\ state'[k] \in {"waiting", "given up"}
      /\ \A k \in JobIds \ lost : /\ state'[k] = state[k] /\ stage'[k] = stage[k]
                                  /\ batch'[k] = batch[k]
      /\ \A k \in lost : stage'[k] = "idle"
  BY TakeBackFact
<1>2. /\ \A x \in Sessions : sessions'[x] \in Session /\ grades'[x] \in [Items -> Grading]
      /\ \A x \in Sessions : sessions'[x].status \in {sessions[x].status, "generation_failed", "analysis_failed"}
  BY TakeBackFact
<1>3. \A x \in Sessions, i \in Items : grades'[x][i].answer = grades[x][i].answer
  BY TakeBackFact
<1>4. \A x \in Sessions, i \in Items : grades'[x][i].status = "pending" => grades'[x][i] = grades[x][i]
  BY TakeBackFact
<1>5. \A x \in Sessions : sessions'[x].status = "grading" =>
        \A k \in lost : task[k] = [kind |-> "analyze_practice_session_ai", session |-> x]
                        => state'[k] = "waiting"
  BY TakeBackFact
<1>6. \A x \in Sessions : sessions'[x].status # "grading" /\ sessions[x].status = "grading"
        => PendingIn(grades'[x]) = {}
  BY TakeBackFact
<1>7. \A x \in Sessions : grades'[x] # grades[x] => \E k \in lost :
        task[k] = [kind |-> "analyze_practice_session_ai", session |-> x]
  BY TakeBackFact
<1>8. /\ UNCHANGED <<answers, request, rebuild, task>>
      /\ stage' = [k \in JobIds |-> IF k \in lost THEN "idle" ELSE stage[k]]
      /\ batch' = [k \in JobIds |-> IF k \in lost THEN NoBatch ELSE batch[k]]
      /\ state' = [k \in JobIds |-> state'[k]]
      /\ sessions' = [x \in Sessions |-> sessions'[x]] /\ grades' = [x \in Sessions |-> grades'[x]]
  BY DEF TakeBack, Queue!TakeBack
<1>9. \A x \in Sessions : ActiveAnalyses(x)' \subseteq ActiveAnalyses(x)
  BY <1>1, <1>8 DEF ActiveAnalyses
<1>10. ASSUME NEW x \in Sessions, ActiveAnalyses(x) = {} PROVE grades'[x] = grades[x]
  <2>1. ASSUME NEW k \in lost, task[k] = [kind |-> "analyze_practice_session_ai", session |-> x]
        PROVE  k \in ActiveAnalyses(x)
    BY <1>1, <2>1 DEF ActiveAnalyses
  <2> QED
    BY <1>10, <1>7, <2>1
<1>11. TypeOK'
  <2>1. sessions' \in [Sessions -> Session] /\ grades' \in [Sessions -> [Items -> Grading]]
    BY <1>2, <1>8
  <2>2. stage' \in [JobIds -> Stage] /\ batch' \in [JobIds -> [pending : SUBSET Items, garbled : SUBSET Items]]
    BY <1>8 DEF IInv, TypeOK, Stage, NoBatch
  <2> QED
    BY <1>8, <2>1, <2>2 DEF IInv, TypeOK
<1>12. JobsInv'
  <2>1. \A k \in JobIds : state'[k] \in {"unknown", "waiting", "granted", "settled", "given up"}
    BY <1>1 DEF IInv, JobsInv
  <2>2. state' \in [JobIds -> {"unknown", "waiting", "granted", "settled", "given up"}]
    BY <1>8, <2>1
  <2>3. \A k \in JobIds : stage'[k] # "idle" => state'[k] = "granted"
    BY <1>1 DEF IInv, JobsInv
  <2> QED
    BY <1>8, <2>2, <2>3 DEF IInv, JobsInv
<1>13. FreshInv'
  <2> SUFFICES ASSUME NEW x \in Sessions, Fresh(x)'
               PROVE  /\ request[x].sent = "no" /\ ActiveAnalyses(x)' = {}
                      /\ \A i \in Items : grades'[x][i].status = "none"
    BY <1>8 DEF FreshInv
  <2>1. Fresh(x)
    BY <1>2 DEF Fresh
  <2>2. /\ request[x].sent = "no" /\ ActiveAnalyses(x) = {}
        /\ \A i \in Items : grades[x][i].status = "none"
    BY <2>1 DEF IInv, FreshInv
  <2> QED
    BY <1>9, <1>10, <2>2
<1>14. OpenIsForTheAI'
  BY <1>4 DEF IInv, OpenIsForTheAI
<1>15. DrivenInv'
  <2> SUFFICES ASSUME NEW x \in Sessions
               PROVE  /\ sessions'[x].status = "grading" => ActiveAnalyses(x)' # {}
                      /\ \A k, l \in ActiveAnalyses(x)' : k = l
    BY DEF DrivenInv
  <2>1. ASSUME sessions'[x].status = "grading" PROVE ActiveAnalyses(x)' # {}
    <3>1. sessions[x].status = "grading"
      BY <1>2, <2>1
    <3>2. PICK k \in ActiveAnalyses(x) : TRUE
      BY <3>1 DEF IInv, DrivenInv
    <3>3. /\ k \in JobIds /\ task[k] = [kind |-> "analyze_practice_session_ai", session |-> x]
          /\ state[k] \in {"waiting", "granted"}
      BY <3>2 DEF ActiveAnalyses
    <3>4. state'[k] \in {"waiting", "granted"}
      BY <1>1, <1>5, <2>1, <3>3
    <3>5. k \in ActiveAnalyses(x)'
      BY <1>8, <3>3, <3>4 DEF ActiveAnalyses
    <3> QED
      BY <3>5
  <2>2. \A k, l \in ActiveAnalyses(x)' : k = l
    BY <1>9 DEF IInv, DrivenInv
  <2> QED
    BY <2>1, <2>2
<1>16. HandlerInv'
  <2> SUFFICES ASSUME NEW k \in JobIds, Analyzes(k), stage'[k] # "idle"
               PROVE  /\ stage'[k] = "asked" => PendingIn(grades'[task[k].session]) \subseteq batch'[k].pending
                      /\ stage'[k] = "done" => sessions'[task[k].session].status # "grading"
    BY <1>8 DEF HandlerInv, Analyzes, PendingIn
  <2>1. k \notin lost /\ stage'[k] = stage[k] /\ batch'[k] = batch[k]
    BY <1>1
  <2>2. task[k].session \in Sessions
    BY DEF IInv, JobsInv, Analyzes
  <2>3. /\ PendingIn(grades'[task[k].session]) \subseteq PendingIn(grades[task[k].session])
        /\ sessions'[task[k].session].status = "grading" => sessions[task[k].session].status = "grading"
    BY <1>2, <1>4, <2>2 DEF PendingIn
  <2> QED
    BY <2>1, <2>2, <2>3 DEF IInv, HandlerInv
<1>17. PendingOnlyWhileGrading'
  <2> SUFFICES ASSUME NEW x \in Sessions, PendingIn(grades'[x]) # {}
               PROVE  sessions'[x].status = "grading"
    BY DEF PendingOnlyWhileGrading, PendingIn
  <2>1. PendingIn(grades[x]) # {}
    BY <1>4 DEF PendingIn
  <2>2. sessions[x].status = "grading"
    BY <2>1 DEF IInv, PendingOnlyWhileGrading
  <2> QED
    BY <1>6, <2>2
<1>18. GradedAsSubmitted'
  BY <1>3, <1>8 DEF IInv, GradedAsSubmitted
<1> QED
  BY <1>11, <1>12, <1>13, <1>14, <1>15, <1>16, <1>17, <1>18 DEF IInv

\* A rebuild of the memory is claimed.
LEMMA ClaimRebuildStep ==
  ASSUME IInv, ClaimRebuild \/ UNCHANGED vars
  PROVE  IInv'
<1>1. /\ UNCHANGED <<sessions, answers, grades, request, task, stage, batch, state>>
      /\ rebuild' \in {"none", "queued"}
  BY DEF ClaimRebuild, IInv, TypeOK, handlers, queue, vars, business
<1>2. \A x \in Sessions : ActiveAnalyses(x)' = ActiveAnalyses(x)
  BY <1>1, SameJobs
<1>3. TypeOK' /\ JobsInv'
  BY <1>1 DEF IInv, TypeOK, JobsInv
<1>4. FreshInv' /\ OpenIsForTheAI'
  BY <1>1, <1>2 DEF IInv, FreshInv, Fresh, OpenIsForTheAI
<1>5. DrivenInv'
  BY <1>1, <1>2 DEF IInv, DrivenInv
<1>6. HandlerInv'
  BY <1>1 DEF IInv, HandlerInv, Analyzes, PendingIn
<1>7. PendingOnlyWhileGrading' /\ GradedAsSubmitted'
  BY <1>1 DEF IInv, PendingOnlyWhileGrading, PendingIn, GradedAsSubmitted
<1> QED
  BY <1>3, <1>4, <1>5, <1>6, <1>7 DEF IInv

-----------------------------------------------------------------------------
(* The theorems                                                            *)

\* The invariant holds at the start: no session, no job.
LEMMA InitInv == Init => IInv
<1> SUFFICES ASSUME Init PROVE IInv
  OBVIOUS
<1>1. Unanswered \in [Items -> Answers]
  BY DEF Unanswered, Answers
<1>2. /\ sessions = [s \in Sessions |-> NoSession] /\ answers = [s \in Sessions |-> Unanswered]
      /\ grades = [s \in Sessions |-> [i \in Items |-> NoGrading]]
      /\ request = [s \in Sessions |-> NoRequest] /\ task = [j \in JobIds |-> NoTask]
      /\ stage = [j \in JobIds |-> "idle"] /\ batch = [j \in JobIds |-> NoBatch] /\ rebuild = "none"
      /\ state = [j \in JobIds |-> "unknown"]
  BY DEF Init, Queue!Init
<1>3. TypeOK
  <2>1. sessions \in [Sessions -> Session]
    BY <1>2 DEF NoSession, Session, SessionStatus, SummaryStatus
  <2>2. grades \in [Sessions -> [Items -> Grading]]
    BY <1>2 DEF NoGrading, Grading
  <2>3. request \in [Sessions -> [sent : {"no", "yes"}, body : [Items -> Answers]]]
    BY <1>1, <1>2 DEF NoRequest
  <2>4. task \in [JobIds -> Task] /\ stage \in [JobIds -> Stage]
    BY <1>2 DEF NoTask, Task, Stage
  <2>5. batch \in [JobIds -> [pending : SUBSET Items, garbled : SUBSET Items]]
    BY <1>2 DEF NoBatch
  <2> QED
    BY <1>1, <1>2, <2>1, <2>2, <2>3, <2>4, <2>5 DEF TypeOK
<1>4. JobsInv
  BY <1>2 DEF JobsInv, NoTask
<1>5. \A s \in Sessions : ActiveAnalyses(s) = {}
  BY <1>2 DEF ActiveAnalyses
<1>6. \A s \in Sessions : sessions[s].status = "absent" /\ request[s].sent = "no"
  BY <1>2 DEF NoSession, NoRequest
<1>7. \A s \in Sessions, i \in Items : grades[s][i].status = "none"
  BY <1>2 DEF NoGrading
<1>8. FreshInv /\ OpenIsForTheAI
  BY <1>5, <1>6, <1>7 DEF FreshInv, OpenIsForTheAI
<1>9. DrivenInv
  BY <1>5, <1>6 DEF DrivenInv
<1>10. HandlerInv
  BY <1>2 DEF HandlerInv
<1>11. PendingOnlyWhileGrading /\ GradedAsSubmitted
  BY <1>6, <1>7 DEF PendingOnlyWhileGrading, PendingIn, GradedAsSubmitted
<1> QED
  BY <1>3, <1>4, <1>8, <1>9, <1>10, <1>11 DEF IInv

\* Every step keeps the invariant.
LEMMA NextInv == IInv /\ [Next]_vars => IInv'
<1> SUFFICES ASSUME IInv, [Next]_vars PROVE IInv'
  OBVIOUS
<1>1. ASSUME NEW s \in Sessions, LearnerStep(s) PROVE IInv'
  <2>1. CASE CreateSession(s)
    BY <2>1, CreateSessionStep
  <2>2. CASE \E i \in Items, v \in Answers : SaveAnswer(s, i, v)
    BY <2>2, SaveAnswerStep
  <2>3. CASE DeleteSession(s)
    BY <2>3, DeleteSessionStep
  <2>4. CASE \E j \in JobIds : CreateGeneratedSession(s, j)
    BY <2>4, CreateGeneratedSessionStep
  <2>5. CASE \E j \in JobIds : RetryAnalysis(s, j)
    BY <2>5, RetryAnalysisStep
  <2>6. CASE \E j \in JobIds, body \in [Items -> Answers] : Submit(s, body, j)
    BY <2>6, SubmitStep
  <2> QED
    BY <1>1, <2>1, <2>2, <2>3, <2>4, <2>5, <2>6 DEF LearnerStep
<1>2. ASSUME NEW j \in JobIds, HandlerStep(j) PROVE IInv'
  <2>1. CASE GenerationIsOver(j)
    BY <2>1, GenerationIsOverStep
  <2>2. CASE persistGeneratedQuestions(j)
    BY <2>2, persistGeneratedQuestionsStep
  <2>3. CASE \E after \in {"done", "refused"} : markGenerationFailed(j, after)
    BY <2>3, markGenerationFailedStep
  <2>4. CASE loadBatch(j)
    BY <2>4, loadBatchStep
  <2>5. CASE \E verdict \in [batch[j].pending -> UNION {Verdicts(i) : i \in Items}] : WriteAnalysis(j, verdict)
    BY <2>5, WriteAnalysisStep
  <2>6. CASE failBatchAnalysis(j)
    BY <2>6, failBatchAnalysisStep
  <2> QED
    BY <1>2, <2>1, <2>2, <2>3, <2>4, <2>5, <2>6 DEF HandlerStep
<1>3. CASE \E j \in JobIds : Claim(j) \/ Complete(j)
  BY <1>3, ClaimStep, CompleteStep
<1>4. CASE \E lost \in SUBSET JobIds : TakeBack(lost)
  BY <1>4, TakeBackStep
<1>5. CASE ClaimRebuild \/ UNCHANGED vars
  BY <1>5, ClaimRebuildStep
<1> QED
  BY <1>1, <1>2, <1>3, <1>4, <1>5 DEF Next

\* IInv holds in every state.
LEMMA IInvHolds == Spec => []IInv
BY InitInv, NextInv, PTL DEF Spec

\* Every variable of the sessions has its type.
THEOREM TypeCorrect == Spec => []TypeOK
<1>1. IInv => TypeOK
  BY DEF IInv
<1> QED
  BY IInvHolds, <1>1, PTL

\* The answers of the accepted submission are the ones kept and the ones graded, in
\* spite of autosaves around it and of a repeated submission.
THEOREM GradedAsSubmittedHolds == Spec => []GradedAsSubmitted
<1>1. IInv => GradedAsSubmitted
  BY DEF IInv
<1> QED
  BY IInvHolds, <1>1, PTL

\* A grading session has exactly one analysis queued or running, and only a grading
\* session has open results: no session waits for a verdict nobody will bring, and
\* none is analysed twice at a time.
THEOREM GradingIsDrivenHolds == Spec => []GradingIsDriven
<1>1. ASSUME IInv PROVE GradingIsDriven
  <2>1. ASSUME NEW s \in Sessions PROVE Cardinality(ActiveAnalyses(s)) <= 1
    <3>1. CASE ActiveAnalyses(s) = {}
      BY <3>1, FS_EmptySet
    <3>2. CASE ActiveAnalyses(s) # {}
      <4>1. PICK j \in ActiveAnalyses(s) : TRUE
        BY <3>2
      <4>2. ActiveAnalyses(s) = {j}
        BY <1>1, <4>1 DEF IInv, DrivenInv
      <4> QED
        BY <4>2, FS_Singleton
    <3> QED
      BY <3>1, <3>2
  <2> QED
    BY <1>1, <2>1 DEF IInv, DrivenInv, GradingIsDriven
<1> QED
  BY IInvHolds, <1>1, PTL

\* A result that has its verdict keeps it: retries, later analyses and the loss of a
\* last attempt touch open and failed results only.
THEOREM VerdictsStandHolds == Spec => VerdictsStand
<1> DEFINE Stands == \A s \in Sessions, i \in Items :
                       grades[s][i].status \in {"correct", "incorrect", "unanswered"}
                       => grades'[s][i].status = grades[s][i].status
<1>1. ASSUME IInv, [Next]_vars PROVE [Stands]_vars
  <2> SUFFICES ASSUME Next PROVE Stands
    BY <1>1
  <2>1. ASSUME NEW s \in Sessions, LearnerStep(s) PROVE Stands
    <3>1. CASE grades' = grades
      BY <3>1
    <3>2. ASSUME NEW j \in JobIds, RetryAnalysis(s, j) PROVE Stands
      <4>1. grades' = [grades EXCEPT ![s] = [i \in Items |-> ResetForRetry(grades[s][i])]]
        BY <3>2 DEF RetryAnalysis
      <4>2. \A i \in Items : grades[s][i] \in Grading
        BY <1>1 DEF IInv, TypeOK
      <4>3. ASSUME NEW i \in Items, grades[s][i].status \in {"correct", "incorrect", "unanswered"}
            PROVE  ResetForRetry(grades[s][i]) = grades[s][i]
        BY <4>3 DEF ResetForRetry
      <4> QED
        BY <1>1, <4>1, <4>3 DEF IInv, TypeOK
    <3>3. ASSUME NEW j \in JobIds, NEW body \in [Items -> Answers], Submit(s, body, j) PROVE Stands
      <4>1. /\ sessions[s].status = "active"
            /\ grades' = [grades EXCEPT ![s] = [i \in Items |-> Graded(i, body[i])]]
        BY <3>3 DEF Submit
      <4>2. \A i \in Items : grades[s][i].status = "none"
        BY <1>1, <4>1 DEF IInv, FreshInv, Fresh
      <4>3. \A x \in Sessions : x # s => grades'[x] = grades[x]
        BY <1>1, <4>1 DEF IInv, TypeOK
      <4> QED
        BY <4>2, <4>3
    <3> QED
      BY <2>1, <3>1, <3>2, <3>3
         DEF LearnerStep, CreateSession, SaveAnswer, DeleteSession, CreateGeneratedSession
  <2>2. ASSUME NEW j \in JobIds, HandlerStep(j) PROVE Stands
    <3>1. CASE grades' = grades
      BY <3>1
    <3>2. ASSUME NEW verdict, WriteAnalysis(j, verdict) PROVE Stands
      <4>1. PICK s \in Sessions : task[j].session = s
        BY <1>1, <3>2, WriteAnalysisFact
      <4>2. /\ \A x \in Sessions : x # s => grades'[x] = grades[x]
            /\ \A i \in Items : grades[s][i].status # "pending" => grades'[s][i].status = grades[s][i].status
        BY <1>1, <3>2, <4>1, WriteAnalysisFact
      <4> QED
        BY <4>2
    <3>3. CASE failBatchAnalysis(j)
      <4>1. PICK s \in Sessions : task[j].session = s
        BY <1>1, <3>3, failBatchAnalysisFact
      <4>2. /\ \A x \in Sessions : x # s => grades'[x] = grades[x]
            /\ \A i \in Items : grades[s][i].status # "pending" => grades'[s][i].status = grades[s][i].status
        BY <1>1, <3>3, <4>1, failBatchAnalysisFact
      <4> QED
        BY <4>2
    <3> QED
      BY <2>2, <3>1, <3>2, <3>3
         DEF HandlerStep, GenerationIsOver, persistGeneratedQuestions, markGenerationFailed, loadBatch, business
  <2>3. ASSUME NEW lost \in SUBSET JobIds, TakeBack(lost) PROVE Stands
    <3>1. \A s \in Sessions, i \in Items :
            grades[s][i].status # "pending" => grades'[s][i].status = grades[s][i].status
      BY <1>1, <2>3, TakeBackFact
    <3> QED
      BY <3>1
  <2>4. ASSUME NEW j \in JobIds, Claim(j) \/ Complete(j) PROVE Stands
    BY <2>4 DEF Claim, Complete, business
  <2>5. CASE ClaimRebuild
    BY <2>5 DEF ClaimRebuild
  <2> QED
    BY <2>1, <2>2, <2>3, <2>4, <2>5 DEF Next
<1> QED
  BY IInvHolds, <1>1, PTL DEF Spec, VerdictsStand

-----------------------------------------------------------------------------
(* What was shown as final                                                 *)

\* A handler refuses after its last grant only; where an analysis of a session that
\* failed is still running, it has refused.
FinalInv ==
  /\ grants \in [JobIds -> Nat]
  /\ \A j \in JobIds : stage[j] = "refused" => grants[j] = MaxAttempts
  /\ \A s \in Sessions : sessions[s].status = "analysis_failed" =>
       \A j \in ActiveAnalyses(s) : stage[j] = "refused"

\* The status a result page would show that reads everything at once.
Shown(s) ==
  IF sessions[s].status = "completed" /\ ActiveAnalyses(s) # {} THEN "grading" ELSE sessions[s].status

Reopened(s) == \E j \in JobIds : state[j] = "unknown" /\ j \in ActiveAnalyses(s)'

ShownKept ==
  \A s \in Sessions :
    Shown(s) \in {"completed", "analysis_failed"} /\ Shown(s)' # Shown(s) => Reopened(s)

\* A session keeps its status and gets no new analysis.
Left(s) ==
  /\ sessions'[s].status = sessions[s].status
  /\ ActiveAnalyses(s)' \subseteq ActiveAnalyses(s)
  /\ sessions[s].status = "analysis_failed" => \A j \in ActiveAnalyses(s)' : stage'[j] = stage[j]

\* A session that shows nothing final moves; if it fails, what still runs has refused.
Moved(s) ==
  /\ Shown(s) \notin {"completed", "analysis_failed"}
  /\ sessions'[s].status = "analysis_failed" => \A j \in ActiveAnalyses(s)' : stage'[j] = "refused"

\* A step that leaves, moves or reopens each session does as it should.
LEMMA SessionwiseFact ==
  ASSUME FinalInv, grants' \in [JobIds -> Nat],
         \A j \in JobIds : stage'[j] = "refused" => grants'[j] = MaxAttempts,
         \A s \in Sessions : \/ Left(s)
                             \/ Moved(s)
                             \/ sessions'[s].status # "analysis_failed" /\ Reopened(s)
  PROVE  FinalInv' /\ ShownKept
<1>1. ASSUME NEW s \in Sessions, Left(s)
      PROVE  /\ sessions'[s].status = "analysis_failed" => \A j \in ActiveAnalyses(s)' : stage'[j] = "refused"
             /\ Shown(s) \in {"completed", "analysis_failed"} => Shown(s)' = Shown(s)
  <2>1. sessions'[s].status = "analysis_failed" => \A j \in ActiveAnalyses(s)' : stage'[j] = "refused"
    BY <1>1 DEF FinalInv, Left
  <2>2. CASE sessions[s].status = "completed"
    <3>1. ActiveAnalyses(s) = {} => ActiveAnalyses(s)' = {}
      BY <1>1 DEF Left
    <3> QED
      BY <1>1, <2>1, <2>2, <3>1 DEF Left, Shown
  <2>3. CASE sessions[s].status # "completed"
    BY <1>1, <2>1, <2>3 DEF Left, Shown
  <2> QED
    BY <2>2, <2>3
<1>2. \A s \in Sessions : sessions'[s].status = "analysis_failed" =>
        \A j \in ActiveAnalyses(s)' : stage'[j] = "refused"
  BY <1>1 DEF Moved
<1>3. ShownKept
  BY <1>1 DEF Moved, ShownKept
<1> QED
  BY <1>2, <1>3 DEF FinalInv

\* The learner reopens a session with a retry, and with nothing else.
LEMMA LearnerFinal ==
  ASSUME IInv, FinalInv, NEW s \in Sessions, LearnerStep(s)
  PROVE  FinalInv' /\ ShownKept
<1>1. stage' = stage /\ grants' = grants
  BY DEF LearnerStep, CreateSession, SaveAnswer, DeleteSession, CreateGeneratedSession, RetryAnalysis,
         Submit, EnqueueTx, Queue!Submit, handlers, queue
<1>2. \A x \in Sessions : x # s => sessions'[x] = sessions[x]
  BY DEF LearnerStep, CreateSession, InsertSession, SaveAnswer, DeleteSession, CreateGeneratedSession,
         RetryAnalysis, Submit, IInv, TypeOK
<1>3. CASE \/ CreateSession(s)
           \/ \E i \in Items, v \in Answers : SaveAnswer(s, i, v)
           \/ DeleteSession(s)
  <2>1. UNCHANGED <<task, state>>
    BY <1>3 DEF CreateSession, SaveAnswer, DeleteSession, queue
  <2>2. \A x \in Sessions : ActiveAnalyses(x)' = ActiveAnalyses(x)
    BY <2>1, SameJobs
  <2>3. \/ sessions'[s].status = sessions[s].status
        \/ sessions[s].status = "absent" /\ sessions'[s].status = "active"
    <3>1. sessions[s] \in Session
      BY DEF IInv, TypeOK
    <3> QED
      BY <1>3, <3>1 DEF CreateSession, InsertSession, NoSession, SaveAnswer, DeleteSession, IInv, TypeOK,
                        Session
  <2>4. Left(s) \/ Moved(s)
    BY <1>1, <2>2, <2>3 DEF Left, Moved, Shown
  <2>5. \A x \in Sessions : x # s => Left(x)
    BY <1>1, <1>2, <2>2 DEF Left
  <2> QED
    BY <1>1, <2>4, <2>5, SessionwiseFact DEF FinalInv
<1>4. ASSUME NEW j \in JobIds, CreateGeneratedSession(s, j) PROVE FinalInv' /\ ShownKept
  <2>1. /\ EnqueueTx(j, "generate_ai_practice_session", s)
        /\ sessions[s].status = "absent" /\ sessions'[s].status = "generating"
    BY <1>4 DEF CreateGeneratedSession, NoSession, IInv, TypeOK
  <2>2. \A x \in Sessions : ActiveAnalyses(x)' = ActiveAnalyses(x)
    BY <1>1, <2>1, EnqueuedFact DEF IInv, Enqueued
  <2>3. Moved(s)
    BY <2>1 DEF Moved, Shown
  <2>4. \A x \in Sessions : x # s => Left(x)
    BY <1>1, <1>2, <2>2 DEF Left
  <2> QED
    BY <1>1, <2>3, <2>4, SessionwiseFact DEF FinalInv
<1>5. ASSUME NEW j \in JobIds,
             \/ RetryAnalysis(s, j)
             \/ \E body \in [Items -> Answers] : Submit(s, body, j)
      PROVE  FinalInv' /\ ShownKept
  <2>1. EnqueueTx(j, "analyze_practice_session_ai", s)
    BY <1>5 DEF RetryAnalysis, Submit
  <2>2. sessions[s] \in Session
    BY DEF IInv, TypeOK
  <2>3. sessions'[s].status # "analysis_failed"
    <3>1. ASSUME NEW results
          PROVE  CompletedAtOnce(MarkSubmitted(sessions[s]), results).status # "analysis_failed"
      BY <2>2, SessionFact
    <3>2. CASE RetryAnalysis(s, j)
      BY <2>2, <3>2 DEF RetryAnalysis, Session, IInv, TypeOK
    <3>3. ASSUME NEW body \in [Items -> Answers], Submit(s, body, j)
          PROVE  sessions'[s].status # "analysis_failed"
      BY <3>1, <3>3 DEF Submit, IInv, TypeOK
    <3> QED
      BY <1>5, <3>2, <3>3
  <2>4. /\ state[j] = "unknown" /\ j \in ActiveAnalyses(s)'
        /\ \A x \in Sessions : x # s => ActiveAnalyses(x)' = ActiveAnalyses(x)
    BY <1>1, <2>1, EnqueuedFact DEF IInv, Enqueued
  <2>5. \A x \in Sessions : x # s => Left(x)
    BY <1>1, <1>2, <2>4 DEF Left
  <2> QED
    BY <1>1, <2>3, <2>4, <2>5, SessionwiseFact DEF FinalInv, Reopened
<1> QED
  BY <1>3, <1>4, <1>5 DEF LearnerStep

\* While the analysis of a session has not refused, the session shows nothing final.
LEMMA RunningShowsGrading ==
  ASSUME IInv, FinalInv, NEW j \in JobIds, Analyzes(j), stage[j] \in {"started", "asked"}
  PROVE  /\ task[j].session \in Sessions
         /\ ActiveAnalyses(task[j].session) = {j}
         /\ Shown(task[j].session) \notin {"completed", "analysis_failed"}
<1>1. task[j].session \in Sessions /\ j \in ActiveAnalyses(task[j].session)
  BY HandledIsActive DEF IInv
<1>2. ActiveAnalyses(task[j].session) = {j}
  BY <1>1 DEF IInv, DrivenInv
<1>3. sessions[task[j].session].status # "analysis_failed"
  BY <1>1 DEF FinalInv
<1> QED
  BY <1>1, <1>2, <1>3 DEF Shown

\* A handler moves a session that shows nothing final.
LEMMA HandlerFinal ==
  ASSUME IInv, FinalInv, NEW j \in JobIds, HandlerStep(j)
  PROVE  FinalInv' /\ ShownKept
<1>1. UNCHANGED <<task, state, grants>>
  BY DEF HandlerStep, GenerationIsOver, persistGeneratedQuestions, markGenerationFailed, loadBatch,
         WriteAnalysis, failBatchAnalysis, Guarded, Queue!Commit, queue
<1>2. \A x \in Sessions : ActiveAnalyses(x)' = ActiveAnalyses(x)
  BY <1>1, SameJobs
<1>3. \A k \in JobIds : k # j => stage'[k] = stage[k]
  BY DEF HandlerStep, GenerationIsOver, persistGeneratedQuestions, markGenerationFailed, loadBatch,
         WriteAnalysis, failBatchAnalysis, Guarded, IInv, TypeOK
<1>4. stage'[j] = "refused" => grants[j] = MaxAttempts
  BY DEF HandlerStep, GenerationIsOver, persistGeneratedQuestions, markGenerationFailed, loadBatch,
         WriteAnalysis, failBatchAnalysis, Guarded, IInv, TypeOK
<1>5. \A k \in JobIds : stage'[k] = "refused" => grants'[k] = MaxAttempts
  BY <1>1, <1>3, <1>4 DEF FinalInv
<1>6. CASE Generates(j)
  <2>1. \A x \in Sessions : j \notin ActiveAnalyses(x)
    BY <1>6 DEF Generates, ActiveAnalyses
  <2>2. \A x \in Sessions : \A k \in ActiveAnalyses(x)' : stage'[k] = stage[k]
    BY <1>2, <1>3, <2>1 DEF ActiveAnalyses
  <2>3. task[j].session \in Sessions
    BY <1>6 DEF IInv, JobsInv, Generates
  <2>4. \/ sessions' = sessions
        \/ /\ sessions[task[j].session].status = "generating"
           /\ sessions'[task[j].session].status # "analysis_failed"
           /\ \A x \in Sessions : x # task[j].session => sessions'[x] = sessions[x]
    <3>1. sessions[task[j].session] \in Session
      BY <2>3 DEF IInv, TypeOK
    <3>2. CASE GenerationIsOver(j)
      BY <3>2 DEF GenerationIsOver, business
    <3>3. CASE persistGeneratedQuestions(j)
      BY <2>3, <3>1, <3>3 DEF persistGeneratedQuestions, IInv, TypeOK, Session
    <3>4. ASSUME NEW after, markGenerationFailed(j, after), sessions' # sessions
          PROVE  /\ sessions[task[j].session].status = "generating"
                 /\ sessions'[task[j].session].status # "analysis_failed"
                 /\ \A x \in Sessions : x # task[j].session => sessions'[x] = sessions[x]
      <4>1. GenerationGivenUp(sessions[task[j].session]).status
              \in {sessions[task[j].session].status, "generation_failed"}
        BY <3>1, GivenUpFact
      <4> QED
        BY <2>3, <3>4, <4>1 DEF markGenerationFailed, IInv, TypeOK
    <3> QED
      BY <1>6, <3>2, <3>3, <3>4
         DEF HandlerStep, Generates, Analyzes, loadBatch, WriteAnalysis, failBatchAnalysis
  <2>5. \A x \in Sessions : Left(x) \/ Moved(x)
    BY <1>2, <2>2, <2>4 DEF Left, Moved, Shown
  <2> QED
    BY <1>1, <1>5, <2>5, SessionwiseFact DEF FinalInv
<1>7. CASE Analyzes(j)
  <2>1. stage[j] \in {"started", "asked"}
    BY <1>7 DEF HandlerStep, GenerationIsOver, persistGeneratedQuestions, markGenerationFailed,
                Generates, Analyzes, loadBatch, WriteAnalysis, failBatchAnalysis, Guarded
  <2>2. PICK s \in Sessions : /\ task[j].session = s /\ ActiveAnalyses(s) = {j}
                             /\ Shown(s) \notin {"completed", "analysis_failed"}
    BY <1>7, <2>1, RunningShowsGrading
  <2>3. \A x \in Sessions : x # s => j \notin ActiveAnalyses(x)
    BY <2>2 DEF ActiveAnalyses
  <2>4. \A x \in Sessions : x # s => sessions'[x] = sessions[x]
    <3>1. ASSUME NEW verdict, WriteAnalysis(j, verdict)
          PROVE  \A x \in Sessions : x # s => sessions'[x] = sessions[x]
      BY <2>2, <3>1, WriteAnalysisFact
    <3>2. CASE failBatchAnalysis(j)
      BY <2>2, <3>2, failBatchAnalysisFact
    <3> QED
      BY <1>7, <3>1, <3>2 DEF HandlerStep, GenerationIsOver, persistGeneratedQuestions,
                              markGenerationFailed, Generates, Analyzes, loadBatch, business
  <2>5. sessions'[s].status = "analysis_failed" => stage'[j] = "refused"
    <3>1. sessions[s] \in Session
      BY <2>2 DEF IInv, TypeOK
    <3>2. CASE loadBatch(j)
      <4>1. sessions[s].status # "analysis_failed"
        BY <2>2 DEF Shown
      <4> QED
        BY <3>2, <4>1 DEF loadBatch, business
    <3>3. ASSUME NEW verdict, WriteAnalysis(j, verdict) PROVE sessions'[s].status # "analysis_failed"
      <4>1. PICK results : sessions' = [sessions EXCEPT ![s] =
              SetAISummary(CompleteIfDone(sessions[s], results), "completed")]
        BY <2>2, <3>3 DEF WriteAnalysis
      <4>2. CompleteIfDone(sessions[s], results) \in Session
        BY <3>1 DEF CompleteIfDone, Session, SessionStatus
      <4>3. \A row \in Session : SetAISummary(row, "completed").status # "analysis_failed"
        BY DEF SetAISummary, Session
      <4> QED
        BY <2>2, <4>1, <4>2, <4>3 DEF IInv, TypeOK
    <3>4. CASE failBatchAnalysis(j)
      BY <3>4 DEF failBatchAnalysis, Guarded, IInv, TypeOK
    <3> QED
      BY <1>7, <3>2, <3>3, <3>4 DEF HandlerStep, GenerationIsOver, persistGeneratedQuestions,
                                    markGenerationFailed, Generates, Analyzes
  <2>6. Moved(s)
    BY <1>2, <2>2, <2>5 DEF Moved
  <2>7. \A x \in Sessions : x # s => Left(x)
    BY <1>2, <1>3, <2>3, <2>4 DEF Left, ActiveAnalyses
  <2> QED
    BY <1>1, <1>5, <2>6, <2>7, SessionwiseFact DEF FinalInv
<1> QED
  BY <1>6, <1>7 DEF HandlerStep, GenerationIsOver, persistGeneratedQuestions, markGenerationFailed,
                    loadBatch, WriteAnalysis, failBatchAnalysis

\* What the queue does with a job leaves the sessions alone.
LEMMA QueueFinal ==
  ASSUME IInv, FinalInv, NEW j \in JobIds, Claim(j) \/ Complete(j)
  PROVE  FinalInv' /\ ShownKept
<1>1. /\ sessions' = sessions /\ task' = task
      /\ stage'[j] # "refused" /\ \A k \in JobIds : k # j => stage'[k] = stage[k]
  BY DEF Claim, Complete, business, IInv, TypeOK
<1>2. stage[j] # "refused"
  BY DEF Claim, Complete, Queue!Grant, IInv, JobsInv
<1>3. /\ grants' \in [JobIds -> Nat]
      /\ \A k \in JobIds : k # j => grants'[k] = grants[k]
  BY DEF Claim, Complete, Queue!Grant, Queue!Settle, FinalInv
<1>4. /\ \A k \in JobIds : k # j => state'[k] = state[k]
      /\ state[j] \in {"waiting", "granted"}
  BY DEF Claim, Complete, Queue!Grant, Queue!Settle, IInv, JobsInv
<1>5. \A x \in Sessions : ActiveAnalyses(x)' \subseteq ActiveAnalyses(x)
  BY <1>1, <1>4 DEF ActiveAnalyses
<1>6. ASSUME NEW x \in Sessions, sessions[x].status = "analysis_failed"
      PROVE  \A k \in ActiveAnalyses(x)' : stage'[k] = stage[k]
  <2>1. j \notin ActiveAnalyses(x)
    BY <1>2, <1>6 DEF FinalInv
  <2> QED
    BY <1>1, <1>5, <2>1 DEF ActiveAnalyses
<1>7. \A x \in Sessions : Left(x)
  BY <1>1, <1>5, <1>6 DEF Left
<1>8. \A k \in JobIds : stage'[k] = "refused" => grants'[k] = MaxAttempts
  BY <1>1, <1>3 DEF FinalInv
<1> QED
  BY <1>3, <1>7, <1>8, SessionwiseFact

\* An attempt that is lost ends a session only while its analysis has not refused.
LEMMA TakeBackFinal ==
  ASSUME IInv, FinalInv, NEW lost \in SUBSET JobIds, TakeBack(lost)
  PROVE  FinalInv' /\ ShownKept
<1> DEFINE ended(kind) == {task[j].session : j \in {i \in lost : grants[i] = MaxAttempts
                                                          /\ task[i].kind = kind}}
           generation(x) == IF x \in ended("generate_ai_practice_session")
                            THEN GenerationGivenUp(sessions[x]) ELSE sessions[x]
<1>1. /\ \A k \in lost : state[k] = "granted" /\ stage'[k] = "idle"
      /\ \A k \in JobIds \ lost : state'[k] = state[k] /\ stage'[k] = stage[k]
  BY DEF TakeBack, Queue!TakeBack
<1>2. /\ grants' = grants /\ task' = task
      /\ state' = [k \in JobIds |-> IF k \notin lost THEN state[k]
                                    ELSE IF grants[k] = MaxAttempts THEN "given up" ELSE "waiting"]
  BY DEF TakeBack, Queue!TakeBack
<1>3. sessions' = [x \in Sessions |-> IF x \in ended("analyze_practice_session_ai")
                                      THEN AnalysisGivenUp(generation(x)) ELSE generation(x)]
  BY DEF TakeBack
<1>4. \A x \in Sessions : ActiveAnalyses(x)' \subseteq ActiveAnalyses(x)
  BY <1>1, <1>2 DEF ActiveAnalyses
<1>5. \A k \in lost : task[k] \in Task
  BY DEF IInv, TypeOK
<1>6. ASSUME NEW x \in Sessions, x \in ended("analyze_practice_session_ai")
      PROVE  ActiveAnalyses(x) # {} /\ ActiveAnalyses(x)' = {}
  <2>1. PICK k \in lost : /\ grants[k] = MaxAttempts
                          /\ task[k] = [kind |-> "analyze_practice_session_ai", session |-> x]
    BY <1>5, <1>6 DEF Task
  <2>2. k \in ActiveAnalyses(x) /\ k \notin ActiveAnalyses(x)'
    BY <1>1, <1>2, <2>1 DEF ActiveAnalyses
  <2> QED
    BY <1>4, <2>2 DEF IInv, DrivenInv
<1> HIDE DEF ended
<1>7. ASSUME NEW x \in Sessions, sessions[x].status \in {"completed", "analysis_failed"}
      PROVE  generation(x) = sessions[x]
  BY <1>7 DEF GenerationGivenUp
<1>8. ASSUME NEW x \in Sessions
      PROVE  generation(x).status \in {sessions[x].status, "generation_failed"}
  <2>1. sessions[x] \in Session
    BY DEF IInv, TypeOK
  <2> QED
    BY <2>1, GivenUpFact
<1> HIDE DEF generation
<1>9. ASSUME NEW x \in Sessions PROVE Left(x) \/ Moved(x)
  <2>1. CASE sessions[x].status = "analysis_failed"
    <3>1. sessions'[x].status = "analysis_failed"
      BY <1>3, <1>7, <2>1 DEF AnalysisGivenUp
    <3>2. ASSUME NEW k \in ActiveAnalyses(x)' PROVE k \notin lost
      <4>1. k \in ActiveAnalyses(x) /\ k \in JobIds /\ state'[k] \in {"waiting", "granted"}
        BY <1>4, <3>2 DEF ActiveAnalyses
      <4>2. grants[k] = MaxAttempts
        BY <2>1, <4>1 DEF FinalInv
      <4> QED
        BY <1>2, <4>1, <4>2
    <3>3. \A k \in ActiveAnalyses(x)' : stage'[k] = stage[k]
      BY <1>1, <3>2 DEF ActiveAnalyses
    <3> QED
      BY <1>4, <2>1, <3>1, <3>3 DEF Left
  <2>2. CASE sessions[x].status = "completed" /\ ActiveAnalyses(x) = {}
    BY <1>3, <1>4, <1>6, <1>7, <2>2 DEF Left
  <2>3. CASE sessions[x].status # "analysis_failed"
             /\ (sessions[x].status # "completed" \/ ActiveAnalyses(x) # {})
    <3>1. Shown(x) \notin {"completed", "analysis_failed"}
      BY <2>3 DEF Shown
    <3>2. sessions'[x].status = "analysis_failed" => ActiveAnalyses(x)' = {}
      BY <1>3, <1>6, <1>8, <2>3
    <3> QED
      BY <3>1, <3>2 DEF Moved
  <2> QED
    BY <2>1, <2>2, <2>3
<1>10. \A k \in JobIds : stage'[k] = "refused" => grants'[k] = MaxAttempts
  BY <1>1, <1>2 DEF FinalInv
<1> QED
  BY <1>2, <1>9, <1>10, SessionwiseFact DEF FinalInv

\* Every step keeps FinalInv and what is shown as final.
LEMMA NextFinal == IInv /\ FinalInv /\ [Next]_vars => FinalInv' /\ ShownKept
<1> SUFFICES ASSUME IInv, FinalInv, [Next]_vars PROVE FinalInv' /\ ShownKept
  OBVIOUS
<1>1. CASE \E s \in Sessions : LearnerStep(s)
  BY <1>1, LearnerFinal
<1>2. CASE \E j \in JobIds : Claim(j) \/ Complete(j)
  BY <1>2, QueueFinal
<1>3. CASE \E j \in JobIds : HandlerStep(j)
  BY <1>3, HandlerFinal
<1>4. CASE \E lost \in SUBSET JobIds : TakeBack(lost)
  BY <1>4, TakeBackFinal
<1>5. CASE ClaimRebuild \/ UNCHANGED vars
  <2>1. UNCHANGED <<sessions, task, state, stage, grants>>
    BY <1>5 DEF ClaimRebuild, vars, business, handlers, queue
  <2>2. \A s \in Sessions : ActiveAnalyses(s)' = ActiveAnalyses(s)
    BY <2>1, SameJobs
  <2>3. \A s \in Sessions : Left(s)
    BY <2>1, <2>2 DEF Left
  <2> QED
    BY <2>1, <2>3, SessionwiseFact DEF FinalInv
<1> QED
  BY <1>1, <1>2, <1>3, <1>4, <1>5 DEF Next

\* FinalInv holds at the beginning.
LEMMA InitFinal == Init => FinalInv
<1> SUFFICES ASSUME Init PROVE FinalInv
  OBVIOUS
<1>1. /\ grants = [j \in JobIds |-> 0] /\ stage = [j \in JobIds |-> "idle"]
      /\ \A s \in Sessions : sessions[s].status = "absent"
  BY DEF Init, Queue!Init, NoSession
<1> QED
  BY <1>1 DEF FinalInv

\* What is kept of a session whose result is final: its verdicts.
LEMMA GradesKept ==
  ASSUME IInv, FinalInv, [Next]_vars, NEW s \in Sessions,
         Shown(s) \in {"completed", "analysis_failed"}, ~Reopened(s)
  PROVE  grades'[s] = grades[s]
<1>1. sessions[s].status \in {"completed", "analysis_failed"}
  BY DEF Shown
<1>2. CASE grades' = grades
  BY <1>2
<1>3. ASSUME NEW x \in Sessions, NEW j \in JobIds,
             \/ RetryAnalysis(x, j)
             \/ \E body \in [Items -> Answers] : Submit(x, body, j)
      PROVE  grades'[s] = grades[s]
  <2>1. EnqueueTx(j, "analyze_practice_session_ai", x) /\ stage' = stage
    BY <1>3 DEF RetryAnalysis, Submit, handlers
  <2>2. state[j] = "unknown" /\ j \in ActiveAnalyses(x)'
    BY <2>1, EnqueuedFact DEF IInv, Enqueued
  <2>3. x # s
    BY <2>2 DEF Reopened
  <2> QED
    BY <1>3, <2>3 DEF RetryAnalysis, Submit, IInv, TypeOK
<1>4. ASSUME NEW j \in JobIds, \/ \E verdict : WriteAnalysis(j, verdict)
                              \/ failBatchAnalysis(j)
      PROVE  grades'[s] = grades[s]
  <2>1. Analyzes(j) /\ stage[j] \in {"started", "asked"}
    BY <1>4 DEF WriteAnalysis, failBatchAnalysis, Guarded
  <2>2. task[j].session # s
    BY <2>1, RunningShowsGrading
  <2> QED
    BY <1>4, <2>2, WriteAnalysisFact, failBatchAnalysisFact
<1>5. ASSUME NEW lost \in SUBSET JobIds, TakeBack(lost) PROVE grades'[s] = grades[s]
  <2>1. grades'[s] = PendingToFailed(grades[s]) \/ grades'[s] = grades[s]
    BY <1>5 DEF TakeBack
  <2>2. PendingIn(grades[s]) = {}
    BY <1>1 DEF IInv, PendingOnlyWhileGrading
  <2>3. /\ grades[s] \in [Items -> Grading]
        /\ \A i \in Items : grades[s][i].status # "pending"
    BY <2>2 DEF PendingIn, IInv, TypeOK
  <2>4. PendingToFailed(grades[s]) = [i \in Items |-> grades[s][i]]
    BY <2>3 DEF PendingToFailed
  <2> QED
    BY <2>1, <2>3, <2>4
<1>6. CASE \E x \in Sessions : LearnerStep(x)
  BY <1>2, <1>3, <1>6 DEF LearnerStep, CreateSession, SaveAnswer, DeleteSession, CreateGeneratedSession
<1>7. CASE \E j \in JobIds : HandlerStep(j)
  BY <1>2, <1>4, <1>7
     DEF HandlerStep, GenerationIsOver, persistGeneratedQuestions, markGenerationFailed, loadBatch, business
<1>8. CASE (\E j \in JobIds : Claim(j) \/ Complete(j)) \/ ClaimRebuild \/ UNCHANGED vars
  BY <1>2, <1>8 DEF Claim, Complete, ClaimRebuild, business, vars
<1> QED
  BY <1>5, <1>6, <1>7, <1>8 DEF Next

\* A completed session stays so, unless its analysis is given up or the learner asks
\* for another one.
LEMMA CompletedKept ==
  ASSUME IInv, FinalInv, [Next]_vars, NEW s \in Sessions, sessions[s].status = "completed", ~Reopened(s)
  PROVE  \/ sessions'[s].status = "completed"
         \/ /\ sessions'[s].status = "analysis_failed"
            /\ \E j \in Analyses(s) : state'[j] = "given up"
<1>1. CASE sessions' = sessions
  BY <1>1
<1>2. sessions \in [Sessions -> Session]
  BY DEF IInv, TypeOK
<1>3. ASSUME NEW x \in Sessions, LearnerStep(x) PROVE sessions'[s].status = "completed"
  <2>1. ASSUME NEW j \in JobIds,
               \/ RetryAnalysis(x, j)
               \/ \E body \in [Items -> Answers] : Submit(x, body, j)
        PROVE  sessions'[s].status = "completed"
    <3>1. EnqueueTx(j, "analyze_practice_session_ai", x) /\ stage' = stage
      BY <2>1 DEF RetryAnalysis, Submit, handlers
    <3>2. state[j] = "unknown" /\ j \in ActiveAnalyses(x)'
      BY <3>1, EnqueuedFact DEF IInv, Enqueued
    <3>3. x # s
      BY <3>2 DEF Reopened
    <3> QED
      BY <1>2, <2>1, <3>3 DEF RetryAnalysis, Submit
  <2>2. CASE \/ CreateSession(x)
             \/ DeleteSession(x)
             \/ \E j \in JobIds : CreateGeneratedSession(x, j)
    <3>1. x = s => DeleteSession(x)
      BY <2>2 DEF CreateSession, CreateGeneratedSession
    <3>2. sessions[s] \in Session
      BY <1>2
    <3>3. CASE x = s
      BY <1>2, <3>1, <3>2, <3>3 DEF DeleteSession, Session
    <3>4. CASE x # s
      BY <1>2, <2>2, <3>4 DEF CreateSession, InsertSession, DeleteSession, CreateGeneratedSession
    <3> QED
      BY <3>3, <3>4
  <2> QED
    BY <1>3, <2>1, <2>2 DEF LearnerStep, SaveAnswer
<1>4. ASSUME NEW j \in JobIds, HandlerStep(j) PROVE sessions'[s].status = "completed"
  <2>1. CASE task[j].session # s
    BY <1>2, <1>4, <2>1
       DEF HandlerStep, GenerationIsOver, persistGeneratedQuestions, markGenerationFailed, loadBatch,
           WriteAnalysis, failBatchAnalysis, business
  <2>2. CASE task[j].session = s /\ Generates(j)
    BY <1>4, <2>2 DEF HandlerStep, GenerationIsOver, persistGeneratedQuestions, markGenerationFailed,
         loadBatch, WriteAnalysis, failBatchAnalysis, Generates, Analyzes, business
  <2>3. CASE task[j].session = s /\ ~Generates(j)
    <3>1. ASSUME NEW results, NEW summary \in {"completed", "failed"}
          PROVE  SetAISummary(CompleteIfDone(sessions[s], results), summary).status = "completed"
      <4>1. CompleteIfDone(sessions[s], results) = sessions[s] /\ sessions[s] \in Session
        BY <1>2 DEF CompleteIfDone
      <4> QED
        BY <4>1 DEF SetAISummary, Session
    <3>2. ASSUME NEW verdict, WriteAnalysis(j, verdict) PROVE sessions'[s].status = "completed"
      <4>1. PICK results : sessions' = [sessions EXCEPT ![s] =
              SetAISummary(CompleteIfDone(sessions[s], results), "completed")]
        BY <2>3, <3>2 DEF WriteAnalysis
      <4> QED
        BY <1>2, <3>1, <4>1
    <3>3. CASE failBatchAnalysis(j)
      <4>1. PICK results : sessions' = [sessions EXCEPT ![s] =
              SetAISummary(CompleteIfDone(sessions[s], results), "failed")]
        BY <2>3, <3>3 DEF failBatchAnalysis
      <4> QED
        BY <1>2, <3>1, <4>1
    <3> QED
      BY <1>1, <1>4, <2>3, <3>2, <3>3 DEF HandlerStep, GenerationIsOver, persistGeneratedQuestions,
           markGenerationFailed, loadBatch, Generates, business
  <2> QED
    BY <2>1, <2>2, <2>3
<1>5. ASSUME NEW lost \in SUBSET JobIds, TakeBack(lost)
      PROVE  \/ sessions'[s].status = "completed"
             \/ /\ sessions'[s].status = "analysis_failed"
                /\ \E j \in Analyses(s) : state'[j] = "given up"
  <2> DEFINE ended(kind) == {task[j].session : j \in {i \in lost : grants[i] = MaxAttempts
                                                            /\ task[i].kind = kind}}
             generation(x) == IF x \in ended("generate_ai_practice_session")
                              THEN GenerationGivenUp(sessions[x]) ELSE sessions[x]
  <2>1. sessions' = [x \in Sessions |-> IF x \in ended("analyze_practice_session_ai")
                                        THEN AnalysisGivenUp(generation(x)) ELSE generation(x)]
    BY <1>5 DEF TakeBack
  <2>2. generation(s) = sessions[s] /\ sessions[s] \in Session
    BY <1>2 DEF GenerationGivenUp
  <2> HIDE DEF generation
  <2>3. CASE s \notin ended("analyze_practice_session_ai")
    BY <2>1, <2>2, <2>3
  <2>4. CASE s \in ended("analyze_practice_session_ai")
    <3>1. PICK j \in lost : /\ grants[j] = MaxAttempts /\ task[j].session = s
                            /\ task[j].kind = "analyze_practice_session_ai"
      BY <2>4
    <3>2. task[j] \in Task /\ j \in JobIds
      BY DEF IInv, TypeOK
    <3>3. j \in Analyses(s)
      BY <3>1, <3>2 DEF Analyses, Task
    <3>4. state'[j] = "given up"
      BY <1>5, <3>1 DEF TakeBack, Queue!TakeBack
    <3>5. sessions'[s] = AnalysisGivenUp(sessions[s])
      BY <2>1, <2>2, <2>4
    <3>6. AnalysisGivenUp(sessions[s]).status = "analysis_failed"
      BY <2>2 DEF AnalysisGivenUp, Session
    <3> QED
      BY <3>3, <3>4, <3>5, <3>6
  <2> QED
    BY <2>3, <2>4
<1>6. CASE (\E j \in JobIds : Claim(j) \/ Complete(j)) \/ ClaimRebuild \/ UNCHANGED vars
  BY <1>1, <1>6 DEF Claim, Complete, ClaimRebuild, business, vars
<1> QED
  BY <1>3, <1>4, <1>5, <1>6 DEF Next

-----------------------------------------------------------------------------
(* The result page                                                         *)

\* A job has its payload from the beginning; before it has none.
KnownInv == \A j \in JobIds : state[j] = "unknown" => task[j] = NoTask

\* Analyses are only added, a reopened session gets one more, and given up is the end.
AnalysesGrow ==
  /\ \A s \in Sessions : Analyses(s) \subseteq Analyses(s)'
  /\ \A s \in Sessions : Reopened(s) => Analyses(s)' # Analyses(s)
  /\ \A j \in JobIds : state[j] = "given up" => state'[j] = "given up"

\* The payload of a job is written once.
LEMMA NextKnown ==
  ASSUME IInv, KnownInv, [Next]_vars
  PROVE  KnownInv' /\ AnalysesGrow
<1>1. \/ \E j \in JobIds, kind \in Enqueued, s \in Sessions :
           EnqueueTx(j, kind, s)
      \/ task' = task /\ \A j \in JobIds : /\ state'[j] = "unknown" => state[j] = "unknown"
                                           /\ state[j] = "given up" => state'[j] = "given up"
  <2>1. CASE \E s \in Sessions : LearnerStep(s)
    BY <2>1 DEF LearnerStep, CreateSession, SaveAnswer, DeleteSession, CreateGeneratedSession, RetryAnalysis,
         Submit, Enqueued, queue
  <2>2. CASE \E j \in JobIds : HandlerStep(j)
    BY <2>2 DEF HandlerStep, GenerationIsOver, persistGeneratedQuestions, markGenerationFailed, loadBatch,
         WriteAnalysis, failBatchAnalysis, Guarded, Queue!Commit, queue
  <2>3. CASE \E j \in JobIds : Claim(j) \/ Complete(j)
    BY <2>3 DEF Claim, Complete, Queue!Grant, Queue!Settle, IInv, JobsInv
  <2>4. CASE \E lost \in SUBSET JobIds : TakeBack(lost)
    BY <2>4 DEF TakeBack, Queue!TakeBack, IInv, JobsInv
  <2>5. CASE ClaimRebuild \/ UNCHANGED vars
    BY <2>5 DEF ClaimRebuild, vars, queue
  <2> QED
    BY <2>1, <2>2, <2>3, <2>4, <2>5 DEF Next
<1>2. ASSUME NEW j \in JobIds, NEW kind \in Enqueued, NEW s \in Sessions, EnqueueTx(j, kind, s)
      PROVE  /\ state[j] = "unknown" /\ state'[j] = "waiting"
             /\ \A k \in JobIds : k # j => task'[k] = task[k] /\ state'[k] = state[k]
  BY <1>2 DEF EnqueueTx, Queue!Submit, IInv, TypeOK, JobsInv
<1>3. KnownInv'
  <2>1. CASE \E j \in JobIds, kind \in Enqueued, s \in Sessions : EnqueueTx(j, kind, s)
    BY <1>2, <2>1 DEF KnownInv
  <2> QED
    BY <1>1, <2>1 DEF KnownInv
<1>4. ASSUME NEW s \in Sessions PROVE Analyses(s) \subseteq Analyses(s)'
  <2>1. ASSUME NEW j \in JobIds, NEW kind \in Enqueued, NEW x \in Sessions, EnqueueTx(j, kind, x)
        PROVE  Analyses(s) \subseteq Analyses(s)'
    <3>1. j \notin Analyses(s)
      BY <1>2, <2>1 DEF KnownInv, NoTask, Analyses
    <3> QED
      BY <1>2, <2>1, <3>1 DEF Analyses
  <2> QED
    BY <1>1, <2>1 DEF Analyses
<1>5. ASSUME NEW s \in Sessions, Reopened(s) PROVE Analyses(s)' # Analyses(s)
  <2>1. PICK j \in JobIds : state[j] = "unknown" /\ j \in ActiveAnalyses(s)'
    BY <1>5 DEF Reopened
  <2>2. j \in Analyses(s)'
    BY <2>1 DEF ActiveAnalyses, Analyses
  <2>3. j \notin Analyses(s)
    BY <2>1 DEF KnownInv, NoTask, Analyses
  <2> QED
    BY <2>2, <2>3
<1>6. \A j \in JobIds : state[j] = "given up" => state'[j] = "given up"
  BY <1>1, <1>2
<1> QED
  BY <1>3, <1>4, <1>5, <1>6 DEF AnalysesGrow

\* The status of the answer is the one the session has, or had before it failed.
StatusRead(s) ==
  \/ /\ page[s].status = sessions[s].status
     /\ sessions[s].status \in {"completed", "analysis_failed"}
  \/ page[s].status = "completed" /\ sessions[s].status = "analysis_failed" /\ GivenUp(s)

\* What an answer has so far is what the session has; from the second read on the
\* result is final.
ReadInv(s) ==
  /\ StatusRead(s)
  /\ page[s].step # "asked" => Shown(s) \in {"completed", "analysis_failed"}
  /\ page[s].step \in {"sums", "shown"} => page[s].results = grades[s]
  /\ page[s].step = "shown" => page[s].counts = Summary(grades[s])

PageInv ==
  /\ page \in [Sessions -> Page]
  /\ \A s \in Sessions : page[s].analyses \subseteq Analyses(s)
  /\ \A s \in Sessions : page[s].step # "polling" /\ page[s].analyses = Analyses(s) => ReadInv(s)

\* There are as many results of each kind as there are items at most.
LEMMA SummaryFact == \A results : Summary(results) \in [Sources -> [ResultStatus -> Nat]]
<1> SUFFICES ASSUME NEW results, NEW source \in Sources, NEW status \in ResultStatus
             PROVE  Cardinality({i \in Items : results[i].source = source
                                             /\ results[i].status = status}) \in Nat
  BY DEF Summary
<1>1. IsFiniteSet({i \in Items : results[i].source = source /\ results[i].status = status})
  BY ItemsAssumption, FS_Subset
<1> QED
  BY <1>1, FS_CardinalityType

\* A page that is given one of these answers keeps its type.
LEMMA PageType ==
  ASSUME IInv, PageInv, NEW s \in Sessions, PageStep(s)
  PROVE  page' \in [Sessions -> Page]
<1>1. /\ sessions[s].status \in SessionStatus /\ grades[s] \in [Items -> Grading]
      /\ Summary(grades[s]) \in [Sources -> [ResultStatus -> Nat]] /\ Analyses(s) \in SUBSET JobIds
      /\ page[s] \in Page /\ page \in [Sessions -> Page]
  BY SummaryFact DEF IInv, TypeOK, Session, Analyses, PageInv
<1>2. Polling \in Page
  BY DEF Polling, Page, SessionStatus, Unread, NoGrading, Grading
<1>3. ASSUME NEW before, NEW after \in Page, Reads(s, before, after) PROVE page' \in [Sessions -> Page]
  BY <1>1, <1>3 DEF Reads
<1>4. CASE SessionMetaForUser(s)
  <2>1. ASSUME NEW step \in {"asked", "rows"}
        PROVE  [Polling EXCEPT !.step = step, !.status = sessions[s].status, !.analyses = Analyses(s)] \in Page
    BY <1>1, <1>2 DEF Page
  <2> QED
    BY <1>3, <1>4, <2>1 DEF SessionMetaForUser
<1>5. CASE HasPendingAIJobs(s) \/ ResultRows(s) \/ Sums(s)
  <2>1. /\ [page[s] EXCEPT !.step = "rows"] \in Page
        /\ [page[s] EXCEPT !.step = "sums", !.results = grades[s]] \in Page
        /\ [page[s] EXCEPT !.step = "shown", !.counts = Summary(grades[s])] \in Page
    BY <1>1 DEF Page
  <2> QED
    BY <1>3, <1>5, <2>1 DEF HasPendingAIJobs, ResultRows, Sums
<1>6. CASE KeepsPolling(s)
  BY <1>1, <1>2, <1>6 DEF KeepsPolling
<1> QED
  BY <1>4, <1>5, <1>6 DEF PageStep

\* What happens to the sessions while a page reads keeps what the page has read true.
LEMMA PageKept ==
  ASSUME IInv, FinalInv, KnownInv, PageInv, [Next]_vars, page' = page
  PROVE  PageInv'
<1>1. AnalysesGrow /\ ShownKept
  BY NextKnown, NextFinal
<1>2. page' \in [Sessions -> Page] /\ \A s \in Sessions : page'[s].analyses \subseteq Analyses(s)'
  BY <1>1 DEF PageInv, AnalysesGrow
<1>3. ASSUME NEW s \in Sessions, page[s].step # "polling", page[s].analyses = Analyses(s)'
      PROVE  ReadInv(s)'
  <2>1. Analyses(s)' = Analyses(s) /\ ~Reopened(s)
    BY <1>1, <1>3 DEF PageInv, AnalysesGrow
  <2>2. ReadInv(s)
    BY <1>3, <2>1 DEF PageInv
  <2>3. GivenUp(s) => GivenUp(s)'
    BY <1>1, <1>3 DEF GivenUp, AnalysesGrow, Analyses
  <2>4. Shown(s) \in {"completed", "analysis_failed"} => Shown(s)' = Shown(s) /\ grades'[s] = grades[s]
    BY <1>1, <2>1, GradesKept DEF ShownKept
  <2>5. StatusRead(s)'
    <3>1. CASE sessions[s].status = "analysis_failed"
      <4>1. sessions'[s].status = "analysis_failed"
        BY <2>4, <3>1 DEF Shown
      <4> QED
        BY <2>2, <2>3, <3>1, <4>1 DEF ReadInv, StatusRead
    <3>2. CASE sessions[s].status = "completed"
      <4>1. page[s].status = "completed"
        BY <2>2, <3>2 DEF ReadInv, StatusRead
      <4>2. CASE sessions'[s].status = "completed"
        BY <4>1, <4>2 DEF StatusRead
      <4>3. ASSUME sessions'[s].status = "analysis_failed", \E j \in Analyses(s) : state'[j] = "given up"
            PROVE  StatusRead(s)'
        <5>1. GivenUp(s)'
          BY <1>3, <2>1, <4>3 DEF GivenUp
        <5> QED
          BY <4>1, <4>3, <5>1 DEF StatusRead
      <4> QED
        BY <2>1, <3>2, <4>2, <4>3, CompletedKept
    <3> QED
      BY <2>2, <3>1, <3>2 DEF ReadInv, StatusRead
  <2> QED
    BY <2>2, <2>4, <2>5 DEF ReadInv
<1> QED
  BY <1>2, <1>3 DEF PageInv

\* A page that reads: each statement finds the session as the ones before it did.
LEMMA PageReads ==
  ASSUME IInv, PageInv, NEW s \in Sessions, PageStep(s), UNCHANGED vars
  PROVE  PageInv'
<1>1. /\ UNCHANGED <<sessions, grades, task, state>>
      /\ \A x \in Sessions : Analyses(x)' = Analyses(x) /\ Shown(x)' = Shown(x)
  BY DEF vars, business, queue, Analyses, ActiveAnalyses, Shown
<1>2. page' \in [Sessions -> Page] /\ \A x \in Sessions : x # s => page'[x] = page[x]
  BY PageType DEF PageInv, PageStep, SessionMetaForUser, HasPendingAIJobs, ResultRows, Sums, KeepsPolling, Reads
<1>3. ASSUME NEW x \in Sessions, x # s
      PROVE  /\ page'[x].analyses \subseteq Analyses(x)'
             /\ page'[x].step # "polling" /\ page'[x].analyses = Analyses(x)' => ReadInv(x)'
  <2>1. page'[x] = page[x] /\ sessions'[x] = sessions[x] /\ grades'[x] = grades[x] /\ state' = state
    BY <1>1, <1>2, <1>3
  <2>2. GivenUp(x) => GivenUp(x)'
    BY <2>1 DEF GivenUp
  <2>3. StatusRead(x) => StatusRead(x)'
    BY <2>1, <2>2 DEF StatusRead
  <2>4. ReadInv(x) => ReadInv(x)'
    BY <1>1, <2>1, <2>3 DEF ReadInv
  <2> QED
    BY <1>1, <2>1, <2>4 DEF PageInv
<1>4. ASSUME NEW before, NEW after, Reads(s, before, after)
      PROVE  page[s].step = before /\ page'[s] = after
  BY <1>4 DEF Reads, PageInv
<1>5. CASE KeepsPolling(s)
  BY <1>1, <1>2, <1>3, <1>5 DEF KeepsPolling, PageInv, Polling
<1>6. CASE SessionMetaForUser(s)
  <2>1. /\ sessions[s].status \in {"completed", "analysis_failed"}
        /\ page'[s] = [Polling EXCEPT !.step = IF sessions[s].status = "completed" THEN "asked" ELSE "rows",
                                      !.status = sessions[s].status, !.analyses = Analyses(s)]
    BY <1>4, <1>6 DEF SessionMetaForUser
  <2>2. /\ page'[s].step = IF sessions[s].status = "completed" THEN "asked" ELSE "rows"
        /\ page'[s].status = sessions[s].status /\ page'[s].analyses = Analyses(s)
    BY <2>1 DEF Polling
  <2>3. ReadInv(s)'
    BY <1>1, <2>1, <2>2 DEF ReadInv, StatusRead, Shown
  <2> QED
    BY <1>1, <1>2, <1>3, <2>2, <2>3 DEF PageInv
<1>7. ASSUME page[s].step # "polling", page'[s].status = page[s].status,
             page'[s].analyses = page[s].analyses,
             ReadInv(s) => /\ page'[s].step # "asked" => Shown(s) \in {"completed", "analysis_failed"}
                           /\ page'[s].step \in {"sums", "shown"} => page'[s].results = grades[s]
                           /\ page'[s].step = "shown" => page'[s].counts = Summary(grades[s])
      PROVE  PageInv'
  <2>1. GivenUp(s) => GivenUp(s)'
    BY <1>1, <1>7 DEF GivenUp
  <2>2. StatusRead(s) => StatusRead(s)'
    BY <1>1, <1>7, <2>1 DEF StatusRead
  <2>3. Summary(grades[s])' = Summary(grades[s])
    BY <1>1 DEF Summary
  <2>4. ReadInv(s) => ReadInv(s)'
    BY <1>1, <1>7, <2>2, <2>3 DEF ReadInv
  <2> QED
    BY <1>1, <1>2, <1>3, <1>7, <2>4 DEF PageInv
<1>8. CASE HasPendingAIJobs(s)
  <2>1. page[s].step = "asked" /\ page'[s] = [page[s] EXCEPT !.step = "rows"] /\ ActiveAnalyses(s) = {}
    BY <1>4, <1>8 DEF HasPendingAIJobs
  <2>2. page'[s].step = "rows" /\ page'[s].status = page[s].status /\ page'[s].analyses = page[s].analyses
    BY <2>1
  <2>3. ReadInv(s) => Shown(s) \in {"completed", "analysis_failed"}
    BY <2>1 DEF ReadInv, StatusRead, Shown
  <2> QED
    BY <1>7, <2>1, <2>2, <2>3
<1>9. CASE ResultRows(s)
  <2>1. page[s].step = "rows" /\ page'[s] = [page[s] EXCEPT !.step = "sums", !.results = grades[s]]
    BY <1>4, <1>9 DEF ResultRows
  <2>2. /\ page'[s].step = "sums" /\ page'[s].results = grades[s]
        /\ page'[s].status = page[s].status /\ page'[s].analyses = page[s].analyses
    BY <2>1
  <2> QED
    BY <1>7, <2>1, <2>2 DEF ReadInv
<1>10. CASE Sums(s)
  <2>1. /\ page[s].step = "sums"
        /\ page'[s] = [page[s] EXCEPT !.step = "shown", !.counts = Summary(grades[s])]
    BY <1>4, <1>10 DEF Sums
  <2>2. /\ page'[s].step = "shown" /\ page'[s].results = page[s].results
        /\ page'[s].counts = Summary(grades[s])
        /\ page'[s].status = page[s].status /\ page'[s].analyses = page[s].analyses
    BY <2>1
  <2> QED
    BY <1>7, <2>1, <2>2 DEF ReadInv
<1> QED
  BY <1>5, <1>6, <1>8, <1>9, <1>10 DEF PageStep

\* A page that stopped polling was right to: while the learner asks for no other
\* analysis, what it shows is final, although it was read with four statements.
THEOREM ShownIsFinalHolds == PageSpec => []ShownIsFinal
<1>1. PageSpec => Spec
  <2>1. PageNext \/ UNCHANGED pageVars => [Next]_vars
    BY DEF PageNext, pageVars
  <2> QED
    BY <2>1, PTL DEF PageSpec, PageInit, Spec
<1>2. PageInit => FinalInv /\ KnownInv /\ PageInv
  <2>1. Polling \in Page
    BY DEF Polling, Page, SessionStatus, Unread, NoGrading, Grading, Sources, ResultStatus
  <2>2. PageInit => KnownInv /\ PageInv
    BY <2>1 DEF Init, KnownInv, PageInit, PageInv, Polling
  <2> QED
    BY <2>2, InitFinal DEF PageInit
<1>3. IInv /\ FinalInv /\ KnownInv /\ PageInv /\ [PageNext]_pageVars => (FinalInv /\ KnownInv /\ PageInv)'
  <2> SUFFICES ASSUME IInv, FinalInv, KnownInv, PageInv, [PageNext]_pageVars
               PROVE  (FinalInv /\ KnownInv /\ PageInv)'
    OBVIOUS
  <2>1. [Next]_vars
    BY DEF PageNext, pageVars
  <2>2. PageInv'
    BY <2>1, PageKept, PageReads DEF PageNext, pageVars
  <2> QED
    BY <2>1, <2>2, NextFinal, NextKnown
<1>4. IInv /\ FinalInv /\ PageInv => ShownIsFinal
  <2> SUFFICES ASSUME IInv, FinalInv, PageInv, NEW s \in Sessions,
                      page[s].step = "shown", page[s].analyses = Analyses(s)
               PROVE  /\ page[s].results = grades[s]
                      /\ page[s].counts = Summary(page[s].results)
                      /\ PendingIn(page[s].results) = {}
                      /\ \A j \in ActiveAnalyses(s) : stage[j] = "refused"
                      /\ StatusRead(s)
    BY DEF ShownIsFinal, StatusRead
  <2>1. ReadInv(s)
    BY DEF PageInv
  <2>2. PendingIn(grades[s]) = {}
    BY <2>1 DEF ReadInv, StatusRead, IInv, PendingOnlyWhileGrading
  <2>3. \A j \in ActiveAnalyses(s) : stage[j] = "refused"
    BY <2>1 DEF ReadInv, StatusRead, Shown, FinalInv
  <2> QED
    BY <2>1, <2>2, <2>3 DEF ReadInv
<1> QED
  BY IInvHolds, <1>1, <1>2, <1>3, <1>4, PTL DEF PageSpec

=============================================================================
