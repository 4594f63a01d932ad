---------------------------- MODULE LearningMemory ----------------------------
(***************************************************************************)
(* The learning memory of one account: knowledge statistics, review plan   *)
(* and AI advice, all derived from the grading results (internal/learning). *)
(*                                                                         *)
(* A transaction that commits a grading result also queues a rebuild,      *)
(* unless one is queued already.  A rebuild replaces the statistics in one *)
(* transaction, under the lock of the account's memory row, and the review *)
(* plan in a second one, without it.  The learner may delete the memory or *)
(* mark a question as mastered at any moment.                              *)
(*                                                                         *)
(* Each result stands for a wrong answer of a question of its own, so a    *)
(* plan is known by the results it was computed from; how answers of one   *)
(* question add up is the subject of ReviewPlan.  What the AI is asked and *)
(* how its jobs are retried is in PracticeSession.  The recovery that runs *)
(* before a rebuild (RecoverAIGeneratedObjectiveGrades) is left out: it    *)
(* grades again what an older version failed to grade although the answers *)
(* of the generated question were stored; a submission now grades by them. *)
(***************************************************************************)
EXTENDS Naturals

CONSTANTS
  Results,      \* grading results the account may get
  ByAI,         \* those of them that stay pending until the AI has judged them
  JobIds,       \* rebuild jobs that may be enqueued, in that order
  MaxAttempts,  \* jobs.max_attempts
  MaxTime       \* bound: timestamps that are handed out

ASSUME ResultsAssumption == ByAI \subseteq Results
ASSUME JobsAssumption == JobIds \subseteq Nat /\ MaxAttempts \in Nat \ {0} /\ MaxTime \in Nat

VARIABLES
  clock,       \* the last timestamp now() returned
  facts,       \* grading_results: none, pending or graded
  since,       \* submitted_at of the session of a result
  open,        \* transactions that are about to commit a result
  resetAt,     \* user_learning_memory.reset_at; 0 when the memory was never deleted
  reset,       \* the reset_at of a deletion that has begun; 0 when there is none
  stats,       \* user_knowledge_stats: the results they count
  reviews,     \* user_question_reviews
  advice,      \* the results the AI advice is about
  rebuilding,  \* what the handler of a rebuild has done and read
  analysis,    \* what the analysis that will judge a result has read
  due,         \* for each result the rebuilds that were queued when it, or the
               \* last deletion of the memory, was committed (history)
  state, grants, committed   \* the rebuild jobs, as JobContract sees them

memory == <<resetAt, reset, stats, reviews, advice>>
results == <<clock, facts, since, open>>
queue == <<state, grants, committed>>
vars == <<results, memory, rebuilding, analysis, due, queue>>

Queue == INSTANCE JobContract WITH Jobs <- JobIds, Limit <- MaxAttempts

Time == 0..MaxTime

NoTx == [for |-> "nothing", inserts |-> {}, advises |-> "no"]
Tx == [for : {"nothing", "submission", "analysis"}, inserts : SUBSET JobIds, advises : {"no", "yes"}]

NotRunning == [step |-> "idle", found |-> {}, mastered |-> {}]
Rebuild == [step : {"idle", "claimed", "counting", "counted", "read", "marked", "replaced"},
            found : SUBSET Results, mastered : SUBSET Results]

NotAnalyzed == [step |-> "idle", resetAt |-> 0, about |-> {}]
Analysis == [step : {"idle", "begun", "refreshed", "asked"}, resetAt : Time, about : SUBSET Results]

Init ==
  /\ clock = 0
  /\ facts = [r \in Results |-> "none"]
  /\ since = [r \in Results |-> 0]
  /\ open = [r \in Results |-> NoTx]
  /\ resetAt = 0 /\ reset = 0
  /\ stats = {}
  /\ reviews = [r \in Results |-> "none"]
  /\ advice = {}
  /\ rebuilding = [j \in JobIds |-> NotRunning]
  /\ analysis = [r \in Results |-> NotAnalyzed]
  /\ due = [r \in Results |-> {}]
  /\ Queue!Init

-----------------------------------------------------------------------------
(* Shared                                                                  *)

Waiting == {j \in JobIds : state[j] = "waiting"}
Inserted == UNION {open[r].inserts : r \in Results}

\* The results a derived table is computed from: valid ones submitted after the reset.
Counted == {r \in Results : facts[r] = "graded" /\ since[r] > resetAt}

NeverLocked == FALSE

\* A rebuild locks the memory row while it counts; an analysis that writes advice
\* from there to its commit.
MemoryLocked ==
  \/ \E j \in JobIds : rebuilding[j].step = "counting"
  \/ \E r \in Results : open[r].advises = "yes"

NextJob(j) ==
  /\ state[j] = "unknown"
  /\ \A i \in JobIds : i < j => state[i] # "unknown"

AlwaysInserting(inserts) ==
  /\ Inserted = {}
  /\ \E j \in JobIds : NextJob(j) /\ inserts = {j}

\* EnqueueUserLearningRebuildTx: the unique index lets one queued rebuild exist.  An
\* insert that is not committed yet makes the next one wait; one that is, is only
\* noticed, not locked, so it can be claimed before this transaction commits.
EnqueueRebuild(inserts) ==
  /\ Inserted = {}
  /\ IF Waiting # {} THEN inserts = {}
     ELSE \E j \in JobIds : NextJob(j) /\ inserts = {j}

-----------------------------------------------------------------------------
(* Transactions that commit grading results                                *)

\* Submit has graded the session and queued the rebuild; its commit is next.
Submit(r, inserts) ==
  /\ facts[r] = "none" /\ open[r] = NoTx /\ clock < MaxTime
  /\ EnqueueRebuild(inserts)
  /\ clock' = clock + 1
  /\ since' = [since EXCEPT ![r] = clock']
  /\ open' = [open EXCEPT ![r] = [NoTx EXCEPT !.for = "submission", !.inserts = inserts]]
  /\ UNCHANGED <<facts, memory, rebuilding, analysis, due, queue>>

AnyReset(r) == TRUE

SameReset(r) == analysis[r].resetAt = resetAt

\* WriteAIAdviceTx, in an analysis that was asked for advice: it writes nothing when
\* the memory was deleted after the analysis began.
Advises(r, wanted) == IF wanted = "yes" /\ SameReset(r) THEN "yes" ELSE "no"

\* The analysis has judged the result, written the advice and queued the rebuild.
WriteAnalysis(r, wanted, inserts) ==
  /\ analysis[r].step = "asked" /\ open[r] = NoTx
  /\ wanted = "yes" => ~MemoryLocked
  /\ EnqueueRebuild(inserts)
  /\ open' = [open EXCEPT ![r] =
       [for |-> "analysis", inserts |-> inserts, advises |-> Advises(r, wanted)]]
  /\ UNCHANGED <<clock, facts, since, memory, rebuilding, analysis, due, queue>>

Commit(r) ==
  /\ open[r].for # "nothing"
  /\ facts' = [facts EXCEPT ![r] =
       IF open[r].for = "submission" /\ r \in ByAI THEN "pending" ELSE "graded"]
  /\ advice' = IF open[r].advises = "yes" THEN analysis[r].about ELSE advice
  /\ analysis' = [analysis EXCEPT ![r] = NotAnalyzed]
  /\ state' = [j \in JobIds |-> IF j \in open[r].inserts THEN "waiting" ELSE state[j]]
  /\ due' = [due EXCEPT ![r] = {j \in JobIds : state'[j] = "waiting"}]
  /\ open' = [open EXCEPT ![r] = NoTx]
  /\ UNCHANGED <<clock, since, resetAt, reset, stats, reviews, rebuilding, grants, committed>>

\* The commit fails, or the process is gone.
Rollback(r) ==
  /\ open[r].for # "nothing"
  /\ since' = [since EXCEPT ![r] = IF open[r].for = "submission" THEN 0 ELSE since[r]]
  /\ open' = [open EXCEPT ![r] = NoTx]
  /\ analysis' = [analysis EXCEPT ![r] = NotAnalyzed]
  /\ UNCHANGED <<clock, facts, memory, rebuilding, due, queue>>

-----------------------------------------------------------------------------
(* What an analysis reads before it asks the AI                            *)

\* sessionMemoryContext.
BeginAnalysis(r) ==
  /\ facts[r] = "pending" /\ analysis[r].step = "idle"
  /\ analysis' = [analysis EXCEPT ![r] = [NotAnalyzed EXCEPT !.step = "begun", !.resetAt = resetAt]]
  /\ UNCHANGED <<results, memory, rebuilding, due, queue>>

\* RebuildUserStats, so that the AI sees the statistics of this session.
RefreshStats(r) ==
  /\ analysis[r].step = "begun" /\ ~MemoryLocked
  /\ stats' = Counted
  /\ analysis' = [analysis EXCEPT ![r] = [analysis[r] EXCEPT !.step = "refreshed"]]
  /\ UNCHANGED <<results, resetAt, reset, reviews, advice, rebuilding, due, queue>>

\* MemorySnapshotForAI: totals from the results, weak points from the statistics.
MemorySnapshotForAI(r) ==
  /\ analysis[r].step = "refreshed"
  /\ analysis' = [analysis EXCEPT ![r] =
       [analysis[r] EXCEPT !.step = "asked", !.about = Counted \cup stats]]
  /\ UNCHANGED <<results, memory, rebuilding, due, queue>>

\* The attempt fails or loses its lease; a later one begins anew.
AbandonAnalysis(r) ==
  /\ analysis[r].step # "idle" /\ open[r] = NoTx
  /\ analysis' = [analysis EXCEPT ![r] = NotAnalyzed]
  /\ UNCHANGED <<results, memory, rebuilding, due, queue>>

-----------------------------------------------------------------------------
(* The rebuild                                                             *)

Step(j, before, after) ==
  /\ rebuilding[j].step = before
  /\ rebuilding' = [rebuilding EXCEPT ![j] = [rebuilding[j] EXCEPT !.step = after]]

Claim(j) ==
  /\ Queue!Grant(j)
  /\ Step(j, "idle", "claimed")
  /\ UNCHANGED <<results, memory, analysis, due>>

\* RebuildUserStatsTx, up to the statement that counts.
CountStats(j) ==
  /\ rebuilding[j].step = "claimed" /\ state[j] = "granted"
  /\ ~MemoryLocked
  /\ rebuilding' = [rebuilding EXCEPT ![j] =
       [rebuilding[j] EXCEPT !.step = "counting", !.found = Counted]]
  /\ UNCHANGED <<results, memory, analysis, due, queue>>

\* ... and its commit.
ReplaceStats(j) ==
  /\ Step(j, "counting", "counted")
  /\ stats' = rebuilding[j].found
  /\ Queue!Commit(j)
  /\ UNCHANGED <<results, resetAt, reset, reviews, advice, analysis, due>>

\* RebuildQuestionReviews: first the results,
ReadResults(j) ==
  /\ rebuilding[j].step = "counted" /\ state[j] = "granted"
  /\ rebuilding' = [rebuilding EXCEPT ![j] =
       [rebuilding[j] EXCEPT !.step = "read", !.found = Counted]]
  /\ UNCHANGED <<results, memory, analysis, due, queue>>

\* then the marks of the learner,
ReadMastery(j) ==
  /\ rebuilding[j].step = "read"
  /\ rebuilding' = [rebuilding EXCEPT ![j] =
       [rebuilding[j] EXCEPT !.step = "marked",
                             !.mastered = {r \in Results : reviews[r] = "mastered"}]]
  /\ UNCHANGED <<results, memory, analysis, due, queue>>

\* and at last the rows, all at once.
ReplaceReviews(j) ==
  /\ Step(j, "marked", "replaced")
  /\ reviews' = [r \in Results |-> IF r \notin rebuilding[j].found THEN "none"
                                   ELSE IF r \in rebuilding[j].mastered THEN "mastered"
                                   ELSE "planned"]
  /\ Queue!Commit(j)
  /\ UNCHANGED <<results, resetAt, reset, stats, advice, analysis, due>>

Complete(j) ==
  /\ rebuilding[j].step = "replaced"
  /\ Queue!Settle(j)
  /\ rebuilding' = [rebuilding EXCEPT ![j] = NotRunning]
  /\ UNCHANGED <<results, memory, analysis, due>>

\* The attempt fails or its lease runs out.  The unique index admits the row to the
\* queue only when no other rebuild is there.
TakeBack(j) ==
  /\ Queue!TakeBack({j})
  /\ grants[j] # MaxAttempts => Waiting \cup Inserted = {}
  /\ rebuilding' = [rebuilding EXCEPT ![j] = NotRunning]
  /\ UNCHANGED <<results, memory, analysis, due>>

-----------------------------------------------------------------------------
(* The learner                                                             *)

\* now() is the time at which the transaction of DeleteMemory began.
BeginDeleteMemory ==
  /\ reset = 0 /\ clock < MaxTime
  /\ clock' = clock + 1
  /\ reset' = clock'
  /\ UNCHANGED <<facts, since, open, resetAt, stats, reviews, advice, rebuilding, analysis, due, queue>>

DeleteMemory ==
  /\ reset # 0 /\ ~MemoryLocked
  /\ resetAt' = reset
  /\ reset' = 0
  /\ stats' = {}
  /\ reviews' = [r \in Results |-> "none"]
  /\ advice' = {}
  /\ due' = [r \in Results |-> due[r] \cap Waiting]
  /\ UNCHANGED <<results, rebuilding, analysis, queue>>

MarkQuestionMastered(r) ==
  /\ reviews[r] = "planned"
  /\ reviews' = [reviews EXCEPT ![r] = "mastered"]
  /\ UNCHANGED <<results, resetAt, reset, stats, advice, rebuilding, analysis, due, queue>>

UnmarkQuestionMastered(r) ==
  /\ reviews[r] = "mastered"
  /\ reviews' = [reviews EXCEPT ![r] = "planned"]
  /\ UNCHANGED <<results, resetAt, reset, stats, advice, rebuilding, analysis, due, queue>>

-----------------------------------------------------------------------------
(* The specification                                                       *)

ResultStep(r) ==
  \/ \E inserts \in {{}} \cup {{j} : j \in JobIds} :
       Submit(r, inserts) \/ \E wanted \in {"no", "yes"} : WriteAnalysis(r, wanted, inserts)
  \/ Commit(r) \/ Rollback(r)
  \/ BeginAnalysis(r) \/ RefreshStats(r) \/ MemorySnapshotForAI(r) \/ AbandonAnalysis(r)

RebuildStep(j) ==
  \/ Claim(j) \/ CountStats(j) \/ ReplaceStats(j)
  \/ ReadResults(j) \/ ReadMastery(j) \/ ReplaceReviews(j)
  \/ Complete(j) \/ TakeBack(j)

Next ==
  \/ \E r \in Results : ResultStep(r) \/ MarkQuestionMastered(r) \/ UnmarkQuestionMastered(r)
  \/ \E j \in JobIds : RebuildStep(j)
  \/ BeginDeleteMemory \/ DeleteMemory

Spec == Init /\ [][Next]_vars

-----------------------------------------------------------------------------
(* Properties                                                              *)

\* Every variable has its type, and at most one rebuild is queued, as the unique
\* index demands.
TypeOK ==
  /\ \A i, j \in Waiting : i = j
  /\ clock \in Time /\ resetAt \in Time /\ reset \in Time
  /\ facts \in [Results -> {"none", "pending", "graded"}]
  /\ since \in [Results -> Time]
  /\ open \in [Results -> Tx]
  /\ stats \subseteq Results /\ advice \subseteq Results
  /\ reviews \in [Results -> {"none", "planned", "mastered"}]
  /\ rebuilding \in [JobIds -> Rebuild]
  /\ analysis \in [Results -> Analysis]
  /\ due \in [Results -> SUBSET JobIds]

SettledRebuildOwes(r) ==
  r \in Counted /\ \E j \in due[r] : state[j] = "settled"

\* A result that was committed while a rebuild was queued is in the statistics when
\* that rebuild has ended, whatever other rebuilds, analyses and deletions of the
\* memory ran at the same time.
StatsCountTheirDue == \A r \in Results : SettledRebuildOwes(r) => r \in stats

\* No rebuild brings back what DeleteMemory took out of the statistics (the comment
\* on the row lock in RebuildUserStatsTx).
StatsForgetTheReset == \A r \in stats : since[r] > resetAt

\* No analysis brings back advice about what was deleted while the AI was asked
\* (WriteAIAdviceTx).
AdviceForgetsTheReset == \A r \in advice : since[r] > resetAt

\* What is deleted stays deleted, whatever was counted or asked before.
MemoryForgetsTheReset == StatsForgetTheReset /\ AdviceForgetsTheReset

\* "When the queue is drained the counts are right, without a new session."
DrainedMeansCounted ==
  (\A j \in JobIds : state[j] \in {"unknown", "settled"}) /\ reset = 0 => Counted \subseteq stats

\* "The plan is rebuilt with the reset", "an old task must not cross the reset."
ReviewsForgetTheReset == \A r \in Results : reviews[r] # "none" => since[r] > resetAt

=============================================================================
