------------------------ MODULE LearningMemoryProofs ------------------------
(***************************************************************************)
(* What holds of the learning memory for any number of results, rebuilds   *)
(* and deletions.                                                          *)
(***************************************************************************)
EXTENDS LearningMemory, TLAPS

-----------------------------------------------------------------------------
(* The inductive invariant                                                 *)

JobStates == {"unknown", "waiting", "granted", "settled", "given up"}

\* A queued rebuild, and one that an open transaction has inserted, is the only one.
Queued(j) == state[j] = "waiting" \/ \E r \in Results : j \in open[r].inserts

QueueInv ==
  /\ state \in [JobIds -> JobStates]
  /\ \A r \in Results : \A j \in open[r].inserts : state[j] = "unknown"
  /\ \A x, y \in Results : open[x].inserts # {} /\ open[y].inserts # {} => x = y
  /\ \A i, j \in JobIds : Queued(i) /\ Queued(j) => i = j

\* Only a granted rebuild has a handler.
JobsInv == \A j \in JobIds : rebuilding[j].step # "idle" => state[j] = "granted"

\* A deletion is later than the one before it, and none is in the future.
ResetInv ==
  /\ resetAt <= clock /\ reset <= clock
  /\ reset # 0 => resetAt < reset

\* A submission that has not been committed has left no result; an analysis that is
\* about to commit has asked the AI.
OpenInv ==
  \A r \in Results :
    /\ open[r].for = "submission" => facts[r] = "none"
    /\ open[r].for = "analysis" => analysis[r].step = "asked"
    /\ open[r].advises = "yes" => open[r].for = "analysis"

\* What a set of results counts has been graded after the moment.
After(found, moment) == \A r \in found : facts[r] = "graded" /\ since[r] > moment

StatsInv == After(stats, resetAt)

AdviceInv == After(advice, resetAt)

\* Under the lock of the memory row no deletion comes between counting and writing.
CountingInv ==
  \A j \in JobIds : rebuilding[j].step = "counting" => After(rebuilding[j].found, resetAt)

\* What the AI was asked about is later than the deletion the analysis knows of; what
\* is about to be written as advice knows of the last one.
AskedInv ==
  \A r \in Results :
    /\ analysis[r].resetAt <= resetAt
    /\ After(analysis[r].about, analysis[r].resetAt)
    /\ open[r].advises = "yes" => analysis[r].resetAt = resetAt

\* One rebuild counts at a time.
OneCounts ==
  \A j, k \in JobIds : rebuilding[j].step = "counting" /\ rebuilding[k].step = "counting" => j = k

\* The rebuild has written what it counted.
HasCounted(j) ==
  rebuilding[j].step \in {"counted", "read", "marked", "replaced"} \/ state[j] = "settled"

\* A rebuild that owes a result finds it when it counts; once it has written it, the
\* result is in the statistics, and in what any other rebuild is about to write.
DueInv ==
  \A r \in Results : \A j \in due[r] : r \in Counted =>
    /\ rebuilding[j].step = "counting" => r \in rebuilding[j].found
    /\ HasCounted(j) => /\ r \in stats
                        /\ \A k \in JobIds : rebuilding[k].step = "counting" => r \in rebuilding[k].found

\* What the variables hold, without what only QueueInv tells of them.
Typed ==
  /\ clock \in Time /\ resetAt \in Time /\ reset \in Time
  /\ facts \in [Results -> {"none", "pending", "graded"}]
  /\ since \in [Results -> Time]
  /\ open \in [Results -> Tx]
  /\ stats \subseteq Results /\ advice \subseteq Results
  /\ reviews \in [Results -> {"none", "planned", "mastered"}]
  /\ rebuilding \in [JobIds -> Rebuild]
  /\ analysis \in [Results -> Analysis]
  /\ due \in [Results -> SUBSET JobIds]

IInv ==
  /\ Typed /\ QueueInv /\ JobsInv /\ ResetInv /\ OpenInv
  /\ StatsInv /\ AdviceInv /\ CountingInv /\ AskedInv
  /\ OneCounts /\ DueInv

-----------------------------------------------------------------------------
(* Steps of an analysis before it writes                                   *)

\* An analysis moves on, and may replace the statistics by what is counted now.
LEMMA AnalysisMoves ==
  ASSUME IInv, NEW r \in Results, open[r].for # "analysis",
         analysis' \in [Results -> Analysis],
         \A x \in Results : x # r => analysis'[x] = analysis[x],
         analysis'[r].resetAt <= resetAt, After(analysis'[r].about, analysis'[r].resetAt),
         stats' = stats \/ (stats' = Counted /\ ~MemoryLocked),
         UNCHANGED <<results, resetAt, reset, reviews, advice, rebuilding, due, queue>>
  PROVE  IInv'
<1>1. UNCHANGED <<clock, facts, since, open, resetAt, reset, reviews, advice, rebuilding, due, state>>
  BY DEF results, queue
<1>2. Counted \subseteq Results /\ After(Counted, resetAt)
  BY DEF Counted, After
<1>3. Typed'
  BY <1>1, <1>2 DEF IInv, Typed
<1>4. QueueInv' /\ JobsInv' /\ ResetInv' /\ OneCounts'
  BY <1>1 DEF IInv, QueueInv, Queued, JobsInv, ResetInv, OneCounts
<1>5. OpenInv'
  BY <1>1 DEF IInv, OpenInv
<1>6. StatsInv'
  BY <1>1, <1>2 DEF IInv, StatsInv, After
<1>7. AdviceInv' /\ CountingInv'
  BY <1>1 DEF IInv, AdviceInv, CountingInv, After
<1>8. AskedInv'
  <2> SUFFICES ASSUME NEW x \in Results
               PROVE  /\ analysis'[x].resetAt <= resetAt
                      /\ After(analysis'[x].about, analysis'[x].resetAt)
                      /\ open[x].advises = "yes" => analysis'[x].resetAt = resetAt
    BY <1>1 DEF AskedInv, After
  <2>1. CASE x = r
    BY <2>1 DEF IInv, OpenInv
  <2>2. CASE x # r
    <3>1. analysis'[x] = analysis[x]
      BY <2>2
    <3> QED
      BY <3>1 DEF IInv, AskedInv
  <2> QED
    BY <2>1, <2>2
<1>9. DueInv'
  <2>1. Counted' = Counted /\ \A j \in JobIds : HasCounted(j)' = HasCounted(j)
    BY <1>1 DEF Counted, HasCounted
  <2>2. CASE stats' = stats
    BY <1>1, <2>1, <2>2 DEF IInv, DueInv, Typed
  <2>3. CASE stats' = Counted /\ ~MemoryLocked
    BY <1>1, <2>1, <2>3 DEF IInv, DueInv, Typed, MemoryLocked
  <2> QED
    BY <2>2, <2>3
<1> QED
  BY <1>3, <1>4, <1>5, <1>6, <1>7, <1>8, <1>9 DEF IInv

\* The steps of an analysis before it writes.
LEMMA AnalysisSteps ==
  ASSUME IInv, NEW r \in Results,
         BeginAnalysis(r) \/ RefreshStats(r) \/ MemorySnapshotForAI(r) \/ AbandonAnalysis(r)
  PROVE  IInv'
<1>0. /\ analysis[r] \in Analysis /\ NotAnalyzed \in Analysis
      /\ analysis[r].resetAt \in Nat /\ resetAt \in Nat /\ resetAt \in Time
      /\ Counted \subseteq Results /\ After(Counted, resetAt)
  BY JobsAssumption DEF IInv, Typed, Analysis, NotAnalyzed, Time, Counted, After
<1>1. CASE BeginAnalysis(r)
  <2> DEFINE a == [NotAnalyzed EXCEPT !.step = "begun", !.resetAt = resetAt]
  <2>1. a \in Analysis /\ a.resetAt = resetAt /\ a.about = {}
    BY <1>0 DEF Analysis, NotAnalyzed
  <2> HIDE DEF a
  <2>2. /\ analysis[r].step = "idle" /\ analysis' = [analysis EXCEPT ![r] = a]
        /\ UNCHANGED <<results, memory, rebuilding, due, queue>>
    BY <1>1 DEF BeginAnalysis, a
  <2>3. open[r].for # "analysis"
    BY <2>2 DEF IInv, OpenInv
  <2>4. /\ analysis' \in [Results -> Analysis] /\ analysis'[r] = a
        /\ \A x \in Results : x # r => analysis'[x] = analysis[x]
    BY <2>1, <2>2 DEF IInv, Typed
  <2>5. analysis'[r].resetAt <= resetAt /\ After(analysis'[r].about, analysis'[r].resetAt)
    BY <1>0, <2>1, <2>4 DEF After
  <2>6. stats' = stats /\ UNCHANGED <<results, resetAt, reset, reviews, advice, rebuilding, due, queue>>
    BY <2>2 DEF memory
  <2> QED
    BY AnalysisMoves, <2>3, <2>4, <2>5, <2>6
<1>2. CASE RefreshStats(r)
  <2> DEFINE a == [analysis[r] EXCEPT !.step = "refreshed"]
  <2>1. a \in Analysis /\ a.resetAt = analysis[r].resetAt /\ a.about = analysis[r].about
    BY <1>0 DEF Analysis
  <2> HIDE DEF a
  <2>2. /\ analysis[r].step = "begun" /\ analysis' = [analysis EXCEPT ![r] = a]
        /\ stats' = Counted /\ ~MemoryLocked
        /\ UNCHANGED <<results, resetAt, reset, reviews, advice, rebuilding, due, queue>>
    BY <1>2 DEF RefreshStats, a
  <2>3. open[r].for # "analysis"
    BY <2>2 DEF IInv, OpenInv
  <2>4. /\ analysis' \in [Results -> Analysis] /\ analysis'[r] = a
        /\ \A x \in Results : x # r => analysis'[x] = analysis[x]
    BY <2>1, <2>2 DEF IInv, Typed
  <2>5. analysis'[r].resetAt <= resetAt /\ After(analysis'[r].about, analysis'[r].resetAt)
    BY <2>1, <2>4 DEF IInv, AskedInv
  <2> QED
    BY AnalysisMoves, <2>2, <2>3, <2>4, <2>5
<1>3. CASE MemorySnapshotForAI(r)
  <2> DEFINE a == [analysis[r] EXCEPT !.step = "asked", !.about = Counted \cup stats]
  <2>1. a \in Analysis /\ a.resetAt = analysis[r].resetAt /\ a.about = Counted \cup stats
    BY <1>0 DEF Analysis, IInv, Typed
  <2> HIDE DEF a
  <2>2. /\ analysis[r].step = "refreshed" /\ analysis' = [analysis EXCEPT ![r] = a]
        /\ UNCHANGED <<results, memory, rebuilding, due, queue>>
    BY <1>3 DEF MemorySnapshotForAI, a
  <2>3. open[r].for # "analysis"
    BY <2>2 DEF IInv, OpenInv
  <2>4. /\ analysis' \in [Results -> Analysis] /\ analysis'[r] = a
        /\ \A x \in Results : x # r => analysis'[x] = analysis[x]
    BY <2>1, <2>2 DEF IInv, Typed
  <2>5. analysis[r].resetAt <= resetAt
    BY DEF IInv, AskedInv
  <2>6. ASSUME NEW x \in Counted \cup stats
        PROVE  facts[x] = "graded" /\ since[x] > analysis[r].resetAt
    <3>1. x \in Results /\ facts[x] = "graded" /\ since[x] > resetAt
      BY <1>0, <2>6 DEF IInv, StatsInv, After, Typed
    <3>2. since[x] \in Nat
      BY <3>1, JobsAssumption DEF IInv, Typed, Time
    <3> QED
      BY <1>0, <2>5, <3>1, <3>2
  <2>7. analysis'[r].resetAt <= resetAt /\ After(analysis'[r].about, analysis'[r].resetAt)
    BY <2>1, <2>4, <2>5, <2>6 DEF After
  <2>8. stats' = stats /\ UNCHANGED <<results, resetAt, reset, reviews, advice, rebuilding, due, queue>>
    BY <2>2 DEF memory
  <2> QED
    BY AnalysisMoves, <2>3, <2>4, <2>7, <2>8
<1>4. CASE AbandonAnalysis(r)
  <2>1. /\ open[r].for # "analysis" /\ analysis' = [analysis EXCEPT ![r] = NotAnalyzed]
        /\ UNCHANGED <<results, memory, rebuilding, due, queue>>
    BY <1>4 DEF AbandonAnalysis, NoTx
  <2>2. /\ analysis' \in [Results -> Analysis] /\ analysis'[r] = NotAnalyzed
        /\ \A x \in Results : x # r => analysis'[x] = analysis[x]
    BY <1>0, <2>1 DEF IInv, Typed
  <2>3. analysis'[r].resetAt <= resetAt /\ After(analysis'[r].about, analysis'[r].resetAt)
    BY <1>0, <2>2 DEF After, NotAnalyzed
  <2>4. stats' = stats /\ UNCHANGED <<results, resetAt, reset, reviews, advice, rebuilding, due, queue>>
    BY <2>1 DEF memory
  <2> QED
    BY AnalysisMoves, <2>1, <2>2, <2>3, <2>4
<1> QED
  BY <1>1, <1>2, <1>3, <1>4

-----------------------------------------------------------------------------
(* Steps of a rebuild                                                      *)

\* The rebuild j is at another step.
Changes(j, row) == rebuilding' = [rebuilding EXCEPT ![j] = row]

\* A step of one rebuild leaves the others alone.
LEMMA ChangesFact ==
  ASSUME IInv, NEW j \in JobIds, NEW row \in Rebuild, Changes(j, row)
  PROVE  /\ rebuilding' \in [JobIds -> Rebuild] /\ rebuilding'[j] = row
         /\ \A k \in JobIds : k # j => rebuilding'[k] = rebuilding[k]
BY DEF Changes, IInv, Typed

\* A rebuild that does not touch the statistics moves on, after counting or back to
\* where it has neither counted nor settled.
LEMMA RebuildMoves ==
  ASSUME IInv, NEW j \in JobIds, NEW row \in Rebuild, Changes(j, row),
         row.step \in {"idle", "claimed", "read", "marked", "replaced"},
         row.step # "idle" => state'[j] = "granted",
         row.step \in {"read", "marked", "replaced"} => HasCounted(j),
         state'[j] = "settled" => HasCounted(j),
         \A k \in JobIds : k # j => state'[k] = state[k],
         QueueInv', reviews' \in [Results -> {"none", "planned", "mastered"}],
         UNCHANGED <<results, resetAt, reset, stats, advice, analysis, due>>
  PROVE  IInv'
<1>1. UNCHANGED <<clock, facts, since, open>>
  BY DEF results
<1>2. /\ rebuilding' \in [JobIds -> Rebuild] /\ rebuilding'[j] = row
      /\ \A k \in JobIds : k # j => rebuilding'[k] = rebuilding[k]
  BY ChangesFact
<1>3. Typed'
  BY <1>1, <1>2 DEF IInv, Typed
<1>4. JobsInv'
  BY <1>2 DEF IInv, JobsInv
<1>5. ResetInv' /\ OpenInv'
  BY <1>1 DEF IInv, ResetInv, OpenInv
<1>6. StatsInv' /\ AdviceInv'
  BY <1>1 DEF IInv, StatsInv, AdviceInv, After
<1>7. AskedInv'
  BY <1>1 DEF IInv, AskedInv, After
<1>8. \A k \in JobIds : rebuilding'[k].step = "counting" => k # j /\ rebuilding'[k] = rebuilding[k]
  BY <1>2
<1>9. CountingInv'
  BY <1>1, <1>8 DEF IInv, CountingInv, After
<1>10. OneCounts'
  BY <1>8 DEF IInv, OneCounts
<1>11. DueInv'
  <2>1. Counted' = Counted
    BY <1>1 DEF Counted
  <2>2. \A k \in JobIds : HasCounted(k)' => HasCounted(k)
    <3> SUFFICES ASSUME NEW k \in JobIds, HasCounted(k)' PROVE HasCounted(k)
      OBVIOUS
    <3>1. CASE k = j
      BY <1>2, <3>1 DEF HasCounted
    <3>2. CASE k # j
      BY <1>2, <3>2 DEF HasCounted
    <3> QED
      BY <3>1, <3>2
  <2> QED
    BY <1>8, <2>1, <2>2 DEF IInv, DueInv, Typed
<1> QED
  BY <1>3, <1>4, <1>5, <1>6, <1>7, <1>9, <1>10, <1>11 DEF IInv

\* The queue after a step that only changes what the handler holds.
LEMMA SameQueue ==
  ASSUME IInv, state' = state, open' = open
  PROVE  QueueInv'
BY DEF IInv, QueueInv, Queued

\* A rebuild reads the results and the marks, and replaces the plan.
LEMMA ReadSteps ==
  ASSUME IInv, NEW j \in JobIds, ReadResults(j) \/ ReadMastery(j) \/ ReplaceReviews(j)
  PROVE  IInv'
<1>0. /\ rebuilding[j] \in Rebuild /\ Counted \subseteq Results
      /\ rebuilding[j].step # "idle" => state[j] = "granted"
  BY DEF IInv, Typed, JobsInv, Counted
<1>1. CASE ReadResults(j)
  <2> DEFINE row == [rebuilding[j] EXCEPT !.step = "read", !.found = Counted]
  <2>1. row \in Rebuild /\ row.step = "read"
    BY <1>0 DEF Rebuild
  <2> HIDE DEF row
  <2>2. /\ rebuilding[j].step = "counted" /\ Changes(j, row)
        /\ UNCHANGED <<results, memory, analysis, due, queue>>
    BY <1>1 DEF ReadResults, Changes, row
  <2>3. QueueInv' /\ state' = state /\ reviews' = reviews
    BY <2>2, SameQueue DEF queue, results, memory
  <2>4. UNCHANGED <<results, resetAt, reset, stats, advice, analysis, due>>
    BY <2>2 DEF memory
  <2>5. reviews' \in [Results -> {"none", "planned", "mastered"}]
    BY <2>3 DEF IInv, Typed
  <2>6. HasCounted(j) /\ state'[j] = "granted"
    BY <1>0, <2>2, <2>3 DEF HasCounted
  <2> QED
    BY RebuildMoves, <2>1, <2>2, <2>3, <2>4, <2>5, <2>6
<1>2. CASE ReadMastery(j)
  <2> DEFINE row == [rebuilding[j] EXCEPT !.step = "marked",
                                          !.mastered = {r \in Results : reviews[r] = "mastered"}]
  <2>1. row \in Rebuild /\ row.step = "marked"
    BY <1>0 DEF Rebuild
  <2> HIDE DEF row
  <2>2. /\ rebuilding[j].step = "read" /\ Changes(j, row)
        /\ UNCHANGED <<results, memory, analysis, due, queue>>
    BY <1>2 DEF ReadMastery, Changes, row
  <2>3. QueueInv' /\ state' = state /\ reviews' = reviews
    BY <2>2, SameQueue DEF queue, results, memory
  <2>4. UNCHANGED <<results, resetAt, reset, stats, advice, analysis, due>>
    BY <2>2 DEF memory
  <2>5. reviews' \in [Results -> {"none", "planned", "mastered"}]
    BY <2>3 DEF IInv, Typed
  <2>6. HasCounted(j) /\ state'[j] = "granted"
    BY <1>0, <2>2, <2>3 DEF HasCounted
  <2> QED
    BY RebuildMoves, <2>1, <2>2, <2>3, <2>4, <2>5, <2>6
<1>3. CASE ReplaceReviews(j)
  <2> DEFINE row == [rebuilding[j] EXCEPT !.step = "replaced"]
  <2>1. row \in Rebuild /\ row.step = "replaced"
    BY <1>0 DEF Rebuild
  <2> HIDE DEF row
  <2>2. /\ rebuilding[j].step = "marked" /\ Changes(j, row) /\ state' = state
        /\ UNCHANGED <<results, resetAt, reset, stats, advice, analysis, due>>
    BY <1>3 DEF ReplaceReviews, Step, Queue!Commit, Changes, row
  <2>3. reviews' \in [Results -> {"none", "planned", "mastered"}]
    BY <1>3 DEF ReplaceReviews
  <2>4. QueueInv' /\ HasCounted(j) /\ state'[j] = "granted"
    BY <1>0, <2>2, SameQueue DEF results, HasCounted
  <2> QED
    BY RebuildMoves, <2>1, <2>2, <2>3, <2>4
<1> QED
  BY <1>1, <1>2, <1>3

\* The attempt begins, ends, or is taken back.
LEMMA AttemptSteps ==
  ASSUME IInv, NEW j \in JobIds, Claim(j) \/ Complete(j) \/ TakeBack(j)
  PROVE  IInv'
<1>0. /\ rebuilding[j] \in Rebuild /\ state \in [JobIds -> JobStates]
      /\ NotRunning \in Rebuild /\ NotRunning.step = "idle"
  BY DEF IInv, Typed, QueueInv, Rebuild, NotRunning
<1>1. CASE Claim(j)
  <2> DEFINE row == [rebuilding[j] EXCEPT !.step = "claimed"]
  <2>1. row \in Rebuild /\ row.step = "claimed"
    BY <1>0 DEF Rebuild
  <2> HIDE DEF row
  <2>2. /\ state[j] = "waiting" /\ state' = [state EXCEPT ![j] = "granted"] /\ Changes(j, row)
        /\ UNCHANGED <<results, memory, analysis, due>>
    BY <1>1 DEF Claim, Queue!Grant, Step, Changes, row
  <2>3. state'[j] = "granted" /\ \A k \in JobIds : k # j => state'[k] = state[k]
    BY <1>0, <2>2
  <2>4. QueueInv'
    <3>1. state' \in [JobIds -> JobStates] /\ open' = open
      BY <1>0, <2>2 DEF JobStates, results
    <3>2. \A r \in Results : \A k \in open[r].inserts : state'[k] = "unknown"
      BY <2>2, <2>3 DEF IInv, QueueInv, Typed, Tx
    <3>3. \A k \in JobIds : Queued(k)' => Queued(k)
      BY <2>3, <3>1 DEF Queued
    <3> QED
      BY <3>1, <3>2, <3>3 DEF IInv, QueueInv
  <2>5. /\ UNCHANGED <<results, resetAt, reset, stats, advice, analysis, due>>
        /\ reviews' \in [Results -> {"none", "planned", "mastered"}]
    BY <2>2 DEF memory, IInv, Typed
  <2> QED
    BY RebuildMoves, <2>1, <2>2, <2>3, <2>4, <2>5
<1>2. CASE Complete(j)
  <2>1. /\ rebuilding[j].step = "replaced" /\ state[j] = "granted"
        /\ state' = [state EXCEPT ![j] = "settled"] /\ Changes(j, NotRunning)
        /\ UNCHANGED <<results, memory, analysis, due>>
    BY <1>2 DEF Complete, Queue!Settle, Changes
  <2>2. state'[j] = "settled" /\ \A k \in JobIds : k # j => state'[k] = state[k]
    BY <1>0, <2>1
  <2>3. QueueInv'
    <3>1. state' \in [JobIds -> JobStates] /\ open' = open
      BY <1>0, <2>1 DEF JobStates, results
    <3>2. \A r \in Results : \A k \in open[r].inserts : state'[k] = "unknown"
      BY <2>1, <2>2 DEF IInv, QueueInv, Typed, Tx
    <3>3. \A k \in JobIds : Queued(k)' => Queued(k)
      BY <2>2, <3>1 DEF Queued
    <3> QED
      BY <3>1, <3>2, <3>3 DEF IInv, QueueInv
  <2>4. /\ UNCHANGED <<results, resetAt, reset, stats, advice, analysis, due>>
        /\ reviews' \in [Results -> {"none", "planned", "mastered"}]
    BY <2>1 DEF memory, IInv, Typed
  <2>5. HasCounted(j)
    BY <2>1 DEF HasCounted
  <2> QED
    BY RebuildMoves, <1>0, <2>1, <2>2, <2>3, <2>4, <2>5
<1>3. CASE TakeBack(j)
  <2>1. /\ state[j] = "granted" /\ Changes(j, NotRunning)
        /\ state' = [k \in JobIds |-> IF k \notin {j} THEN state[k]
                                      ELSE IF grants[k] = MaxAttempts THEN "given up" ELSE "waiting"]
        /\ grants[j] # MaxAttempts => Waiting \cup Inserted = {}
        /\ UNCHANGED <<results, memory, analysis, due>>
    BY <1>3 DEF TakeBack, Queue!TakeBack, Changes
  <2>2. /\ state'[j] \in {"given up", "waiting"} /\ \A k \in JobIds : k # j => state'[k] = state[k]
        /\ state'[j] = "waiting" => grants[j] # MaxAttempts
    BY <2>1
  <2>3. QueueInv'
    <3>1. state' \in [JobIds -> JobStates] /\ open' = open
      BY <1>0, <2>1 DEF JobStates, results
    <3>2. \A r \in Results : \A k \in open[r].inserts : state'[k] = "unknown"
      BY <2>1, <2>2 DEF IInv, QueueInv, Typed, Tx
    <3>3. \A i, k \in JobIds : Queued(i)' /\ Queued(k)' => i = k
      <4>1. CASE state'[j] = "given up"
        <5>1. \A k \in JobIds : Queued(k)' => Queued(k)
          BY <2>2, <3>1, <4>1 DEF Queued
        <5> QED
          BY <5>1 DEF IInv, QueueInv
      <4>2. CASE state'[j] = "waiting"
        <5>1. Waiting = {} /\ Inserted = {}
          BY <2>1, <2>2, <4>2
        <5>2. \A k \in JobIds : ~Queued(k)
          BY <5>1 DEF Queued, Waiting, Inserted
        <5>3. \A k \in JobIds : Queued(k)' => k = j
          BY <2>2, <3>1, <5>2 DEF Queued
        <5> QED
          BY <5>3
      <4> QED
        BY <2>2, <4>1, <4>2
    <3> QED
      BY <3>1, <3>2, <3>3 DEF IInv, QueueInv
  <2>4. /\ UNCHANGED <<results, resetAt, reset, stats, advice, analysis, due>>
        /\ reviews' \in [Results -> {"none", "planned", "mastered"}]
    BY <2>1 DEF memory, IInv, Typed
  <2> QED
    BY RebuildMoves, <1>0, <2>1, <2>2, <2>3, <2>4
<1> QED
  BY <1>1, <1>2, <1>3

\* A rebuild counts under the lock of the memory row.
LEMMA CountStatsStep ==
  ASSUME IInv, NEW j \in JobIds, CountStats(j)
  PROVE  IInv'
<1> DEFINE row == [rebuilding[j] EXCEPT !.step = "counting", !.found = Counted]
<1>1. row \in Rebuild /\ row.step = "counting" /\ row.found = Counted
  <2>1. rebuilding[j] \in Rebuild /\ Counted \subseteq Results
    BY DEF IInv, Typed, Counted
  <2> QED
    BY <2>1 DEF Rebuild
<1> HIDE DEF row
<1>2. /\ rebuilding[j].step = "claimed" /\ state[j] = "granted" /\ ~MemoryLocked /\ Changes(j, row)
      /\ UNCHANGED <<clock, facts, since, open, resetAt, reset, stats, reviews, advice, analysis, due, state>>
  BY DEF CountStats, Changes, row, results, memory, queue
<1>3. /\ rebuilding' \in [JobIds -> Rebuild] /\ rebuilding'[j] = row
      /\ \A k \in JobIds : k # j => rebuilding'[k] = rebuilding[k]
  BY <1>1, <1>2, ChangesFact
<1>4. \A k \in JobIds : rebuilding[k].step # "counting"
  BY <1>2 DEF MemoryLocked
<1>5. \A k \in JobIds : rebuilding'[k].step = "counting" => k = j
  BY <1>3, <1>4
<1>6. Typed' /\ QueueInv'
  BY <1>2, <1>3, SameQueue DEF IInv, Typed
<1>7. JobsInv'
  BY <1>2, <1>3 DEF IInv, JobsInv
<1>8. ResetInv' /\ OpenInv'
  BY <1>2 DEF IInv, ResetInv, OpenInv
<1>9. StatsInv' /\ AdviceInv'
  BY <1>2 DEF IInv, StatsInv, AdviceInv, After
<1>10. AskedInv'
  BY <1>2 DEF IInv, AskedInv, After
<1>11. CountingInv'
  BY <1>1, <1>2, <1>3, <1>5 DEF CountingInv, After, Counted
<1>12. OneCounts'
  BY <1>5 DEF OneCounts
<1>13. DueInv'
  <2>1. Counted' = Counted
    BY <1>2 DEF Counted
  <2>2. \A k \in JobIds : HasCounted(k)' => HasCounted(k)
    <3> SUFFICES ASSUME NEW k \in JobIds, HasCounted(k)' PROVE HasCounted(k)
      OBVIOUS
    <3>1. CASE k = j
      BY <1>1, <1>2, <1>3, <3>1 DEF HasCounted
    <3>2. CASE k # j
      BY <1>2, <1>3, <3>2 DEF HasCounted
    <3> QED
      BY <3>1, <3>2
  <2> SUFFICES ASSUME NEW r \in Results, NEW k \in due[r], r \in Counted
               PROVE  /\ rebuilding'[k].step = "counting" => r \in rebuilding'[k].found
                      /\ HasCounted(k)' =>
                           /\ r \in stats
                           /\ \A l \in JobIds : rebuilding'[l].step = "counting" => r \in rebuilding'[l].found
    BY <1>2, <2>1 DEF DueInv
  <2>3. k \in JobIds
    BY DEF IInv, Typed
  <2>4. \A l \in JobIds : rebuilding'[l].step = "counting" => r \in rebuilding'[l].found
    BY <1>1, <1>3, <1>5
  <2>5. HasCounted(k)' => r \in stats
    BY <2>2, <2>3 DEF IInv, DueInv
  <2> QED
    BY <2>3, <2>4, <2>5
<1> QED
  BY <1>6, <1>7, <1>8, <1>9, <1>10, <1>11, <1>12, <1>13 DEF IInv

\* A rebuild writes what it counted.
LEMMA ReplaceStatsStep ==
  ASSUME IInv, NEW j \in JobIds, ReplaceStats(j)
  PROVE  IInv'
<1> DEFINE row == [rebuilding[j] EXCEPT !.step = "counted"]
<1>0. rebuilding[j] \in Rebuild
  BY DEF IInv, Typed
<1>1. row \in Rebuild /\ row.step = "counted"
  BY <1>0 DEF Rebuild
<1> HIDE DEF row
<1>2. /\ rebuilding[j].step = "counting" /\ state[j] = "granted" /\ Changes(j, row)
      /\ stats' = rebuilding[j].found
      /\ UNCHANGED <<clock, facts, since, open, resetAt, reset, reviews, advice, analysis, due, state>>
  BY DEF ReplaceStats, Step, Queue!Commit, Changes, row, results
<1>3. /\ rebuilding' \in [JobIds -> Rebuild] /\ rebuilding'[j] = row
      /\ \A k \in JobIds : k # j => rebuilding'[k] = rebuilding[k]
  BY <1>1, <1>2, ChangesFact
<1>4. \A k \in JobIds : rebuilding'[k].step # "counting"
  BY <1>1, <1>2, <1>3 DEF IInv, OneCounts
<1>5. Typed' /\ QueueInv'
  <2>1. stats' \subseteq Results
    BY <1>0, <1>2 DEF Rebuild
  <2> QED
    BY <1>2, <1>3, <2>1, SameQueue DEF IInv, Typed
<1>6. JobsInv'
  BY <1>2, <1>3 DEF IInv, JobsInv
<1>7. ResetInv' /\ OpenInv'
  BY <1>2 DEF IInv, ResetInv, OpenInv
<1>8. StatsInv' /\ AdviceInv'
  BY <1>2 DEF IInv, StatsInv, AdviceInv, CountingInv, After
<1>9. AskedInv'
  BY <1>2 DEF IInv, AskedInv, After
<1>10. CountingInv' /\ OneCounts'
  BY <1>4 DEF CountingInv, OneCounts
<1>11. DueInv'
  <2>1. Counted' = Counted
    BY <1>2 DEF Counted
  <2> SUFFICES ASSUME NEW r \in Results, NEW k \in due[r], r \in Counted, HasCounted(k)'
               PROVE  r \in rebuilding[j].found
    <3>1. \A r \in Results : due[r] \subseteq JobIds
      BY DEF IInv, Typed
    <3> QED
      BY <1>2, <1>4, <2>1, <3>1 DEF DueInv
  <2>2. k \in JobIds
    BY DEF IInv, Typed
  <2>3. CASE k = j
    BY <1>2, <2>3 DEF IInv, DueInv
  <2>4. CASE k # j
    <3>1. HasCounted(k)
      BY <1>2, <1>3, <2>2, <2>4 DEF HasCounted
    <3> QED
      BY <1>2, <2>2, <3>1 DEF IInv, DueInv
  <2> QED
    BY <2>3, <2>4
<1> QED
  BY <1>5, <1>6, <1>7, <1>8, <1>9, <1>10, <1>11 DEF IInv

-----------------------------------------------------------------------------
(* Transactions that commit results                                        *)

\* A transaction is about to commit; at most one of all has inserted a rebuild.
LEMMA InsertsFact ==
  ASSUME IInv, NEW r \in Results, NEW inserts, EnqueueRebuild(inserts),
         NEW tx \in Tx, tx.inserts = inserts,
         open' = [open EXCEPT ![r] = tx], state' = state
  PROVE  QueueInv'
<1>1. /\ open'[r] = tx /\ \A x \in Results : x # r => open'[x] = open[x]
      /\ \A x \in Results : open[x].inserts = {}
  BY DEF IInv, Typed, EnqueueRebuild, Inserted
<1>2. \A k \in JobIds : Queued(k)' => state[k] = "waiting" \/ k \in inserts
  BY <1>1 DEF Queued
<1>3. CASE inserts = {}
  <2>1. \A k \in JobIds : Queued(k)' => Queued(k)
    BY <1>2, <1>3 DEF Queued
  <2> QED
    BY <1>1, <1>3, <2>1 DEF IInv, QueueInv
<1>4. CASE Waiting = {} /\ \E j \in JobIds : NextJob(j) /\ inserts = {j}
  <2>1. PICK j \in JobIds : state[j] = "unknown" /\ inserts = {j}
    BY <1>4 DEF NextJob
  <2>2. \A k \in JobIds : Queued(k)' => k = j
    BY <1>2, <1>4, <2>1 DEF Waiting
  <2>3. \A x \in Results : \A k \in open'[x].inserts : state'[k] = "unknown"
    BY <1>1, <2>1
  <2>4. \A x, y \in Results : open'[x].inserts # {} /\ open'[y].inserts # {} => x = y
    BY <1>1
  <2> QED
    BY <2>2, <2>3, <2>4 DEF IInv, QueueInv
<1> QED
  BY <1>3, <1>4 DEF EnqueueRebuild

\* A submission records its results.
LEMMA SubmitStep ==
  ASSUME IInv, NEW r \in Results, NEW inserts \in SUBSET JobIds, Submit(r, inserts)
  PROVE  IInv'
<1> DEFINE tx == [NoTx EXCEPT !.for = "submission", !.inserts = inserts]
<1>1. tx \in Tx /\ tx.inserts = inserts /\ tx.for = "submission" /\ tx.advises = "no"
  BY DEF Tx, NoTx
<1> HIDE DEF tx
<1>2. /\ facts[r] = "none" /\ open[r] = NoTx /\ clock < MaxTime /\ EnqueueRebuild(inserts)
      /\ clock' = clock + 1 /\ since' = [since EXCEPT ![r] = clock'] /\ open' = [open EXCEPT ![r] = tx]
      /\ UNCHANGED <<facts, resetAt, reset, stats, reviews, advice, rebuilding, analysis, due, state>>
  BY DEF Submit, memory, queue, tx
<1>3. /\ clock \in Nat /\ clock' \in Time /\ clock' > clock
      /\ resetAt \in Nat /\ reset \in Nat
  BY <1>2, JobsAssumption DEF IInv, Typed, Time
<1>4. /\ open'[r] = tx /\ \A x \in Results : x # r => open'[x] = open[x] /\ since'[x] = since[x]
      /\ open' \in [Results -> Tx] /\ since' \in [Results -> Time]
  BY <1>1, <1>2, <1>3 DEF IInv, Typed
<1>5. Typed' /\ QueueInv'
  BY <1>1, <1>2, <1>3, <1>4, InsertsFact DEF IInv, Typed
<1>6. JobsInv' /\ OneCounts'
  BY <1>2 DEF IInv, JobsInv, OneCounts
<1>7. ResetInv'
  BY <1>2, <1>3 DEF IInv, ResetInv
<1>8. OpenInv'
  BY <1>1, <1>2, <1>4 DEF IInv, OpenInv
<1>9. ASSUME NEW found \in SUBSET Results, NEW moment, After(found, moment)
      PROVE  \A x \in found : facts'[x] = "graded" /\ since'[x] > moment
  BY <1>2, <1>4, <1>9 DEF After
<1>10. StatsInv' /\ AdviceInv'
  BY <1>2, <1>9 DEF IInv, StatsInv, AdviceInv, After, Typed
<1>11. CountingInv'
  <2>1. \A j \in JobIds : rebuilding[j].found \in SUBSET Results
    BY DEF IInv, Typed, Rebuild
  <2> QED
    BY <1>2, <1>9, <2>1 DEF IInv, CountingInv, After
<1>12. AskedInv'
  <2>1. \A x \in Results : analysis[x].about \in SUBSET Results
    BY DEF IInv, Typed, Analysis
  <2> SUFFICES ASSUME NEW x \in Results
               PROVE  /\ analysis[x].resetAt <= resetAt
                      /\ \A y \in analysis[x].about : facts'[y] = "graded" /\ since'[y] > analysis[x].resetAt
                      /\ open'[x].advises = "yes" => analysis[x].resetAt = resetAt
    BY <1>2 DEF AskedInv, After
  <2>2. After(analysis[x].about, analysis[x].resetAt)
    BY DEF IInv, AskedInv
  <2>3. open'[x].advises = "yes" => open[x].advises = "yes"
    BY <1>1, <1>4
  <2> QED
    BY <1>9, <2>1, <2>2, <2>3 DEF IInv, AskedInv
<1>13. DueInv'
  <2>1. Counted' = Counted
    BY <1>2, <1>4 DEF Counted
  <2>2. \A k \in JobIds : HasCounted(k)' = HasCounted(k)
    BY <1>2 DEF HasCounted
  <2> QED
    BY <1>2, <2>1, <2>2 DEF IInv, DueInv, Typed
<1> QED
  BY <1>5, <1>6, <1>7, <1>8, <1>10, <1>11, <1>12, <1>13 DEF IInv

\* An analysis writes its verdicts and, unless the memory was deleted, its advice.
LEMMA WriteAnalysisStep ==
  ASSUME IInv, NEW r \in Results, NEW wanted \in {"no", "yes"}, NEW inserts \in SUBSET JobIds,
         WriteAnalysis(r, wanted, inserts)
  PROVE  IInv'
<1> DEFINE tx == [for |-> "analysis", inserts |-> inserts, advises |-> Advises(r, wanted)]
<1>1. /\ tx \in Tx /\ tx.inserts = inserts /\ tx.for = "analysis"
      /\ tx.advises = "yes" => analysis[r].resetAt = resetAt
  BY DEF Tx, Advises, SameReset
<1> HIDE DEF tx
<1>2. /\ analysis[r].step = "asked" /\ EnqueueRebuild(inserts) /\ open' = [open EXCEPT ![r] = tx]
      /\ UNCHANGED <<clock, facts, since, resetAt, reset, stats, reviews, advice, rebuilding, analysis, due, state>>
  BY DEF WriteAnalysis, memory, queue, tx
<1>3. /\ open'[r] = tx /\ \A x \in Results : x # r => open'[x] = open[x]
      /\ open' \in [Results -> Tx]
  BY <1>1, <1>2 DEF IInv, Typed
<1>4. Typed' /\ QueueInv'
  BY <1>1, <1>2, <1>3, InsertsFact DEF IInv, Typed
<1>5. JobsInv' /\ OneCounts' /\ ResetInv'
  BY <1>2 DEF IInv, JobsInv, OneCounts, ResetInv
<1>6. OpenInv'
  BY <1>1, <1>2, <1>3 DEF IInv, OpenInv
<1>7. StatsInv' /\ AdviceInv' /\ CountingInv'
  BY <1>2 DEF IInv, StatsInv, AdviceInv, CountingInv, After
<1>8. AskedInv'
  BY <1>1, <1>2, <1>3 DEF IInv, AskedInv, After
<1>9. DueInv'
  <2>1. Counted' = Counted
    BY <1>2 DEF Counted
  <2>2. \A k \in JobIds : HasCounted(k)' = HasCounted(k)
    BY <1>2 DEF HasCounted
  <2> QED
    BY <1>2, <2>1, <2>2 DEF IInv, DueInv, Typed
<1> QED
  BY <1>4, <1>5, <1>6, <1>7, <1>8, <1>9 DEF IInv

\* What is committed is graded; the advice that is written is about what was graded
\* after the last deletion.
LEMMA CommitStep ==
  ASSUME IInv, NEW r \in Results, Commit(r)
  PROVE  IInv'
<1>1. /\ open[r].for # "nothing"
      /\ facts' = [facts EXCEPT ![r] =
           IF open[r].for = "submission" /\ r \in ByAI THEN "pending" ELSE "graded"]
      /\ advice' = IF open[r].advises = "yes" THEN analysis[r].about ELSE advice
      /\ analysis' = [analysis EXCEPT ![r] = NotAnalyzed]
      /\ state' = [j \in JobIds |-> IF j \in open[r].inserts THEN "waiting" ELSE state[j]]
      /\ due' = [due EXCEPT ![r] = {j \in JobIds : state'[j] = "waiting"}]
      /\ open' = [open EXCEPT ![r] = NoTx]
      /\ UNCHANGED <<clock, since, resetAt, reset, stats, reviews, rebuilding>>
  BY DEF Commit
<1>2. /\ NotAnalyzed \in Analysis /\ NotAnalyzed.resetAt = 0 /\ NotAnalyzed.about = {}
      /\ NoTx \in Tx /\ NoTx.for = "nothing" /\ NoTx.inserts = {} /\ NoTx.advises = "no"
      /\ resetAt \in Nat
  BY JobsAssumption DEF IInv, Typed, NotAnalyzed, Analysis, Time, NoTx, Tx
<1>3. /\ analysis'[r] = NotAnalyzed /\ open'[r] = NoTx
      /\ facts'[r] \in {"pending", "graded"}
      /\ open[r].for = "analysis" => facts'[r] = "graded"
      /\ \A x \in Results : x # r => /\ facts'[x] = facts[x] /\ analysis'[x] = analysis[x]
                                     /\ open'[x] = open[x] /\ due'[x] = due[x]
  BY <1>1 DEF IInv, Typed
<1>4. /\ open[r] \in Tx /\ open[r].inserts \in SUBSET JobIds
      /\ open[r].for \in {"submission", "analysis"}
      /\ analysis[r].about \in SUBSET Results
  <2>1. open[r] \in Tx /\ analysis[r] \in Analysis
    BY DEF IInv, Typed
  <2> QED
    BY <1>1, <2>1 DEF Tx, Analysis
<1>5. \A x \in Results : facts[x] = "graded" => facts'[x] = "graded"
  BY <1>3, <1>4 DEF IInv, OpenInv
<1>6. Typed'
  <2>1. facts' \in [Results -> {"none", "pending", "graded"}]
    BY <1>1 DEF IInv, Typed
  <2>2. analysis' \in [Results -> Analysis] /\ open' \in [Results -> Tx]
    BY <1>1, <1>2 DEF IInv, Typed
  <2>3. due' \in [Results -> SUBSET JobIds] /\ advice' \subseteq Results
    BY <1>1, <1>4 DEF IInv, Typed
  <2> QED
    BY <1>1, <2>1, <2>2, <2>3 DEF IInv, Typed
<1>7. QueueInv'
  <2>1. state' \in [JobIds -> JobStates]
    BY <1>1 DEF IInv, QueueInv, JobStates
  <2>2. \A x \in Results : \A j \in open'[x].inserts : state'[j] = "unknown"
    <3> SUFFICES ASSUME NEW x \in Results, NEW j \in open'[x].inserts PROVE state'[j] = "unknown"
      OBVIOUS
    <3>1. x # r /\ j \in open[x].inserts
      BY <1>2, <1>3
    <3>2. open[x] \in Tx
      BY DEF IInv, Typed
    <3>3. j \in JobIds /\ state[j] = "unknown"
      BY <3>1, <3>2 DEF IInv, QueueInv, Tx
    <3>4. j \notin open[r].inserts
      BY <3>1 DEF IInv, QueueInv
    <3> QED
      BY <1>1, <3>3, <3>4
  <2>3. \A x, y \in Results : open'[x].inserts # {} /\ open'[y].inserts # {} => x = y
    BY <1>2, <1>3 DEF IInv, QueueInv
  <2>4. \A j \in JobIds : Queued(j)' => Queued(j)
    BY <1>1, <1>2, <1>3 DEF Queued
  <2> QED
    BY <2>1, <2>2, <2>3, <2>4 DEF IInv, QueueInv
<1>8. \A j \in JobIds : /\ state'[j] = state[j] \/ (state[j] = "unknown" /\ state'[j] = "waiting")
                        /\ rebuilding[j].step # "idle" => state'[j] = "granted"
  BY <1>1 DEF IInv, QueueInv, JobsInv
<1>9. JobsInv' /\ OneCounts' /\ ResetInv'
  BY <1>1, <1>8 DEF IInv, JobsInv, OneCounts, ResetInv
<1>10. OpenInv'
  BY <1>2, <1>3 DEF IInv, OpenInv
<1>11. StatsInv' /\ CountingInv'
  <2>1. \A j \in JobIds : rebuilding[j].found \in SUBSET Results
    BY DEF IInv, Typed, Rebuild
  <2> QED
    BY <1>1, <1>5, <2>1 DEF IInv, Typed, StatsInv, CountingInv, After
<1>12. AdviceInv'
  <2>1. CASE open[r].advises = "yes"
    <3>1. After(analysis[r].about, resetAt)
      BY <2>1 DEF IInv, AskedInv
    <3> QED
      BY <1>1, <1>4, <1>5, <2>1, <3>1 DEF AdviceInv, After
  <2>2. CASE open[r].advises # "yes"
    BY <1>1, <1>5, <2>2 DEF IInv, Typed, AdviceInv, After
  <2> QED
    BY <2>1, <2>2
<1>13. AskedInv'
  <2> SUFFICES ASSUME NEW x \in Results
               PROVE  /\ analysis'[x].resetAt <= resetAt
                      /\ \A y \in analysis'[x].about : facts'[y] = "graded" /\ since[y] > analysis'[x].resetAt
                      /\ open'[x].advises = "yes" => analysis'[x].resetAt = resetAt
    BY <1>1 DEF AskedInv, After
  <2>1. CASE x = r
    BY <1>2, <1>3, <2>1
  <2>2. CASE x # r
    <3>1. analysis'[x] = analysis[x] /\ open'[x] = open[x]
      BY <1>3, <2>2
    <3>2. analysis[x] \in Analysis
      BY DEF IInv, Typed
    <3>3. analysis[x].about \subseteq Results
      BY <3>2 DEF Analysis
    <3> QED
      BY <1>5, <3>1, <3>3 DEF IInv, AskedInv, After
  <2> QED
    BY <2>1, <2>2
<1>14. DueInv'
  <2> SUFFICES ASSUME NEW x \in Results, NEW j \in due'[x], x \in Counted'
               PROVE  /\ rebuilding[j].step = "counting" => x \in rebuilding[j].found
                      /\ HasCounted(j)' =>
                           /\ x \in stats
                           /\ \A k \in JobIds : rebuilding[k].step = "counting" => x \in rebuilding[k].found
    BY <1>1 DEF DueInv
  <2>1. j \in JobIds
    BY <1>6 DEF Typed
  <2>2. CASE x = r
    <3>1. state'[j] = "waiting"
      BY <1>1, <2>2 DEF IInv, Typed
    <3>2. rebuilding[j].step = "idle"
      BY <1>8, <2>1, <3>1
    <3> QED
      BY <1>1, <3>1, <3>2 DEF HasCounted
  <2>3. CASE x # r
    <3>1. j \in due[x] /\ x \in Counted
      BY <1>1, <1>3, <2>3 DEF Counted
    <3>2. HasCounted(j)' => HasCounted(j)
      BY <1>1, <1>8, <2>1 DEF HasCounted
    <3> QED
      BY <3>1, <3>2 DEF IInv, DueInv
  <2> QED
    BY <2>2, <2>3
<1> QED
  BY <1>6, <1>7, <1>9, <1>10, <1>11, <1>12, <1>13, <1>14 DEF IInv

\* A transaction that fails leaves nothing.
LEMMA RollbackStep ==
  ASSUME IInv, NEW r \in Results, Rollback(r)
  PROVE  IInv'
<1>1. /\ open[r].for # "nothing"
      /\ since' = [since EXCEPT ![r] = IF open[r].for = "submission" THEN 0 ELSE since[r]]
      /\ analysis' = [analysis EXCEPT ![r] = NotAnalyzed]
      /\ open' = [open EXCEPT ![r] = NoTx]
      /\ UNCHANGED <<clock, facts, resetAt, reset, stats, reviews, advice, rebuilding, due, state>>
  BY DEF Rollback, memory, queue
<1>2. /\ NotAnalyzed \in Analysis /\ NotAnalyzed.resetAt = 0 /\ NotAnalyzed.about = {}
      /\ NoTx \in Tx /\ NoTx.for = "nothing" /\ NoTx.inserts = {} /\ NoTx.advises = "no"
      /\ resetAt \in Nat /\ 0 \in Time
  BY JobsAssumption DEF IInv, Typed, NotAnalyzed, Analysis, Time, NoTx, Tx
<1>3. /\ analysis'[r] = NotAnalyzed /\ open'[r] = NoTx
      /\ \A x \in Results : x # r => /\ since'[x] = since[x] /\ analysis'[x] = analysis[x]
                                     /\ open'[x] = open[x]
  BY <1>1 DEF IInv, Typed
<1>4. \A x \in Results : facts[x] = "graded" => since'[x] = since[x]
  BY <1>1 DEF IInv, Typed, OpenInv
<1>5. Typed'
  <2>1. analysis' \in [Results -> Analysis] /\ open' \in [Results -> Tx] /\ since' \in [Results -> Time]
    BY <1>1, <1>2 DEF IInv, Typed
  <2> QED
    BY <1>1, <2>1 DEF IInv, Typed
<1>6. QueueInv'
  <2>1. \A j \in JobIds : Queued(j)' => Queued(j)
    BY <1>1, <1>2, <1>3 DEF Queued
  <2> QED
    BY <1>1, <1>2, <1>3, <2>1 DEF IInv, QueueInv
<1>7. JobsInv' /\ OneCounts' /\ ResetInv'
  BY <1>1 DEF IInv, JobsInv, OneCounts, ResetInv
<1>8. OpenInv'
  BY <1>1, <1>2, <1>3 DEF IInv, OpenInv
<1>9. StatsInv' /\ AdviceInv' /\ CountingInv'
  <2>1. \A j \in JobIds : rebuilding[j].found \in SUBSET Results
    BY DEF IInv, Typed, Rebuild
  <2> QED
    BY <1>1, <1>4, <2>1 DEF IInv, Typed, StatsInv, AdviceInv, CountingInv, After
<1>10. AskedInv'
  <2> SUFFICES ASSUME NEW x \in Results
               PROVE  /\ analysis'[x].resetAt <= resetAt
                      /\ \A y \in analysis'[x].about : facts[y] = "graded" /\ since'[y] > analysis'[x].resetAt
                      /\ open'[x].advises = "yes" => analysis'[x].resetAt = resetAt
    BY <1>1 DEF AskedInv, After
  <2>1. CASE x = r
    BY <1>2, <1>3, <2>1
  <2>2. CASE x # r
    <3>1. analysis'[x] = analysis[x] /\ open'[x] = open[x]
      BY <1>3, <2>2
    <3>2. analysis[x] \in Analysis
      BY DEF IInv, Typed
    <3>3. analysis[x].about \subseteq Results
      BY <3>2 DEF Analysis
    <3> QED
      BY <1>4, <3>1, <3>3 DEF IInv, AskedInv, After
  <2> QED
    BY <2>1, <2>2
<1>11. DueInv'
  <2>1. Counted' = Counted
    BY <1>1, <1>4 DEF Counted
  <2>2. \A k \in JobIds : HasCounted(k)' = HasCounted(k)
    BY <1>1 DEF HasCounted
  <2> QED
    BY <1>1, <2>1, <2>2 DEF IInv, DueInv, Typed
<1> QED
  BY <1>5, <1>6, <1>7, <1>8, <1>9, <1>10, <1>11 DEF IInv

-----------------------------------------------------------------------------
(* Steps of the learner                                                    *)

\* A deletion takes a moment of its own and the lock of the memory row.
LEMMA BeginDeleteMemoryStep ==
  ASSUME IInv, BeginDeleteMemory
  PROVE  IInv'
<1>1. /\ reset = 0 /\ clock < MaxTime /\ clock' = clock + 1 /\ reset' = clock'
      /\ UNCHANGED <<facts, since, open, resetAt, stats, reviews, advice, rebuilding, analysis, due, state>>
  BY DEF BeginDeleteMemory, queue
<1>2. clock \in Nat /\ clock' \in Time /\ resetAt \in Nat
  BY <1>1, JobsAssumption DEF IInv, Typed, Time
<1>3. Typed' /\ QueueInv'
  BY <1>1, <1>2, SameQueue DEF IInv, Typed
<1>4. JobsInv' /\ OpenInv' /\ OneCounts'
  BY <1>1 DEF IInv, JobsInv, OpenInv, OneCounts
<1>5. ResetInv'
  BY <1>1, <1>2 DEF IInv, ResetInv
<1>6. StatsInv' /\ AdviceInv' /\ CountingInv'
  BY <1>1 DEF IInv, StatsInv, AdviceInv, CountingInv, After
<1>7. AskedInv'
  BY <1>1 DEF IInv, AskedInv, After
<1>8. DueInv'
  <2>1. Counted' = Counted
    BY <1>1 DEF Counted
  <2>2. \A k \in JobIds : HasCounted(k)' = HasCounted(k)
    BY <1>1 DEF HasCounted
  <2> QED
    BY <1>1, <2>1, <2>2 DEF IInv, DueInv, Typed
<1> QED
  BY <1>3, <1>4, <1>5, <1>6, <1>7, <1>8 DEF IInv

\* The deletion waits for the lock, so nothing that was counted before it is pending.
LEMMA DeleteMemoryStep ==
  ASSUME IInv, DeleteMemory
  PROVE  IInv'
<1>1. /\ reset # 0 /\ ~MemoryLocked /\ resetAt' = reset /\ reset' = 0
      /\ stats' = {} /\ advice' = {} /\ reviews' = [r \in Results |-> "none"]
      /\ due' = [r \in Results |-> due[r] \cap Waiting]
      /\ UNCHANGED <<clock, facts, since, open, rebuilding, analysis, state>>
  BY DEF DeleteMemory, results, queue
<1>2. /\ 0 \in Time /\ clock \in Nat /\ reset \in Nat /\ resetAt \in Nat /\ reset \in Time
      /\ resetAt < reset
      /\ \A r \in Results : analysis[r].resetAt \in Nat
  <2>1. \A r \in Results : analysis[r] \in Analysis
    BY DEF IInv, Typed
  <2> QED
    BY <1>1, <2>1, JobsAssumption DEF IInv, Typed, Time, ResetInv, Analysis
<1>3. /\ \A j \in JobIds : rebuilding[j].step # "counting"
      /\ \A r \in Results : open[r].advises # "yes"
  BY <1>1 DEF MemoryLocked
<1>4. Typed' /\ QueueInv'
  BY <1>1, <1>2, SameQueue DEF IInv, Typed
<1>5. JobsInv' /\ OpenInv' /\ OneCounts'
  BY <1>1 DEF IInv, JobsInv, OpenInv, OneCounts
<1>6. ResetInv'
  BY <1>1, <1>2 DEF IInv, ResetInv
<1>7. StatsInv' /\ AdviceInv' /\ CountingInv'
  BY <1>1, <1>3 DEF StatsInv, AdviceInv, CountingInv, After
<1>8. AskedInv'
  BY <1>1, <1>2, <1>3 DEF IInv, AskedInv, After
<1>9. DueInv'
  <2> SUFFICES ASSUME NEW r \in Results, NEW j \in due'[r]
               PROVE  rebuilding[j].step # "counting" /\ ~HasCounted(j)'
    BY <1>1 DEF DueInv
  <2>1. j \in JobIds /\ state[j] = "waiting"
    BY <1>1 DEF Waiting
  <2>2. rebuilding[j].step = "idle"
    BY <2>1 DEF IInv, JobsInv
  <2> QED
    BY <1>1, <2>1, <2>2 DEF HasCounted
<1> QED
  BY <1>4, <1>5, <1>6, <1>7, <1>8, <1>9 DEF IInv

\* Marking a question as mastered, and unmarking it.
LEMMA MarkSteps ==
  ASSUME IInv,
         (\E r \in Results : MarkQuestionMastered(r) \/ UnmarkQuestionMastered(r)) \/ UNCHANGED vars
  PROVE  IInv'
<1>1. /\ UNCHANGED <<clock, facts, since, open, resetAt, reset, stats, advice, rebuilding, analysis, due, state>>
      /\ reviews' \in [Results -> {"none", "planned", "mastered"}]
  BY DEF IInv, Typed, MarkQuestionMastered, UnmarkQuestionMastered, vars, results, memory, queue
<1>2. Typed' /\ QueueInv'
  BY <1>1, SameQueue DEF IInv, Typed
<1>3. JobsInv' /\ OpenInv' /\ OneCounts' /\ ResetInv'
  BY <1>1 DEF IInv, JobsInv, OpenInv, OneCounts, ResetInv
<1>4. StatsInv' /\ AdviceInv' /\ CountingInv'
  BY <1>1 DEF IInv, StatsInv, AdviceInv, CountingInv, After
<1>5. AskedInv'
  BY <1>1 DEF IInv, AskedInv, After
<1>6. DueInv'
  <2>1. Counted' = Counted
    BY <1>1 DEF Counted
  <2>2. \A k \in JobIds : HasCounted(k)' = HasCounted(k)
    BY <1>1 DEF HasCounted
  <2> QED
    BY <1>1, <2>1, <2>2 DEF IInv, DueInv, Typed
<1> QED
  BY <1>2, <1>3, <1>4, <1>5, <1>6 DEF IInv

-----------------------------------------------------------------------------
(* The theorems                                                            *)

\* At the start nothing is counted and nothing is queued.
LEMMA InitInv == Init => IInv
<1> SUFFICES ASSUME Init PROVE IInv
  OBVIOUS
<1>1. /\ clock = 0 /\ facts = [r \in Results |-> "none"] /\ since = [r \in Results |-> 0]
      /\ open = [r \in Results |-> NoTx] /\ resetAt = 0 /\ reset = 0 /\ stats = {} /\ advice = {}
      /\ reviews = [r \in Results |-> "none"] /\ rebuilding = [j \in JobIds |-> NotRunning]
      /\ analysis = [r \in Results |-> NotAnalyzed] /\ due = [r \in Results |-> {}]
      /\ state = [j \in JobIds |-> "unknown"]
  BY DEF Init, Queue!Init
<1>2. /\ NotAnalyzed \in Analysis /\ NotAnalyzed.resetAt = 0 /\ NotAnalyzed.about = {}
      /\ NoTx \in Tx /\ NoTx.for = "nothing" /\ NoTx.inserts = {} /\ NoTx.advises = "no"
      /\ NotRunning \in Rebuild /\ NotRunning.step = "idle" /\ 0 \in Time
  BY JobsAssumption DEF NotAnalyzed, Analysis, Time, NoTx, Tx, NotRunning, Rebuild
<1>3. Typed
  BY <1>1, <1>2 DEF Typed
<1>4. QueueInv
  BY <1>1, <1>2 DEF QueueInv, JobStates, Queued
<1>5. JobsInv /\ OneCounts /\ CountingInv
  BY <1>1, <1>2 DEF JobsInv, OneCounts, CountingInv
<1>6. ResetInv /\ OpenInv /\ StatsInv /\ AdviceInv /\ AskedInv
  BY <1>1, <1>2 DEF ResetInv, OpenInv, StatsInv, AdviceInv, AskedInv, After
<1>7. DueInv
  BY <1>1 DEF DueInv
<1> QED
  BY <1>3, <1>4, <1>5, <1>6, <1>7 DEF IInv

\* Every step keeps the invariant.
LEMMA NextInv == IInv /\ [Next]_vars => IInv'
<1> SUFFICES ASSUME IInv, [Next]_vars PROVE IInv'
  OBVIOUS
<1>1. ASSUME NEW r \in Results, ResultStep(r) PROVE IInv'
  <2>1. CASE \E inserts \in {{}} \cup {{j} : j \in JobIds} : Submit(r, inserts)
    BY <2>1, SubmitStep
  <2>2. CASE \E inserts \in {{}} \cup {{j} : j \in JobIds}, wanted \in {"no", "yes"} :
               WriteAnalysis(r, wanted, inserts)
    BY <2>2, WriteAnalysisStep
  <2>3. CASE Commit(r) \/ Rollback(r)
    BY <2>3, CommitStep, RollbackStep
  <2>4. CASE BeginAnalysis(r) \/ RefreshStats(r) \/ MemorySnapshotForAI(r) \/ AbandonAnalysis(r)
    BY <2>4, AnalysisSteps
  <2> QED
    BY <1>1, <2>1, <2>2, <2>3, <2>4 DEF ResultStep
<1>2. ASSUME NEW j \in JobIds, RebuildStep(j) PROVE IInv'
  <2>1. CASE Claim(j) \/ Complete(j) \/ TakeBack(j)
    BY <2>1, AttemptSteps
  <2>2. CASE ReadResults(j) \/ ReadMastery(j) \/ ReplaceReviews(j)
    BY <2>2, ReadSteps
  <2>3. CASE CountStats(j) \/ ReplaceStats(j)
    BY <2>3, CountStatsStep, ReplaceStatsStep
  <2> QED
    BY <1>2, <2>1, <2>2, <2>3 DEF RebuildStep
<1>3. CASE BeginDeleteMemory \/ DeleteMemory
  BY <1>3, BeginDeleteMemoryStep, DeleteMemoryStep
<1>4. CASE (\E r \in Results : MarkQuestionMastered(r) \/ UnmarkQuestionMastered(r)) \/ UNCHANGED vars
  BY <1>4, MarkSteps
<1> QED
  BY <1>1, <1>2, <1>3, <1>4 DEF Next

\* IInv holds in every state.
LEMMA IInvHolds == Spec => []IInv
BY InitInv, NextInv, PTL DEF Spec

\* Every variable of the learning memory has its type, and the queue never holds two
\* rebuilds of the account.
THEOREM TypeCorrect == Spec => []TypeOK
<1>1. ASSUME IInv PROVE TypeOK
  <2>1. \A i, j \in Waiting : i = j
    BY <1>1 DEF IInv, QueueInv, Queued, Waiting
  <2> QED
    BY <1>1, <2>1 DEF IInv, Typed, TypeOK
<1> QED
  BY IInvHolds, <1>1, PTL

\* Neither a rebuild nor an analysis that began before a deletion of the memory brings
\* statistics or advice about deleted results back.
THEOREM MemoryForgetsTheResetHolds == Spec => []MemoryForgetsTheReset
<1>1. ASSUME IInv PROVE MemoryForgetsTheReset
  BY <1>1 DEF IInv, StatsInv, AdviceInv, After,
              MemoryForgetsTheReset, StatsForgetTheReset, AdviceForgetsTheReset
<1> QED
  BY IInvHolds, <1>1, PTL

\* A result that was committed while a rebuild was queued is counted when that rebuild
\* has ended, whatever else writes the statistics.
THEOREM StatsCountTheirDueHolds == Spec => []StatsCountTheirDue
<1>1. ASSUME IInv PROVE StatsCountTheirDue
  BY <1>1 DEF IInv, DueInv, HasCounted, StatsCountTheirDue, SettledRebuildOwes
<1> QED
  BY IInvHolds, <1>1, PTL

=============================================================================
