# A TLA+ model of the JLPT practice platform

The platform lets a learner practise JLPT questions. A Go server (a modular
monolith) and one or more worker processes share one PostgreSQL database; a Vue
client calls the server; an optional AI provider judges open answers, explains
wrong ones and generates questions. Nothing else is shared: every interaction
between two requests, two workers, or a request and a worker, goes through rows
of the database, and the client adds requests that are late, lost or repeated.
That is what these modules are about.

## 1. Inventory

| Part | State it keeps | Operations | What is hard about it |
|---|---|---|---|
| Job queue (`internal/jobs`) | table `jobs`; per slot the copy of the row it claimed | enqueue, claim, guard the lease, complete, fail, reclaim | several processes, leases that expire under a running handler, crashes, one UPDATE over many rows, a partial unique index |
| Practice (`internal/practice`) | `practice_sessions`, `practice_items`, `user_answers`, `grading_results` | choose, create, autosave, submit, result, retry, delete | autosave against submit, repeated submissions, retry against running analysis, a result read with four statements |
| Grading (`practice/grading.go`) | none | parse an answer, grade it | sets given as lists, normalised text, three kinds of keys |
| Batch analysis (`ai/service.go`) | none of its own | read the session, ask the AI, write verdicts | what was read minutes ago decides what is written |
| Generation (`ai/generation.go`) | call budget in `practice_sessions`; bank of questions with reuse keys | admit, reserve a call, filter, shuffle options, persist | quota and budget under retries; one bank for all accounts; advisory locks |
| Learning memory (`internal/learning`) | `user_knowledge_stats`, `user_question_reviews`, `user_learning_memory` | rebuild, advice, delete the memory, mark as mastered, wrong questions | derived tables rebuilt by jobs while their facts change |
| Review plan (`learning/reviews.go`) | none (replay of all answers) | replay | order, versions, answers before the due date |
| Accounts (`internal/auth`) | `users`, `auth_sessions`, `password_reset_tokens`, `rate_limit_counters` | register, login, refresh, logout, change and reset of the password | revocation against login and refresh; compare first, write later; a reset of three statements that logins pass |
| Imports (`internal/imports`) | `import_jobs`, `import_items` | upload, edit, approve, publish, publish several | several administrators on one draft |
| Content (`internal/content`) | questions, versions, materials, keys | create, revise, publish, retire, review, select | read without a lock, write later; selections that fall short |
| Web client (`front-web`) | drafts in local storage; saves in flight; one refresh | autosave, submit, refresh, poll | late and failed answers; a page that is left and reopened |
| Catalogue, administration | reference rows; issue reports | single statements | nothing concurrent |
| AI client (`ai/client.go`) | `ai_runs`, an audit row per call | run a prompt | time limits of the provider |
| HTTP layer, configuration, assembly | none | decode, authenticate, route | nothing stateful |
| Database access (`internal/store`) | pool of ten connections | transactions | exhaustion of the pool |
| OCR service, scripts, commands | files | run by hand | outside the running system |

How they interact: `Submit`, `CreateGeneratedSession`, `RetryAnalysis` enqueue
jobs in the transaction that changes their rows; the worker calls the handlers of
`ai` and `learning`; each handler writes in transactions that begin with
`GuardLease`; the analysis and the submission queue the rebuild of the learning
memory; the terminal failure of a job changes sessions and results in the
transaction that fails the job. Imports and the editor write the bank of
questions, and practice takes its questions from it. The client saves answers one
by one, repeats a submission under one key, and renews its tokens when a request
meets an expired one.

What makes each part correct, in words: a job has one owner, ends, and no
superseded attempt writes (queue); what was submitted is what is graded, a
verdict stands, and no session waits for ever (practice); the rules for
deterministic grading (grading); quota, budget and no repeated question
(generation); derived data equals what it derives from, and nothing deleted
returns (memory); stages take their time and an answer counts once (plan);
a revoked session is dead, and a password is changed by who knows it (accounts);
what is published was approved, once (imports); versions and status agree whatever
two administrators do at once (content); a learner gets as many questions as the
count promised (selection); the newest answer is saved and the page says so only
when it is (web client).

## 2. Modules

| Module | Models | Interface |
|---|---|---|
| `JobContract` | abstract: what the job table promises | `Submit`, `Grant`, `Commit`, `Settle`, `TakeBack` |
| `JobQueue` | `jobs/queue.go`, `jobs/worker.go` statement by statement | implements `JobContract` (`ImplementsContract`) |
| `PracticeSession` | life of a session and its AI jobs | uses `JobContract` for its jobs |
| `ResultPage` | the result pages: the four reads of `GetResult`, and the polling | extends `PracticeSession` |
| `LearningMemory` | rebuilds, advice, deletion, marks | uses `JobContract` for the rebuild jobs |
| `Generation` | admission, budget, filter, bank | uses `JobContract`, one job per session |
| `GeneratedChoice` | the shuffle of options and the reuse key | the reason why `Generation` may take a question for its key; theorems in `GenerationProofs` |
| `Grading`, `ReviewPlan` | `ParseAnswerValue`, `Grade`, what `Submit` stores; `buildReviewPlans` | |
| `AnswerAutosave` | `useAnswerAutosave.ts` and `PracticePage.vue` with the server and the network between | |
| `AuthSession` | `internal/auth`, the middleware, and the refresh of `client.ts` | |
| `QuestionBank` | questions and versions of `internal/content` | extended by the next two |
| `ImportReview` | `internal/imports`, which publishes into the bank | extends `QuestionBank` |
| `QuestionSelection` | the choice of questions and the sessions made of it | extends `QuestionBank` |
| `ContentFlow` | composes the three: from the file to the learner | `Rosters` bounds the work that goes on at once |
| `*Proofs` | theorems about the module of that name; `AnswerProofs`: about `Grading`, `ReviewPlan` and the three parts of `MCAnswers` together | |
| `MC*` | small instances for TLC | |

The composition is by contract: `JobQueue` is checked and proved to implement
`JobContract`, and the modules that need jobs instantiate `JobContract` instead of
repeating leases and clocks. `Queue!Commit` in an action is the `GuardLease` of
its transaction; `Queue!TakeBack` is a failed attempt, a lost lease, or a crash,
and nothing the attempt held survives it. The bank is composed by extension:
imports, editors and the selection share its variables.

### How state and actions correspond to the code

* **JobQueue.** A row is `[status, kind, subject, attempts, lockedBy, lease, due]`.
  `lease` and `due` are the outcomes of the comparisons of `locked_until` and
  `available_at` with `now()`; `ExpireLease` and `BackoffElapses` let time pass.
  `Claim` skips rows that other polling slots may hold locked
  (`FOR UPDATE SKIP LOCKED`), so jobs are not claimed in strict order.
  `ReleaseExpired` is one UPDATE that fails as a whole when it would break
  `uq_jobs_learning_rebuild_queued_user`. Slots may share a `WORKER_ID`, as two
  processes with the default configuration do.
* **PracticeSession.** One action per transaction. The read an analysis makes
  before it calls the AI is `loadBatch`; its result stays in `batch` and
  `WriteAnalysis` uses it, whatever happened between. Answers are one right and one
  wrong value; `AnswerKind` says what key exists. `failTerminalBusiness` is part of
  `TakeBack`, as it is part of the transaction in the code.
* **ResultPage.** `GetResult` reads the session, its pending jobs, its results and
  their sums with four statements outside any transaction. Each is an action on
  `page`, and anything a session does may happen between two of them. An answer that
  says something is under way, or a request that is lost, leaves the page polling;
  any other answer stays on it.
* **LearningMemory.** `open` holds transactions between their last statement and
  their commit, because what a rebuild counts depends on who has committed. The
  rebuild is split at the statements that read and write. Each result stands for a
  question of its own.
* **Generation.** The history is read at the start of an attempt and once more in
  the transaction that inserts. Adopting a question takes an advisory lock on its
  key until the transaction ends; two transactions can wait for each other, and
  PostgreSQL ends one of them (`BreakDeadlock`, external to the repository).
* **GeneratedChoice.** A choice has an id and a text at each place and a set of right
  ids; the shuffle is any order that exchanges can reach, and the key is what
  `generatedQuestionReuseKey` hashes.
* **Grading** is a function of question and answer; its state machine picks both and
  runs the code once. **ReviewPlan** takes one answer at a step and runs the body of
  the loop of `buildReviewPlans`.
* **AnswerAutosave.** Each opening of the page has entries of its own, as each mount
  of the composable has; `saves` is `entry.inFlight`. A request is sent, taken by
  the server, and then answered, and may be lost on either way; one the browser has
  given up may still arrive (`strays`). Value and mark of a question are one datum.
* **AuthSession.** One account. A row of `auth_sessions` with the number of its
  rotation stands for both of its tokens, because the code always rotates them
  together. Statements that commit by themselves are actions; the transactions of
  logout, password change and reset hold their rows from one action to the next. A
  change holds the account `FOR UPDATE` (`UserLocked`). A reset is four actions:
  `ConsumePasswordResetToken`, `UpdatePasswordTx`, `RevokeUserSessions`, and its
  COMMIT or rollback; its UPDATE holds the account `FOR NO KEY UPDATE`, which the
  insert of a login passes. `ending` are the rows a reset has revoked and not
  committed. A request is one slot of `calls` from the browser to the answer, which
  may get lost. Passwords are numbered; `since` of a row is a history variable.
* **QuestionBank.** Publish, retire, review and revision read without a lock: the
  read puts what it found on the administrator's `desk`, the write uses that.
  **ImportReview**: the publication of an item keeps item and job locked; a saved
  draft replaces the old one whole, with its key, its text and its answer; an approval
  reads and validates one draft, and its UPDATE approves the one it finds. Nothing
  requires that an item with a material key has a text. `approved` and `given` are
  history variables: the draft an approval was written over, and the one a question
  was made of.
  **QuestionSelection**: one transaction counts or chooses from the bank as it is;
  the three orders, the recent sessions that are left out, and the top-up follow the
  queries of `content/store.go` in their order. The order of the books is the one
  ordered function onto a set (`BookOrder`), and the top-up is the loop that appends
  what is not there yet (`Filled`).

## 3. Runs

| Run | Module and bounds | What it shows |
|---|---|---|
| `queue` | 2 slots with one `WORKER_ID`, 2 jobs, 2 attempts, 3 kinds (one without handler), 1 user | `OneOwner`, `RetryBudget`, `WritesFollowAttempts`, `EndIsFinal`, `ImplementsContract`, and `EveryJobEndsUnlessBlocked` under fairness |
| `queue_reaper_blocked` | the same, 2 kinds | fails: `ExpiredIsRecovered` |
| `session` | 1 session (created or generated), 2 questions (one judged by the AI), 2 answers, 2 jobs of 2 attempts, a result page | `GradedAsSubmitted`, `GradingIsDriven`, `VerdictsStand`, `ShownIsFinal`, `SessionsFinish` |
| `session_summary_lost` | 1 session, 1 job | fails: `KnownResultsKept` |
| `memory` | 2 results, one judged by the AI, 2 rebuilds of 2 attempts, 3 timestamps | `StatsCountTheirDue`, `MemoryForgetsTheReset` |
| `memory_coalesced` | 2 results, 2 rebuilds | fails: `DrainedMeansCounted` |
| `memory_reviews_return` | 1 result, 1 rebuild | fails: `ReviewsForgetTheReset` |
| `generation` | 2 accounts, 2 sessions of 2 questions out of 2, 2 days, limit 1, budget 2, 2 attempts of 2 calls | `LimitsHold`, `NoQuestionTwice`, `BankIsSound`, `GenerationEnds` |
| `answers` | page: 1 question, 2 answers, 2 openings, 3 edits, 1 failure; grading: 2 options and an unknown id, lists of up to 2, 2 words in 3 spellings; plan: 2 versions, 2 judges, intervals of 2 to 6 days, 17 days | `UnsavedIsKept`, `PageTellsTheTruth`, `NoDraftComesBack`, `EditsAreSaved`; `GradesAsSpecified`; `StageTakesTime`, `AnswerCountsOnce` |
| `answers_reopened` | 2 openings, 2 edits, no failure | fails: `NewestIsStored` |
| `auth` | 2 browsers with 2 and 1 requests at once, 2 sessions, 1 reset token, 4 requests in all, 1 login per window | `SessionsFollowThePassword`, `LogoutEndsTheSession`, `RefreshIsShared`, `PasswordChangesOnce` |
| `content_flow` | 2 administrators, 2 questions of 2 versions, 2 materials, 1 file of 2 items under one key, 1 replaced draft per item with other key, text or answer, 2 sessions of the learner (1 recent), 1 hidden item | `CatalogueIsSound`, `ImportIsSound`, `CountsAreRight`, `GivenAsAsked`, `OneQuestionPerItem` |

Some properties have several parts, which the modules name: `GradingIsDriven` says
that exactly one job drives a grading session and includes
`PendingOnlyWhileGrading`; `MemoryForgetsTheReset` is about statistics and advice;
`LimitsHold` is `CallsWithinBudget` and `DailyLimitHolds`; `BankIsSound` is
`OneVersionPerKey` and `ActiveIsComplete`; `PageTellsTheTruth` is `ShownIsTyped` and
`SavedIsStored`; `ImportIsSound` has five, on jobs, materials, texts, answer keys and
approvals. The three parts of `answers` share no state, and a behaviour takes
steps of one of them only. The assumptions of `MCGeneration` check, for every
question of up to three options and every order, that the shuffle leaves the reuse
key alone and reaches every order of up to four.

Why the bounds suffice. *Queue*: the interesting cases need two owners of one
row, two rows of one user, and an attempt that is the last; two of each give all
three. *Sessions*: two jobs are a generation and an analysis, or an analysis
and a retry; the second attempt is the last one. *Memory*: two
rebuilds can overlap or follow each other, and three timestamps place a deletion
before, between and after two submissions. *Generation*: two keys in opposite
orders make the deadlock of two accounts; one account has its two sessions on
different days, so that the second one meets the history of the first. *Page*: a
save that is under way, an edit behind it and an edit on the reopened page are
three edits; one failure can hit any of them, or the submission. *Grading*:
repetition, an unknown id and another length already occur with lists of two.
*Plan*: 17 days let a question pass all stages, and a wrong answer restart it.
*Accounts*: `May` gives each slot the requests that can disturb the others: one
browser refreshes, logs out and uses its session with two requests at once while
the other one logs in, changes or resets the password. *Content*: `Rosters`
lets two administrators write, decide or import at once, in the pairs that touch
the same rows, or one of them work while the learner practises (without imports:
the learner sees published questions only, and how they came there makes no
difference).

Deadlock checking is off in all runs: every system here may stop when its bounded
jobs, sessions, requests or days are used up. `SYMMETRY` is used for the two
administrators of `content_flow` only: no definition compares them, and the run
has no liveness property (`OneQuestionPerItem` is about single steps).

### What fails, and why that is recorded

Five runs look for a counterexample and find one; each quotes, under `findings`
in `PROJECT.json`, the document or comment it contradicts.

1. **The reaper blocks** (`queue.go:132`). Two running rebuilds of one user whose
   leases expire make the reaper's UPDATE violate the unique index, so the whole
   statement fails, for all accounts, every minute. `EveryJobEndsUnlessBlocked`
   shows that this is the only obstacle to every job ending.
2. **A finished result is overwritten** (`queue.go:197`). The last attempt commits
   its analysis and dies before the job is completed; the reaper then turns the
   completed session into `analysis_failed` and replaces its summary.
3. **A result is not counted** (`queue.go:38`). `ON CONFLICT DO NOTHING` notices a
   queued rebuild without locking it; the rebuild may count before the
   noticing transaction commits. `StatsCountTheirDue` shows that results committed
   while the rebuild is still queued are counted.
4. **A deleted plan comes back** (`learning/store.go:557`). The plan is replaced
   from results read before the memory was deleted. Statistics and advice do take
   the lock or compare the time of the deletion, and `MemoryForgetsTheReset` holds.
5. **An older answer overwrites a newer one** (`useAnswerAutosave.ts:161`). A
   reopened page does not know of the save its predecessor has under way; the older
   one may be stored last while the page shows the newer one as saved.
   `PageTellsTheTruth` shows that this needs two requests about one question at
   once, and the submission still carries what the page shows.

### Observed, and not stated as a property

The models contain the following behaviours of the code. No document forbids them
clearly, or the effect is small, so that no property is about them.

* A retry brings back a second review session, or a session whose generation failed
  and which has no questions; a deleted session can be answered and submitted.
* An overlapping rebuild drops a mastery mark; an old version of a question,
  answered late, resets its plan.
* A login that compared the old password before it was changed keeps its session;
  so does one whose session is inserted after a reset has revoked the sessions and
  before it commits (`auth/service.go:287`). `SessionsFollowThePassword` is about
  the sessions that were there when the revoking statement ran.
* A result page reads the status of a session before its jobs
  (`practice/service.go:500`, `:514`). When the last attempt of the analysis is given
  up in between, the page stops polling and says "completed" of a session that is
  `analysis_failed`. `ShownIsFinal` names this case and excludes every other one: the
  verdicts and sums on the page are the final ones even then.
* An approval approves the draft it finds, which need not be the one it validated
  (`imports/store.go:234`).
* An item with a material key and no text, published first, makes a question without
  a material; a later item under the key then makes one (`imports/store.go:260`).
* Of two stale decisions about one question (publish, retire, review) both go through:
  `crossed` marks such questions, and `StatusTellsTheTruth` leaves them out.
* A draft that is restored is not saved before an edit or the submission.
* With `unseen_first`, the mode "comprehensive" fills up with questions done before
  (`content/store.go:891`); `docs/优化与扩展执行路线图.md:291` and the comment at
  `content/store.go:819` want only questions never answered. `GivenAsAsked` does not
  count these as given as asked: its part `RecentOnlyToFillUp` leaves the mode out.
* Hiding a wrong item uncovers an older wrong result of the same question
  (`learning/store.go:973`).
* A level together with a knowledge point filters the wrong items by the knowledge
  point alone: the second condition replaces the first, whose parameter is left
  unused (`learning/store.go:868`).
* A blank answer to a question without any key counts neither as confirmed nor as
  judged by the AI (`practice/store.go:463`).
* Two uploads of one file at once make two import jobs (`imports/service.go:55`).

## 4. Fairness

* `JobQueue`: slots poll (`runSlot` loops on a ticker), a handler returns (it runs
  under a deadline) and its outcome is written or abandoned, leases and backoffs
  elapse, and the reaper runs (`Run` starts it in each process on a ticker). All
  weak: polling and reaping repeat for ever. Claims are fair as a whole, not per
  slot. Crashes and clients are not fair.
* `PracticeSession`: only what `JobContract`'s implementation gives: a waiting job is
  claimed, and a granted one is settled or taken back. No step of a handler is
  fair by itself, so liveness does not rest on any attempt succeeding. The
  blocked reaper of finding 1 is the exception to that guarantee; it needs two
  rebuild jobs, which these sessions do not wait for themselves.
* `Generation`: claims, the next step of a handler, and the return of an error. That
  PostgreSQL ends a deadlock is part of the handler's fairness.
* `AnswerAutosave`: a timer fires, the server takes what was sent, and the page hears
  of it. What the learner does, closing a tab and losing a request are not fair;
  `EditsAreSaved` therefore ends at a save, a shown failure, or the page being left.
* `AuthSession` and `ContentFlow` state safety only: what people do is not fair, and
  no request of theirs waits for another one's success.

## 5. Proofs

Checked by TLAPS, for every value of the constants that satisfies the named
assumptions of the modules (sizes are positive, sets of names do not contain the
marks for "none"). `PROJECT.json` lists the theorems that state what the runs check.

* **The job table** (`JobQueueProofs`). The properties are not inductive: that one
  slot owns a job follows from attempts being given out once. `IInv` adds to the
  type and the retry budget: a polling slot remembers no job (`IdleInv`), the
  attempt of a working slot is one its row has reached (`ClaimInv`), no two working
  slots hold the same attempt of one job (`ClaimsDiffer`), and no write belongs to a
  future attempt (`AttemptInv`). Facts about rows come first, then what each action
  may do to rows and slots (`RowsGrow`, `SlotsKeepOrDrop`, `ClaimGivesOut`), then one
  lemma for each conjunct. From it: `TypeCorrect`, `RetryBudgetHolds`,
  `OneOwnerHolds`, `WritesFollowAttemptsHolds`, `EndIsFinalHolds`, and
  `ContractImplemented`, the refinement of `JobContract` step by step. The last one
  is what the other modules rest on. The proof does not use that `WORKER_ID`s
  differ: sharing one is harmless.
* **Practice sessions** (`PracticeSessionProofs`). That a verdict stands needs to know
  who may still give one. `IInv` says that only a granted job has a handler and every
  job has a session (`JobsInv`), nothing has been graded before the submission
  (`FreshInv`), only the AI leaves a result open (`OpenIsForTheAI`), a session has at
  most one analysis queued or running, and one while it is grading (`DrivenInv`), and
  an analysis that has read the session knows every open result, one that has written
  leaves none (`HandlerInv`). From it `TypeCorrect`,
  `GradedAsSubmittedHolds`, `GradingIsDrivenHolds` and, as a property of steps,
  `VerdictsStandHolds`. `ShownIsFinalHolds` is about `PageSpec`, with a step for each
  of the four reads. `FinalInv`: the analysis of a session that has failed has already
  refused. `PageInv` says, of a page whose session was given no analysis since it began
  to read, what goes on to be true after each read: the status is the one read, or the
  analysis was given up since; after the second the result is final; results and sums
  are still the ones there.
* **Learning memory** (`LearningMemoryProofs`). The heart is `DueInv`: a rebuild that
  owes a result finds it when it counts, and once it has written it the result is in
  the statistics and in whatever another rebuild is about to write. It needs that one
  rebuild is queued (`QueueInv`) and one counts (`OneCounts`), and that under the lock
  of the memory row no deletion comes between (`CountingInv`, `ResetInv`,
  `AskedInv`). From it `TypeCorrect`, `StatsCountTheirDueHolds` and
  `MemoryForgetsTheResetHolds`.
* **Generation** (`GenerationProofs`). The budget holds because a call is paid for
  before it is made (`BudgetInv`); the daily limit by counting what an account started
  on a day (`DayInv`, with the cardinality of one more element). `NoQuestionTwiceHolds`
  answers why the history needs no lock: only a generating session persists and an
  account has one of them (`OneInv`), so the comparison with the history stays true
  while the transaction is open (`HistoryInv`). `OneVersionPerKeyHolds` rests on the
  advisory locks (`LockInv`). None of these needs to know what the filter of repeated
  questions returns. `TypeCorrect` and `BankIsSoundHolds` do: `FreshIsNew` shows, by
  induction over the answer of the AI, that it lets through new questions only, none
  twice; `FoundInv` adds that an attempt never holds more than were requested, and that
  what an open transaction looked up is in the bank or inserted by itself.
* **The shuffle** (also `GenerationProofs`). `ReuseKeySurvivesTheShuffle` and
  `VerdictsFollowTheTexts`, for any number of options and any order; and
  `ShufflesReachEveryOrder`: whatever order is wanted, the text for a place is never
  among those the loop has placed already, by induction from the last place down.
* **Accounts** (`AuthSessionProofs`). For any number of browsers, requests and sessions:
  `TypeCorrect`; `SessionsFollowThePasswordHolds`, since nobody is logged in to an
  account that is not there, nor about to be (`AccountInv`), one change or reset holds
  the account at a time (`HoldInv`), and the rows a reset has revoked stay so until it
  commits or lets them go (`EndingInv`); `PasswordChangesOnceHolds`,
  by one change holding the account and one reset holding its token (`ChangeInv`,
  `ResetInv`, `RequestInv`); `LogoutEndsTheSessionHolds`, which needs that every token
  in a browser or a request was issued (`JarKnown`, `CallsKnown`) and what a logout has
  revoked by the time it runs; and `RefreshIsSharedHolds`. The last one needs to know
  where a session can be: in one browser and in one request at a time (`HeldInv`), so
  that nobody else can rotate it, and that what a browser keeps is current or about to
  be replaced unless an answer was lost (`CurrentInv`).
* **The page** (`AnswerAutosaveProofs`). For any number of questions, openings, edits and
  lost requests. `AutosaveIInv` says where a save can be (`PagesInv`), that an entry
  with a save under way and no edit since says what was sent (`SavesInv`), that the page
  is right about the end of the session (`ClosedInv`), that a draft is what was entered
  last and stays until the server confirmed it (`DraftsInv`), and, for a question that
  never had two requests under way at once, that this one request is all that can
  change what the server has, and that there is a draft for as long as something is
  still to come (`AgreeInv`). From it `AutosaveTypeCorrect`, `UnsavedIsKeptHolds`,
  `PageTellsTheTruthHolds`, `NoDraftComesBackHolds`.
* **Grading** (`AnswerProofs`). `SameOptionSetIsEquality`: comparing lengths and
  inclusion one way, as `sameOptionSet` does, decides equality because lists with
  repetitions are refused on both sides; the count is by an injection into the
  options (`DistinctSize`). With it `GradesAsSpecifiedHolds` for all options, lists
  and texts.
* **Review plan** (also `AnswerProofs`). `ReplayIsIdempotent`: the body of the loop
  leaves a plan alone that has already seen the answer, since every interval is
  positive. `AnswerCountsOnceHolds` follows for all histories. `StageTakesTimeHolds`
  compares the day of an answer with the sum of the intervals passed since the last
  wrong one; what is inductive is the date on which the plan is due next (`DueInv`),
  also when the judge, and with it the table of intervals, changes in between.
  `AnswerTypesCorrect` puts the three parts of an answer's way together.
* **Questions and imports** (`ContentFlowProofs`). For any number of administrators,
  questions, jobs and items. The catalogue is right although every operation writes
  what it read without a lock, because of what a read goes on to be true of
  (`ReadingInv`): the version it names stays there, the number it will insert is at
  most the next one, so that the unique index refuses whoever comes second, and a draft
  stays one unless somebody crossed it. A file reaches the learners as it
  stands approved: an approval marks the draft it is written over, a draft saved later
  takes it back, and a publication holds its item and job (`PublicationInv`), so that
  the draft it has read is the approved one when it writes, and the material it has
  found for the key is the one the other questions of the key started out with
  (`Agreed`). `FlowIInv` is their conjunction; it gives `CatalogueIsSoundHolds`,
  `ImportIsSoundHolds` and, as a property of steps, `OneQuestionPerItemHolds`.
* **The choice of questions** (also `ContentFlowProofs`). `BookOrderSorts`: the order
  by four numbers and the id is total (`OrderIsTotal`), so that the number of questions
  before a question is its place, and the ordered sequence of a set exists and has each
  of its elements once. `QueryGives` says what LIMIT leaves of it, and `FilledGives`, by
  induction over the second query's rows, what the top-up adds. `SelectGives` puts them
  together for every filter and every state of the bank: as many different questions as
  the count promises, in order, and no excluded one unless every other one is there too.
  With `LearnIInv`, which knows that the wrong questions a request has read were answered
  wrongly, follow `CountsAreRightHolds` and `GivenAsAskedHolds`; with `FlowIInv`,
  `FlowTypeCorrect`.

Each inductive invariant was model-checked before it was proved.

Every invariant and every action property that a run checks is a theorem, and so is
the refinement of `JobContract`. What is only model-checked is liveness
(`EveryJobEndsUnlessBlocked`, `SessionsFinish`, `GenerationEnds`, `EditsAreSaved`),
since neither `ENABLED` nor fairness rules are available to the provers.

How induction over data is done. The library's induction theorems take an operator as
a parameter, and no installed prover can instantiate them. The proofs use a set
instead: the numbers for which a fact holds contain 0 and the successor of each member,
and a number that is not among them would have a least one (`NaturalInduction`, by
`WFMin` and `NatLessThanWellFounded`). A recursive function is what `CHOOSE` picks among
the solutions of its equation; that there is one, for each upper bound of its domain, is
the first induction, and what the solution returns the second (`FreshIsNew`,
`FilledGives`, `ShufflesReachEveryOrder`, and `Earliest` in `AnswerProofs`). The provers cannot expand `FoldLeft`,
`SelectSeq` and `SortSeq`, nor read a set that is filtered by a pattern of variables:
the definitions that are proved about use recursive functions, `CHOOSE` and unions in
their place. No module declares a `RECURSIVE` operator.

## 6. Not modelled

* Text of questions, prompts, validation of what the AI writes, and similarity of
  questions: the AI's answer is arbitrary.
* Reading pages, lists and reports; sources and sections; the preferences of a user.
* `grade_practice_item_ai` and `explain_practice_item_ai`: nothing enqueues them any
  more. The assistance of administrators by the AI and the audit of its calls.
* The pool of connections (`internal/store`): a request that asks for a second
  connection while it holds one (`practice/service.go:296`) can wait for others that
  do the same. The hazard is listed; the model would be of the pool alone.
* The recovery of failed AI verdicts before a rebuild of the learning memory
  (`RecoverAIGeneratedObjectiveGrades`, `learning/handler.go:54`): it grades again the
  objective questions of generated sessions whose answers are stored, which an older
  version had failed to grade. The submission grades these by the stored answers
  (`practice/service.go:418`), so that no such verdict is pending or fails any more.
* Catalogue, administration, HTTP layer, configuration, OCR service, scripts,
  commands: no protocol between two actors.

## 7. Plan

Order: what several actors write comes first, and each module is written so that
it can be proved about (constants with assumptions, one action per operation,
invariants as named conjuncts, no `RECURSIVE`).

1. done: `JobQueue` and `JobContract`, the refinement and its proof.
2. done: `PracticeSession`, `LearningMemory`, `Generation` over the contract, and the
   proofs of their safety invariants.
3. done: `Grading`, `ReviewPlan` and `GeneratedChoice` with proofs.
4. done: `AuthSession` with proofs.
5. done: `AnswerAutosave` with proofs.
6. done: `QuestionBank`, `ImportReview`, `QuestionSelection` and `ContentFlow` with
   proofs.
7. left: an abstract life cycle of a session that `PracticeSession` implements; the pool
   of connections.
