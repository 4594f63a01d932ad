------------------------------ MODULE Generation ------------------------------
(***************************************************************************)
(* The generation of private practice sessions by the AI                   *)
(* (backend/internal/ai/generation.go): admission, the persistent budget   *)
(* of model calls, the filter of repeated questions, and the bank of       *)
(* generated questions that all accounts share.                            *)
(*                                                                         *)
(* A question is known by its reuse key; that questions merely resemble    *)
(* each other, and what makes one valid, is left to the answer of the AI.  *)
(* The jobs are those of JobContract, one for each session.                *)
(***************************************************************************)
EXTENDS Naturals, FiniteSets, Sequences, SequencesExt

CONSTANTS
  Accounts,
  Sessions,     \* generated sessions that may be created
  Keys,         \* reuse keys of the questions the AI can think of
  Requested,    \* questions in a session
  Budget,       \* ai_generation_call_budget
  DailyLimit,   \* sessions an account may start a day
  MaxCalls,     \* maxGenerationCalls, in one attempt
  MaxAttempts,  \* jobs.max_attempts
  MaxDay        \* bound: days that pass

ASSUME NumbersAssumption ==
  /\ {Requested, Budget, DailyLimit, MaxCalls, MaxAttempts} \subseteq Nat \ {0}
  /\ MaxDay \in Nat

VARIABLES
  day,        \* the UTC day of the server
  sessions,   \* practice_sessions
  items,      \* practice_items: the questions of each session
  bank,       \* question_versions that carry a reuse key
  handler,    \* what the handler of each job holds
  asked,      \* how often the AI was asked for each session (history)
  state, grants, committed   \* the jobs, as JobContract sees them

queue == <<state, grants, committed>>
vars == <<day, sessions, items, bank, handler, asked, queue>>

Queue == INSTANCE JobContract WITH Jobs <- Sessions, Limit <- MaxAttempts

Session == [status : {"absent", "generating", "generation_failed", "active"},
            owner : Accounts \cup {"none"}, used : Nat, day : 0..MaxDay, deleted : {"no", "yes"}]
NoSession == [status |-> "absent", owner |-> "none", used |-> 0, day |-> 0, deleted |-> "no"]

\* ready: another call may be made.  reserved: a call is paid for.  adopting: the
\* transaction of persistGeneratedQuestions is open.  over: return nil.  failing:
\* generationRetry.  refused: return the error.
Steps == {"idle", "claimed", "ready", "reserved", "adopting", "over", "failing", "refused"}

\* blocked: keys of the history.  found: questions accepted so far, in their order.
\* adopted: how many of them the open transaction has looked up; it holds the locks
\* of these, and has inserted those the bank did not have.
Handler == [step : Steps, calls : 0..MaxCalls, blocked : SUBSET Keys, found : Seq(Keys),
            adopted : 0..Requested, inserted : SUBSET Keys]
NotRunning == [step |-> "idle", calls |-> 0, blocked |-> {}, found |-> <<>>,
               adopted |-> 0, inserted |-> {}]

Init ==
  /\ day = 0
  /\ sessions = [s \in Sessions |-> NoSession]
  /\ items = [s \in Sessions |-> {}]
  /\ bank = {}
  /\ handler = [s \in Sessions |-> NotRunning]
  /\ asked = [s \in Sessions |-> 0]
  /\ Queue!Init

-----------------------------------------------------------------------------
(* Admission                                                               *)

Generating(a) == {s \in Sessions : sessions[s].owner = a /\ sessions[s].status = "generating"}

VisibleToday(a) ==
  {s \in Sessions : /\ sessions[s].owner = a /\ sessions[s].day = day
                    /\ sessions[s].status # "absent" /\ sessions[s].deleted = "no"}

\* What counts against the limit: failed and deleted sessions too.
StartedToday(a) ==
  {s \in Sessions : sessions[s].owner = a /\ sessions[s].status # "absent" /\ sessions[s].day = day}

AdmittedInParallel(a) == Cardinality(StartedToday(a)) < DailyLimit

\* Under the lock of the account.  While a session is generating, a request is
\* answered with that session or refused.
Admitted(a) == Generating(a) = {} /\ Cardinality(StartedToday(a)) < DailyLimit

CreateGeneratedSession(a, s) ==
  /\ sessions[s].status = "absent" /\ Admitted(a)
  /\ sessions' = [sessions EXCEPT ![s] =
       [status |-> "generating", owner |-> a, used |-> 0, day |-> day, deleted |-> "no"]]
  /\ Queue!Submit(s)
  /\ UNCHANGED <<day, items, bank, handler, asked>>

DeleteSession(s) ==
  /\ sessions[s].status \in {"active", "generation_failed"} /\ sessions[s].deleted = "no"
  /\ sessions' = [sessions EXCEPT ![s] = [sessions[s] EXCEPT !.deleted = "yes"]]
  /\ UNCHANGED <<day, items, bank, handler, asked, queue>>

NextDay ==
  /\ day < MaxDay
  /\ day' = day + 1
  /\ UNCHANGED <<sessions, items, bank, handler, asked, queue>>

-----------------------------------------------------------------------------
(* Attempts                                                                *)

Moves(s, before, after) ==
  /\ handler[s].step = before
  /\ handler' = [handler EXCEPT ![s] = [handler[s] EXCEPT !.step = after]]

\* The function that made the calls returns; what it held is gone.
Returns(s, before, after) ==
  /\ handler[s].step = before
  /\ handler' = [handler EXCEPT ![s] = [NotRunning EXCEPT !.step = after]]

Claim(s) ==
  /\ Queue!Grant(s)
  /\ Moves(s, "idle", "claimed")
  /\ UNCHANGED <<day, sessions, items, bank, asked>>

Complete(s) ==
  /\ handler[s].step = "over"
  /\ Queue!Settle(s)
  /\ handler' = [handler EXCEPT ![s] = NotRunning]
  /\ UNCHANGED <<day, sessions, items, bank, asked>>

FailedAsJob(session) ==
  IF session.status = "generating" THEN [session EXCEPT !.status = "failed"] ELSE session

Failed(session) ==
  IF session.status = "generating" THEN [session EXCEPT !.status = "generation_failed"] ELSE session

\* The handler returned an error, or the attempt crashed or lost its lease.  An open
\* transaction is rolled back; after the last attempt the session fails.
TakeBack(s) ==
  /\ Queue!TakeBack({s})
  /\ handler' = [handler EXCEPT ![s] = NotRunning]
  /\ sessions' = IF grants[s] = MaxAttempts THEN [sessions EXCEPT ![s] = Failed(sessions[s])] ELSE sessions
  /\ UNCHANGED <<day, items, bank, asked>>

\* markGenerationFailed, when no further attempt can help: the handler returns nil.
GiveUp(s) ==
  /\ Queue!Commit(s)
  /\ sessions' = [sessions EXCEPT ![s] = Failed(sessions[s])]
  /\ Returns(s, handler[s].step, "over")

\* Any other error; the last attempt marks the session first.
generationRetry(s) ==
  /\ Moves(s, "failing", "refused")
  /\ IF grants[s] < MaxAttempts
     THEN UNCHANGED <<sessions, queue>>
     ELSE Queue!Commit(s) /\ sessions' = [sessions EXCEPT ![s] = Failed(sessions[s])]
  /\ UNCHANGED <<day, items, bank, asked>>

-----------------------------------------------------------------------------
(* Asking the AI                                                           *)

\* loadGeneratedQuestionKeys: all questions the account was ever given.
History(a) == UNION {items[s] : s \in {x \in Sessions : sessions[x].owner = a}}

\* The attempt reads the session and the history of the account.
Start(s) ==
  /\ handler[s].step = "claimed"
  /\ handler' = [handler EXCEPT ![s] =
       IF sessions[s].status = "generating"
       THEN [handler[s] EXCEPT !.step = "ready", !.blocked = History(sessions[s].owner)]
       ELSE [handler[s] EXCEPT !.step = "over"]]
  /\ UNCHANGED <<day, sessions, items, bank, asked, queue>>

WantsMore(s) == Len(handler[s].found) < Requested /\ handler[s].calls < MaxCalls

AttemptHasBudget(s) == handler[s].calls < Budget

HasBudget(s) == sessions[s].used < Budget

\* Counted and committed before the call is made.
reserveGenerationCall(s) ==
  /\ WantsMore(s) /\ HasBudget(s) /\ sessions[s].status = "generating"
  /\ Moves(s, "ready", "reserved")
  /\ Queue!Commit(s)
  /\ sessions' = [sessions EXCEPT ![s] = [sessions[s] EXCEPT !.used = sessions[s].used + 1]]
  /\ UNCHANGED <<day, items, bank, asked>>

BudgetExhausted(s) ==
  /\ handler[s].step = "ready" /\ WantsMore(s) /\ ~HasBudget(s)
  /\ GiveUp(s)
  /\ UNCHANGED <<day, items, bank, asked>>

\* The answer of the AI after the validation of single questions: at most as many as
\* are missing, in the order given, repetitions included.
Answers(s) == SeqOf(Keys, Requested - Len(handler[s].found))

\* filterGeneratedQuestionDuplicates: neither an earlier question nor one twice.
Fresh(answer, blocked) ==
  LET kept[n \in 0..Len(answer)] ==
        IF n = 0 THEN <<>>
        ELSE IF answer[n] \in blocked \cup Range(kept[n - 1]) THEN kept[n - 1]
        ELSE Append(kept[n - 1], answer[n])
  IN  kept[Len(answer)]

\* The AI answers; an answer that is not usable at all is the empty one.
RunPrompt(s) ==
  /\ handler[s].step = "reserved"
  /\ asked' = [asked EXCEPT ![s] = asked[s] + 1]
  /\ \E answer \in Answers(s) :
       handler' = [handler EXCEPT ![s] =
         [handler[s] EXCEPT !.step = "ready", !.calls = handler[s].calls + 1,
            !.found = handler[s].found
                      \o Fresh(answer, handler[s].blocked \cup Range(handler[s].found))]]
  /\ UNCHANGED <<day, sessions, items, bank, queue>>

\* The call fails: worth another attempt, or final (nonRetryableGenerationError).
RunPromptFails(s) ==
  /\ handler[s].step = "reserved"
  /\ asked' = [asked EXCEPT ![s] = asked[s] + 1]
  /\ \/ Returns(s, "reserved", "failing") /\ UNCHANGED <<sessions, queue>>
     \/ GiveUp(s)
  /\ UNCHANGED <<day, items, bank>>

HasSome(s) == handler[s].found # <<>>

HasAll(s) == Len(handler[s].found) = Requested

NotEnough(s) ==
  /\ ~WantsMore(s) /\ ~HasAll(s)
  /\ Returns(s, "ready", "failing")
  /\ UNCHANGED <<day, sessions, items, bank, asked, queue>>

-----------------------------------------------------------------------------
(* persistGeneratedQuestions                                               *)

Questions(s) == {handler[s].found[i] : i \in 1..Len(handler[s].found)}

\* The transaction begins by comparing with the history once more.
BeginPersist(s) ==
  /\ handler[s].step = "ready" /\ ~WantsMore(s) /\ HasAll(s) /\ state[s] = "granted"
  /\ IF Questions(s) \cap History(sessions[s].owner) = {}
     THEN Moves(s, "ready", "adopting") ELSE Returns(s, "ready", "failing")
  /\ UNCHANGED <<day, sessions, items, bank, asked, queue>>

Adopted(s) == {handler[s].found[i] : i \in 1..handler[s].adopted}

NothingLocked(s) == {}

\* Advisory locks other transactions hold until they end.
LockedByOthers(s) == UNION {Adopted(t) : t \in Sessions \ {s}}

NextKey(s) == handler[s].found[handler[s].adopted + 1]

Adopting(s) == handler[s].step = "adopting" /\ handler[s].adopted < Len(handler[s].found)

\* Lock the key, then take the question of the bank or insert it.
findOrAdoptGeneratedQuestion(s) ==
  /\ Adopting(s)
  /\ NextKey(s) \notin LockedByOthers(s)
  /\ handler' = [handler EXCEPT ![s] =
       [handler[s] EXCEPT !.adopted = handler[s].adopted + 1,
                          !.inserted = handler[s].inserted \cup ({NextKey(s)} \ bank)]]
  /\ UNCHANGED <<day, sessions, items, bank, asked, queue>>

CommitPersist(s) ==
  /\ handler[s].step = "adopting" /\ handler[s].adopted = Len(handler[s].found)
  /\ Queue!Commit(s)
  /\ bank' = bank \cup handler[s].inserted
  /\ items' = [items EXCEPT ![s] = Adopted(s)]
  /\ sessions' = [sessions EXCEPT ![s] =
       IF sessions[s].status = "generating" THEN [sessions[s] EXCEPT !.status = "active"]
       ELSE sessions[s]]
  /\ handler' = [handler EXCEPT ![s] = [NotRunning EXCEPT !.step = "over"]]
  /\ UNCHANGED <<day, asked>>

Blocks(t, s) == Adopting(s) /\ NextKey(s) \in Adopted(t)

NeverDetected(s) == FALSE

\* Transactions wait for each other; PostgreSQL ends one of them.
Deadlocked(s) == \E t \in Sessions \ {s} : Blocks(t, s) /\ Blocks(s, t)

BreakDeadlock(s) ==
  /\ Deadlocked(s)
  /\ Returns(s, "adopting", "failing")
  /\ UNCHANGED <<day, sessions, items, bank, asked, queue>>

-----------------------------------------------------------------------------
(* The specification                                                       *)

\* What the handler does next of its own accord.
HandlerStep(s) ==
  \/ Start(s) \/ reserveGenerationCall(s) \/ BudgetExhausted(s)
  \/ RunPrompt(s) \/ RunPromptFails(s) \/ NotEnough(s)
  \/ BeginPersist(s) \/ findOrAdoptGeneratedQuestion(s) \/ CommitPersist(s)
  \/ BreakDeadlock(s) \/ generationRetry(s) \/ Complete(s)

Next ==
  \/ \E s \in Sessions : \/ \E a \in Accounts : CreateGeneratedSession(a, s)
                         \/ DeleteSession(s)
                         \/ Claim(s) \/ HandlerStep(s) \/ TakeBack(s)
  \/ NextDay

Spec == Init /\ [][Next]_vars

Refused(s) == handler[s].step = "refused" /\ TakeBack(s)

Fairness == \A s \in Sessions : /\ WF_vars(Claim(s)) /\ WF_vars(HandlerStep(s))
                                /\ WF_vars(Refused(s))

FairSpec == Spec /\ Fairness

-----------------------------------------------------------------------------
(* Properties                                                              *)

\* Every variable has its type.
TypeOK ==
  /\ day \in 0..MaxDay
  /\ sessions \in [Sessions -> Session]
  /\ items \in [Sessions -> SUBSET Keys]
  /\ bank \subseteq Keys
  /\ handler \in [Sessions -> Handler]
  /\ asked \in [Sessions -> Nat]

\* However attempts fail, crash and are repeated, the AI is asked at most Budget
\* times for a session.
CallsWithinBudget == \A s \in Sessions : asked[s] <= Budget

\* An account starts at most DailyLimit sessions a day; failing and deleting them
\* does not bring any back.
DailyLimitHolds ==
  \A a \in Accounts, d \in 0..MaxDay :
    Cardinality({s \in Sessions : sessions[s].owner = a /\ sessions[s].status # "absent" /\ sessions[s].day = d})
      <= DailyLimit

\* Neither the AI nor the learners' limit is exceeded, whatever fails in between.
LimitsHold == CallsWithinBudget /\ DailyLimitHolds

\* An account is never given a question twice, although the history is compared
\* before the calls and once more before the insert, and never locked.
NoQuestionTwice ==
  \A s, t \in Sessions : s # t /\ sessions[s].owner = sessions[t].owner => items[s] \cap items[t] = {}

\* No insert meets the unique index on the reuse key: a key is in the bank, or about
\* to be inserted by one transaction.
OneVersionPerKey ==
  \A s \in Sessions :
    /\ handler[s].inserted \cap bank = {}
    /\ \A t \in Sessions \ {s} : handler[s].inserted \cap handler[t].inserted = {}

\* A session that can be answered has all its questions, and none that is missing
\* from the bank.
ActiveIsComplete ==
  \A s \in Sessions : IF sessions[s].status = "active"
                      THEN Cardinality(items[s]) = Requested /\ items[s] \subseteq bank
                      ELSE items[s] = {}

\* What a learner is given is complete, and in the bank once.
BankIsSound == OneVersionPerKey /\ ActiveIsComplete

\* Every generation ends, also when transactions wait for each other.
GenerationEnds == \A s \in Sessions : sessions[s].status = "generating" ~> sessions[s].status # "generating"

=============================================================================
