-------------------------- MODULE GenerationProofs --------------------------
(***************************************************************************)
(* What holds of the generation for any number of accounts, sessions,      *)
(* questions and attempts.                                                 *)
(*                                                                         *)
(* IInv takes the questions found for any values: limits and locks do not  *)
(* depend on what the filter lets through.  FoundInv, on top of it, says   *)
(* what an attempt has found, by induction over the answer of the AI.      *)
(***************************************************************************)
EXTENDS Generation, GeneratedChoice, FiniteSetTheorems, WellFoundedInduction, TLAPS

-----------------------------------------------------------------------------
(* The inductive invariant                                                 *)

JobStates == {"unknown", "waiting", "granted", "settled", "given up"}

\* Types, but for the questions.
Typed ==
  /\ day \in 0..MaxDay
  /\ sessions \in [Sessions -> Session]
  /\ asked \in [Sessions -> Nat]
  /\ DOMAIN items = Sessions /\ items = [s \in Sessions |-> items[s]]
  /\ handler = [s \in Sessions |-> handler[s]]
  /\ \A s \in Sessions :
       handler[s] \in [step : Steps, calls : {handler[s].calls}, blocked : {handler[s].blocked},
                       found : {handler[s].found}, adopted : Nat, inserted : {handler[s].inserted}]
  /\ state \in [Sessions -> JobStates]

\* A session that was never started has no job; only a granted job has a handler.
JobsInv ==
  \A s \in Sessions :
    /\ sessions[s].status = "absent" <=> state[s] = "unknown"
    /\ handler[s].step # "idle" => state[s] = "granted"
    /\ sessions[s].status = "absent" => asked[s] = 0 /\ items[s] = {}

\* A call is paid for before it is made.
Owed(s) == IF handler[s].step = "reserved" THEN 1 ELSE 0

BudgetInv == \A s \in Sessions : asked[s] + Owed(s) <= sessions[s].used /\ sessions[s].used <= Budget

\* The sessions an account started on a day, which is not in the future.
On(a, d) == {s \in Sessions : sessions[s].owner = a /\ sessions[s].status # "absent" /\ sessions[s].day = d}

DayInv ==
  /\ \A s \in Sessions : sessions[s].status # "absent" => sessions[s].day <= day
  /\ \A a \in Accounts, d \in Nat : IsFiniteSet(On(a, d)) /\ Cardinality(On(a, d)) <= DailyLimit

\* An attempt that asks or persists has its session generating, and that is the only
\* one of the account.
Working == {"ready", "reserved", "adopting"}

OneInv ==
  /\ \A s \in Sessions : handler[s].step \in Working => sessions[s].status = "generating"
  /\ \A s, t \in Sessions : /\ sessions[s].status = "generating" /\ sessions[t].status = "generating"
                            /\ sessions[s].owner = sessions[t].owner
                            => s = t

\* Only an open transaction holds locks and has inserted questions; it holds the locks
\* of what it inserted.
LockInv ==
  \A s \in Sessions :
    /\ handler[s].step # "adopting" => handler[s].adopted = 0 /\ handler[s].inserted = {}
    /\ handler[s].inserted \subseteq Adopted(s) /\ handler[s].inserted \cap bank = {}
    /\ \A t \in Sessions \ {s} : Adopted(s) \cap Adopted(t) = {}

\* The comparison with the history stays true while the transaction is open.
HistoryInv ==
  \A s, t \in Sessions :
    handler[s].step = "adopting" /\ sessions[t].owner = sessions[s].owner => Questions(s) \cap items[t] = {}

IInv ==
  /\ Typed /\ JobsInv /\ BudgetInv /\ DayInv /\ OneInv /\ LockInv /\ HistoryInv
  /\ NoQuestionTwice

-----------------------------------------------------------------------------
(* Steps of one session                                                    *)

\* A session and its attempt move on while the attempt has looked up no question:
\* the session is not restarted, it stays paid for, and an open transaction has
\* compared its questions with the history.
LEMMA SessionStep ==
  ASSUME IInv, NEW s \in Sessions,
         UNCHANGED <<day, items, bank>>,
         sessions' \in [Sessions -> Session], asked' \in [Sessions -> Nat],
         state' \in [Sessions -> JobStates],
         handler' = [x \in Sessions |-> handler'[x]],
         handler'[s] \in [step : Steps, calls : {handler'[s].calls}, blocked : {handler'[s].blocked},
                          found : {handler'[s].found}, adopted : {0}, inserted : {{}}],
         \A x \in Sessions : x # s => /\ sessions'[x] = sessions[x] /\ handler'[x] = handler[x]
                                      /\ asked'[x] = asked[x] /\ state'[x] = state[x],
         sessions'[s].owner = sessions[s].owner, sessions'[s].day = sessions[s].day,
         sessions[s].status # "absent", sessions'[s].status # "absent",
         sessions'[s].status = "generating" => sessions[s].status = "generating",
         state'[s] # "unknown", handler'[s].step # "idle" => state'[s] = "granted",
         asked'[s] + (IF handler'[s].step = "reserved" THEN 1 ELSE 0) <= sessions'[s].used,
         sessions'[s].used <= Budget,
         handler'[s].step \in Working => sessions'[s].status = "generating",
         handler'[s].step = "adopting" =>
           \A t \in Sessions : sessions[t].owner = sessions[s].owner => Questions(s)' \cap items[t] = {}
  PROVE  IInv'
<1>1. Typed'
  <2>1. \A x \in Sessions :
          handler'[x] \in [step : Steps, calls : {handler'[x].calls}, blocked : {handler'[x].blocked},
                           found : {handler'[x].found}, adopted : Nat, inserted : {handler'[x].inserted}]
    <3> TAKE x \in Sessions
    <3>1. CASE x = s
      BY <3>1
    <3>2. CASE x # s
      BY <3>2 DEF IInv, Typed
    <3> QED
      BY <3>1, <3>2
  <2>2. DOMAIN items' = Sessions /\ items' = [x \in Sessions |-> items'[x]] /\ day' \in 0..MaxDay
    BY DEF IInv, Typed
  <2> QED
    BY <2>1, <2>2 DEF Typed, JobStates
<1>2. JobsInv'
  BY DEF IInv, JobsInv
<1>3. BudgetInv'
  <2> SUFFICES ASSUME NEW x \in Sessions
               PROVE  /\ asked'[x] + (IF handler'[x].step = "reserved" THEN 1 ELSE 0) <= sessions'[x].used
                      /\ sessions'[x].used <= Budget
    BY DEF BudgetInv, Owed
  <2>1. CASE x = s
    BY <2>1
  <2>2. CASE x # s
    BY <2>2 DEF IInv, BudgetInv, Owed
  <2> QED
    BY <2>1, <2>2
<1>4. DayInv'
  <2>1. \A x \in Sessions : /\ sessions'[x].owner = sessions[x].owner /\ sessions'[x].day = sessions[x].day
                            /\ sessions'[x].status = "absent" <=> sessions[x].status = "absent"
    <3> TAKE x \in Sessions
    <3>1. CASE x = s
      BY <3>1
    <3>2. CASE x # s
      BY <3>2
    <3> QED
      BY <3>1, <3>2
  <2>2. \A a \in Accounts, d \in Nat : On(a, d)' = On(a, d)
    BY <2>1 DEF On
  <2> QED
    BY <2>1, <2>2 DEF IInv, DayInv
<1>5. OneInv'
  <2>1. \A x \in Sessions : /\ sessions'[x].status = "generating" => sessions[x].status = "generating"
                            /\ sessions'[x].owner = sessions[x].owner
    <3> TAKE x \in Sessions
    <3>1. CASE x = s
      BY <3>1
    <3>2. CASE x # s
      BY <3>2
    <3> QED
      BY <3>1, <3>2
  <2>2. \A x \in Sessions : handler'[x].step \in Working => sessions'[x].status = "generating"
    BY DEF IInv, OneInv
  <2>3. \A x, y \in Sessions : /\ sessions'[x].status = "generating" /\ sessions'[y].status = "generating"
                               /\ sessions'[x].owner = sessions'[y].owner
                               => x = y
    BY <2>1 DEF IInv, OneInv
  <2> QED
    BY <2>2, <2>3 DEF OneInv
<1>6. LockInv'
  <2>1. Adopted(s)' = {} /\ handler'[s].inserted = {} /\ handler'[s].adopted = 0
    BY DEF Adopted
  <2>2. \A x \in Sessions : x # s => Adopted(x)' = Adopted(x)
    BY DEF Adopted
  <2>3. \A x \in Sessions : handler'[x].step # "adopting" => handler'[x].adopted = 0 /\ handler'[x].inserted = {}
    BY <2>1 DEF IInv, LockInv
  <2>4. \A x \in Sessions : handler'[x].inserted \subseteq Adopted(x)' /\ handler'[x].inserted \cap bank' = {}
    BY <2>1, <2>2 DEF IInv, LockInv
  <2>5. \A x \in Sessions : \A t \in Sessions \ {x} : Adopted(x)' \cap Adopted(t)' = {}
    BY <2>1, <2>2 DEF IInv, LockInv
  <2> QED
    BY <2>3, <2>4, <2>5 DEF LockInv
<1>7. HistoryInv'
  <2> SUFFICES ASSUME NEW x \in Sessions, NEW t \in Sessions,
                      handler'[x].step = "adopting", sessions'[t].owner = sessions'[x].owner
               PROVE  Questions(x)' \cap items'[t] = {}
    BY DEF HistoryInv
  <2>1. sessions[t].owner = sessions[x].owner
    BY DEF IInv
  <2>2. CASE x = s
    BY <2>1, <2>2
  <2>3. CASE x # s
    <3>1. Questions(x)' = Questions(x)
      BY <2>3 DEF Questions
    <3>2. handler[x].step = "adopting"
      BY <2>3
    <3> QED
      BY <2>1, <3>1, <3>2 DEF IInv, HistoryInv
  <2> QED
    BY <2>2, <2>3
<1>8. NoQuestionTwice'
  BY DEF IInv, NoQuestionTwice
<1> QED
  BY <1>1, <1>2, <1>3, <1>4, <1>5, <1>6, <1>7, <1>8, Zenon DEF IInv

\* A session that has a handler was started, and its job is granted.
LEMMA RunningFact ==
  ASSUME IInv, NEW s \in Sessions, handler[s].step # "idle"
  PROVE  state[s] = "granted" /\ sessions[s].status # "absent"
BY DEF IInv, JobsInv

\* Outside the transaction that persists, an attempt holds no lock and has inserted
\* nothing.
LEMMA NothingOpenFact ==
  ASSUME IInv, NEW s \in Sessions, handler[s].step # "adopting"
  PROVE  handler[s].adopted = 0 /\ handler[s].inserted = {}
BY DEF IInv, LockInv

-----------------------------------------------------------------------------
(* Steps of an attempt                                                     *)

\* The attempt moves on or ends, the session stays as it is.
LEMMA AttemptMoves ==
  ASSUME IInv, NEW s \in Sessions, NEW next,
         handler' = [handler EXCEPT ![s] = next],
         next \in [step : Steps, calls : {next.calls}, blocked : {next.blocked},
                   found : {next.found}, adopted : {0}, inserted : {{}}],
         UNCHANGED <<day, sessions, items, bank, asked>>,
         state' \in [Sessions -> JobStates],
         \A x \in Sessions : x # s => state'[x] = state[x],
         sessions[s].status # "absent", state'[s] # "unknown",
         next.step # "idle" => state'[s] = "granted",
         next.step = "reserved" => handler[s].step = "reserved",
         next.step \in Working => sessions[s].status = "generating",
         next.step = "adopting" =>
           \A t \in Sessions : sessions[t].owner = sessions[s].owner =>
             {next.found[i] : i \in 1..Len(next.found)} \cap items[t] = {}
  PROVE  IInv'
<1>1. handler' = [x \in Sessions |-> handler'[x]] /\ handler'[s] = next
  BY DEF IInv, Typed
<1>2. \A x \in Sessions : x # s => handler'[x] = handler[x]
  BY DEF IInv, Typed
<1>3. /\ asked[s] + (IF handler[s].step = "reserved" THEN 1 ELSE 0) <= sessions[s].used
      /\ sessions[s].used <= Budget /\ asked[s] \in Nat /\ sessions[s].used \in Nat
  BY DEF IInv, BudgetInv, Owed, Typed, Session
<1>4. asked'[s] + (IF handler'[s].step = "reserved" THEN 1 ELSE 0) <= sessions'[s].used
  BY <1>1, <1>3
<1>5. sessions' \in [Sessions -> Session] /\ asked' \in [Sessions -> Nat]
  BY DEF IInv, Typed
<1>6. Questions(s)' = {next.found[i] : i \in 1..Len(next.found)}
  BY <1>1 DEF Questions
<1>7. handler'[s] \in [step : Steps, calls : {handler'[s].calls}, blocked : {handler'[s].blocked},
                       found : {handler'[s].found}, adopted : {0}, inserted : {{}}]
  BY <1>1
<1>8. /\ handler'[s].step # "idle" => state'[s] = "granted"
      /\ handler'[s].step \in Working => sessions'[s].status = "generating"
  BY <1>1
<1>9. handler'[s].step = "adopting" =>
        \A t \in Sessions : sessions[t].owner = sessions[s].owner => Questions(s)' \cap items[t] = {}
  BY <1>1, <1>6
<1>10. \A x \in Sessions : x # s => /\ sessions'[x] = sessions[x] /\ handler'[x] = handler[x]
                                     /\ asked'[x] = asked[x] /\ state'[x] = state[x]
  BY <1>2
<1> QED
  BY <1>1, <1>3, <1>4, <1>5, <1>7, <1>8, <1>9, <1>10, SessionStep

\* The worker claims the job.
LEMMA ClaimStep ==
  ASSUME IInv, NEW s \in Sessions, Claim(s)
  PROVE  IInv'
<1>1. handler[s].adopted = 0 /\ handler[s].inserted = {}
  BY NothingOpenFact DEF Claim, Moves
<1>2. /\ state[s] = "waiting" /\ state' = [state EXCEPT ![s] = "granted"]
      /\ handler' = [handler EXCEPT ![s] = [handler[s] EXCEPT !.step = "claimed"]]
      /\ UNCHANGED <<day, sessions, items, bank, asked>>
  BY DEF Claim, Moves, Queue!Grant
<1>3. state \in [Sessions -> JobStates] /\ sessions[s].status # "absent"
  BY <1>2 DEF IInv, Typed, JobsInv
<1>4. [handler[s] EXCEPT !.step = "claimed"] \in
        [step : Steps, calls : {handler[s].calls}, blocked : {handler[s].blocked},
         found : {handler[s].found}, adopted : {0}, inserted : {{}}]
  BY <1>1 DEF IInv, Typed, Steps
<1> QED
  BY <1>2, <1>3, <1>4, AttemptMoves DEF JobStates, Working

\* The attempt reads the session, and ends at once when that is not generating.
LEMMA StartStep ==
  ASSUME IInv, NEW s \in Sessions, Start(s)
  PROVE  IInv'
<1>1. /\ handler[s].adopted = 0 /\ handler[s].inserted = {}
      /\ state[s] = "granted" /\ sessions[s].status # "absent"
  BY NothingOpenFact, RunningFact DEF Start
<1> DEFINE next == IF sessions[s].status = "generating"
                   THEN [handler[s] EXCEPT !.step = "ready", !.blocked = History(sessions[s].owner)]
                   ELSE [handler[s] EXCEPT !.step = "over"]
<1>2. /\ handler' = [handler EXCEPT ![s] = next]
      /\ UNCHANGED <<day, sessions, items, bank, asked, state>>
  BY DEF Start, queue
<1>3. /\ next \in [step : Steps, calls : {next.calls}, blocked : {next.blocked},
                   found : {next.found}, adopted : {0}, inserted : {{}}]
      /\ next.step \in {"ready", "over"}
      /\ next.step = "ready" => sessions[s].status = "generating"
  BY ZenonT(60), <1>1 DEF IInv, Typed, Steps
<1>4. state' \in [Sessions -> JobStates]
  BY <1>2 DEF IInv, Typed
<1> HIDE DEF next
<1> QED
  BY <1>1, <1>2, <1>3, <1>4, AttemptMoves DEF Working

\* A function of the attempt returns: what it held is gone.
LEMMA ReturnsStep ==
  ASSUME IInv, NEW s \in Sessions, NEW before, NEW after \in {"failing", "over"},
         handler[s].step # "idle", Returns(s, before, after),
         UNCHANGED <<day, sessions, items, bank, asked, state>>
  PROVE  IInv'
<1>1. state[s] = "granted" /\ sessions[s].status # "absent"
  BY RunningFact
<1> DEFINE next == [NotRunning EXCEPT !.step = after]
<1>2. handler' = [handler EXCEPT ![s] = next]
  BY DEF Returns
<1>3. /\ next \in [step : Steps, calls : {next.calls}, blocked : {next.blocked},
                   found : {next.found}, adopted : {0}, inserted : {{}}]
      /\ next.step # "idle" /\ next.step # "reserved" /\ next.step # "adopting" /\ next.step \notin Working
  BY DEF NotRunning, Steps, Working
<1>4. state' = state /\ state' \in [Sessions -> JobStates]
  BY DEF IInv, Typed
<1> HIDE DEF next
<1> QED
  BY <1>1, <1>2, <1>3, <1>4, AttemptMoves

\* An attempt that asks or persists gives up, and marks its session.
LEMMA GiveUpStep ==
  ASSUME IInv, NEW s \in Sessions, handler[s].step \in {"ready", "reserved"}, GiveUp(s),
         UNCHANGED <<day, items, bank>>,
         asked' \in [Sessions -> Nat], \A x \in Sessions : x # s => asked'[x] = asked[x],
         asked'[s] <= sessions[s].used
  PROVE  IInv'
<1>1. state[s] = "granted" /\ sessions[s].status # "absent"
  BY RunningFact
<1>2. /\ handler' = [handler EXCEPT ![s] = [NotRunning EXCEPT !.step = "over"]]
      /\ sessions' = [sessions EXCEPT ![s] = Failed(sessions[s])] /\ state' = state
  BY DEF GiveUp, Returns, Queue!Commit
<1>3. handler' = [x \in Sessions |-> handler'[x]] /\ handler'[s] = [NotRunning EXCEPT !.step = "over"]
  BY <1>2 DEF IInv, Typed
<1>4. handler'[s] \in [step : Steps, calls : {handler'[s].calls}, blocked : {handler'[s].blocked},
                       found : {handler'[s].found}, adopted : {0}, inserted : {{}}]
  BY <1>3 DEF NotRunning, Steps
<1>5. handler'[s].step = "over"
  BY <1>3 DEF NotRunning
<1>6. sessions' \in [Sessions -> Session] /\ sessions'[s] = Failed(sessions[s]) /\ sessions[s] \in Session
  <2>1. sessions \in [Sessions -> Session]
    BY DEF IInv, Typed
  <2>2. Failed(sessions[s]) \in Session
    BY <2>1 DEF Failed, Session
  <2> QED
    BY <1>2, <2>1, <2>2
<1>7. /\ sessions'[s].owner = sessions[s].owner /\ sessions'[s].day = sessions[s].day
      /\ sessions'[s].used = sessions[s].used
      /\ sessions'[s].status # "absent" /\ sessions'[s].status # "generating"
  BY <1>1, <1>6 DEF Failed, Session
<1>8. \A x \in Sessions : x # s => /\ sessions'[x] = sessions[x] /\ handler'[x] = handler[x]
                                   /\ asked'[x] = asked[x] /\ state'[x] = state[x]
  BY <1>2 DEF IInv, Typed
<1>9. /\ state' \in [Sessions -> JobStates] /\ sessions[s].used <= Budget
      /\ asked'[s] \in Nat /\ sessions[s].used \in Nat
  BY <1>2, <1>6 DEF IInv, Typed, BudgetInv, Session
<1>10. asked'[s] + (IF handler'[s].step = "reserved" THEN 1 ELSE 0) <= sessions'[s].used
  BY <1>5, <1>7, <1>9
<1> QED
  BY <1>1, <1>2, <1>3, <1>4, <1>5, <1>6, <1>7, <1>8, <1>9, <1>10, SessionStep DEF Working

\* A call is counted and committed before it is made.
LEMMA reserveGenerationCallStep ==
  ASSUME IInv, NEW s \in Sessions, reserveGenerationCall(s)
  PROVE  IInv'
<1>1. /\ handler[s].adopted = 0 /\ handler[s].inserted = {}
      /\ state[s] = "granted" /\ sessions[s].status = "generating"
  BY NothingOpenFact, RunningFact DEF reserveGenerationCall, Moves
<1>2. /\ handler' = [handler EXCEPT ![s] = [handler[s] EXCEPT !.step = "reserved"]]
      /\ handler[s].step = "ready" /\ sessions[s].used < Budget
      /\ sessions' = [sessions EXCEPT ![s] = [sessions[s] EXCEPT !.used = sessions[s].used + 1]]
      /\ UNCHANGED <<day, items, bank, asked, state>>
  BY DEF reserveGenerationCall, Moves, HasBudget, Queue!Commit
<1>3. handler' = [x \in Sessions |-> handler'[x]] /\ handler'[s] = [handler[s] EXCEPT !.step = "reserved"]
  BY <1>2 DEF IInv, Typed
<1>4. /\ handler'[s].step = "reserved"
      /\ handler'[s] \in [step : Steps, calls : {handler'[s].calls}, blocked : {handler'[s].blocked},
                          found : {handler'[s].found}, adopted : {0}, inserted : {{}}]
  BY <1>1, <1>3 DEF IInv, Typed, Steps
<1>5. sessions \in [Sessions -> Session] /\ asked \in [Sessions -> Nat] /\ state \in [Sessions -> JobStates]
  BY DEF IInv, Typed
<1>6. [sessions[s] EXCEPT !.used = sessions[s].used + 1] \in Session
  BY <1>5 DEF Session
<1>7. sessions' \in [Sessions -> Session]
  BY <1>2, <1>5, <1>6
<1>8. /\ sessions'[s].owner = sessions[s].owner /\ sessions'[s].day = sessions[s].day
      /\ sessions'[s].used = sessions[s].used + 1 /\ sessions'[s].status = "generating"
      /\ sessions[s].used \in Nat
  BY <1>1, <1>2, <1>5 DEF Session
<1>9. \A x \in Sessions : x # s => /\ sessions'[x] = sessions[x] /\ handler'[x] = handler[x]
                                   /\ asked'[x] = asked[x] /\ state'[x] = state[x]
  BY <1>2 DEF IInv, Typed
<1>10. asked[s] \in Nat /\ asked[s] <= sessions[s].used
  BY <1>2, <1>5 DEF IInv, BudgetInv, Owed
<1>11. asked'[s] + (IF handler'[s].step = "reserved" THEN 1 ELSE 0) <= sessions'[s].used
  BY <1>2, <1>4, <1>8, <1>10
<1>12. sessions'[s].used <= Budget
  BY <1>2, <1>8, NumbersAssumption
<1>13. UNCHANGED <<day, items, bank>> /\ asked' \in [Sessions -> Nat] /\ state' \in [Sessions -> JobStates]
  BY <1>2, <1>5
<1> QED
  BY <1>1, <1>2, <1>3, <1>4, <1>7, <1>8, <1>9, <1>11, <1>12, <1>13, SessionStep

\* The AI answers, whatever it says.
LEMMA RunPromptStep ==
  ASSUME IInv, NEW s \in Sessions, RunPrompt(s)
  PROVE  IInv'
<1>1. /\ handler[s].adopted = 0 /\ handler[s].inserted = {} /\ handler[s].step = "reserved"
      /\ state[s] = "granted" /\ sessions[s].status = "generating"
  BY NothingOpenFact, RunningFact DEF RunPrompt, IInv, OneInv, Working
<1>2. PICK more : handler' = [handler EXCEPT ![s] =
                    [handler[s] EXCEPT !.step = "ready", !.calls = handler[s].calls + 1, !.found = more]]
  BY DEF RunPrompt
<1>3. /\ asked' = [asked EXCEPT ![s] = asked[s] + 1]
      /\ UNCHANGED <<day, sessions, items, bank, state>>
  BY DEF RunPrompt, queue
<1>4. /\ handler' = [x \in Sessions |-> handler'[x]]
      /\ handler'[s] = [handler[s] EXCEPT !.step = "ready", !.calls = handler[s].calls + 1, !.found = more]
  BY <1>2 DEF IInv, Typed
<1>5. /\ handler'[s].step = "ready"
      /\ handler'[s] \in [step : Steps, calls : {handler'[s].calls}, blocked : {handler'[s].blocked},
                          found : {handler'[s].found}, adopted : {0}, inserted : {{}}]
  BY <1>1, <1>4 DEF IInv, Typed, Steps
<1>6. sessions \in [Sessions -> Session] /\ asked \in [Sessions -> Nat] /\ state \in [Sessions -> JobStates]
  BY DEF IInv, Typed
<1>7. \A x \in Sessions : x # s => /\ sessions'[x] = sessions[x] /\ handler'[x] = handler[x]
                                   /\ asked'[x] = asked[x] /\ state'[x] = state[x]
  BY <1>2, <1>3 DEF IInv, Typed
<1>8. asked[s] + 1 <= sessions[s].used /\ sessions[s].used <= Budget
  BY <1>1 DEF IInv, BudgetInv, Owed
<1>9. asked'[s] = asked[s] + 1 /\ asked' \in [Sessions -> Nat]
  BY <1>3, <1>6
<1>10. asked'[s] + (IF handler'[s].step = "reserved" THEN 1 ELSE 0) <= sessions'[s].used
  BY <1>3, <1>5, <1>6, <1>8, <1>9 DEF Session
<1> QED
  BY <1>1, <1>3, <1>4, <1>5, <1>6, <1>7, <1>8, <1>9, <1>10, SessionStep

\* The call fails; it was counted all the same.
LEMMA RunPromptFailsStep ==
  ASSUME IInv, NEW s \in Sessions, RunPromptFails(s)
  PROVE  IInv'
<1>1. /\ handler[s].step = "reserved" /\ asked' = [asked EXCEPT ![s] = asked[s] + 1]
      /\ UNCHANGED <<day, items, bank>>
  BY DEF RunPromptFails
<1>2. asked \in [Sessions -> Nat] /\ sessions \in [Sessions -> Session] /\ state \in [Sessions -> JobStates]
  BY DEF IInv, Typed
<1>3. asked' \in [Sessions -> Nat] /\ asked'[s] = asked[s] + 1
      /\ \A x \in Sessions : x # s => asked'[x] = asked[x]
  BY <1>1, <1>2
<1>4. asked[s] + 1 <= sessions[s].used /\ sessions[s].used <= Budget
  BY <1>1 DEF IInv, BudgetInv, Owed
<1>5. CASE GiveUp(s)
  BY <1>1, <1>3, <1>4, <1>5, GiveUpStep
<1>6. CASE Returns(s, "reserved", "failing") /\ UNCHANGED <<sessions, queue>>
  <2>1. state[s] = "granted" /\ sessions[s].status # "absent"
    BY <1>1, RunningFact
  <2>2. handler' = [handler EXCEPT ![s] = [NotRunning EXCEPT !.step = "failing"]] /\ state' = state
    BY <1>6 DEF Returns, queue
  <2>3. handler' = [x \in Sessions |-> handler'[x]] /\ handler'[s] = [NotRunning EXCEPT !.step = "failing"]
    BY <2>2 DEF IInv, Typed
  <2>4. /\ handler'[s].step = "failing"
        /\ handler'[s] \in [step : Steps, calls : {handler'[s].calls}, blocked : {handler'[s].blocked},
                            found : {handler'[s].found}, adopted : {0}, inserted : {{}}]
    BY <2>3 DEF NotRunning, Steps
  <2>5. \A x \in Sessions : x # s => /\ sessions'[x] = sessions[x] /\ handler'[x] = handler[x]
                                     /\ asked'[x] = asked[x] /\ state'[x] = state[x]
    BY <1>3, <1>6, <2>2 DEF IInv, Typed
  <2>6. asked'[s] + (IF handler'[s].step = "reserved" THEN 1 ELSE 0) <= sessions'[s].used
    BY <1>2, <1>3, <1>4, <1>6, <2>4 DEF Session
  <2> QED
    BY <1>1, <1>2, <1>3, <1>4, <1>6, <2>1, <2>2, <2>3, <2>4, <2>5, <2>6, SessionStep DEF Working
<1> QED
  BY <1>5, <1>6 DEF RunPromptFails

\* The questions are compared with the history, and the transaction opened or not.
LEMMA BeginPersistStep ==
  ASSUME IInv, NEW s \in Sessions, BeginPersist(s)
  PROVE  IInv'
<1>1. /\ handler[s].adopted = 0 /\ handler[s].inserted = {} /\ handler[s].step = "ready"
      /\ state[s] = "granted" /\ sessions[s].status = "generating"
      /\ UNCHANGED <<day, sessions, items, bank, asked, state>>
  BY NothingOpenFact, RunningFact DEF BeginPersist, IInv, OneInv, Working, queue
<1>2. CASE Questions(s) \cap History(sessions[s].owner) = {}
  <2>1. handler' = [handler EXCEPT ![s] = [handler[s] EXCEPT !.step = "adopting"]]
    BY <1>2 DEF BeginPersist, Moves
  <2>2. \A t \in Sessions : sessions[t].owner = sessions[s].owner =>
          {handler[s].found[i] : i \in 1..Len(handler[s].found)} \cap items[t] = {}
    BY <1>2 DEF Questions, History
  <2> DEFINE next == [handler[s] EXCEPT !.step = "adopting"]
  <2>3. /\ next \in [step : Steps, calls : {next.calls}, blocked : {next.blocked},
                     found : {next.found}, adopted : {0}, inserted : {{}}]
        /\ next.step = "adopting" /\ next.found = handler[s].found
    BY <1>1 DEF IInv, Typed, Steps
  <2>4. \A t \in Sessions : sessions[t].owner = sessions[s].owner =>
          {next.found[i] : i \in 1..Len(next.found)} \cap items[t] = {}
    BY <2>2, <2>3
  <2>5. handler' = [handler EXCEPT ![s] = next] /\ state' \in [Sessions -> JobStates]
    BY <1>1, <2>1 DEF IInv, Typed
  <2> HIDE DEF next
  <2> QED
    BY <1>1, <2>3, <2>4, <2>5, AttemptMoves
<1>3. CASE Returns(s, "ready", "failing")
  BY <1>1, <1>3, ReturnsStep
<1> QED
  BY <1>2, <1>3 DEF BeginPersist

\* The last attempt marks the session before it refuses.
LEMMA generationRetryStep ==
  ASSUME IInv, NEW s \in Sessions, generationRetry(s)
  PROVE  IInv'
<1>1. /\ handler[s].adopted = 0 /\ handler[s].inserted = {}
      /\ state[s] = "granted" /\ sessions[s].status # "absent"
  BY NothingOpenFact, RunningFact DEF generationRetry, Moves
<1>2. /\ handler' = [handler EXCEPT ![s] = [handler[s] EXCEPT !.step = "refused"]]
      /\ UNCHANGED <<day, items, bank, asked, state>>
      /\ sessions' = sessions \/ sessions' = [sessions EXCEPT ![s] = Failed(sessions[s])]
  BY DEF generationRetry, Moves, Queue!Commit, queue
<1>3. handler' = [x \in Sessions |-> handler'[x]] /\ handler'[s] = [handler[s] EXCEPT !.step = "refused"]
  BY <1>2 DEF IInv, Typed
<1>4. /\ handler'[s].step = "refused"
      /\ handler'[s] \in [step : Steps, calls : {handler'[s].calls}, blocked : {handler'[s].blocked},
                          found : {handler'[s].found}, adopted : {0}, inserted : {{}}]
  BY <1>1, <1>3 DEF IInv, Typed, Steps
<1>5. sessions \in [Sessions -> Session] /\ asked \in [Sessions -> Nat] /\ state \in [Sessions -> JobStates]
  BY DEF IInv, Typed
<1>6. Failed(sessions[s]) \in Session
  BY <1>5 DEF Failed, Session
<1>7. sessions' \in [Sessions -> Session] /\ (sessions'[s] = sessions[s] \/ sessions'[s] = Failed(sessions[s]))
  BY <1>2, <1>5, <1>6
<1>8. /\ sessions'[s].owner = sessions[s].owner /\ sessions'[s].day = sessions[s].day
      /\ sessions'[s].used = sessions[s].used /\ sessions'[s].status # "absent"
      /\ sessions'[s].status = "generating" => sessions[s].status = "generating"
  BY <1>1, <1>5, <1>7 DEF Failed, Session
<1>9. \A x \in Sessions : x # s => /\ sessions'[x] = sessions[x] /\ handler'[x] = handler[x]
                                   /\ asked'[x] = asked[x] /\ state'[x] = state[x]
  BY <1>2 DEF IInv, Typed
<1>10. asked[s] \in Nat /\ asked[s] <= sessions[s].used /\ sessions[s].used <= Budget /\ sessions[s].used \in Nat
  BY <1>5 DEF IInv, BudgetInv, Owed, Session
<1>11. asked'[s] + (IF handler'[s].step = "reserved" THEN 1 ELSE 0) <= sessions'[s].used
  BY <1>2, <1>4, <1>8, <1>10
<1> QED
  BY <1>1, <1>2, <1>3, <1>4, <1>5, <1>7, <1>8, <1>9, <1>10, <1>11, SessionStep DEF Working

\* The handler has returned nil.
LEMMA CompleteStep ==
  ASSUME IInv, NEW s \in Sessions, Complete(s)
  PROVE  IInv'
<1>1. /\ state[s] = "granted" /\ state' = [state EXCEPT ![s] = "settled"]
      /\ handler' = [handler EXCEPT ![s] = NotRunning]
      /\ UNCHANGED <<day, sessions, items, bank, asked>>
  BY DEF Complete, Queue!Settle
<1>2. sessions[s].status # "absent" /\ state \in [Sessions -> JobStates]
  BY <1>1 DEF IInv, JobsInv, Typed
<1>3. /\ NotRunning \in [step : Steps, calls : {NotRunning.calls}, blocked : {NotRunning.blocked},
                         found : {NotRunning.found}, adopted : {0}, inserted : {{}}]
      /\ NotRunning.step = "idle"
  BY DEF NotRunning, Steps
<1> QED
  BY <1>1, <1>2, <1>3, AttemptMoves DEF JobStates, Working

\* The attempt is over, and with it what it held and an open transaction.
LEMMA TakeBackStep ==
  ASSUME IInv, NEW s \in Sessions, TakeBack(s)
  PROVE  IInv'
<1>1. /\ state[s] = "granted" /\ handler' = [handler EXCEPT ![s] = NotRunning]
      /\ UNCHANGED <<day, items, bank, asked>>
      /\ sessions' = sessions \/ sessions' = [sessions EXCEPT ![s] = Failed(sessions[s])]
  BY DEF TakeBack, Queue!TakeBack
<1>2. /\ state' \in [Sessions -> JobStates] /\ state'[s] # "unknown"
      /\ \A x \in Sessions : x # s => state'[x] = state[x]
  <2>1. state' = [j \in Sessions |-> IF j \notin {s} THEN state[j]
                                     ELSE IF grants[j] = MaxAttempts THEN "given up" ELSE "waiting"]
    BY DEF TakeBack, Queue!TakeBack
  <2> QED
    BY <2>1 DEF IInv, Typed, JobStates
<1>3. handler' = [x \in Sessions |-> handler'[x]] /\ handler'[s] = NotRunning
  BY <1>1 DEF IInv, Typed
<1>4. /\ handler'[s].step = "idle"
      /\ handler'[s] \in [step : Steps, calls : {handler'[s].calls}, blocked : {handler'[s].blocked},
                          found : {handler'[s].found}, adopted : {0}, inserted : {{}}]
  BY <1>3 DEF NotRunning, Steps
<1>5. sessions \in [Sessions -> Session] /\ asked \in [Sessions -> Nat] /\ sessions[s].status # "absent"
  BY <1>1 DEF IInv, Typed, JobsInv
<1>6. Failed(sessions[s]) \in Session
  BY <1>5 DEF Failed, Session
<1>7. sessions' \in [Sessions -> Session] /\ (sessions'[s] = sessions[s] \/ sessions'[s] = Failed(sessions[s]))
  BY <1>1, <1>5, <1>6
<1>8. /\ sessions'[s].owner = sessions[s].owner /\ sessions'[s].day = sessions[s].day
      /\ sessions'[s].used = sessions[s].used /\ sessions'[s].status # "absent"
      /\ sessions'[s].status = "generating" => sessions[s].status = "generating"
  BY <1>5, <1>7 DEF Failed, Session
<1>9. \A x \in Sessions : x # s => /\ sessions'[x] = sessions[x] /\ handler'[x] = handler[x]
                                   /\ asked'[x] = asked[x] /\ state'[x] = state[x]
  BY <1>1, <1>2 DEF IInv, Typed
<1>10. asked[s] \in Nat /\ asked[s] <= sessions[s].used /\ sessions[s].used <= Budget /\ sessions[s].used \in Nat
  BY <1>5 DEF IInv, BudgetInv, Owed, Session
<1>11. asked'[s] + (IF handler'[s].step = "reserved" THEN 1 ELSE 0) <= sessions'[s].used
  BY <1>1, <1>4, <1>8, <1>10
<1> QED
  BY <1>1, <1>2, <1>3, <1>4, <1>5, <1>7, <1>8, <1>9, <1>10, <1>11, SessionStep DEF Working

-----------------------------------------------------------------------------
(* Steps of the learner and of time                                        *)

\* A session that is not generating is deleted; it still counts.
LEMMA DeleteSessionStep ==
  ASSUME IInv, NEW s \in Sessions, DeleteSession(s)
  PROVE  IInv'
<1>1. /\ sessions[s].status \in {"active", "generation_failed"}
      /\ sessions' = [sessions EXCEPT ![s] = [sessions[s] EXCEPT !.deleted = "yes"]]
      /\ UNCHANGED <<day, items, bank, handler, asked, state>>
  BY DEF DeleteSession, queue
<1>2. handler[s].step \notin Working
  BY <1>1 DEF IInv, OneInv
<1>3. handler[s].adopted = 0 /\ handler[s].inserted = {}
  BY <1>2, NothingOpenFact DEF Working
<1>4. handler'[s] \in [step : Steps, calls : {handler'[s].calls}, blocked : {handler'[s].blocked},
                       found : {handler'[s].found}, adopted : {0}, inserted : {{}}]
  BY <1>1, <1>3 DEF IInv, Typed
<1>5. sessions \in [Sessions -> Session] /\ asked \in [Sessions -> Nat] /\ state \in [Sessions -> JobStates]
  BY DEF IInv, Typed
<1>6. [sessions[s] EXCEPT !.deleted = "yes"] \in Session
  BY <1>5 DEF Session
<1>7. sessions' \in [Sessions -> Session] /\ sessions'[s] = [sessions[s] EXCEPT !.deleted = "yes"]
  BY <1>1, <1>5, <1>6
<1>8. /\ sessions'[s].owner = sessions[s].owner /\ sessions'[s].day = sessions[s].day
      /\ sessions'[s].used = sessions[s].used /\ sessions'[s].status = sessions[s].status
  BY <1>5, <1>7 DEF Session
<1>9. \A x \in Sessions : x # s => /\ sessions'[x] = sessions[x] /\ handler'[x] = handler[x]
                                   /\ asked'[x] = asked[x] /\ state'[x] = state[x]
  BY <1>1
<1>10. asked[s] \in Nat /\ asked[s] <= sessions[s].used /\ sessions[s].used <= Budget /\ sessions[s].used \in Nat
  BY <1>5 DEF IInv, BudgetInv, Owed, Session
<1>11. asked'[s] + (IF handler'[s].step = "reserved" THEN 1 ELSE 0) <= sessions'[s].used
  BY <1>1, <1>2, <1>8, <1>10 DEF Working
<1>12. handler'[s].step # "idle" => state'[s] = "granted"
  BY <1>1, RunningFact
<1>13. state'[s] # "unknown" /\ handler' = [x \in Sessions |-> handler'[x]]
  BY <1>1 DEF IInv, JobsInv, Typed
<1> QED
  BY <1>1, <1>2, <1>4, <1>5, <1>7, <1>8, <1>9, <1>10, <1>11, <1>12, <1>13, SessionStep DEF Working

\* A day passes: nobody has started a session on the new one.
LEMMA NextDayStep ==
  ASSUME IInv, NextDay
  PROVE  IInv'
<1>1. day' = day + 1 /\ UNCHANGED <<sessions, items, bank, handler, asked, state>>
  BY DEF NextDay, queue
<1>2. JobsInv' /\ BudgetInv' /\ OneInv' /\ NoQuestionTwice'
  BY <1>1 DEF IInv, JobsInv, BudgetInv, Owed, OneInv, NoQuestionTwice
<1>5. Typed'
  <2>1. day' \in 0..MaxDay
    BY NumbersAssumption DEF IInv, Typed, NextDay
  <2> QED
    BY <1>1, <2>1 DEF IInv, Typed
<1>3. LockInv' /\ HistoryInv'
  <2>1. \A x \in Sessions : Adopted(x)' = Adopted(x) /\ Questions(x)' = Questions(x)
    BY <1>1 DEF Adopted, Questions
  <2>2. LockInv'
    BY <1>1, <2>1 DEF IInv, LockInv
  <2>3. HistoryInv'
    BY <1>1, <2>1 DEF IInv, HistoryInv
  <2> QED
    BY <2>2, <2>3
<1>4. DayInv'
  <2>1. \A x \in Sessions : sessions'[x].status # "absent" => sessions'[x].day <= day'
    <3> TAKE x \in Sessions
    <3>1. sessions[x].day \in Nat /\ day \in Nat
      BY NumbersAssumption DEF IInv, Typed, Session
    <3> QED
      BY <1>1, <3>1 DEF IInv, DayInv
  <2>2. \A a \in Accounts, d \in Nat : On(a, d)' = On(a, d)
    BY <1>1 DEF On
  <2> QED
    BY <2>1, <2>2 DEF IInv, DayInv
<1> QED
  BY <1>2, <1>3, <1>4, <1>5, Zenon DEF IInv

\* A session is started: the account has none generating and is below its limit.
LEMMA CreateGeneratedSessionStep ==
  ASSUME IInv, NEW a \in Accounts, NEW s \in Sessions, CreateGeneratedSession(a, s)
  PROVE  IInv'
<1>1. /\ sessions[s].status = "absent" /\ state[s] = "unknown"
      /\ sessions' = [sessions EXCEPT ![s] = [status |-> "generating", owner |-> a, used |-> 0,
                                              day |-> day, deleted |-> "no"]]
      /\ state' = [state EXCEPT ![s] = "waiting"]
      /\ UNCHANGED <<day, items, bank, handler, asked>>
  BY DEF CreateGeneratedSession, Queue!Submit
<1>2. Generating(a) = {} /\ Cardinality(StartedToday(a)) < DailyLimit
  BY DEF CreateGeneratedSession, Admitted
<1>3. /\ handler[s].step = "idle" /\ handler[s].adopted = 0 /\ handler[s].inserted = {}
      /\ asked[s] = 0 /\ items[s] = {}
  <2>1. handler[s].step = "idle"
    BY <1>1 DEF IInv, JobsInv
  <2> QED
    BY <1>1, <2>1, NothingOpenFact DEF IInv, JobsInv
<1>4. /\ sessions \in [Sessions -> Session] /\ asked \in [Sessions -> Nat]
      /\ state \in [Sessions -> JobStates] /\ day \in Nat
  BY NumbersAssumption DEF IInv, Typed
<1>5. /\ sessions'[s].status = "generating" /\ sessions'[s].owner = a /\ sessions'[s].used = 0
      /\ sessions'[s].day = day /\ sessions'[s].deleted = "no"
      /\ \A x \in Sessions : x # s => sessions'[x] = sessions[x] /\ state'[x] = state[x]
  BY <1>1, <1>4
<1>6. Typed'
  <2>1. day \in 0..MaxDay
    BY DEF IInv, Typed
  <2>2. [status |-> "generating", owner |-> a, used |-> 0, day |-> day, deleted |-> "no"] \in Session
    BY <2>1 DEF Session
  <2>3. sessions' \in [Sessions -> Session] /\ state' \in [Sessions -> JobStates]
    BY <1>1, <1>4, <2>2 DEF JobStates
  <2>4. \A x \in Sessions :
          handler'[x] \in [step : Steps, calls : {handler'[x].calls}, blocked : {handler'[x].blocked},
                           found : {handler'[x].found}, adopted : Nat, inserted : {handler'[x].inserted}]
    BY <1>1 DEF IInv, Typed
  <2>5. DOMAIN items' = Sessions /\ items' = [x \in Sessions |-> items'[x]]
        /\ handler' = [x \in Sessions |-> handler'[x]]
    BY <1>1 DEF IInv, Typed
  <2>6. day' \in 0..MaxDay /\ asked' \in [Sessions -> Nat]
    BY <1>1, <1>4, <2>1
  <2> QED
    BY <2>3, <2>4, <2>5, <2>6 DEF Typed
<1>7. JobsInv'
  BY ZenonT(30), <1>1, <1>3, <1>4, <1>5 DEF IInv, JobsInv, JobStates
<1>8. BudgetInv'
  <2> SUFFICES ASSUME NEW x \in Sessions
               PROVE  /\ asked'[x] + (IF handler'[x].step = "reserved" THEN 1 ELSE 0) <= sessions'[x].used
                      /\ sessions'[x].used <= Budget
    BY DEF BudgetInv, Owed
  <2>1. CASE x = s
    BY <1>1, <1>3, <1>5, <2>1, NumbersAssumption
  <2>2. CASE x # s
    BY <1>1, <1>5, <2>2 DEF IInv, BudgetInv, Owed
  <2> QED
    BY <2>1, <2>2
<1>9. DayInv'
  <2>1. \A x \in Sessions : sessions'[x].status # "absent" => sessions'[x].day <= day'
    <3> TAKE x \in Sessions
    <3>1. CASE x = s
      BY <1>1, <1>4, <1>5, <3>1
    <3>2. CASE x # s
      BY <1>1, <1>5, <3>2 DEF IInv, DayInv
    <3> QED
      BY <3>1, <3>2
  <2> SUFFICES ASSUME NEW b \in Accounts, NEW d \in Nat
               PROVE  IsFiniteSet(On(b, d)') /\ Cardinality(On(b, d)') <= DailyLimit
    BY <2>1 DEF DayInv
  <2>2. IsFiniteSet(On(b, d)) /\ Cardinality(On(b, d)) <= DailyLimit
    BY DEF IInv, DayInv
  <2>3. CASE b = a /\ d = day
    <3>1. On(b, d)' = On(b, d) \cup {s} /\ s \notin On(b, d)
      BY <1>1, <1>5, <2>3 DEF On
    <3>2. Cardinality(On(b, d)) < DailyLimit
      BY <1>2, <2>3 DEF On, StartedToday
    <3>3. Cardinality(On(b, d) \cup {s}) = Cardinality(On(b, d)) + 1 /\ IsFiniteSet(On(b, d) \cup {s})
      BY <2>2, <3>1, FS_AddElement
    <3>4. Cardinality(On(b, d)) \in Nat
      BY <2>2, FS_CardinalityType
    <3> QED
      BY <3>1, <3>2, <3>3, <3>4, NumbersAssumption
  <2>4. CASE ~(b = a /\ d = day)
    <3>1. On(b, d)' = On(b, d)
      BY <1>1, <1>5, <2>4 DEF On
    <3> QED
      BY <2>2, <3>1
  <2> QED
    BY <2>3, <2>4
<1>10. OneInv'
  <2>1. \A x \in Sessions : handler'[x].step \in Working => sessions'[x].status = "generating"
    BY <1>1, <1>3, <1>5 DEF IInv, OneInv, Working
  <2>2. \A x \in Sessions : x # s /\ sessions'[x].status = "generating" => sessions'[x].owner # a
    BY <1>2, <1>5 DEF Generating
  <2>3. \A x, y \in Sessions : /\ sessions'[x].status = "generating" /\ sessions'[y].status = "generating"
                               /\ sessions'[x].owner = sessions'[y].owner
                               => x = y
    BY <1>5, <2>2 DEF IInv, OneInv
  <2> QED
    BY <2>1, <2>3 DEF OneInv
<1>11. LockInv'
  <2>1. \A x \in Sessions : Adopted(x)' = Adopted(x)
    BY <1>1 DEF Adopted
  <2> QED
    BY <1>1, <2>1 DEF IInv, LockInv
<1>12. HistoryInv'
  <2> SUFFICES ASSUME NEW x \in Sessions, NEW t \in Sessions,
                      handler'[x].step = "adopting", sessions'[t].owner = sessions'[x].owner
               PROVE  Questions(x)' \cap items'[t] = {}
    BY DEF HistoryInv
  <2>1. Questions(x)' = Questions(x) /\ x # s /\ handler[x].step = "adopting"
    BY <1>1, <1>3 DEF Questions
  <2>2. CASE t = s
    BY <1>1, <1>3, <2>2
  <2>3. CASE t # s
    BY <1>1, <1>5, <2>1, <2>3 DEF IInv, HistoryInv
  <2> QED
    BY <2>2, <2>3
<1>13. NoQuestionTwice'
  <2> SUFFICES ASSUME NEW x \in Sessions, NEW t \in Sessions, x # t, sessions'[x].owner = sessions'[t].owner
               PROVE  items'[x] \cap items'[t] = {}
    BY DEF NoQuestionTwice
  <2>1. CASE x = s \/ t = s
    BY <1>1, <1>3, <2>1
  <2>2. CASE x # s /\ t # s
    BY <1>1, <1>5, <2>2 DEF IInv, NoQuestionTwice
  <2> QED
    BY <2>1, <2>2
<1> QED
  BY <1>6, <1>7, <1>8, <1>9, <1>10, <1>11, <1>12, <1>13, Zenon DEF IInv

-----------------------------------------------------------------------------
(* Steps of the transaction that persists                                  *)

\* The next question is locked, and inserted when the bank does not have it.
LEMMA findOrAdoptGeneratedQuestionStep ==
  ASSUME IInv, NEW s \in Sessions, findOrAdoptGeneratedQuestion(s)
  PROVE  IInv'
<1> DEFINE key == NextKey(s)
<1>1. /\ handler[s].step = "adopting" /\ handler[s].adopted \in Nat
      /\ \A t \in Sessions \ {s} : key \notin Adopted(t)
      /\ UNCHANGED <<day, sessions, items, bank, asked, state>>
  BY DEF findOrAdoptGeneratedQuestion, Adopting, LockedByOthers, IInv, Typed, queue
<1> DEFINE next == [handler[s] EXCEPT !.adopted = handler[s].adopted + 1,
                                      !.inserted = handler[s].inserted \cup ({key} \ bank)]
<1>2. /\ handler' = [x \in Sessions |-> handler'[x]] /\ handler'[s] = next
      /\ \A x \in Sessions : x # s => handler'[x] = handler[x]
  BY DEF findOrAdoptGeneratedQuestion, IInv, Typed
<1>3. key = handler[s].found[handler[s].adopted + 1]
  BY DEF NextKey
<1> HIDE DEF key
<1>4. /\ handler'[s].step = "adopting" /\ handler'[s].found = handler[s].found
      /\ handler'[s].adopted = handler[s].adopted + 1
      /\ handler'[s].inserted = handler[s].inserted \cup ({key} \ bank)
      /\ handler'[s] \in [step : Steps, calls : {handler'[s].calls}, blocked : {handler'[s].blocked},
                          found : {handler'[s].found}, adopted : Nat, inserted : {handler'[s].inserted}]
  <2>1. handler[s] \in [step : Steps, calls : {handler[s].calls}, blocked : {handler[s].blocked},
                        found : {handler[s].found}, adopted : Nat, inserted : {handler[s].inserted}]
    BY DEF IInv, Typed
  <2>2. /\ next.step = handler[s].step /\ next.found = handler[s].found
        /\ next.adopted = handler[s].adopted + 1 /\ next.inserted = handler[s].inserted \cup ({key} \ bank)
    BY <2>1
  <2>3. next \in [step : Steps, calls : {next.calls}, blocked : {next.blocked},
                  found : {next.found}, adopted : Nat, inserted : {next.inserted}]
    <3>1. handler[s].adopted + 1 \in Nat
      BY <1>1
    <3>2. next \in [step : Steps, calls : {handler[s].calls}, blocked : {handler[s].blocked},
                    found : {handler[s].found}, adopted : Nat,
                    inserted : {handler[s].inserted \cup ({key} \ bank)}]
      BY <2>1, <3>1
    <3>3. next.calls = handler[s].calls /\ next.blocked = handler[s].blocked
      BY <2>1
    <3> QED
      BY <2>2, <3>2, <3>3
  <2> HIDE DEF next
  <2> QED
    BY <1>1, <1>2, <2>2, <2>3
<1> HIDE DEF next
<1>5. Typed'
  <2>1. \A x \in Sessions :
          handler'[x] \in [step : Steps, calls : {handler'[x].calls}, blocked : {handler'[x].blocked},
                           found : {handler'[x].found}, adopted : Nat, inserted : {handler'[x].inserted}]
    <3> TAKE x \in Sessions
    <3>1. CASE x = s
      BY <1>4, <3>1
    <3>2. CASE x # s
      BY <1>2, <3>2 DEF IInv, Typed
    <3> QED
      BY <3>1, <3>2
  <2> QED
    BY <1>1, <1>2, <2>1 DEF IInv, Typed
<1>6. JobsInv' /\ DayInv' /\ NoQuestionTwice'
  <2>1. DayInv' /\ NoQuestionTwice'
    BY <1>1 DEF IInv, DayInv, On, NoQuestionTwice
  <2>2. \A x \in Sessions : handler'[x].step = handler[x].step
    BY <1>1, <1>2, <1>4
  <2> QED
    BY <1>1, <2>1, <2>2 DEF IInv, JobsInv
<1>7. BudgetInv' /\ OneInv'
  <2>1. \A x \in Sessions : handler'[x].step = handler[x].step
    BY <1>1, <1>2, <1>4
  <2> QED
    BY <1>1, <2>1 DEF IInv, BudgetInv, Owed, OneInv
<1>8. LockInv'
  <2>1. Adopted(s)' = Adopted(s) \cup {key}
    BY <1>1, <1>3, <1>4 DEF Adopted
  <2>2. \A x \in Sessions : x # s => Adopted(x)' = Adopted(x)
    BY <1>2 DEF Adopted
  <2>3. \A x \in Sessions : handler'[x].step # "adopting" => handler'[x].adopted = 0 /\ handler'[x].inserted = {}
    BY <1>2, <1>4 DEF IInv, LockInv
  <2>4. \A x \in Sessions : handler'[x].inserted \subseteq Adopted(x)' /\ handler'[x].inserted \cap bank' = {}
    <3> TAKE x \in Sessions
    <3>1. handler[x].inserted \subseteq Adopted(x) /\ handler[x].inserted \cap bank = {}
      BY DEF IInv, LockInv
    <3>2. CASE x = s
      BY <1>1, <1>4, <2>1, <3>1, <3>2
    <3>3. CASE x # s
      BY <1>1, <1>2, <2>2, <3>1, <3>3
    <3> QED
      BY <3>2, <3>3
  <2>5. \A x \in Sessions : \A t \in Sessions \ {x} : Adopted(x)' \cap Adopted(t)' = {}
    BY <1>1, <2>1, <2>2 DEF IInv, LockInv
  <2> QED
    BY <2>3, <2>4, <2>5 DEF LockInv
<1>9. HistoryInv'
  <2>1. \A x \in Sessions : Questions(x)' = Questions(x) /\ handler'[x].step = handler[x].step
    <3> TAKE x \in Sessions
    <3>1. CASE x = s
      BY <1>1, <1>4, <3>1 DEF Questions
    <3>2. CASE x # s
      BY <1>2, <3>2 DEF Questions
    <3> QED
      BY <3>1, <3>2
  <2> QED
    BY <1>1, <2>1 DEF IInv, HistoryInv
<1> QED
  BY <1>5, <1>6, <1>7, <1>8, <1>9, Zenon DEF IInv

\* The questions, the items and the status are committed together.  No other session
\* of the account is generating, so no other comparison is overtaken.
LEMMA CommitPersistStep ==
  ASSUME IInv, NEW s \in Sessions, CommitPersist(s)
  PROVE  IInv'
<1>1. /\ handler[s].step = "adopting" /\ handler[s].adopted = Len(handler[s].found)
      /\ bank' = bank \cup handler[s].inserted
      /\ UNCHANGED <<day, asked, state>>
      /\ state[s] = "granted" /\ sessions[s].status = "generating"
  BY RunningFact DEF CommitPersist, Queue!Commit, IInv, OneInv, Working
<1>2. /\ items' = [x \in Sessions |-> items'[x]] /\ DOMAIN items' = Sessions
      /\ items'[s] = Adopted(s) /\ \A x \in Sessions : x # s => items'[x] = items[x]
  BY DEF CommitPersist, IInv, Typed
<1>3. sessions \in [Sessions -> Session] /\ asked \in [Sessions -> Nat] /\ state \in [Sessions -> JobStates]
  BY DEF IInv, Typed
<1>4. sessions' = [sessions EXCEPT ![s] = [sessions[s] EXCEPT !.status = "active"]]
  BY <1>1 DEF CommitPersist
<1>5. /\ sessions' \in [Sessions -> Session] /\ sessions'[s].status = "active"
      /\ sessions'[s].owner = sessions[s].owner /\ sessions'[s].day = sessions[s].day
      /\ sessions'[s].used = sessions[s].used
      /\ \A x \in Sessions : x # s => sessions'[x] = sessions[x]
  BY <1>3, <1>4 DEF Session
<1>6. \A x \in Sessions : sessions'[x].owner = sessions[x].owner /\ sessions'[x].day = sessions[x].day
  BY <1>5
<1>7. /\ handler' = [x \in Sessions |-> handler'[x]]
      /\ handler'[s] = [NotRunning EXCEPT !.step = "over"]
      /\ \A x \in Sessions : x # s => handler'[x] = handler[x]
  BY DEF CommitPersist, IInv, Typed
<1>8. /\ handler'[s].step = "over" /\ handler'[s].adopted = 0 /\ handler'[s].inserted = {}
      /\ handler'[s] \in [step : Steps, calls : {handler'[s].calls}, blocked : {handler'[s].blocked},
                          found : {handler'[s].found}, adopted : Nat, inserted : {handler'[s].inserted}]
  BY <1>7 DEF NotRunning, Steps
<1>9. Typed'
  <2>1. \A x \in Sessions :
          handler'[x] \in [step : Steps, calls : {handler'[x].calls}, blocked : {handler'[x].blocked},
                           found : {handler'[x].found}, adopted : Nat, inserted : {handler'[x].inserted}]
    <3> TAKE x \in Sessions
    <3>1. CASE x = s
      BY <1>8, <3>1
    <3>2. CASE x # s
      BY <1>7, <3>2 DEF IInv, Typed
    <3> QED
      BY <3>1, <3>2
  <2>2. day' \in 0..MaxDay /\ asked' \in [Sessions -> Nat] /\ state' \in [Sessions -> JobStates]
    BY <1>1, <1>3 DEF IInv, Typed
  <2> QED
    BY <1>2, <1>5, <1>7, <2>1, <2>2 DEF Typed
<1>10. JobsInv'
  BY <1>1, <1>2, <1>5, <1>7, <1>8 DEF IInv, JobsInv
<1>11. BudgetInv'
  <2> SUFFICES ASSUME NEW x \in Sessions
               PROVE  /\ asked'[x] + (IF handler'[x].step = "reserved" THEN 1 ELSE 0) <= sessions'[x].used
                      /\ sessions'[x].used <= Budget
    BY DEF BudgetInv, Owed
  <2>1. CASE x = s
    BY <1>1, <1>5, <1>8, <2>1 DEF IInv, BudgetInv, Owed
  <2>2. CASE x # s
    BY <1>1, <1>5, <1>7, <2>2 DEF IInv, BudgetInv, Owed
  <2> QED
    BY <2>1, <2>2
<1>12. DayInv'
  <2>1. \A x \in Sessions : sessions'[x].status = "absent" <=> sessions[x].status = "absent"
    <3> TAKE x \in Sessions
    <3>1. CASE x = s
      BY <1>1, <1>5, <3>1
    <3>2. CASE x # s
      BY <1>5, <3>2
    <3> QED
      BY <3>1, <3>2
  <2>2. \A a \in Accounts, d \in Nat : On(a, d)' = On(a, d)
    BY <1>6, <2>1 DEF On
  <2> QED
    BY <1>1, <1>6, <2>1, <2>2 DEF IInv, DayInv
<1>13. OneInv'
  <2>1. \A x \in Sessions : handler'[x].step \in Working => sessions'[x].status = "generating"
    BY <1>5, <1>7, <1>8 DEF IInv, OneInv, Working
  <2>2. \A x, y \in Sessions : /\ sessions'[x].status = "generating" /\ sessions'[y].status = "generating"
                               /\ sessions'[x].owner = sessions'[y].owner
                               => x = y
    BY <1>5 DEF IInv, OneInv
  <2> QED
    BY <2>1, <2>2 DEF OneInv
<1>14. LockInv'
  <2>1. Adopted(s)' = {}
    BY <1>8 DEF Adopted
  <2>2. \A x \in Sessions : x # s => Adopted(x)' = Adopted(x)
    BY <1>7 DEF Adopted
  <2>3. \A x \in Sessions : handler'[x].step # "adopting" => handler'[x].adopted = 0 /\ handler'[x].inserted = {}
    BY <1>7, <1>8 DEF IInv, LockInv
  <2>4. \A x \in Sessions : handler'[x].inserted \subseteq Adopted(x)' /\ handler'[x].inserted \cap bank' = {}
    <3> TAKE x \in Sessions
    <3>1. CASE x = s
      BY <1>8, <2>1, <3>1
    <3>2. CASE x # s
      <4>1. handler[x].inserted \subseteq Adopted(x) /\ handler[x].inserted \cap bank = {}
        BY DEF IInv, LockInv
      <4>2. handler[s].inserted \subseteq Adopted(s) /\ Adopted(x) \cap Adopted(s) = {}
        BY <3>2 DEF IInv, LockInv
      <4> QED
        BY <1>1, <1>7, <2>2, <3>2, <4>1, <4>2
    <3> QED
      BY <3>1, <3>2
  <2>5. \A x \in Sessions : \A t \in Sessions \ {x} : Adopted(x)' \cap Adopted(t)' = {}
    BY <2>1, <2>2 DEF IInv, LockInv
  <2> QED
    BY <2>3, <2>4, <2>5 DEF LockInv
<1>15. HistoryInv'
  <2> SUFFICES ASSUME NEW x \in Sessions, NEW t \in Sessions,
                      handler'[x].step = "adopting", sessions'[t].owner = sessions'[x].owner
               PROVE  Questions(x)' \cap items'[t] = {}
    BY DEF HistoryInv
  <2>1. x # s /\ handler[x].step = "adopting" /\ sessions[t].owner = sessions[x].owner
    BY <1>6, <1>7, <1>8
  <2>2. Questions(x)' = Questions(x) /\ sessions[x].status = "generating"
    BY <1>7, <2>1 DEF Questions, IInv, OneInv, Working
  <2>3. t # s
    BY <1>1, <2>1, <2>2 DEF IInv, OneInv
  <2> QED
    BY <1>2, <2>1, <2>2, <2>3 DEF IInv, HistoryInv
<1>16. NoQuestionTwice'
  <2>1. Adopted(s) = Questions(s)
    BY <1>1 DEF Adopted, Questions
  <2>2. \A t \in Sessions : sessions[t].owner = sessions[s].owner => Adopted(s) \cap items[t] = {}
    BY <1>1, <2>1 DEF IInv, HistoryInv
  <2> SUFFICES ASSUME NEW x \in Sessions, NEW t \in Sessions, x # t, sessions'[x].owner = sessions'[t].owner
               PROVE  items'[x] \cap items'[t] = {}
    BY DEF NoQuestionTwice
  <2>3. sessions[x].owner = sessions[t].owner
    BY <1>6
  <2>4. CASE x = s
    BY <1>2, <2>2, <2>3, <2>4
  <2>5. CASE t = s
    BY <1>2, <2>2, <2>3, <2>5
  <2>6. CASE x # s /\ t # s
    BY <1>2, <2>3, <2>6 DEF IInv, NoQuestionTwice
  <2> QED
    BY <2>4, <2>5, <2>6
<1> QED
  BY <1>9, <1>10, <1>11, <1>12, <1>13, <1>14, <1>15, <1>16, Zenon DEF IInv

-----------------------------------------------------------------------------
(* The theorems                                                            *)

\* Initially nothing was started.
LEMMA InitInv == Init => IInv
<1> SUFFICES ASSUME Init
             PROVE  IInv
  OBVIOUS
<1>1. /\ day = 0 /\ bank = {} /\ state = [s \in Sessions |-> "unknown"]
      /\ sessions = [s \in Sessions |-> NoSession] /\ items = [s \in Sessions |-> {}]
      /\ handler = [s \in Sessions |-> NotRunning] /\ asked = [s \in Sessions |-> 0]
  BY DEF Init, Queue!Init
<1>2. NoSession \in Session /\ NoSession.status = "absent" /\ NoSession.used = 0
  BY NumbersAssumption DEF NoSession, Session
<1>3. /\ NotRunning \in [step : Steps, calls : {NotRunning.calls}, blocked : {NotRunning.blocked},
                         found : {NotRunning.found}, adopted : Nat, inserted : {NotRunning.inserted}]
      /\ NotRunning.step = "idle" /\ NotRunning.adopted = 0 /\ NotRunning.inserted = {}
  BY DEF NotRunning, Steps
<1>4. Typed
  BY <1>1, <1>2, <1>3, NumbersAssumption DEF Typed, JobStates
<1>5. JobsInv /\ OneInv /\ NoQuestionTwice /\ HistoryInv
  BY <1>1, <1>2, <1>3 DEF JobsInv, OneInv, Working, NoQuestionTwice, HistoryInv
<1>6. BudgetInv
  BY <1>1, <1>2, <1>3, NumbersAssumption DEF BudgetInv, Owed
<1>7. DayInv
  <2>1. \A a \in Accounts, d \in Nat : On(a, d) = {}
    BY <1>1, <1>2 DEF On
  <2> QED
    BY <1>1, <1>2, <2>1, FS_EmptySet, NumbersAssumption DEF DayInv
<1>8. LockInv
  <2>1. \A s \in Sessions : Adopted(s) = {}
    BY <1>1, <1>3 DEF Adopted
  <2> QED
    BY <1>1, <1>3, <2>1 DEF LockInv
<1> QED
  BY <1>4, <1>5, <1>6, <1>7, <1>8 DEF IInv

\* Every step preserves the invariant.
LEMMA NextInv == IInv /\ [Next]_vars => IInv'
<1> SUFFICES ASSUME IInv, [Next]_vars
             PROVE  IInv'
  OBVIOUS
<1>1. ASSUME NEW s \in Sessions, NEW a \in Accounts, CreateGeneratedSession(a, s)
      PROVE  IInv'
  BY <1>1, CreateGeneratedSessionStep
<1>2. ASSUME NEW s \in Sessions, DeleteSession(s)
      PROVE  IInv'
  BY <1>2, DeleteSessionStep
<1>3. ASSUME NEW s \in Sessions, Claim(s)
      PROVE  IInv'
  BY <1>3, ClaimStep
<1>4. ASSUME NEW s \in Sessions, HandlerStep(s)
      PROVE  IInv'
  <2>1. CASE Start(s)
    BY <2>1, StartStep
  <2>2. CASE reserveGenerationCall(s)
    BY <2>2, reserveGenerationCallStep
  <2>3. CASE BudgetExhausted(s)
    <3>1. asked \in [Sessions -> Nat] /\ asked[s] <= sessions[s].used
      BY <2>3 DEF IInv, Typed, BudgetInv, Owed, BudgetExhausted
    <3> QED
      BY <2>3, <3>1, GiveUpStep DEF BudgetExhausted
  <2>4. CASE RunPrompt(s)
    BY <2>4, RunPromptStep
  <2>5. CASE RunPromptFails(s)
    BY <2>5, RunPromptFailsStep
  <2>6. CASE NotEnough(s)
    BY <2>6, ReturnsStep DEF NotEnough, Returns, queue
  <2>7. CASE BeginPersist(s)
    BY <2>7, BeginPersistStep
  <2>8. CASE findOrAdoptGeneratedQuestion(s)
    BY <2>8, findOrAdoptGeneratedQuestionStep
  <2>9. CASE CommitPersist(s)
    BY <2>9, CommitPersistStep
  <2>10. CASE BreakDeadlock(s)
    BY <2>10, ReturnsStep DEF BreakDeadlock, Returns, queue
  <2>11. CASE generationRetry(s)
    BY <2>11, generationRetryStep
  <2>12. CASE Complete(s)
    BY <2>12, CompleteStep
  <2> QED
    BY <1>4, <2>1, <2>2, <2>3, <2>4, <2>5, <2>6, <2>7, <2>8, <2>9, <2>10, <2>11, <2>12 DEF HandlerStep
<1>5. ASSUME NEW s \in Sessions, TakeBack(s)
      PROVE  IInv'
  BY <1>5, TakeBackStep
<1>6. CASE NextDay
  BY <1>6, NextDayStep
<1>7. CASE UNCHANGED vars
  <2>1. UNCHANGED <<day, sessions, items, bank, handler, asked, state>>
    BY <1>7 DEF vars, queue
  <2>2. Typed' /\ JobsInv' /\ BudgetInv' /\ OneInv' /\ NoQuestionTwice'
    BY <2>1 DEF IInv, Typed, JobsInv, BudgetInv, Owed, OneInv, NoQuestionTwice
  <2>3. \A x \in Sessions : Adopted(x)' = Adopted(x) /\ Questions(x)' = Questions(x)
    BY <2>1 DEF Adopted, Questions
  <2>4. DayInv'
    BY <2>1 DEF IInv, DayInv, On
  <2>5. LockInv'
    BY <2>1, <2>3 DEF IInv, LockInv
  <2>6. HistoryInv'
    BY <2>1, <2>3 DEF IInv, HistoryInv
  <2> QED
    BY <2>2, <2>4, <2>5, <2>6, Zenon DEF IInv
<1> QED
  BY <1>1, <1>2, <1>3, <1>4, <1>5, <1>6, <1>7 DEF Next

\* The invariant holds throughout.
THEOREM Invariant == Spec => []IInv
BY InitInv, NextInv, PTL DEF Spec

\* However attempts fail, crash and are repeated, the AI is asked no more often than
\* the session may ask, and an account starts no more sessions a day than it may.
THEOREM LimitsHoldHolds == Spec => []LimitsHold
<1>1. IInv => CallsWithinBudget
  <2> SUFFICES ASSUME IInv, NEW s \in Sessions
               PROVE  asked[s] <= Budget
    BY DEF CallsWithinBudget
  <2>1. /\ asked[s] \in Nat /\ sessions[s].used \in Nat
        /\ asked[s] + (IF handler[s].step = "reserved" THEN 1 ELSE 0) <= sessions[s].used
        /\ sessions[s].used <= Budget
    BY DEF IInv, Typed, Session, BudgetInv, Owed
  <2> QED
    BY <2>1, NumbersAssumption
<1>2. IInv => DailyLimitHolds
  <2>1. \A a, d : On(a, d) = {s \in Sessions : /\ sessions[s].owner = a /\ sessions[s].status # "absent"
                                               /\ sessions[s].day = d}
    BY DEF On
  <2>2. 0..MaxDay \subseteq Nat
    BY NumbersAssumption
  <2> QED
    BY <2>1, <2>2 DEF IInv, DayInv, DailyLimitHolds, On
<1> QED
  BY <1>1, <1>2, Invariant, PTL DEF LimitsHold

\* No account is given a question twice, although the history is never locked.
THEOREM NoQuestionTwiceHolds == Spec => []NoQuestionTwice
<1>1. IInv => NoQuestionTwice
  BY DEF IInv
<1> QED
  BY <1>1, Invariant, PTL

\* No transaction inserts a question that the bank has, or that another one inserts.
THEOREM OneVersionPerKeyHolds == Spec => []OneVersionPerKey
<1>1. IInv => OneVersionPerKey
  BY DEF IInv, LockInv, OneVersionPerKey
<1> QED
  BY <1>1, Invariant, PTL

-----------------------------------------------------------------------------
(* The filter of repeated questions                                        *)

Below == {ss \in Nat \X Nat : ss[1] < ss[2]}

\* A set of numbers that has 0 and the successor of each of its members has them all.
LEMMA NaturalInduction ==
  ASSUME NEW T \in SUBSET Nat, 0 \in T, \A n \in T : n + 1 \in T
  PROVE  T = Nat
<1> DEFINE R == Nat \ T
<1> SUFFICES ASSUME R # {} PROVE FALSE
  OBVIOUS
<1>1. IsWellFoundedOn(Below, Nat)
  BY NatLessThanWellFounded, Zenon DEF Below, OpToRel
<1>2. PICK x \in R : \A y \in R : <<y, x>> \notin Below
  <2> HIDE DEF R
  <2>1. R \subseteq Nat
    BY DEF R
  <2> QED
    BY <1>1, <2>1, WFMin
<1>3. x \in Nat /\ x # 0
  OBVIOUS
<1>4. x - 1 \in Nat /\ <<x - 1, x>> \in Below /\ (x - 1) + 1 = x
  BY <1>3 DEF Below
<1> QED
  BY <1>2, <1>4

\* No key is in the sequence twice.
Apart(q) == \A i, j \in 1..Len(q) : q[i] = q[j] => i = j

\* Keys that may be given: none twice, and none that is blocked.
New(q, blocked) == q \in Seq(Keys) /\ Apart(q) /\ \A i \in 1..Len(q) : q[i] \notin blocked

\* A key that is neither blocked nor there may be added.
LEMMA AppendNew ==
  ASSUME NEW q, NEW blocked, New(q, blocked), NEW k \in Keys, k \notin blocked \cup Range(q)
  PROVE  New(Append(q, k), blocked)
<1> DEFINE r == Append(q, k)
<1>1. q \in Seq(Keys) /\ Len(q) \in Nat /\ Len(r) = Len(q) + 1 /\ r \in Seq(Keys)
  BY DEF New
<1>2. /\ \A i \in 1..Len(q) : r[i] = q[i] /\ q[i] # k /\ q[i] \notin blocked
      /\ r[Len(q) + 1] = k
  BY <1>1 DEF New, Range
<1>3. \A i \in 1..Len(r) : i \in 1..Len(q) \/ i = Len(q) + 1
  BY <1>1
<1> HIDE DEF r
<1>4. \A i \in 1..Len(r) : r[i] \notin blocked
  BY <1>2, <1>3
<1>5. Apart(r)
  BY <1>2, <1>3 DEF New, Apart
<1> QED
  BY <1>1, <1>4, <1>5 DEF New, r

\* Keys that are new beside those found so far may follow them.
LEMMA ConcatenateNew ==
  ASSUME NEW q, q \in Seq(Keys), Apart(q), NEW r, NEW blocked, New(r, blocked \cup Range(q))
  PROVE  q \o r \in Seq(Keys) /\ Len(q \o r) = Len(q) + Len(r) /\ Apart(q \o r)
<1> DEFINE c == q \o r
<1>1. /\ r \in Seq(Keys) /\ Len(q) \in Nat /\ Len(r) \in Nat
      /\ c \in Seq(Keys) /\ Len(c) = Len(q) + Len(r)
  BY DEF New
<1>2. /\ \A i \in 1..Len(q) : c[i] = q[i]
      /\ \A i \in (Len(q) + 1)..Len(c) : c[i] = r[i - Len(q)] /\ i - Len(q) \in 1..Len(r)
  BY <1>1
<1>3. \A i \in 1..Len(q), j \in 1..Len(r) : q[i] # r[j]
  BY <1>1 DEF New, Range
<1>4. \A i, j \in 1..Len(r) : r[i] = r[j] => i = j
  BY DEF New, Apart
<1>5. \A i \in 1..Len(c) : i \in Int /\ (i \in 1..Len(q) \/ i \in (Len(q) + 1)..Len(c))
  BY <1>1
<1> HIDE DEF c
<1>6. ASSUME NEW i \in 1..Len(c), NEW j \in 1..Len(c), c[i] = c[j] PROVE i = j
  <2>1. CASE i \in 1..Len(q) /\ j \in 1..Len(q)
    BY <1>2, <1>6, <2>1 DEF Apart
  <2>2. CASE i \in (Len(q) + 1)..Len(c) /\ j \in (Len(q) + 1)..Len(c)
    <3>1. i - Len(q) = j - Len(q)
      BY <1>2, <1>4, <1>6, <2>2
    <3> QED
      BY <1>1, <1>5, <3>1
  <2>3. CASE i \in 1..Len(q) /\ j \in (Len(q) + 1)..Len(c)
    BY <1>2, <1>3, <1>6, <2>3
  <2>4. CASE j \in 1..Len(q) /\ i \in (Len(q) + 1)..Len(c)
    BY <1>2, <1>3, <1>6, <2>4
  <2> QED
    BY <1>5, <2>1, <2>2, <2>3, <2>4
<1> QED
  BY <1>1, <1>6 DEF Apart, c

\* What the filter lets through is new, and no more than it was given.
THEOREM FreshIsNew ==
  ASSUME NEW answer \in Seq(Keys), NEW blocked
  PROVE  New(Fresh(answer, blocked), blocked) /\ Len(Fresh(answer, blocked)) <= Len(answer)
<1> DEFINE L == Len(answer)
           S(f, n) == IF n = 0 THEN <<>>
                      ELSE IF answer[n] \in blocked \cup Range(f[n - 1]) THEN f[n - 1]
                      ELSE Append(f[n - 1], answer[n])
           Solves(f, m) == f = [n \in 0..m |-> S(f, n)]
           kept == CHOOSE f : Solves(f, L)
<1>1. L \in Nat
  OBVIOUS
<1>2. \E f : Solves(f, L)
  <2> DEFINE T == {m \in Nat : \E f : Solves(f, m)}
  <2>1. 0 \in T
    <3> DEFINE f == [n \in 0..0 |-> <<>>]
    <3>1. Solves(f, 0)
      OBVIOUS
    <3> QED
      BY <3>1
  <2>2. ASSUME NEW m \in T PROVE m + 1 \in T
    <3>1. PICK f : Solves(f, m)
      OBVIOUS
    <3>2. m \in Nat
      OBVIOUS
    <3> DEFINE g == [n \in 0..(m + 1) |-> IF n \in 0..m THEN f[n] ELSE S(f, m + 1)]
    <3>3. \A n \in 0..m : g[n] = f[n]
      BY <3>2
    <3>4. ASSUME NEW n \in 0..(m + 1) PROVE g[n] = S(g, n)
      <4>1. n = 0 \/ (n - 1 \in 0..m /\ g[n - 1] = f[n - 1])
        BY <3>2, <3>3
      <4>2. S(g, n) = S(f, n)
        BY <4>1
      <4>3. n \in 0..m => f[n] = S(f, n)
        BY <3>1
      <4>4. n \notin 0..m => n = m + 1
        BY <3>2
      <4> HIDE DEF S
      <4> QED
        BY <4>2, <4>3, <4>4
    <3>5. Solves(g, m + 1)
      <4> HIDE DEF S
      <4>1. g = [n \in 0..(m + 1) |-> g[n]]
        OBVIOUS
      <4> HIDE DEF g
      <4> QED
        BY <3>4, <4>1
    <3> HIDE DEF g, Solves
    <3> QED
      BY <3>2, <3>5
  <2>3. T = Nat
    <3> HIDE DEF Solves
    <3>1. T \in SUBSET Nat
      OBVIOUS
    <3> HIDE DEF T
    <3> QED
      BY <2>1, <2>2, <3>1, NaturalInduction
  <2> HIDE DEF Solves
  <2> QED
    BY <1>1, <2>3
<1>3. Solves(kept, L)
  <2> HIDE DEF Solves
  <2> QED
    BY <1>2
<1>4. Fresh(answer, blocked) = kept[L]
  BY DEF Fresh
<1> HIDE DEF kept
<1>5. \A n \in 0..L : kept[n] = S(kept, n)
  <2> HIDE DEF S
  <2> QED
    BY <1>3
<1> HIDE DEF Solves
<1> DEFINE U == {n \in Nat : n <= L => New(kept[n], blocked) /\ Len(kept[n]) <= n}
<1>6. 0 \in U
  <2>1. kept[0] = <<>>
    BY <1>1, <1>5
  <2>2. New(<<>>, blocked) /\ Len(<<>>) <= 0
    BY DEF New, Apart
  <2> QED
    BY <2>1, <2>2
<1>7. ASSUME NEW n \in U PROVE n + 1 \in U
  <2>1. n \in Nat /\ n + 1 \in Nat
    OBVIOUS
  <2> SUFFICES ASSUME n + 1 <= L PROVE New(kept[n + 1], blocked) /\ Len(kept[n + 1]) <= n + 1
    BY <2>1
  <2>2. n + 1 \in 0..L /\ n + 1 # 0 /\ (n + 1) - 1 = n /\ n <= L /\ answer[n + 1] \in Keys
    BY <1>1, <2>1
  <2>3. New(kept[n], blocked) /\ Len(kept[n]) <= n /\ kept[n] \in Seq(Keys)
    BY <2>2 DEF New
  <2>4. kept[n + 1] = S(kept, n + 1)
    <3> HIDE DEF S
    <3> QED
      BY <1>5, <2>2
  <2>5. CASE answer[n + 1] \in blocked \cup Range(kept[n])
    <3>1. kept[n + 1] = kept[n]
      BY <2>2, <2>4, <2>5
    <3> QED
      BY <2>1, <2>3, <3>1
  <2>6. CASE answer[n + 1] \notin blocked \cup Range(kept[n])
    <3>1. kept[n + 1] = Append(kept[n], answer[n + 1])
      BY <2>2, <2>4, <2>6
    <3>2. New(Append(kept[n], answer[n + 1]), blocked)
      BY <2>2, <2>3, <2>6, AppendNew
    <3>3. Len(Append(kept[n], answer[n + 1])) = Len(kept[n]) + 1
      BY <2>2, <2>3
    <3> QED
      BY <2>1, <2>3, <3>1, <3>2, <3>3
  <2> QED
    BY <2>5, <2>6
<1>8. U = Nat
  <2>1. U \in SUBSET Nat
    OBVIOUS
  <2> HIDE DEF U
  <2> QED
    BY <1>6, <1>7, <2>1, NaturalInduction
<1> QED
  BY <1>1, <1>4, <1>8

-----------------------------------------------------------------------------
(* What an attempt has found, and what a learner is given                  *)

\* An attempt holds no more questions than were requested, none twice, and asks only
\* while some are missing; the transaction that persists has them all.
Sound(h) ==
  /\ h \in Handler
  /\ Len(h.found) <= Requested /\ Apart(h.found)
  /\ h.step = "reserved" => Len(h.found) < Requested /\ h.calls < MaxCalls
  /\ h.step = "adopting" => Len(h.found) = Requested

\* What the open transaction has looked up is in the bank, or inserted by it.
FoundInv ==
  /\ bank \subseteq Keys
  /\ items \in [Sessions -> SUBSET Keys]
  /\ \A s \in Sessions : Sound(handler[s]) /\ Adopted(s) \subseteq bank \cup handler[s].inserted

\* Only the attempt of one session changes, and the bank stays as it is.
LEMMA FoundStep ==
  ASSUME IInv, FoundInv, UNCHANGED <<items, bank>>,
         NEW s \in Sessions, NEW next, handler' = [handler EXCEPT ![s] = next], Sound(next),
         \A i \in 1..next.adopted : next.found[i] \in bank \cup next.inserted
  PROVE  FoundInv'
<1>1. handler'[s] = next /\ \A x \in Sessions : x # s => handler'[x] = handler[x]
  BY DEF IInv, Typed
<1>2. Adopted(s)' \subseteq bank' \cup handler'[s].inserted
  BY <1>1 DEF Adopted
<1>3. ASSUME NEW x \in Sessions, x # s
      PROVE  Sound(handler'[x]) /\ Adopted(x)' \subseteq bank' \cup handler'[x].inserted
  <2>1. handler'[x] = handler[x] /\ Adopted(x)' = Adopted(x)
    BY <1>1, <1>3 DEF Adopted
  <2> QED
    BY <2>1 DEF FoundInv
<1>4. Sound(handler'[s])
  BY <1>1
<1>5. bank' \subseteq Keys /\ items' \in [Sessions -> SUBSET Keys]
  BY DEF FoundInv
<1> QED
  BY <1>2, <1>3, <1>4, <1>5, Zenon DEF FoundInv, Sound

\* The function that made the calls has returned.
LEMMA ReturnsFound ==
  ASSUME IInv, FoundInv, UNCHANGED <<items, bank>>, NEW s \in Sessions,
         NEW after \in {"idle", "failing", "over"},
         handler' = [handler EXCEPT ![s] = [NotRunning EXCEPT !.step = after]]
  PROVE  FoundInv'
<1> DEFINE next == [NotRunning EXCEPT !.step = after]
<1>1. /\ next.step = after /\ next.calls = 0 /\ next.blocked = {} /\ next.found = <<>>
      /\ next.adopted = 0 /\ next.inserted = {}
  BY DEF NotRunning
<1>2. next \in Handler
  <2>1. <<>> \in Seq(Keys) /\ 0 \in 0..MaxCalls /\ 0 \in 0..Requested
    BY NumbersAssumption
  <2> QED
    BY <2>1 DEF NotRunning, Handler, Steps
<1>3. Len(<<>>) = 0 /\ Apart(<<>>) /\ 0 <= Requested
  BY NumbersAssumption DEF Apart
<1> HIDE DEF next
<1>4. Sound(next)
  BY <1>1, <1>2, <1>3 DEF Sound
<1>5. \A i \in 1..next.adopted : next.found[i] \in bank \cup next.inserted
  BY <1>1
<1> QED
  BY <1>4, <1>5, FoundStep DEF next

\* The attempt goes on with what it has.
LEMMA MovesFound ==
  ASSUME IInv, FoundInv, UNCHANGED <<items, bank>>, NEW s \in Sessions, NEW before, NEW after \in Steps,
         Moves(s, before, after),
         after = "reserved" => WantsMore(s), after = "adopting" => HasAll(s)
  PROVE  FoundInv'
<1> DEFINE next == [handler[s] EXCEPT !.step = after]
<1>1. handler' = [handler EXCEPT ![s] = next]
  BY DEF Moves
<1>2. Sound(handler[s]) /\ Adopted(s) \subseteq bank \cup handler[s].inserted
  BY DEF FoundInv
<1>3. /\ next \in Handler /\ next.step = after /\ next.calls = handler[s].calls /\ next.found = handler[s].found
      /\ next.adopted = handler[s].adopted /\ next.inserted = handler[s].inserted
  BY <1>2 DEF Sound, Handler
<1> HIDE DEF next
<1>4. Sound(next)
  BY <1>2, <1>3 DEF Sound, WantsMore, HasAll
<1>5. \A i \in 1..next.adopted : next.found[i] \in bank \cup next.inserted
  BY <1>2, <1>3 DEF Adopted
<1> QED
  BY <1>1, <1>4, <1>5, FoundStep

\* The attempt learns the history of the account.
LEMMA StartFound ==
  ASSUME IInv, FoundInv, NEW s \in Sessions, Start(s)
  PROVE  FoundInv'
<1> DEFINE h    == handler[s]
           seen == History(sessions[s].owner)
           next == IF sessions[s].status = "generating"
                   THEN [h EXCEPT !.step = "ready", !.blocked = seen]
                   ELSE [h EXCEPT !.step = "over"]
<1>1. handler' = [handler EXCEPT ![s] = next] /\ UNCHANGED <<items, bank>>
  BY DEF Start
<1>2. Sound(h) /\ h \in Handler /\ Adopted(s) \subseteq bank \cup h.inserted
  BY DEF FoundInv, Sound
<1>3. seen \in SUBSET Keys
  BY DEF History, FoundInv
<1> HIDE DEF seen
<1>4. /\ next \in Handler /\ next.step \in {"ready", "over"} /\ next.found = h.found
      /\ next.adopted = h.adopted /\ next.inserted = h.inserted
  BY <1>2, <1>3 DEF Handler, Steps
<1> HIDE DEF next
<1>5. Sound(next)
  BY <1>2, <1>4 DEF Sound
<1>6. \A i \in 1..next.adopted : next.found[i] \in bank \cup next.inserted
  BY <1>2, <1>4 DEF Adopted
<1> QED
  BY <1>1, <1>5, <1>6, FoundStep

\* What passes the filter follows what was found.
LEMMA RunPromptFound ==
  ASSUME IInv, FoundInv, NEW s \in Sessions, RunPrompt(s)
  PROVE  FoundInv'
<1> DEFINE h    == handler[s]
           room == Requested - Len(h.found)
           out  == h.blocked \cup Range(h.found)
<1>1. PICK answer \in SeqOf(Keys, room) :
        handler' = [handler EXCEPT ![s] =
          [h EXCEPT !.step = "ready", !.calls = h.calls + 1, !.found = h.found \o Fresh(answer, out)]]
  BY DEF RunPrompt, Answers
<1>2. h.step = "reserved" /\ UNCHANGED <<items, bank>>
  BY DEF RunPrompt
<1>3. /\ Sound(h) /\ h \in Handler /\ h.found \in Seq(Keys) /\ Len(h.found) \in Nat
      /\ Len(h.found) < Requested /\ h.calls < MaxCalls /\ h.calls \in Nat /\ Apart(h.found)
      /\ room \in Nat /\ h.adopted = 0 /\ h.inserted = {}
  <2>1. Sound(h) /\ h.adopted = 0 /\ h.inserted = {}
    BY <1>2, NothingOpenFact DEF FoundInv
  <2>2. h.found \in Seq(Keys) /\ h.calls \in 0..MaxCalls
    BY <2>1 DEF Sound, Handler
  <2> QED
    BY <1>2, <2>1, <2>2, NumbersAssumption DEF Sound
<1>4. answer \in Seq(Keys) /\ Len(answer) <= room
  <2>1. PICK m \in 0..room : answer \in [1..m -> Keys]
    BY DEF SeqOf
  <2>2. m \in Nat /\ m <= room
    BY <1>3, <2>1
  <2> QED
    BY <2>1, <2>2
<1> DEFINE fresh == Fresh(answer, out)
           more  == h.found \o fresh
<1>5. New(fresh, out) /\ Len(fresh) <= Len(answer)
  BY <1>4, FreshIsNew
<1> HIDE DEF fresh
<1>6. more \in Seq(Keys) /\ Len(more) = Len(h.found) + Len(fresh) /\ Apart(more)
  <2> DEFINE f == h.found
             b == h.blocked
  <2>1. f \in Seq(Keys) /\ Apart(f) /\ New(fresh, b \cup Range(f))
    BY <1>3, <1>5
  <2> HIDE DEF f, b
  <2>2. f \o fresh \in Seq(Keys) /\ Len(f \o fresh) = Len(f) + Len(fresh) /\ Apart(f \o fresh)
    BY <2>1, ConcatenateNew
  <2> QED
    BY <2>2 DEF f
<1>7. Len(more) <= Requested
  <2>1. Len(fresh) \in Nat /\ Len(answer) \in Nat
    BY <1>4, <1>5 DEF New
  <2> QED
    BY <1>3, <1>4, <1>5, <1>6, <2>1, NumbersAssumption
<1> HIDE DEF more
<1> DEFINE next == [h EXCEPT !.step = "ready", !.calls = h.calls + 1, !.found = more]
<1>8. handler' = [handler EXCEPT ![s] = next]
  BY <1>1 DEF more, fresh
<1>9. /\ next.step = "ready" /\ next.found = more /\ next.adopted = 0 /\ next.inserted = {}
      /\ next \in Handler
  <2>1. h.calls + 1 \in 0..MaxCalls
    BY SMTT(30), <1>3, NumbersAssumption
  <2> QED
    BY <1>3, <1>6, <2>1 DEF Handler, Steps
<1> HIDE DEF next
<1>10. Sound(next)
  BY <1>6, <1>7, <1>9 DEF Sound
<1>11. \A i \in 1..next.adopted : next.found[i] \in bank \cup next.inserted
  BY <1>9
<1> QED
  BY <1>2, <1>8, <1>10, <1>11, FoundStep

\* A question is taken from the bank or inserted.
LEMMA AdoptFound ==
  ASSUME IInv, FoundInv, NEW s \in Sessions, findOrAdoptGeneratedQuestion(s)
  PROVE  FoundInv'
<1> DEFINE h    == handler[s]
           key  == h.found[h.adopted + 1]
           next == [h EXCEPT !.adopted = h.adopted + 1, !.inserted = h.inserted \cup ({key} \ bank)]
<1>1. handler' = [handler EXCEPT ![s] = next] /\ UNCHANGED <<items, bank>>
  BY DEF findOrAdoptGeneratedQuestion, NextKey
<1>2. /\ Sound(h) /\ h \in Handler /\ h.step = "adopting" /\ h.adopted < Len(h.found)
      /\ Adopted(s) \subseteq bank \cup h.inserted
  BY DEF findOrAdoptGeneratedQuestion, Adopting, FoundInv, Sound
<1>3. /\ h.adopted \in Nat /\ h.found \in Seq(Keys) /\ Len(h.found) = Requested /\ h.inserted \subseteq Keys
      /\ h.adopted + 1 \in 0..Requested
  BY <1>2, NumbersAssumption DEF Sound, Handler
<1>4. key \in Keys
  BY <1>2, <1>3
<1> HIDE DEF key
<1>5. /\ next \in Handler /\ next.step = "adopting" /\ next.found = h.found /\ next.calls = h.calls
      /\ next.adopted = h.adopted + 1 /\ next.inserted = h.inserted \cup ({key} \ bank)
  BY <1>2, <1>3, <1>4 DEF Handler
<1> HIDE DEF next
<1>6. Sound(next)
  BY <1>2, <1>5 DEF Sound
<1>7. \A i \in 1..next.adopted : next.found[i] \in bank \cup next.inserted
  <2> SUFFICES ASSUME NEW i \in 1..next.adopted
               PROVE  next.found[i] \in bank \cup next.inserted
    OBVIOUS
  <2>1. i \in 1..h.adopted \/ i = h.adopted + 1
    BY <1>3, <1>5
  <2>2. i \in 1..h.adopted => h.found[i] \in bank \cup h.inserted
    BY <1>2 DEF Adopted
  <2> QED
    BY <1>5, <2>1, <2>2 DEF key
<1> QED
  BY <1>1, <1>6, <1>7, FoundStep

\* Of the sessions, none becomes active, and the questions stay.
LEMMA GivenKept ==
  ASSUME ActiveIsComplete, UNCHANGED <<items, bank>>,
         \A x \in Sessions : sessions'[x].status = "active" <=> sessions[x].status = "active"
  PROVE  ActiveIsComplete'
<1> SUFFICES ASSUME NEW x \in Sessions
             PROVE  IF sessions'[x].status = "active"
                    THEN Cardinality(items'[x]) = Requested /\ items'[x] \subseteq bank'
                    ELSE items'[x] = {}
  BY DEF ActiveIsComplete
<1> QED
  BY DEF ActiveIsComplete

\* Marking a session as failed makes none active, and undoes none.
LEMMA FailedKept ==
  ASSUME IInv, NEW s \in Sessions,
         sessions' = [sessions EXCEPT ![s] = Failed(sessions[s])] \/ sessions' = sessions
  PROVE  \A x \in Sessions : sessions'[x].status = "active" <=> sessions[x].status = "active"
<1> SUFFICES ASSUME NEW x \in Sessions
             PROVE  sessions'[x].status = "active" <=> sessions[x].status = "active"
  OBVIOUS
<1>1. sessions \in [Sessions -> Session]
  BY DEF IInv, Typed
<1>2. Failed(sessions[s]).status = "active" <=> sessions[s].status = "active"
  BY <1>1 DEF Failed, Session
<1>3. sessions'[x] = sessions[x] \/ (x = s /\ sessions'[x] = Failed(sessions[s]))
  BY <1>1
<1> QED
  BY <1>2, <1>3

\* The questions of the session are those found, as many as were requested.
LEMMA CommitPersistFound ==
  ASSUME IInv, FoundInv, ActiveIsComplete, NEW s \in Sessions, CommitPersist(s)
  PROVE  FoundInv' /\ ActiveIsComplete'
<1> DEFINE h    == handler[s]
           more == h.inserted
<1>1. /\ Sound(h) /\ h \in Handler /\ h.step = "adopting" /\ h.adopted = Len(h.found)
      /\ Adopted(s) \subseteq bank \cup more /\ sessions[s].status = "generating"
  BY DEF CommitPersist, FoundInv, Sound, IInv, OneInv, Working
<1>2. h.found \in Seq(Keys) /\ more \subseteq Keys /\ Len(h.found) = Requested /\ Apart(h.found)
  BY <1>1 DEF Sound, Handler
<1>3. /\ bank' = bank \cup more /\ items' = [items EXCEPT ![s] = Adopted(s)]
      /\ handler' = [handler EXCEPT ![s] = [NotRunning EXCEPT !.step = "over"]]
      /\ sessions' = [sessions EXCEPT ![s] = [sessions[s] EXCEPT !.status = "active"]]
  BY <1>1 DEF CommitPersist
<1>4. Adopted(s) \subseteq Keys
  BY <1>1, <1>2 DEF Adopted
<1>5. /\ items' \in [Sessions -> SUBSET Keys] /\ items'[s] = Adopted(s)
      /\ \A x \in Sessions : x # s => items'[x] = items[x]
  BY <1>3, <1>4 DEF FoundInv
<1>6. FoundInv'
  <2> DEFINE next == [NotRunning EXCEPT !.step = "over"]
  <2>1. /\ next.step = "over" /\ next.found = <<>> /\ next.adopted = 0 /\ next.inserted = {}
        /\ next.calls = 0 /\ next.blocked = {}
    BY DEF NotRunning
  <2>2. handler'[s] = next /\ \A x \in Sessions : x # s => handler'[x] = handler[x]
    BY <1>3 DEF IInv, Typed
  <2>3. Sound(next)
    <3>1. <<>> \in Seq(Keys) /\ 0 \in 0..MaxCalls /\ 0 \in 0..Requested /\ Len(<<>>) = 0 /\ 0 <= Requested
      BY NumbersAssumption
    <3>2. next \in Handler
      BY <3>1 DEF NotRunning, Handler, Steps
    <3> HIDE DEF next
    <3> QED
      BY <2>1, <3>1, <3>2 DEF Sound, Apart
  <2> HIDE DEF next
  <2>4. Sound(handler'[s]) /\ Adopted(s)' \subseteq bank' \cup handler'[s].inserted
    <3>1. Adopted(s)' = {}
      BY <2>1, <2>2 DEF Adopted
    <3> QED
      BY <2>2, <2>3, <3>1
  <2>5. ASSUME NEW x \in Sessions, x # s
        PROVE  Sound(handler'[x]) /\ Adopted(x)' \subseteq bank' \cup handler'[x].inserted
    <3>1. handler'[x] = handler[x] /\ Adopted(x)' = Adopted(x)
      BY <2>2, <2>5 DEF Adopted
    <3>2. Sound(handler[x]) /\ Adopted(x) \subseteq bank \cup handler[x].inserted
      BY DEF FoundInv
    <3> QED
      BY <1>3, <3>1, <3>2
  <2>6. bank' \subseteq Keys
    BY <1>2, <1>3 DEF FoundInv
  <2> QED
    BY <1>5, <2>4, <2>5, <2>6, Zenon DEF FoundInv, Sound
<1>7. Cardinality(Adopted(s)) = Requested
  <2>1. Requested \in Nat /\ Requested # 0
    BY NumbersAssumption
  <2>2. IsFiniteSet(1..Requested) /\ Cardinality(1..Requested) = Requested
    BY <2>1, FS_Interval
  <2> DEFINE f == [i \in 1..Requested |-> h.found[i]]
  <2>3. f \in Injection(1..Requested, Adopted(s)) /\ f \in Surjection(1..Requested, Adopted(s))
    <3>1. Adopted(s) = {h.found[i] : i \in 1..Requested}
      BY <1>1, <1>2 DEF Adopted
    <3>2. \A i, j \in 1..Requested : f[i] = f[j] => i = j
      BY <1>2 DEF Apart
    <3> QED
      BY <3>1, <3>2 DEF Injection, IsInjective, Surjection
  <2> HIDE DEF f
  <2> QED
    BY <2>2, <2>3, FS_Surjection
<1>8. ActiveIsComplete'
  <2> SUFFICES ASSUME NEW x \in Sessions
               PROVE  IF sessions'[x].status = "active"
                      THEN Cardinality(items'[x]) = Requested /\ items'[x] \subseteq bank'
                      ELSE items'[x] = {}
    BY DEF ActiveIsComplete
  <2>1. CASE x = s
    <3>1. sessions'[s].status = "active"
      BY <1>3 DEF IInv, Typed, Session
    <3> QED
      BY <1>1, <1>3, <1>5, <1>7, <2>1, <3>1
  <2>2. CASE x # s
    <3>1. sessions'[x] = sessions[x] /\ items'[x] = items[x] /\ bank \subseteq bank'
      BY <1>3, <1>5, <2>2 DEF IInv, Typed
    <3> QED
      BY <3>1 DEF ActiveIsComplete
  <2> QED
    BY <2>1, <2>2
<1> QED
  BY <1>6, <1>8

\* Every step keeps what was found, and what was given.
LEMMA FoundNext ==
  ASSUME IInv, FoundInv, ActiveIsComplete, [Next]_vars
  PROVE  FoundInv' /\ ActiveIsComplete'
<1>1. ASSUME NEW s \in Sessions, NEW a \in Accounts, CreateGeneratedSession(a, s)
      PROVE  FoundInv' /\ ActiveIsComplete'
  <2>1. /\ UNCHANGED <<items, bank, handler>> /\ sessions[s].status = "absent"
        /\ sessions' = [sessions EXCEPT ![s] =
             [status |-> "generating", owner |-> a, used |-> 0, day |-> day, deleted |-> "no"]]
    BY <1>1 DEF CreateGeneratedSession
  <2>2. \A x \in Sessions : sessions'[x].status = "active" <=> sessions[x].status = "active"
    BY <2>1 DEF IInv, Typed
  <2>3. ActiveIsComplete'
    BY <2>1, <2>2, GivenKept
  <2> QED
    BY <2>1, <2>3 DEF FoundInv, Adopted
<1>2. ASSUME NEW s \in Sessions, DeleteSession(s)
      PROVE  FoundInv' /\ ActiveIsComplete'
  <2>1. /\ UNCHANGED <<items, bank, handler>>
        /\ sessions' = [sessions EXCEPT ![s] = [sessions[s] EXCEPT !.deleted = "yes"]]
    BY <1>2 DEF DeleteSession
  <2>2. \A x \in Sessions : sessions'[x].status = "active" <=> sessions[x].status = "active"
    BY <2>1 DEF IInv, Typed, Session
  <2>3. ActiveIsComplete'
    BY <2>1, <2>2, GivenKept
  <2> QED
    BY <2>1, <2>3 DEF FoundInv, Adopted
<1>3. CASE NextDay
  <2>1. UNCHANGED <<items, bank, handler, sessions>>
    BY <1>3 DEF NextDay
  <2> QED
    BY <2>1 DEF FoundInv, Adopted, ActiveIsComplete
<1>4. CASE UNCHANGED vars
  <2>1. UNCHANGED <<items, bank, handler, sessions>>
    BY <1>4 DEF vars
  <2> QED
    BY <2>1 DEF FoundInv, Adopted, ActiveIsComplete
<1>5. ASSUME NEW s \in Sessions, Claim(s) \/ HandlerStep(s) \/ TakeBack(s)
      PROVE  FoundInv' /\ ActiveIsComplete'
  <2>1. ASSUME FoundInv', UNCHANGED <<items, bank>>,
               sessions' = [sessions EXCEPT ![s] = Failed(sessions[s])] \/ sessions' = sessions
        PROVE  FoundInv' /\ ActiveIsComplete'
    BY <2>1, FailedKept, GivenKept
  <2>2. CASE Claim(s)
    <3>1. Moves(s, "idle", "claimed") /\ UNCHANGED <<items, bank, sessions>>
      BY <2>2 DEF Claim
    <3>2. FoundInv'
      BY <3>1, MovesFound DEF Steps
    <3> QED
      BY <2>1, <3>1, <3>2
  <2>3. CASE Start(s)
    BY <2>1, <2>3, StartFound DEF Start
  <2>4. CASE reserveGenerationCall(s)
    <3>1. /\ Moves(s, "ready", "reserved") /\ UNCHANGED <<items, bank>> /\ WantsMore(s)
          /\ sessions' = [sessions EXCEPT ![s] = [sessions[s] EXCEPT !.used = sessions[s].used + 1]]
      BY <2>4 DEF reserveGenerationCall
    <3>2. FoundInv'
      BY <3>1, MovesFound DEF Steps
    <3>3. \A x \in Sessions : sessions'[x].status = "active" <=> sessions[x].status = "active"
      BY <3>1 DEF IInv, Typed, Session
    <3> QED
      BY <3>1, <3>2, <3>3, GivenKept
  <2>5. CASE BudgetExhausted(s)
    <3>1. /\ handler' = [handler EXCEPT ![s] = [NotRunning EXCEPT !.step = "over"]]
          /\ sessions' = [sessions EXCEPT ![s] = Failed(sessions[s])] /\ UNCHANGED <<items, bank>>
      BY <2>5 DEF BudgetExhausted, GiveUp, Returns
    <3> QED
      BY <2>1, <3>1, ReturnsFound
  <2>6. CASE RunPrompt(s)
    BY <2>1, <2>6, RunPromptFound DEF RunPrompt
  <2>7. CASE RunPromptFails(s)
    <3>1. /\ UNCHANGED <<items, bank>>
          /\ \E after \in {"failing", "over"} :
               handler' = [handler EXCEPT ![s] = [NotRunning EXCEPT !.step = after]]
          /\ sessions' = [sessions EXCEPT ![s] = Failed(sessions[s])] \/ sessions' = sessions
      BY <2>7 DEF RunPromptFails, GiveUp, Returns
    <3> QED
      BY <2>1, <3>1, ReturnsFound
  <2>8. CASE NotEnough(s) \/ BreakDeadlock(s)
    <3>1. /\ UNCHANGED <<items, bank, sessions>>
          /\ handler' = [handler EXCEPT ![s] = [NotRunning EXCEPT !.step = "failing"]]
      BY <2>8 DEF NotEnough, BreakDeadlock, Returns
    <3> QED
      BY <2>1, <3>1, ReturnsFound
  <2>9. CASE BeginPersist(s)
    <3>1. UNCHANGED <<items, bank, sessions>> /\ HasAll(s)
      BY <2>9 DEF BeginPersist
    <3>2. CASE Moves(s, "ready", "adopting")
      BY <2>1, <3>1, <3>2, MovesFound DEF Steps
    <3>3. CASE Returns(s, "ready", "failing")
      <4>1. handler' = [handler EXCEPT ![s] = [NotRunning EXCEPT !.step = "failing"]]
        BY <3>3 DEF Returns
      <4> QED
        BY <2>1, <3>1, <4>1, ReturnsFound
    <3> QED
      BY <2>9, <3>2, <3>3 DEF BeginPersist
  <2>10. CASE findOrAdoptGeneratedQuestion(s)
    BY <2>1, <2>10, AdoptFound DEF findOrAdoptGeneratedQuestion
  <2>11. CASE CommitPersist(s)
    BY <2>11, CommitPersistFound
  <2>12. CASE generationRetry(s)
    <3>1. /\ UNCHANGED <<items, bank>> /\ Moves(s, "failing", "refused")
          /\ sessions' = [sessions EXCEPT ![s] = Failed(sessions[s])] \/ sessions' = sessions
      BY <2>12 DEF generationRetry
    <3> QED
      BY <2>1, <3>1, MovesFound DEF Steps
  <2>13. CASE Complete(s) \/ TakeBack(s)
    <3>1. /\ UNCHANGED <<items, bank>> /\ handler' = [handler EXCEPT ![s] = NotRunning]
          /\ sessions' = [sessions EXCEPT ![s] = Failed(sessions[s])] \/ sessions' = sessions
      BY <2>13 DEF Complete, TakeBack
    <3>2. NotRunning = [NotRunning EXCEPT !.step = "idle"]
      BY DEF NotRunning
    <3> QED
      BY <2>1, <3>1, <3>2, ReturnsFound
  <2> QED
    BY <1>5, <2>2, <2>3, <2>4, <2>5, <2>6, <2>7, <2>8, <2>9, <2>10, <2>11, <2>12, <2>13 DEF HandlerStep
<1> QED
  BY <1>1, <1>2, <1>3, <1>4, <1>5, Zenon DEF Next

\* At the start nothing was found, and nothing given.
LEMMA FoundInitially == Init => FoundInv /\ ActiveIsComplete
<1> SUFFICES ASSUME Init PROVE FoundInv /\ ActiveIsComplete
  OBVIOUS
<1>1. /\ handler = [s \in Sessions |-> NotRunning] /\ items = [s \in Sessions |-> {}] /\ bank = {}
      /\ sessions = [s \in Sessions |-> NoSession]
  BY DEF Init
<1>2. Sound(NotRunning)
  <2>1. <<>> \in Seq(Keys) /\ 0 \in 0..MaxCalls /\ 0 \in 0..Requested /\ Len(<<>>) = 0 /\ 0 <= Requested
    BY NumbersAssumption
  <2>2. NotRunning \in Handler
    BY <2>1 DEF NotRunning, Handler, Steps
  <2> QED
    BY <2>1, <2>2 DEF NotRunning, Sound, Apart
<1>3. \A s \in Sessions : Adopted(s) = {}
  BY <1>1 DEF Adopted, NotRunning
<1>4. FoundInv
  BY <1>1, <1>2, <1>3 DEF FoundInv
<1> QED
  BY <1>1, <1>4 DEF ActiveIsComplete, NoSession

\* Every variable has its type: an attempt holds questions, and no more than requested.
THEOREM TypeCorrect == Spec => []TypeOK
<1>1. IInv /\ FoundInv => TypeOK
  BY DEF IInv, Typed, FoundInv, Sound, TypeOK
<1>2. IInv /\ (FoundInv /\ ActiveIsComplete) /\ [Next]_vars => (FoundInv /\ ActiveIsComplete)'
  BY FoundNext
<1> QED
  BY <1>1, <1>2, FoundInitially, Invariant, PTL DEF Spec

\* A session that can be answered has as many questions as were requested, all in the
\* bank, in which each is once.
THEOREM BankIsSoundHolds == Spec => []BankIsSound
<1>1. IInv /\ (FoundInv /\ ActiveIsComplete) /\ [Next]_vars => (FoundInv /\ ActiveIsComplete)'
  BY FoundNext
<1> QED
  BY <1>1, FoundInitially, Invariant, OneVersionPerKeyHolds, PTL DEF Spec, BankIsSound

-----------------------------------------------------------------------------
(* The shuffle of a choice's options (GeneratedChoice)                     *)

\* Each text is as right after the shuffle as before it.
THEOREM VerdictsFollowTheTexts ==
  ASSUME NEW n \in Nat, NEW Ids, NEW Texts, NEW About,
         NEW q \in ChoiceQuestions(n, Ids, Texts, About), Valid(n, q),
         NEW order \in Order(n), NEW i \in 1..n
  PROVE  LET shuffled == remapGeneratedChoiceOptions(n, q, order)
         IN  /\ shuffled.text[i] = q.text[order[i]]
             /\ Right(shuffled, i) <=> Right(q, order[i])
<1> DEFINE shuffled == remapGeneratedChoiceOptions(n, q, order)
<1>1. /\ shuffled.text = [k \in 1..n |-> q.text[order[k]]]
      /\ shuffled.answer = {q.id[k] : k \in {l \in 1..n : Right(q, order[l])}}
      /\ shuffled.id = q.id
  BY DEF remapGeneratedChoiceOptions, ChoiceQuestions
<1>2. q.id[i] \in {q.id[k] : k \in {l \in 1..n : Right(q, order[l])}} <=> Right(q, order[i])
  BY DEF Valid
<1> QED
  BY <1>1, <1>2 DEF Right

\* A one-to-one map of a finite set to itself reaches all of it.
LEMMA OrderIsOnto ==
  ASSUME NEW n \in Nat, NEW order \in Order(n), NEW k \in 1..n
  PROVE  \E i \in 1..n : order[i] = k
<1>1. IsFiniteSet(1..n) /\ Cardinality(1..n) = n
  BY FS_Interval
<1>2. order \in Injection(1..n, 1..n)
  BY DEF Order, Injection, IsInjective
<1> DEFINE reached == {order[i] : i \in 1..n}
<1>3. order \in Surjection(1..n, reached)
  BY DEF Order, Surjection
<1>4. order \in Injection(1..n, reached)
  BY DEF Order, Injection, IsInjective
<1>5. IsFiniteSet(reached) /\ Cardinality(reached) = n
  BY <1>1, <1>3, <1>4, FS_Surjection
<1>6. reached \subseteq 1..n
  BY DEF Order
<1>7. reached = 1..n
  BY <1>1, <1>5, <1>6, FS_Subset
<1> QED
  BY <1>7

\* The shuffle does not change the key by which a question is recognised.
THEOREM ReuseKeySurvivesTheShuffle ==
  ASSUME NEW n \in Nat, NEW Ids, NEW Texts, NEW About,
         NEW q \in ChoiceQuestions(n, Ids, Texts, About), Valid(n, q), NEW order \in Order(n)
  PROVE  generatedQuestionReuseKey(n, remapGeneratedChoiceOptions(n, q, order), Texts)
           = generatedQuestionReuseKey(n, q, Texts)
<1> DEFINE shuffled == remapGeneratedChoiceOptions(n, q, order)
<1>1. shuffled.about = q.about
  BY DEF remapGeneratedChoiceOptions, ChoiceQuestions
<1>2. ASSUME NEW text \in Texts, NEW right \in BOOLEAN
      PROVE  Cardinality(WithVerdict(n, shuffled, text, right))
               = Cardinality(WithVerdict(n, q, text, right))
  <2> DEFINE there == WithVerdict(n, shuffled, text, right)
             here  == WithVerdict(n, q, text, right)
             moved == [i \in there |-> order[i]]
  <2>1. \A i \in 1..n : order[i] \in 1..n
    BY DEF Order
  <2>2. \A i \in 1..n : i \in there <=> order[i] \in here
    BY <2>1, VerdictsFollowTheTexts DEF WithVerdict
  <2>3. there \subseteq 1..n /\ here \subseteq 1..n
    BY DEF WithVerdict
  <2>4. moved \in Injection(there, here)
    BY <2>2, <2>3 DEF Order, Injection, IsInjective
  <2>5. moved \in Surjection(there, here)
    <3>1. \A k \in here : \E i \in there : order[i] = k
      BY <2>2, <2>3, OrderIsOnto
    <3> QED
      BY <2>2, <2>3, <3>1 DEF Surjection
  <2>6. IsFiniteSet(there)
    BY <2>3, FS_Interval, FS_Subset
  <2> QED
    BY <2>4, <2>5, <2>6, FS_Surjection
<1>3. OptionKeys(n, shuffled, Texts) = OptionKeys(n, q, Texts)
  <2> HIDE DEF shuffled
  <2> QED
    BY <1>2 DEF OptionKeys
<1> QED
  BY <1>1, <1>3 DEF generatedQuestionReuseKey


\* Exchanging two places makes an order of an order.
LEMMA SwappedIsOrder ==
  ASSUME NEW n \in Nat, NEW order \in Order(n), NEW j \in 1..n, NEW k \in 1..n
  PROVE  /\ Swapped(order, j, k) \in Order(n)
         /\ Swapped(order, j, k)[j] = order[k]
         /\ \A i \in 1..n : i # j /\ i # k => Swapped(order, j, k)[i] = order[i]
<1> DEFINE new == Swapped(order, j, k)
<1>1. order \in [1..n -> 1..n] /\ \A i, l \in 1..n : order[i] = order[l] => i = l
  BY DEF Order
<1>2. /\ new \in [1..n -> 1..n]
      /\ \A i \in 1..n : new[i] = IF i = k THEN order[j] ELSE IF i = j THEN order[k] ELSE order[i]
  BY <1>1 DEF Swapped
<1> HIDE DEF new
<1>3. \A i, l \in 1..n : new[i] = new[l] => i = l
  BY <1>1, <1>2
<1>4. new[j] = order[k]
  BY <1>2
<1> QED
  BY <1>2, <1>3, <1>4 DEF Order, new

\* From the last place down to the second, the loop can come to any order: the text that
\* belongs to a place is never among those that have been placed already. It comes to
\* nothing else.
THEOREM ShufflesReachEveryOrder ==
  ASSUME NEW n \in Nat \ {0}
  PROVE  Shuffles(n) = Order(n)
<1> DEFINE id == [i \in 1..n |-> i]
           Step(orders, j) == {Swapped(order, j, k) : order \in orders, k \in 1..j}
           S(f, j) == IF j = n + 1 THEN {id} ELSE Step(f[j + 1], j)
           Solves(f, m) == f = [j \in m..(n + 1) |-> S(f, j)]
           Solved(m) == \E f : Solves(f, m)
           after == CHOOSE f : Solves(f, 2)
<1>1. n \in Nat /\ n >= 1 /\ n + 1 \in Nat /\ n - 1 \in Nat /\ (n + 1) - (n - 1) = 2
  OBVIOUS
<1>2. Solved(2)
  <2> DEFINE T == {d \in Nat : Solved((n + 1) - d)}
  <2> HIDE DEF id, Step
  <2>1. 0 \in T
    <3> DEFINE f == [j \in (n + 1)..(n + 1) |-> {id}]
    <3>1. \A j \in (n + 1)..(n + 1) : j = n + 1
      BY <1>1
    <3>2. Solved(n + 1)
      BY <3>1
    <3>3. (n + 1) - 0 = n + 1
      BY <1>1
    <3> HIDE DEF Solved
    <3> QED
      BY <3>2, <3>3
  <2>2. ASSUME NEW m \in Int, m <= n + 1, Solved(m) PROVE Solved(m - 1)
    <3>1. PICK f : Solves(f, m)
      BY <2>2
    <3> DEFINE l == m - 1
               g == [j \in l..(n + 1) |-> IF j \in m..(n + 1) THEN f[j] ELSE S(f, l)]
    <3>2. \A j \in m..(n + 1) : g[j] = f[j]
      BY <1>1, <2>2
    <3>3. ASSUME NEW j \in l..(n + 1) PROVE g[j] = S(g, j)
      <4>1. j = n + 1 \/ (j + 1 \in m..(n + 1) /\ g[j + 1] = f[j + 1])
        BY <1>1, <2>2, <3>2
      <4>2. S(g, j) = S(f, j)
        <5> HIDE DEF g
        <5> QED
          BY <4>1
      <4>3. j \in m..(n + 1) => f[j] = S(f, j)
        <5> HIDE DEF S
        <5> QED
          BY <3>1
      <4>4. j \notin m..(n + 1) => j = l
        BY <1>1, <2>2
      <4> HIDE DEF S
      <4> QED
        BY <4>2, <4>3, <4>4
    <3>4. Solves(g, l)
      <4> HIDE DEF S
      <4>1. g = [j \in l..(n + 1) |-> g[j]]
        OBVIOUS
      <4> HIDE DEF g
      <4> QED
        BY <3>3, <4>1
    <3> HIDE DEF g, Solves
    <3> QED
      BY <3>4
  <2> HIDE DEF Solved
  <2>3. ASSUME NEW d \in T PROVE d + 1 \in T
    <3>1. d \in Nat /\ Solved((n + 1) - d) /\ (n + 1) - d \in Int /\ (n + 1) - d <= n + 1
      BY <1>1
    <3>2. Solved((n + 1) - d - 1)
      BY <2>2, <3>1
    <3>3. (n + 1) - d - 1 = (n + 1) - (d + 1) /\ d + 1 \in Nat
      BY <1>1, <3>1
    <3> QED
      BY <3>2, <3>3
  <2>4. T = Nat
    <3>1. T \in SUBSET Nat
      OBVIOUS
    <3> HIDE DEF T
    <3> QED
      BY <2>1, <2>3, <3>1, NaturalInduction
  <2>5. n - 1 \in T
    <3> HIDE DEF T
    <3> QED
      BY <1>1, <2>4
  <2>6. Solved((n + 1) - (n - 1))
    BY <2>5
  <2> QED
    BY <1>1, <2>6
<1>3. Solves(after, 2)
  <2> HIDE DEF Solves
  <2> QED
    BY <1>2
<1>4. Shuffles(n) = after[2]
  BY DEF Shuffles
<1> HIDE DEF after
<1>5. \A j \in 2..(n + 1) : after[j] = S(after, j)
  <2> HIDE DEF S
  <2> QED
    BY <1>3
<1> HIDE DEF Solves
<1>6. after[n + 1] = {id} /\ \A j \in 2..n : after[j] = Step(after[j + 1], j)
  <2> HIDE DEF id, Step
  <2> QED
    BY <1>1, <1>5
<1> HIDE DEF S
<1>7. ASSUME NEW j \in 2..n
      PROVE  after[j] = {Swapped(order, j, k) : order \in after[j + 1], k \in 1..j}
  <2> SUFFICES after[j] = Step(after[j + 1], j)
    OBVIOUS
  <2> HIDE DEF Step
  <2> QED
    BY <1>6
<1> HIDE DEF Step
<1>8. \A order \in Order(n) : order \in [1..n -> 1..n] /\ \A v \in 1..n : \E k \in 1..n : order[k] = v
  <2>1. \A order \in Order(n) : order \in [1..n -> 1..n]
    BY DEF Order
  <2> QED
    BY <1>1, <2>1, OrderIsOnto
<1>swap. ASSUME NEW order \in Order(n), NEW j \in 1..n, NEW k \in 1..n
         PROVE  /\ Swapped(order, j, k) \in Order(n)
                /\ Swapped(order, j, k)[j] = order[k]
                /\ \A i \in 1..n : i # j /\ i # k => Swapped(order, j, k)[i] = order[i]
  BY <1>1, SwappedIsOrder
\* Every order agrees with one the loop can have come to on the places it has done.
<1> DEFINE Reached(j) == /\ after[j] \subseteq Order(n)
                         /\ \A goal \in Order(n) : \E order \in after[j] :
                              \A i \in j..n : order[i] = goal[i]
           U == {d \in Nat : d <= n - 1 => Reached((n + 1) - d)}
<1>9. Reached(n + 1)
  <2>1. id \in Order(n)
    BY DEF Order
  <2>2. \A i : i \notin (n + 1)..n
    BY <1>1
  <2> HIDE DEF id
  <2> QED
    BY <1>6, <2>1, <2>2 DEF id
<1>10. ASSUME NEW j \in 2..n, Reached(j + 1) PROVE Reached(j)
  <2>1. j \in 1..n /\ \A k \in 1..j : k \in 1..n
    BY <1>1
  <2>2. after[j] \subseteq Order(n)
    <3> SUFFICES ASSUME NEW order \in after[j + 1], NEW k \in 1..j
                 PROVE  Swapped(order, j, k) \in Order(n)
      BY <1>7
    <3>1. order \in Order(n)
      BY <1>10
    <3> QED
      BY <1>swap, <2>1, <3>1
  <2>3. ASSUME NEW goal \in Order(n)
        PROVE  \E order \in after[j] : \A i \in j..n : order[i] = goal[i]
    <3>1. PICK order \in after[j + 1] : \A i \in (j + 1)..n : order[i] = goal[i]
      BY <1>10
    <3>2. order \in Order(n)
      BY <1>10
    <3>3. goal \in [1..n -> 1..n] /\ \A i, l \in 1..n : goal[i] = goal[l] => i = l
      BY DEF Order
    <3>4. PICK k \in 1..n : order[k] = goal[j]
      BY <1>8, <2>1, <3>2, <3>3
    <3>5. k \in 1..j
      <4>1. CASE k \in (j + 1)..n
        <5>1. goal[k] = goal[j] /\ k # j
          BY <3>1, <3>4, <4>1
        <5> QED
          BY <2>1, <3>3, <5>1
      <4>2. k \in 1..j \/ k \in (j + 1)..n
        BY <1>1
      <4> QED
        BY <4>1, <4>2
    <3> DEFINE new == Swapped(order, j, k)
    <3>6. new \in after[j]
      BY <1>7, <3>5
    <3>7. new[j] = order[k] /\ \A i \in 1..n : i # j /\ i # k => new[i] = order[i]
      BY <1>swap, <2>1, <3>2
    <3> HIDE DEF new
    <3>8. \A i \in j..n : i = j \/ (i \in (j + 1)..n /\ i \in 1..n /\ i # j /\ i # k)
      BY <1>1, <3>5
    <3>9. \A i \in j..n : new[i] = goal[i]
      BY <3>1, <3>4, <3>7, <3>8
    <3> QED
      BY <3>6, <3>9
  <2> QED
    BY <2>2, <2>3
<1> HIDE DEF Reached
<1>11. 0 \in U
  <2>1. (n + 1) - 0 = n + 1
    BY <1>1
  <2> QED
    BY <1>9, <2>1
<1>12. ASSUME NEW d \in U PROVE d + 1 \in U
  <2>1. d \in Nat /\ d + 1 \in Nat
    OBVIOUS
  <2> SUFFICES ASSUME d + 1 <= n - 1 PROVE Reached((n + 1) - (d + 1))
    BY <2>1
  <2> DEFINE j == (n + 1) - (d + 1)
  <2>2. j \in 2..n /\ j + 1 = (n + 1) - d /\ d <= n - 1
    BY <1>1, <2>1
  <2>3. Reached((n + 1) - d)
    BY <2>2
  <2> HIDE DEF j
  <2>4. Reached(j + 1)
    BY <2>2, <2>3
  <2>5. Reached(j)
    BY <1>10, <2>2, <2>4
  <2> QED
    BY <2>5 DEF j
<1>13. U = Nat
  <2>1. U \in SUBSET Nat
    OBVIOUS
  <2> HIDE DEF U
  <2> QED
    BY <1>11, <1>12, <2>1, NaturalInduction
<1>14. Reached(2)
  <2>1. n - 1 \in U
    BY <1>1, <1>13
  <2> QED
    BY <1>1, <2>1
<1>15. ASSUME NEW goal \in Order(n) PROVE goal \in after[2]
  <2>1. PICK order \in after[2] : \A i \in 2..n : order[i] = goal[i]
    BY <1>14 DEF Reached
  <2>2. order \in Order(n)
    BY <1>14 DEF Reached
  <2>3. /\ goal \in [1..n -> 1..n] /\ \A i, l \in 1..n : goal[i] = goal[l] => i = l
        /\ order \in [1..n -> 1..n]
    BY <2>2 DEF Order
  <2>4. 1 \in 1..n /\ \A i \in 1..n : i = 1 \/ i \in 2..n
    BY <1>1
  <2>5. PICK k \in 1..n : order[k] = goal[1]
    BY <1>8, <2>2, <2>3, <2>4
  <2>6. k = 1
    BY <2>1, <2>3, <2>4, <2>5
  <2>7. \A i \in 1..n : order[i] = goal[i]
    BY <2>1, <2>4, <2>5, <2>6
  <2>8. order = goal
    BY <2>3, <2>7
  <2> QED
    BY <2>8
<1> QED
  BY <1>4, <1>14, <1>15 DEF Reached
=============================================================================
