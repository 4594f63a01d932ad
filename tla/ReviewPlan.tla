------------------------------ MODULE ReviewPlan ------------------------------
(***************************************************************************)
(* When a question is due for review (internal/learning/reviews.go).       *)
(*                                                                         *)
(* buildReviewPlans replays the graded answers of an account in the order  *)
(* of submission; the plans of different questions do not touch, so this   *)
(* is the replay for one question, one answer at a step.  Time is in days. *)
(***************************************************************************)
EXTENDS Naturals, Sequences

CONSTANTS
  First,      \* days until a wrong answer is due again
  Confirmed,  \* reviewIntervals
  AI,         \* aiReviewIntervals
  Sources,    \* who may have judged the answers
  Versions,   \* versions of the question, in the order they were published
  MaxTime     \* bound: the last day that is looked at

ASSUME FirstAssumption == First \in Nat \ {0}
ASSUME IntervalsAssumption ==
  /\ Confirmed \in Seq(Nat \ {0}) /\ AI \in Seq(Nat \ {0})
  /\ Confirmed # <<>> /\ AI # <<>>
ASSUME SourcesAssumption == Sources \subseteq {"confirmed", "ai"}
ASSUME VersionsAssumption == Versions \subseteq Nat \ {0}

VARIABLES
  plan,   \* the plan so far
  event,  \* the last answer that was replayed
  wrong   \* history: the version and the day of the last wrong answer

planVars == <<plan, event, wrong>>

NoVersion == 0

Status == {"correct", "incorrect", "unanswered"}

\* lastStatus none: the question is in no plan, and nextReviewAt means nothing.
Plan == [version : Versions \cup {NoVersion}, stage : Nat, nextReviewAt : Nat,
         lastStatus : Status \cup {"none"}]
NoPlan == [version |-> NoVersion, stage |-> 0, nextReviewAt |-> 0, lastStatus |-> "none"]

Event == [version : Versions \cup {NoVersion}, at : Nat, status : Status \cup {"none"},
          source : {"confirmed", "ai"}]
NoEvent == [version |-> NoVersion, at |-> 0, status |-> "none", source |-> "confirmed"]

-----------------------------------------------------------------------------
(* One answer                                                              *)

intervalsForReviewSource(source) == IF source = "ai" THEN AI ELSE Confirmed

\* A plan does not carry over to another version.
Versioned(p, e) == IF p.version = e.version THEN p ELSE [NoPlan EXCEPT !.version = e.version]

FailedPlan(p, e) ==
  [version |-> p.version, stage |-> 0, nextReviewAt |-> e.at + First, lastStatus |-> e.status]

EveryTime(p, e) == p.lastStatus # "none"

\* An answer before the due date is practice, and changes nothing.
Counts(p, e) == p.lastStatus # "none" /\ e.at >= p.nextReviewAt

\* The stage after a correct answer: the next one, never beyond the last interval.
NextStage(p, e) ==
  LET last == Len(intervalsForReviewSource(e.source))
  IN  IF p.stage < last THEN p.stage + 1 ELSE last

PassedWithoutCap(p, e) ==
  [version |-> p.version, stage |-> p.stage + 1, lastStatus |-> e.status,
   nextReviewAt |-> e.at + intervalsForReviewSource(e.source)[NextStage(p, e)]]

PassedFromDue(p, e) ==
  LET stage == NextStage(p, e)
  IN  [version |-> p.version, stage |-> stage, lastStatus |-> e.status,
       nextReviewAt |-> p.nextReviewAt + intervalsForReviewSource(e.source)[stage]]

\* The next due date counts from the answer, however late it came.
Passed(p, e) ==
  LET stage == NextStage(p, e)
  IN  [version |-> p.version, stage |-> stage, lastStatus |-> e.status,
       nextReviewAt |-> e.at + intervalsForReviewSource(e.source)[stage]]

\* The body of the loop of buildReviewPlans.
Replay(old, e) ==
  LET p == Versioned(old, e)
  IN  IF e.status \in {"incorrect", "unanswered"} THEN FailedPlan(p, e)
      ELSE IF Counts(p, e) THEN Passed(p, e) ELSE p

-----------------------------------------------------------------------------
(* The replay                                                              *)

PlanInit == plan = NoPlan /\ event = NoEvent /\ wrong = NoEvent

Answered(e) ==
  /\ e.at >= event.at
  /\ plan' = Replay(plan, e)
  /\ event' = e
  /\ wrong' = IF e.status = "correct" THEN wrong ELSE e

PlanNext ==
  \E version \in Versions, at \in event.at..MaxTime, status \in Status, source \in Sources :
    Answered([version |-> version, at |-> at, status |-> status, source |-> source])

PlanSpec == PlanInit /\ [][PlanNext]_planVars

-----------------------------------------------------------------------------
(* Properties                                                              *)

\* Every variable has its type; no stage lies beyond the intervals there are.
PlanTypeOK ==
  /\ plan \in Plan
  /\ event \in Event /\ wrong \in Event
  /\ plan.stage <= Len(Confirmed) \/ plan.stage <= Len(AI)

\* The fewest days from one stage to the next: the shorter interval where both judges
\* have one.
Shortest(n) ==
  IF n = 0 THEN First
  ELSE IF n <= Len(AI) /\ (n > Len(Confirmed) \/ AI[n] < Confirmed[n]) THEN AI[n] ELSE Confirmed[n]

\* The least number of days in which a question can reach a stage after a wrong answer.
Earliest[n \in Nat] == IF n = 0 THEN 0 ELSE Earliest[n - 1] + Shortest(n - 1)

\* "Correct answers in a row do not advance a stage before the next due date": however
\* often a question is answered, each stage takes its time since the last wrong answer.
StageTakesTime == plan.stage > 0 => event.at >= wrong.at + Earliest[plan.stage]

\* "An answer influences the plan only once": replaying it again changes nothing.
AnswerCountsOnce == event # NoEvent => Replay(plan, event) = plan

=============================================================================
