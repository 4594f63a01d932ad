----------------------------- MODULE AnswerProofs -----------------------------
(***************************************************************************)
(* For all options, lists of ids and texts, intervals, versions and days:  *)
(* an answer is graded as specified, and a review plan counts an answer    *)
(* once and gives every stage its time.                                    *)
(*                                                                         *)
(* The code compares lists of options by length and by inclusion one way;  *)
(* that this is equality of sets rests on the lists having no repetitions. *)
(***************************************************************************)
EXTENDS MCAnswers, AnswerAutosaveProofs

-----------------------------------------------------------------------------
(* Grading                                                                 *)

\* A list without repetitions has as many elements as it is long.
LEMMA DistinctSize ==
  ASSUME NEW list \in Lists, Distinct(list)
  PROVE  /\ Len(list) \in Nat
         /\ IsFiniteSet(Range(list))
         /\ Cardinality(Range(list)) = Len(list)
<1> DEFINE n == Len(list)
<1>1. list \in Seq(Range(list))
  BY ListsAssumption
<1>2. n \in Nat /\ list \in [1..n -> Range(list)] /\ DOMAIN list = 1..n
  BY <1>1
<1>3. list \in Injection(1..n, Range(list))
  BY <1>2 DEF Injection, IsInjective, Distinct
<1>4. list \in Surjection(1..n, Range(list))
  BY <1>2 DEF Surjection, Range
<1>5. IsFiniteSet(1..n) /\ Cardinality(1..n) = n
  BY <1>2, FS_Interval
<1>6. IsFiniteSet(Range(list)) /\ Cardinality(Range(list)) = Cardinality(1..n)
  BY <1>3, <1>4, <1>5, FS_Surjection
<1> QED
  BY <1>2, <1>5, <1>6

\* sameOptionSet compares sets, when neither list has repetitions.
THEOREM SameOptionSetIsEquality ==
  ASSUME NEW user \in Lists, NEW key \in Lists, Distinct(user), Distinct(key)
  PROVE  sameOptionSet(user, key) <=> Range(user) = Range(key)
<1>1. /\ IsFiniteSet(Range(user)) /\ Cardinality(Range(user)) = Len(user)
      /\ IsFiniteSet(Range(key)) /\ Cardinality(Range(key)) = Len(key)
  BY DistinctSize
<1>2. ASSUME sameOptionSet(user, key) PROVE Range(user) = Range(key)
  BY <1>1, <1>2, FS_Subset DEF sameOptionSet
<1>3. ASSUME Range(user) = Range(key) PROVE sameOptionSet(user, key)
  BY <1>1, <1>3 DEF sameOptionSet
<1> QED
  BY <1>2, <1>3

\* Texts are compared by their words.
LEMMA SameWord ==
  ASSUME NEW s \in Text \ {NoText}, NEW t \in Text \ {NoText}
  PROVE  NormalizeText(s) = NormalizeText(t) <=> s.word = t.word
  BY DEF NormalizeText, Text, NoText

\* A blank is correct when its word is one of the acceptable ones.
LEMMA FillBlankIsMembership ==
  ASSUME NEW text \in Text \ {NoText}, NEW acceptable \in Acceptable
  PROVE  fillBlankCorrect(text, acceptable)
         <=> text.word \in {acceptable[i].word : i \in DOMAIN acceptable}
<1>1. \A i \in DOMAIN acceptable :
        NormalizeText(acceptable[i]) = NormalizeText(text) <=> acceptable[i].word = text.word
  BY AcceptableAssumption, SameWord
<1> QED
  BY <1>1 DEF fillBlankCorrect

\* What is accepted and compared with a key is correct exactly when it is right.
LEMMA ObjectiveIsRight ==
  ASSUME NEW q \in Questions, NEW value \in Value,
         q.type # "short_answer", ParseAnswerValue(q.type, value)
  PROVE  gradeObjective(q, value) <=>
           IF q.type \in Choice THEN Range(value.optionIds) = Range(q.key.optionIds)
           ELSE value.text.word \in {q.key.acceptable[i].word : i \in DOMAIN q.key.acceptable}
<1>1. /\ q.type \in Choice \cup {"fill_blank"} /\ q.key \in Key
      /\ q.key.optionIds \in Lists /\ q.key.acceptable \in Acceptable
      /\ value.optionIds \in Lists /\ value.text \in Text
      /\ ValidateAnswerValue(q.type, q.key)
  BY DEF Questions, Value, Key
<1>2. CASE q.type \in Choice
  <2>1. Distinct(value.optionIds) /\ Distinct(q.key.optionIds)
    BY <1>1, <1>2 DEF ParseAnswerValue, ValidateAnswerValue
  <2>2. gradeObjective(q, value) <=> sameOptionSet(value.optionIds, q.key.optionIds)
    BY <1>2 DEF gradeObjective, Choice
  <2> QED
    BY <1>1, <1>2, <2>1, <2>2, SameOptionSetIsEquality
<1>3. CASE q.type = "fill_blank"
  <2>1. value.text \in Text \ {NoText}
    BY <1>1, <1>3 DEF ParseAnswerValue, Choice
  <2>2. gradeObjective(q, value) <=> fillBlankCorrect(value.text, q.key.acceptable)
    BY <1>3 DEF gradeObjective, Choice
  <2> QED
    BY <1>1, <1>3, <2>1, <2>2, FillBlankIsMembership DEF Choice
<1> QED
  BY <1>1, <1>2, <1>3

\* The status of an answer that was accepted.
LEMMA GradeCases ==
  ASSUME NEW q \in Questions, NEW value \in Value,
         value = NoValue \/ ParseAnswerValue(q.type, value)
  PROVE  /\ value = NoValue => Grade(q, value) = "unanswered"
         /\ value # NoValue /\ (q.type = "short_answer" \/ q.authority = "none")
            => Grade(q, value) = "pending"
         /\ value # NoValue /\ q.type # "short_answer" /\ q.authority # "none"
            => Grade(q, value) = IF gradeObjective(q, value) THEN "correct" ELSE "incorrect"
<1>1. answered(value) <=> value # NoValue
  <2>1. CASE value = NoValue
    BY <2>1 DEF answered, NoValue
  <2>2. CASE value # NoValue
    BY <2>2 DEF answered, ParseAnswerValue
  <2> QED
    BY <2>1, <2>2
<1> QED
  BY <1>1 DEF Grade, HasKey

GradingIInv == GradingTypeOK /\ GradesAsSpecified

\* Initially nothing is graded.
LEMMA GradingInitially == GradingInit => GradingIInv
  BY DEF GradingInit, GradingIInv, GradingTypeOK, GradesAsSpecified, Ungraded

\* An accepted answer is graded as specified.
LEMMA SubmitStep ==
  ASSUME NEW q \in Questions, NEW value \in Value, question' = q, answer' = value,
         Submit(q, value)
  PROVE  GradingIInv'
<1> DEFINE status == Grade(q, value)
<1>1. /\ value = NoValue \/ ParseAnswerValue(q.type, value)
      /\ outcome' = Stored(q, status)
  BY DEF Submit
<1>2. /\ status = "unanswered" <=> value = NoValue
      /\ status = "pending" <=>
           value # NoValue /\ (q.type = "short_answer" \/ q.authority = "none")
      /\ status = "correct" => RightAnswer'
      /\ status = "incorrect" => ~RightAnswer'
      /\ status \in {"unanswered", "pending", "correct", "incorrect"}
  <2>1. CASE value = NoValue
    BY <1>1, <2>1, GradeCases
  <2>2. CASE value # NoValue /\ (q.type = "short_answer" \/ q.authority = "none")
    BY <1>1, <2>2, GradeCases
  <2>3. CASE value # NoValue /\ q.type # "short_answer" /\ q.authority # "none"
    <3>1. status = IF gradeObjective(q, value) THEN "correct" ELSE "incorrect"
      BY <1>1, <2>3, GradeCases
    <3>2. gradeObjective(q, value) <=> RightAnswer'
      BY <1>1, <2>3, ObjectiveIsRight DEF RightAnswer
    <3> QED
      BY <2>3, <3>1, <3>2
  <2> QED
    BY <2>1, <2>2, <2>3
<1>3. outcome'.status = status
  BY <1>1 DEF Stored
<1>4. q.authority \in Authorities
  BY <1>1 DEF Questions
<1> HIDE DEF status
<1>5. GradingTypeOK'
  BY <1>1, <1>2, <1>4 DEF GradingTypeOK, Stored, Source, Authority, Authorities
<1>7. GradesAsSpecified'
  BY <1>1, <1>2, <1>3 DEF GradesAsSpecified
<1> QED
  BY <1>5, <1>7 DEF GradingIInv

\* A refused answer leaves no grade.
LEMMA RefuseStep ==
  ASSUME NEW q \in Questions, NEW value \in Value, question' = q, answer' = value,
         Refuse(q, value)
  PROVE  GradingIInv'
  BY DEF GradingIInv, Refuse, Refused, Ungraded, GradingTypeOK, GradesAsSpecified

\* Every step preserves the invariant.
LEMMA GradingInduction == GradingIInv /\ [GradingNext]_gradingVars => GradingIInv'
<1> SUFFICES ASSUME GradingIInv, [GradingNext]_gradingVars PROVE GradingIInv'
  OBVIOUS
<1>1. CASE UNCHANGED gradingVars
  BY <1>1 DEF GradingIInv, GradingTypeOK, GradesAsSpecified, RightAnswer, gradingVars
<1> QED
  BY <1>1, SubmitStep, RefuseStep DEF GradingNext

\* Every variable always has its type.
THEOREM GradingTypeCorrect == GradingSpec => []GradingTypeOK
<1>1. GradingIInv => GradingTypeOK
  BY DEF GradingIInv
<1> QED
  BY <1>1, GradingInitially, GradingInduction, PTL DEF GradingSpec

\* Whatever the options, the lists of ids and the texts: an answer that is accepted is
\* graded as specified.
THEOREM GradesAsSpecifiedHolds == GradingSpec => []GradesAsSpecified
<1>1. GradingIInv => GradesAsSpecified
  BY DEF GradingIInv
<1> QED
  BY <1>1, GradingInitially, GradingInduction, PTL DEF GradingSpec

-----------------------------------------------------------------------------
(* Review plans                                                            *)

RealEvent ==
  [version : Versions, at : Nat, status : Status, source : {"confirmed", "ai"}]

Bounded(p) == p.stage <= Len(Confirmed) \/ p.stage <= Len(AI)

\* The next stage has an interval, which is not empty.
LEMMA StageFacts ==
  ASSUME NEW p \in Plan, NEW e \in RealEvent
  PROVE  /\ NextStage(p, e) \in Nat
         /\ NextStage(p, e) <= Len(Confirmed) \/ NextStage(p, e) <= Len(AI)
         /\ intervalsForReviewSource(e.source)[NextStage(p, e)] \in Nat \ {0}
<1> DEFINE intervals == intervalsForReviewSource(e.source)
           n == NextStage(p, e)
<1>1. intervals = Confirmed \/ intervals = AI
  BY DEF intervalsForReviewSource
<1>2. intervals \in Seq(Nat \ {0}) /\ intervals # <<>>
  BY <1>1, IntervalsAssumption
<1>3. Len(intervals) \in Nat /\ Len(intervals) > 0
  BY <1>2
<1>4. p.stage \in Nat
  BY DEF Plan
<1>5. n = IF p.stage < Len(intervals) THEN p.stage + 1 ELSE Len(intervals)
  BY DEF NextStage
<1> HIDE DEF intervals, n
<1>6. n \in 1..Len(intervals)
  BY <1>3, <1>4, <1>5
<1>7. intervals[n] \in Nat \ {0}
  BY <1>2, <1>6
<1>8. n \in Nat /\ (n <= Len(Confirmed) \/ n <= Len(AI))
  BY <1>1, <1>6
<1> QED
  BY <1>7, <1>8 DEF intervals, n

\* A plan that turns to the version of an event keeps its type and its bounds.
LEMMA VersionedFacts ==
  ASSUME NEW p \in Plan, Bounded(p), NEW e \in RealEvent
  PROVE  /\ Versioned(p, e) \in Plan
         /\ Versioned(p, e).version = e.version
         /\ Bounded(Versioned(p, e))
<1>1. [NoPlan EXCEPT !.version = e.version]
      = [version |-> e.version, stage |-> 0, nextReviewAt |-> 0, lastStatus |-> "none"]
  BY DEF NoPlan
<1>2. Len(Confirmed) \in Nat /\ Len(AI) \in Nat
  BY IntervalsAssumption
<1>3. CASE p.version = e.version
  BY <1>3 DEF Versioned
<1>4. CASE p.version # e.version
  BY <1>1, <1>2, <1>4 DEF Versioned, Plan, RealEvent, Bounded
<1> QED
  BY <1>3, <1>4

\* What the replay of one answer does, by cases.
LEMMA ReplayCases ==
  ASSUME NEW old \in Plan, Bounded(old), NEW e \in RealEvent
  PROVE  LET new == Replay(old, e)
         IN  /\ new \in Plan /\ new.version = e.version /\ Bounded(new)
             /\ \/ e.status # "correct" /\ new = FailedPlan(new, e)
                \/ e.status = "correct" /\ ~Counts(new, e)
<1> DEFINE p == Versioned(old, e)
           new == Replay(old, e)
<1>1. p \in Plan /\ p.version = e.version /\ Bounded(p)
  BY VersionedFacts
<1>2. e.status \in Status /\ e.at \in Nat /\ e.version \in Versions
  BY DEF RealEvent
<1>3. new = IF e.status \in {"incorrect", "unanswered"} THEN FailedPlan(p, e)
            ELSE IF Counts(p, e) THEN Passed(p, e) ELSE p
  BY DEF Replay
<1> HIDE DEF p, new
<1>4. CASE e.status \in {"incorrect", "unanswered"}
  <2>1. new = [version |-> e.version, stage |-> 0, nextReviewAt |-> e.at + First, lastStatus |-> e.status]
    BY <1>1, <1>3, <1>4 DEF FailedPlan
  <2>2. new \in Plan /\ new.version = e.version /\ new.stage = 0
    BY <1>2, <2>1, FirstAssumption DEF Plan
  <2>3. new = FailedPlan(new, e)
    BY <2>1 DEF FailedPlan
  <2>4. Bounded(new)
    BY <2>2, IntervalsAssumption DEF Bounded
  <2> QED
    BY <1>4, <2>2, <2>3, <2>4 DEF new
<1>5. CASE e.status = "correct" /\ ~Counts(p, e)
  BY <1>1, <1>3, <1>5 DEF new
<1>6. CASE e.status = "correct" /\ Counts(p, e)
  <2> DEFINE n == NextStage(p, e)
             gap == intervalsForReviewSource(e.source)[n]
  <2>1. n \in Nat /\ (n <= Len(Confirmed) \/ n <= Len(AI)) /\ gap \in Nat \ {0}
    BY <1>1, StageFacts
  <2>2. new = [version |-> e.version, stage |-> n, nextReviewAt |-> e.at + gap, lastStatus |-> e.status]
    BY <1>1, <1>3, <1>6 DEF Passed
  <2> HIDE DEF n, gap
  <2>3. new \in Plan /\ new.version = e.version /\ Bounded(new)
    BY <1>2, <2>1, <2>2 DEF Plan, Bounded
  <2>4. new.nextReviewAt > e.at
    BY <1>2, <2>1, <2>2
  <2>5. ~Counts(new, e)
    BY <1>2, <2>3, <2>4 DEF Counts, Plan
  <2> QED
    BY <1>6, <2>3, <2>5 DEF new
<1> QED
  BY <1>2, <1>4, <1>5, <1>6 DEF Status

\* Replaying an answer twice is replaying it once.
THEOREM ReplayIsIdempotent ==
  ASSUME NEW old \in Plan, Bounded(old), NEW e \in RealEvent
  PROVE  Replay(Replay(old, e), e) = Replay(old, e)
<1> DEFINE new == Replay(old, e)
<1>1. /\ new.version = e.version
      /\ \/ e.status # "correct" /\ new = FailedPlan(new, e)
         \/ e.status = "correct" /\ ~Counts(new, e)
  BY ReplayCases
<1>2. e.status \in Status
  BY DEF RealEvent
<1> HIDE DEF new
<1>3. Versioned(new, e) = new
  BY <1>1 DEF Versioned
<1>4. Replay(new, e) = new
  BY <1>1, <1>2, <1>3 DEF Replay, Status
<1> QED
  BY <1>4 DEF new

PlanIInv == PlanTypeOK /\ AnswerCountsOnce

\* Initially nothing is planned.
LEMMA PlanInitially == PlanInit => PlanIInv
  BY VersionsAssumption, IntervalsAssumption
  DEF PlanInit, PlanIInv, PlanTypeOK, AnswerCountsOnce, NoPlan, NoEvent, Plan, Event

\* Replaying one more answer.
LEMMA AnswerStep ==
  ASSUME PlanIInv, NEW e \in RealEvent, Answered(e)
  PROVE  PlanIInv'
<1>1. plan \in Plan /\ Bounded(plan) /\ event \in Event /\ wrong \in Event
  BY DEF PlanIInv, PlanTypeOK, Bounded
<1>2. plan' = Replay(plan, e) /\ event' = e /\ wrong' \in {wrong, e}
  BY DEF Answered
<1>3. e \in Event
  BY DEF RealEvent, Event
<1>4. plan' \in Plan /\ Bounded(plan')
  BY <1>1, <1>2, ReplayCases
<1>5. Replay(plan', e) = plan'
  BY <1>1, <1>2, ReplayIsIdempotent
<1> QED
  BY <1>1, <1>2, <1>3, <1>4, <1>5 DEF PlanIInv, PlanTypeOK, AnswerCountsOnce, Bounded

\* Every step preserves the invariant.
LEMMA PlanInduction == PlanIInv /\ [PlanNext]_planVars => PlanIInv'
<1> SUFFICES ASSUME PlanIInv, [PlanNext]_planVars PROVE PlanIInv'
  OBVIOUS
<1>1. CASE UNCHANGED planVars
  BY <1>1 DEF PlanIInv, PlanTypeOK, AnswerCountsOnce, planVars
<1>2. CASE PlanNext
  <2>1. PICK version \in Versions, at \in event.at..MaxTime, status \in Status, source \in Sources :
          Answered([version |-> version, at |-> at, status |-> status, source |-> source])
    BY <1>2 DEF PlanNext
  <2>2. event.at \in Nat
    BY DEF PlanIInv, PlanTypeOK, Event
  <2>3. [version |-> version, at |-> at, status |-> status, source |-> source] \in RealEvent
    BY <2>2, SourcesAssumption DEF RealEvent
  <2> QED
    BY <2>1, <2>3, AnswerStep
<1> QED
  BY <1>1, <1>2

\* Every variable always has its type, and no stage lies beyond the intervals.
THEOREM PlanTypeCorrect == PlanSpec => []PlanTypeOK
<1>1. PlanIInv => PlanTypeOK
  BY DEF PlanIInv
<1> QED
  BY <1>1, PlanInitially, PlanInduction, PTL DEF PlanSpec

\* An answer that is replayed again never moves the plan, for all intervals.
THEOREM AnswerCountsOnceHolds == PlanSpec => []AnswerCountsOnce
<1>1. PlanIInv => AnswerCountsOnce
  BY DEF PlanIInv
<1> QED
  BY <1>1, PlanInitially, PlanInduction, PTL DEF PlanSpec

-----------------------------------------------------------------------------
(* How long a stage takes.  Earliest is defined by recursion: that it      *)
(* satisfies its equation, and grows, is shown by induction, from the      *)
(* least element of a set of numbers.                                      *)

Below == {ss \in Nat \X Nat : ss[1] < ss[2]}

\* A set of numbers that has 0 and the successor of each of its members has them all.
LEMMA NaturalInduction ==
  ASSUME NEW T \in SUBSET Nat, 0 \in T, \A n \in T : n + 1 \in T
  PROVE  T = Nat
<1> DEFINE R == Nat \ T
<1> SUFFICES ASSUME R # {} PROVE FALSE
  OBVIOUS
<1>1. IsWellFoundedOn(Below, Nat)
  BY NatLessThanWellFounded, Zenon DEF Below, OpToRel
<1>2. PICK x \in R : \A y \in R : <<y, x>> \notin Below
  <2> HIDE DEF R
  <2>1. R \subseteq Nat
    BY DEF R
  <2> QED
    BY <1>1, <2>1, WFMin
<1>3. x \in Nat /\ x # 0
  OBVIOUS
<1>4. x - 1 \in Nat /\ <<x - 1, x>> \in Below /\ (x - 1) + 1 = x
  BY <1>3 DEF Below
<1> QED
  BY <1>2, <1>4

\* The equation of Earliest.
LEMMA EarliestEquation ==
  \A n \in Nat : Earliest[n] = IF n = 0 THEN 0 ELSE Earliest[n - 1] + Shortest(n - 1)
<1> DEFINE S(f, n) == IF n = 0 THEN 0 ELSE f[n - 1] + Shortest(n - 1)
           Upto(f, n) == \A k \in 0..n : f[k] = S(f, k)
<1>1. \A n \in Nat : \E f : Upto(f, n)
  <2> DEFINE T == {n \in Nat : \E f : Upto(f, n)}
  <2>1. 0 \in T
    <3>1. Upto([k \in Nat |-> 0], 0)
      OBVIOUS
    <3> QED
      BY <3>1
  <2>2. ASSUME NEW n \in T PROVE n + 1 \in T
    <3>1. PICK f : Upto(f, n)
      OBVIOUS
    <3> DEFINE h == [k \in Nat |-> IF k <= n THEN f[k] ELSE S(f, k)]
    <3>2. ASSUME NEW k \in 0..(n + 1) PROVE h[k] = S(h, k)
      <4>1. k \in Nat /\ n \in Nat
        OBVIOUS
      <4>2. k # 0 => h[k - 1] = f[k - 1]
        BY <4>1
      <4>3. S(h, k) = S(f, k)
        <5> HIDE DEF h
        <5> QED
          BY <4>2
      <4>4. k <= n => f[k] = S(f, k)
        BY <3>1, <4>1
      <4>5. h[k] = IF k <= n THEN f[k] ELSE S(f, k)
        BY <4>1
      <4> HIDE DEF S, h
      <4> QED
        BY <4>3, <4>4, <4>5
    <3>3. Upto(h, n + 1)
      <4> HIDE DEF h, S
      <4> QED
        BY <3>2
    <3>4. n + 1 \in Nat
      OBVIOUS
    <3> HIDE DEF h, Upto
    <3> QED
      BY <3>3, <3>4
  <2> HIDE DEF T
  <2>3. T = Nat
    <3>1. T \in SUBSET Nat
      BY DEF T
    <3> QED
      BY <2>1, <2>2, <3>1, NaturalInduction
  <2> QED
    BY <2>3 DEF T
<1>2. \A n \in Nat : \A f, h : Upto(f, n) /\ Upto(h, n) => f[n] = h[n]
  <2> DEFINE T == {n \in Nat : \A f, h : Upto(f, n) /\ Upto(h, n) => f[n] = h[n]}
  <2>1. 0 \in T
    OBVIOUS
  <2>2. ASSUME NEW n \in T PROVE n + 1 \in T
    <3>1. n \in Nat /\ n + 1 \in Nat
      OBVIOUS
    <3>2. ASSUME NEW f, NEW h, Upto(f, n + 1), Upto(h, n + 1) PROVE f[n + 1] = h[n + 1]
      <4>1. Upto(f, n) /\ Upto(h, n)
        <5> HIDE DEF S
        <5> QED
          BY <3>1, <3>2
      <4>2. f[n] = h[n]
        BY <4>1
      <4>3. n + 1 \in 0..(n + 1) /\ n + 1 # 0 /\ (n + 1) - 1 = n
        BY <3>1
      <4>4. f[n + 1] = S(f, n + 1) /\ h[n + 1] = S(h, n + 1)
        <5> HIDE DEF S
        <5> QED
          BY <3>2, <4>3
      <4> QED
        BY <4>2, <4>3, <4>4
    <3> HIDE DEF Upto
    <3> QED
      BY <3>1, <3>2
  <2> HIDE DEF T
  <2>3. T = Nat
    <3>1. T \in SUBSET Nat
      BY DEF T
    <3> QED
      BY <2>1, <2>2, <3>1, NaturalInduction
  <2> QED
    BY <2>3 DEF T
<1> DEFINE approx(n) == CHOOSE f : Upto(f, n)
           F == [n \in Nat |-> approx(n)[n]]
<1>3. \A n \in Nat : Upto(approx(n), n)
  <2> HIDE DEF Upto
  <2> QED
    BY <1>1
<1>4. ASSUME NEW n \in Nat PROVE F[n] = S(F, n)
  <2>1. n \in 0..n /\ (n # 0 => n - 1 \in Nat)
    OBVIOUS
  <2>2. F[n] = S(approx(n), n)
    <3>1. F[n] = approx(n)[n]
      OBVIOUS
    <3> HIDE DEF S, approx
    <3> QED
      BY <1>3, <2>1, <3>1
  <2>3. n # 0 => approx(n)[n - 1] = approx(n - 1)[n - 1]
    <3> SUFFICES ASSUME n # 0 PROVE approx(n)[n - 1] = approx(n - 1)[n - 1]
      OBVIOUS
    <3>1. Upto(approx(n), n) /\ Upto(approx(n - 1), n - 1)
      <4> HIDE DEF approx, Upto
      <4> QED
        BY <1>3, <2>1
    <3>2. Upto(approx(n), n - 1)
      <4> HIDE DEF approx, S
      <4> QED
        BY <2>1, <3>1
    <3> HIDE DEF approx, Upto
    <3> QED
      BY <1>2, <2>1, <3>1, <3>2
  <2>4. n # 0 => F[n - 1] = approx(n - 1)[n - 1]
    BY <2>1
  <2> HIDE DEF approx, F
  <2> QED
    BY <2>2, <2>3, <2>4
<1>5. F = [n \in Nat |-> S(F, n)]
  <2>1. F = [n \in Nat |-> F[n]]
    OBVIOUS
  <2> HIDE DEF F, S
  <2> QED
    BY <1>4, <2>1
<1>6. Earliest = CHOOSE f : f = [n \in Nat |-> S(f, n)]
  BY DEF Earliest
<1>7. \E f : f = [n \in Nat |-> S(f, n)]
  <2> HIDE DEF F
  <2> QED
    BY <1>5
<1>8. Earliest = [n \in Nat |-> S(Earliest, n)]
  <2> HIDE DEF S
  <2> QED
    BY <1>6, <1>7
<1> QED
  BY <1>8

Stage(n) == n \in Nat /\ (n <= Len(Confirmed) \/ n <= Len(AI))

\* A stage takes at least a day, and no judge has a shorter interval for it.
LEMMA ShortestFacts ==
  ASSUME NEW n, Stage(n)
  PROVE  /\ Shortest(n) \in Nat \ {0}
         /\ n = 0 => Shortest(n) = First
         /\ n > 0 /\ n <= Len(Confirmed) => Shortest(n) <= Confirmed[n]
         /\ n > 0 /\ n <= Len(AI) => Shortest(n) <= AI[n]
<1>1. n \in Nat /\ (n <= Len(Confirmed) \/ n <= Len(AI)) /\ First \in Nat \ {0}
  BY FirstAssumption DEF Stage
<1>2. Len(Confirmed) \in Nat /\ Len(AI) \in Nat
  BY IntervalsAssumption
<1>3. n > 0 /\ n <= Len(Confirmed) => Confirmed[n] \in Nat \ {0}
  BY <1>1, <1>2, IntervalsAssumption
<1>4. n > 0 /\ n <= Len(AI) => AI[n] \in Nat \ {0}
  BY <1>1, <1>2, IntervalsAssumption
<1> QED
  BY <1>1, <1>2, <1>3, <1>4 DEF Shortest

\* A later stage is not reached earlier.
LEMMA EarliestGrows ==
  ASSUME NEW n, Stage(n)
  PROVE  /\ Earliest[n] \in Nat
         /\ \A m \in 0..n : Earliest[m] \in Nat /\ Earliest[m] <= Earliest[n]
<1> DEFINE Good(k) == /\ Earliest[k] \in Nat
                      /\ \A m \in 0..k : Earliest[m] \in Nat /\ Earliest[m] <= Earliest[k]
           T == {k \in Nat : Stage(k) => Good(k)}
<1>1. 0 \in T
  <2>1. Earliest[0] = 0
    BY EarliestEquation
  <2> QED
    BY <2>1
<1>2. ASSUME NEW k \in T PROVE k + 1 \in T
  <2> SUFFICES ASSUME Stage(k + 1) PROVE Good(k + 1)
    OBVIOUS
  <2>1. k \in Nat /\ Stage(k)
    BY IntervalsAssumption DEF Stage
  <2>2. Good(k)
    BY <2>1
  <2>3. Earliest[k + 1] = Earliest[k] + Shortest(k)
    <3>1. k + 1 \in Nat /\ k + 1 # 0 /\ (k + 1) - 1 = k
      BY <2>1
    <3> QED
      BY <3>1, EarliestEquation
  <2>4. Shortest(k) \in Nat
    BY <2>1, ShortestFacts
  <2>5. Earliest[k + 1] \in Nat /\ Earliest[k] <= Earliest[k + 1]
    BY <2>2, <2>3, <2>4
  <2>6. ASSUME NEW m \in 0..(k + 1) PROVE Earliest[m] \in Nat /\ Earliest[m] <= Earliest[k + 1]
    <3>1. CASE m = k + 1
      BY <2>5, <3>1
    <3>2. CASE m # k + 1
      <4>1. m \in 0..k
        BY <2>1, <3>2
      <4> QED
        BY <2>2, <2>5, <4>1
    <3> QED
      BY <3>1, <3>2
  <2> QED
    BY <2>5, <2>6
<1>3. T = Nat
  <2> HIDE DEF T
  <2>1. T \in SUBSET Nat
    BY DEF T
  <2> QED
    BY <1>1, <1>2, <2>1, NaturalInduction
<1> QED
  BY <1>3 DEF Stage

\* A plan that was made after the wrong answer w comes due no earlier than its stage.
Due(p, w) == w.at + Earliest[p.stage] + Shortest(p.stage)
DueInv ==
  /\ wrong.at <= event.at
  /\ plan.lastStatus = "none" => plan.stage = 0
  /\ plan.lastStatus # "none" => plan.nextReviewAt >= Due(plan, wrong)
PlanTimeIInv == PlanIInv /\ DueInv /\ StageTakesTime

LEMMA PlanTimeInitially == PlanInit => PlanTimeIInv
  BY PlanInitially DEF PlanInit, PlanTimeIInv, DueInv, StageTakesTime, NoPlan, NoEvent

\* One more answer moves no stage before its time.
LEMMA AnswerTakesTime ==
  ASSUME PlanTimeIInv, NEW e \in RealEvent, Answered(e)
  PROVE  DueInv' /\ StageTakesTime'
<1> DEFINE p == Versioned(plan, e)
<1>1. /\ plan \in Plan /\ Bounded(plan) /\ event \in Event /\ wrong \in Event
      /\ DueInv /\ StageTakesTime
  BY DEF PlanTimeIInv, PlanIInv, PlanTypeOK, Bounded
<1>2. /\ e.at >= event.at /\ event' = e
      /\ plan' = IF e.status \in {"incorrect", "unanswered"} THEN FailedPlan(p, e)
                 ELSE IF Counts(p, e) THEN Passed(p, e) ELSE p
      /\ wrong' = IF e.status = "correct" THEN wrong ELSE e
  BY DEF Answered, Replay
<1>3. /\ p \in Plan /\ Bounded(p)
      /\ p = plan \/ (p.stage = 0 /\ p.lastStatus = "none")
  <2>1. p \in Plan /\ Bounded(p)
    BY <1>1, VersionedFacts
  <2>2. [NoPlan EXCEPT !.version = e.version]
        = [version |-> e.version, stage |-> 0, nextReviewAt |-> 0, lastStatus |-> "none"]
    BY DEF NoPlan
  <2> QED
    BY <2>1, <2>2 DEF Versioned
<1>4. /\ e.at \in Nat /\ e.status \in Status /\ wrong.at \in Nat /\ event.at \in Nat
      /\ p.stage \in Nat /\ p.nextReviewAt \in Nat /\ Stage(p.stage)
  BY <1>1, <1>3 DEF RealEvent, Event, Plan, Bounded, Stage
<1>5. Shortest(p.stage) \in Nat \ {0} /\ Earliest[p.stage] \in Nat
  BY <1>4, ShortestFacts, EarliestGrows
<1> HIDE DEF p
<1>6. CASE e.status \in {"incorrect", "unanswered"}
  <2>1. /\ plan'.stage = 0 /\ plan'.nextReviewAt = e.at + First /\ plan'.lastStatus = e.status
        /\ wrong' = e
    BY <1>2, <1>6 DEF FailedPlan
  <2>2. Earliest[0] = 0
    BY EarliestEquation
  <2>3. Shortest(0) = First /\ First \in Nat
    BY FirstAssumption DEF Shortest
  <2> QED
    BY <1>2, <1>4, <1>6, <2>1, <2>2, <2>3 DEF DueInv, Due, StageTakesTime
<1>7. CASE e.status = "correct" /\ ~Counts(p, e)
  <2>1. plan' = p /\ wrong' = wrong /\ event' = e
    BY <1>2, <1>7
  <2>2. CASE p = plan
    BY <1>1, <1>2, <1>4, <1>5, <2>1, <2>2 DEF DueInv, Due, StageTakesTime
  <2>3. CASE p.stage = 0 /\ p.lastStatus = "none"
    BY <1>1, <1>2, <1>4, <2>1, <2>3 DEF DueInv, StageTakesTime
  <2> QED
    BY <1>3, <2>2, <2>3
<1>8. CASE e.status = "correct" /\ Counts(p, e)
  <2> DEFINE n == NextStage(p, e)
             intervals == intervalsForReviewSource(e.source)
  <2>1. /\ plan'.stage = n /\ plan'.lastStatus = "correct" /\ plan'.nextReviewAt = e.at + intervals[n]
        /\ wrong' = wrong /\ event' = e
    BY <1>2, <1>8 DEF Passed
  <2>2. p = plan /\ e.at >= p.nextReviewAt /\ p.nextReviewAt >= Due(p, wrong)
    BY <1>1, <1>3, <1>8 DEF Counts, DueInv
  <2>3. e.at >= wrong.at + Earliest[p.stage] + Shortest(p.stage)
    BY <1>4, <1>5, <2>2 DEF Due
  <2>4. intervals \in {Confirmed, AI} /\ Len(intervals) \in Nat \ {0}
    BY IntervalsAssumption DEF intervalsForReviewSource
  <2>5. n = IF p.stage < Len(intervals) THEN p.stage + 1 ELSE Len(intervals)
    BY DEF NextStage
  <2> HIDE DEF n, intervals
  <2>6. /\ n \in 1..Len(intervals) /\ Stage(n)
        /\ n <= p.stage \/ n = p.stage + 1
    BY <1>4, <2>4, <2>5 DEF Stage
  <2>7. Shortest(n) \in Nat /\ Shortest(n) <= intervals[n] /\ Earliest[n] \in Nat
    BY <2>4, <2>6, ShortestFacts, EarliestGrows
  <2>8. e.at >= wrong.at + Earliest[n]
    <3>1. CASE n <= p.stage
      <4>1. Earliest[n] <= Earliest[p.stage]
        BY <1>4, <2>6, <3>1, EarliestGrows
      <4> QED
        BY <1>4, <1>5, <2>3, <2>7, <4>1
    <3>2. CASE n = p.stage + 1
      <4>1. Earliest[n] = Earliest[p.stage] + Shortest(p.stage)
        <5>1. n \in Nat /\ n # 0 /\ n - 1 = p.stage
          BY <1>4, <3>2
        <5> QED
          BY <5>1, EarliestEquation
      <4> QED
        BY <1>4, <1>5, <2>3, <4>1
    <3> QED
      BY <2>6, <3>1, <3>2
  <2>9. intervals[n] \in Nat
    <3>1. intervals \in Seq(Nat \ {0})
      BY <2>4, IntervalsAssumption
    <3> QED
      BY <2>6, <3>1
  <2>10. plan'.nextReviewAt >= Due(plan', wrong')
    BY <1>4, <2>1, <2>7, <2>8, <2>9 DEF Due
  <2>11. wrong'.at <= event'.at
    BY <1>1, <1>2, <1>4, <2>1 DEF DueInv
  <2> QED
    BY <2>1, <2>8, <2>10, <2>11 DEF DueInv, StageTakesTime
<1> QED
  BY <1>4, <1>6, <1>7, <1>8 DEF Status

LEMMA PlanTimeInduction == PlanTimeIInv /\ [PlanNext]_planVars => PlanTimeIInv'
<1> SUFFICES ASSUME PlanTimeIInv, [PlanNext]_planVars PROVE PlanTimeIInv'
  OBVIOUS
<1>1. PlanIInv'
  BY PlanInduction DEF PlanTimeIInv
<1>2. CASE UNCHANGED planVars
  BY <1>1, <1>2 DEF PlanTimeIInv, DueInv, Due, StageTakesTime, planVars
<1>3. CASE PlanNext
  <2>1. PICK e \in RealEvent : Answered(e)
    <3>1. PICK version \in Versions, at \in event.at..MaxTime, status \in Status, source \in Sources :
            Answered([version |-> version, at |-> at, status |-> status, source |-> source])
      BY <1>3 DEF PlanNext
    <3>2. event.at \in Nat
      BY DEF PlanTimeIInv, PlanIInv, PlanTypeOK, Event
    <3>3. [version |-> version, at |-> at, status |-> status, source |-> source] \in RealEvent
      BY <3>2, SourcesAssumption DEF RealEvent
    <3> QED
      BY <3>1, <3>3
  <2> QED
    BY <1>1, <2>1, AnswerTakesTime DEF PlanTimeIInv
<1> QED
  BY <1>2, <1>3

\* However often a question is answered and whoever judges: a stage is reached no sooner
\* after the last wrong answer than the shortest intervals up to it add up to.
THEOREM StageTakesTimeHolds == PlanSpec => []StageTakesTime
<1>1. PlanTimeIInv => StageTakesTime
  BY DEF PlanTimeIInv
<1> QED
  BY <1>1, PlanTimeInitially, PlanTimeInduction, PTL DEF PlanSpec

-----------------------------------------------------------------------------
(* The three parts together                                                *)

MCIInv == AutosaveIInv /\ GradingIInv /\ PlanIInv

\* Every variable of the three parts always has its type.
THEOREM AnswerTypesCorrect == Spec => []TypeOK
<1>1. Init => MCIInv
  BY AutosaveInitially, GradingInitially, PlanInitially DEF Init, MCIInv
<1>2. MCIInv /\ [Next]_<<autosaveVars, gradingVars, planVars>> => MCIInv'
  <2> SUFFICES ASSUME MCIInv, [Next]_<<autosaveVars, gradingVars, planVars>> PROVE MCIInv'
    OBVIOUS
  <2>1. /\ [AutosaveNext]_autosaveVars /\ [GradingNext]_gradingVars /\ [PlanNext]_planVars
    BY DEF Next
  <2> QED
    BY <2>1, AutosaveInduction, GradingInduction, PlanInduction DEF MCIInv
<1>3. MCIInv => TypeOK
  BY DEF MCIInv, AutosaveIInv, GradingIInv, PlanIInv, TypeOK
<1> QED
  BY <1>1, <1>2, <1>3, PTL DEF Spec

=============================================================================
