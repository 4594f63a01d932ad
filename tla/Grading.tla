------------------------------- MODULE Grading -------------------------------
(***************************************************************************)
(* How one answer of a submission is checked and graded                    *)
(* (backend/internal/practice: ParseAnswerValue, Grade and the source that *)
(* Submit stores), against the rules of the specification of the backend.  *)
(*                                                                         *)
(* A text is a word and the way it was typed; typing it with spaces around *)
(* or in full width changes the string and not the word.  A value is the   *)
(* decoded JSON: values of another shape are refused before all this.      *)
(***************************************************************************)
EXTENDS Naturals, Sequences, FiniteSets, Functions

CONSTANTS
  Options,    \* ids of the options of the question
  Lists,      \* bound: the lists of ids that are tried, some with unknown ids
  Words,      \* words that are tried
  Acceptable  \* bound: lists of acceptable texts that are tried

Blank == "blank"      \* the word of a text that has nothing but spaces
Missing == "missing"  \* no text at all

NoText == [word |-> Missing, form |-> "plain"]
Text == {NoText} \cup [word : Words \cup {Blank}, form : {"plain", "padded", "wide"}]
EmptyText == [word |-> Blank, form |-> "plain"]

ASSUME ListsAssumption == \A list \in Lists : list \in Seq(Range(list))
ASSUME WordsAssumption == {Blank, Missing} \cap Words = {}
ASSUME AcceptableAssumption ==
  \A list \in Acceptable : \A i \in DOMAIN list : list[i] \in Text \ {NoText}

VARIABLES
  question,  \* type, key and who vouches for the key
  answer,    \* the value of the answer in the request
  outcome    \* what became of it

gradingVars == <<question, answer, outcome>>

Choice == {"single_choice", "multiple_choice"}

\* generated: the answer stored with a generated question; none: no key of any kind.
Authorities == {"official", "human_verified", "generated", "none"}

Value == [optionIds : Lists, text : Text]
NoValue == [optionIds |-> <<>>, text |-> NoText]

Key == [optionIds : Lists, acceptable : Acceptable]

-----------------------------------------------------------------------------
(* What is accepted                                                        *)

Known(list) == \A i \in DOMAIN list : list[i] \in Options

\* No id was seen before.
Distinct(list) == \A i, j \in DOMAIN list : i < j => list[i] # list[j]

\* ValidateAnswerValue: what an administrator or the generator may store as a key.
ValidateAnswerValue(type, key) ==
  /\ type \in Choice => key.optionIds # <<>> /\ Known(key.optionIds) /\ Distinct(key.optionIds)
  /\ type = "single_choice" => Len(key.optionIds) = 1
  /\ type = "fill_blank" => key.acceptable # <<>> /\ EmptyText \notin Range(key.acceptable)

ParseWithoutSeen(type, value) ==
  /\ type \in Choice => value.optionIds # <<>> /\ Known(value.optionIds)
  /\ type = "single_choice" => Len(value.optionIds) = 1
  /\ type \notin Choice => value.text \notin {NoText, EmptyText}

\* What a learner may send.
ParseAnswerValue(type, value) ==
  /\ type \in Choice => value.optionIds # <<>> /\ Known(value.optionIds) /\ Distinct(value.optionIds)
  /\ type = "single_choice" => Len(value.optionIds) = 1
  /\ type \notin Choice => value.text \notin {NoText, EmptyText}

Questions ==
  {q \in [type : Choice \cup {"fill_blank", "short_answer"}, authority : Authorities, key : Key] :
     ValidateAnswerValue(q.type, q.key)}

-----------------------------------------------------------------------------
(* Grade                                                                   *)

HasKey(q) == q.authority # "none"

answered(value) == value.optionIds # <<>> \/ value.text \notin {NoText, EmptyText}

\* Both lists were checked for repetitions when they were stored.
sameOptionSet(user, key) ==
  /\ Len(user) = Len(key)
  /\ Range(user) \subseteq Range(key)

\* Spaces around a text and its width do not count.
NormalizeText(text) == [text EXCEPT !.form = "plain"]

fillBlankCorrect(text, acceptable) ==
  /\ text # NoText
  /\ \E i \in DOMAIN acceptable : NormalizeText(acceptable[i]) = NormalizeText(text)

gradeObjective(q, value) ==
  \/ q.type \in Choice /\ sameOptionSet(value.optionIds, q.key.optionIds)
  \/ q.type = "fill_blank" /\ fillBlankCorrect(value.text, q.key.acceptable)

Grade(q, value) ==
  IF ~answered(value) THEN "unanswered"
  ELSE IF ~HasKey(q) \/ q.type = "short_answer" THEN "pending"
  ELSE IF gradeObjective(q, value) THEN "correct" ELSE "incorrect"

\* Where Submit says the verdict comes from, and who vouches for it.
Source(q, status) == IF status = "pending" \/ q.authority = "generated" THEN "ai" ELSE "deterministic"

AuthorityOfKey(q, status) == IF status = "pending" THEN "none" ELSE q.authority

Authority(q, status) ==
  IF status = "pending" \/ q.authority \in {"generated", "none"} THEN "none" ELSE q.authority

Stored(q, status) ==
  [status |-> status, source |-> Source(q, status), authority |-> Authority(q, status)]

-----------------------------------------------------------------------------
(* A submission with one answer                                            *)

Ungraded == [status |-> "none", source |-> "none", authority |-> "none"]
Refused == [Ungraded EXCEPT !.status = "refused"]

NoQuestion == [type |-> "none"]

GradingInit == question = NoQuestion /\ answer = NoValue /\ outcome = Ungraded

\* An answer that is not null is validated, and refused with the whole submission.
Refuse(q, value) ==
  /\ value # NoValue /\ ~ParseAnswerValue(q.type, value)
  /\ outcome' = Refused

Submit(q, value) ==
  /\ value = NoValue \/ ParseAnswerValue(q.type, value)
  /\ outcome' = Stored(q, Grade(q, value))

GradingNext ==
  /\ outcome = Ungraded
  /\ \E q \in Questions, value \in Value :
       /\ question' = q /\ answer' = value
       /\ Refuse(q, value) \/ Submit(q, value)

GradingSpec == GradingInit /\ [][GradingNext]_gradingVars

-----------------------------------------------------------------------------
(* Properties                                                              *)

\* Every variable has its type.
GradingTypeOK ==
  /\ outcome # Ungraded => question \in Questions /\ answer \in Value
  /\ outcome \in [status : {"none", "refused", "pending", "correct", "incorrect", "unanswered"},
                  source : {"none", "deterministic", "ai"},
                  authority : {"none", "official", "human_verified"}]

\* The right answer, whatever order, spaces or width it is given in.
RightAnswer ==
  IF question.type \in Choice
  THEN Range(answer.optionIds) = Range(question.key.optionIds)
  ELSE answer.text.word \in {question.key.acceptable[i].word : i \in DOMAIN question.key.acceptable}

\* "Single: the same option.  Multiple: the same set, in any order.  Blank: one of the
\* acceptable values.  Short answers and questions without a key: the AI.  Unanswered:
\* never the AI": no list of options, with repetitions, in any order or with unknown
\* ids, is graded otherwise.
GradesAsSpecified ==
  outcome \notin {Ungraded, Refused} =>
    /\ outcome.status = "unanswered" <=> answer = NoValue
    /\ outcome.status = "pending" <=>
         answer # NoValue /\ (question.type = "short_answer" \/ question.authority = "none")
    /\ outcome.status = "correct" =>  RightAnswer
    /\ outcome.status = "incorrect" => ~RightAnswer

=============================================================================
