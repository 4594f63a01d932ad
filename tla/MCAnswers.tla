------------------------------ MODULE MCAnswers ------------------------------
(* Small instances of three parts an answer passes through: the page that
   saves it, the grading, and the review plan.  They share no state; a
   behaviour takes steps of one of them only. *)
EXTENDS AnswerAutosave, Grading, ReviewPlan, SequencesExt

CONSTANTS a, b, foreign, word, other, item

\* Up to two ids, repetitions and an unknown id included.
ShortLists == SeqOf({a, b, foreign}, 2)

\* Every text that can be stored, alone, and one list of two.
ShortAcceptable ==
  {<<>>} \cup {<<t>> : t \in Text \ {NoText}}
         \cup {<<[word |-> word, form |-> "wide"], [word |-> other, form |-> "plain"]>>}

\* Growing intervals, as 3, 7, 14 and 30 days are, and shorter for the AI's verdicts.
Growing == <<2, 3, 4, 6>>
GrowingAI == <<2, 3, 4>>

Init == AutosaveInit /\ GradingInit /\ PlanInit

Next ==
  \/ outcome = Ungraded /\ event = NoEvent /\ AutosaveNext /\ UNCHANGED <<gradingVars, planVars>>
  \/ page = 0 /\ event = NoEvent /\ GradingNext /\ UNCHANGED <<autosaveVars, planVars>>
  \/ page = 0 /\ outcome = Ungraded /\ PlanNext /\ UNCHANGED <<autosaveVars, gradingVars>>

\* Type invariant of the three parts.
TypeOK == AutosaveTypeOK /\ GradingTypeOK /\ PlanTypeOK

Spec == Init /\ [][Next]_<<autosaveVars, gradingVars, planVars>> /\ AutosaveFairness

=============================================================================
