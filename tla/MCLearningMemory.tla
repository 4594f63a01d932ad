-------------------------- MODULE MCLearningMemory --------------------------
(* Small instances of LearningMemory.                                      *)
EXTENDS LearningMemory

CONSTANTS keyed, judged

=============================================================================
