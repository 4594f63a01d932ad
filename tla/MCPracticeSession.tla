------------------------- MODULE MCPracticeSession -------------------------
(* Small instances of PracticeSession with a result page of each session.  *)
EXTENDS ResultPage, TLC

CONSTANTS p, i1, i2, right, wrong

\* One question with a key and one only the AI can judge.
KeyedAndShort == (i1 :> "official") @@ (i2 :> "short")

\* One question, which only the AI can judge.
Open == (i1 :> "open")

=============================================================================
