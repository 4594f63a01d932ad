---------------------------- MODULE MCGeneration ----------------------------
(* Small instances of Generation, and of the questions it takes for their keys. *)
EXTENDS Generation, GeneratedChoice

CONSTANTS a, b, s1, s2, k1, k2

\* The shuffle can come to every order and to nothing else.
ASSUME ShufflesAreOrders == \A n \in 1..4 : Shuffles(n) = Order(n)

\* Every question of three options, two texts, and every order.
ASSUME ShuffleKeepsTheKey ==
  \A q \in {c \in ChoiceQuestions(3, 1..3, {"x", "y"}, {"stem"}) : Valid(3, c)}, order \in Shuffles(3) :
    generatedQuestionReuseKey(3, remapGeneratedChoiceOptions(3, q, order), {"x", "y"})
      = generatedQuestionReuseKey(3, q, {"x", "y"})

=============================================================================
