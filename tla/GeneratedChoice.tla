--------------------------- MODULE GeneratedChoice ---------------------------
(***************************************************************************)
(* The options of a question the AI has written                            *)
(* (backend/internal/ai/generation.go): they are shuffled before the       *)
(* question is stored, and the key by which questions are recognised must  *)
(* not notice.  Generation takes a question for its key; the theorems of   *)
(* GenerationProofs say why it may, for any number of options.             *)
(***************************************************************************)
EXTENDS Naturals, FiniteSets

\* A choice of n options: the id and the text at each place, and the ids that are right.
\* about: level, subject, type, stem and material.
ChoiceQuestions(n, Ids, Texts, About) ==
  [id : [1..n -> Ids], text : [1..n -> Texts], answer : SUBSET Ids, about : About]

\* validateGeneratedQuestions: no id twice; ValidateAnswerValue: only ids there are.
Valid(n, q) ==
  /\ \A i, j \in 1..n : q.id[i] = q.id[j] => i = j
  /\ q.answer # {} /\ q.answer \subseteq {q.id[i] : i \in 1..n}

Right(q, i) == q.id[i] \in q.answer

-----------------------------------------------------------------------------

Swapped(order, j, k) == [order EXCEPT ![j] = order[k], ![k] = order[j]]

\* The orders the loop of shuffleGeneratedChoiceOptions can come to, from the last
\* place down to the second.
Shuffles(n) ==
  LET after[j \in 2..(n + 1)] ==
        IF j = n + 1 THEN {[i \in 1..n |-> i]}
        ELSE {Swapped(order, j, k) : order \in after[j + 1], k \in 1..j}
  IN  after[2]

\* What remapGeneratedChoiceOptions accepts as an order.
Order(n) == {order \in [1..n -> 1..n] : \A i, j \in 1..n : order[i] = order[j] => i = j}

\* The ids keep their places, the texts move, and the answer follows the texts.
remapGeneratedChoiceOptions(n, q, order) ==
  [q EXCEPT !.text   = [i \in 1..n |-> q.text[order[i]]],
            !.answer = {q.id[i] : i \in {k \in 1..n : Right(q, order[k])}}]

\* generatedQuestionReuseKey sorts the options by text and verdict: it knows how many
\* options there are of each.
WithVerdict(n, q, text, right) == {i \in 1..n : q.text[i] = text /\ (Right(q, i) <=> right)}

OptionKeys(n, q, Texts) ==
  [option \in Texts \X BOOLEAN |-> Cardinality(WithVerdict(n, q, option[1], option[2]))]

generatedQuestionReuseKey(n, q, Texts) ==
  [about |-> q.about, options |-> OptionKeys(n, q, Texts)]

=============================================================================
