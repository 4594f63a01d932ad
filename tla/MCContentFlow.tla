---------------------------- MODULE MCContentFlow ----------------------------
(* A small instance of ContentFlow: two administrators, two questions, a file of two
   questions under one key. *)
EXTENDS ContentFlow, TLC

MCFileItem == (1 :> [key |-> "shared", text |-> TRUE, type |-> "text", form |-> "object"])
                @@ (2 :> [key |-> "shared", text |-> TRUE, type |-> "choice", form |-> "option"])

\* A draft may lose its text, its key or its answer, and gain an answer.
MCEdits == {[key |-> "shared", text |-> FALSE, answer |-> "source"],
            [key |-> "", text |-> TRUE, answer |-> "none"],
            [key |-> "shared", text |-> TRUE, answer |-> "admin"]}

\* The second question comes first in its book.
MCPlace == (1 :> <<1, 3, 1, 1>>) @@ (2 :> <<0, 3, 2, 1>>)

MCScopes == {{1, 2}}

Keep == [way |-> "keep", of |-> None]

\* What administrators write for each other, and while the learner practises: then only
\* the kind matters.
Written == {[answer |-> "none", kind |-> "public", choice |-> [way |-> "new", of |-> None]],
            [answer |-> "admin", kind |-> "ai", choice |-> [way |-> "bump", of |-> 1]],
            [answer |-> "none", kind |-> "public", choice |-> Keep]}
Practised == {[answer |-> "none", kind |-> kind, choice |-> Keep] : kind \in {"public", "ai"}}

MCWrites == Written \cup Practised

\* Two administrators write, decide or import at once, one imports or decides while
\* the other one writes, one creates and decides while the learner practises.
Writer == {"create", "update"}

Working(kinds) == {w \in [Admins -> kinds] : {w[a] : a \in Admins} = kinds}

MCRosters ==
  [work : Working({Writer}) \cup Working({{"decide"}, {"create", "decide"}})
            \cup Working({{"decide"}, Writer}) \cup Working({{"import"}})
            \cup Working({{"import"}, Writer}),
   learner : {FALSE}, writes : {Written}]
    \cup [work : Working({{"create", "decide"}, {}}), learner : {TRUE}, writes : {Practised}]

AdminSymmetry == Permutations(Admins)

MCUploads == BOOLEAN

=============================================================================
