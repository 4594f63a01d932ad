-------------------------- MODULE QuestionSelection --------------------------
(***************************************************************************)
(* What a learner is given to practise: the choice of published questions  *)
(* in backend/internal/content/store.go and the sessions that              *)
(* backend/internal/practice creates from it.  The questions come and go   *)
(* in the QuestionBank meanwhile.                                          *)
(*                                                                         *)
(* A learner asks for a number of questions from a scope, in the order of  *)
(* the books, at random, or only ones never done before.  Questions of the *)
(* last sessions are left out as long as there are enough others.          *)
(***************************************************************************)
EXTENDS QuestionBank, SequencesExt, FiniteSetsExt

CONSTANTS
  Place,          \* source kind, source date, source_order and section of each question
  Scopes,         \* sets of questions a level, subject, source or knowledge point stands for
  Counts,         \* numbers of questions to ask for
  RecentSessions, \* how many sessions count as recent; 3 in the code
  MaxSessions,    \* bound: sessions created
  MaxHidden       \* bound: items taken out of the book of wrong questions

VARIABLES
  sessions, \* practice_sessions of the learner in the order of created_at, with their items
  wish      \* the filter of the request under way

learnVars == <<sessions, wish>>

ASSUME SelectionAssumption ==
  /\ Place \in [Questions -> Seq(Nat)] /\ \A q \in Questions : Len(Place[q]) = 4
  /\ Scopes \subseteq SUBSET Questions /\ Counts \subseteq Nat \ {0}
  /\ RecentSessions \in Nat /\ MaxSessions \in Nat /\ MaxHidden \in Nat

Orders == {"source_order", "random", "unseen_first"}

\* mode: "scope" for comprehensive and knowledge, whose filters differ in the scope.
\* ids: for "wrong_items", the questions the learner has answered wrongly; {} is no
\* restriction.
Filter == [mode : {"scope", "wrong_items"}, order : Orders, within : Scopes, count : Counts,
           ids : SUBSET Questions]

\* at: when the session was submitted, counted in submissions, or 0; failed: the
\* questions answered wrongly; hidden: the items the learner has taken out of the book of
\* wrong questions; mode, random: of the filter it was created from.
Session == [asked : Seq(Questions), at : Nat, failed : SUBSET Questions,
            hidden : SUBSET Questions, mode : {"scope", "wrong_items"}, random : BOOLEAN]

NoWish == [mode |-> "none"]

SelectionInit == sessions = <<>> /\ wish = NoWish

-----------------------------------------------------------------------------
(* The history the filters look at                                         *)

Done(i) == sessions[i].at > 0
Asked(i) == ToSet(sessions[i].asked)

Seen == UNION {Asked(i) : i \in {k \in DOMAIN sessions : Done(k)}}

\* ORDER BY created_at DESC LIMIT 3, of the sessions that are submitted.
Recent ==
  LET done == {i \in DOMAIN sessions : Done(i)}
  IN UNION {Asked(i) : i \in {k \in done :
       Cardinality({l \in done : l > k}) < RecentSessions}}

PublishedKind(q) == versions[q][questions[q].published].kind

Practicable(q) == Selectable(q) /\ PublishedKind(q) # "ai"

\* The sessions that have a result for the question which is not hidden.
Results(q) == {i \in DOMAIN sessions : Done(i) /\ q \in Asked(i) \ sessions[i].hidden}

\* rn = 1.
Latest(q, i) == i \in Results(q) /\ \A k \in Results(q) : sessions[k].at <= sessions[i].at

\* The book of wrong questions: the latest result of each question if it is wrong, or if
\* the learner asks for those put right since and an earlier one was wrong.
WrongItems(includeCorrect) ==
  {item \in (DOMAIN sessions) \X Questions :
     LET i == item[1]
         q == item[2]
     IN /\ Latest(q, i)
        /\ \/ q \in sessions[i].failed
           \/ includeCorrect /\ \E k \in Results(q) : q \in sessions[k].failed}

\* What can be practised again of it.
WrongQuestionIDs(within) ==
  {q \in within : Practicable(q) /\ \E i \in Results(q) : Latest(q, i) /\ q \in sessions[i].failed}

\* Mutant: a question counts as done when a session that asks it is created.
PracticeSourcesCreated(within) ==
  LET public == {q \in within : Practicable(q)}
      asked  == UNION {Asked(i) : i \in DOMAIN sessions}
  IN [questionCount |-> Cardinality(public), practicedCount |-> Cardinality(public \cap asked)]

\* ListPracticeSources: the questions of a source and those of them done already.
PracticeSources(within) ==
  LET public == {q \in within : Practicable(q)}
  IN [questionCount |-> Cardinality(public), practicedCount |-> Cardinality(public \cap Seen)]

-----------------------------------------------------------------------------
(* SelectPublishedVersions                                                 *)

Candidates(f) ==
  {q \in f.within : Practicable(q) /\ (f.ids = {} \/ q \in f.ids)}

\* Mutant: in the order of the books recent questions come again.
RecentIncluded(f) ==
  IF f.order = "unseen_first" THEN Seen
  ELSE IF f.mode = "scope" /\ f.order = "random" THEN Recent ELSE {}

Excluded(f) ==
  IF f.order = "unseen_first" THEN Seen
  ELSE IF f.mode = "scope" THEN Recent ELSE {}

\* Books first, then the date of the source, the number of the question in it and the
\* section; the id decides the rest.
sourceOrderLess(q, r) ==
  \/ \E k \in 1..4 : Place[q][k] < Place[r][k] /\ \A l \in 1..(k - 1) : Place[q][l] = Place[r][l]
  \/ Place[q] = Place[r] /\ q < r

\* The questions of a set in that order.
BookOrder(S) ==
  CHOOSE s \in [1..Cardinality(S) -> S] :
    \A k, l \in 1..Cardinality(S) : k < l => sourceOrderLess(s[k], s[l])

InOrder(f, rows) == IF f.order = "random" THEN rows ELSE BookOrder(ToSet(rows))

FirstOf(s, n) == SubSeq(s, 1, Min({n, Len(s)}))

\* ORDER BY ... LIMIT n.
Query(f, from, n) ==
  IF f.order = "random" THEN {FirstOf(s, n) : s \in SetToSeqs(from)}
  ELSE {FirstOf(BookOrder(from), n)}

\* The rows, and those of more that are not among them, until there are n.
Filled(rows, more, n) ==
  LET filled[i \in 0..Len(more)] ==
        IF i = 0 THEN rows
        ELSE IF Len(filled[i - 1]) >= n \/ more[i] \in ToSet(filled[i - 1]) THEN filled[i - 1]
        ELSE Append(filled[i - 1], more[i])
  IN  filled[Len(more)]

\* Mutants: only as many rows are read as are missing; the rows are not sorted again.
TopUpMissing(f, rows) ==
  {InOrder(f, Filled(rows, more, f.count)) :
     more \in Query(f, Candidates(f), f.count - Len(rows))}

TopUpUnsorted(f, rows) ==
  {Filled(rows, more, f.count) : more \in Query(f, Candidates(f), f.count)}

\* The second query is the first without the exclusion.
TopUp(f, rows) ==
  {InOrder(f, Filled(rows, more, f.count)) : more \in Query(f, Candidates(f), f.count)}

SelectPublishedVersions(f) ==
  UNION {IF f.mode = "scope" /\ Len(rows) < f.count THEN TopUp(f, rows) ELSE {rows} :
           rows \in Query(f, Candidates(f) \ Excluded(f), f.count)}

\* CountPublishedVersions knows nothing of the recent sessions.
CountPublishedVersions(f) ==
  Cardinality(Candidates(f) \ (IF f.order = "unseen_first" THEN Seen ELSE {}))

-----------------------------------------------------------------------------
(* Sessions                                                                *)

\* Mutant: no wrong questions is no restriction.
RefusedNever(f) == FALSE

Refused(f) == f.mode = "wrong_items" /\ f.ids = {}

\* selectionFilter: the wrong questions are read before the transaction begins.
selectionFilter(mode, order, within, count) ==
  /\ wish = NoWish
  /\ LET f == [mode |-> mode, order |-> order, within |-> within, count |-> count,
               ids |-> IF mode = "wrong_items" THEN WrongQuestionIDs(within) ELSE {}]
     IN ~Refused(f) /\ wish' = f
  /\ UNCHANGED sessions

\* CreateSession refuses when there are fewer questions than were asked for.  At the
\* bound the session is left out.
CreateSession ==
  /\ wish # NoWish
  /\ \E rows \in SelectPublishedVersions(wish) :
       sessions' = IF Len(rows) < wish.count \/ Len(sessions) = MaxSessions THEN sessions
                   ELSE Append(sessions, [asked |-> rows, at |-> 0, failed |-> {}, hidden |-> {},
                                            mode |-> wish.mode, random |-> wish.order = "random"])
  /\ wish' = NoWish

Submissions == Cardinality({i \in DOMAIN sessions : Done(i)})

\* The session is submitted and graded at once.
Submit(i, failed) ==
  /\ i \in DOMAIN sessions /\ ~Done(i) /\ failed \subseteq Asked(i)
  /\ sessions' = [sessions EXCEPT ![i].at = Submissions + 1, ![i].failed = failed]
  /\ UNCHANGED wish

Hidden == UNION {{i} \X sessions[i].hidden : i \in DOMAIN sessions}

\* DeleteWrongItem, of an item the book shows.
DeleteWrongItem(i, q) ==
  /\ Cardinality(Hidden) < MaxHidden
  /\ \E includeCorrect \in BOOLEAN : <<i, q>> \in WrongItems(includeCorrect)
  /\ sessions' = [sessions EXCEPT ![i].hidden = @ \cup {q}]
  /\ UNCHANGED wish

-----------------------------------------------------------------------------
(* Properties                                                              *)

\* Whoever asks for no more questions than the count of the same moment promises is
\* given that many different ones, whatever was done recently and however the filters
\* exclude each other (practice/service.go:51-61 counts by another query than the choice
\* of content/store.go:822).
PromisedIsGiven ==
  wish # NoWish /\ CountPublishedVersions(wish) >= wish.count =>
    \A rows \in SelectPublishedVersions(wish) :
      Len(rows) = wish.count /\ Cardinality(ToSet(rows)) = wish.count

\* The number of questions a source shows as remaining can be practised as unseen
\* questions of it (content/store.go:133-174 counts sessions by another query).
RemainingIsAvailable ==
  \A within \in Scopes :
    PracticeSources(within).questionCount - PracticeSources(within).practicedCount
      = CountPublishedVersions([mode |-> "scope", order |-> "unseen_first", within |-> within,
                                count |-> 1, ids |-> {}])

\* The numbers shown before a session is created are right.
CountsAreRight == PromisedIsGiven /\ RemainingIsAvailable

\* A question of a recent session is given only together with every one that is not
\* (store.go:891-909).  The mode unseen_first is left out: it is filled up with done
\* questions in the same way, although the comment on UnseenOnly (store.go:819) and the
\* plan of this mode promise questions never done and nothing else.
RecentOnlyToFillUp ==
  wish # NoWish /\ wish.mode = "scope" /\ wish.order # "unseen_first" =>
    \A rows \in SelectPublishedVersions(wish) :
      ToSet(rows) \cap Recent # {} => Candidates(wish) \ Recent \subseteq ToSet(rows)

\* The questions come in the order of the books, also those that fill up the others
\* (store.go:910-912 sorts by other code than the query).
GivenInOrder ==
  \A i \in DOMAIN sessions : ~sessions[i].random =>
    \A k, l \in DOMAIN sessions[i].asked :
      k < l => sourceOrderLess(sessions[i].asked[k], sessions[i].asked[l])

\* A session on wrong questions holds nothing but questions the learner had answered
\* wrongly, although an empty list of ids restricts nothing (practice/service.go:124-129).
WrongItemsWereWrong ==
  \A i \in DOMAIN sessions : sessions[i].mode = "wrong_items" =>
    \A q \in Asked(i) : \E k \in 1..(i - 1) : q \in sessions[k].failed

\* A session holds what was asked for, with the exception just named.
GivenAsAsked == RecentOnlyToFillUp /\ GivenInOrder /\ WrongItemsWereWrong

=============================================================================
