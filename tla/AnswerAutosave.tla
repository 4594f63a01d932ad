--------------------------- MODULE AnswerAutosave ---------------------------
(***************************************************************************)
(* How the page of a practice session saves what the learner enters        *)
(* (front-web: useAnswerAutosave.ts and PracticePage.vue), with the server *)
(* that stores it and the network between them.                            *)
(*                                                                         *)
(* One session.  Every opening of its page has entries of its own, and a   *)
(* save that is under way keeps the entry it began with after the page has *)
(* been left.  What the learner enters for a question, the value with its  *)
(* mark, is one datum.  The drafts in local storage outlive the page.      *)
(***************************************************************************)
EXTENDS Naturals, FiniteSets

CONSTANTS
  Items,       \* questions of the session
  Answers,     \* what a learner enters
  MaxPages,    \* bound: openings of the page
  MaxEdits,    \* bound: edits
  MaxFailures  \* bound: requests or answers the network loses, submissions included

Nothing == "nothing"

ASSUME AutosaveAssumption ==
  /\ Nothing \notin Answers
  /\ MaxPages \in Nat \ {0} /\ MaxEdits \in Nat /\ MaxFailures \in Nat

VARIABLES
  stored,     \* user_answers on the server
  closed,     \* the session has been submitted
  screen,     \* which opening is on the screen and what it is doing
  entries,    \* entries of each opening
  saves,      \* the save an entry waits for: entry.inFlight
  strays,     \* saves the browser has given up and the server may still receive
  drafts,     \* practice-draft in local storage
  submission, \* the submission under way
  typed,      \* history: what the learner entered last
  confirmed,  \* history: the server has said that it stored this since it was entered
  crowded,    \* history: questions with two requests under way at once
  used        \* edits and failures so far, for the bounds

autosaveVars == <<stored, closed, screen, entries, saves, strays, drafts, submission,
                  typed, confirmed, crowded, used>>

Pages == 1..MaxPages
Datum == Answers \cup {Nothing}

Entry == [value : Datum, state : {"idle", "saving", "saved", "error"}, dirty : BOOLEAN,
          localOnly : BOOLEAN, timer : BOOLEAN, active : BOOLEAN, revision : Nat]
NoEntry == [value |-> Nothing, state |-> "idle", dirty |-> FALSE, localOnly |-> FALSE,
            timer |-> FALSE, active |-> FALSE, revision |-> 0]

\* none; sent until the server has it; then kept or refused until the page knows.
Save == [phase : {"none", "sent", "kept", "refused"}, value : Datum, revision : Nat]
NoSave == [phase |-> "none", value |-> Nothing, revision |-> 0]

\* asking until the server has read the session for the page, then given.  finished:
\* the page went on to the result.
Phase == {"away", "asking", "given", "ready", "confirming", "finished"}
Screen == [page : 0..MaxPages, phase : Phase, closed : BOOLEAN, answers : [Items -> Datum]]

\* Answers that were submitted, by which opening.
Submission == [phase : {"none", "sent", "taken"}, page : 0..MaxPages, answers : [Items -> Datum]]

Empty == [i \in Items |-> Nothing]

AutosaveInit ==
  /\ stored = Empty /\ closed = FALSE
  /\ screen = [page |-> 0, phase |-> "away", closed |-> FALSE, answers |-> Empty]
  /\ entries = [p \in Pages |-> [i \in Items |-> NoEntry]]
  /\ saves = [p \in Pages |-> [i \in Items |-> NoSave]]
  /\ strays = {} /\ drafts = Empty
  /\ submission = [phase |-> "none", page |-> 0, answers |-> Empty]
  /\ typed = Empty /\ confirmed = [i \in Items |-> TRUE] /\ crowded = {}
  /\ used = [edits |-> 0, failures |-> 0]

-----------------------------------------------------------------------------

page == screen.page
On(phase) == screen.phase = phase
Goes(phase) == screen' = [screen EXCEPT !.phase = phase]

Saveable(p, i) == saves[p][i].phase = "none" /\ entries[p][i].dirty

\* save, for an entry that is as e says.
Saving(e) == [e EXCEPT !.state = "saving", !.dirty = FALSE]
Sent(e) == [phase |-> "sent", value |-> e.value, revision |-> e.revision]

\* save for each of the questions that need it, once their entries are as es says.
SaveAll(p, items, es) ==
  LET due == {i \in items : Saveable(p, i)}
  IN /\ entries' = [entries EXCEPT ![p] = [i \in Items |-> IF i \in due THEN Saving(es[i]) ELSE es[i]]]
     /\ saves' = [saves EXCEPT ![p] = [i \in Items |-> IF i \in due THEN Sent(es[i]) ELSE saves[p][i]]]

\* The entries of an opening when their timers have been stopped.
TimersStopped(p) == [i \in Items |-> [entries[p][i] EXCEPT !.timer = FALSE]]

\* Mutant: the timers of a page that was left go on.
DisposedWithTimers(pages) ==
  [p \in Pages |-> IF p \in pages THEN [i \in Items |-> [entries[p][i] EXCEPT !.active = FALSE]]
                   ELSE entries[p]]

\* disposeEntries, of some openings.
Disposed(pages) ==
  [p \in Pages |-> IF p \in pages
                   THEN [i \in Items |-> [entries[p][i] EXCEPT !.timer = FALSE, !.active = FALSE]]
                   ELSE entries[p]]

-----------------------------------------------------------------------------
(* The page is opened and left                                             *)

Open ==
  /\ On("away") /\ page < MaxPages
  /\ screen' = [screen EXCEPT !.page = page + 1, !.phase = "asking"]
  /\ UNCHANGED <<stored, closed, entries, saves, strays, drafts, submission, typed, confirmed, used>>

ReadServer ==
  /\ On("asking")
  /\ screen' = [screen EXCEPT !.phase = "given", !.closed = closed, !.answers = stored]
  /\ UNCHANGED <<stored, closed, entries, saves, strays, drafts, submission, typed, confirmed, used>>

\* Mutant: what the server has goes before a draft.
ServerFirst(i, kept) == kept[i] # Nothing /\ screen.answers[i] = Nothing

\* A draft goes before what the server has.
Local(i, kept) == kept[i] # Nothing

\* init: what comes from a draft is left to be saved; a session that is no longer active
\* has its drafts removed.
init ==
  /\ On("given")
  /\ LET kept == IF screen.closed THEN Empty ELSE drafts
     IN /\ drafts' = kept
        /\ entries' = [entries EXCEPT ![page] = [i \in Items |->
             IF Local(i, kept)
             THEN [NoEntry EXCEPT !.value = kept[i], !.dirty = TRUE, !.localOnly = TRUE, !.active = TRUE]
             ELSE [NoEntry EXCEPT !.value = screen.answers[i], !.active = TRUE]]]
  /\ Goes(IF screen.closed THEN "finished" ELSE "ready")
  /\ UNCHANGED <<stored, closed, saves, strays, submission, typed, confirmed, used>>

\* The learner goes to another page, whose scripts keep running, or loading fails.
Leave ==
  /\ screen.phase \in {"asking", "given", "ready", "confirming"}
  /\ Goes("away")
  /\ entries' = Disposed({page})
  /\ UNCHANGED <<stored, closed, saves, strays, drafts, submission, typed, confirmed, used>>

\* The tab is closed: nothing is left of it but local storage and what the network has.
CloseTab ==
  /\ screen.phase # "finished" /\ page > 0 /\ used.failures < MaxFailures
  /\ Goes("away")
  /\ entries' = [p \in Pages |-> [i \in Items |-> NoEntry]]
  /\ saves' = [p \in Pages |-> [i \in Items |-> NoSave]]
  /\ strays' = strays \cup
       {[item |-> slot[2], value |-> saves[slot[1]][slot[2]].value, no |-> used.failures] :
          slot \in {x \in Pages \X Items : saves[x[1]][x[2]].phase = "sent"}}
  /\ submission' = [submission EXCEPT !.phase = "none"]
  /\ used' = [used EXCEPT !.failures = @ + 1]
  /\ UNCHANGED <<stored, closed, drafts, typed, confirmed>>

-----------------------------------------------------------------------------
(* The learner enters an answer, and it is saved                           *)

\* setAnswer, setMarked and schedule.
Edit(i, v) ==
  /\ On("ready") /\ used.edits < MaxEdits
  /\ LET e == entries[page][i]
     IN entries' = [entries EXCEPT ![page][i] =
          [e EXCEPT !.value = v, !.revision = @ + 1, !.dirty = TRUE, !.localOnly = TRUE,
                    !.timer = @ \/ saves[page][i].phase = "none"]]
  /\ drafts' = [drafts EXCEPT ![i] = v]
  /\ typed' = [typed EXCEPT ![i] = v]
  /\ confirmed' = [confirmed EXCEPT ![i] = FALSE]
  /\ used' = [used EXCEPT !.edits = @ + 1]
  /\ UNCHANGED <<stored, closed, screen, saves, strays, submission>>

TimerFires(p, i) ==
  /\ entries[p][i].timer
  /\ SaveAll(p, {i}, [entries[p] EXCEPT ![i].timer = FALSE])
  /\ UNCHANGED <<stored, closed, screen, strays, drafts, submission, typed, confirmed, used>>

retryFailed ==
  /\ On("ready") /\ \E i \in Items : entries[page][i].state = "error"
  /\ SaveAll(page, {i \in Items : entries[page][i].state = "error"}, entries[page])
  /\ UNCHANGED <<stored, closed, screen, strays, drafts, submission, typed, confirmed, used>>

\* UpsertAnswer, for as long as the session is active.
Upsert(i, v) == stored' = IF closed THEN stored ELSE [stored EXCEPT ![i] = v]

ServerSaves(p, i) ==
  /\ saves[p][i].phase = "sent"
  /\ Upsert(i, saves[p][i].value)
  /\ saves' = [saves EXCEPT ![p][i].phase = IF closed THEN "refused" ELSE "kept"]
  /\ UNCHANGED <<closed, screen, entries, strays, drafts, submission, typed, confirmed, used>>

StrayArrives(s) ==
  /\ s \in strays
  /\ Upsert(s.item, s.value)
  /\ strays' = strays \ {s}
  /\ UNCHANGED <<closed, screen, entries, saves, drafts, submission, typed, confirmed, used>>

StrayIsLost(s) ==
  /\ s \in strays
  /\ strays' = strays \ {s}
  /\ UNCHANGED <<stored, closed, screen, entries, saves, drafts, submission, typed, confirmed, used>>

\* Mutant: an answer counts for whatever the entry says by now.
CurrentAlways(p, i) == TRUE

\* Nothing was entered since the request was sent.
Current(p, i) == saves[p][i].revision = entries[p][i].revision

\* Mutant: what was entered meanwhile is left to the next edit.
AgainNever(p, i, e) == FALSE

\* What was entered meanwhile is saved at once; a failure alone waits for the learner.
Again(p, i, e) == e.active /\ e.dirty /\ ~Current(p, i)

\* The end of save, with the entry as e says.
Ends(p, i, e) ==
  /\ entries' = [entries EXCEPT ![p][i] = IF Again(p, i, e) THEN Saving(e) ELSE e]
  /\ saves' = [saves EXCEPT ![p][i] = IF Again(p, i, e) THEN Sent(e) ELSE NoSave]

\* Mutant: the draft is removed whatever it says.
ClearedWhatever(i, v) == drafts' = [drafts EXCEPT ![i] = Nothing]

\* clearDraftItem: only a draft that says what was saved.
clearDraftItem(i, v) ==
  drafts' = IF drafts[i] = v THEN [drafts EXCEPT ![i] = Nothing] ELSE drafts

SaveAnswered(p, i) ==
  /\ saves[p][i].phase = "kept"
  /\ LET e == entries[p][i]
     IN IF Current(p, i)
        THEN /\ Ends(p, i, [e EXCEPT !.state = "saved", !.localOnly = FALSE])
             /\ clearDraftItem(i, saves[p][i].value)
        ELSE Ends(p, i, e) /\ UNCHANGED drafts
  /\ confirmed' = [confirmed EXCEPT ![i] = @ \/ saves[p][i].value = typed[i]]
  /\ UNCHANGED <<stored, closed, screen, strays, submission, typed, used>>

\* Mutant: what could not be saved is kept as a draft if there is none.
FailedKeepingDraft(p, i) ==
  /\ LET e == entries[p][i]
     IN Ends(p, i, IF e.active THEN [e EXCEPT !.dirty = TRUE, !.state = "error"] ELSE e)
  /\ drafts' = IF drafts[i] = Nothing THEN [drafts EXCEPT ![i] = saves[p][i].value] ELSE drafts

\* The catch branch: an entry whose page is gone is left as it is.
Failed(p, i) ==
  /\ LET e == entries[p][i]
     IN Ends(p, i, IF e.active THEN [e EXCEPT !.dirty = TRUE, !.state = "error"] ELSE e)
  /\ UNCHANGED drafts

SaveRefused(p, i) ==
  /\ saves[p][i].phase = "refused"
  /\ Failed(p, i)
  /\ UNCHANGED <<stored, closed, screen, strays, submission, typed, confirmed, used>>

\* fetch fails: before the server has the request, which may still arrive, or after.
SaveFails(p, i) ==
  /\ saves[p][i].phase # "none" /\ used.failures < MaxFailures
  /\ Failed(p, i)
  /\ strays' = IF saves[p][i].phase = "sent"
               THEN strays \cup {[item |-> i, value |-> saves[p][i].value, no |-> used.failures]}
               ELSE strays
  /\ used' = [used EXCEPT !.failures = @ + 1]
  /\ UNCHANGED <<stored, closed, screen, submission, typed, confirmed>>

-----------------------------------------------------------------------------
(* The learner submits                                                     *)

\* flushPending: every timer stops and everything dirty is sent.
openConfirm ==
  /\ On("ready")
  /\ SaveAll(page, Items, TimersStopped(page))
  /\ Goes("confirming")
  /\ UNCHANGED <<stored, closed, strays, drafts, submission, typed, confirmed, used>>

\* The dialog can be closed while the submission is under way.
CancelConfirm ==
  /\ On("confirming")
  /\ Goes("ready")
  /\ UNCHANGED <<stored, closed, entries, saves, strays, drafts, submission, typed, confirmed, used>>

\* The answers on the screen, whether they were saved or not.
finalAnswers == [i \in Items |-> entries[page][i].value]

\* Bound: one submission at a time; within an opening the code has no more.
doSubmit ==
  /\ On("confirming") /\ submission.phase = "none"
  /\ submission' = [phase |-> "sent", page |-> page, answers |-> finalAnswers]
  /\ UNCHANGED <<stored, closed, screen, entries, saves, strays, drafts, typed, confirmed, used>>

\* A repeated submission carries the same key and changes nothing.
ServerSubmits ==
  /\ submission.phase = "sent"
  /\ closed' = TRUE
  /\ stored' = IF closed THEN stored ELSE submission.answers
  /\ submission' = [submission EXCEPT !.phase = "taken"]
  /\ UNCHANGED <<screen, entries, saves, strays, drafts, typed, confirmed, used>>

\* cleanup
RemoveDraft == drafts' = Empty

SubmitAnswered ==
  /\ submission.phase = "taken"
  /\ entries' = Disposed({submission.page, page})
  /\ RemoveDraft
  /\ Goes("finished")
  /\ submission' = [submission EXCEPT !.phase = "none"]
  /\ UNCHANGED <<stored, closed, saves, strays, typed, confirmed, used>>

\* The request or its answer is lost: the page goes on as before.
SubmitFails ==
  /\ submission.phase # "none" /\ used.failures < MaxFailures
  /\ submission' = [submission EXCEPT !.phase = "none"]
  /\ IF On("confirming") /\ submission.page = page THEN Goes("ready") ELSE UNCHANGED screen
  /\ used' = [used EXCEPT !.failures = @ + 1]
  /\ UNCHANGED <<stored, closed, entries, saves, strays, drafts, typed, confirmed>>

-----------------------------------------------------------------------------

\* Requests about a question that nobody has heard of again: saves of any opening,
\* saves given up, and the reading of the session.
Underway(i) ==
  Cardinality({p \in Pages : saves[p][i].phase # "none"}) + Cardinality({s \in strays : s.item = i})
    + (IF screen.phase \in {"asking", "given"} THEN 1 ELSE 0)

Watch == crowded' = crowded \cup {i \in Items : Underway(i)' > 1}

AutosaveNext ==
  /\ \/ Open \/ ReadServer \/ init \/ Leave \/ CloseTab
     \/ \E i \in Items, v \in Answers : Edit(i, v)
     \/ \E p \in Pages, i \in Items : \/ TimerFires(p, i)
                                      \/ ServerSaves(p, i)
                                      \/ SaveAnswered(p, i)
                                      \/ SaveRefused(p, i)
                                      \/ SaveFails(p, i)
     \/ \E s \in strays : StrayArrives(s) \/ StrayIsLost(s)
     \/ retryFailed
     \/ openConfirm \/ CancelConfirm
     \/ doSubmit \/ ServerSubmits \/ SubmitAnswered \/ SubmitFails
  /\ Watch

\* Timers fire, the server answers and the page is told.
AutosaveFairness ==
  \A p \in Pages, i \in Items :
    /\ WF_autosaveVars(TimerFires(p, i) /\ Watch)
    /\ WF_autosaveVars(ServerSaves(p, i) /\ Watch)
    /\ WF_autosaveVars((SaveAnswered(p, i) \/ SaveRefused(p, i)) /\ Watch)

AutosaveSpec == AutosaveInit /\ [][AutosaveNext]_autosaveVars /\ AutosaveFairness

-----------------------------------------------------------------------------
(* Properties                                                              *)

\* Type invariant; an entry whose page was left has no timer.
AutosaveTypeOK ==
  /\ stored \in [Items -> Datum] /\ closed \in BOOLEAN
  /\ screen \in Screen
  /\ entries \in [Pages -> [Items -> Entry]]
  /\ \A p \in Pages, i \in Items : entries[p][i].timer => entries[p][i].active
  /\ saves \in [Pages -> [Items -> Save]]
  /\ \A s \in strays : s \in [item : Items, value : Datum, no : Nat]
  /\ drafts \in [Items -> Datum]
  /\ submission \in Submission
  /\ typed \in [Items -> Datum] /\ confirmed \in [Items -> BOOLEAN] /\ crowded \subseteq Items
  /\ used \in [edits : Nat, failures : Nat]

\* What was entered is in the draft until the server has said that it stored it: the
\* page can be left or lost at any moment (useAnswerAutosave.ts:55, 141-193).
UnsavedIsKept == ~closed => \A i \in Items : ~confirmed[i] => drafts[i] = typed[i]

\* The opened page shows what was entered last, as long as no two requests about the
\* question were under way at once (init, useAnswerAutosave.ts:71).
ShownIsTyped ==
  screen.phase \in {"ready", "confirming"} /\ ~closed =>
    \A i \in Items \ crowded : entries[page][i].value = typed[i]

ShownAsSaved(i) ==
  /\ screen.phase \in {"ready", "confirming"} /\ ~closed
  /\ entries[page][i].state = "saved" /\ ~entries[page][i].localOnly

\* What is shown as saved is what the server has, under the same condition.
SavedIsStored ==
  \A i \in Items \ crowded : ShownAsSaved(i) => stored[i] = entries[page][i].value

\* The page tells the truth about what was entered and what is safe.
PageTellsTheTruth == ShownIsTyped /\ SavedIsStored

\* "One save of a question at a time, so that no older request overwrites a newer
\* answer": the same without the condition.
NewestIsStored == \A i \in Items : ShownAsSaved(i) => stored[i] = entries[page][i].value

\* Once the page has moved on to the result no draft is left and none appears, however
\* late the saves fail that were under way.
NoDraftComesBack == On("finished") => drafts = Empty

\* An edit is saved or its failure is shown, unless the page is left or the learner
\* turns to the submission, which carries the answer itself.
Unsaved(i) == On("ready") /\ ~closed /\ entries[page][i].revision > 0 /\ ~confirmed[i]
Told(i) == confirmed[i] \/ entries[page][i].state = "error" \/ ~On("ready") \/ closed

EditsAreSaved == \A i \in Items : Unsaved(i) ~> Told(i)

=============================================================================
