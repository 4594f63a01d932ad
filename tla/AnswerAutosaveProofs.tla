------------------------- MODULE AnswerAutosaveProofs -------------------------
(***************************************************************************)
(* For all questions, answers and bounds: what the page of a session shows *)
(* and keeps agrees with what was entered and with what the server has.    *)
(*                                                                         *)
(* The invariant says where a save can be (Pages, Saves), how a draft      *)
(* relates to what was entered last (Drafts), and, for a question that     *)
(* never had two requests under way, that the one request is everything    *)
(* that can change what the server has (Alone, Agree).                     *)
(***************************************************************************)
EXTENDS AnswerAutosave, FiniteSetTheorems, TLAPS

Shown == {"ready", "confirming"}
Loading == {"asking", "given"}
Waits(p, i) == saves[p][i].phase # "none"
StraysOf(i) == {s \in strays : s.item = i}
SavesOf(i) == {p \in Pages : Waits(p, i)}

\* Only the opening that is on the screen has entries in use and timers; a save began in
\* this opening or in an earlier one.
PageOK(p, i) ==
  /\ entries[p][i].timer => entries[p][i].active /\ screen.phase \in Shown
  /\ entries[p][i].active => p = page /\ screen.phase \in Shown \cup {"finished"}
  /\ p = page /\ screen.phase \in Shown => entries[p][i].active
  /\ Waits(p, i) => p < page \/ (p = page /\ screen.phase \notin Loading)
PagesInv ==
  /\ screen.phase \in Shown \cup Loading => page > 0
  /\ \A p \in Pages, i \in Items : PageOK(p, i)

\* An entry with a save under way; if nothing was entered since, it says what was sent.
SaveOK(p, i) ==
  Waits(p, i) =>
    /\ entries[p][i].state = "saving"
    /\ saves[p][i].revision <= entries[p][i].revision
    /\ Current(p, i) => ~entries[p][i].dirty /\ saves[p][i].value = entries[p][i].value
SavesInv == \A p \in Pages, i \in Items : SaveOK(p, i)

\* What the page knows of the end of the session is true.
ClosedInv ==
  /\ screen.closed => closed
  /\ submission.phase = "taken" => closed
  /\ On("finished") => closed

\* A draft says what was entered last, and is there until the server confirmed it.
DraftOK(i) ==
  /\ drafts[i] \in {Nothing, typed[i]}
  /\ ~closed /\ ~confirmed[i] => drafts[i] = typed[i]
DraftsInv ==
  /\ \A i \in Items : DraftOK(i)
  /\ On("finished") => drafts = Empty

StraysFinite == \A i \in Items : IsFiniteSet(StraysOf(i))

\* One request at a time: a save, a save given up, or the reading of the session.
Alone(i) ==
  /\ \A p \in Pages : Waits(p, i) => p = page /\ screen.phase \notin Loading /\ StraysOf(i) = {}
  /\ screen.phase \in Loading => StraysOf(i) = {}

\* Without a draft the server has what was entered; everything that is still to come has
\* a draft, and the page shows what was entered.
Agree(i) ==
  /\ drafts[i] = Nothing => stored[i] = typed[i]
  /\ StraysOf(i) # {} => drafts[i] # Nothing
  /\ On("given") => screen.answers[i] = stored[i]
  /\ \A p \in Pages :
       /\ Waits(p, i) => drafts[i] # Nothing
       /\ saves[p][i].phase = "kept" => stored[i] = saves[p][i].value
       /\ p = page /\ screen.phase \in Shown =>
            /\ entries[p][i].value = typed[i]
            /\ entries[p][i].dirty => drafts[i] # Nothing
            /\ StraysOf(i) # {} => entries[p][i].state # "saved"
            /\ entries[p][i].state = "saved" /\ ~entries[p][i].localOnly
               => stored[i] = entries[p][i].value
AgreeInv == \A i \in Items \ crowded : Alone(i) /\ (~closed => Agree(i))

AutosaveIInv ==
  AutosaveTypeOK /\ PagesInv /\ SavesInv /\ ClosedInv /\ DraftsInv /\ StraysFinite /\ AgreeInv

-----------------------------------------------------------------------------
(* One request at a time                                                   *)

\* Of two finite sets and one thing more, no two are there when the sum is at most one.
LEMMA AtMostOne ==
  ASSUME NEW S, IsFiniteSet(S), NEW T, IsFiniteSet(T), NEW n \in {0, 1},
         ~(Cardinality(S) + Cardinality(T) + n > 1)
  PROVE  /\ S # {} => T = {} /\ n = 0
         /\ n = 1 => T = {}
<1>1. Cardinality(S) \in Nat /\ Cardinality(T) \in Nat
  BY FS_CardinalityType
<1>2. S # {} => Cardinality(S) # 0
  BY FS_EmptySet
<1>3. T # {} => Cardinality(T) # 0
  BY FS_EmptySet
<1> QED
  BY <1>1, <1>2, <1>3

\* A question that is not crowded after a step has at most one request.
LEMMA WatchFacts ==
  ASSUME Watch, StraysFinite', NEW i \in Items, i \notin crowded'
  PROVE  /\ i \notin crowded
         /\ \A p \in Pages : Waits(p, i)' => screen'.phase \notin Loading /\ StraysOf(i)' = {}
         /\ screen'.phase \in Loading => StraysOf(i)' = {}
<1> DEFINE n == IF screen'.phase \in Loading THEN 1 ELSE 0
<1>1. i \notin crowded /\ ~(Underway(i)' > 1)
  BY DEF Watch
<1>2. Underway(i)' = Cardinality(SavesOf(i)') + Cardinality(StraysOf(i)') + n
  BY DEF Underway, SavesOf, StraysOf, Waits, Loading
<1>3. IsFiniteSet(Pages)
  BY AutosaveAssumption, FS_Interval DEF Pages
<1>4. IsFiniteSet(SavesOf(i)')
  BY <1>3, FS_Subset DEF SavesOf
<1>5. IsFiniteSet(StraysOf(i)')
  BY DEF StraysFinite
<1>6. /\ SavesOf(i)' # {} => StraysOf(i)' = {} /\ n = 0
      /\ n = 1 => StraysOf(i)' = {}
  <2> HIDE DEF n
  <2>1. n \in {0, 1}
    BY DEF n
  <2> QED
    BY <1>1, <1>2, <1>4, <1>5, <2>1, AtMostOne
<1> QED
  BY <1>1, <1>6 DEF SavesOf

\* What the type invariant says of one entry and its save.
LEMMA SlotFacts ==
  ASSUME AutosaveTypeOK, NEW p \in Pages, NEW i \in Items
  PROVE  /\ entries[p][i] \in Entry /\ saves[p][i] \in Save
         /\ entries[p][i].revision \in Nat /\ saves[p][i].revision \in Nat
         /\ entries[p][i].value \in Datum /\ saves[p][i].value \in Datum
         /\ screen.page \in Nat /\ p \in Nat /\ p # 0
  BY AutosaveAssumption DEF AutosaveTypeOK, Entry, Save, Screen, Pages

\* The opening on the screen.
LEMMA PageFacts ==
  ASSUME AutosaveTypeOK, PagesInv
  PROVE  /\ screen.page \in 0..MaxPages /\ screen.phase \in Phase /\ screen.closed \in BOOLEAN
         /\ screen.phase \in Shown \cup Loading => page \in Pages
<1>1. screen.page \in 0..MaxPages /\ screen.phase \in Phase /\ screen.closed \in BOOLEAN
  BY DEF AutosaveTypeOK, Screen
<1> QED
  BY <1>1, AutosaveAssumption DEF PagesInv, page, Pages

-----------------------------------------------------------------------------
(* The invariant holds initially                                           *)

LEMMA AutosaveInitially == AutosaveInit => AutosaveIInv
<1> SUFFICES ASSUME AutosaveInit PROVE AutosaveIInv
  OBVIOUS
<1>1. AutosaveTypeOK
  <2>1. Empty \in [Items -> Datum]
    BY DEF Empty, Datum
  <2>2. NoEntry \in Entry /\ ~NoEntry.timer /\ NoSave \in Save
    BY DEF NoEntry, NoSave, Entry, Save, Datum
  <2>3. screen \in Screen /\ submission \in Submission
    BY <2>1, AutosaveAssumption DEF AutosaveInit, Screen, Submission, Phase
  <2>4. entries \in [Pages -> [Items -> Entry]] /\ saves \in [Pages -> [Items -> Save]]
    BY <2>2 DEF AutosaveInit
  <2> QED
    BY <2>1, <2>2, <2>3, <2>4 DEF AutosaveInit, AutosaveTypeOK
<1>2. PagesInv /\ SavesInv /\ ClosedInv
  BY DEF AutosaveInit, PagesInv, PageOK, SavesInv, SaveOK, ClosedInv, NoEntry, NoSave, Waits, On, Shown, Loading
<1>3. DraftsInv
  BY DEF AutosaveInit, DraftsInv, DraftOK, Empty, On
<1>4. \A i \in Items : StraysOf(i) = {}
  BY DEF AutosaveInit, StraysOf
<1>5. StraysFinite
  BY <1>4, FS_EmptySet DEF StraysFinite
<1>6. AgreeInv
  BY <1>4 DEF AutosaveInit, AgreeInv, Alone, Agree, NoSave, Empty, Waits, On, Shown, Loading
<1> QED
  BY <1>1, <1>2, <1>3, <1>5, <1>6 DEF AutosaveIInv

-----------------------------------------------------------------------------
(* The page is opened and left                                             *)

LEMMA OpenStep ==
  ASSUME AutosaveIInv, Open, Watch
  PROVE  AutosaveIInv'
<1> USE DEF AutosaveIInv
<1>1. /\ screen.phase = "away" /\ page \in Nat /\ page < MaxPages
      /\ screen' = [screen EXCEPT !.page = page + 1, !.phase = "asking"]
      /\ UNCHANGED <<stored, closed, entries, saves, strays, drafts, submission, typed, confirmed, used>>
  BY DEF Open, On, AutosaveTypeOK, Screen, page
<1>2. /\ screen' \in Screen /\ screen'.page = page + 1 /\ screen'.phase = "asking"
      /\ screen'.closed = screen.closed
  <2>1. screen \in Screen /\ page + 1 \in 0..MaxPages
    BY <1>1, AutosaveAssumption DEF AutosaveTypeOK
  <2> QED
    BY <1>1, <2>1 DEF Screen, Phase, page
<1>3. AutosaveTypeOK'
  BY <1>1, <1>2 DEF AutosaveTypeOK, Watch
<1>4. PagesInv'
  BY <1>1, <1>2, SlotFacts DEF PagesInv, PageOK, Waits, Shown, Loading, page
<1>5. SavesInv' /\ ClosedInv' /\ DraftsInv' /\ StraysFinite'
  BY <1>1, <1>2 DEF SavesInv, SaveOK, ClosedInv, DraftsInv, DraftOK, StraysFinite, StraysOf, Waits, Current, On
<1>6. AgreeInv'
  BY <1>1, <1>2, <1>5, WatchFacts DEF AgreeInv, Alone, Agree, Waits, StraysOf, On, Shown, Loading
<1> QED
  BY <1>3, <1>4, <1>5, <1>6

LEMMA ReadServerStep ==
  ASSUME AutosaveIInv, ReadServer, Watch
  PROVE  AutosaveIInv'
<1> USE DEF AutosaveIInv
<1>1. /\ screen.phase = "asking"
      /\ screen' = [screen EXCEPT !.phase = "given", !.closed = closed, !.answers = stored]
      /\ UNCHANGED <<stored, closed, entries, saves, strays, drafts, submission, typed, confirmed, used>>
  BY DEF ReadServer, On
<1>2. /\ screen' \in Screen /\ screen'.page = page /\ screen'.phase = "given"
      /\ screen'.closed = closed /\ screen'.answers = stored
  BY <1>1 DEF AutosaveTypeOK, Screen, Phase, page
<1>3. AutosaveTypeOK'
  BY <1>1, <1>2 DEF AutosaveTypeOK, Watch
<1>4. PagesInv'
  BY <1>1, <1>2, SlotFacts DEF PagesInv, PageOK, Waits, Shown, Loading, page
<1>5. SavesInv' /\ ClosedInv' /\ DraftsInv' /\ StraysFinite'
  BY <1>1, <1>2 DEF SavesInv, SaveOK, ClosedInv, DraftsInv, DraftOK, StraysFinite, StraysOf, Waits, Current, On
<1>6. AgreeInv'
  BY <1>1, <1>2, <1>5, WatchFacts DEF AgreeInv, Alone, Agree, Waits, StraysOf, On, Shown, Loading
<1> QED
  BY <1>3, <1>4, <1>5, <1>6

LEMMA InitStep ==
  ASSUME AutosaveIInv, init, Watch
  PROVE  AutosaveIInv'
<1> USE DEF AutosaveIInv
<1> DEFINE kept == IF screen.closed THEN Empty ELSE drafts
<1>1. /\ screen.phase = "given" /\ page \in Pages
      /\ drafts' = kept
      /\ screen' = [screen EXCEPT !.phase = IF screen.closed THEN "finished" ELSE "ready"]
      /\ UNCHANGED <<stored, closed, saves, strays, submission, typed, confirmed, used>>
  BY PageFacts DEF init, On, Goes, Loading
<1>2. /\ screen' \in Screen /\ screen'.page = page /\ screen'.closed = screen.closed
      /\ screen'.phase = IF screen.closed THEN "finished" ELSE "ready"
  BY <1>1 DEF AutosaveTypeOK, Screen, Phase, page
<1>3. /\ kept \in [Items -> Datum] /\ screen.answers \in [Items -> Datum]
      /\ \A i \in Items : kept[i] # Nothing => kept[i] = drafts[i]
      /\ ~screen.closed => kept = drafts
      /\ screen.closed => kept = Empty
  BY DEF AutosaveTypeOK, Screen, Empty, Datum
<1> DEFINE fresh(i) == IF Local(i, kept)
             THEN [NoEntry EXCEPT !.value = kept[i], !.dirty = TRUE, !.localOnly = TRUE, !.active = TRUE]
             ELSE [NoEntry EXCEPT !.value = screen.answers[i], !.active = TRUE]
<1>4. entries' = [entries EXCEPT ![page] = [i \in Items |-> fresh(i)]]
  BY DEF init
<1> HIDE DEF kept
<1>5. \A i \in Items :
        /\ fresh(i) \in Entry /\ ~fresh(i).timer /\ fresh(i).active /\ fresh(i).state = "idle"
        /\ fresh(i).value = IF kept[i] # Nothing THEN kept[i] ELSE screen.answers[i]
        /\ fresh(i).dirty <=> kept[i] # Nothing
  BY <1>3 DEF NoEntry, Entry, Local, Datum
<1> HIDE DEF fresh
<1>6. \A p \in Pages, i \in Items :
        entries'[p][i] = IF p = page THEN fresh(i) ELSE entries[p][i]
  BY <1>1, <1>4 DEF AutosaveTypeOK
<1>7. AutosaveTypeOK'
  <2>1. entries' \in [Pages -> [Items -> Entry]]
    BY <1>1, <1>4, <1>5 DEF AutosaveTypeOK
  <2>2. \A p \in Pages, i \in Items : entries'[p][i].timer => entries'[p][i].active
    BY <1>5, <1>6 DEF AutosaveTypeOK
  <2> QED
    BY <1>1, <1>2, <1>3, <2>1, <2>2 DEF AutosaveTypeOK, Watch
<1>8. PagesInv'
  BY <1>1, <1>2, <1>5, <1>6, SlotFacts DEF PagesInv, PageOK, Waits, Shown, Loading, page, Pages
<1>9. SavesInv' /\ ClosedInv' /\ StraysFinite'
  BY <1>1, <1>2, <1>6, SlotFacts
  DEF PagesInv, PageOK, SavesInv, SaveOK, ClosedInv, StraysFinite, StraysOf, Waits, Current, On, page, Loading
<1>10. DraftsInv'
  BY <1>1, <1>2, <1>3 DEF DraftsInv, DraftOK, ClosedInv, On
<1>11. AgreeInv'
  <2> SUFFICES ASSUME NEW i \in Items, i \notin crowded'
               PROVE  Alone(i)' /\ (~closed' => Agree(i)')
    BY DEF AgreeInv
  <2>1. i \notin crowded /\ Alone(i) /\ (~closed => Agree(i))
    BY <1>9, WatchFacts DEF AgreeInv
  <2>2. StraysOf(i) = {} /\ StraysOf(i)' = {} /\ \A p \in Pages : ~Waits(p, i)
    BY <1>1, <2>1 DEF Alone, Loading, StraysOf
  <2>3. Alone(i)'
    BY <1>1, <2>2 DEF Alone, Waits
  <2>4. ASSUME ~closed PROVE Agree(i)'
    <3>1. Agree(i) /\ ~screen.closed
      BY <2>1, <2>4 DEF ClosedInv
    <3>2. screen'.phase = "ready" /\ drafts'[i] = drafts[i] /\ kept[i] = drafts[i]
      BY <1>1, <1>2, <1>3, <3>1
    <3>3. \A p \in Pages : saves[p][i].phase = "none"
      BY <2>2 DEF Waits
    <3>4. screen.answers[i] = stored[i] /\ drafts[i] \in {Nothing, typed[i]}
          /\ (drafts[i] = Nothing => stored[i] = typed[i])
      BY <1>1, <3>1 DEF Agree, On, DraftsInv, DraftOK
    <3> QED
      BY <1>1, <1>2, <1>5, <1>6, <2>2, <3>2, <3>3, <3>4 DEF Agree, Waits, On, Shown, page
  <2> QED
    BY <1>1, <2>3, <2>4
<1> QED
  BY <1>7, <1>8, <1>9, <1>10, <1>11

\* disposeEntries leaves everything but the timer and the use of an entry.
LEMMA DisposedFacts ==
  ASSUME AutosaveTypeOK, NEW pages, entries' = Disposed(pages)
  PROVE  /\ entries' \in [Pages -> [Items -> Entry]]
         /\ \A p \in Pages, i \in Items :
              /\ p \in pages => ~entries'[p][i].timer /\ ~entries'[p][i].active
              /\ p \notin pages => entries'[p][i] = entries[p][i]
              /\ entries'[p][i].state = entries[p][i].state
              /\ entries'[p][i].dirty = entries[p][i].dirty
              /\ entries'[p][i].value = entries[p][i].value
              /\ entries'[p][i].revision = entries[p][i].revision
<1>1. \A p \in Pages, i \in Items : entries[p][i] \in Entry
  BY DEF AutosaveTypeOK
<1>2. \A e \in Entry :
        LET d == [e EXCEPT !.timer = FALSE, !.active = FALSE]
        IN  /\ d \in Entry /\ ~d.timer /\ ~d.active
            /\ d.state = e.state /\ d.dirty = e.dirty /\ d.value = e.value /\ d.revision = e.revision
  BY DEF Entry
<1>3. \A p \in Pages, i \in Items :
        entries'[p][i] = IF p \in pages THEN [entries[p][i] EXCEPT !.timer = FALSE, !.active = FALSE]
                         ELSE entries[p][i]
  BY DEF Disposed
<1>4. entries' = [p \in Pages |-> [i \in Items |-> entries'[p][i]]]
  BY DEF Disposed, AutosaveTypeOK
<1>5. \A p \in Pages, i \in Items : entries'[p][i] \in Entry
  BY <1>1, <1>2, <1>3
<1>6. entries' \in [Pages -> [Items -> Entry]]
  <2> DEFINE new(p, i) == entries'[p][i]
  <2>1. \A p \in Pages, i \in Items : new(p, i) \in Entry
    BY <1>5
  <2>2. entries' = [p \in Pages |-> [i \in Items |-> new(p, i)]]
    BY <1>4
  <2> HIDE DEF new
  <2> QED
    BY <2>1, <2>2
<1>7. ASSUME NEW p \in Pages, NEW i \in Items
      PROVE  /\ p \in pages => ~entries'[p][i].timer /\ ~entries'[p][i].active
             /\ p \notin pages => entries'[p][i] = entries[p][i]
             /\ entries'[p][i].state = entries[p][i].state
             /\ entries'[p][i].dirty = entries[p][i].dirty
             /\ entries'[p][i].value = entries[p][i].value
             /\ entries'[p][i].revision = entries[p][i].revision
  <2>1. entries[p][i] \in Entry
    BY <1>1
  <2>2. CASE p \in pages
    <3>1. entries'[p][i] = [entries[p][i] EXCEPT !.timer = FALSE, !.active = FALSE]
      BY <1>3, <2>2
    <3> QED
      BY <2>1, <2>2, <3>1 DEF Entry
  <2>3. CASE p \notin pages
    BY <1>3, <2>3
  <2> QED
    BY <2>2, <2>3
<1> QED
  BY <1>6, <1>7

LEMMA LeaveStep ==
  ASSUME AutosaveIInv, Leave, Watch
  PROVE  AutosaveIInv'
<1> USE DEF AutosaveIInv
<1>1. /\ screen.phase \in Shown \cup Loading
      /\ screen' = [screen EXCEPT !.phase = "away"] /\ entries' = Disposed({page})
      /\ UNCHANGED <<stored, closed, saves, strays, drafts, submission, typed, confirmed, used>>
  BY DEF Leave, Goes, Shown, Loading
<1>2. screen' \in Screen /\ screen'.page = page /\ screen'.closed = screen.closed /\ screen'.phase = "away"
  BY <1>1 DEF AutosaveTypeOK, Screen, Phase, page
<1>3. /\ entries' \in [Pages -> [Items -> Entry]]
      /\ \A p \in Pages, i \in Items :
           /\ p = page => ~entries'[p][i].timer /\ ~entries'[p][i].active
           /\ p # page => entries'[p][i] = entries[p][i]
           /\ entries'[p][i].state = entries[p][i].state
           /\ entries'[p][i].dirty = entries[p][i].dirty
           /\ entries'[p][i].value = entries[p][i].value
           /\ entries'[p][i].revision = entries[p][i].revision
  <2> DEFINE left == {page}
  <2>1. AutosaveTypeOK /\ entries' = Disposed(left)
    BY <1>1
  <2>2. \A p : p \in left <=> p = page
    OBVIOUS
  <2> HIDE DEF AutosaveIInv, left
  <2>3. /\ entries' \in [Pages -> [Items -> Entry]]
        /\ \A p \in Pages, i \in Items :
             /\ p \in left => ~entries'[p][i].timer /\ ~entries'[p][i].active
             /\ p \notin left => entries'[p][i] = entries[p][i]
             /\ entries'[p][i].state = entries[p][i].state
             /\ entries'[p][i].dirty = entries[p][i].dirty
             /\ entries'[p][i].value = entries[p][i].value
             /\ entries'[p][i].revision = entries[p][i].revision
    BY <2>1, DisposedFacts
  <2> QED
    BY <2>2, <2>3
<1>7. AutosaveTypeOK'
  BY <1>1, <1>2, <1>3 DEF AutosaveTypeOK, Watch
<1>4. PagesInv'
  BY ZenonT(30), <1>1, <1>2, <1>3, SlotFacts DEF PagesInv, PageOK, Waits, Shown, Loading, page
<1>5. SavesInv' /\ ClosedInv' /\ DraftsInv' /\ StraysFinite'
  <2>1. ASSUME NEW p \in Pages, NEW i \in Items PROVE SaveOK(p, i)'
    <3>1. SaveOK(p, i) /\ saves'[p][i] = saves[p][i]
      BY <1>1 DEF SavesInv
    <3>2. /\ entries'[p][i].state = entries[p][i].state
          /\ entries'[p][i].dirty = entries[p][i].dirty
          /\ entries'[p][i].value = entries[p][i].value
          /\ entries'[p][i].revision = entries[p][i].revision
      BY <1>3
    <3> HIDE DEF AutosaveIInv
    <3> QED
      BY <3>1, <3>2 DEF SaveOK, Waits, Current
  <2> QED
    BY <1>1, <1>2, <2>1 DEF SavesInv, ClosedInv, DraftsInv, DraftOK, StraysFinite, StraysOf, On
<1>6. AgreeInv'
  BY <1>1, <1>2, <1>5, WatchFacts DEF AgreeInv, Alone, Agree, Waits, StraysOf, On, Shown, Loading, page
<1> QED
  BY <1>4, <1>5, <1>6, <1>7

\* The saves a closing tab gives up: finitely many of a question.
LEMMA GivenUpFinite ==
  ASSUME StraysFinite, NEW i \in Items, NEW T,
         NEW value, NEW no,
         \A s \in T : s \in strays \/ \E p \in Pages : s = [item |-> i, value |-> value[p], no |-> no],
         \A s \in T : s.item = i
  PROVE  IsFiniteSet(T)
<1> DEFINE f == [p \in Pages |-> [item |-> i, value |-> value[p], no |-> no]]
           S == {s \in T : \E p \in Pages : s = f[p]}
           dom == {p \in Pages : f[p] \in T}
<1>1. IsFiniteSet(Pages)
  BY AutosaveAssumption, FS_Interval DEF Pages
<1>2. IsFiniteSet(dom)
  BY <1>1, FS_Subset
<1>3. [p \in dom |-> f[p]] \in Surjection(dom, S)
  BY DEF Surjection
<1>4. IsFiniteSet(S)
  <2> HIDE DEF S, f, dom
  <2> QED
    BY <1>2, <1>3, FS_Surjection
<1>5. T \subseteq S \cup StraysOf(i)
  BY DEF StraysOf
<1>6. IsFiniteSet(StraysOf(i))
  BY DEF StraysFinite
<1> HIDE DEF S
<1>7. IsFiniteSet(S \cup StraysOf(i))
  BY <1>4, <1>6, FS_Union
<1> QED
  BY <1>5, <1>7, FS_Subset

LEMMA CloseTabStep ==
  ASSUME AutosaveIInv, CloseTab, Watch
  PROVE  AutosaveIInv'
<1> USE DEF AutosaveIInv
<1> DEFINE given(p, i) == [item |-> i, value |-> saves[p][i].value, no |-> used.failures]
<1>1. /\ screen.phase # "finished" /\ screen' = [screen EXCEPT !.phase = "away"]
      /\ entries' = [p \in Pages |-> [i \in Items |-> NoEntry]]
      /\ saves' = [p \in Pages |-> [i \in Items |-> NoSave]]
      /\ submission' = [submission EXCEPT !.phase = "none"]
      /\ used' = [used EXCEPT !.failures = @ + 1]
      /\ UNCHANGED <<stored, closed, drafts, typed, confirmed>>
  BY DEF CloseTab, Goes
<1>2. screen' \in Screen /\ screen'.page = page /\ screen'.closed = screen.closed /\ screen'.phase = "away"
  BY <1>1 DEF AutosaveTypeOK, Screen, Phase, page
<1>3. submission' \in Submission /\ submission'.phase = "none" /\ used' \in [edits : Nat, failures : Nat]
  <2>1. submission \in Submission /\ used \in [edits : Nat, failures : Nat]
    BY DEF AutosaveTypeOK
  <2>2. submission' \in Submission /\ submission'.phase = "none"
    BY <1>1, <2>1 DEF Submission
  <2> QED
    BY <1>1, <2>1, <2>2
<1>4. /\ \A s \in strays' : s \in strays \/ \E p \in Pages, i \in Items :
                              saves[p][i].phase = "sent" /\ s = given(p, i)
      /\ strays \subseteq strays'
  BY DEF CloseTab
<1>5. \A p \in Pages, i \in Items : given(p, i).item = i /\ given(p, i) \in [item : Items, value : Datum, no : Nat]
  BY SlotFacts DEF AutosaveTypeOK
<1>6. AutosaveTypeOK'
  <2>1. NoEntry \in Entry /\ ~NoEntry.timer /\ NoSave \in Save
    BY DEF NoEntry, NoSave, Entry, Save, Datum
  <2>2. \A s \in strays' : s \in [item : Items, value : Datum, no : Nat]
    BY <1>4, <1>5 DEF AutosaveTypeOK
  <2> HIDE DEF given
  <2> QED
    BY <1>1, <1>2, <1>3, <2>1, <2>2 DEF AutosaveTypeOK, Watch
<1>7. PagesInv' /\ SavesInv' /\ ClosedInv' /\ DraftsInv'
  BY <1>1, <1>2, <1>3
  DEF PagesInv, PageOK, SavesInv, SaveOK, ClosedInv, DraftsInv, DraftOK, NoEntry, NoSave, Waits, On, Shown, Loading
<1>8. StraysFinite'
  <2> SUFFICES ASSUME NEW i \in Items PROVE IsFiniteSet(StraysOf(i)')
    BY DEF StraysFinite
  <2> DEFINE value == [p \in Pages |-> saves[p][i].value]
  <2>1. \A s \in StraysOf(i)' : s.item = i /\ s \in strays'
    BY DEF StraysOf
  <2>2. \A s \in StraysOf(i)' :
          s \in strays \/ \E p \in Pages : s = [item |-> i, value |-> value[p], no |-> used.failures]
    BY <1>4, <1>5, <2>1
  <2> HIDE DEF value
  <2> QED
    BY <2>1, <2>2, GivenUpFinite
<1>9. AgreeInv'
  <2> SUFFICES ASSUME NEW i \in Items, i \notin crowded'
               PROVE  Alone(i)' /\ (~closed' => Agree(i)')
    BY DEF AgreeInv
  <2>1. i \notin crowded /\ (~closed => Agree(i))
    BY <1>8, WatchFacts DEF AgreeInv
  <2>2. \A p \in Pages : saves'[p][i].phase = "none"
    BY <1>1 DEF NoSave
  <2>3. StraysOf(i)' # {} => StraysOf(i) # {} \/ \E p \in Pages : Waits(p, i)
    BY <1>4, <1>5 DEF StraysOf, Waits
  <2> QED
    BY <1>1, <1>2, <2>1, <2>2, <2>3 DEF Alone, Agree, Waits, On, Shown, Loading
<1> QED
  BY <1>6, <1>7, <1>8, <1>9

-----------------------------------------------------------------------------
(* The learner enters an answer, and it is sent                            *)

\* An entry after setAnswer.
Edited(e, v, timer) ==
  [e EXCEPT !.value = v, !.revision = @ + 1, !.dirty = TRUE, !.localOnly = TRUE, !.timer = timer]

LEMMA EditedFacts ==
  ASSUME NEW e \in Entry, NEW v \in Datum, NEW timer \in BOOLEAN
  PROVE  LET new == Edited(e, v, timer)
         IN  /\ new \in Entry /\ new.value = v /\ new.revision = e.revision + 1
             /\ new.dirty = TRUE /\ new.localOnly = TRUE /\ new.active = e.active /\ new.state = e.state
<1> DEFINE new == Edited(e, v, timer)
           old == [e EXCEPT !.value = v, !.dirty = TRUE, !.localOnly = TRUE, !.timer = timer]
           next == [old EXCEPT !.revision = @ + 1]
<1>1. old \in Entry /\ old.revision = e.revision
  BY DEF Entry
<1>2. next \in Entry
  <2> HIDE DEF old
  <2> QED
    BY <1>1 DEF Entry
<1>3. next = new
  BY <1>1 DEF Entry, Edited
<1>4. /\ new.value = v /\ new.revision = e.revision + 1
      /\ new.dirty = TRUE /\ new.localOnly = TRUE /\ new.active = e.active /\ new.state = e.state
  BY DEF Entry, Edited
<1> QED
  BY <1>2, <1>3, <1>4

LEMMA EditStep ==
  ASSUME AutosaveIInv, NEW i \in Items, NEW v \in Answers, Edit(i, v), Watch
  PROVE  AutosaveIInv'
<1> DEFINE e == entries[page][i]
           timer == e.timer \/ saves[page][i].phase = "none"
           new == Edited(e, v, timer)
<1> USE DEF AutosaveIInv
<1>1. /\ screen.phase = "ready" /\ page \in Pages /\ screen.page = page
      /\ entries' = [entries EXCEPT ![page][i] = new]
      /\ drafts' = [drafts EXCEPT ![i] = v] /\ typed' = [typed EXCEPT ![i] = v]
      /\ confirmed' = [confirmed EXCEPT ![i] = FALSE]
      /\ used' = [used EXCEPT !.edits = @ + 1]
      /\ UNCHANGED <<stored, closed, screen, saves, strays, submission>>
  BY PageFacts DEF Edit, Edited, On, Shown, page
<1>2. e \in Entry /\ e.active
  BY <1>1, SlotFacts DEF PagesInv, PageOK, Shown
<1>3. /\ new \in Entry /\ new.value = v /\ new.revision = e.revision + 1 /\ new.dirty = TRUE /\ new.localOnly = TRUE
      /\ new.active /\ new.state = e.state
  <2>1. timer \in BOOLEAN /\ v \in Datum
    BY DEF Datum
  <2> HIDE DEF e, timer
  <2> QED
    BY <1>2, <2>1, EditedFacts
<1> HIDE DEF new
<1>4. /\ entries' \in [Pages -> [Items -> Entry]]
      /\ \A p \in Pages, j \in Items :
           entries'[p][j] = IF p = page /\ j = i THEN new ELSE entries[p][j]
  BY <1>1, <1>3 DEF AutosaveTypeOK
<1>5. /\ drafts' \in [Items -> Datum] /\ typed' \in [Items -> Datum] /\ confirmed' \in [Items -> BOOLEAN]
      /\ \A j \in Items : /\ drafts'[j] = IF j = i THEN v ELSE drafts[j]
                          /\ typed'[j] = IF j = i THEN v ELSE typed[j]
                          /\ confirmed'[j] = IF j = i THEN FALSE ELSE confirmed[j]
  BY <1>1 DEF AutosaveTypeOK, Datum
<1>6. AutosaveTypeOK'
  <2>1. used' \in [edits : Nat, failures : Nat]
    BY <1>1 DEF AutosaveTypeOK
  <2>2. \A p \in Pages, j \in Items : entries'[p][j].timer => entries'[p][j].active
    BY <1>3, <1>4 DEF AutosaveTypeOK
  <2> QED
    BY <1>1, <1>4, <1>5, <2>1, <2>2 DEF AutosaveTypeOK, Watch
<1>7. PagesInv'
  BY <1>1, <1>3, <1>4 DEF PagesInv, PageOK, Waits, Shown, Loading, page
<1>8. SavesInv'
  <2> SUFFICES ASSUME NEW p \in Pages, NEW j \in Items, Waits(p, j)'
               PROVE  SaveOK(p, j)'
    BY DEF SavesInv, SaveOK
  <2>1. SaveOK(p, j) /\ Waits(p, j) /\ saves'[p][j] = saves[p][j]
    BY <1>1 DEF SavesInv, Waits
  <2>2. entries[p][j].revision \in Nat /\ saves[p][j].revision \in Nat
    BY SlotFacts
  <2>3. CASE p = page /\ j = i
    BY <1>3, <1>4, <2>1, <2>2, <2>3 DEF SaveOK, Waits, Current
  <2>4. CASE ~(p = page /\ j = i)
    <3>1. entries'[p][j] = entries[p][j]
      BY <1>4, <2>4
    <3> QED
      BY <2>1, <3>1 DEF SaveOK, Waits, Current
  <2> QED
    BY <2>3, <2>4
<1>9. ClosedInv' /\ DraftsInv' /\ StraysFinite'
  BY <1>1, <1>5 DEF ClosedInv, DraftsInv, DraftOK, StraysFinite, StraysOf, On
<1>10. AgreeInv'
  <2> SUFFICES ASSUME NEW j \in Items, j \notin crowded'
               PROVE  Alone(j)' /\ (~closed' => Agree(j)')
    BY DEF AgreeInv
  <2>1. j \notin crowded /\ Alone(j) /\ (~closed => Agree(j))
    BY <1>9, WatchFacts DEF AgreeInv
  <2>2. StraysOf(j)' = StraysOf(j)
    BY <1>1 DEF StraysOf
  <2>3. Alone(j)'
    BY <1>1, <2>1, <2>2 DEF Alone, Waits, page
  <2>4. ASSUME ~closed PROVE Agree(j)'
    <3>1. Agree(j) /\ stored' = stored /\ saves' = saves /\ screen' = screen
      BY <1>1, <2>1, <2>4
    <3>2. CASE j # i
      BY <1>1, <1>4, <1>5, <2>2, <3>1, <3>2 DEF Agree, Waits, On, page
    <3>3. CASE j = i
      <4>1. drafts'[j] = v /\ typed'[j] = v /\ v # Nothing
        BY <1>5, <3>3, AutosaveAssumption
      <4>2. entries'[page][j] = new
        BY <1>1, <1>4, <3>3
      <4>3. StraysOf(j) # {} => new.state # "saved"
        BY <1>1, <1>3, <3>1, <3>3 DEF Agree, Shown
      <4> QED
        BY <1>1, <1>3, <2>2, <3>1, <4>1, <4>2, <4>3 DEF Agree, Waits, On, Shown, page
    <3> QED
      BY <3>2, <3>3
  <2> QED
    BY <1>1, <2>3, <2>4
<1> QED
  BY <1>6, <1>7, <1>8, <1>9, <1>10

\* What a save of some questions does to one entry and its save.
LEMMA SaveAllFacts ==
  ASSUME AutosaveTypeOK, NEW p \in Pages, NEW items \in SUBSET Items, NEW es \in [Items -> Entry],
         SaveAll(p, items, es)
  PROVE  /\ entries' \in [Pages -> [Items -> Entry]] /\ saves' \in [Pages -> [Items -> Save]]
         /\ \A q \in Pages, j \in Items :
              /\ q # p => entries'[q][j] = entries[q][j] /\ saves'[q][j] = saves[q][j]
              /\ j \notin items \/ ~Saveable(p, j) =>
                   entries'[p][j] = es[j] /\ saves'[p][j] = saves[p][j]
              /\ j \in items /\ Saveable(p, j) =>
                   entries'[p][j] = Saving(es[j]) /\ saves'[p][j] = Sent(es[j])
<1> DEFINE due == {i \in items : Saveable(p, i)}
           entry == [i \in Items |-> IF i \in due THEN Saving(es[i]) ELSE es[i]]
           save == [i \in Items |-> IF i \in due THEN Sent(es[i]) ELSE saves[p][i]]
<1>1. entries' = [entries EXCEPT ![p] = entry] /\ saves' = [saves EXCEPT ![p] = save]
  BY DEF SaveAll
<1>2. \A e \in Entry : Saving(e) \in Entry /\ Sent(e) \in Save
  BY DEF Saving, Sent, Entry, Save
<1>3. entry \in [Items -> Entry] /\ save \in [Items -> Save]
  BY <1>2 DEF AutosaveTypeOK
<1>4. \A j \in Items : /\ entry[j] = IF j \in items /\ Saveable(p, j) THEN Saving(es[j]) ELSE es[j]
                       /\ save[j] = IF j \in items /\ Saveable(p, j) THEN Sent(es[j]) ELSE saves[p][j]
  OBVIOUS
<1> HIDE DEF entry, save
<1> QED
  BY <1>1, <1>3, <1>4 DEF AutosaveTypeOK

\* Saves begin, of what the opening on the screen has and the server was not sent.
LEMMA SavesBegin ==
  ASSUME AutosaveIInv, Watch, screen.phase \in Shown, page \in Pages,
         NEW items \in SUBSET Items, NEW es \in [Items -> Entry], SaveAll(page, items, es),
         \A j \in Items : \E timer \in BOOLEAN :
           /\ es[j] = [entries[page][j] EXCEPT !.timer = timer]
           /\ timer => entries[page][j].timer,
         screen' \in Screen, screen'.page = page, screen'.closed = screen.closed, screen'.phase \in Shown,
         UNCHANGED <<stored, closed, strays, drafts, submission, typed, confirmed, used>>
  PROVE  AutosaveIInv'
<1> USE DEF AutosaveIInv
<1> DEFINE Begins(q, j) ==
             /\ q = page /\ saves[q][j].phase = "none" /\ entries[q][j].dirty
             /\ saves'[q][j].phase = "sent" /\ saves'[q][j].value = entries[q][j].value
             /\ saves'[q][j].revision = entries[q][j].revision
             /\ entries'[q][j].state = "saving" /\ ~entries'[q][j].dirty
           Stays(q, j) ==
             /\ saves'[q][j] = saves[q][j]
             /\ entries'[q][j].state = entries[q][j].state
             /\ entries'[q][j].dirty = entries[q][j].dirty
           Same(q, j) ==
             /\ entries'[q][j].value = entries[q][j].value
             /\ entries'[q][j].revision = entries[q][j].revision
             /\ entries'[q][j].active = entries[q][j].active
             /\ entries'[q][j].localOnly = entries[q][j].localOnly
             /\ entries'[q][j].timer => entries[q][j].timer
<1>1. /\ entries' \in [Pages -> [Items -> Entry]] /\ saves' \in [Pages -> [Items -> Save]]
      /\ \A q \in Pages, j \in Items :
           /\ q # page => entries'[q][j] = entries[q][j] /\ saves'[q][j] = saves[q][j]
           /\ j \notin items \/ ~Saveable(page, j) =>
                entries'[page][j] = es[j] /\ saves'[page][j] = saves[page][j]
           /\ j \in items /\ Saveable(page, j) =>
                entries'[page][j] = Saving(es[j]) /\ saves'[page][j] = Sent(es[j])
  <2>1. AutosaveTypeOK
    OBVIOUS
  <2> HIDE DEF AutosaveIInv
  <2> QED
    BY ZenonT(30), <2>1, SaveAllFacts
<1>2. ASSUME NEW q \in Pages, NEW j \in Items
      PROVE  Same(q, j) /\ (Begins(q, j) \/ Stays(q, j))
  <2>1. CASE q # page
    BY <1>1, <2>1
  <2>2. CASE q = page
    <3>1. PICK timer \in BOOLEAN : /\ es[j] = [entries[page][j] EXCEPT !.timer = timer]
                                   /\ timer => entries[page][j].timer
      OBVIOUS
    <3>2. entries[page][j] \in Entry /\ es[j] \in Entry
      BY SlotFacts
    <3>3. /\ es[j].value = entries[page][j].value /\ es[j].revision = entries[page][j].revision
          /\ es[j].active = entries[page][j].active /\ es[j].localOnly = entries[page][j].localOnly
          /\ es[j].state = entries[page][j].state /\ es[j].dirty = entries[page][j].dirty
          /\ es[j].timer => entries[page][j].timer
      BY <3>1, <3>2 DEF Entry
    <3>4. CASE j \in items /\ Saveable(page, j)
      <4>1. entries'[q][j] = Saving(es[j]) /\ saves'[q][j] = Sent(es[j])
        BY <1>1, <2>2, <3>4
      <4> QED
        BY <2>2, <3>2, <3>3, <3>4, <4>1 DEF Saveable, Saving, Sent, Entry
    <3>5. CASE ~(j \in items /\ Saveable(page, j))
      <4>1. entries'[q][j] = es[j] /\ saves'[q][j] = saves[q][j]
        BY <1>1, <2>2, <3>5
      <4> QED
        BY <2>2, <3>3, <4>1
    <3> QED
      BY <3>4, <3>5
  <2> QED
    BY <2>1, <2>2
<1>3. AutosaveTypeOK'
  <2>1. \A q \in Pages, j \in Items : entries'[q][j].timer => entries'[q][j].active
    BY <1>2 DEF AutosaveTypeOK
  <2> HIDE DEF Begins, Stays, Same
  <2> QED
    BY <1>1, <2>1 DEF AutosaveTypeOK, Watch
<1>4. PagesInv'
  BY <1>2, SlotFacts DEF PagesInv, PageOK, Waits, Shown, Loading, page
<1>5. SavesInv'
  <2> SUFFICES ASSUME NEW q \in Pages, NEW j \in Items PROVE SaveOK(q, j)'
    BY DEF SavesInv
  <2>1. SaveOK(q, j) /\ entries[q][j].revision \in Nat
    BY SlotFacts DEF SavesInv
  <2>2. Same(q, j) /\ (Begins(q, j) \/ Stays(q, j))
    BY <1>2
  <2> QED
    BY <2>1, <2>2 DEF SaveOK, Waits, Current
<1>6. ClosedInv' /\ DraftsInv' /\ StraysFinite'
  BY DEF ClosedInv, DraftsInv, DraftOK, StraysFinite, StraysOf, On, Shown
<1>7. AgreeInv'
  <2> SUFFICES ASSUME NEW j \in Items, j \notin crowded'
               PROVE  Alone(j)' /\ (~closed' => Agree(j)')
    BY DEF AgreeInv
  <2>1. /\ j \notin crowded /\ Alone(j) /\ (~closed => Agree(j))
        /\ \A q \in Pages : Waits(q, j)' => StraysOf(j)' = {}
    BY <1>6, WatchFacts DEF AgreeInv
  <2>2. StraysOf(j)' = StraysOf(j)
    BY DEF StraysOf
  <2>3. Alone(j)'
    BY <1>2, <2>1, <2>2 DEF Alone, Waits, page, Shown, Loading
  <2>4. ASSUME ~closed PROVE Agree(j)'
    <3>1. Agree(j)
      BY <2>1, <2>4
    <3>2. drafts'[j] = Nothing => stored'[j] = typed'[j]
      BY <3>1 DEF Agree
    <3>3. StraysOf(j)' # {} => drafts'[j] # Nothing
      BY <2>2, <3>1 DEF Agree
    <3>4. screen'.phase # "given"
      BY DEF Shown
    <3>5. ASSUME NEW q \in Pages
          PROVE  /\ Waits(q, j)' => drafts'[j] # Nothing
                 /\ saves'[q][j].phase = "kept" => stored'[j] = saves'[q][j].value
                 /\ q = page' =>
                      /\ entries'[q][j].value = typed'[j]
                      /\ entries'[q][j].dirty => drafts'[j] # Nothing
                      /\ StraysOf(j)' # {} => entries'[q][j].state # "saved"
                      /\ entries'[q][j].state = "saved" /\ ~entries'[q][j].localOnly
                           => stored'[j] = entries'[q][j].value
      <4>1. Same(q, j) /\ (Begins(q, j) \/ Stays(q, j)) /\ page' = page
        BY <1>2 DEF page
      <4> HIDE DEF AutosaveIInv
      <4> QED
        BY <2>2, <3>1, <4>1 DEF Agree, Waits
    <3> QED
      BY <3>2, <3>3, <3>4, <3>5 DEF Agree, On
  <2> QED
    BY <2>3, <2>4
<1> QED
  BY <1>3, <1>4, <1>5, <1>6, <1>7

LEMMA TimerStep ==
  ASSUME AutosaveIInv, NEW p \in Pages, NEW i \in Items, TimerFires(p, i), Watch
  PROVE  AutosaveIInv'
<1> USE DEF AutosaveIInv
<1> DEFINE es == [entries[p] EXCEPT ![i].timer = FALSE]
<1>1. /\ entries[p][i].timer /\ SaveAll(p, {i}, es)
      /\ UNCHANGED <<stored, closed, screen, strays, drafts, submission, typed, confirmed, used>>
  BY DEF TimerFires
<1>2. p = page /\ screen.phase \in Shown
  BY <1>1 DEF PagesInv, PageOK
<1>3. ASSUME NEW j \in Items
      PROVE  es[j] \in Entry /\ \E timer \in BOOLEAN : /\ es[j] = [entries[page][j] EXCEPT !.timer = timer]
                                                       /\ timer => entries[page][j].timer
  <2>1. entries[p][j] \in Entry /\ entries[p] \in [Items -> Entry]
    BY DEF AutosaveTypeOK
  <2>2. CASE j = i
    <3>1. es[j] = [entries[page][j] EXCEPT !.timer = FALSE]
      BY <1>2, <2>1, <2>2
    <3> QED
      BY <1>2, <2>1, <3>1 DEF Entry
  <2>3. CASE j # i
    <3>1. es[j] = entries[page][j]
      BY <1>2, <2>1, <2>3
    <3>2. entries[page][j] = [entries[page][j] EXCEPT !.timer = entries[page][j].timer]
      BY <1>2, <2>1 DEF Entry
    <3>3. entries[page][j].timer \in BOOLEAN
      BY <1>2, <2>1 DEF Entry
    <3> QED
      BY <2>1, <1>2, <3>1, <3>2, <3>3
  <2> QED
    BY <2>2, <2>3
<1>4. es \in [Items -> Entry]
  BY <1>3 DEF AutosaveTypeOK
<1>5. screen' \in Screen /\ screen'.page = page /\ screen'.closed = screen.closed /\ screen'.phase \in Shown
  BY <1>1, <1>2 DEF AutosaveTypeOK, page
<1> HIDE DEF es
<1> QED
  BY ZenonT(30), <1>1, <1>2, <1>3, <1>4, <1>5, SavesBegin

LEMMA RetryStep ==
  ASSUME AutosaveIInv, retryFailed, Watch
  PROVE  AutosaveIInv'
<1> USE DEF AutosaveIInv
<1> DEFINE items == {i \in Items : entries[page][i].state = "error"}
           es == entries[page]
<1>1. /\ screen.phase = "ready" /\ page \in Pages /\ SaveAll(page, items, es)
      /\ UNCHANGED <<stored, closed, screen, strays, drafts, submission, typed, confirmed, used>>
  BY PageFacts DEF retryFailed, On, Shown
<1>2. es \in [Items -> Entry] /\ items \in SUBSET Items
  BY <1>1 DEF AutosaveTypeOK
<1>3. \A j \in Items : \E timer \in BOOLEAN :
        es[j] = [entries[page][j] EXCEPT !.timer = timer] /\ (timer => entries[page][j].timer)
  <2> SUFFICES ASSUME NEW j \in Items
               PROVE  \E timer \in BOOLEAN : /\ es[j] = [entries[page][j] EXCEPT !.timer = timer]
                                             /\ timer => entries[page][j].timer
    OBVIOUS
  <2>1. es[j] \in Entry
    BY <1>2
  <2>2. es[j] = [es[j] EXCEPT !.timer = es[j].timer] /\ es[j].timer \in BOOLEAN
    BY <2>1 DEF Entry
  <2> QED
    BY <2>2
<1>4. screen' \in Screen /\ screen'.page = page /\ screen'.closed = screen.closed /\ screen'.phase \in Shown
  BY <1>1 DEF AutosaveTypeOK, page, Shown
<1> HIDE DEF es, items
<1>5. screen.phase \in Shown
  BY <1>1 DEF Shown
<1> QED
  BY <1>1, <1>2, <1>3, <1>4, <1>5, SavesBegin DEF es

LEMMA ConfirmStep ==
  ASSUME AutosaveIInv, openConfirm, Watch
  PROVE  AutosaveIInv'
<1> USE DEF AutosaveIInv
<1> DEFINE es == TimersStopped(page)
<1>1. /\ screen.phase = "ready" /\ page \in Pages /\ SaveAll(page, Items, es)
      /\ screen' = [screen EXCEPT !.phase = "confirming"]
      /\ UNCHANGED <<stored, closed, strays, drafts, submission, typed, confirmed, used>>
  BY PageFacts DEF openConfirm, On, Goes, Shown
<1>2. \A j \in Items : entries[page][j] \in Entry /\ es[j] = [entries[page][j] EXCEPT !.timer = FALSE]
  BY <1>1, SlotFacts DEF TimersStopped
<1>3. es \in [Items -> Entry]
  <2>1. \A j \in Items : es[j] \in Entry
    <3> SUFFICES ASSUME NEW j \in Items PROVE es[j] \in Entry
      OBVIOUS
    <3> HIDE DEF es
    <3> QED
      BY <1>2 DEF Entry
  <2> QED
    BY <2>1 DEF TimersStopped
<1>4. screen' \in Screen /\ screen'.page = page /\ screen'.closed = screen.closed /\ screen'.phase \in Shown
  BY <1>1 DEF AutosaveTypeOK, Screen, Phase, page, Shown
<1> HIDE DEF es
<1>5. screen.phase \in Shown /\ Items \in SUBSET Items
  BY <1>1 DEF Shown
<1>6. \A j \in Items : \E timer \in BOOLEAN :
        es[j] = [entries[page][j] EXCEPT !.timer = timer] /\ (timer => entries[page][j].timer)
  BY <1>2
<1> QED
  BY <1>1, <1>3, <1>4, <1>5, <1>6, SavesBegin

-----------------------------------------------------------------------------
(* The server and the network                                              *)

LEMMA ServerSavesStep ==
  ASSUME AutosaveIInv, NEW p \in Pages, NEW i \in Items, ServerSaves(p, i), Watch
  PROVE  AutosaveIInv'
<1> USE DEF AutosaveIInv
<1> DEFINE outcome == IF closed THEN "refused" ELSE "kept"
<1>1. /\ saves[p][i].phase = "sent"
      /\ stored' = IF closed THEN stored ELSE [stored EXCEPT ![i] = saves[p][i].value]
      /\ saves' = [saves EXCEPT ![p][i].phase = outcome]
      /\ UNCHANGED <<closed, screen, entries, strays, drafts, submission, typed, confirmed, used>>
  BY DEF ServerSaves, Upsert
<1>2. outcome \in {"kept", "refused"} /\ (~closed => outcome = "kept")
  OBVIOUS
<1> HIDE DEF outcome
<1>3. /\ saves' \in [Pages -> [Items -> Save]]
      /\ \A q \in Pages, j \in Items :
           /\ saves'[q][j].value = saves[q][j].value /\ saves'[q][j].revision = saves[q][j].revision
           /\ saves'[q][j].phase = IF q = p /\ j = i THEN outcome ELSE saves[q][j].phase
  <2> DEFINE new == [saves[p][i] EXCEPT !.phase = outcome]
  <2>1. /\ new \in Save /\ new.phase = outcome
        /\ new.value = saves[p][i].value /\ new.revision = saves[p][i].revision
    BY <1>2, SlotFacts DEF Save
  <2>2. saves' = [saves EXCEPT ![p][i] = new]
    BY <1>1
  <2> HIDE DEF new
  <2>3. \A q \in Pages, j \in Items :
          saves'[q][j] = IF q = p /\ j = i THEN new ELSE saves[q][j]
    BY <2>2 DEF AutosaveTypeOK
  <2> QED
    BY <2>1, <2>2, <2>3 DEF AutosaveTypeOK
<1>4. /\ stored' \in [Items -> Datum]
      /\ ~closed => \A j \in Items : stored'[j] = IF j = i THEN saves[p][i].value ELSE stored[j]
  BY <1>1, SlotFacts DEF AutosaveTypeOK
<1>5. \A q \in Pages, j \in Items : Waits(q, j)' <=> Waits(q, j)
  BY <1>1, <1>2, <1>3 DEF Waits
<1>6. AutosaveTypeOK'
  BY <1>1, <1>3, <1>4 DEF AutosaveTypeOK, Watch
<1>7. PagesInv'
  BY <1>1, <1>5 DEF PagesInv, PageOK, page
<1>8. SavesInv'
  BY <1>1, <1>3, <1>5 DEF SavesInv, SaveOK, Current
<1>9. ClosedInv' /\ DraftsInv' /\ StraysFinite'
  BY <1>1 DEF ClosedInv, DraftsInv, DraftOK, StraysFinite, StraysOf, On
<1>10. AgreeInv'
  <2> SUFFICES ASSUME NEW j \in Items, j \notin crowded'
               PROVE  Alone(j)' /\ (~closed' => Agree(j)')
    BY DEF AgreeInv
  <2>1. j \notin crowded /\ Alone(j) /\ (~closed => Agree(j)) /\ StraysOf(j)' = StraysOf(j)
    BY <1>1, <1>9, WatchFacts DEF AgreeInv, StraysOf
  <2>2. Alone(j)'
    BY <1>1, <1>5, <2>1 DEF Alone, page
  <2>3. ASSUME ~closed PROVE Agree(j)'
    <3>1. Agree(j) /\ UNCHANGED <<screen, entries, drafts, typed>>
      BY <1>1, <2>1, <2>3
    <3>2. CASE j # i
      <4>1. /\ stored'[j] = stored[j]
            /\ \A q \in Pages : saves'[q][j].phase = saves[q][j].phase /\ saves'[q][j].value = saves[q][j].value
        BY <1>3, <1>4, <2>3, <3>2
      <4> HIDE DEF AutosaveIInv
      <4> QED
        BY <2>1, <3>1, <4>1 DEF Agree, Waits, On, page
    <3>3. CASE j = i
      <4>1. p = page /\ screen.phase \notin Loading /\ \A q \in Pages : Waits(q, i) => q = p
        BY <1>1, <2>1, <3>3 DEF Alone, Waits
      <4>2. drafts[i] # Nothing /\ entries[p][i].state = "saving"
        BY <1>1, <3>1, <3>3 DEF Agree, Waits, SavesInv, SaveOK
      <4>3. stored'[i] = saves'[p][i].value
        BY <1>3, <1>4, <2>3
      <4>4. \A q \in Pages : saves'[q][i].phase = "kept" => q = p
        BY <1>3, <4>1 DEF Waits
      <4> HIDE DEF AutosaveIInv
      <4> QED
        BY <1>5, <2>1, <3>1, <3>3, <4>1, <4>2, <4>3, <4>4 DEF Agree, On, Loading, page
    <3> QED
      BY <3>2, <3>3
  <2> QED
    BY <1>1, <2>2, <2>3
<1> QED
  BY <1>6, <1>7, <1>8, <1>9, <1>10

\* A save that was given up arrives, or not.
LEMMA StrayStep ==
  ASSUME AutosaveIInv, NEW s \in strays, StrayArrives(s) \/ StrayIsLost(s), Watch
  PROVE  AutosaveIInv'
<1> USE DEF AutosaveIInv
<1>1. /\ strays' = strays \ {s}
      /\ UNCHANGED <<closed, screen, entries, saves, drafts, submission, typed, confirmed, used>>
      /\ stored' = stored \/ stored' = [stored EXCEPT ![s.item] = s.value]
  BY DEF StrayArrives, StrayIsLost, Upsert
<1>2. s.item \in Items /\ s.value \in Datum
  BY DEF AutosaveTypeOK
<1>3. stored' \in [Items -> Datum] /\ \A j \in Items : j # s.item => stored'[j] = stored[j]
  BY <1>1, <1>2 DEF AutosaveTypeOK
<1>4. \A j \in Items : StraysOf(j)' \subseteq StraysOf(j)
  BY <1>1 DEF StraysOf
<1>5. AutosaveTypeOK'
  BY <1>1, <1>3 DEF AutosaveTypeOK, Watch
<1>6. PagesInv' /\ SavesInv'
  BY <1>1 DEF PagesInv, PageOK, SavesInv, SaveOK, Waits, Current, page
<1>7. ClosedInv' /\ DraftsInv'
  BY <1>1 DEF ClosedInv, DraftsInv, DraftOK, On
<1>8. StraysFinite'
  BY <1>4, FS_Subset DEF StraysFinite
<1>9. AgreeInv'
  <2> SUFFICES ASSUME NEW j \in Items, j \notin crowded'
               PROVE  Alone(j)' /\ (~closed' => Agree(j)')
    BY DEF AgreeInv
  <2>1. j \notin crowded /\ Alone(j) /\ (~closed => Agree(j))
    BY <1>8, WatchFacts DEF AgreeInv
  <2>2. Alone(j)'
    BY <1>1, <1>4, <2>1 DEF Alone, Waits, page
  <2>3. ASSUME ~closed PROVE Agree(j)'
    <3>1. Agree(j) /\ UNCHANGED <<screen, entries, saves, drafts, typed>>
      BY <1>1, <2>1, <2>3
    <3>2. CASE j # s.item
      <4>1. stored'[j] = stored[j] /\ StraysOf(j)' \subseteq StraysOf(j)
        BY <1>3, <1>4, <3>2
      <4> HIDE DEF AutosaveIInv
      <4> QED
        BY <3>1, <4>1 DEF Agree, Waits, On, page
    <3>3. CASE j = s.item
      <4>1. s \in StraysOf(j)
        BY <3>3 DEF StraysOf
      <4>2. (\A q \in Pages : ~Waits(q, j)) /\ screen.phase \notin Loading
        BY <2>1, <4>1 DEF Alone
      <4>3. drafts[j] # Nothing /\ StraysOf(j)' \subseteq StraysOf(j)
        BY <1>4, <3>1, <4>1 DEF Agree
      <4> HIDE DEF AutosaveIInv
      <4> QED
        BY <3>1, <4>1, <4>2, <4>3 DEF Agree, Waits, On, Loading, page
    <3> QED
      BY <3>2, <3>3
  <2> QED
    BY <1>1, <2>2, <2>3
<1> QED
  BY <1>5, <1>6, <1>7, <1>8, <1>9

\* An entry that is sent.
LEMMA SavingFacts ==
  ASSUME NEW e \in Entry
  PROVE  /\ Saving(e).state = "saving" /\ ~Saving(e).dirty /\ Saving(e).value = e.value
         /\ Saving(e).revision = e.revision /\ Saving(e).active = e.active
         /\ Saving(e).timer = e.timer /\ Saving(e).localOnly = e.localOnly
         /\ Sent(e).phase = "sent" /\ Sent(e).value = e.value /\ Sent(e).revision = e.revision
  BY DEF Saving, Sent, Entry

\* What the end of a save does to one entry and its save.
LEMMA EndsFacts ==
  ASSUME AutosaveTypeOK, NEW p \in Pages, NEW i \in Items, NEW e \in Entry, Ends(p, i, e)
  PROVE  /\ entries' \in [Pages -> [Items -> Entry]] /\ saves' \in [Pages -> [Items -> Save]]
         /\ \A q \in Pages, j \in Items :
              ~(q = p /\ j = i) => entries'[q][j] = entries[q][j] /\ saves'[q][j] = saves[q][j]
         /\ IF Again(p, i, e) THEN entries'[p][i] = Saving(e) /\ saves'[p][i] = Sent(e)
            ELSE entries'[p][i] = e /\ saves'[p][i] = NoSave
<1> DEFINE again == Again(p, i, e)
           entry == IF again THEN Saving(e) ELSE e
           save == IF again THEN Sent(e) ELSE NoSave
<1>1. entries' = [entries EXCEPT ![p][i] = entry] /\ saves' = [saves EXCEPT ![p][i] = save]
  BY DEF Ends
<1>2. Saving(e) \in Entry /\ Sent(e) \in Save /\ NoSave \in Save
  BY DEF Saving, Sent, Entry, Save, NoSave, Datum
<1>3. entry \in Entry /\ save \in Save
  BY <1>2
<1>4. IF Again(p, i, e) THEN entry = Saving(e) /\ save = Sent(e) ELSE entry = e /\ save = NoSave
  OBVIOUS
<1> HIDE DEF entry, save
<1> QED
  BY <1>1, <1>3, <1>4 DEF AutosaveTypeOK

\* A save fails: the entry on the screen says so, and the draft stays.
LEMMA FailedStep ==
  ASSUME AutosaveIInv, Watch, NEW p \in Pages, NEW i \in Items, Waits(p, i), Failed(p, i),
         NEW stray \in [item : Items, value : Datum, no : Nat], stray.item = i,
         strays' = strays \/ strays' = strays \cup {stray},
         used' \in [edits : Nat, failures : Nat],
         UNCHANGED <<stored, closed, screen, submission, typed, confirmed>>
  PROVE  AutosaveIInv'
<1> USE DEF AutosaveIInv
<1> DEFINE e == entries[p][i]
           new == IF e.active THEN [e EXCEPT !.dirty = TRUE, !.state = "error"] ELSE e
           ErrorShown == /\ saves'[p][i].phase = "none" /\ entries'[p][i].revision = e.revision
                         /\ entries'[p][i].state = IF e.active THEN "error" ELSE e.state
           Sends == /\ e.active
                    /\ saves'[p][i].phase = "sent" /\ saves'[p][i].value = e.value
                    /\ saves'[p][i].revision = e.revision /\ entries'[p][i].revision = e.revision
                    /\ entries'[p][i].state = "saving" /\ ~entries'[p][i].dirty
<1>1. e \in Entry
  BY SlotFacts
<1>2. Ends(p, i, new) /\ drafts' = drafts
  BY DEF Failed
<1>3. /\ new \in Entry /\ new.value = e.value /\ new.revision = e.revision /\ new.active = e.active
      /\ new.timer = e.timer
      /\ new.state = IF e.active THEN "error" ELSE e.state
  BY <1>1 DEF Entry
<1> HIDE DEF new
<1>4. /\ entries' \in [Pages -> [Items -> Entry]] /\ saves' \in [Pages -> [Items -> Save]]
      /\ \A q \in Pages, j \in Items :
           ~(q = p /\ j = i) => entries'[q][j] = entries[q][j] /\ saves'[q][j] = saves[q][j]
      /\ IF Again(p, i, new) THEN entries'[p][i] = Saving(new) /\ saves'[p][i] = Sent(new)
         ELSE entries'[p][i] = new /\ saves'[p][i] = NoSave
  BY <1>2, <1>3, EndsFacts
<1>5. /\ ErrorShown \/ Sends
      /\ entries'[p][i].value = e.value /\ entries'[p][i].active = e.active
      /\ entries'[p][i].timer = e.timer
  <2>1. CASE Again(p, i, new)
    <3>1. new.active /\ entries'[p][i] = Saving(new) /\ saves'[p][i] = Sent(new)
      BY <1>4, <2>1 DEF Again
    <3> HIDE DEF AutosaveIInv
    <3>2. /\ Saving(new).state = "saving" /\ ~Saving(new).dirty /\ Saving(new).value = new.value
          /\ Saving(new).revision = new.revision /\ Saving(new).active = new.active
          /\ Saving(new).timer = new.timer
          /\ Sent(new).phase = "sent" /\ Sent(new).value = new.value /\ Sent(new).revision = new.revision
      BY <1>3, SavingFacts
    <3>3. e.active /\ Saving(new).active = e.active /\ Saving(new).timer = e.timer
      BY <1>3, <3>1, <3>2
    <3>4. Sends
      BY <1>3, <3>1, <3>2, <3>3
    <3> QED
      BY <1>3, <3>1, <3>2, <3>3, <3>4
  <2>2. CASE ~Again(p, i, new)
    BY <1>3, <1>4, <2>2 DEF NoSave
  <2> QED
    BY <2>1, <2>2
<1>6. AutosaveTypeOK'
  <2>1. ASSUME NEW q \in Pages, NEW j \in Items
        PROVE  entries'[q][j].timer => entries'[q][j].active
    <3>1. /\ entries[q][j].timer => entries[q][j].active
          /\ e.timer => e.active
      BY DEF AutosaveTypeOK
    <3>2. CASE q = p /\ j = i
      BY <1>5, <3>1, <3>2
    <3>3. CASE ~(q = p /\ j = i)
      BY <1>4, <3>1, <3>3
    <3> QED
      BY <3>2, <3>3
  <2>2. \A s \in strays' : s \in [item : Items, value : Datum, no : Nat]
    BY DEF AutosaveTypeOK
  <2> HIDE DEF ErrorShown, Sends
  <2> QED
    BY <1>2, <1>4, <2>1, <2>2 DEF AutosaveTypeOK, Watch
<1>7. PagesInv'
  <2> SUFFICES ASSUME NEW q \in Pages, NEW j \in Items PROVE PageOK(q, j)'
    BY DEF PagesInv, page
  <2>1. PageOK(q, j) /\ PageOK(p, i)
    BY DEF PagesInv
  <2>2. CASE q = p /\ j = i
    BY <1>5, <2>1, <2>2 DEF PageOK, Waits, page
  <2>3. CASE ~(q = p /\ j = i)
    <3>1. entries'[q][j] = entries[q][j] /\ saves'[q][j] = saves[q][j]
      BY <1>4, <2>3
    <3> QED
      BY <2>1, <3>1 DEF PageOK, Waits, page
  <2> QED
    BY <2>2, <2>3
<1>8. SavesInv'
  <2> SUFFICES ASSUME NEW q \in Pages, NEW j \in Items PROVE SaveOK(q, j)'
    BY DEF SavesInv
  <2>1. SaveOK(q, j) /\ e.revision \in Nat
    BY SlotFacts DEF SavesInv
  <2>2. CASE q = p /\ j = i
    BY <1>5, <2>1, <2>2 DEF SaveOK, Waits, Current
  <2>3. CASE ~(q = p /\ j = i)
    <3>1. entries'[q][j] = entries[q][j] /\ saves'[q][j] = saves[q][j]
      BY <1>4, <2>3
    <3> QED
      BY <2>1, <3>1 DEF SaveOK, Waits, Current
  <2> QED
    BY <2>2, <2>3
<1>9. ClosedInv' /\ DraftsInv'
  BY <1>2 DEF ClosedInv, DraftsInv, DraftOK, On
<1>10. \A j \in Items : StraysOf(j)' = StraysOf(j) \/ (j = i /\ StraysOf(j)' = StraysOf(j) \cup {stray})
  BY DEF StraysOf
<1>11. StraysFinite'
  BY <1>10, FS_AddElement DEF StraysFinite
<1>12. AgreeInv'
  <2> SUFFICES ASSUME NEW j \in Items, j \notin crowded'
               PROVE  Alone(j)' /\ (~closed' => Agree(j)')
    BY DEF AgreeInv
  <2>1. /\ j \notin crowded /\ Alone(j) /\ (~closed => Agree(j))
        /\ \A q \in Pages : Waits(q, j)' => screen'.phase \notin Loading /\ StraysOf(j)' = {}
        /\ screen'.phase \in Loading => StraysOf(j)' = {}
    BY <1>11, WatchFacts DEF AgreeInv
  <2>2. \A q \in Pages : Waits(q, j)' => Waits(q, j)
    BY <1>4 DEF Waits
  <2>3. Alone(j)'
    BY <2>1, <2>2 DEF Alone, page
  <2>4. ASSUME ~closed PROVE Agree(j)'
    <3>1. Agree(j) /\ UNCHANGED <<stored, screen, drafts, typed>>
      BY <1>2, <2>1, <2>4
    <3>2. CASE j # i
      <4>1. StraysOf(j)' = StraysOf(j)
        BY <1>10, <3>2
      <4>2. \A q \in Pages : entries'[q][j] = entries[q][j] /\ saves'[q][j] = saves[q][j]
        BY <1>4, <3>2
      <4> HIDE DEF AutosaveIInv
      <4> QED
        BY <3>1, <4>1, <4>2 DEF Agree, Waits, On, page
    <3>3. CASE j = i
      <4>1. p = page /\ screen.phase \notin Loading /\ \A q \in Pages : Waits(q, i) => q = p
        BY <2>1, <3>3 DEF Alone
      <4>2. drafts[i] # Nothing
        BY <3>1, <3>3 DEF Agree
      <4>3. /\ \A q \in Pages : q # p => saves'[q][i].phase = "none"
            /\ saves'[p][i].phase # "kept"
        BY <1>4, <1>5, <4>1 DEF Waits
      <4>4. screen.phase \in Shown => e.active
        BY <4>1 DEF PagesInv, PageOK
      <4>5. screen.phase \in Shown => entries'[p][i].state # "saved" /\ entries'[p][i].value = typed[i]
        BY <1>5, <3>1, <3>3, <4>1, <4>4 DEF Agree
      <4> HIDE DEF AutosaveIInv
      <4> QED
        BY <3>1, <3>3, <4>1, <4>2, <4>3, <4>5 DEF Agree, On, Loading, page
    <3> QED
      BY <3>2, <3>3
  <2> QED
    BY <2>3, <2>4
<1> QED
  BY <1>6, <1>7, <1>8, <1>9, <1>11, <1>12

LEMMA SaveRefusedStep ==
  ASSUME AutosaveIInv, NEW p \in Pages, NEW i \in Items, SaveRefused(p, i), Watch
  PROVE  AutosaveIInv'
<1> DEFINE stray == [item |-> i, value |-> Nothing, no |-> 0]
<1>1. stray \in [item : Items, value : Datum, no : Nat] /\ stray.item = i
  BY DEF Datum
<1> HIDE DEF stray
<1>2. /\ Waits(p, i) /\ Failed(p, i)
      /\ UNCHANGED <<stored, closed, screen, strays, submission, typed, confirmed, used>>
  BY DEF SaveRefused, Waits
<1>3. used' \in [edits : Nat, failures : Nat]
  BY <1>2 DEF AutosaveIInv, AutosaveTypeOK
<1> QED
  BY <1>1, <1>2, <1>3, FailedStep

LEMMA SaveFailsStep ==
  ASSUME AutosaveIInv, NEW p \in Pages, NEW i \in Items, SaveFails(p, i), Watch
  PROVE  AutosaveIInv'
<1> DEFINE stray == [item |-> i, value |-> saves[p][i].value, no |-> used.failures]
<1>1. used.failures \in Nat /\ AutosaveTypeOK
  BY DEF AutosaveIInv, AutosaveTypeOK
<1>2. stray \in [item : Items, value : Datum, no : Nat] /\ stray.item = i
  BY <1>1, SlotFacts
<1>3. /\ Waits(p, i) /\ Failed(p, i)
      /\ strays' = strays \/ strays' = strays \cup {stray}
      /\ used' = [used EXCEPT !.failures = @ + 1]
      /\ UNCHANGED <<stored, closed, screen, submission, typed, confirmed>>
  BY DEF SaveFails, Waits
<1>4. used' \in [edits : Nat, failures : Nat]
  BY <1>1, <1>3 DEF AutosaveTypeOK
<1> HIDE DEF stray
<1> QED
  BY <1>2, <1>3, <1>4, FailedStep

\* A save is answered: the draft goes when it says what was saved.
LEMMA SaveAnsweredStep ==
  ASSUME AutosaveIInv, NEW p \in Pages, NEW i \in Items, SaveAnswered(p, i), Watch
  PROVE  AutosaveIInv'
<1> USE DEF AutosaveIInv
<1> DEFINE e == entries[p][i]
           v == saves[p][i].value
           new == IF Current(p, i) THEN [e EXCEPT !.state = "saved", !.localOnly = FALSE] ELSE e
           Saved == /\ Current(p, i)
                    /\ saves'[p][i].phase = "none" /\ entries'[p][i].revision = e.revision
                    /\ entries'[p][i].state = "saved" /\ ~entries'[p][i].dirty
                    /\ drafts' = IF drafts[i] = v THEN [drafts EXCEPT ![i] = Nothing] ELSE drafts
           Stale == /\ ~Current(p, i) /\ drafts' = drafts
                    /\ saves'[p][i].phase = "none" /\ entries'[p][i].revision = e.revision
                    /\ entries'[p][i].state = "saving" /\ entries'[p][i].dirty = e.dirty
           Sends == /\ ~Current(p, i) /\ drafts' = drafts
                    /\ saves'[p][i].phase = "sent" /\ saves'[p][i].value = e.value
                    /\ saves'[p][i].revision = e.revision /\ entries'[p][i].revision = e.revision
                    /\ entries'[p][i].state = "saving" /\ ~entries'[p][i].dirty
<1>1. /\ saves[p][i].phase = "kept" /\ Waits(p, i)
      /\ confirmed' = [confirmed EXCEPT ![i] = @ \/ v = typed[i]]
      /\ UNCHANGED <<stored, closed, screen, strays, submission, typed, used>>
  BY DEF SaveAnswered, Waits
<1>2. Ends(p, i, new)
  BY DEF SaveAnswered
<1>3. /\ Current(p, i) => drafts' = IF drafts[i] = v THEN [drafts EXCEPT ![i] = Nothing] ELSE drafts
      /\ ~Current(p, i) => drafts' = drafts
  BY DEF SaveAnswered, clearDraftItem
<1>4. /\ e \in Entry /\ e.state = "saving"
      /\ Current(p, i) => ~e.dirty /\ v = e.value
  BY <1>1, SlotFacts DEF SavesInv, SaveOK
<1>5. /\ new \in Entry /\ new.value = e.value /\ new.revision = e.revision /\ new.active = e.active
      /\ new.timer = e.timer /\ new.dirty = e.dirty
      /\ new.state = IF Current(p, i) THEN "saved" ELSE "saving"
  BY <1>4 DEF Entry
<1> HIDE DEF new
<1>6. /\ entries' \in [Pages -> [Items -> Entry]] /\ saves' \in [Pages -> [Items -> Save]]
      /\ \A q \in Pages, j \in Items :
           ~(q = p /\ j = i) => entries'[q][j] = entries[q][j] /\ saves'[q][j] = saves[q][j]
      /\ IF Again(p, i, new) THEN entries'[p][i] = Saving(new) /\ saves'[p][i] = Sent(new)
         ELSE entries'[p][i] = new /\ saves'[p][i] = NoSave
  BY <1>2, <1>5, EndsFacts
<1>7. /\ Saved \/ Stale \/ Sends
      /\ entries'[p][i].value = e.value /\ entries'[p][i].active = e.active
      /\ entries'[p][i].timer = e.timer
  <2>1. CASE Again(p, i, new)
    <3>1. ~Current(p, i) /\ entries'[p][i] = Saving(new) /\ saves'[p][i] = Sent(new)
      BY <1>6, <2>1 DEF Again
    <3> HIDE DEF AutosaveIInv
    <3>2. /\ Saving(new).state = "saving" /\ ~Saving(new).dirty /\ Saving(new).value = new.value
          /\ Saving(new).revision = new.revision /\ Saving(new).active = new.active
          /\ Saving(new).timer = new.timer
          /\ Sent(new).phase = "sent" /\ Sent(new).value = new.value /\ Sent(new).revision = new.revision
      BY <1>5, SavingFacts
    <3>3. Sends
      BY <1>3, <1>5, <3>1, <3>2
    <3> QED
      BY <1>5, <3>1, <3>2, <3>3
  <2>2. CASE ~Again(p, i, new)
    <3>1. entries'[p][i] = new /\ saves'[p][i].phase = "none"
      BY <1>6, <2>2 DEF NoSave
    <3> HIDE DEF AutosaveIInv
    <3>2. CASE Current(p, i)
      BY <1>3, <1>4, <1>5, <3>1, <3>2
    <3>3. CASE ~Current(p, i)
      BY <1>3, <1>4, <1>5, <3>1, <3>3
    <3> QED
      BY <3>2, <3>3
  <2> QED
    BY <2>1, <2>2
<1>8. /\ drafts' \in [Items -> Datum]
      /\ \A j \in Items : j # i => drafts'[j] = drafts[j]
      /\ drafts'[i] = drafts[i] \/ (drafts'[i] = Nothing /\ drafts[i] = v)
  BY <1>3 DEF AutosaveTypeOK, Datum
<1>9. /\ confirmed' \in [Items -> BOOLEAN]
      /\ \A j \in Items : j # i => confirmed'[j] = confirmed[j]
      /\ ~confirmed'[i] => ~confirmed[i] /\ v # typed[i]
  <2> DEFINE c == confirmed[i] \/ v = typed[i]
  <2>1. c \in BOOLEAN /\ confirmed' = [confirmed EXCEPT ![i] = c]
    BY <1>1
  <2>2. ~c => ~confirmed[i] /\ v # typed[i]
    OBVIOUS
  <2> HIDE DEF c
  <2> QED
    BY <2>1, <2>2 DEF AutosaveTypeOK
<1>10. AutosaveTypeOK'
  <2>1. ASSUME NEW q \in Pages, NEW j \in Items
        PROVE  entries'[q][j].timer => entries'[q][j].active
    <3>1. /\ entries[q][j].timer => entries[q][j].active
          /\ e.timer => e.active
      BY DEF AutosaveTypeOK
    <3>2. CASE q = p /\ j = i
      BY <1>7, <3>1, <3>2
    <3>3. CASE ~(q = p /\ j = i)
      BY <1>6, <3>1, <3>3
    <3> QED
      BY <3>2, <3>3
  <2> HIDE DEF Saved, Stale, Sends
  <2> QED
    BY <1>1, <1>6, <1>8, <1>9, <2>1 DEF AutosaveTypeOK, Watch
<1>11. PagesInv'
  <2> SUFFICES ASSUME NEW q \in Pages, NEW j \in Items PROVE PageOK(q, j)'
    BY <1>1 DEF PagesInv, page
  <2>1. PageOK(q, j) /\ PageOK(p, i) /\ screen' = screen
    BY <1>1 DEF PagesInv
  <2>2. CASE q = p /\ j = i
    BY <1>1, <1>7, <2>1, <2>2 DEF PageOK, Waits, page
  <2>3. CASE ~(q = p /\ j = i)
    <3>1. entries'[q][j] = entries[q][j] /\ saves'[q][j] = saves[q][j]
      BY <1>6, <2>3
    <3> QED
      BY <2>1, <3>1 DEF PageOK, Waits, page
  <2> QED
    BY <2>2, <2>3
<1>12. SavesInv'
  <2> SUFFICES ASSUME NEW q \in Pages, NEW j \in Items PROVE SaveOK(q, j)'
    BY DEF SavesInv
  <2>1. SaveOK(q, j) /\ e.revision \in Nat
    BY SlotFacts DEF SavesInv
  <2>2. CASE q = p /\ j = i
    BY <1>7, <2>1, <2>2 DEF SaveOK, Waits, Current
  <2>3. CASE ~(q = p /\ j = i)
    <3>1. entries'[q][j] = entries[q][j] /\ saves'[q][j] = saves[q][j]
      BY <1>6, <2>3
    <3> QED
      BY <2>1, <3>1 DEF SaveOK, Waits, Current
  <2> QED
    BY <2>2, <2>3
<1>13. ClosedInv' /\ StraysFinite'
  BY <1>1 DEF ClosedInv, StraysFinite, StraysOf, On
<1>14. DraftsInv'
  <2>1. ASSUME NEW j \in Items PROVE DraftOK(j)'
    <3>1. DraftOK(j) /\ DraftOK(i) /\ typed' = typed /\ closed' = closed
      BY <1>1 DEF DraftsInv
    <3> HIDE DEF AutosaveIInv
    <3> QED
      BY <1>8, <1>9, <3>1 DEF DraftOK
  <2>2. ASSUME On("finished")' PROVE drafts' = Empty
    <3>1. drafts = Empty
      BY <1>1, <2>2 DEF DraftsInv, On
    <3> QED
      BY <1>3, <3>1 DEF Empty
  <2> QED
    BY <2>1, <2>2 DEF DraftsInv
<1>15. AgreeInv'
  <2> SUFFICES ASSUME NEW j \in Items, j \notin crowded'
               PROVE  Alone(j)' /\ (~closed' => Agree(j)')
    BY DEF AgreeInv
  <2>1. /\ j \notin crowded /\ Alone(j) /\ (~closed => Agree(j)) /\ StraysOf(j)' = StraysOf(j)
    BY <1>1, <1>13, WatchFacts DEF AgreeInv, StraysOf
  <2>2. \A q \in Pages : Waits(q, j)' => Waits(q, j)
    BY <1>1, <1>6 DEF Waits
  <2>3. Alone(j)'
    BY <1>1, <2>1, <2>2 DEF Alone, page
  <2>4. ASSUME ~closed PROVE Agree(j)'
    <3>1. Agree(j) /\ UNCHANGED <<stored, screen, typed>>
      BY <1>1, <2>1, <2>4
    <3>2. CASE j # i
      <4>1. drafts'[j] = drafts[j]
        BY <1>8, <3>2
      <4>2. \A q \in Pages : entries'[q][j] = entries[q][j] /\ saves'[q][j] = saves[q][j]
        BY <1>6, <3>2
      <4> HIDE DEF AutosaveIInv
      <4> QED
        BY <2>1, <3>1, <4>1, <4>2 DEF Agree, Waits, On, page
    <3>3. CASE j = i
      <4>1. /\ p = page /\ screen.phase \notin Loading /\ StraysOf(i) = {}
            /\ \A q \in Pages : Waits(q, i) => q = p
        BY <1>1, <2>1, <3>3 DEF Alone
      <4>2. /\ drafts[i] # Nothing /\ stored[i] = v
            /\ drafts[i] \in {Nothing, typed[i]}
        BY <1>1, <3>1, <3>3 DEF Agree, DraftsInv, DraftOK
      <4>3. drafts'[i] = Nothing => stored'[i] = typed'[i]
        BY <1>8, <3>1, <4>2
      <4>4. \A q \in Pages : q # p => saves'[q][i].phase = "none"
        BY <1>6, <4>1 DEF Waits
      <4>5. screen.phase \in Shown => entries'[p][i].value = typed[i]
        BY <1>7, <3>1, <3>3, <4>1 DEF Agree
      <4>6. Saved => entries'[p][i].value = stored[i]
        BY <1>4, <1>7, <4>2
      <4> HIDE DEF AutosaveIInv
      <4>7. CASE Saved
        BY <2>1, <3>1, <3>3, <4>1, <4>3, <4>4, <4>5, <4>6, <4>7 DEF Agree, Waits, On, Loading, page
      <4>8. CASE Stale \/ Sends
        <5>1. /\ drafts'[i] = drafts[i] /\ entries'[p][i].state = "saving"
              /\ saves'[p][i].phase \in {"none", "sent"}
          BY <4>8
        <5> HIDE DEF Stale, Sends, Saved
        <5> QED
          BY <2>1, <3>1, <3>3, <4>1, <4>2, <4>4, <4>5, <5>1 DEF Agree, Waits, On, Loading, page
      <4> QED
        BY <1>7, <4>7, <4>8
    <3> QED
      BY <3>2, <3>3
  <2> QED
    BY <1>1, <2>3, <2>4
<1> QED
  BY <1>10, <1>11, <1>12, <1>13, <1>14, <1>15

-----------------------------------------------------------------------------
(* The learner submits                                                     *)

\* The dialog closes, a submission is sent, or it fails: nothing is saved or shown that
\* was not before.
LEMMA DialogStep ==
  ASSUME AutosaveIInv, CancelConfirm \/ doSubmit \/ SubmitFails, Watch
  PROVE  AutosaveIInv'
<1> USE DEF AutosaveIInv
<1>1. /\ UNCHANGED <<stored, closed, entries, saves, strays, drafts, typed, confirmed>>
      /\ \/ screen' = screen
         \/ screen.phase = "confirming" /\ screen' = [screen EXCEPT !.phase = "ready"]
      /\ submission' = submission \/ submission'.phase # "taken"
  <2>1. submission \in Submission
    BY DEF AutosaveTypeOK
  <2> QED
    BY <2>1 DEF CancelConfirm, doSubmit, SubmitFails, On, Goes, Submission
<1>2. /\ screen' \in Screen /\ screen'.page = page /\ screen'.closed = screen.closed
      /\ \/ screen'.phase = screen.phase
         \/ screen.phase \in Shown /\ screen'.phase = "ready"
  <2>1. screen \in Screen
    BY DEF AutosaveTypeOK
  <2> QED
    BY <1>1, <2>1 DEF Screen, Phase, Shown, page
<1>3. submission' \in Submission /\ used' \in [edits : Nat, failures : Nat]
  <2>1. /\ submission \in Submission /\ used \in [edits : Nat, failures : Nat]
        /\ entries \in [Pages -> [Items -> Entry]]
    BY DEF AutosaveTypeOK
  <2>2. CASE CancelConfirm
    BY <2>1, <2>2 DEF CancelConfirm
  <2>3. CASE doSubmit
    <3>1. page \in Pages /\ page \in 0..MaxPages
      BY <2>3, PageFacts DEF doSubmit, On, Shown, page
    <3>2. finalAnswers \in [Items -> Datum]
      BY <2>1, <3>1 DEF finalAnswers, Entry
    <3> QED
      BY <2>1, <2>3, <3>1, <3>2 DEF doSubmit, Submission
  <2>4. CASE SubmitFails
    <3>1. submission' = [submission EXCEPT !.phase = "none"] /\ used' = [used EXCEPT !.failures = @ + 1]
      BY <2>4 DEF SubmitFails
    <3>2. submission' \in Submission
      BY <2>1, <3>1 DEF Submission
    <3> QED
      BY <2>1, <3>1, <3>2
  <2> QED
    BY <2>2, <2>3, <2>4
<1>4. AutosaveTypeOK'
  BY <1>1, <1>2, <1>3 DEF AutosaveTypeOK, Watch
<1>5. PagesInv'
  <2>1. /\ entries' = entries /\ saves' = saves /\ page' = page
        /\ screen'.phase \in Shown <=> screen.phase \in Shown
        /\ screen'.phase \in Loading <=> screen.phase \in Loading
        /\ screen'.phase = "finished" <=> screen.phase = "finished"
    BY <1>1, <1>2 DEF Shown, Loading, page
  <2> QED
    BY <2>1 DEF PagesInv, PageOK, Waits
<1>6. SavesInv'
  BY <1>1 DEF SavesInv, SaveOK, Waits, Current
<1>7. ClosedInv' /\ DraftsInv' /\ StraysFinite'
  BY <1>1, <1>2 DEF ClosedInv, DraftsInv, DraftOK, StraysFinite, StraysOf, On, Shown
<1>8. AgreeInv'
  <2> SUFFICES ASSUME NEW i \in Items, i \notin crowded'
               PROVE  Alone(i)' /\ (~closed' => Agree(i)')
    BY DEF AgreeInv
  <2>1. i \notin crowded /\ Alone(i) /\ (~closed => Agree(i)) /\ StraysOf(i)' = StraysOf(i)
    BY <1>1, <1>7, WatchFacts DEF AgreeInv, StraysOf
  <2>2. /\ page' = page
        /\ screen'.phase \in Shown <=> screen.phase \in Shown
        /\ screen'.phase \in Loading <=> screen.phase \in Loading
        /\ screen'.phase = "given" => screen' = screen
    BY <1>1, <1>2 DEF Shown, Loading, page
  <2>3. UNCHANGED <<stored, closed, entries, saves, strays, drafts, typed, confirmed>>
    BY <1>1
  <2> HIDE DEF AutosaveIInv
  <2>4. Alone(i)'
    BY <2>1, <2>2, <2>3 DEF Alone, Waits, page
  <2>5. ASSUME Agree(i) PROVE Agree(i)'
    BY <2>1, <2>2, <2>3, <2>5 DEF Agree, Waits, On, page
  <2> QED
    BY <2>1, <2>3, <2>4, <2>5
<1> QED
  BY <1>4, <1>5, <1>6, <1>7, <1>8

LEMMA ServerSubmitsStep ==
  ASSUME AutosaveIInv, ServerSubmits, Watch
  PROVE  AutosaveIInv'
<1> USE DEF AutosaveIInv
<1>1. /\ closed' = TRUE /\ stored' \in {stored, submission.answers}
      /\ submission' = [submission EXCEPT !.phase = "taken"]
      /\ UNCHANGED <<screen, entries, saves, strays, drafts, typed, confirmed, used>>
  BY DEF ServerSubmits
<1>2. submission' \in Submission /\ stored' \in [Items -> Datum]
  BY <1>1 DEF AutosaveTypeOK, Submission
<1>3. AutosaveTypeOK'
  BY <1>1, <1>2 DEF AutosaveTypeOK, Watch
<1>4. PagesInv' /\ SavesInv'
  BY <1>1 DEF PagesInv, PageOK, SavesInv, SaveOK, Waits, Current, page
<1>5. ClosedInv' /\ DraftsInv' /\ StraysFinite'
  BY <1>1 DEF ClosedInv, DraftsInv, DraftOK, StraysFinite, StraysOf, On
<1>6. AgreeInv'
  BY <1>1, <1>5, WatchFacts DEF AgreeInv, Alone, StraysOf, Waits, page
<1> QED
  BY <1>3, <1>4, <1>5, <1>6

LEMMA SubmitAnsweredStep ==
  ASSUME AutosaveIInv, SubmitAnswered, Watch
  PROVE  AutosaveIInv'
<1> USE DEF AutosaveIInv
<1> DEFINE left == {submission.page, page}
<1>1. /\ submission.phase = "taken" /\ drafts' = Empty /\ entries' = Disposed(left)
      /\ screen' = [screen EXCEPT !.phase = "finished"]
      /\ submission' = [submission EXCEPT !.phase = "none"]
      /\ UNCHANGED <<stored, closed, saves, strays, typed, confirmed, used>>
  BY DEF SubmitAnswered, RemoveDraft, Goes
<1>2. closed /\ page \in left
  BY <1>1 DEF ClosedInv
<1>3. screen' \in Screen /\ screen'.page = page /\ screen'.closed = screen.closed /\ screen'.phase = "finished"
  BY <1>1 DEF AutosaveTypeOK, Screen, Phase, page
<1>4. submission' \in Submission /\ submission'.phase = "none"
  BY <1>1 DEF AutosaveTypeOK, Submission
<1> HIDE DEF left
<1>5. /\ entries' \in [Pages -> [Items -> Entry]]
      /\ \A p \in Pages, i \in Items :
           /\ p \in left => ~entries'[p][i].timer /\ ~entries'[p][i].active
           /\ p \notin left => entries'[p][i] = entries[p][i]
           /\ entries'[p][i].state = entries[p][i].state
           /\ entries'[p][i].dirty = entries[p][i].dirty
           /\ entries'[p][i].value = entries[p][i].value
           /\ entries'[p][i].revision = entries[p][i].revision
  <2>1. AutosaveTypeOK
    OBVIOUS
  <2> HIDE DEF AutosaveIInv
  <2> QED
    BY <1>1, <2>1, DisposedFacts
<1>6. AutosaveTypeOK'
  <2>1. Empty \in [Items -> Datum]
    BY DEF Empty, Datum
  <2>2. \A p \in Pages, i \in Items : entries'[p][i].timer => entries'[p][i].active
    BY <1>5 DEF AutosaveTypeOK
  <2> QED
    BY <1>1, <1>3, <1>4, <1>5, <2>1, <2>2 DEF AutosaveTypeOK, Watch
<1>7. PagesInv'
  <2> SUFFICES ASSUME NEW p \in Pages, NEW i \in Items PROVE PageOK(p, i)'
    BY <1>3 DEF PagesInv, Shown, Loading
  <2>1. PageOK(p, i) /\ saves' = saves /\ screen.page \in Nat /\ p \in Nat
    BY <1>1, SlotFacts DEF PagesInv
  <2>2. ~entries'[p][i].active /\ ~entries'[p][i].timer
    <3>1. CASE p \in left
      BY <1>5, <3>1
    <3>2. CASE p \notin left
      BY <1>2, <1>5, <2>1, <3>2 DEF PageOK, AutosaveTypeOK
    <3> QED
      BY <3>1, <3>2
  <2> QED
    BY <1>3, <2>1, <2>2 DEF PageOK, Waits, Shown, Loading, page
<1>8. SavesInv'
  <2> SUFFICES ASSUME NEW p \in Pages, NEW i \in Items PROVE SaveOK(p, i)'
    BY DEF SavesInv
  <2>1. SaveOK(p, i) /\ saves' = saves
    BY <1>1 DEF SavesInv
  <2>2. /\ entries'[p][i].state = entries[p][i].state
        /\ entries'[p][i].dirty = entries[p][i].dirty
        /\ entries'[p][i].value = entries[p][i].value
        /\ entries'[p][i].revision = entries[p][i].revision
    BY <1>5
  <2> HIDE DEF AutosaveIInv
  <2> QED
    BY <2>1, <2>2 DEF SaveOK, Waits, Current
<1>9. ClosedInv' /\ DraftsInv' /\ StraysFinite'
  BY <1>1, <1>2, <1>3, <1>4
  DEF ClosedInv, DraftsInv, DraftOK, StraysFinite, StraysOf, On, Empty
<1>10. AgreeInv'
  BY <1>1, <1>2, <1>3, <1>9, WatchFacts DEF AgreeInv, Alone, StraysOf, Waits, Loading, page
<1> QED
  BY <1>6, <1>7, <1>8, <1>9, <1>10

-----------------------------------------------------------------------------
(* The theorems                                                            *)

LEMMA AutosaveInduction == AutosaveIInv /\ [AutosaveNext]_autosaveVars => AutosaveIInv'
<1> SUFFICES ASSUME AutosaveIInv, [AutosaveNext]_autosaveVars PROVE AutosaveIInv'
  OBVIOUS
<1>1. CASE UNCHANGED autosaveVars
  <2>1. UNCHANGED <<stored, closed, screen, entries, saves, strays, drafts, submission,
                    typed, confirmed, crowded, used>>
    BY <1>1 DEF autosaveVars
  <2>2. AutosaveTypeOK' /\ PagesInv' /\ SavesInv' /\ ClosedInv' /\ DraftsInv' /\ StraysFinite'
    BY <2>1 DEF AutosaveIInv, AutosaveTypeOK, PagesInv, PageOK, SavesInv, SaveOK, ClosedInv, DraftsInv,
                DraftOK, StraysFinite, StraysOf, Waits, Current, On, page
  <2>3. AgreeInv'
    BY <2>1 DEF AutosaveIInv, AgreeInv, Alone, Agree, StraysOf, Waits, On, page
  <2> QED
    BY <2>2, <2>3 DEF AutosaveIInv
<1>2. CASE AutosaveNext
  <2>1. Watch
    BY <1>2 DEF AutosaveNext
  <2>2. CASE Open \/ ReadServer \/ init \/ Leave \/ CloseTab
    BY <2>1, <2>2, OpenStep, ReadServerStep, InitStep, LeaveStep, CloseTabStep
  <2>3. CASE \E i \in Items, v \in Answers : Edit(i, v)
    BY <2>1, <2>3, EditStep
  <2>4. ASSUME NEW p \in Pages, NEW i \in Items,
               TimerFires(p, i) \/ ServerSaves(p, i) \/ SaveAnswered(p, i) \/ SaveRefused(p, i)
                 \/ SaveFails(p, i)
        PROVE  AutosaveIInv'
    BY <2>1, <2>4, TimerStep, ServerSavesStep, SaveAnsweredStep, SaveRefusedStep, SaveFailsStep
  <2>5. CASE \E s \in strays : StrayArrives(s) \/ StrayIsLost(s)
    BY <2>1, <2>5, StrayStep
  <2>6. CASE retryFailed \/ openConfirm \/ CancelConfirm \/ doSubmit \/ ServerSubmits
               \/ SubmitAnswered \/ SubmitFails
    BY <2>1, <2>6, RetryStep, ConfirmStep, DialogStep, ServerSubmitsStep, SubmitAnsweredStep
  <2> QED
    BY <1>2, <2>2, <2>3, <2>4, <2>5, <2>6 DEF AutosaveNext
<1> QED
  BY <1>1, <1>2

LEMMA AutosaveInvariant == AutosaveSpec => []AutosaveIInv
  BY AutosaveInitially, AutosaveInduction, PTL DEF AutosaveSpec

\* Every variable of the page, the server and the network always has its type, and an
\* entry whose page was left has no timer.
THEOREM AutosaveTypeCorrect == AutosaveSpec => []AutosaveTypeOK
<1>1. AutosaveIInv => AutosaveTypeOK
  BY DEF AutosaveIInv
<1> QED
  BY <1>1, AutosaveInvariant, PTL

\* Until the server has said that it stored what was entered, the draft in local storage
\* has it, whatever is lost and however often the page is left or closed.
THEOREM UnsavedIsKeptHolds == AutosaveSpec => []UnsavedIsKept
<1>1. AutosaveIInv => UnsavedIsKept
  BY DEF AutosaveIInv, DraftsInv, DraftOK, UnsavedIsKept
<1> QED
  BY <1>1, AutosaveInvariant, PTL

\* A question that never had two requests under way at once is shown as it was entered
\* last, and what is shown as saved is what the server has.
THEOREM PageTellsTheTruthHolds == AutosaveSpec => []PageTellsTheTruth
<1>1. AutosaveIInv => PageTellsTheTruth
  <2> SUFFICES ASSUME AutosaveIInv PROVE PageTellsTheTruth
    OBVIOUS
  <2>1. screen.phase \in {"ready", "confirming"} => page \in Pages
    BY PageFacts DEF AutosaveIInv, Shown
  <2>2. ASSUME NEW i \in Items, i \notin crowded, ~closed, screen.phase \in {"ready", "confirming"}
        PROVE  /\ entries[page][i].value = typed[i]
               /\ ShownAsSaved(i) => stored[i] = entries[page][i].value
    BY <2>1, <2>2 DEF AutosaveIInv, AgreeInv, Agree, Shown, ShownAsSaved
  <2> QED
    BY <2>2 DEF PageTellsTheTruth, ShownIsTyped, SavedIsStored, ShownAsSaved
<1> QED
  BY <1>1, AutosaveInvariant, PTL

\* No draft is left or appears once the page has moved on to the result.
THEOREM NoDraftComesBackHolds == AutosaveSpec => []NoDraftComesBack
<1>1. AutosaveIInv => NoDraftComesBack
  BY DEF AutosaveIInv, DraftsInv, NoDraftComesBack
<1> QED
  BY <1>1, AutosaveInvariant, PTL

=============================================================================
