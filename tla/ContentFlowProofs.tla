-------------------------- MODULE ContentFlowProofs --------------------------
(***************************************************************************)
(* What holds of the questions from the file to the learner, for every     *)
(* number of questions, administrators, jobs and items.                    *)
(*                                                                         *)
(* FlowIInv is inductive.  Its parts follow the modules: what the bank     *)
(* promises together with what a request has read of it (BankInv), what    *)
(* imports promise together with what a publication holds (ImportInv).     *)
(* LearnIInv is inductive as well; it rests on what the choice of          *)
(* questions gives for any filter (SelectGives).                           *)
(***************************************************************************)
EXTENDS ContentFlow, FiniteSetTheorems, SequenceTheorems, WellFoundedInduction, TLAPS

(* What a request may have read. *)

Editing == {"update", "publish", "retire", "review"}

Reading == [op : Editing, q : Questions, read : Question, no : Nat]
Uploading == [op : {"upload"}]
Approval == [op : {"approve"}, j : Jobs, p : Positions]
Batch == [op : {"batch"}, j : Jobs, todo : SUBSET Positions]
Publication == [op : {"publishItem"}, j : Jobs, p : Positions, todo : SUBSET Positions,
                draft : Draft, shared : SUBSET Materials]

Desk == {Free} \cup Reading \cup Uploading \cup Approval \cup Batch \cup Publication

BankTypes ==
  /\ questions \in [Questions -> Question]
  /\ versions \in [Questions -> Seq(Version)]
  /\ materials \in [Materials -> Nat]
  /\ crossed \subseteq Questions
  /\ desk \in [Admins -> Desk]

ImportTypes ==
  /\ jobs \in [Jobs -> {"absent", "review_ready", "published"}]
  /\ items \in [Jobs -> [Positions -> Item]]

-----------------------------------------------------------------------------
(* The bank                                                                *)

\* A text a version refers to is there.
EditionExists(version) ==
  version.material # None => version.edition \in 1..materials[version.material]

VersionsInv ==
  \A q \in Questions :
    /\ Exists(q) => versions[q] # <<>>
    /\ questions[q].published \in 0..Len(versions[q])
    /\ \A i \in 1..Len(versions[q]) : EditionExists(versions[q][i])

\* What a request has read of a question goes on to be true of it, as far as the request
\* relies on it: its version is there, the number it will insert is not beyond the next,
\* and a draft stays one unless it is crossed.
Trusted(d) ==
  d.op \in Editing =>
    /\ Exists(d.q)
    /\ d.read.current \in 1..Len(versions[d.q])
    /\ d.no <= Len(versions[d.q]) + 1
    /\ d.op = "review" /\ d.q \notin crossed => questions[d.q].status = "draft"

ReadingInv == \A a \in Admins : Trusted(desk[a])

\* What a step may not do: take away a question or a version.
Keeps ==
  \A q \in Questions : Exists(q) =>
    /\ Exists(q)'
    /\ Len(versions[q]) <= Len(versions'[q])
    /\ \A i \in 1..Len(versions[q]) : versions'[q][i] = versions[q][i]

BankInv == BankTypes /\ CatalogueIsSound /\ VersionsInv /\ ReadingInv

-----------------------------------------------------------------------------
(* Imports                                                                 *)

ItemsInv ==
  \A j \in Jobs, p \in Positions :
    /\ jobs[j] = "absent" => items[j][p].status = "absent"
    /\ items[j][p].status = "published" <=> items[j][p].question # None
    /\ items[j][p].question # None => Exists(items[j][p].question)
    /\ items[j][p].draft.answer = "source" => FileItem[p].form = "object"

\* An approval has read an item that is there.
Timely(d) == d.op = "approve" => items[d.j][d.p].status # "absent"

ApprovalInv == \A a \in Admins : Timely(desk[a])

\* The material the questions of a job for a key started out with, as far as they have any.
Agreed(j, key, shared) ==
  \/ \E q \in PublishedFor(j, key) : Moved(q)
  \/ shared = {} /\ \A q \in PublishedFor(j, key) : FirstMaterial(q) = None
  \/ \E m \in Materials :
       shared = {m} /\ \A q \in PublishedFor(j, key) : FirstMaterial(q) \in {m, None}

\* The questions of a job for a key that start out with a material start out with one.
OneMaterial(j, key) ==
  \/ \E q \in PublishedFor(j, key) : Moved(q)
  \/ \A q, r \in PublishedFor(j, key) :
       FirstMaterial(q) # None /\ FirstMaterial(r) # None => FirstMaterial(q) = FirstMaterial(r)

\* A publication holds its job: its item stays approved, with the draft it has read, and
\* the material it has found goes on to be that of the others.
Holding(d) ==
  d.op = "publishItem" =>
    /\ items[d.j][d.p].status = "approved"
    /\ items[d.j][d.p].draft = d.draft
    /\ d.draft.key # "" => Agreed(d.j, d.draft.key, d.shared)

OnePublication ==
  \A a, b \in Admins :
    desk[a].op = "publishItem" /\ desk[b].op = "publishItem" /\ desk[a].j = desk[b].j => a = b

PublicationInv == (\A a \in Admins : Holding(desk[a])) /\ OnePublication

\* The state of imports, and what the requests that are under way rely on.
ItemsSound == ImportTypes /\ ImportIsSound /\ ItemsInv

ImportInv == ItemsSound /\ ApprovalInv /\ PublicationInv

\* Questions, imports, and the work of the run.
FlowIInv == BankInv /\ ImportInv /\ roster \in Rosters

-----------------------------------------------------------------------------
(* The learner                                                             *)

LearnTypes ==
  /\ sessions \in Seq(Session)
  /\ wish = NoWish \/ wish \in Filter

\* Answers are wrong only in sessions that are submitted; the wrong questions a request
\* has read were answered wrongly, and there are some.
LearnInv ==
  /\ \A i \in DOMAIN sessions : ~Done(i) => sessions[i].failed = {}
  /\ GivenInOrder /\ WrongItemsWereWrong
  /\ wish # NoWish /\ wish.mode = "wrong_items" =>
       wish.ids # {} /\ \A q \in wish.ids : \E k \in DOMAIN sessions : q \in sessions[k].failed

-----------------------------------------------------------------------------
(* Steps of the bank                                                       *)

(* A request that has begun to change a question has read one. *)
LEMMA DeskOfEditing ==
  ASSUME BankTypes, NEW a \in Admins, desk[a].op \in Editing
  PROVE  desk[a] \in Reading
  BY DEF BankTypes, Desk, Free, Editing, Uploading, Approval, Batch, Publication

(* The texts there are stay, and the one a new version refers to is among them. *)
LEMMA MaterialThere ==
  ASSUME materials \in [Materials -> Nat], NEW choice \in MaterialChoice, NEW was,
         was.material \in Materials \cup {None}, was.edition \in Nat, EditionExists(was),
         NEW material \in Materials \cup {None}, NEW edition \in Editions,
         MaterialFor(choice, was, material, edition)
  PROVE  /\ materials' \in [Materials -> Nat]
         /\ \A m \in Materials : materials'[m] >= materials[m]
         /\ edition \in Nat
         /\ material # None => edition \in 1..materials'[material]
<1>1. edition \in Nat
  <2>0. IsFiniteSet(Questions)
    BY BankIdsAssumption
  <2>1. Cardinality(Questions) \in Nat
    BY <2>0, FS_CardinalityType
  <2>2. MaxVersions \in Nat
    BY BankIdsAssumption
  <2>3. \A m, n \in Nat : m * n \in Nat
    OBVIOUS
  <2> QED  BY <2>1, <2>2, <2>3 DEF Editions
<1>2. None \notin Materials
  BY BankIdsAssumption
<1>3. CASE choice.way = "keep"
  BY <1>1, <1>2, <1>3 DEF MaterialFor, EditionExists
<1>4. CASE choice.way = "new"
  BY <1>1, <1>2, <1>4 DEF MaterialFor, NextMaterial
<1>5. CASE choice.way = "bump"
  BY <1>1, <1>2, <1>5 DEF MaterialFor
<1>6. CASE choice.way = "latest"
  BY <1>1, <1>2, <1>6 DEF MaterialFor
<1> QED  BY <1>3, <1>4, <1>5, <1>6 DEF MaterialFor

(* A step of a request that leaves the bank as it is. *)
LEMMA DeskStep ==
  ASSUME BankInv, NEW a \in Admins, NEW next \in Desk, Trusted(next),
         desk' = [desk EXCEPT ![a] = next],
         UNCHANGED <<questions, versions, materials, crossed>>
  PROVE  BankInv' /\ Keeps
<1>1. BankTypes'
  BY DEF BankInv, BankTypes
<1>2. CatalogueIsSound' /\ VersionsInv'
  BY DEF BankInv, CatalogueIsSound, CurrentIsNewest, HasAnswerIsTrue, StatusTellsTheTruth,
         VersionsInv, Exists, CurrentVersion, Selectable, EditionExists
<1>3. ReadingInv'
  <2> SUFFICES ASSUME NEW b \in Admins PROVE Trusted(desk[b])'
    BY DEF ReadingInv
  <2>1. Trusted(desk[b])
    BY DEF BankInv, ReadingInv
  <2>2. desk'[b] = IF b = a THEN next ELSE desk[b]
    BY DEF BankInv, BankTypes
  <2>3. CASE b = a
    BY <2>2, <2>3 DEF Trusted, Exists
  <2>4. CASE b # a
    BY <2>1, <2>2, <2>4 DEF Trusted, Exists
  <2> QED  BY <2>3, <2>4
<1>4. Keeps
  BY DEF Keeps, Exists, BankInv, BankTypes
<1> QED  BY <1>1, <1>2, <1>3, <1>4 DEF BankInv

(* Whatever is not a reading relies on nothing. *)
LEMMA NotReading ==
  ASSUME NEW d, d.op \notin Editing
  PROVE  Trusted(d)
  BY DEF Trusted

LEMMA LeavesStep ==
  ASSUME BankInv, NEW a \in Admins, Leaves(a),
         UNCHANGED <<questions, versions, materials, crossed>>
  PROVE  BankInv' /\ Keeps
<1>1. Free \in Desk /\ Free.op \notin Editing
  BY DEF Desk, Free, Editing
<1> QED  BY <1>1, NotReading, DeskStep DEF Leaves

LEMMA ReadsStep ==
  ASSUME BankInv, NEW a \in Admins, NEW op \in Editing, NEW q \in Questions, Reads(a, op, q),
         op = "review" => questions[q].status = "draft"
  PROVE  BankInv' /\ Keeps
<1> DEFINE next == [op |-> op, q |-> q, read |-> questions[q], no |-> 0]
<1>1. next \in Reading
  BY DEF BankInv, BankTypes, Reading
<1>2. Trusted(next)
  <2>1. questions[q].current = Len(versions[q]) /\ versions[q] # <<>> /\ versions[q] \in Seq(Version)
    BY DEF BankInv, BankTypes, CatalogueIsSound, CurrentIsNewest, VersionsInv, Reads
  <2>2. Len(versions[q]) \in Nat /\ Len(versions[q]) # 0
    BY <2>1
  <2> QED  BY <2>1, <2>2 DEF Trusted, Reads
<1>3. next \in Desk
  BY <1>1 DEF Desk
<1> QED  BY <1>2, <1>3, DeskStep DEF Reads

LEMMA NextVersionNoStep ==
  ASSUME BankInv, NEW a \in Admins, NextVersionNo(a)
  PROVE  BankInv' /\ Keeps
<1> DEFINE next == [desk[a] EXCEPT !.no = Len(versions[desk[a].q]) + 1]
<1>1. desk[a] \in Reading
  BY DeskOfEditing DEF BankInv, NextVersionNo, Editing
<1>2. Len(versions[desk[a].q]) \in Nat
  BY <1>1 DEF BankInv, BankTypes, Reading
<1>3. /\ next \in Reading /\ next.op = desk[a].op /\ next.q = desk[a].q
      /\ next.read = desk[a].read /\ next.no = Len(versions[desk[a].q]) + 1
  BY <1>1, <1>2 DEF Reading
<1>4. Trusted(next)
  BY <1>2, <1>3 DEF BankInv, ReadingInv, Trusted
<1>5. next \in Desk
  BY <1>3 DEF Desk
<1> HIDE DEF next
<1>6. desk' = [desk EXCEPT ![a] = next]
  BY DEF NextVersionNo, next
<1> QED  BY <1>4, <1>5, <1>6, DeskStep DEF NextVersionNo

(* A question with one version appears, in the transaction that frees the desk or turns *)
(* it to what is no reading.                                                            *)
LEMMA NewQuestionStep ==
  ASSUME BankInv, NEW q \in Questions, ~Exists(q), NEW version \in Version,
         NEW question \in Question, question.status \in {"draft", "published"},
         question.current = 1, question.published = (IF question.status = "published" THEN 1 ELSE 0),
         ~question.retired, question.hasAnswer <=> version.answer # "none",
         EditionExists(version)',
         versions' = [versions EXCEPT ![q] = <<version>>],
         questions' = [questions EXCEPT ![q] = question],
         materials' \in [Materials -> Nat], \A m \in Materials : materials'[m] >= materials[m],
         desk' \in [Admins -> Desk],
         \A a \in Admins : desk'[a] = desk[a] \/ desk'[a].op \notin Editing,
         UNCHANGED crossed
  PROVE  BankInv' /\ Keeps
<1>1. /\ questions' \in [Questions -> Question] /\ versions' \in [Questions -> Seq(Version)]
      /\ \A r \in Questions : r # q => questions'[r] = questions[r] /\ versions'[r] = versions[r]
      /\ questions'[q] = question /\ versions'[q] = <<version>>
  BY DEF BankInv, BankTypes
<1>2. BankTypes'
  BY <1>1 DEF BankInv, BankTypes
<1>3. CatalogueIsSound'
  <2>1. CurrentIsNewest'
    BY <1>1 DEF BankInv, CatalogueIsSound, CurrentIsNewest
  <2>2. HasAnswerIsTrue'
    BY <1>1 DEF BankInv, CatalogueIsSound, HasAnswerIsTrue, Exists, CurrentVersion
  <2>3. StatusTellsTheTruth'
    BY <1>1 DEF BankInv, CatalogueIsSound, StatusTellsTheTruth, Selectable
  <2> QED  BY <2>1, <2>2, <2>3 DEF CatalogueIsSound
<1>4. \A v \in Version : EditionExists(v) => EditionExists(v)'
  <2> SUFFICES ASSUME NEW v \in Version, EditionExists(v), v.material # None
               PROVE  v.edition \in 1..materials'[v.material]
    BY DEF EditionExists
  <2> QED  BY DEF EditionExists, Version, BankInv, BankTypes
<1>5. VersionsInv'
  <2> SUFFICES ASSUME NEW r \in Questions
               PROVE  /\ Exists(r)' => versions'[r] # <<>>
                      /\ questions'[r].published \in 0..Len(versions'[r])
                      /\ \A i \in 1..Len(versions'[r]) : EditionExists(versions[r][i])'
    BY DEF VersionsInv
  <2>1. CASE r = q
    BY <1>1, <2>1
  <2>2. CASE r # q
    <3>1. \A i \in 1..Len(versions[r]) : versions[r][i] \in Version
      BY DEF BankInv, BankTypes
    <3> QED  BY <1>1, <1>4, <2>2, <3>1 DEF BankInv, VersionsInv, Exists
  <2> QED  BY <2>1, <2>2
<1>6. ReadingInv'
  <2> SUFFICES ASSUME NEW b \in Admins, desk'[b].op \in Editing, desk'[b] = desk[b]
               PROVE  Trusted(desk[b])'
    BY DEF ReadingInv, Trusted
  <2>1. Trusted(desk[b]) /\ desk[b].q # q
    BY DEF BankInv, ReadingInv, Trusted
  <2>2. desk[b].q \in Questions
    BY DeskOfEditing DEF BankInv, Reading
  <2> QED  BY <1>1, <2>1, <2>2 DEF Trusted, Exists
<1>7. Keeps
  BY <1>1 DEF Keeps, Exists, BankInv, BankTypes
<1> QED  BY <1>2, <1>3, <1>5, <1>6, <1>7 DEF BankInv

LEMMA CreateQuestionStep ==
  ASSUME BankInv, NEW a \in Admins, NEW w \in roster.writes, roster \in Rosters,
         CreateQuestion(a, w.answer, w.kind, w.choice)
  PROVE  BankInv' /\ Keeps
<1>1. w.answer \in {"none", "admin"} /\ w.kind \in {"public", "ai"} /\ w.choice \in MaterialChoice
  BY FlowAssumption
<1>2. PICK q \in Questions, material \in Materials \cup {None}, edition \in Editions :
        /\ NextQuestion(q)
        /\ MaterialFor(w.choice, [material |-> None, edition |-> 0], material, edition)
        /\ versions' = [versions EXCEPT ![q] =
             <<[answer |-> w.answer, kind |-> w.kind, material |-> material, edition |-> edition]>>]
        /\ questions' = [questions EXCEPT ![q] =
             [NoQuestion EXCEPT !.status = "draft", !.current = 1, !.hasAnswer = (w.answer # "none")]]
  BY DEF CreateQuestion
<1> DEFINE version == [answer |-> w.answer, kind |-> w.kind, material |-> material, edition |-> edition]
           question == [NoQuestion EXCEPT !.status = "draft", !.current = 1,
                                          !.hasAnswer = (w.answer # "none")]
<1>3. /\ materials' \in [Materials -> Nat] /\ \A m \in Materials : materials'[m] >= materials[m]
      /\ edition \in Nat /\ (material # None => edition \in 1..materials'[material])
  <2> DEFINE was == [material |-> None, edition |-> 0]
  <2>1. EditionExists(was) /\ was.material \in Materials \cup {None} /\ was.edition \in Nat
    BY DEF EditionExists
  <2> HIDE DEF was
  <2>2. MaterialFor(w.choice, was, material, edition)
    BY <1>2 DEF was
  <2> QED  BY <1>1, <2>1, <2>2, MaterialThere DEF BankInv, BankTypes
<1>4. /\ version \in Version /\ version.answer = w.answer /\ EditionExists(version)'
      /\ question \in Question /\ question.status = "draft" /\ question.current = 1
      /\ question.published = 0 /\ question.retired = FALSE
      /\ question.hasAnswer = (w.answer # "none")
  BY <1>1, <1>3 DEF Version, Answers, EditionExists, Question, Status, NoQuestion
<1> HIDE DEF version, question
<1>5. /\ versions' = [versions EXCEPT ![q] = <<version>>]
      /\ questions' = [questions EXCEPT ![q] = question] /\ ~Exists(q)
  BY <1>2 DEF version, question, NextQuestion
<1>6. desk' \in [Admins -> Desk] /\ desk' = desk /\ UNCHANGED crossed
  BY DEF CreateQuestion, BankInv, BankTypes
<1> QED  BY <1>3, <1>4, <1>5, <1>6, NewQuestionStep

LEMMA UpdateQuestionStep ==
  ASSUME BankInv, NEW a \in Admins, NEW w \in roster.writes, roster \in Rosters,
         UpdateQuestion(a, w.answer, w.kind, w.choice)
  PROVE  BankInv' /\ Keeps
<1> DEFINE was == versions[desk[a].q][desk[a].read.current]
<1>1. w.answer \in {"none", "admin"} /\ w.kind \in {"public", "ai"} /\ w.choice \in MaterialChoice
  BY FlowAssumption
<1>2. PICK q \in Questions, no \in Nat :
      /\ q = desk[a].q /\ no = desk[a].no
      /\ desk[a].op = "update" /\ desk[a] \in Reading
      /\ Exists(q) /\ desk[a].read.current \in 1..Len(versions[q])
      /\ no <= Len(versions[q]) + 1
  <2>1. desk[a].op = "update" /\ desk[a].op \in Editing
    BY DEF UpdateQuestion, Editing
  <2>2. desk[a] \in Reading /\ Trusted(desk[a])
    BY <2>1, DeskOfEditing DEF BankInv, ReadingInv
  <2> QED  BY <2>1, <2>2 DEF Reading, Trusted
<1>3. versions[q] \in Seq(Version) /\ Len(versions[q]) \in Nat /\ no = Len(versions[q]) + 1
  <2>1. versions[q] \in Seq(Version) /\ Len(versions[q]) \in Nat
    BY <1>2 DEF BankInv, BankTypes
  <2>2. no > Len(versions[q])
    BY <1>2 DEF UpdateQuestion, NumberIsFree
  <2> QED  BY <1>2, <2>1, <2>2
<1>4. was \in Version /\ EditionExists(was)
  <2>1. was = versions[q][desk[a].read.current]
    BY <1>2
  <2> QED  BY <1>2, <1>3, <2>1 DEF BankInv, VersionsInv
<1>5. PICK material \in Materials \cup {None}, edition \in Editions :
        /\ MaterialFor(w.choice, was, material, edition)
        /\ versions' = [versions EXCEPT ![q] = Append(@,
             [answer |-> w.answer, kind |-> w.kind, material |-> material, edition |-> edition])]
  BY <1>2 DEF UpdateQuestion
<1> DEFINE version == [answer |-> w.answer, kind |-> w.kind, material |-> material, edition |-> edition]
           question == [questions[q] EXCEPT !.current = no, !.hasAnswer = (w.answer # "none")]
<1>6. /\ materials' \in [Materials -> Nat] /\ \A m \in Materials : materials'[m] >= materials[m]
      /\ edition \in Nat /\ (material # None => edition \in 1..materials'[material])
  <2>1. was.material \in Materials \cup {None} /\ was.edition \in Nat
    BY <1>4 DEF Version
  <2> HIDE DEF was
  <2> QED  BY <1>1, <1>4, <1>5, <2>1, MaterialThere DEF BankInv, BankTypes
<1>7. /\ version \in Version /\ version.answer = w.answer /\ EditionExists(version)'
  BY <1>1, <1>6 DEF Version, Answers, EditionExists
<1>8. /\ question \in Question /\ question.current = no /\ question.hasAnswer = (w.answer # "none")
      /\ question.status = questions[q].status /\ question.published = questions[q].published
      /\ question.retired = questions[q].retired
  <2>1. questions[q] \in Question
    BY <1>2 DEF BankInv, BankTypes
  <2> QED  BY <1>2, <2>1 DEF Question
<1>9. /\ versions' = [versions EXCEPT ![q] = Append(versions[q], version)]
      /\ questions' = [questions EXCEPT ![q] = question]
      /\ desk' = [desk EXCEPT ![a] = Free] /\ crossed' = crossed
  <2>1. questions' = [questions EXCEPT ![q].current = no, ![q].hasAnswer = (w.answer # "none")]
    BY <1>2 DEF UpdateQuestion, SetCurrentVersion
  <2> QED  BY <1>2, <1>5, <2>1 DEF UpdateQuestion, Leaves, BankInv, BankTypes
<1> HIDE DEF version, question, was
<1>10. /\ questions' \in [Questions -> Question] /\ versions' \in [Questions -> Seq(Version)]
       /\ \A r \in Questions : r # q => questions'[r] = questions[r] /\ versions'[r] = versions[r]
       /\ questions'[q] = question /\ versions'[q] = Append(versions[q], version)
       /\ Len(versions'[q]) = no /\ versions'[q][no] = version
       /\ \A i \in 1..Len(versions[q]) : versions'[q][i] = versions[q][i]
  <2>1. Append(versions[q], version) \in Seq(Version)
    BY <1>3, <1>7
  <2>2. /\ Len(Append(versions[q], version)) = no /\ Append(versions[q], version)[no] = version
        /\ \A i \in 1..Len(versions[q]) : Append(versions[q], version)[i] = versions[q][i]
    BY <1>3, <1>7
  <2> QED  BY <1>2, <1>8, <1>9, <2>1, <2>2 DEF BankInv, BankTypes
<1>11. /\ \A b \in Admins : b # a => desk'[b] = desk[b]
       /\ desk'[a] = Free /\ desk' \in [Admins -> Desk]
  BY <1>9 DEF BankInv, BankTypes, Desk
<1>12. BankTypes'
  BY <1>6, <1>9, <1>10, <1>11 DEF BankInv, BankTypes
<1>13. CatalogueIsSound'
  <2>1. CurrentIsNewest'
    BY <1>8, <1>10 DEF BankInv, CatalogueIsSound, CurrentIsNewest
  <2>2. HasAnswerIsTrue'
    <3> SUFFICES ASSUME NEW r \in Questions, Exists(r)'
                 PROVE  (questions'[r].hasAnswer <=> CurrentVersion(r)'.answer # "none")
      BY DEF HasAnswerIsTrue
    <3>1. CASE r = q
      BY <1>7, <1>8, <1>10, <3>1 DEF CurrentVersion
    <3>2. CASE r # q
      <4>1. Exists(r)
        BY <1>10, <3>2 DEF Exists
      <4> QED
        BY <1>10, <3>2, <4>1 DEF BankInv, CatalogueIsSound, HasAnswerIsTrue, CurrentVersion
    <3> QED  BY <3>1, <3>2
  <2>3. StatusTellsTheTruth'
    BY <1>8, <1>9, <1>10 DEF BankInv, CatalogueIsSound, StatusTellsTheTruth, Selectable
  <2> QED  BY <2>1, <2>2, <2>3 DEF CatalogueIsSound
<1>14. \A v \in Version : EditionExists(v) => EditionExists(v)'
  <2> SUFFICES ASSUME NEW v \in Version, EditionExists(v), v.material # None
               PROVE  v.edition \in 1..materials'[v.material]
    BY DEF EditionExists
  <2> QED  BY <1>6 DEF EditionExists, Version, BankInv, BankTypes
<1>15. VersionsInv'
  <2> SUFFICES ASSUME NEW r \in Questions
               PROVE  /\ Exists(r)' => versions'[r] # <<>>
                      /\ questions'[r].published \in 0..Len(versions'[r])
                      /\ \A i \in 1..Len(versions'[r]) : EditionExists(versions[r][i])'
    BY DEF VersionsInv
  <2>1. \A i \in 1..Len(versions[r]) : versions[r][i] \in Version /\ EditionExists(versions[r][i])
    BY DEF BankInv, BankTypes, VersionsInv
  <2>2. CASE r = q
    <3>1. versions'[q] # <<>>
      <4>1. Len(versions'[q]) # 0
        BY <1>3, <1>10
      <4> QED  BY <4>1
    <3>2. questions'[q].published \in 0..Len(versions'[q])
      BY <1>3, <1>8, <1>10, <1>2 DEF BankInv, VersionsInv
    <3>3. ASSUME NEW i \in 1..Len(versions'[q]) PROVE EditionExists(versions[q][i])'
      <4>1. CASE i = no
        <5>1. versions'[q][i] = version
          BY <1>10, <4>1
        <5> QED  BY <1>7, <5>1 DEF EditionExists
      <4>2. CASE i # no
        <5>1. i \in 1..Len(versions[q])
          BY <1>3, <1>10, <4>2
        <5>2. versions'[q][i] = versions[q][i]
          BY <1>10, <5>1
        <5>3. EditionExists(versions[q][i])  /\ versions[q][i] \in Version
          BY <2>1, <2>2, <5>1
        <5> DEFINE v == versions[q][i]
        <5>4. v.material # None => v.edition \in 1..materials'[v.material]
          BY <1>6, <5>3 DEF EditionExists, Version, BankInv, BankTypes
        <5> QED  BY <5>2, <5>4 DEF EditionExists
      <4> QED  BY <4>1, <4>2
    <3> QED  BY <2>2, <3>1, <3>2, <3>3
  <2>3. CASE r # q
    BY <1>10, <1>14, <2>1, <2>3 DEF BankInv, VersionsInv, Exists
  <2> QED  BY <2>2, <2>3
<1>16. ReadingInv'
  <2> SUFFICES ASSUME NEW b \in Admins, desk'[b].op \in Editing PROVE Trusted(desk[b])'
    BY DEF ReadingInv, Trusted
  <2>1. b # a /\ desk'[b] = desk[b]
    BY <1>11 DEF Free, Editing
  <2>2. Trusted(desk[b]) /\ desk[b] \in Reading
    BY <2>1, DeskOfEditing DEF BankInv, ReadingInv
  <2>3. desk[b].q \in Questions /\ desk[b].no \in Nat
    BY <2>2 DEF Reading
  <2>4. CASE desk[b].q = q
    BY <1>3, <1>8, <1>9, <1>10, <2>1, <2>2, <2>3, <2>4 DEF Trusted, Exists
  <2>5. CASE desk[b].q # q
    BY <1>9, <1>10, <2>1, <2>2, <2>3, <2>5 DEF Trusted, Exists
  <2> QED  BY <2>4, <2>5
<1>17. Keeps
  <2> SUFFICES ASSUME NEW r \in Questions, Exists(r)
               PROVE  /\ Exists(r)' /\ Len(versions[r]) <= Len(versions'[r])
                      /\ \A i \in 1..Len(versions[r]) : versions'[r][i] = versions[r][i]
    BY DEF Keeps
  <2>1. CASE r = q
    <3>1. Exists(q)'
      BY <1>2, <1>8, <1>10 DEF Exists
    <3>2. Len(versions[q]) <= Len(versions'[q])
      BY <1>3, <1>10
    <3> QED  BY <1>10, <2>1, <3>1, <3>2
  <2>2. CASE r # q
    BY <1>10, <2>2 DEF Exists, BankInv, BankTypes
  <2> QED  BY <2>1, <2>2
<1> QED  BY <1>12, <1>13, <1>15, <1>16, <1>17 DEF BankInv

(* A request decides about the question it has read. *)
LEMMA DecisionStep ==
  ASSUME BankInv, NEW a \in Admins, NEW q \in Questions, desk[a].op \in Editing, desk[a].q = q,
         NEW next \in Question, next.current = questions[q].current,
         next.hasAnswer = questions[q].hasAnswer,
         next.status \in {"in_review", "published", "retired"},
         next.published \in 0..Len(versions[q]),
         q \notin crossed' =>
           /\ next.published # 0 /\ ~next.retired <=> next.status = "published"
           /\ next.retired <=> next.status = "retired",
         questions' = [questions EXCEPT ![q] = next],
         Wrote(a, q), Leaves(a), UNCHANGED <<versions, materials>>
  PROVE  BankInv' /\ Keeps
<1>1. /\ questions' \in [Questions -> Question] /\ questions'[q] = next
      /\ \A r \in Questions : r # q => questions'[r] = questions[r]
  BY DEF BankInv, BankTypes
<1>2. /\ crossed' \subseteq Questions /\ \A r \in Questions : r \in crossed => r \in crossed'
      /\ \A r \in Questions : r # q /\ r \in crossed' => r \in crossed
  BY DEF BankInv, BankTypes, Wrote
<1>3. /\ desk' \in [Admins -> Desk] /\ desk'[a] = Free
      /\ \A b \in Admins : b # a => desk'[b] = desk[b]
  BY DEF Leaves, BankInv, BankTypes, Desk
<1>4. Exists(q) /\ Exists(q)'
  BY <1>1 DEF BankInv, ReadingInv, Trusted, Exists
<1>5. BankTypes'
  BY <1>1, <1>2, <1>3 DEF BankInv, BankTypes
<1>6. CatalogueIsSound'
  <2>1. CurrentIsNewest'
    BY <1>1 DEF BankInv, CatalogueIsSound, CurrentIsNewest
  <2>2. HasAnswerIsTrue'
    <3> SUFFICES ASSUME NEW r \in Questions, Exists(r)'
                 PROVE  (questions'[r].hasAnswer <=> CurrentVersion(r)'.answer # "none")
      BY DEF HasAnswerIsTrue
    <3>1. Exists(r) /\ questions'[r].current = questions[r].current
            /\ questions'[r].hasAnswer = questions[r].hasAnswer
      BY <1>1, <1>4 DEF Exists
    <3> QED  BY <3>1 DEF BankInv, CatalogueIsSound, HasAnswerIsTrue, CurrentVersion
  <2>3. StatusTellsTheTruth'
    <3> SUFFICES ASSUME NEW r \in Questions, r \notin crossed'
                 PROVE  /\ Selectable(r)' <=> questions'[r].status = "published"
                        /\ questions'[r].retired <=> questions'[r].status = "retired"
      BY DEF StatusTellsTheTruth
    <3>1. CASE r = q
      BY <1>1, <3>1 DEF Selectable
    <3>2. CASE r # q
      BY <1>1, <1>2, <3>2 DEF Selectable, BankInv, CatalogueIsSound, StatusTellsTheTruth
    <3> QED  BY <3>1, <3>2
  <2> QED  BY <2>1, <2>2, <2>3 DEF CatalogueIsSound
<1>7. VersionsInv'
  <2> SUFFICES ASSUME NEW r \in Questions
               PROVE  /\ Exists(r)' => versions'[r] # <<>>
                      /\ questions'[r].published \in 0..Len(versions'[r])
                      /\ \A i \in 1..Len(versions'[r]) : EditionExists(versions[r][i])'
    BY DEF VersionsInv
  <2>1. CASE r = q
    BY <1>1, <1>4, <2>1 DEF BankInv, VersionsInv, EditionExists
  <2>2. CASE r # q
    BY <1>1, <2>2 DEF BankInv, VersionsInv, EditionExists, Exists
  <2> QED  BY <2>1, <2>2
<1>8. ReadingInv'
  <2> SUFFICES ASSUME NEW b \in Admins, desk'[b].op \in Editing PROVE Trusted(desk[b])'
    BY DEF ReadingInv, Trusted
  <2>1. b # a /\ desk'[b] = desk[b]
    BY <1>3 DEF Free, Editing
  <2>2. Trusted(desk[b]) /\ desk[b] \in Reading
    BY <2>1, DeskOfEditing DEF BankInv, ReadingInv
  <2>3. desk[b].q \in Questions
    BY <2>2 DEF Reading
  <2>4. CASE desk[b].q = q
    <3>1. ~(desk[b].op = "review" /\ q \notin crossed')
      BY <2>1, <2>4 DEF Wrote, Crossing
    <3> QED  BY <1>1, <1>4, <2>1, <2>2, <2>4, <3>1 DEF Trusted
  <2>5. CASE desk[b].q # q
    <3>1. Exists(desk[b].q)'
      BY <1>1, <2>1, <2>2, <2>3, <2>5 DEF Trusted, Exists
    <3> QED  BY <1>1, <1>2, <2>1, <2>2, <2>3, <2>5, <3>1 DEF Trusted
  <2> QED  BY <2>4, <2>5
<1>9. Keeps
  BY <1>1, <1>4 DEF Keeps, Exists, BankInv, BankTypes
<1> QED  BY <1>5, <1>6, <1>7, <1>8, <1>9 DEF BankInv

LEMMA PublishStep ==
  ASSUME BankInv, NEW a \in Admins, Publish(a)
  PROVE  BankInv' /\ Keeps
<1>1. desk[a].op \in Editing
  BY DEF Publish, Editing
<1>2. PICK q \in Questions : q = desk[a].q /\ questions[q] \in Question
                               /\ desk[a].read.current \in 1..Len(versions[q])
  BY <1>1, DeskOfEditing DEF BankInv, BankTypes, ReadingInv, Trusted, Reading
<1> DEFINE next == Published(questions[q], desk[a].read.current)
<1>3. versions[q] \in Seq(Version) /\ Len(versions[q]) \in Nat
  BY DEF BankInv, BankTypes
<1>4. /\ desk[a].read.current \in Nat /\ desk[a].read.current \in 0..Len(versions[q])
      /\ desk[a].read.current # 0
  BY <1>2, <1>3
<1>5. /\ next \in Question /\ next.current = questions[q].current
      /\ next.hasAnswer = questions[q].hasAnswer /\ next.status = "published"
      /\ next.published = desk[a].read.current /\ next.retired = FALSE
  BY <1>2, <1>4 DEF Published, Question, Status
<1> HIDE DEF next
<1>6. questions' = [questions EXCEPT ![q] = next] /\ Wrote(a, q)
  BY <1>2 DEF Publish, next
<1> QED  BY <1>1, <1>2, <1>4, <1>5, <1>6, DecisionStep DEF Publish

LEMMA RetireStep ==
  ASSUME BankInv, NEW a \in Admins, Retire(a)
  PROVE  BankInv' /\ Keeps
<1>1. desk[a].op \in Editing
  BY DEF Retire, Editing
<1>2. PICK q \in Questions : q = desk[a].q /\ questions[q] \in Question
  BY <1>1, DeskOfEditing DEF BankInv, BankTypes, Reading
<1> DEFINE next == [questions[q] EXCEPT !.status = "retired", !.retired = TRUE]
<1>3. /\ next \in Question /\ next.current = questions[q].current
      /\ next.hasAnswer = questions[q].hasAnswer /\ next.status = "retired"
      /\ next.published = questions[q].published /\ next.retired = TRUE
  BY <1>2 DEF Question, Status
<1>4. next.published \in 0..Len(versions[q])
  BY <1>3 DEF BankInv, VersionsInv
<1>5. questions' = [questions EXCEPT ![q] = next] /\ Wrote(a, q)
  <2>1. questions' = [questions EXCEPT ![q].status = "retired", ![q].retired = TRUE]
    BY <1>2 DEF Retire
  <2> QED  BY <1>2, <2>1 DEF Retire, BankInv, BankTypes
<1> HIDE DEF next
<1> QED  BY <1>1, <1>2, <1>3, <1>4, <1>5, DecisionStep DEF Retire

LEMMA SubmitReviewStep ==
  ASSUME BankInv, NEW a \in Admins, SubmitReview(a)
  PROVE  BankInv' /\ Keeps
<1>1. desk[a].op = "review" /\ desk[a].op \in Editing
  BY DEF SubmitReview, Editing
<1>2. PICK q \in Questions : q = desk[a].q /\ questions[q] \in Question
                               /\ (q \notin crossed => questions[q].status = "draft")
  BY <1>1, DeskOfEditing DEF BankInv, BankTypes, ReadingInv, Trusted, Reading
<1> DEFINE next == [questions[q] EXCEPT !.status = "in_review"]
<1>3. /\ next \in Question /\ next.current = questions[q].current
      /\ next.hasAnswer = questions[q].hasAnswer /\ next.status = "in_review"
      /\ next.published = questions[q].published /\ next.retired = questions[q].retired
  BY <1>2 DEF Question, Status
<1>4. next.published \in 0..Len(versions[q])
  BY <1>3 DEF BankInv, VersionsInv
<1>5. questions' = [questions EXCEPT ![q] = next] /\ Wrote(a, q)
  BY <1>2 DEF SubmitReview, BankInv, BankTypes
<1>6. q \notin crossed' => ~(next.published # 0 /\ ~next.retired) /\ ~next.retired
  <2> SUFFICES ASSUME q \notin crossed' PROVE q \notin crossed
    BY <1>2, <1>3 DEF BankInv, CatalogueIsSound, StatusTellsTheTruth, Selectable
  <2> QED  BY <1>5 DEF Wrote
<1> HIDE DEF next
<1> QED  BY <1>1, <1>2, <1>3, <1>4, <1>5, <1>6, DecisionStep DEF SubmitReview

(* What is done to the bank with a form: to write, to decide, to give up. *)
LEMMA BankStep ==
  ASSUME BankInv, roster \in Rosters, NEW a \in Admins, Creating(a) \/ Updating(a) \/ Deciding(a)
  PROVE  BankInv' /\ Keeps
<1>1. CASE Creating(a)
  BY <1>1, CreateQuestionStep DEF Creating
<1>2. ASSUME NEW q \in Questions, BeginUpdate(a, q) PROVE BankInv' /\ Keeps
  BY <1>2, ReadsStep DEF BeginUpdate, Editing
<1>3. ASSUME NEW q \in Questions, BeginPublish(a, q) PROVE BankInv' /\ Keeps
  BY <1>3, ReadsStep DEF BeginPublish, Editing
<1>4. ASSUME NEW q \in Questions, BeginRetire(a, q) PROVE BankInv' /\ Keeps
  BY <1>4, ReadsStep DEF BeginRetire, Editing
<1>5. ASSUME NEW q \in Questions, BeginReview(a, q) PROVE BankInv' /\ Keeps
  BY <1>5, ReadsStep DEF BeginReview, Editing
<1>6. ASSUME Fails(a) PROVE BankInv' /\ Keeps
  BY <1>6, LeavesStep DEF Fails
<1>7. CASE Updating(a)
  BY <1>2, <1>6, <1>7, NextVersionNoStep, UpdateQuestionStep DEF Updating
<1>8. CASE Deciding(a)
  BY <1>3, <1>4, <1>5, <1>6, <1>8, PublishStep, RetireStep, SubmitReviewStep DEF Deciding
<1> QED  BY <1>1, <1>7, <1>8

-----------------------------------------------------------------------------
(* Steps of an import                                                      *)

LEMMA DeskOfApproval ==
  ASSUME BankTypes, NEW a \in Admins, desk[a].op = "approve"
  PROVE  desk[a] \in Approval
  BY DEF BankTypes, Desk, Free, Editing, Reading, Uploading, Batch, Publication

LEMMA DeskOfBatch ==
  ASSUME BankTypes, NEW a \in Admins, desk[a].op = "batch"
  PROVE  desk[a] \in Batch
  BY SMTT(30) DEF BankTypes, Desk, Free, Editing, Reading, Uploading, Approval, Publication

LEMMA DeskOfPublication ==
  ASSUME BankTypes, NEW a \in Admins, desk[a].op = "publishItem"
  PROVE  desk[a] \in Publication
  BY DEF BankTypes, Desk, Free, Editing, Reading, Uploading, Approval, Batch

LEMMA BatchAfterIsDesk ==
  ASSUME NEW j \in Jobs, NEW todo \in SUBSET Positions
  PROVE  BatchAfter(j, todo) \in Desk /\ BatchAfter(j, todo).op \in {"free", "batch"}
  BY DEF BatchAfter, Desk, Batch, Free

LEMMA VersionThere ==
  ASSUME BankInv, NEW q \in Questions, Exists(q)
  PROVE  /\ versions[q] \in Seq(Version)
         /\ questions[q].current \in 1..Len(versions[q])
         /\ CurrentVersion(q) \in Version
<1>1. versions[q] \in Seq(Version) /\ versions[q] # <<>> /\ questions[q].current = Len(versions[q])
  BY DEF BankInv, BankTypes, VersionsInv, CatalogueIsSound, CurrentIsNewest
<1>2. Len(versions[q]) \in Nat /\ Len(versions[q]) # 0
  BY <1>1
<1> QED  BY <1>1, <1>2 DEF CurrentVersion

(* A question's first version and its being moved are there to stay. *)
LEMMA StartStays ==
  ASSUME BankInv, BankInv', Keeps, NEW q \in Questions, Exists(q)
  PROVE  Exists(q)' /\ versions'[q][1] = versions[q][1] /\ (Moved(q) => Moved(q)')
<1>1. versions[q] \in Seq(Version) /\ versions[q] # <<>>
  BY DEF BankInv, BankTypes, VersionsInv
<1>2. 1 \in 1..Len(versions[q]) /\ Len(versions[q]) \in Nat
  BY <1>1
<1>3. versions'[q][1] = versions[q][1] /\ Exists(q)'
  BY <1>2 DEF Keeps
<1>4. Len(versions'[q]) \in Nat
  BY DEF BankInv, BankTypes
<1>5. Moved(q) => Moved(q)'
  BY <1>2, <1>3, <1>4 DEF Keeps, Moved, FirstMaterial
<1> QED  BY <1>3, <1>5

LEMMA PublishedExist ==
  ASSUME ItemsInv, ImportTypes, NEW j \in Jobs, NEW key, NEW q \in PublishedFor(j, key)
  PROVE  q \in Questions /\ Exists(q)
<1>1. PICK p \in Positions : q = items[j][p].question /\ items[j][p].question # None
  BY DEF PublishedFor
<1>2. items[j][p] \in Item
  BY DEF ImportTypes
<1> QED  BY <1>1, <1>2 DEF ItemsInv, Item

(* What is agreed stays so as long as the questions of the job for the key are the same. *)
LEMMA AgreementStays ==
  ASSUME BankInv, BankInv', Keeps, ItemsInv, ImportTypes, NEW j \in Jobs, NEW key, NEW shared,
         PublishedFor(j, key)' = PublishedFor(j, key)
  PROVE  /\ Agreed(j, key, shared) => Agreed(j, key, shared)'
         /\ OneMaterial(j, key) => OneMaterial(j, key)'
<1>1. \A q \in PublishedFor(j, key) :
        FirstMaterial(q)' = FirstMaterial(q) /\ (Moved(q) => Moved(q)')
  BY PublishedExist, StartStays DEF FirstMaterial
<1> HIDE DEF PublishedFor, Moved, FirstMaterial
<1> QED  BY <1>1 DEF Agreed, OneMaterial

LEMMA OneMaterialIs ==
  OneMaterialPerKey <=> \A j \in Jobs, key \in Keys \ {""} : OneMaterial(j, key)
<1> HIDE DEF PublishedFor, Moved, FirstMaterial
<1> QED  BY DEF OneMaterialPerKey, OneMaterial

(* A step that leaves the questions of the jobs as they are leaves their materials alone. *)
LEMMA MaterialsStay ==
  ASSUME BankInv, BankInv', Keeps, ItemsSound,
         \A j \in Jobs, key \in Keys : PublishedFor(j, key)' = PublishedFor(j, key)
  PROVE  OneMaterialPerKey'
<1>1. \A j \in Jobs, key \in Keys \ {""} : OneMaterial(j, key)
  BY OneMaterialIs DEF ItemsSound, ImportIsSound
<1>2. \A j \in Jobs, key \in Keys \ {""} : OneMaterial(j, key)'
  BY <1>1, AgreementStays DEF ItemsSound
<1> HIDE DEF PublishedFor, Moved, FirstMaterial
<1> QED  BY <1>2 DEF OneMaterialPerKey, OneMaterial

(* A step that leaves jobs and items as they are. *)
LEMMA ItemsKept ==
  ASSUME BankInv, BankInv', Keeps, ItemsSound, UNCHANGED importVars
  PROVE  ItemsSound'
<1>1. ImportTypes' /\ JobIsPublishedWithItsItems' /\ PublishedAsApproved'
  BY DEF ItemsSound, ImportTypes, ImportIsSound, JobIsPublishedWithItsItems, PublishedAsApproved,
         importVars
<1>2. \A j \in Jobs, key \in Keys : PublishedFor(j, key)' = PublishedFor(j, key)
  BY DEF PublishedFor, importVars
<1>3. OneMaterialPerKey'
  BY <1>2, MaterialsStay
<1>4. TextIsPublished' /\ AnswersAreConfirmed' /\ ItemsInv'
  <2> SUFFICES ASSUME NEW j \in Jobs, NEW p \in Positions
               PROVE  /\ items'[j][p].question # None =>
                           /\ Exists(items[j][p].question)'
                           /\ (versions[items[j][p].question][1].answer = "source")' =>
                                FileItem[p].form = "object"
                           /\ items'[j][p].draft.text => FirstMaterial(items[j][p].question)' # None
                      /\ jobs'[j] = "absent" => items'[j][p].status = "absent"
                      /\ items'[j][p].status = "published" <=> items'[j][p].question # None
                      /\ items'[j][p].draft.answer = "source" => FileItem[p].form = "object"
    BY DEF TextIsPublished, AnswersAreConfirmed, ItemsInv
  <2>1. items[j][p].question # None =>
          items[j][p].question \in Questions /\ Exists(items[j][p].question)
    BY DEF ItemsSound, ImportTypes, Item, ItemsInv
  <2>2. ASSUME NEW q \in Questions, q = items[j][p].question, Exists(q)
        PROVE  /\ Exists(q)' /\ (versions'[q][1].answer = "source" => FileItem[p].form = "object")
               /\ items[j][p].draft.text => FirstMaterial(q)' # None
    <3>1. Exists(q)' /\ versions'[q][1] = versions[q][1]
      BY <2>2, StartStays
    <3>2. q # None
      BY BankIdsAssumption
    <3>3. versions[q][1].answer = "source" => FileItem[p].form = "object"
      BY <2>2, <3>2 DEF ItemsSound, ImportIsSound, AnswersAreConfirmed
    <3>4. items[j][p].draft.text => FirstMaterial(q) # None
      BY <2>2, <3>2 DEF ItemsSound, ImportIsSound, TextIsPublished
    <3> QED  BY <3>1, <3>3, <3>4 DEF FirstMaterial
  <2> QED  BY <2>1, <2>2 DEF ItemsSound, ItemsInv, importVars
<1> QED  BY <1>1, <1>3, <1>4 DEF ItemsSound, ImportIsSound

(* What a request relies on stays so when jobs and items do. *)
LEMMA RequestKept ==
  ASSUME BankInv, BankInv', Keeps, ItemsSound, UNCHANGED importVars,
         NEW d \in Desk
  PROVE  (Timely(d) => Timely(d)') /\ (Holding(d) => Holding(d)')
<1>1. Timely(d) => Timely(d)'
  BY DEF Timely, importVars
<1>2. ASSUME Holding(d) PROVE Holding(d)'
  <2> SUFFICES ASSUME d.op = "publishItem" PROVE Holding(d)'
    BY DEF Holding
  <2>1. d.j \in Jobs
    BY DEF Desk, Free, Editing, Reading, Uploading, Approval, Batch, Publication
  <2>2. PublishedFor(d.j, d.draft.key)' = PublishedFor(d.j, d.draft.key)
    BY DEF PublishedFor, importVars
  <2>3. Agreed(d.j, d.draft.key, d.shared) => Agreed(d.j, d.draft.key, d.shared)'
    BY <2>1, <2>2, AgreementStays DEF ItemsSound
  <2> HIDE DEF Agreed
  <2> QED  BY <1>2, <2>3 DEF Holding, importVars
<1> QED  BY <1>1, <1>2

(* A step of a request that leaves jobs and items as they are. *)
LEMMA ImportKept ==
  ASSUME BankInv, BankInv', Keeps, ImportInv, UNCHANGED importVars,
         \A b \in Admins : desk'[b] = desk[b] \/ (Timely(desk'[b]) /\ Holding(desk'[b])),
         OnePublication'
  PROVE  ImportInv'
<1>1. ItemsSound'
  BY ItemsKept DEF ImportInv
<1>2. ASSUME NEW b \in Admins PROVE Timely(desk[b])' /\ Holding(desk[b])'
  <2>1. PICK d \in Desk : d = desk'[b]
    BY DEF BankInv, BankTypes
  <2>2. Timely(d) /\ Holding(d)
    BY <2>1 DEF ImportInv, ApprovalInv, PublicationInv
  <2>3. Timely(d)' /\ Holding(d)'
    BY <2>2, RequestKept DEF ImportInv
  <2> QED  BY <2>1, <2>3 DEF Timely, Holding
<1> QED  BY <1>1, <1>2 DEF ImportInv, ApprovalInv, PublicationInv

(* A request other than a publication replaces what is on the desk. *)
LEMMA ImportDeskStep ==
  ASSUME BankInv, ImportInv, UNCHANGED <<questions, versions, materials, crossed>>,
         UNCHANGED importVars, NEW a \in Admins, NEW next \in Desk,
         desk' = [desk EXCEPT ![a] = next], next.op \notin Editing,
         Timely(next), Holding(next),
         next.op = "publishItem" =>
           \A b \in Admins \ {a} : desk[b].op = "publishItem" => desk[b].j # next.j
  PROVE  BankInv' /\ ImportInv'
<1>1. BankInv' /\ Keeps
  BY NotReading, DeskStep
<1>2. /\ desk'[a] = next
      /\ \A b \in Admins : b # a => desk'[b] = desk[b]
  BY DEF BankInv, BankTypes
<1>3. OnePublication'
  BY <1>2 DEF OnePublication, ImportInv, PublicationInv
<1>4. \A b \in Admins : desk'[b] = desk[b] \/ (Timely(desk'[b]) /\ Holding(desk'[b]))
  BY <1>2
<1> QED  BY <1>1, <1>3, <1>4, ImportKept

(* Writing and deciding touch no publication and no approval. *)
LEMMA BankStepDesk ==
  ASSUME BankTypes, NEW a \in Admins, Creating(a) \/ Updating(a) \/ Deciding(a)
  PROVE  \A b \in Admins : desk'[b] = desk[b] \/ desk'[b].op \in Editing \cup {"free"}
<1> DEFINE Quiet == \A b \in Admins : desk'[b] = desk[b] \/ desk'[b].op \in Editing \cup {"free"}
<1>1. ASSUME NEW next, next.op \in Editing \cup {"free"}, desk' = [desk EXCEPT ![a] = next]
      PROVE  Quiet
  BY <1>1 DEF BankTypes
<1>2. ASSUME Leaves(a) PROVE Quiet
  BY <1>1, <1>2 DEF Leaves, Free
<1>3. ASSUME NEW op \in Editing, NEW q \in Questions, Reads(a, op, q) PROVE Quiet
  BY <1>1, <1>3 DEF Reads
<1>4. ASSUME NextVersionNo(a) PROVE Quiet
  <2> DEFINE next == [desk[a] EXCEPT !.no = Len(versions[desk[a].q]) + 1]
  <2>1. desk[a] \in Reading
    BY <1>4, DeskOfEditing DEF NextVersionNo, Editing
  <2>2. next.op \in Editing
    BY <2>1 DEF Reading
  <2> HIDE DEF next
  <2>3. desk' = [desk EXCEPT ![a] = next]
    BY <1>4 DEF NextVersionNo, next
  <2> QED  BY <1>1, <2>2, <2>3
<1> SUFFICES Quiet OBVIOUS
<1> HIDE DEF Quiet
<1>5. CASE Creating(a)
  BY <1>5 DEF Creating, CreateQuestion, Quiet
<1>6. ASSUME NEW q \in Questions,
             BeginUpdate(a, q) \/ BeginPublish(a, q) \/ BeginRetire(a, q) \/ BeginReview(a, q)
      PROVE  Quiet
  <2>1. PICK op \in Editing : Reads(a, op, q)
    BY <1>6 DEF BeginUpdate, BeginPublish, BeginRetire, BeginReview, Editing
  <2> QED  BY <1>3, <2>1
<1>7. ASSUME Fails(a) \/ Publish(a) \/ Retire(a) \/ SubmitReview(a) PROVE Quiet
  <2>1. Leaves(a)
    BY <1>7 DEF Fails, Publish, Retire, SubmitReview
  <2> QED  BY <1>2, <2>1
<1>8. ASSUME NEW w \in roster.writes, UpdateQuestion(a, w.answer, w.kind, w.choice) PROVE Quiet
  <2>1. Leaves(a)
    BY <1>8 DEF UpdateQuestion
  <2> QED  BY <1>2, <2>1
<1>9. CASE Updating(a)
  BY <1>4, <1>6, <1>7, <1>8, <1>9 DEF Updating
<1>10. CASE Deciding(a)
  BY <1>6, <1>7, <1>10 DEF Deciding
<1> QED  BY <1>5, <1>9, <1>10

LEMMA BankStepKeepsImports ==
  ASSUME BankInv, ImportInv, roster \in Rosters, NEW a \in Admins,
         Creating(a) \/ Updating(a) \/ Deciding(a), UNCHANGED importVars
  PROVE  BankInv' /\ ImportInv'
<1>1. BankInv' /\ Keeps
  BY BankStep
<1>2. \A b \in Admins : desk'[b] = desk[b] \/ desk'[b].op \in Editing \cup {"free"}
  BY BankStepDesk DEF BankInv
<1>3. OnePublication'
  BY <1>2 DEF OnePublication, ImportInv, PublicationInv, Editing
<1>4. \A b \in Admins : desk'[b] = desk[b] \/ (Timely(desk'[b]) /\ Holding(desk'[b]))
  BY <1>2 DEF Timely, Holding, Editing
<1> QED  BY <1>1, <1>3, <1>4, ImportKept

(* Requests that begin, give up or find nothing to do. *)
LEMMA ImportDeskKept ==
  ASSUME BankInv, ImportInv, UNCHANGED <<questions, versions, materials, crossed, importVars>>,
         NEW a \in Admins, NEW next \in Desk, desk' = [desk EXCEPT ![a] = next],
         next.op \in {"free", "upload", "batch"}
  PROVE  BankInv' /\ ImportInv'
<1>1. Timely(next) /\ Holding(next) /\ next.op \notin Editing /\ next.op # "publishItem"
  BY DEF Timely, Holding, Editing
<1> QED  BY <1>1, ImportDeskStep

LEMMA BeginUploadStep ==
  ASSUME BankInv, ImportInv, NEW a \in Admins, NEW again, BeginUpload(a, again)
  PROVE  BankInv' /\ ImportInv'
<1>1. [op |-> "upload"] \in Desk
  BY DEF Desk, Uploading
<1> QED  BY <1>1, ImportDeskKept DEF BeginUpload

LEMMA UploadFailsStep ==
  ASSUME BankInv, ImportInv, NEW a \in Admins, UploadFails(a)
  PROVE  BankInv' /\ ImportInv'
<1>1. Free \in Desk /\ Free.op = "free"
  BY DEF Desk, Free
<1> QED  BY <1>1, ImportDeskKept DEF UploadFails, Leaves

LEMMA PublishApprovedStep ==
  ASSUME BankInv, ImportInv, NEW a \in Admins, NEW j \in Jobs, NEW chosen \in SUBSET Positions,
         PublishApproved(a, j, chosen)
  PROVE  BankInv' /\ ImportInv'
<1>1. [op |-> "batch", j |-> j, todo |-> chosen] \in Desk
  BY DEF Desk, Batch
<1> QED  BY <1>1, ImportDeskKept DEF PublishApproved

LEMMA PublishFailsStep ==
  ASSUME BankInv, ImportInv, NEW a \in Admins, PublishFails(a)
  PROVE  BankInv' /\ ImportInv'
<1>1. PICK j \in Jobs, todo \in SUBSET Positions : j = desk[a].j /\ todo = desk[a].todo
  BY DeskOfPublication DEF BankInv, PublishFails, Publication
<1>2. BatchAfter(j, todo) \in Desk /\ BatchAfter(j, todo).op \in {"free", "batch"}
  BY BatchAfterIsDesk
<1> QED  BY <1>1, <1>2, ImportDeskKept DEF PublishFails

LEMMA BeginApproveStep ==
  ASSUME BankInv, ImportInv, NEW a \in Admins, NEW j \in Jobs, NEW p \in Positions,
         BeginApprove(a, j, p)
  PROVE  BankInv' /\ ImportInv'
<1> DEFINE next == [op |-> "approve", j |-> j, p |-> p]
<1>2. next \in Desk
  BY DEF Desk, Approval
<1>3. Timely(next) /\ Holding(next) /\ next.op \notin Editing /\ next.op # "publishItem"
  BY DEF Timely, Holding, Editing, BeginApprove, Unpublished
<1> HIDE DEF next
<1>4. desk' = [desk EXCEPT ![a] = next]
  BY DEF BeginApprove, next
<1> QED  BY <1>2, <1>3, <1>4, ImportDeskStep DEF BeginApprove

(* The materials a publication finds are those the questions started out with. *)
LEMMA SharedIsAgreed ==
  ASSUME BankInv, ItemsSound, NEW j \in Jobs, NEW key \in Keys
  PROVE  /\ SharedMaterials(j, key) \subseteq Materials
         /\ key # "" => Agreed(j, key, SharedMaterials(j, key))
<1>1. ASSUME NEW q \in PublishedFor(j, key)
      PROVE  /\ CurrentVersion(q).material \in Materials \cup {None}
             /\ ~Moved(q) => CurrentVersion(q).material = FirstMaterial(q)
  <2>1. q \in Questions /\ Exists(q)
    BY PublishedExist DEF ItemsSound
  <2>2. CurrentVersion(q) \in Version /\ questions[q].current \in 1..Len(versions[q])
    BY <2>1, VersionThere
  <2> QED  BY <2>2 DEF CurrentVersion, Moved, FirstMaterial, Version
<1>2. SharedMaterials(j, key) \subseteq Materials
  BY <1>1 DEF SharedMaterials
<1>3. ASSUME key # "" PROVE Agreed(j, key, SharedMaterials(j, key))
  <2>1. OneMaterial(j, key)
    BY <1>3, OneMaterialIs DEF ItemsSound, ImportIsSound
  <2>2. SharedMaterials(j, key) = {CurrentVersion(q).material : q \in PublishedFor(j, key)} \ {None}
    BY <1>3 DEF SharedMaterials
  <2> HIDE DEF PublishedFor, Moved, FirstMaterial, CurrentVersion
  <2>3. CASE \E q \in PublishedFor(j, key) : Moved(q)
    BY <2>3 DEF Agreed
  <2>4. CASE \A q \in PublishedFor(j, key) : ~Moved(q) /\ FirstMaterial(q) = None
    <3>1. SharedMaterials(j, key) = {}
      BY <1>1, <2>2, <2>4
    <3> QED  BY <2>4, <3>1 DEF Agreed
  <2>5. CASE /\ \A q \in PublishedFor(j, key) : ~Moved(q)
             /\ \E q \in PublishedFor(j, key) : FirstMaterial(q) # None
    <3>1. PICK q \in PublishedFor(j, key) : FirstMaterial(q) # None
      BY <2>5
    <3>2. \A r \in PublishedFor(j, key) :
            /\ CurrentVersion(r).material = FirstMaterial(r)
            /\ FirstMaterial(r) \in {FirstMaterial(q), None}
      BY <1>1, <2>1, <2>5, <3>1 DEF OneMaterial
    <3>3. SharedMaterials(j, key) = {FirstMaterial(q)} /\ FirstMaterial(q) \in Materials
      BY <1>2, <2>2, <3>1, <3>2
    <3> QED  BY <3>2, <3>3 DEF Agreed
  <2> QED  BY <2>3, <2>4, <2>5
<1> QED  BY <1>2, <1>3

LEMMA ItemForPublishStep ==
  ASSUME BankInv, ImportInv, NEW a \in Admins, ItemForPublish(a)
  PROVE  BankInv' /\ ImportInv'
<1>1. PICK j \in Jobs, todo \in SUBSET Positions :
        j = desk[a].j /\ todo = desk[a].todo /\ desk[a].op = "batch"
  BY DeskOfBatch DEF BankInv, ItemForPublish, Batch
<1>2. PICK p \in todo :
        /\ ~Locked(j, p)
        /\ desk' = [desk EXCEPT ![a] =
             IF items[j][p].status = "approved"
             THEN [op |-> "publishItem", j |-> j, p |-> p, todo |-> todo \ {p},
                   draft |-> items[j][p].draft,
                   shared |-> SharedMaterials(j, items[j][p].draft.key)]
             ELSE BatchAfter(j, todo \ {p})]
  BY <1>1 DEF ItemForPublish
<1>3. CASE items[j][p].status # "approved"
  <2>1. BatchAfter(j, todo \ {p}) \in Desk /\ BatchAfter(j, todo \ {p}).op \in {"free", "batch"}
    BY BatchAfterIsDesk
  <2> QED  BY <1>2, <1>3, <2>1, ImportDeskKept DEF ItemForPublish
<1>4. CASE items[j][p].status = "approved"
  <2> DEFINE draft == items[j][p].draft
             shared == SharedMaterials(j, draft.key)
             next == [op |-> "publishItem", j |-> j, p |-> p, todo |-> todo \ {p},
                      draft |-> draft, shared |-> shared]
  <2>1. draft \in Draft /\ draft.key \in Keys
    BY DEF ImportInv, ItemsSound, ImportTypes, Item, Draft
  <2>2. draft.key # "" => Agreed(j, draft.key, shared)
    BY <2>1, SharedIsAgreed DEF ImportInv
  <2>3. shared \subseteq Materials
    BY <2>1, SharedIsAgreed DEF ImportInv
  <2>4. next \in Desk
    BY <2>1, <2>3 DEF Desk, Publication
  <2>5. /\ next.op = "publishItem" /\ next.op \notin Editing /\ next.j = j
        /\ Timely(next) /\ (Agreed(j, draft.key, shared) \/ draft.key = "" => Holding(next))
    BY <1>4 DEF Timely, Holding, Editing
  <2> HIDE DEF next, shared
  <2>6. desk' = [desk EXCEPT ![a] = next]
    BY <1>2, <1>4 DEF next, shared
  <2>7. \A b \in Admins : desk[b].op = "publishItem" => desk[b].j # j
    BY <1>2 DEF Locked
  <2> QED  BY <2>2, <2>4, <2>5, <2>6, <2>7, ImportDeskStep DEF ItemForPublish
<1> QED  BY <1>3, <1>4

(* One item that is not published is replaced by a step that leaves the bank alone. *)
LEMMA ItemStep ==
  ASSUME BankInv, BankInv', ImportInv, UNCHANGED <<questions, versions, jobs>>,
         NEW j \in Jobs, NEW p \in Positions, Unpublished(j, p), NEW next \in Item,
         next.status \in {"pending", "approved"}, next.question = items[j][p].question,
         next.draft.answer = "source" => items[j][p].draft.answer = "source",
         next.status = "approved" => next.approved = next.draft.rev,
         items' = [items EXCEPT ![j][p] = next],
         \A b \in Admins : desk'[b].op = "publishItem" =>
           desk'[b] = desk[b] /\ ~(desk[b].j = j /\ desk[b].p = p),
         \A b \in Admins : desk'[b].op = "approve" => desk'[b] = desk[b]
  PROVE  ImportInv'
<1>1. /\ items' \in [Jobs -> [Positions -> Item]] /\ items'[j][p] = next
      /\ \A i \in Jobs, o \in Positions : i # j \/ o # p => items'[i][o] = items[i][o]
  BY DEF ImportInv, ItemsSound, ImportTypes
<1>2. ImportTypes'
  BY <1>1 DEF ImportInv, ItemsSound, ImportTypes
<1>3. /\ \A i \in Jobs, o \in Positions :
           /\ items'[i][o].question = items[i][o].question
           /\ items[i][o].question # None => items'[i][o] = items[i][o]
           /\ items'[i][o].status = "published" <=> items[i][o].status = "published"
  BY <1>1 DEF Unpublished, ImportInv, ItemsSound, ItemsInv
<1>4. \A i \in Jobs, key \in Keys : PublishedFor(i, key)' = PublishedFor(i, key)
  <2> SUFFICES ASSUME NEW i \in Jobs, NEW key \in Keys
               PROVE  PublishedFor(i, key)' = PublishedFor(i, key)
    OBVIOUS
  <2> DEFINE keyed == {o \in Positions : items[i][o].question # None /\ items[i][o].draft.key = key}
  <2>1. keyed' = keyed
    <3>1. \A o \in Positions : (items'[i][o].question # None /\ items'[i][o].draft.key = key)
            <=> (items[i][o].question # None /\ items[i][o].draft.key = key)
      BY <1>3
    <3> QED  BY <3>1
  <2>2. PublishedFor(i, key) = {items[i][o].question : o \in keyed}
    BY DEF PublishedFor
  <2>3. PublishedFor(i, key)' = {items'[i][o].question : o \in keyed}
    BY <2>1 DEF PublishedFor
  <2>4. \A o \in keyed : items'[i][o].question = items[i][o].question
    BY <1>3
  <2> HIDE DEF keyed
  <2> QED  BY <2>2, <2>3, <2>4
<1>5. Keeps
  BY DEF Keeps, Exists, BankInv, BankTypes
<1>6. OneMaterialPerKey'
  BY <1>4, <1>5, MaterialsStay DEF ImportInv
<1>7. JobIsPublishedWithItsItems'
  BY <1>3 DEF ImportInv, ItemsSound, ImportIsSound, JobIsPublishedWithItsItems
<1>8. AnswersAreConfirmed' /\ TextIsPublished'
  BY <1>3 DEF ImportInv, ItemsSound, ImportIsSound, AnswersAreConfirmed, TextIsPublished, FirstMaterial
<1>9. PublishedAsApproved'
  <2> SUFFICES ASSUME NEW i \in Jobs, NEW o \in Positions
               PROVE  LET item == items'[i][o]
                      IN /\ item.status \in {"approved", "published"} => item.approved = item.draft.rev
                         /\ item.status = "published" => item.given = item.approved
    BY DEF PublishedAsApproved
  <2>1. CASE i = j /\ o = p
    BY <1>1, <2>1
  <2>2. CASE i # j \/ o # p
    BY <1>1, <2>2 DEF ImportInv, ItemsSound, ImportIsSound, PublishedAsApproved
  <2> QED  BY <2>1, <2>2
<1>10. ItemsInv'
  <2> SUFFICES ASSUME NEW i \in Jobs, NEW o \in Positions
               PROVE  /\ jobs'[i] = "absent" => items'[i][o].status = "absent"
                      /\ items'[i][o].status = "published" <=> items'[i][o].question # None
                      /\ items'[i][o].question # None => Exists(items[i][o].question)'
                      /\ items'[i][o].draft.answer = "source" => FileItem[o].form = "object"
    BY DEF ItemsInv
  <2>1. Exists(items[i][o].question) => Exists(items[i][o].question)'
    BY <1>3 DEF Exists
  <2>2. CASE i = j /\ o = p
    BY <1>1, <1>3, <2>1, <2>2 DEF ImportInv, ItemsSound, ItemsInv, Unpublished
  <2>3. CASE i # j \/ o # p
    BY <1>1, <2>1, <2>3 DEF ImportInv, ItemsSound, ItemsInv
  <2> QED  BY <2>2, <2>3
<1>11. ASSUME NEW b \in Admins PROVE Timely(desk[b])'
  <2> SUFFICES ASSUME desk'[b].op = "approve" PROVE Timely(desk[b])'
    BY DEF Timely
  <2>1. desk'[b] = desk[b] /\ Timely(desk[b])
    BY DEF ImportInv, ApprovalInv
  <2>2. PICK i \in Jobs, o \in Positions : i = desk[b].j /\ o = desk[b].p
    BY <2>1, DeskOfApproval DEF BankInv, Approval
  <2>3. CASE i = j /\ o = p
    BY <1>1, <2>1, <2>2, <2>3 DEF Timely
  <2>4. CASE i # j \/ o # p
    BY <1>1, <2>1, <2>2, <2>4 DEF Timely
  <2> QED  BY <2>3, <2>4
<1>12. ASSUME NEW b \in Admins PROVE Holding(desk[b])'
  <2> SUFFICES ASSUME desk'[b].op = "publishItem" PROVE Holding(desk[b])'
    BY DEF Holding
  <2>1. PICK d \in Publication : d = desk[b] /\ d = desk'[b] /\ Holding(d)
    BY DeskOfPublication DEF BankInv, ImportInv, PublicationInv
  <2>2. /\ d.j \in Jobs /\ d.p \in Positions /\ ~(d.j = j /\ d.p = p) /\ d.op = "publishItem"
        /\ d.draft.key \in Keys
    BY <2>1 DEF Publication, Draft
  <2>3. Agreed(d.j, d.draft.key, d.shared) => Agreed(d.j, d.draft.key, d.shared)'
    BY <1>4, <1>5, <2>2, AgreementStays DEF ImportInv, ItemsSound
  <2> HIDE DEF Agreed
  <2>4. Holding(d)'
    BY <1>1, <2>1, <2>2, <2>3 DEF Holding
  <2> QED  BY <2>1, <2>4 DEF Holding
<1>13. OnePublication'
  BY DEF OnePublication, ImportInv, PublicationInv
<1> QED
  BY <1>2, <1>6, <1>7, <1>8, <1>9, <1>10, <1>11, <1>12, <1>13
  DEF ImportInv, ItemsSound, ImportIsSound, ApprovalInv, PublicationInv

LEMMA UpdateItemStep ==
  ASSUME BankInv, ImportInv, NEW a \in Admins, NEW j \in Jobs, NEW p \in Positions,
         NEW edit \in Edits, UpdateItem(a, j, p, edit)
  PROVE  BankInv' /\ ImportInv'
<1> DEFINE item == items[j][p]
           draft == [key |-> edit.key, text |-> edit.text, answer |-> edit.answer,
                     rev |-> item.draft.rev + 1]
           next == Saved(item, draft)
<1>1. item \in Item /\ item.draft \in Draft /\ item.draft.rev < MaxDrafts
  BY DEF UpdateItem, ImportInv, ItemsSound, ImportTypes, Item
<1>2. draft \in Draft /\ (draft.answer = "source" => item.draft.answer = "source")
  <2>1. item.draft.rev \in 0..MaxDrafts /\ MaxDrafts \in Nat
    BY <1>1, ImportAssumption DEF Draft
  <2>2. item.draft.rev + 1 \in 0..MaxDrafts
    BY <1>1, <2>1
  <2>3. edit.key \in Keys /\ edit.text \in BOOLEAN /\ edit.answer \in Answers
    BY ImportAssumption
  <2> QED  BY <2>2, <2>3 DEF Draft, UpdateItem
<1> HIDE DEF draft
<1>3. /\ next \in Item /\ next.status = "pending" /\ next.question = item.question
      /\ next.draft = draft
  BY <1>1, <1>2 DEF Saved, Item
<1>4. items' = [items EXCEPT ![j][p] = next]
  BY DEF UpdateItem, draft
<1> HIDE DEF next
<1>5. BankInv'
  BY DEF UpdateItem, bankVars, BankInv, BankTypes, CatalogueIsSound, CurrentIsNewest,
         HasAnswerIsTrue, StatusTellsTheTruth, VersionsInv, Exists, CurrentVersion, Selectable,
         EditionExists, ReadingInv, Trusted
<1>6. Unpublished(j, p) /\ UNCHANGED <<questions, versions, jobs>> /\ desk' = desk
  BY DEF UpdateItem, bankVars
<1>7. \A b \in Admins : desk'[b].op = "publishItem" =>
        desk'[b] = desk[b] /\ ~(desk[b].j = j /\ desk[b].p = p)
  BY <1>6 DEF UpdateItem, ItemLocked
<1>8. \A b \in Admins : desk'[b].op = "approve" => desk'[b] = desk[b]
  BY <1>6
<1>9. /\ next \in Item /\ next.status \in {"pending", "approved"}
      /\ next.question = items[j][p].question
      /\ next.draft.answer = "source" => items[j][p].draft.answer = "source"
      /\ next.status = "approved" => next.approved = next.draft.rev
  BY <1>2, <1>3
<1> HIDE DEF item
<1> QED  BY <1>4, <1>5, <1>6, <1>7, <1>8, <1>9, ItemStep

LEMMA ApproveItemStep ==
  ASSUME BankInv, ImportInv, NEW a \in Admins, ApproveItem(a)
  PROVE  BankInv' /\ ImportInv'
<1>1. PICK j \in Jobs, p \in Positions : j = desk[a].j /\ p = desk[a].p
  BY DeskOfApproval DEF BankInv, ApproveItem, Approval
<1>2. CASE ~Unpublished(j, p)
  <2>1. Free \in Desk /\ Free.op = "free"
    BY DEF Desk, Free
  <2> QED  BY <1>1, <1>2, <2>1, ImportDeskKept DEF ApproveItem, Leaves, importVars
<1>3. CASE Unpublished(j, p)
  <2> DEFINE item == items[j][p]
             next == [item EXCEPT !.status = "approved", !.approved = item.draft.rev]
  <2>1. item \in Item
    BY DEF ImportInv, ItemsSound, ImportTypes
  <2>2. /\ next \in Item /\ next.status = "approved" /\ next.question = item.question
        /\ next.draft = item.draft /\ next.approved = next.draft.rev
    BY <2>1 DEF Item, Draft
  <2>3. items' = [items EXCEPT ![j][p] = next]
    BY <1>1, <1>3 DEF ApproveItem
  <2> HIDE DEF next
  <2>4. BankInv'
    BY LeavesStep DEF ApproveItem
  <2>5. /\ desk'[a].op = "free" /\ \A b \in Admins : b # a => desk'[b] = desk[b]
    BY DEF ApproveItem, Leaves, Free, BankInv, BankTypes
  <2>6. \A b \in Admins : desk'[b].op = "publishItem" =>
          desk'[b] = desk[b] /\ ~(desk[b].j = j /\ desk[b].p = p)
    BY <1>1, <2>5 DEF ApproveItem, ItemLocked
  <2>7. \A b \in Admins : desk'[b].op = "approve" => desk'[b] = desk[b]
    BY <2>5
  <2>8. UNCHANGED <<questions, versions, jobs>>
    BY DEF ApproveItem
  <2>9. /\ next \in Item /\ next.status \in {"pending", "approved"}
        /\ next.question = items[j][p].question
        /\ next.draft.answer = "source" => items[j][p].draft.answer = "source"
        /\ next.status = "approved" => next.approved = next.draft.rev
    BY <2>2
  <2> HIDE DEF item
  <2> QED  BY <1>3, <2>3, <2>4, <2>6, <2>7, <2>8, <2>9, ItemStep
<1> QED  BY <1>2, <1>3

(* A file becomes the items of a job that was not there. *)
LEMMA UploadStep ==
  ASSUME BankInv, ImportInv, NEW a \in Admins, Upload(a)
  PROVE  BankInv' /\ ImportInv'
<1>1. BankInv' /\ Keeps
  BY LeavesStep DEF Upload
<1>2. PICK j \in Jobs :
        /\ jobs[j] = "absent"
        /\ jobs' = [jobs EXCEPT ![j] = "review_ready"]
        /\ items' = [items EXCEPT ![j] =
             [p \in Positions |-> [NoItem EXCEPT !.status = "pending", !.draft = toDraft(FileItem[p])]]]
  BY DEF Upload, importJSON, InsertItemsAndReady
<1> DEFINE fresh(p) == [NoItem EXCEPT !.status = "pending", !.draft = toDraft(FileItem[p])]
<1>3. ASSUME NEW p \in Positions
      PROVE  /\ fresh(p) \in Item /\ fresh(p).status = "pending" /\ fresh(p).question = None
             /\ fresh(p).draft.answer = "source" => FileItem[p].form = "object"
  <2>1. FileItem[p].key \in Keys /\ FileItem[p].text \in BOOLEAN /\ MaxDrafts \in Nat
    BY ImportAssumption
  <2>2. /\ toDraft(FileItem[p]) \in Draft
        /\ toDraft(FileItem[p]).answer = "source" => FileItem[p].form = "object"
    BY <2>1 DEF toDraft, Draft, Answers
  <2>3. 0 \in 0..MaxDrafts
    BY <2>1
  <2> DEFINE draft == toDraft(FileItem[p])
  <2> HIDE DEF draft
  <2>4. draft \in Draft => [NoItem EXCEPT !.status = "pending", !.draft = draft] \in Item
    BY <2>3 DEF NoItem, Item
  <2> QED  BY <2>2, <2>4 DEF NoItem, draft
<1> HIDE DEF fresh
<1>4. /\ jobs' \in [Jobs -> {"absent", "review_ready", "published"}]
      /\ items' \in [Jobs -> [Positions -> Item]]
      /\ jobs'[j] = "review_ready" /\ \A p \in Positions : items'[j][p] = fresh(p)
      /\ \A i \in Jobs : i # j => jobs'[i] = jobs[i] /\ items'[i] = items[i]
  <2>1. items' = [items EXCEPT ![j] = [p \in Positions |-> fresh(p)]]
    BY <1>2 DEF fresh
  <2> DEFINE file == [p \in Positions |-> fresh(p)]
  <2>2. file \in [Positions -> Item] /\ \A p \in Positions : file[p] = fresh(p)
    BY <1>3
  <2> HIDE DEF file
  <2>3. items' = [items EXCEPT ![j] = file]
    BY <2>1 DEF file
  <2> QED  BY <1>2, <2>2, <2>3 DEF ImportInv, ItemsSound, ImportTypes
<1>5. \A p \in Positions : items[j][p].status = "absent" /\ items[j][p].question = None
  BY <1>2 DEF ImportInv, ItemsSound, ItemsInv
<1>6. \A i \in Jobs, key \in Keys : PublishedFor(i, key)' = PublishedFor(i, key)
  <2> SUFFICES ASSUME NEW i \in Jobs, NEW key \in Keys
               PROVE  PublishedFor(i, key)' = PublishedFor(i, key)
    OBVIOUS
  <2>1. CASE i = j
    BY <1>3, <1>4, <1>5, <2>1 DEF PublishedFor
  <2>2. CASE i # j
    <3>1. items'[i] = items[i]
      BY <1>4, <2>2
    <3> QED  BY <3>1 DEF PublishedFor
  <2> QED  BY <2>1, <2>2
<1>7. OneMaterialPerKey'
  BY <1>1, <1>6, MaterialsStay DEF ImportInv
<1>8. ImportTypes'
  BY <1>4 DEF ImportTypes
<1>9. JobIsPublishedWithItsItems'
  <2> SUFFICES ASSUME NEW i \in Jobs
               PROVE  jobs'[i] = "published" <=> \A p \in Positions : items'[i][p].status = "published"
    BY DEF JobIsPublishedWithItsItems
  <2>1. CASE i = j
    <3>1. PICK p \in Positions : TRUE
      BY ImportAssumption
    <3>2. items'[j][p].status = "pending"
      BY <1>3, <1>4
    <3> QED  BY <1>4, <2>1, <3>2
  <2>2. CASE i # j
    BY <1>4, <2>2 DEF ImportInv, ItemsSound, ImportIsSound, JobIsPublishedWithItsItems
  <2> QED  BY <2>1, <2>2
<1>10. UNCHANGED <<questions, versions>>
  BY DEF Upload
<1>11. AnswersAreConfirmed' /\ TextIsPublished'
  BY <1>3, <1>4, <1>10
  DEF ImportInv, ItemsSound, ImportIsSound, AnswersAreConfirmed, TextIsPublished, FirstMaterial
<1>12. PublishedAsApproved'
  BY <1>3, <1>4 DEF ImportInv, ItemsSound, ImportIsSound, PublishedAsApproved
<1>13. ItemsInv'
  <2> SUFFICES ASSUME NEW i \in Jobs, NEW o \in Positions
               PROVE  /\ jobs'[i] = "absent" => items'[i][o].status = "absent"
                      /\ items'[i][o].status = "published" <=> items'[i][o].question # None
                      /\ items'[i][o].question # None => Exists(items[i][o].question)'
                      /\ items'[i][o].draft.answer = "source" => FileItem[o].form = "object"
    BY DEF ItemsInv
  <2>1. CASE i = j
    BY <1>3, <1>4, <2>1
  <2>2. CASE i # j
    BY <1>4, <1>10, <2>2 DEF ImportInv, ItemsSound, ItemsInv, Exists
  <2> QED  BY <2>1, <2>2
<1>14. \A b \in Admins : desk'[b] = desk[b] \/ desk'[b].op = "free"
  BY DEF Upload, Leaves, Free, BankInv, BankTypes
<1>15. ASSUME NEW b \in Admins PROVE Timely(desk[b])'
  <2> SUFFICES ASSUME desk'[b].op = "approve" PROVE Timely(desk[b])'
    BY DEF Timely
  <2>1. desk'[b] = desk[b] /\ Timely(desk[b]) /\ desk[b].op = "approve"
    BY <1>14 DEF ImportInv, ApprovalInv
  <2>2. PICK i \in Jobs, o \in Positions : i = desk[b].j /\ o = desk[b].p
    BY <2>1, DeskOfApproval DEF BankInv, Approval
  <2>3. i # j
    BY <1>5, <2>1, <2>2 DEF Timely
  <2> QED  BY <1>4, <2>1, <2>2, <2>3 DEF Timely
<1>16. ASSUME NEW b \in Admins PROVE Holding(desk[b])'
  <2> SUFFICES ASSUME desk'[b].op = "publishItem" PROVE Holding(desk[b])'
    BY DEF Holding
  <2>1. PICK d \in Publication : d = desk[b] /\ d = desk'[b] /\ Holding(d)
    BY <1>14, DeskOfPublication DEF BankInv, ImportInv, PublicationInv
  <2>2. d.j \in Jobs /\ d.p \in Positions /\ d.op = "publishItem" /\ d.draft.key \in Keys
    BY <2>1 DEF Publication, Draft
  <2>3. d.j # j
    BY <1>5, <2>1, <2>2 DEF Holding
  <2>4. Agreed(d.j, d.draft.key, d.shared) => Agreed(d.j, d.draft.key, d.shared)'
    BY <1>1, <1>6, <2>2, AgreementStays DEF ImportInv, ItemsSound
  <2> HIDE DEF Agreed
  <2>5. Holding(d)'
    BY <1>4, <2>1, <2>2, <2>3, <2>4 DEF Holding
  <2> QED  BY <2>1, <2>5 DEF Holding
<1>17. OnePublication'
  BY <1>14 DEF OnePublication, ImportInv, PublicationInv
<1> QED
  BY <1>1, <1>7, <1>8, <1>9, <1>11, <1>12, <1>13, <1>15, <1>16, <1>17
  DEF ImportInv, ItemsSound, ImportIsSound, ApprovalInv, PublicationInv

(* What a publication is of. *)
LEMMA PublicationOf ==
  ASSUME BankInv, ImportInv, NEW a \in Admins, PublishItem(a)
  PROVE  \E j \in Jobs, p \in Positions, todo \in SUBSET Positions, draft \in Draft,
            shared \in SUBSET Materials :
           /\ desk[a] = [op |-> "publishItem", j |-> j, p |-> p, todo |-> todo, draft |-> draft,
                         shared |-> shared]
           /\ items[j][p].status = "approved" /\ items[j][p].question = None
           /\ items[j][p].draft = draft
           /\ draft.key # "" => Agreed(j, draft.key, shared)
           /\ \A b \in Admins \ {a} : desk[b].op = "publishItem" => desk[b].j # j
<1>1. desk[a] \in Publication
  BY DeskOfPublication DEF BankInv, PublishItem
<1>2. PICK j \in Jobs, p \in Positions, todo \in SUBSET Positions, draft \in Draft,
           shared \in SUBSET Materials :
        desk[a] = [op |-> "publishItem", j |-> j, p |-> p, todo |-> todo, draft |-> draft,
                   shared |-> shared]
  BY <1>1 DEF Publication
<1>3. Holding(desk[a]) /\ OnePublication
  BY DEF ImportInv, PublicationInv
<1> HIDE DEF Agreed
<1>4. items[j][p].status = "approved" /\ items[j][p].draft = draft
        /\ (draft.key # "" => Agreed(j, draft.key, shared))
  <2>1. /\ desk[a].op = "publishItem" /\ desk[a].j = j /\ desk[a].p = p
        /\ desk[a].draft = draft /\ desk[a].shared = shared
    BY <1>2
  <2> QED  BY <1>3, <2>1 DEF Holding
<1>5. items[j][p].question = None
  BY <1>4 DEF ImportInv, ItemsSound, ItemsInv
<1>6. \A b \in Admins \ {a} : desk[b].op = "publishItem" => desk[b].j # j
  BY <1>2, <1>3 DEF OnePublication
<1> QED  BY ZenonT(30), <1>2, <1>4, <1>5, <1>6

(* A publication makes one question, marks its item and frees its job. *)
LEMMA PublishItemStep ==
  ASSUME BankInv, ImportInv, NEW a \in Admins, PublishItem(a)
  PROVE  /\ BankInv' /\ ImportInv'
         /\ \A q \in Questions : ~Exists(q) /\ questions'[q].status = "published" => q \in MadeOf'
<1>1. PICK j \in Jobs, p \in Positions, todo \in SUBSET Positions, draft \in Draft,
           shared \in SUBSET Materials :
        /\ desk[a] = [op |-> "publishItem", j |-> j, p |-> p, todo |-> todo, draft |-> draft,
                      shared |-> shared]
        /\ items[j][p].status = "approved" /\ items[j][p].question = None
        /\ items[j][p].draft = draft
        /\ draft.key # "" => Agreed(j, draft.key, shared)
        /\ \A b \in Admins \ {a} : desk[b].op = "publishItem" => desk[b].j # j
  BY PublicationOf
<1>2. /\ desk[a].op = "publishItem" /\ desk[a].j = j /\ desk[a].p = p /\ desk[a].todo = todo
      /\ desk[a].draft = draft /\ desk[a].shared = shared
  <2>1. desk[a] = [op |-> "publishItem", j |-> j, p |-> p, todo |-> todo, draft |-> draft,
                   shared |-> shared]
    BY <1>1
  <2> QED  BY <2>1
<1>3. PICK q \in Questions, choice \in MaterialChoice :
        /\ ChoiceFor(draft, shared, choice)
        /\ CreateAndPublishTx(q, draft.answer, choice)
        /\ items' = [items EXCEPT ![j][p] = [@ EXCEPT !.status = "published", !.question = q,
                                                     !.given = draft.rev]]
        /\ jobs' = [jobs EXCEPT ![j] = JobAfter(j, p)]
        /\ desk' = [desk EXCEPT ![a] = BatchAfter(j, todo)]
        /\ UNCHANGED crossed
  BY <1>1, <1>2 DEF PublishItem
<1>4. /\ BankInv' /\ Keeps /\ ~Exists(q) /\ Exists(q)'
      /\ versions'[q][1].answer = draft.answer
      /\ draft.text => FirstMaterial(q)' # None
      /\ \A m \in Materials : shared = {m} => FirstMaterial(q)' = m
      /\ \A r \in Questions : questions'[r] = questions[r] \/ r = q
  <2>1. PICK material \in Materials \cup {None}, edition \in Editions :
          /\ MaterialFor(choice, [material |-> None, edition |-> 0], material, edition)
          /\ versions' = [versions EXCEPT ![q] =
               <<[answer |-> draft.answer, kind |-> "public", material |-> material,
                  edition |-> edition]>>]
    BY <1>3 DEF CreateAndPublishTx
  <2> DEFINE version == [answer |-> draft.answer, kind |-> "public", material |-> material,
                         edition |-> edition]
             question == Published([NoQuestion EXCEPT !.current = 1,
                                                      !.hasAnswer = (draft.answer # "none")], 1)
  <2>2. /\ materials' \in [Materials -> Nat] /\ \A m \in Materials : materials'[m] >= materials[m]
        /\ edition \in Nat /\ (material # None => edition \in 1..materials'[material])
    <3> DEFINE was == [material |-> None, edition |-> 0]
    <3>1. EditionExists(was) /\ was.material \in Materials \cup {None} /\ was.edition \in Nat
      BY DEF EditionExists
    <3> HIDE DEF was
    <3>2. MaterialFor(choice, was, material, edition)
      BY <2>1 DEF was
    <3> QED  BY <3>1, <3>2, MaterialThere DEF BankInv, BankTypes
  <2>3. /\ version \in Version /\ version.answer = draft.answer /\ version.material = material
        /\ EditionExists(version)'
        /\ question \in Question /\ question.status = "published" /\ question.current = 1
        /\ question.published = 1 /\ question.retired = FALSE
        /\ question.hasAnswer = (draft.answer # "none")
    BY <2>2 DEF Version, Answers, EditionExists, Question, Status, NoQuestion, Draft, Published
  <2> HIDE DEF version, question
  <2>4. /\ versions' = [versions EXCEPT ![q] = <<version>>]
        /\ questions' = [questions EXCEPT ![q] = question] /\ ~Exists(q)
    BY <1>3, <2>1 DEF version, question, NextQuestion, CreateAndPublishTx
  <2>5. /\ desk' \in [Admins -> Desk]
        /\ \A b \in Admins : desk'[b] = desk[b] \/ desk'[b].op \notin Editing
    <3>1. BatchAfter(j, todo) \in Desk /\ BatchAfter(j, todo).op \in {"free", "batch"}
      BY BatchAfterIsDesk
    <3> QED  BY <1>3, <3>1 DEF BankInv, BankTypes, Editing
  <2>6. BankInv' /\ Keeps
    BY <1>3, <2>2, <2>3, <2>4, <2>5, NewQuestionStep
  <2>7. questions'[q] = question /\ versions'[q] = <<version>>
    BY <2>4 DEF BankInv, BankTypes
  <2>8. Exists(q)' /\ versions'[q][1] = version /\ FirstMaterial(q)' = material
    BY <2>3, <2>7 DEF Exists, FirstMaterial
  <2>9. /\ draft.text => material # None
        /\ \A m \in Materials : shared = {m} => material = m
    <3>1. CASE shared = {}
      <4>1. draft.text => choice = [way |-> "new", of |-> None]
        BY <1>3, <3>1, Zenon DEF ChoiceFor
      <4>2. choice.way = "new" => material # None
        BY <2>1 DEF MaterialFor, NextMaterial
      <4> QED  BY <3>1, <4>1, <4>2
    <3>2. CASE shared # {}
      <4>1. PICK m \in shared : choice = [way |-> "latest", of |-> m]
        BY <1>3, <3>2 DEF ChoiceFor
      <4>2. material = m
        BY <2>1, <4>1 DEF MaterialFor
      <4>3. m # None
        BY BankIdsAssumption
      <4> QED  BY <4>1, <4>2, <4>3
    <3> QED  BY <3>1, <3>2
  <2>10. \A r \in Questions : questions'[r] = questions[r] \/ r = q
    BY <2>4 DEF BankInv, BankTypes
  <2> QED  BY <2>3, <2>4, <2>6, <2>8, <2>9, <2>10
<1>5. q # None
  BY BankIdsAssumption
<1> DEFINE item == items[j][p]
           next == [item EXCEPT !.status = "published", !.question = q, !.given = draft.rev]
<1>6. /\ next \in Item /\ next.status = "published" /\ next.question = q
      /\ next.draft = draft /\ next.approved = item.approved /\ next.given = draft.rev
  <2>1. item \in Item /\ draft.rev \in 0..MaxDrafts
    BY DEF ImportInv, ItemsSound, ImportTypes, Draft
  <2> QED  BY <1>1, <2>1 DEF Item
<1>7. items' = [items EXCEPT ![j][p] = next]
  BY <1>3 DEF ImportInv, ItemsSound, ImportTypes
<1> HIDE DEF next, item
<1>8. /\ items' \in [Jobs -> [Positions -> Item]] /\ items'[j][p] = next
      /\ \A i \in Jobs, o \in Positions : i # j \/ o # p => items'[i][o] = items[i][o]
  BY <1>6, <1>7 DEF ImportInv, ItemsSound, ImportTypes
<1>9. /\ jobs' \in [Jobs -> {"absent", "review_ready", "published"}]
      /\ jobs'[j] = JobAfter(j, p) /\ \A i \in Jobs : i # j => jobs'[i] = jobs[i]
  BY <1>3 DEF ImportInv, ItemsSound, ImportTypes, JobAfter
<1>10. jobs[j] # "absent" /\ jobs[j] # "published"
  BY <1>1 DEF ImportInv, ItemsSound, ItemsInv, ImportIsSound, JobIsPublishedWithItsItems
<1>11. ASSUME NEW i \in Jobs, NEW key \in Keys
       PROVE  PublishedFor(i, key)' =
                IF i = j /\ key = draft.key THEN PublishedFor(j, key) \cup {q} ELSE PublishedFor(i, key)
  <2> DEFINE keyed == {o \in Positions : items[i][o].question # None /\ items[i][o].draft.key = key}
             now == IF i = j /\ key = draft.key THEN keyed \cup {p} ELSE keyed
  <2>1. i = j => p \notin keyed
    BY <1>1
  <2>2. keyed' = now
    <3>1. \A o \in Positions : i # j \/ o # p =>
            ((items'[i][o].question # None /\ items'[i][o].draft.key = key)
               <=> (items[i][o].question # None /\ items[i][o].draft.key = key))
      BY <1>8
    <3>2. (items'[j][p].question # None /\ items'[j][p].draft.key = key) <=> key = draft.key
      BY <1>5, <1>6, <1>8
    <3> QED  BY <1>1, <3>1, <3>2
  <2>3. PublishedFor(i, key) = {items[i][o].question : o \in keyed}
    BY DEF PublishedFor
  <2>4. PublishedFor(i, key)' = {items'[i][o].question : o \in now}
    BY <2>2 DEF PublishedFor
  <2>5. \A o \in keyed : items'[i][o].question = items[i][o].question
    BY <1>8, <2>1
  <2>6. items'[j][p].question = q
    BY <1>6, <1>8
  <2> HIDE DEF keyed
  <2>7. {items'[i][o].question : o \in keyed} = PublishedFor(i, key)
    BY <2>3, <2>5
  <2>8. CASE i = j /\ key = draft.key
    <3>1. PublishedFor(i, key)' = {items'[i][o].question : o \in keyed} \cup {items'[j][p].question}
      BY <2>4, <2>8
    <3> QED  BY <2>6, <2>7, <2>8, <3>1
  <2>9. CASE ~(i = j /\ key = draft.key)
    BY <2>4, <2>7, <2>9
  <2> QED  BY <2>8, <2>9
<1>12. draft.key \in Keys
  BY DEF Draft
<1>13. \A r \in PublishedFor(j, draft.key) :
         FirstMaterial(r)' = FirstMaterial(r) /\ (Moved(r) => Moved(r)')
  BY <1>4, PublishedExist, StartStays DEF FirstMaterial, ImportInv, ItemsSound
<1>14. ASSUME draft.key # "" PROVE OneMaterial(j, draft.key)'
  <2>1. /\ Agreed(j, draft.key, shared)
        /\ PublishedFor(j, draft.key)' = PublishedFor(j, draft.key) \cup {q}
    BY <1>1, <1>11, <1>12, <1>14
  <2> HIDE DEF PublishedFor, Moved, FirstMaterial
  <2>2. CASE \E r \in PublishedFor(j, draft.key) : Moved(r)
    BY <1>13, <2>1, <2>2 DEF OneMaterial
  <2>3. CASE \A r \in PublishedFor(j, draft.key) : FirstMaterial(r) = None
    BY <1>13, <2>1, <2>3 DEF OneMaterial
  <2>4. CASE \E m \in Materials :
               shared = {m} /\ \A r \in PublishedFor(j, draft.key) : FirstMaterial(r) \in {m, None}
    <3>1. PICK m \in Materials :
            shared = {m} /\ \A r \in PublishedFor(j, draft.key) : FirstMaterial(r) \in {m, None}
      BY <2>4
    <3>2. \A r \in PublishedFor(j, draft.key)' : FirstMaterial(r)' \in {m, None}
      BY <1>4, <1>13, <2>1, <3>1
    <3> QED  BY <3>2 DEF OneMaterial
  <2> QED  BY <2>1, <2>2, <2>3, <2>4 DEF Agreed
<1>15. OneMaterialPerKey'
  <2>1. ASSUME NEW i \in Jobs, NEW key \in Keys \ {""} PROVE OneMaterial(i, key)'
    <3>1. CASE i = j /\ key = draft.key
      BY <1>14, <3>1
    <3>2. CASE ~(i = j /\ key = draft.key)
      <4>1. PublishedFor(i, key)' = PublishedFor(i, key)
        BY <1>11, <3>2
      <4>2. OneMaterial(i, key)
        BY OneMaterialIs DEF ImportInv, ItemsSound, ImportIsSound
      <4> QED  BY <1>4, <4>1, <4>2, AgreementStays DEF ImportInv, ItemsSound
    <3> QED  BY <3>1, <3>2
  <2> HIDE DEF PublishedFor, Moved, FirstMaterial
  <2> QED  BY <2>1 DEF OneMaterialPerKey, OneMaterial
<1>16. JobIsPublishedWithItsItems'
  <2> SUFFICES ASSUME NEW i \in Jobs
               PROVE  jobs'[i] = "published" <=> \A o \in Positions : items'[i][o].status = "published"
    BY DEF JobIsPublishedWithItsItems
  <2>1. CASE i = j
    BY <1>6, <1>8, <1>9, <1>10, <2>1 DEF JobAfter
  <2>2. CASE i # j
    BY <1>8, <1>9, <2>2 DEF ImportInv, ItemsSound, ImportIsSound, JobIsPublishedWithItsItems
  <2> QED  BY <2>1, <2>2
<1>17. PublishedAsApproved'
  <2> SUFFICES ASSUME NEW i \in Jobs, NEW o \in Positions
               PROVE  LET now == items'[i][o]
                      IN /\ now.status \in {"approved", "published"} => now.approved = now.draft.rev
                         /\ now.status = "published" => now.given = now.approved
    BY DEF PublishedAsApproved
  <2>1. CASE i = j /\ o = p
    <3>1. item.approved = item.draft.rev /\ item.draft = draft
      BY <1>1 DEF item, ImportInv, ItemsSound, ImportIsSound, PublishedAsApproved
    <3> QED  BY <1>6, <1>8, <2>1, <3>1
  <2>2. CASE i # j \/ o # p
    BY <1>8, <2>2 DEF ImportInv, ItemsSound, ImportIsSound, PublishedAsApproved
  <2> QED  BY <2>1, <2>2
<1>18. ASSUME NEW i \in Jobs, NEW o \in Positions
       PROVE  /\ items'[i][o].question # None =>
                   /\ Exists(items[i][o].question)'
                   /\ (versions[items[i][o].question][1].answer = "source")' =>
                        FileItem[o].form = "object"
                   /\ items'[i][o].draft.text => FirstMaterial(items[i][o].question)' # None
              /\ jobs'[i] = "absent" => items'[i][o].status = "absent"
              /\ items'[i][o].status = "published" <=> items'[i][o].question # None
              /\ items'[i][o].draft.answer = "source" => FileItem[o].form = "object"
  <2>1. CASE i = j /\ o = p
    <3>1. draft.answer = "source" => FileItem[p].form = "object"
      BY <1>1 DEF ImportInv, ItemsSound, ItemsInv
    <3>2. items'[i][o].question = q /\ items'[i][o].status = "published" /\ items'[i][o].draft = draft
      BY <1>6, <1>8, <2>1
    <3>3. jobs'[j] # "absent"
      BY <1>9, <1>10 DEF JobAfter
    <3>4. Exists(items[i][o].question)' /\ FirstMaterial(items[i][o].question)' = FirstMaterial(q)'
      BY <1>4, <3>2 DEF Exists, FirstMaterial
    <3> QED  BY <1>4, <1>5, <2>1, <3>1, <3>2, <3>3, <3>4
  <2>2. CASE i # j \/ o # p
    <3>1. items'[i][o] = items[i][o] /\ items[i][o] \in Item
      BY <1>8, <2>2 DEF ImportInv, ItemsSound, ImportTypes
    <3>2. jobs'[i] = "absent" => jobs[i] = "absent"
      BY <1>9, <1>10 DEF JobAfter
    <3>3. ASSUME NEW r \in Questions, r = items[i][o].question
          PROVE  /\ Exists(r)' /\ (versions'[r][1].answer = "source" => FileItem[o].form = "object")
                 /\ items[i][o].draft.text => FirstMaterial(r)' # None
      <4>1. r # None
        BY BankIdsAssumption
      <4>2. Exists(r)
        BY <3>3, <4>1 DEF ImportInv, ItemsSound, ItemsInv
      <4>3. Exists(r)' /\ versions'[r][1] = versions[r][1]
        BY <1>4, <4>2, StartStays
      <4> QED
        BY <3>3, <4>1, <4>3
        DEF ImportInv, ItemsSound, ImportIsSound, AnswersAreConfirmed, TextIsPublished, FirstMaterial
    <3>4. items'[i][o].question # None =>
            /\ Exists(items[i][o].question)'
            /\ (versions[items[i][o].question][1].answer = "source")' => FileItem[o].form = "object"
            /\ items[i][o].draft.text => FirstMaterial(items[i][o].question)' # None
      BY <3>1, <3>3 DEF Item, Exists, FirstMaterial
    <3> QED  BY <3>1, <3>2, <3>4 DEF ImportInv, ItemsSound, ItemsInv
  <2> QED  BY <2>1, <2>2
<1>19. AnswersAreConfirmed' /\ TextIsPublished' /\ ItemsInv'
  BY <1>18 DEF AnswersAreConfirmed, TextIsPublished, ItemsInv
<1>20. ImportTypes'
  BY <1>8, <1>9 DEF ImportTypes
<1>21. /\ desk'[a].op \in {"free", "batch"}
       /\ \A b \in Admins : b # a => desk'[b] = desk[b]
  BY <1>3, BatchAfterIsDesk DEF BankInv, BankTypes
<1>22. ASSUME NEW b \in Admins PROVE Timely(desk[b])'
  <2> SUFFICES ASSUME desk'[b].op = "approve" PROVE Timely(desk[b])'
    BY DEF Timely
  <2>1. desk'[b] = desk[b] /\ Timely(desk[b]) /\ desk[b].op = "approve"
    BY <1>21 DEF ImportInv, ApprovalInv
  <2>2. PICK i \in Jobs, o \in Positions : i = desk[b].j /\ o = desk[b].p
    BY <2>1, DeskOfApproval DEF BankInv, Approval
  <2>3. items'[i][o].status # "absent"
    BY <1>6, <1>8, <2>1, <2>2 DEF Timely
  <2> QED  BY <2>1, <2>2, <2>3 DEF Timely
<1>23. ASSUME NEW b \in Admins PROVE Holding(desk[b])'
  <2> SUFFICES ASSUME desk'[b].op = "publishItem" PROVE Holding(desk[b])'
    BY DEF Holding
  <2>1. b # a
    BY <1>21
  <2>2. PICK d \in Publication : d = desk[b] /\ d = desk'[b] /\ Holding(d) /\ d.j # j
    BY <1>1, <1>21, <2>1, DeskOfPublication DEF BankInv, ImportInv, PublicationInv
  <2>3. d.j \in Jobs /\ d.p \in Positions /\ d.op = "publishItem" /\ d.draft.key \in Keys
    BY <2>2 DEF Publication, Draft
  <2>4. Agreed(d.j, d.draft.key, d.shared) => Agreed(d.j, d.draft.key, d.shared)'
    BY <1>4, <1>11, <2>2, <2>3, AgreementStays DEF ImportInv, ItemsSound
  <2> HIDE DEF Agreed
  <2>5. Holding(d)'
    BY <1>8, <2>2, <2>3, <2>4 DEF Holding
  <2> QED  BY <2>2, <2>5 DEF Holding
<1>24. OnePublication'
  BY <1>21 DEF OnePublication, ImportInv, PublicationInv
<1>25. ImportInv'
  BY <1>15, <1>16, <1>17, <1>19, <1>20, <1>22, <1>23, <1>24
  DEF ImportInv, ItemsSound, ImportIsSound, ApprovalInv, PublicationInv
<1>26. \A r \in Questions : ~Exists(r) /\ questions'[r].status = "published" => r \in MadeOf'
  <2>1. q \in MadeOf'
    BY <1>5, <1>6, <1>8 DEF MadeOf
  <2>2. \A r \in Questions : r # q /\ ~Exists(r) => questions'[r].status # "published"
    BY <1>4 DEF Exists
  <2> QED  BY <2>1, <2>2
<1> QED  BY <1>4, <1>25, <1>26

LEMMA ImportingStep ==
  ASSUME BankInv, ImportInv, NEW a \in Admins, Importing(a)
  PROVE  /\ BankInv' /\ ImportInv'
         /\ \A q \in Questions : ~Exists(q) /\ questions'[q].status = "published" => q \in MadeOf'
<1>1. CASE PublishItem(a)
  BY <1>1, PublishItemStep
<1>2. CASE ~PublishItem(a)
  <2>1. BankInv' /\ ImportInv'
    BY <1>2, BeginUploadStep, UploadStep, UpdateItemStep, BeginApproveStep, ApproveItemStep,
       PublishApprovedStep, ItemForPublishStep, PublishFailsStep, UploadFailsStep DEF Importing
  <2>2. questions' = questions
    BY <1>2 DEF Importing, BeginUpload, Upload, UpdateItem, BeginApprove, ApproveItem,
                PublishApproved, ItemForPublish, PublishFails, UploadFails, bankVars
  <2> QED  BY <2>1, <2>2 DEF Exists
<1> QED  BY <1>1, <1>2

(* No question appears in public but by a publication. *)
LEMMA BankPublishesWhatExists ==
  ASSUME BankInv, NEW a \in Admins, Creating(a) \/ Updating(a) \/ Deciding(a)
  PROVE  \A q \in Questions : ~Exists(q) => questions'[q].status # "published"
<1> DEFINE Kept == \A q \in Questions : ~Exists(q) => questions'[q].status # "published"
<1> SUFFICES Kept
  OBVIOUS
<1>1. ASSUME UNCHANGED questions PROVE Kept
  BY <1>1 DEF Exists
<1>2. CASE Creating(a)
  <2>1. PICK w \in roster.writes : CreateQuestion(a, w.answer, w.kind, w.choice)
    BY <1>2 DEF Creating
  <2>2. PICK q \in Questions :
          questions' = [questions EXCEPT ![q] =
            [NoQuestion EXCEPT !.status = "draft", !.current = 1, !.hasAnswer = (w.answer # "none")]]
    BY <2>1 DEF CreateQuestion
  <2>3. questions'[q].status = "draft" /\ \A r \in Questions : r # q => questions'[r] = questions[r]
    BY <2>2 DEF NoQuestion, BankInv, BankTypes
  <2> QED  BY <2>3 DEF Exists
<1>3. ASSUME desk[a].op \in Editing,
             \A r \in Questions : r # desk[a].q => questions'[r] = questions[r]
      PROVE  Kept
  <2>1. Exists(desk[a].q)
    BY <1>3 DEF BankInv, ReadingInv, Trusted
  <2> QED  BY <1>3, <2>1 DEF Exists
<1>4. ASSUME NEW w \in roster.writes, UpdateQuestion(a, w.answer, w.kind, w.choice) PROVE Kept
  BY <1>3, <1>4 DEF UpdateQuestion, SetCurrentVersion, Editing, BankInv, BankTypes
<1>5. ASSUME Publish(a) \/ Retire(a) \/ SubmitReview(a) PROVE Kept
  BY <1>3, <1>5 DEF Publish, Retire, SubmitReview, Editing, BankInv, BankTypes
<1>6. ASSUME NEW q \in Questions,
             BeginUpdate(a, q) \/ BeginPublish(a, q) \/ BeginRetire(a, q) \/ BeginReview(a, q)
      PROVE  Kept
  BY <1>1, <1>6 DEF BeginUpdate, BeginPublish, BeginRetire, BeginReview, Reads
<1>7. ASSUME NextVersionNo(a) \/ Fails(a) PROVE Kept
  BY <1>1, <1>7 DEF NextVersionNo, Fails
<1> HIDE DEF Kept
<1>8. CASE Updating(a)
  BY <1>4, <1>6, <1>7, <1>8 DEF Updating
<1>9. CASE Deciding(a)
  BY <1>5, <1>6, <1>7, <1>9 DEF Deciding
<1> QED  BY <1>2, <1>8, <1>9

LEMMA FlowInitially == Init => FlowIInv
<1> SUFFICES ASSUME Init PROVE FlowIInv
  OBVIOUS
<1>1. /\ \A q \in Questions : questions[q] = NoQuestion /\ versions[q] = <<>>
      /\ \A a \in Admins : desk[a] = Free
      /\ crossed = {} /\ \A j \in Jobs : jobs[j] = "absent"
  BY DEF Init, BankInit, ImportInit
<1>2. \A j \in Jobs, p \in Positions :
        /\ items[j][p].status = "absent" /\ items[j][p].question = None
        /\ items[j][p].draft.answer = "none"
  BY DEF Init, ImportInit, NoItem
<1>3. BankTypes
  BY DEF Init, BankInit, BankTypes, NoQuestion, Question, Status, Desk
<1>4. CatalogueIsSound /\ VersionsInv /\ ReadingInv
  BY <1>1 DEF CatalogueIsSound, CurrentIsNewest, HasAnswerIsTrue, StatusTellsTheTruth, Selectable,
              VersionsInv, ReadingInv, Trusted, Exists, NoQuestion, Free, Editing
<1>5. NoItem \in Item
  <2>1. 0 \in 0..MaxDrafts
    BY ImportAssumption
  <2> QED  BY <2>1 DEF NoItem, Item, Draft, Keys, Answers
<1>6. ImportTypes
  BY <1>5 DEF Init, ImportInit, ImportTypes
<1>7. \A j \in Jobs, key \in Keys : PublishedFor(j, key) = {}
  BY <1>2 DEF PublishedFor
<1>8. ImportIsSound
  <2>1. JobIsPublishedWithItsItems
    <3>1. PICK p \in Positions : TRUE
      BY ImportAssumption
    <3> QED  BY <1>2, <1>1, <3>1 DEF JobIsPublishedWithItsItems
  <2>2. OneMaterialPerKey
    BY <1>7 DEF OneMaterialPerKey
  <2>3. TextIsPublished /\ AnswersAreConfirmed /\ PublishedAsApproved
    BY <1>2 DEF TextIsPublished, AnswersAreConfirmed, PublishedAsApproved
  <2> QED  BY <2>1, <2>2, <2>3 DEF ImportIsSound
<1>9. ItemsInv
  BY <1>2 DEF ItemsInv
<1>10. ApprovalInv /\ PublicationInv
  <2>1. \A a \in Admins : desk[a].op = "free"
    BY <1>1 DEF Free
  <2> QED  BY <2>1 DEF ApprovalInv, PublicationInv, OnePublication, Timely, Holding
<1> QED
  BY <1>3, <1>4, <1>6, <1>8, <1>9, <1>10 DEF Init, FlowIInv, BankInv, ImportInv, ItemsSound

LEMMA FlowUnchanged ==
  ASSUME FlowIInv, UNCHANGED <<bankVars, importVars, roster>>
  PROVE  FlowIInv'
<1>1. BankInv'
  BY DEF FlowIInv, bankVars, BankInv, BankTypes, CatalogueIsSound, CurrentIsNewest,
         HasAnswerIsTrue, StatusTellsTheTruth, VersionsInv, Exists, CurrentVersion, Selectable,
         EditionExists, ReadingInv, Trusted
<1>2. Keeps
  BY DEF FlowIInv, bankVars, Keeps, Exists, BankInv, BankTypes
<1>3. UNCHANGED importVars /\ OnePublication' /\ \A b \in Admins : desk'[b] = desk[b]
  BY DEF FlowIInv, bankVars, ImportInv, PublicationInv, OnePublication
<1>4. ImportInv'
  BY <1>1, <1>2, <1>3, ImportKept DEF FlowIInv
<1> QED  BY <1>1, <1>4 DEF FlowIInv

LEMMA FlowNext ==
  ASSUME FlowIInv, [Next]_vars
  PROVE  /\ FlowIInv'
         /\ \A q \in Questions : ~Exists(q) /\ questions'[q].status = "published" => q \in MadeOf'
<1> DEFINE OnlyMade ==
      \A q \in Questions : ~Exists(q) /\ questions'[q].status = "published" => q \in MadeOf'
<1> SUFFICES FlowIInv' /\ OnlyMade
  OBVIOUS
<1>1. ASSUME NEW a \in Admins, Creating(a) \/ Updating(a) \/ Deciding(a),
             UNCHANGED <<importVars, learnVars, roster>>
      PROVE  FlowIInv' /\ OnlyMade
  <2>1. FlowIInv'
    BY <1>1, BankStepKeepsImports DEF FlowIInv
  <2>2. OnlyMade
    BY <1>1, BankPublishesWhatExists DEF FlowIInv
  <2> QED  BY <2>1, <2>2
<1>2. ASSUME NEW a \in Admins, Importing(a), UNCHANGED <<learnVars, roster>>
      PROVE  FlowIInv' /\ OnlyMade
  BY <1>2, ImportingStep DEF FlowIInv
<1>3. ASSUME UNCHANGED <<bankVars, importVars, roster>> PROVE FlowIInv' /\ OnlyMade
  BY <1>3, FlowUnchanged DEF bankVars, Exists
<1> HIDE DEF OnlyMade
<1> QED  BY <1>1, <1>2, <1>3 DEF Next, vars, learnVars

THEOREM FlowInvariant == Spec => []FlowIInv
<1>1. FlowIInv /\ [Next]_vars => FlowIInv'
  BY FlowNext
<1> QED  BY <1>1, FlowInitially, PTL DEF Spec

(* What lists, reports and the choice of questions read of a question agrees with its *)
(* versions, however updates and decisions overlap (content/service.go:199-302).      *)
THEOREM CatalogueIsSoundHolds == Spec => []CatalogueIsSound
<1>1. FlowIInv => CatalogueIsSound
  BY DEF FlowIInv, BankInv
<1> QED  BY <1>1, FlowInvariant, PTL

(* Whatever administrators do at once, a file reaches the learners whole: each question *)
(* is made of the draft that stands as approved, none without the text of its draft,     *)
(* and those of a key share one material (imports/service.go:126-199, store.go:222-284). *)
THEOREM ImportIsSoundHolds == Spec => []ImportIsSound
<1>1. FlowIInv => ImportIsSound
  BY DEF FlowIInv, ImportInv, ItemsSound
<1> QED  BY <1>1, FlowInvariant, PTL

(* No question appears in public that is not the one its item points to, however many *)
(* publish the items of a job at once (imports/service.go:180-186, store.go:248).      *)
THEOREM OneQuestionPerItemHolds == Spec => OneQuestionPerItem
<1>1. FlowIInv /\ [Next]_vars =>
        [\A q \in Questions :
           ~Exists(q) /\ questions'[q].status = "published" => q \in MadeOf']_<<questions, items>>
  BY FlowNext
<1> QED  BY <1>1, FlowInvariant, PTL DEF Spec, OneQuestionPerItem

-----------------------------------------------------------------------------
(* The choice of questions                                                 *)

\* No question twice.
Distinct(s) == \A k, l \in 1..Len(s) : s[k] = s[l] => k = l

\* In the order of the books.
Ordered(s) == \A k, l \in 1..Len(s) : k < l => sourceOrderLess(s[k], s[l])

LEMMA SubsetsAreFinite ==
  ASSUME NEW S \in SUBSET Questions
  PROVE  IsFiniteSet(S) /\ Cardinality(S) \in Nat
<1>1. IsFiniteSet(Questions)
  BY BankIdsAssumption
<1>2. IsFiniteSet(S)
  BY <1>1, FS_Subset
<1> QED  BY <1>2, FS_CardinalityType

(* The order of the books compares four numbers, and the ids at last. *)
LEMMA OrderUnfolded ==
  ASSUME NEW q \in Questions, NEW r \in Questions
  PROVE  sourceOrderLess(q, r) <=>
           \/ Place[q][1] < Place[r][1]
           \/ Place[q][1] = Place[r][1] /\ Place[q][2] < Place[r][2]
           \/ Place[q][1] = Place[r][1] /\ Place[q][2] = Place[r][2] /\ Place[q][3] < Place[r][3]
           \/ /\ Place[q][1] = Place[r][1] /\ Place[q][2] = Place[r][2]
              /\ Place[q][3] = Place[r][3] /\ Place[q][4] < Place[r][4]
           \/ /\ Place[q][1] = Place[r][1] /\ Place[q][2] = Place[r][2]
              /\ Place[q][3] = Place[r][3] /\ Place[q][4] = Place[r][4] /\ q < r
<1> DEFINE Less(k) == Place[q][k] < Place[r][k] /\ \A l \in 1..(k - 1) : Place[q][l] = Place[r][l]
<1>1. /\ Less(1) <=> Place[q][1] < Place[r][1]
      /\ Less(2) <=> Place[q][2] < Place[r][2] /\ Place[q][1] = Place[r][1]
      /\ Less(3) <=> Place[q][3] < Place[r][3] /\ Place[q][1] = Place[r][1] /\ Place[q][2] = Place[r][2]
      /\ Less(4) <=> /\ Place[q][4] < Place[r][4] /\ Place[q][1] = Place[r][1]
                     /\ Place[q][2] = Place[r][2] /\ Place[q][3] = Place[r][3]
  <2>1. /\ \A i : i \notin 1..0
        /\ \A i : i \in 1..1 <=> i = 1
        /\ \A i : i \in 1..2 <=> i = 1 \/ i = 2
        /\ \A i : i \in 1..3 <=> i = 1 \/ i = 2 \/ i = 3
    OBVIOUS
  <2> QED  BY <2>1
<1>2. (\E k \in 1..4 : Less(k)) <=> Less(1) \/ Less(2) \/ Less(3) \/ Less(4)
  <2>1. \A k : k \in 1..4 <=> k = 1 \/ k = 2 \/ k = 3 \/ k = 4
    OBVIOUS
  <2> HIDE DEF Less
  <2> QED  BY <2>1
<1>3. Place[q] = Place[r] <=> /\ Place[q][1] = Place[r][1] /\ Place[q][2] = Place[r][2]
                              /\ Place[q][3] = Place[r][3] /\ Place[q][4] = Place[r][4]
  <2>1. Place[q] \in Seq(Nat) /\ Place[r] \in Seq(Nat) /\ Len(Place[q]) = 4 /\ Len(Place[r]) = 4
    BY SelectionAssumption
  <2>2. \A k : k \in 1..4 <=> k = 1 \/ k = 2 \/ k = 3 \/ k = 4
    OBVIOUS
  <2>3. \A s \in Seq(Nat) : Len(s) = 4 => s \in [1..4 -> Nat]
    BY LenProperties
  <2>4. Place[q] \in [1..4 -> Nat] /\ Place[r] \in [1..4 -> Nat]
    BY <2>1, <2>3
  <2>5. (\A k \in 1..4 : Place[q][k] = Place[r][k]) => Place[q] = Place[r]
    BY <2>4
  <2> QED  BY <2>2, <2>5
<1> QED  BY <1>1, <1>2, <1>3 DEF sourceOrderLess

LEMMA OrderIsTotal ==
  ASSUME NEW q \in Questions, NEW r \in Questions
  PROVE  /\ ~sourceOrderLess(q, q)
         /\ q # r => sourceOrderLess(q, r) \/ sourceOrderLess(r, q)
         /\ \A u \in Questions :
              sourceOrderLess(q, r) /\ sourceOrderLess(r, u) => sourceOrderLess(q, u)
<1>1. \A u \in Questions : /\ u \in Nat /\ Place[u][1] \in Nat /\ Place[u][2] \in Nat
                           /\ Place[u][3] \in Nat /\ Place[u][4] \in Nat
  <2> SUFFICES ASSUME NEW u \in Questions
               PROVE  /\ u \in Nat /\ Place[u][1] \in Nat /\ Place[u][2] \in Nat
                      /\ Place[u][3] \in Nat /\ Place[u][4] \in Nat
    OBVIOUS
  <2>1. Place[u] \in Seq(Nat) /\ Len(Place[u]) = 4
    BY SelectionAssumption
  <2>2. 1 \in 1..4 /\ 2 \in 1..4 /\ 3 \in 1..4 /\ 4 \in 1..4
    OBVIOUS
  <2>3. \A k \in 1..4 : Place[u][k] \in Nat
    BY <2>1
  <2>4. u \in Nat
    BY BankIdsAssumption
  <2> QED  BY <2>2, <2>3, <2>4
<1>2. ~sourceOrderLess(q, q)
  BY <1>1, OrderUnfolded
<1>3. q # r => sourceOrderLess(q, r) \/ sourceOrderLess(r, q)
  BY <1>1, OrderUnfolded
<1>4. ASSUME NEW u \in Questions, sourceOrderLess(q, r), sourceOrderLess(r, u)
      PROVE  sourceOrderLess(q, u)
  BY <1>1, <1>4, OrderUnfolded
<1> QED  BY <1>2, <1>3, <1>4

(* The elements of a sequence, by number. *)
LEMMA ElementsOf ==
  ASSUME NEW S, NEW s \in Seq(S)
  PROVE  /\ Len(s) \in Nat
         /\ \A x : x \in ToSet(s) <=> \E k \in 1..Len(s) : s[k] = x
         /\ ToSet(s) \subseteq S
<1>1. DOMAIN s = 1..Len(s) /\ Len(s) \in Nat /\ s \in [1..Len(s) -> S]
  BY LenProperties
<1> QED  BY <1>1 DEF ToSet

(* A sequence without repetition has as many elements as it is long. *)
LEMMA DistinctCounts ==
  ASSUME NEW s \in Seq(Questions), Distinct(s)
  PROVE  Cardinality(ToSet(s)) = Len(s)
<1> DEFINE D == 1..Len(s)
<1>1. Len(s) \in Nat /\ s \in [D -> Questions]
  BY LenProperties
<1>2. IsFiniteSet(D) /\ Cardinality(D) = Len(s)
  <2>1. \A n \in Nat : IsFiniteSet(1..n) /\ Cardinality(1..n) = n
    BY FS_Interval
  <2> QED  BY <1>1, <2>1
<1>3. \A x \in ToSet(s) : \E k \in D : s[k] = x
  BY ElementsOf
<1>4. s \in [D -> ToSet(s)]
  BY <1>1, ElementsOf
<1>5. s \in Surjection(D, ToSet(s))
  BY <1>3, <1>4 DEF Surjection
<1>6. s \in Injection(D, ToSet(s))
  BY <1>4 DEF Injection, IsInjective, Distinct
<1> HIDE DEF D
<1> QED  BY <1>2, <1>5, <1>6, FS_Surjection

(* The order by the books is one of all questions of the set, each of them once: the     *)
(* number of questions before a question is its place.                                   *)
LEMMA BookOrderSorts ==
  ASSUME NEW S \in SUBSET Questions
  PROVE  /\ BookOrder(S) \in Seq(Questions)
         /\ Len(BookOrder(S)) = Cardinality(S)
         /\ Distinct(BookOrder(S)) /\ Ordered(BookOrder(S))
         /\ ToSet(BookOrder(S)) = S
<1> DEFINE n == Cardinality(S)
           Before(q) == {x \in S : sourceOrderLess(x, q)}
           rank == [q \in S |-> Cardinality(Before(q)) + 1]
           Sorts(s) == \A k, l \in 1..n : k < l => sourceOrderLess(s[k], s[l])
           t == [k \in 1..n |-> CHOOSE q \in S : rank[q] = k]
           s == BookOrder(S)
<1>1. IsFiniteSet(S) /\ n \in Nat
  BY SubsetsAreFinite
<1>2. ASSUME NEW q \in S
      PROVE  IsFiniteSet(Before(q)) /\ Cardinality(Before(q)) \in Nat /\ Cardinality(Before(q)) < n
  <2>1. Before(q) \in SUBSET S /\ q \notin Before(q)
    BY OrderIsTotal
  <2> HIDE DEF Before
  <2>2. IsFiniteSet(Before(q)) /\ Cardinality(Before(q)) <= n /\ Cardinality(Before(q)) # n
    BY <1>1, <2>1, FS_Subset
  <2>3. Cardinality(Before(q)) \in Nat
    BY <2>2, FS_CardinalityType
  <2> QED  BY <1>1, <2>2, <2>3
<1>3. ASSUME NEW q \in S, NEW r \in S, sourceOrderLess(q, r) PROVE rank[q] < rank[r]
  <2>1. Before(q) \in SUBSET Before(r) /\ q \in Before(r) /\ q \notin Before(q)
    BY <1>3, OrderIsTotal
  <2>2. IsFiniteSet(Before(r)) /\ Cardinality(Before(q)) \in Nat /\ Cardinality(Before(r)) \in Nat
    BY <1>2
  <2>3. rank[q] = Cardinality(Before(q)) + 1 /\ rank[r] = Cardinality(Before(r)) + 1
    OBVIOUS
  <2> HIDE DEF Before, rank
  <2>4. Cardinality(Before(q)) <= Cardinality(Before(r)) /\ Cardinality(Before(q)) # Cardinality(Before(r))
    BY <2>1, <2>2, FS_Subset
  <2> QED  BY <2>2, <2>3, <2>4
<1>4. rank \in [S -> 1..n]
  <2>1. ASSUME NEW q \in S PROVE Cardinality(Before(q)) + 1 \in 1..n
    <3>1. Cardinality(Before(q)) \in Nat /\ Cardinality(Before(q)) < n
      BY <1>2
    <3> HIDE DEF Before, n
    <3> QED  BY <1>1, <3>1
  <2> HIDE DEF Before
  <2> QED  BY <2>1
<1> HIDE DEF rank
<1>5. \A q, r \in S : q # r => rank[q] # rank[r]
  <2> SUFFICES ASSUME NEW q \in S, NEW r \in S, q # r PROVE rank[q] # rank[r]
    OBVIOUS
  <2>1. sourceOrderLess(q, r) \/ sourceOrderLess(r, q)
    BY OrderIsTotal
  <2>2. rank[q] \in 1..n /\ rank[r] \in 1..n
    BY <1>4
  <2>3. rank[q] < rank[r] \/ rank[r] < rank[q]
    BY <1>3, <2>1
  <2> HIDE DEF n
  <2> QED  BY <2>2, <2>3
<1>6. rank \in Injection(S, 1..n)
  BY <1>4, <1>5 DEF Injection, IsInjective
<1>7. rank \in Surjection(S, 1..n)
  <2>1. IsFiniteSet(1..n) /\ Cardinality(1..n) = n
    BY <1>1, FS_Interval
  <2> QED  BY <1>6, <2>1, FS_Injection
<1>8. \A k \in 1..n : t[k] \in S /\ rank[t[k]] = k
  <2>1. \A k \in 1..n : \E q \in S : rank[q] = k
    BY <1>7 DEF Surjection
  <2> QED  BY <2>1
<1>9. t \in [1..n -> S]
  BY <1>8
<1> HIDE DEF t
<1>10. Sorts(t)
  <2> SUFFICES ASSUME NEW k \in 1..n, NEW l \in 1..n, k < l PROVE sourceOrderLess(t[k], t[l])
    OBVIOUS
  <2>1. t[k] \in S /\ t[l] \in S /\ rank[t[k]] = k /\ rank[t[l]] = l /\ k # l /\ ~(l < k)
    BY <1>1, <1>8
  <2>2. t[k] # t[l]
    BY <2>1
  <2>3. ~sourceOrderLess(t[l], t[k])
    <3>1. sourceOrderLess(t[l], t[k]) => rank[t[l]] < rank[t[k]]
      BY <1>3, <2>1
    <3> QED  BY <2>1, <3>1
  <2> QED  BY <2>1, <2>2, <2>3, OrderIsTotal
<1>11. s = CHOOSE u \in [1..n -> S] : Sorts(u)
  BY DEF BookOrder
<1> HIDE DEF s
<1>12. s \in [1..n -> S] /\ Sorts(s)
  <2> HIDE DEF Sorts
  <2> QED  BY <1>9, <1>10, <1>11
<1>13. s \in Seq(S) /\ s \in Seq(Questions) /\ Len(s) = n
  <2> HIDE DEF n
  <2> QED  BY <1>1, <1>12
<1>14. Ordered(s)
  BY <1>12, <1>13 DEF Ordered
<1>15. Distinct(s)
  <2> SUFFICES ASSUME NEW k \in 1..Len(s), NEW l \in 1..Len(s), k # l PROVE s[k] # s[l]
    BY DEF Distinct
  <2>1. k \in Int /\ l \in Int /\ s[k] \in Questions /\ s[l] \in Questions
    BY <1>13, ElementOfSeq
  <2>2. sourceOrderLess(s[k], s[l]) \/ sourceOrderLess(s[l], s[k])
    <3>1. k < l \/ l < k
      BY <2>1
    <3> QED  BY <1>14, <3>1 DEF Ordered
  <2> QED  BY <2>1, <2>2, OrderIsTotal
<1>16. ToSet(s) = S
  <2>1. ToSet(s) \in SUBSET S
    BY <1>13, ElementsOf
  <2>2. Cardinality(ToSet(s)) = n
    BY <1>13, <1>15, DistinctCounts
  <2> QED  BY <1>1, <2>1, <2>2, FS_Subset
<1> QED  BY <1>13, <1>14, <1>15, <1>16 DEF s

LEMMA ElementsOfAppend ==
  ASSUME NEW s \in Seq(Questions), NEW e \in Questions
  PROVE  /\ Append(s, e) \in Seq(Questions)
         /\ Len(Append(s, e)) = Len(s) + 1
         /\ ToSet(Append(s, e)) = ToSet(s) \cup {e}
         /\ Distinct(s) /\ e \notin ToSet(s) => Distinct(Append(s, e))
<1> DEFINE r == Append(s, e)
<1>1. /\ r \in Seq(Questions) /\ Len(s) \in Nat /\ Len(r) = Len(s) + 1
      /\ \A i \in 1..Len(s) : r[i] = s[i]
      /\ r[Len(s) + 1] = e
  BY AppendProperties, LenProperties
<1> HIDE DEF r
<1>2. \A i : i \in 1..Len(r) <=> i \in 1..Len(s) \/ i = Len(s) + 1
  BY <1>1
<1>3. \A x : x \in ToSet(r) <=> x \in ToSet(s) \/ x = e
  BY <1>1, <1>2, ElementsOf
<1>4. ASSUME Distinct(s), e \notin ToSet(s), NEW i \in 1..Len(r), NEW j \in 1..Len(r), r[i] = r[j]
      PROVE  i = j
  <2>1. \A k \in 1..Len(s) : s[k] # e
    BY <1>4, ElementsOf
  <2> QED  BY <1>1, <1>2, <1>4, <2>1 DEF Distinct
<1> QED  BY <1>1, <1>3, <1>4 DEF Distinct, r

LEMMA MinOfTwo ==
  ASSUME NEW a \in Nat, NEW b \in Nat
  PROVE  Min({a, b}) = IF a <= b THEN a ELSE b
<1> DEFINE m == IF a <= b THEN a ELSE b
<1>1. m \in {a, b} /\ \A y \in {a, b} : m <= y
  OBVIOUS
<1>2. \A x \in {a, b} : (\A y \in {a, b} : x <= y) => x = m
  OBVIOUS
<1> HIDE DEF m
<1>3. Min({a, b}) = m
  BY <1>1, <1>2 DEF Min
<1> QED  BY <1>3 DEF m

(* LIMIT n: what is left of the rows keeps what they have. *)
LEMMA FirstOfKeeps ==
  ASSUME NEW s \in Seq(Questions), NEW n \in Nat
  PROVE  /\ FirstOf(s, n) \in Seq(Questions)
         /\ Len(FirstOf(s, n)) = IF n <= Len(s) THEN n ELSE Len(s)
         /\ ToSet(FirstOf(s, n)) \subseteq ToSet(s)
         /\ Len(s) <= n => ToSet(FirstOf(s, n)) = ToSet(s)
         /\ Distinct(s) => Distinct(FirstOf(s, n))
         /\ Ordered(s) => Ordered(FirstOf(s, n))
<1> DEFINE m == IF n <= Len(s) THEN n ELSE Len(s)
           r == FirstOf(s, n)
<1>1. Len(s) \in Nat /\ m \in Nat /\ m <= Len(s) /\ m <= n /\ (Len(s) <= n => m = Len(s))
  BY LenProperties
<1>2. r = SubSeq(s, 1, m)
  BY <1>1, MinOfTwo DEF FirstOf
<1> HIDE DEF r
<1>3. \A i \in 1..m : i \in 1..Len(s) /\ s[i] \in Questions
  <2>1. \A i \in 1..m : i \in 1..Len(s)
    <3> HIDE DEF m
    <3> QED  BY <1>1
  <2> QED  BY <2>1, ElementOfSeq
<1>4. r \in Seq(Questions) /\ Len(r) = m /\ \A i \in 1..m : r[i] = s[i]
  <2> HIDE DEF m
  <2>1. 1 \in Int /\ m \in Int /\ (IF 1 <= m THEN m - 1 + 1 ELSE 0) = m /\ m - 1 + 1 = m
    BY <1>1
  <2>2. /\ SubSeq(s, 1, m) \in Seq(Questions)
        /\ Len(SubSeq(s, 1, m)) = (IF 1 <= m THEN m - 1 + 1 ELSE 0)
        /\ \A i \in 1..(m - 1 + 1) : SubSeq(s, 1, m)[i] = s[1 + i - 1]
    BY <1>3, <2>1, SubSeqProperties
  <2>3. \A i \in 1..m : 1 + i - 1 = i
    BY <1>1
  <2> QED  BY <1>2, <2>1, <2>2, <2>3
<1>5. Len(r) = IF n <= Len(s) THEN n ELSE Len(s)
  BY <1>4
<1> HIDE DEF m
<1>6. \A x \in ToSet(r) : x \in ToSet(s)
  BY <1>3, <1>4, ElementsOf
<1>7. Len(s) <= n => \A x \in ToSet(s) : x \in ToSet(r)
  BY <1>1, <1>4, ElementsOf
<1>8. Distinct(s) => Distinct(r)
  BY <1>3, <1>4 DEF Distinct
<1>9. Ordered(s) => Ordered(r)
  BY <1>3, <1>4 DEF Ordered
<1> QED  BY <1>4, <1>5, <1>6, <1>7, <1>8, <1>9 DEF r

\* What a query promises of the rows it returns.
Rows(f, from, n, s) ==
  /\ s \in Seq(Questions) /\ Distinct(s) /\ ToSet(s) \subseteq from
  /\ f.order # "random" => Ordered(s)
  /\ Len(s) <= n
  /\ Len(s) < n => ToSet(s) = from

LEMMA QueryGives ==
  ASSUME NEW f, NEW from \in SUBSET Questions, NEW n \in Nat, NEW s \in Query(f, from, n)
  PROVE  Rows(f, from, n, s) /\ (n <= Cardinality(from) => Len(s) = n)
<1> DEFINE c == Cardinality(from)
<1>1. IsFiniteSet(from) /\ c \in Nat
  BY SubsetsAreFinite
<1>2. PICK t \in Seq(Questions) : /\ s = FirstOf(t, n) /\ Len(t) = c /\ Distinct(t) /\ ToSet(t) = from
                                  /\ f.order # "random" => Ordered(t)
  <2>1. CASE f.order = "random"
    <3>1. PICK t \in SetToSeqs(from) : s = FirstOf(t, n)
      BY <2>1 DEF Query
    <3>2. t \in [1..c -> from] /\ \A i, j \in 1..c : i # j => t[i] # t[j]
      BY <3>1 DEF SetToSeqs
    <3>3. t \in Seq(from) /\ t \in Seq(Questions) /\ Len(t) = c
      <4> HIDE DEF c
      <4> QED  BY <1>1, <3>2
    <3>4. Distinct(t)
      BY <3>2, <3>3 DEF Distinct
    <3>5. ToSet(t) = from
      <4>1. ToSet(t) \in SUBSET from
        BY <3>3, ElementsOf
      <4>2. Cardinality(ToSet(t)) = c
        BY <3>3, <3>4, DistinctCounts
      <4> QED  BY <1>1, <4>1, <4>2, FS_Subset
    <3> QED  BY <2>1, <3>1, <3>3, <3>4, <3>5
  <2>2. CASE f.order # "random"
    <3>1. s = FirstOf(BookOrder(from), n)
      BY <2>2 DEF Query
    <3> QED  BY <3>1, BookOrderSorts
  <2> QED  BY <2>1, <2>2
<1>3. /\ s \in Seq(Questions) /\ Len(s) = (IF n <= c THEN n ELSE c)
      /\ ToSet(s) \subseteq from /\ (c <= n => ToSet(s) = from)
      /\ Distinct(s) /\ (f.order # "random" => Ordered(s))
  BY <1>2, FirstOfKeeps
<1> HIDE DEF c
<1>4. Len(s) <= n /\ (Len(s) < n => c <= n) /\ (n <= c => Len(s) = n)
  BY <1>1, <1>3
<1> QED  BY <1>3, <1>4 DEF Rows, c

Smaller == {ss \in Nat \X Nat : ss[1] < ss[2]}

\* A set of numbers that has 0 and the successor of each of its members has them all.
LEMMA NaturalInduction ==
  ASSUME NEW T \in SUBSET Nat, 0 \in T, \A n \in T : n + 1 \in T
  PROVE  T = Nat
<1> DEFINE R == Nat \ T
<1> SUFFICES ASSUME R # {} PROVE FALSE
  OBVIOUS
<1>1. IsWellFoundedOn(Smaller, Nat)
  BY NatLessThanWellFounded, Zenon DEF Smaller, OpToRel
<1>2. PICK x \in R : \A y \in R : <<y, x>> \notin Smaller
  <2> HIDE DEF R
  <2>1. R \subseteq Nat
    BY DEF R
  <2> QED  BY <1>1, <2>1, WFMin
<1>3. x \in Nat /\ x # 0
  OBVIOUS
<1>4. x - 1 \in Nat /\ <<x - 1, x>> \in Smaller /\ (x - 1) + 1 = x
  BY <1>3 DEF Smaller
<1> QED  BY <1>2, <1>4

\* The rows with more of them, as far as the first i rows of more have been looked at.
FilledUpTo(rows, more, n, i, s) ==
  /\ s \in Seq(Questions) /\ Distinct(s) /\ Len(s) <= n /\ Len(rows) <= Len(s)
  /\ ToSet(rows) \subseteq ToSet(s) /\ ToSet(s) \subseteq ToSet(rows) \cup ToSet(more)
  /\ Len(s) = n \/ \A k \in 1..i : more[k] \in ToSet(s)

(* Rows are added until there are n or none is left, and none a second time. *)
LEMMA FilledGives ==
  ASSUME NEW n \in Nat, NEW more \in Seq(Questions),
         NEW rows \in Seq(Questions), Distinct(rows), Len(rows) <= n
  PROVE  /\ FilledUpTo(rows, more, n, Len(more), Filled(rows, more, n))
         /\ \/ Len(Filled(rows, more, n)) = n
            \/ ToSet(more) \subseteq ToSet(Filled(rows, more, n))
<1> DEFINE L == Len(more)
           S(f, i) == IF i = 0 THEN rows
                      ELSE IF Len(f[i - 1]) >= n \/ more[i] \in ToSet(f[i - 1]) THEN f[i - 1]
                      ELSE Append(f[i - 1], more[i])
           Solves(f, m) == f = [i \in 0..m |-> S(f, i)]
           filled == CHOOSE f : Solves(f, L)
<1>1. L \in Nat
  OBVIOUS
<1>2. \E f : Solves(f, L)
  <2> DEFINE T == {m \in Nat : \E f : Solves(f, m)}
  <2>1. 0 \in T
    <3> DEFINE f == [i \in 0..0 |-> rows]
    <3>1. Solves(f, 0)
      OBVIOUS
    <3> QED  BY <3>1
  <2>2. ASSUME NEW m \in T PROVE m + 1 \in T
    <3>1. PICK f : Solves(f, m)
      OBVIOUS
    <3>2. m \in Nat
      OBVIOUS
    <3> DEFINE g == [i \in 0..(m + 1) |-> IF i \in 0..m THEN f[i] ELSE S(f, m + 1)]
    <3>3. \A i \in 0..m : g[i] = f[i]
      BY <3>2
    <3>4. ASSUME NEW i \in 0..(m + 1) PROVE g[i] = S(g, i)
      <4>1. i = 0 \/ (i - 1 \in 0..m /\ g[i - 1] = f[i - 1])
        BY <3>2, <3>3
      <4>2. S(g, i) = S(f, i)
        BY <4>1
      <4>3. i \in 0..m => f[i] = S(f, i)
        BY <3>1
      <4>4. i \notin 0..m => i = m + 1
        BY <3>2
      <4> HIDE DEF S
      <4> QED  BY <4>2, <4>3, <4>4
    <3>5. Solves(g, m + 1)
      <4> HIDE DEF S
      <4>1. g = [i \in 0..(m + 1) |-> g[i]]
        OBVIOUS
      <4> HIDE DEF g
      <4> QED  BY <3>4, <4>1
    <3> HIDE DEF g, Solves
    <3> QED  BY <3>2, <3>5
  <2>3. T = Nat
    <3> HIDE DEF Solves
    <3>1. T \in SUBSET Nat
      OBVIOUS
    <3> HIDE DEF T
    <3> QED  BY <2>1, <2>2, <3>1, NaturalInduction
  <2> HIDE DEF Solves
  <2> QED  BY <1>1, <2>3
<1>3. Solves(filled, L)
  <2> HIDE DEF Solves
  <2> QED  BY <1>2
<1>4. Filled(rows, more, n) = filled[L]
  BY DEF Filled
<1> HIDE DEF filled
<1>5. \A i \in 0..L : filled[i] = S(filled, i)
  <2> HIDE DEF S
  <2> QED  BY <1>3
<1> HIDE DEF Solves
<1> DEFINE Good(i) == FilledUpTo(rows, more, n, i, filled[i])
           U == {i \in Nat : i <= L => Good(i)}
<1>6. 0 \in U
  <2>1. filled[0] = rows
    BY <1>1, <1>5
  <2>2. \A k : k \notin 1..0
    OBVIOUS
  <2>3. Len(rows) <= Len(rows)
    BY LenProperties
  <2> QED  BY <2>1, <2>2, <2>3 DEF FilledUpTo
<1>7. ASSUME NEW i \in U PROVE i + 1 \in U
  <2>1. i \in Nat /\ i + 1 \in Nat
    OBVIOUS
  <2> SUFFICES ASSUME i + 1 <= L PROVE Good(i + 1)
    BY <2>1
  <2>2. i + 1 \in 0..L /\ i + 1 # 0 /\ (i + 1) - 1 = i /\ i <= L /\ i + 1 \in 1..L
    BY <1>1, <2>1
  <2>3. more[i + 1] \in Questions /\ more[i + 1] \in ToSet(more)
    BY <2>2, ElementsOf
  <2>4. Good(i)
    BY <2>2
  <2>5. \A k \in 1..(i + 1) : k \in 1..i \/ k = i + 1
    BY <2>1
  <2>6. filled[i + 1] = S(filled, i + 1)
    <3> HIDE DEF S
    <3> QED  BY <1>5, <2>2
  <2>7. filled[i] \in Seq(Questions) /\ Len(filled[i]) \in Nat /\ Len(rows) \in Nat
    BY <2>4, LenProperties DEF FilledUpTo
  <2>8. CASE Len(filled[i]) >= n \/ more[i + 1] \in ToSet(filled[i])
    <3>1. filled[i + 1] = filled[i]
      BY <2>2, <2>6, <2>8
    <3>2. Len(filled[i]) >= n => Len(filled[i]) = n
      BY <2>4, <2>7 DEF FilledUpTo
    <3> QED  BY <2>4, <2>5, <2>8, <3>1, <3>2 DEF FilledUpTo
  <2>9. CASE ~(Len(filled[i]) >= n) /\ more[i + 1] \notin ToSet(filled[i])
    <3>1. filled[i + 1] = Append(filled[i], more[i + 1])
      BY <2>2, <2>6, <2>9
    <3>2. /\ filled[i + 1] \in Seq(Questions) /\ Len(filled[i + 1]) = Len(filled[i]) + 1
          /\ ToSet(filled[i + 1]) = ToSet(filled[i]) \cup {more[i + 1]}
          /\ Distinct(filled[i + 1])
      BY <2>3, <2>4, <2>7, <2>9, <3>1, ElementsOfAppend DEF FilledUpTo
    <3>3. Len(filled[i]) # n
      BY <2>7, <2>9
    <3>4. Len(filled[i + 1]) <= n /\ Len(rows) <= Len(filled[i + 1])
      BY <2>4, <2>7, <2>9, <3>2 DEF FilledUpTo
    <3> QED  BY <2>3, <2>4, <2>5, <3>2, <3>3, <3>4 DEF FilledUpTo
  <2> QED  BY <2>8, <2>9
<1>8. U = Nat
  <2>1. U \in SUBSET Nat
    OBVIOUS
  <2> HIDE DEF U
  <2> QED  BY <1>6, <1>7, <2>1, NaturalInduction
<1>9. Good(L)
  BY <1>1, <1>8
<1>10. Len(filled[L]) = n \/ ToSet(more) \subseteq ToSet(filled[L])
  BY <1>9, ElementsOf DEF FilledUpTo
<1> QED  BY <1>4, <1>9, <1>10

LEMMA FilterTypes ==
  ASSUME NEW f \in Filter
  PROVE  /\ f.count \in Nat \ {0} /\ f.order \in Orders /\ f.mode \in {"scope", "wrong_items"}
         /\ f.within \in SUBSET Questions /\ f.within \in Scopes /\ f.ids \in SUBSET Questions
         /\ Candidates(f) \in SUBSET Questions
         /\ \A E : Candidates(f) \ E \in SUBSET Questions
<1>1. /\ f.count \in Counts /\ f.order \in Orders /\ f.mode \in {"scope", "wrong_items"}
      /\ f.within \in Scopes /\ f.ids \in SUBSET Questions
  BY DEF Filter
<1>2. f.count \in Nat \ {0} /\ f.within \in SUBSET Questions
  BY <1>1, SelectionAssumption
<1>3. Candidates(f) \in SUBSET Questions
  BY <1>2 DEF Candidates
<1> QED  BY <1>1, <1>2, <1>3

\* What a learner is given for a filter.
Given(f, s) ==
  /\ s \in Seq(Questions) /\ Distinct(s) /\ ToSet(s) \subseteq Candidates(f)
  /\ f.order # "random" => Ordered(s)
  /\ Len(s) <= f.count

(* The rows of the second query fill up those of the first. *)
LEMMA TopUpGives ==
  ASSUME NEW f \in Filter, NEW E, NEW rows, Rows(f, Candidates(f) \ E, f.count, rows),
         NEW s \in TopUp(f, rows)
  PROVE  /\ Given(f, s)
         /\ ToSet(rows) \subseteq ToSet(s)
         /\ f.count <= Cardinality(Candidates(f)) => Len(s) = f.count
<1> DEFINE C == Candidates(f)
           n == f.count
<1>1. C \in SUBSET Questions /\ n \in Nat
  BY FilterTypes
<1>2. PICK more \in Query(f, C, n) : s = InOrder(f, Filled(rows, more, n))
  BY DEF TopUp
<1> DEFINE r == Filled(rows, more, n)
<1>3. rows \in Seq(Questions) /\ Distinct(rows) /\ Len(rows) <= n /\ ToSet(rows) \subseteq C
  BY DEF Rows
<1>4. Rows(f, C, n, more) /\ (n <= Cardinality(C) => Len(more) = n)
  <2> HIDE DEF C, n
  <2> QED  BY <1>1, <1>2, QueryGives
<1>5. more \in Seq(Questions) /\ Distinct(more) /\ ToSet(more) \subseteq C
  BY <1>4 DEF Rows
<1>6. FilledUpTo(rows, more, n, Len(more), r) /\ (Len(r) = n \/ ToSet(more) \subseteq ToSet(r))
  <2> HIDE DEF C, n
  <2> QED  BY <1>1, <1>3, <1>5, FilledGives
<1> HIDE DEF C, n, r
<1>7. /\ r \in Seq(Questions) /\ Distinct(r) /\ Len(r) <= n
      /\ ToSet(rows) \subseteq ToSet(r) /\ ToSet(r) \subseteq C
  BY <1>3, <1>5, <1>6 DEF FilledUpTo
<1>8. ToSet(r) \in SUBSET Questions /\ Cardinality(ToSet(r)) = Len(r) /\ Len(r) \in Nat
  BY <1>7, ElementsOf, DistinctCounts
<1>9. /\ s \in Seq(Questions) /\ Distinct(s) /\ ToSet(s) = ToSet(r) /\ Len(s) = Len(r)
      /\ f.order # "random" => Ordered(s)
  <2>1. s = InOrder(f, r)
    BY <1>2 DEF r, n
  <2>2. CASE f.order = "random"
    BY <1>7, <2>1, <2>2 DEF InOrder
  <2>3. CASE f.order # "random"
    <3>1. s = BookOrder(ToSet(r))
      BY <2>1, <2>3 DEF InOrder
    <3> QED  BY <1>8, <3>1, BookOrderSorts
  <2> QED  BY <2>2, <2>3
<1>10. ASSUME n <= Cardinality(C) PROVE Len(s) = n
  <2>1. CASE Len(r) = n
    BY <1>9, <2>1
  <2>2. CASE ToSet(more) \subseteq ToSet(r)
    <3>1. Cardinality(ToSet(more)) = n
      BY <1>4, <1>5, <1>10, DistinctCounts
    <3>2. Cardinality(ToSet(more)) <= Cardinality(ToSet(r))
      <4>1. IsFiniteSet(ToSet(r))
        BY <1>8, SubsetsAreFinite
      <4> QED  BY <2>2, <4>1, FS_Subset
    <3> QED  BY <1>1, <1>7, <1>8, <1>9, <3>1, <3>2
  <2> QED  BY <1>6, <2>1, <2>2
<1> QED  BY <1>7, <1>9, <1>10 DEF Given, C, n

(* Whoever is given a question that should be left out is given all that should not,   *)
(* and whoever is promised a number of questions is given that number.                 *)
LEMMA SelectGives ==
  ASSUME NEW f \in Filter, NEW s \in SelectPublishedVersions(f)
  PROVE  /\ Given(f, s)
         /\ f.count <= CountPublishedVersions(f) => Len(s) = f.count
         /\ ToSet(s) \cap Excluded(f) # {} => Candidates(f) \ Excluded(f) \subseteq ToSet(s)
<1> DEFINE C == Candidates(f)
           E == Excluded(f)
           n == f.count
<1>1. PICK rows \in Query(f, C \ E, n) :
        s \in IF f.mode = "scope" /\ Len(rows) < n THEN TopUp(f, rows) ELSE {rows}
  BY DEF SelectPublishedVersions
<1>2. n \in Nat /\ C \ E \in SUBSET Questions /\ C \in SUBSET Questions
  BY FilterTypes
<1>3. Rows(f, C \ E, n, rows) /\ (n <= Cardinality(C \ E) => Len(rows) = n)
  <2> HIDE DEF C, E, n
  <2> QED  BY <1>1, <1>2, QueryGives
<1>4. /\ rows \in Seq(Questions) /\ Distinct(rows) /\ ToSet(rows) \subseteq C \ E /\ Len(rows) <= n
      /\ (Len(rows) < n => ToSet(rows) = C \ E) /\ (f.order # "random" => Ordered(rows))
  BY <1>3 DEF Rows
<1>5. Len(rows) \in Nat
  BY <1>4, LenProperties
<1>6. CASE f.mode = "scope" /\ Len(rows) < n
  <2>1. s \in TopUp(f, rows)
    BY <1>1, <1>6
  <2>2. Given(f, s) /\ ToSet(rows) \subseteq ToSet(s) /\ (n <= Cardinality(C) => Len(s) = n)
    BY <1>3, <2>1, TopUpGives
  <2>3. n <= CountPublishedVersions(f) => n <= Cardinality(C)
    <3>1. IsFiniteSet(C) /\ Cardinality(C) \in Nat
      BY <1>2, SubsetsAreFinite
    <3> DEFINE D == C \ (IF f.order = "unseen_first" THEN Seen ELSE {})
    <3>2. D \in SUBSET C /\ CountPublishedVersions(f) = Cardinality(D)
      BY DEF CountPublishedVersions
    <3> HIDE DEF C, D, n
    <3>3. Cardinality(D) <= Cardinality(C) /\ Cardinality(D) \in Nat
      BY <3>1, <3>2, FS_Subset, FS_CardinalityType
    <3> QED  BY <1>2, <3>1, <3>2, <3>3
  <2>4. C \ E \subseteq ToSet(s)
    BY <1>4, <1>6, <2>2
  <2> HIDE DEF C, E, n
  <2> QED  BY <2>2, <2>3, <2>4 DEF C, E, n
<1>7. CASE f.mode = "scope" /\ ~(Len(rows) < n)
  <2>1. s = rows /\ Len(rows) = n
    BY <1>1, <1>2, <1>4, <1>5, <1>7
  <2>2. ToSet(s) \cap E = {}
    BY <1>4, <2>1
  <2> QED  BY <1>4, <2>1, <2>2 DEF Given
<1>8. CASE f.mode # "scope"
  <2>1. s = rows
    BY <1>1, <1>8
  <2>2. ToSet(s) \cap E = {}
    BY <1>4, <2>1
  <2>3. CountPublishedVersions(f) = Cardinality(C \ E)
    BY <1>8 DEF CountPublishedVersions, Excluded
  <2> QED  BY <1>3, <1>4, <2>1, <2>2, <2>3 DEF Given
<1> QED  BY <1>6, <1>7, <1>8

-----------------------------------------------------------------------------
(* The learner                                                             *)

LEMMA WishIsFilter ==
  ASSUME LearnTypes, wish # NoWish
  PROVE  wish \in Filter
  BY DEF LearnTypes

LEMMA CountsHold == LearnTypes => CountsAreRight
<1> SUFFICES ASSUME LearnTypes PROVE PromisedIsGiven /\ RemainingIsAvailable
  BY DEF CountsAreRight
<1>1. PromisedIsGiven
  <2> SUFFICES ASSUME wish # NoWish, CountPublishedVersions(wish) >= wish.count,
                      NEW rows \in SelectPublishedVersions(wish)
               PROVE  Len(rows) = wish.count /\ Cardinality(ToSet(rows)) = wish.count
    BY DEF PromisedIsGiven
  <2>1. wish \in Filter
    BY WishIsFilter
  <2>2. wish.count \in Nat /\ CountPublishedVersions(wish) \in Nat
    <3>1. \A E : Candidates(wish) \ E \in SUBSET Questions /\ wish.count \in Nat
      BY <2>1, FilterTypes
    <3> QED  BY <3>1, SubsetsAreFinite DEF CountPublishedVersions
  <2>3. wish.count <= CountPublishedVersions(wish)
    BY <2>2
  <2>4. Given(wish, rows) /\ Len(rows) = wish.count
    BY <2>1, <2>3, SelectGives
  <2> QED  BY <2>4, DistinctCounts DEF Given
<1>2. RemainingIsAvailable
  <2> SUFFICES ASSUME NEW within \in Scopes
               PROVE  PracticeSources(within).questionCount - PracticeSources(within).practicedCount
                        = CountPublishedVersions([mode |-> "scope", order |-> "unseen_first",
                                                  within |-> within, count |-> 1, ids |-> {}])
    BY Zenon DEF RemainingIsAvailable
  <2> DEFINE f == [mode |-> "scope", order |-> "unseen_first", within |-> within, count |-> 1, ids |-> {}]
             public == {q \in within : Practicable(q)}
  <2>1. f.order = "unseen_first" /\ f.within = within /\ f.ids = {}
    OBVIOUS
  <2>2. Candidates(f) = public
    <3> HIDE DEF f
    <3> QED  BY <2>1 DEF Candidates
  <2>3. CountPublishedVersions(f) = Cardinality(public \ Seen)
    <3> HIDE DEF f
    <3> QED  BY <2>1, <2>2 DEF CountPublishedVersions
  <2>4. /\ PracticeSources(within).questionCount = Cardinality(public)
        /\ PracticeSources(within).practicedCount = Cardinality(public \cap Seen)
    BY DEF PracticeSources
  <2>5. public \in SUBSET Questions
    BY SelectionAssumption
  <2> HIDE DEF public
  <2>6. Cardinality(public \ Seen) = Cardinality(public) - Cardinality(public \cap Seen)
    BY <2>5, SubsetsAreFinite, FS_Difference
  <2> QED  BY <2>3, <2>4, <2>6
<1> QED  BY <1>1, <1>2

LEMMA FillsUpLast == LearnTypes => RecentOnlyToFillUp
<1> SUFFICES ASSUME LearnTypes, wish # NoWish, wish.mode = "scope", wish.order # "unseen_first",
                    NEW rows \in SelectPublishedVersions(wish)
             PROVE  ToSet(rows) \cap Excluded(wish) # {} =>
                      Candidates(wish) \ Excluded(wish) \subseteq ToSet(rows)
  BY DEF RecentOnlyToFillUp, Excluded
<1> QED  BY WishIsFilter, SelectGives

LearnIInv == LearnTypes /\ LearnInv

(* Reading what to choose from: a request for wrong questions goes on only with some. *)
LEMMA FilterStep ==
  ASSUME LearnIInv, NEW mode \in {"scope", "wrong_items"}, NEW order \in Orders,
         NEW within \in Scopes, NEW count \in Counts,
         selectionFilter(mode, order, within, count)
  PROVE  LearnIInv'
<1> DEFINE ids == IF mode = "wrong_items" THEN WrongQuestionIDs(within) ELSE {}
           f == [mode |-> mode, order |-> order, within |-> within, count |-> count, ids |-> ids]
<1>1. wish' = f /\ sessions' = sessions /\ ~Refused(f)
  BY DEF selectionFilter
<1>2. mode \in {"scope", "wrong_items"} /\ order \in Orders /\ within \in Scopes /\ count \in Counts
  OBVIOUS
<1>3. ids \in SUBSET Questions
  BY <1>2, SelectionAssumption DEF WrongQuestionIDs
<1>4. f \in Filter
  <2> HIDE DEF ids
  <2> QED  BY <1>2, <1>3 DEF Filter
<1>5. f.mode = mode /\ f.ids = ids
  OBVIOUS
<1>6. mode = "wrong_items" =>
        ids # {} /\ \A q \in ids : \E k \in DOMAIN sessions : q \in sessions[k].failed
  <2>1. \A q \in WrongQuestionIDs(within) : \E k \in DOMAIN sessions : q \in sessions[k].failed
    BY DEF WrongQuestionIDs, Results
  <2>2. mode = "wrong_items" => ids # {}
    <3> HIDE DEF f, ids
    <3> QED  BY <1>1, <1>5 DEF Refused
  <2> QED  BY <2>1, <2>2
<1> HIDE DEF f, ids
<1>7. LearnTypes'
  BY <1>1, <1>4 DEF LearnIInv, LearnTypes
<1>8. /\ (\A i \in DOMAIN sessions : ~Done(i) => sessions[i].failed = {})'
      /\ GivenInOrder' /\ WrongItemsWereWrong'
  BY <1>1 DEF LearnIInv, LearnInv, Done, GivenInOrder, WrongItemsWereWrong, Asked
<1>9. (wish # NoWish /\ wish.mode = "wrong_items" =>
        wish.ids # {} /\ \A q \in wish.ids : \E k \in DOMAIN sessions : q \in sessions[k].failed)'
  BY <1>1, <1>5, <1>6
<1> QED  BY <1>7, <1>8, <1>9 DEF LearnIInv, LearnInv

(* A session holds its questions in order, and wrong ones only if that was asked for. *)
LEMMA CreateStep ==
  ASSUME LearnIInv, CreateSession
  PROVE  LearnIInv'
<1>1. wish \in Filter /\ wish' = NoWish
  BY WishIsFilter DEF CreateSession, LearnIInv
<1>2. sessions \in Seq(Session)
  BY DEF LearnIInv, LearnTypes
<1>3. PICK rows \in SelectPublishedVersions(wish) :
        sessions' = IF Len(rows) < wish.count \/ Len(sessions) = MaxSessions THEN sessions
                    ELSE Append(sessions, [asked |-> rows, at |-> 0, failed |-> {}, hidden |-> {},
                                             mode |-> wish.mode, random |-> wish.order = "random"])
  BY DEF CreateSession
<1>4. CASE sessions' = sessions
  BY <1>1, <1>2, <1>4
     DEF LearnIInv, LearnTypes, LearnInv, Done, GivenInOrder, WrongItemsWereWrong, Asked
<1>5. CASE sessions' # sessions
  <2> DEFINE new == [asked |-> rows, at |-> 0, failed |-> {}, hidden |-> {},
                     mode |-> wish.mode, random |-> wish.order = "random"]
             n == Len(sessions)
  <2>1. sessions' = Append(sessions, new)
    BY <1>3, <1>5
  <2>2. /\ rows \in Seq(Questions) /\ ToSet(rows) \subseteq Candidates(wish)
        /\ wish.order # "random" => Ordered(rows)
    BY <1>1, SelectGives DEF Given
  <2>3. wish.mode \in {"scope", "wrong_items"}
    BY <1>1, FilterTypes
  <2>4. /\ new.asked = rows /\ new.at = 0 /\ new.failed = {} /\ new.hidden = {}
        /\ new.mode = wish.mode /\ new.random = (wish.order = "random")
    OBVIOUS
  <2>5. new \in Session
    BY <2>2, <2>3 DEF Session
  <2> HIDE DEF new
  <2>6. /\ sessions' \in Seq(Session) /\ n \in Nat /\ Len(sessions') = n + 1
        /\ \A i \in 1..n : sessions'[i] = sessions[i]
        /\ sessions'[n + 1] = new
    BY <1>2, <2>1, <2>5, AppendProperties, LenProperties
  <2>7. DOMAIN sessions = 1..n /\ DOMAIN sessions' = 1..(n + 1)
    BY <1>2, <2>6, LenProperties
  <2> HIDE DEF n
  <2>8. \A i : i \in 1..(n + 1) <=> i \in 1..n \/ i = n + 1
    BY <2>6
  <2>9. \A q \in ToSet(rows) : wish.mode = "wrong_items" =>
          \E k \in 1..n : q \in sessions[k].failed
    <3>1. wish # NoWish
      BY DEF CreateSession
    <3> QED  BY <2>2, <2>7, <3>1 DEF LearnIInv, LearnInv, Candidates
  <2>10. (\A i \in DOMAIN sessions : ~Done(i) => sessions[i].failed = {})'
    BY <2>4, <2>6, <2>7, <2>8 DEF LearnIInv, LearnInv, Done
  <2>11. GivenInOrder'
    <3> SUFFICES ASSUME NEW i \in 1..(n + 1), ~sessions'[i].random,
                        NEW k \in DOMAIN sessions'[i].asked, NEW l \in DOMAIN sessions'[i].asked, k < l
                 PROVE  sourceOrderLess(sessions'[i].asked[k], sessions'[i].asked[l])
      BY <2>7 DEF GivenInOrder
    <3>1. CASE i \in 1..n
      BY <2>6, <2>7, <3>1 DEF LearnIInv, LearnInv, GivenInOrder
    <3>2. CASE i = n + 1
      <4>1. sessions'[i].asked = rows /\ wish.order # "random"
        BY <2>4, <2>6, <3>2
      <4>2. k \in 1..Len(rows) /\ l \in 1..Len(rows)
        BY <2>2, <4>1, LenProperties
      <4> QED  BY <2>2, <4>1, <4>2 DEF Ordered
    <3> QED  BY <2>8, <3>1, <3>2
  <2>12. WrongItemsWereWrong'
    <3> SUFFICES ASSUME NEW i \in 1..(n + 1), sessions'[i].mode = "wrong_items",
                        NEW q \in ToSet(sessions'[i].asked)
                 PROVE  \E k \in 1..(i - 1) : q \in sessions'[k].failed
      BY <2>7 DEF WrongItemsWereWrong, Asked
    <3>1. CASE i \in 1..n
      <4>1. PICK k \in 1..(i - 1) : q \in sessions[k].failed
        BY <2>6, <2>7, <3>1 DEF LearnIInv, LearnInv, WrongItemsWereWrong, Asked
      <4>2. k \in 1..n
        BY <2>6, <3>1
      <4> QED  BY <2>6, <4>1, <4>2
    <3>2. CASE i = n + 1
      <4>1. q \in ToSet(rows) /\ wish.mode = "wrong_items"
        BY <2>4, <2>6, <3>2
      <4>2. PICK k \in 1..n : q \in sessions[k].failed
        BY <2>9, <4>1
      <4>3. k \in 1..(i - 1)
        BY <2>6, <3>2
      <4> QED  BY <2>6, <4>2, <4>3
    <3> QED  BY <2>8, <3>1, <3>2
  <2> QED  BY <1>1, <2>6, <2>10, <2>11, <2>12 DEF LearnIInv, LearnTypes, LearnInv
<1> QED  BY <1>4, <1>5

(* What a step may change of a session: it is submitted with an outcome, if it was not, *)
(* or items of it are hidden.                                                           *)
LEMMA SessionChanges ==
  ASSUME LearnIInv, wish' = wish, NEW i \in DOMAIN sessions, NEW s \in Session,
         sessions' = [sessions EXCEPT ![i] = s],
         s.asked = sessions[i].asked, s.mode = sessions[i].mode, s.random = sessions[i].random,
         sessions[i].failed \subseteq s.failed, s.at = 0 => s.failed = {}
  PROVE  LearnIInv'
<1>1. sessions \in Seq(Session)
  BY DEF LearnIInv, LearnTypes
<1>2. DOMAIN sessions = 1..Len(sessions)
  BY <1>1, LenProperties
<1>3. sessions' \in Seq(Session) /\ Len(sessions') = Len(sessions)
      /\ \A j \in DOMAIN sessions : sessions'[j] = IF j = i THEN s ELSE sessions[j]
  BY <1>1, <1>2, ExceptSeq
<1>4. DOMAIN sessions' = DOMAIN sessions
  BY <1>2, <1>3, LenProperties
<1>5. \A j \in DOMAIN sessions :
        /\ sessions'[j].asked = sessions[j].asked /\ sessions'[j].mode = sessions[j].mode
        /\ sessions'[j].random = sessions[j].random
        /\ sessions[j].failed \subseteq sessions'[j].failed
  BY <1>3
<1>6. s.at \in Nat
  BY DEF Session
<1>7. (\A j \in DOMAIN sessions : ~Done(j) => sessions[j].failed = {})'
  <2> SUFFICES ASSUME NEW j \in DOMAIN sessions, ~(sessions'[j].at > 0)
               PROVE  sessions'[j].failed = {}
    BY <1>4 DEF Done
  <2>1. CASE j = i
    BY <1>3, <1>6, <2>1
  <2>2. CASE j # i
    BY <1>3, <2>2 DEF LearnIInv, LearnInv, Done
  <2> QED  BY <2>1, <2>2
<1>8. GivenInOrder'
  BY <1>4, <1>5 DEF LearnIInv, LearnInv, GivenInOrder
<1>9. WrongItemsWereWrong'
  <2> SUFFICES ASSUME NEW j \in DOMAIN sessions, sessions'[j].mode = "wrong_items",
                      NEW q \in ToSet(sessions'[j].asked)
               PROVE  \E k \in 1..(j - 1) : q \in sessions'[k].failed
    BY <1>4 DEF WrongItemsWereWrong, Asked
  <2>1. PICK k \in 1..(j - 1) : q \in sessions[k].failed
    BY <1>5 DEF LearnIInv, LearnInv, WrongItemsWereWrong, Asked
  <2>2. k \in DOMAIN sessions
    BY <1>1, <1>2, LenProperties
  <2> QED  BY <1>5, <2>1, <2>2
<1>10. (wish # NoWish /\ wish.mode = "wrong_items" =>
         wish.ids # {} /\ \A q \in wish.ids : \E k \in DOMAIN sessions : q \in sessions[k].failed)'
  BY <1>4, <1>5 DEF LearnIInv, LearnInv
<1>11. LearnTypes'
  BY <1>3 DEF LearnIInv, LearnTypes
<1> QED  BY <1>7, <1>8, <1>9, <1>10, <1>11 DEF LearnIInv, LearnInv

LEMMA SubmitStep ==
  ASSUME LearnIInv, NEW i \in DOMAIN sessions, NEW failed \in SUBSET Questions, Submit(i, failed)
  PROVE  LearnIInv'
<1>1. sessions \in Seq(Session) /\ DOMAIN sessions = 1..Len(sessions) /\ Len(sessions) \in Nat
  BY LenProperties DEF LearnIInv, LearnTypes
<1>2. sessions[i] \in Session
  BY <1>1, ElementOfSeq
<1>3. Submissions \in Nat
  <2>1. {k \in DOMAIN sessions : Done(k)} \in SUBSET (1..Len(sessions))
    BY <1>1
  <2>2. IsFiniteSet(1..Len(sessions))
    BY <1>1, FS_Interval
  <2> QED  BY <2>1, <2>2, FS_Subset, FS_CardinalityType DEF Submissions
<1> DEFINE at == Submissions + 1
           s == [sessions[i] EXCEPT !.at = at, !.failed = failed]
<1>4. sessions' = [sessions EXCEPT ![i] = s] /\ wish' = wish
  BY <1>1, <1>2 DEF Submit, Session
<1>5. /\ s.asked = sessions[i].asked /\ s.mode = sessions[i].mode /\ s.random = sessions[i].random
      /\ s.at = at /\ s.failed = failed
  BY <1>2 DEF Session
<1>6. at \in Nat /\ at # 0
  BY <1>3
<1>7. s \in Session
  <2> HIDE DEF at
  <2> QED  BY <1>2, <1>6 DEF Session
<1>8. sessions[i].failed = {}
  BY DEF Submit, LearnIInv, LearnInv
<1> HIDE DEF s, at
<1> QED  BY <1>4, <1>5, <1>6, <1>7, <1>8, SessionChanges

LEMMA DeleteStep ==
  ASSUME LearnIInv, NEW i \in DOMAIN sessions, NEW q \in Questions, DeleteWrongItem(i, q)
  PROVE  LearnIInv'
<1>1. sessions \in Seq(Session) /\ DOMAIN sessions = 1..Len(sessions)
  BY LenProperties DEF LearnIInv, LearnTypes
<1>2. sessions[i] \in Session
  BY <1>1, ElementOfSeq
<1> DEFINE s == [sessions[i] EXCEPT !.hidden = @ \cup {q}]
<1>3. sessions' = [sessions EXCEPT ![i] = s] /\ wish' = wish
  BY <1>1, <1>2 DEF DeleteWrongItem, Session
<1>4. /\ s.asked = sessions[i].asked /\ s.mode = sessions[i].mode /\ s.random = sessions[i].random
      /\ s.at = sessions[i].at /\ s.failed = sessions[i].failed
  BY <1>2 DEF Session
<1>5. s \in Session
  BY <1>2 DEF Session
<1>6. s.at = 0 => s.failed = {}
  BY <1>4 DEF LearnIInv, LearnInv, Done
<1> HIDE DEF s
<1> QED  BY <1>3, <1>4, <1>5, <1>6, SessionChanges

LEMMA LearnNext ==
  ASSUME LearnIInv, [Next]_vars
  PROVE  LearnIInv'
<1>1. CASE UNCHANGED learnVars
  BY <1>1 DEF learnVars, LearnIInv, LearnTypes, LearnInv, Done, GivenInOrder, WrongItemsWereWrong, Asked
<1>2. CASE Practising
  <2>1. ASSUME NEW f \in Filter, selectionFilter(f.mode, f.order, f.within, f.count) PROVE LearnIInv'
    <3>1. /\ f.mode \in {"scope", "wrong_items"} /\ f.order \in Orders
          /\ f.within \in Scopes /\ f.count \in Counts
      BY DEF Filter
    <3> QED  BY <2>1, <3>1, FilterStep
  <2>2. ASSUME CreateSession PROVE LearnIInv'
    BY <2>2, CreateStep
  <2>3. ASSUME NEW i \in DOMAIN sessions, NEW failed \in SUBSET Questions, Submit(i, failed)
        PROVE  LearnIInv'
    BY <2>3, SubmitStep
  <2>4. ASSUME NEW i \in DOMAIN sessions, NEW q \in Questions, DeleteWrongItem(i, q)
        PROVE  LearnIInv'
    BY <2>4, DeleteStep
  <2> QED  BY <1>2, <2>1, <2>2, <2>3, <2>4 DEF Practising
<1> QED  BY <1>1, <1>2 DEF Next, vars, learnVars

LEMMA LearnInvariant == Spec => []LearnIInv
<1>1. Init => LearnIInv
  <2> SUFFICES ASSUME sessions = <<>>, wish = NoWish PROVE LearnIInv
    BY DEF Init, SelectionInit
  <2>1. sessions \in Seq(Session) /\ DOMAIN sessions = {}
    OBVIOUS
  <2> QED  BY <2>1 DEF LearnIInv, LearnTypes, LearnInv, GivenInOrder, WrongItemsWereWrong
<1>2. LearnIInv /\ [Next]_vars => LearnIInv'
  BY LearnNext
<1> QED  BY <1>1, <1>2, PTL DEF Spec

(* The numbers a learner is shown before a session is created are right: as many        *)
(* questions are given as are promised, whatever was done or is published meanwhile     *)
(* (practice/service.go:51-61, content/store.go:133-174).                               *)
THEOREM CountsAreRightHolds == Spec => []CountsAreRight
<1>1. LearnIInv => CountsAreRight
  BY CountsHold DEF LearnIInv
<1> QED  BY <1>1, LearnInvariant, PTL

(* A session holds what was asked for: in order, repeating recent questions only when   *)
(* no others are left, and only wrong ones if they were asked for (store.go:822-912).   *)
THEOREM GivenAsAskedHolds == Spec => []GivenAsAsked
<1>1. LearnIInv => GivenAsAsked
  BY FillsUpLast DEF LearnIInv, LearnInv, GivenAsAsked
<1> QED  BY <1>1, LearnInvariant, PTL

(* Every variable has its type: no version refers to a text that is not there, and no   *)
(* question is published in a version it does not have (content/service.go:199-302).    *)
THEOREM FlowTypeCorrect == Spec => []TypeOK
<1>1. FlowIInv /\ LearnIInv => TypeOK
  <2> SUFFICES ASSUME FlowIInv, LearnIInv PROVE TypeOK
    OBVIOUS
  <2>1. BankTypes /\ VersionsInv /\ ImportTypes
    BY DEF FlowIInv, BankInv, ImportInv, ItemsSound
  <2>2. questions \in [Questions -> Question] /\ materials \in [Materials -> Nat] /\ crossed \subseteq Questions
    BY <2>1 DEF BankTypes
  <2>3. \A q \in Questions : versions[q] \in Seq(Version)
    BY <2>1 DEF BankTypes
  <2>4. \A q \in Questions : DOMAIN versions[q] = 1..Len(versions[q])
    BY <2>3, LenProperties
  <2>5. \A q \in Questions : \A i \in DOMAIN versions[q] :
          /\ versions[q][i] \in Version
          /\ versions[q][i].material # None =>
               versions[q][i].edition \in 1..materials[versions[q][i].material]
    <3> SUFFICES ASSUME NEW q \in Questions, NEW i \in 1..Len(versions[q])
                 PROVE  /\ versions[q][i] \in Version
                        /\ versions[q][i].material # None =>
                             versions[q][i].edition \in 1..materials[versions[q][i].material]
      BY <2>4
    <3>1. versions[q][i] \in Version
      BY <2>3, ElementOfSeq
    <3> QED  BY <2>1, <3>1 DEF VersionsInv, EditionExists
  <2>6. \A q \in Questions : questions[q].published \in 0..Len(versions[q])
    BY <2>1 DEF VersionsInv
  <2>7. \A i \in DOMAIN sessions : sessions[i] \in Session
    <3>1. sessions \in Seq(Session)
      BY DEF LearnIInv, LearnTypes
    <3>2. DOMAIN sessions = 1..Len(sessions)
      BY <3>1, LenProperties
    <3> QED  BY <3>1, <3>2, ElementOfSeq
  <2>8. wish = NoWish \/ wish \in Filter
    BY DEF LearnIInv, LearnTypes
  <2> QED  BY <2>1, <2>2, <2>5, <2>6, <2>7, <2>8 DEF TypeOK, ImportTypes
<1> QED  BY <1>1, FlowInvariant, LearnInvariant, PTL
=============================================================================
