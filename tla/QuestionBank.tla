---------------------------- MODULE QuestionBank ----------------------------
(***************************************************************************)
(* The questions administrators write and publish: backend/internal/       *)
(* content.  A question has versions that are never changed; one of them   *)
(* is current, and one may be published.  Learners are given the published *)
(* version of questions that are not retired.                              *)
(*                                                                         *)
(* An administrator does one thing at a time.  Every operation on a        *)
(* question reads it in its transaction without a lock, decides, and       *)
(* writes without looking again: the read and the commit are two actions,  *)
(* and other administrators come between them.                             *)
(*                                                                         *)
(* ImportReview and QuestionSelection extend this module; ContentFlow puts *)
(* the three together.                                                     *)
(***************************************************************************)
EXTENDS Naturals, Sequences, FiniteSets

CONSTANTS
  Questions,   \* ids, given out in order
  Materials,   \* ids, given out in order
  Admins,      \* administrators at work at once
  MaxVersions  \* bound: versions of a question

None == 0

ASSUME BankIdsAssumption ==
  /\ Questions \subseteq Nat \ {None} /\ Materials \subseteq Nat \ {None}
  /\ IsFiniteSet(Questions) /\ IsFiniteSet(Materials) /\ MaxVersions \in Nat \ {0}

VARIABLES
  questions, \* questions
  versions,  \* question_versions with their answer_keys, in the order of version_no
  materials, \* the number of material_versions of each material
  desk,      \* what each administrator's request has read so far
  crossed    \* history: questions whose status changed while another request had read it

bankVars == <<questions, versions, materials, desk, crossed>>

Status == {"absent", "draft", "in_review", "published", "retired"}

\* Where an answer key comes from: an administrator, or the file of an import.
Answers == {"none", "admin", "source"}

\* kind: whether the version hangs below a source of kind ai_generated.
Version == [answer : Answers, kind : {"public", "ai"},
            material : Materials \cup {None}, edition : Nat]

Question == [status : Status, current : Nat, published : Nat, retired : BOOLEAN,
             hasAnswer : BOOLEAN]
NoQuestion == [status |-> "absent", current |-> 0, published |-> 0, retired |-> FALSE,
               hasAnswer |-> FALSE]

\* What a form says about the material: leave it, a text of its own, a new text or no
\* new text for an existing material.
MaterialChoice == [way : {"keep", "new", "bump", "latest"}, of : Materials \cup {None}]

Free == [op |-> "free"]

BankInit ==
  /\ questions = [q \in Questions |-> NoQuestion]
  /\ versions = [q \in Questions |-> <<>>]
  /\ materials = [m \in Materials |-> 0]
  /\ desk = [a \in Admins |-> Free]
  /\ crossed = {}

-----------------------------------------------------------------------------

Exists(q) == questions[q].status # "absent"
NextQuestion(q) == ~Exists(q) /\ \A r \in Questions : r < q => Exists(r)
NextMaterial(m) == m # None /\ materials[m] = 0 /\ \A n \in Materials : n < m => materials[n] > 0

\* WHERE q.retired_at IS NULL with a join on published_version_id.
Selectable(q) == questions[q].published # 0 /\ ~questions[q].retired

CurrentVersion(q) == versions[q][questions[q].current]

\* Mutant: a new text is referred to and never written.
MaterialForUnwritten(choice, was, material, edition) ==
  \/ choice.way = "keep" /\ material = was.material /\ edition = was.edition
       /\ UNCHANGED materials
  \/ choice.way = "new" /\ NextMaterial(material) /\ edition = 1
       /\ materials' = [materials EXCEPT ![material] = 1]
  \/ choice.way \in {"bump", "latest"} /\ material = choice.of /\ materials[material] > 0
       /\ edition = materials[material] + (IF choice.way = "bump" THEN 1 ELSE 0)
       /\ UNCHANGED materials

\* CreateMaterial, BumpMaterialVersion and materialLatestVersion: the material and the
\* edition a version refers to, with the editions there are afterwards.
MaterialFor(choice, was, material, edition) ==
  \/ choice.way = "keep" /\ material = was.material /\ edition = was.edition
       /\ UNCHANGED materials
  \/ choice.way = "new" /\ NextMaterial(material) /\ edition = 1
       /\ materials' = [materials EXCEPT ![material] = 1]
  \/ choice.way = "bump" /\ material = choice.of /\ materials[material] > 0
       /\ edition = materials[material] + 1
       /\ materials' = [materials EXCEPT ![material] = edition]
  \/ choice.way = "latest" /\ material = choice.of /\ materials[material] > 0
       /\ edition = materials[material] /\ UNCHANGED materials

Editions == 0..(Cardinality(Questions) * MaxVersions)

\* A request other than a's has read q and is going to change its status.
Crossing(a, q) ==
  \E b \in Admins \ {a} : desk[b].op \in {"publish", "retire", "review"} /\ desk[b].q = q
Wrote(a, q) == crossed' = IF Crossing(a, q) THEN crossed \cup {q} ELSE crossed

Leaves(a) == desk' = [desk EXCEPT ![a] = Free]

-----------------------------------------------------------------------------
(* CreateQuestion                                                          *)

CreateQuestion(a, answer, kind, choice) ==
  /\ desk[a] = Free
  /\ \E q \in Questions, material \in Materials \cup {None}, edition \in Editions :
       /\ NextQuestion(q)
       /\ MaterialFor(choice, [material |-> None, edition |-> 0], material, edition)
       /\ versions' = [versions EXCEPT ![q] =
            <<[answer |-> answer, kind |-> kind, material |-> material, edition |-> edition]>>]
       /\ questions' = [questions EXCEPT ![q] =
            [NoQuestion EXCEPT !.status = "draft", !.current = 1, !.hasAnswer = (answer # "none")]]
  /\ UNCHANGED <<desk, crossed>>

-----------------------------------------------------------------------------
(* Reading: QuestionAdminByID and the refusals that follow it              *)

\* read is the row of the question; no is the number of the version to be inserted.
Reads(a, op, q) ==
  /\ desk[a] = Free /\ Exists(q)
  /\ desk' = [desk EXCEPT ![a] = [op |-> op, q |-> q, read |-> questions[q], no |-> 0]]
  /\ UNCHANGED <<questions, versions, materials, crossed>>

BeginUpdate(a, q) == questions[q].status # "retired" /\ Reads(a, "update", q)

BeginPublish(a, q) ==
  /\ questions[q].status # "retired"
  /\ questions[q].published # questions[q].current
  /\ Reads(a, "publish", q)

BeginRetire(a, q) == ~questions[q].retired /\ Reads(a, "retire", q)

\* Mutant: any question that is not retired can be sent to review.
BeginReviewAny(a, q) == ~questions[q].retired /\ Reads(a, "review", q)

BeginReview(a, q) == questions[q].status = "draft" /\ Reads(a, "review", q)

-----------------------------------------------------------------------------
(* Writing                                                                 *)

\* NextVersionNo: the highest number there is, and one more.
NextVersionNo(a) ==
  /\ desk[a].op = "update" /\ desk[a].no = 0
  /\ Len(versions[desk[a].q]) < MaxVersions
  /\ desk' = [desk EXCEPT ![a].no = Len(versions[desk[a].q]) + 1]
  /\ UNCHANGED <<questions, versions, materials, crossed>>

\* Mutant: nothing keeps two versions from having one number.
AnyNumber(q, no) == TRUE

\* UNIQUE (question_id, version_no).
NumberIsFree(q, no) == no > Len(versions[q])

\* Mutant: the answer of the first version decides for ever.
FirstAnswer(q, no, answer) ==
  questions' = [questions EXCEPT ![q].current = no]

SetCurrentVersion(q, no, answer) ==
  questions' = [questions EXCEPT ![q].current = no, ![q].hasAnswer = (answer # "none")]

\* UpdateQuestion: the new version becomes current, whatever is published stays so.
UpdateQuestion(a, answer, kind, choice) ==
  /\ desk[a].op = "update" /\ desk[a].no > 0
  /\ NumberIsFree(desk[a].q, desk[a].no)
  /\ LET q == desk[a].q
         was == versions[q][desk[a].read.current]
     IN /\ \E material \in Materials \cup {None}, edition \in Editions :
             /\ MaterialFor(choice, was, material, edition)
             /\ versions' = [versions EXCEPT ![q] = Append(@,
                  [answer |-> answer, kind |-> kind, material |-> material, edition |-> edition])]
        /\ SetCurrentVersion(q, desk[a].no, answer)
  /\ Leaves(a)
  /\ UNCHANGED crossed

\* published_version_id, status and retired_at are written together.
Published(question, no) ==
  [question EXCEPT !.published = no, !.status = "published", !.retired = FALSE]

\* Publish makes public the version that was current when it was read.
Publish(a) ==
  /\ desk[a].op = "publish"
  /\ LET q == desk[a].q
     IN /\ questions' = [questions EXCEPT ![q] = Published(questions[q], desk[a].read.current)]
        /\ Wrote(a, q)
  /\ Leaves(a)
  /\ UNCHANGED <<versions, materials>>

Retire(a) ==
  /\ desk[a].op = "retire"
  /\ LET q == desk[a].q
     IN /\ questions' = [questions EXCEPT ![q].status = "retired", ![q].retired = TRUE]
        /\ Wrote(a, q)
  /\ Leaves(a)
  /\ UNCHANGED <<versions, materials>>

SubmitReview(a) ==
  /\ desk[a].op = "review"
  /\ LET q == desk[a].q
     IN /\ questions' = [questions EXCEPT ![q].status = "in_review"]
        /\ Wrote(a, q)
  /\ Leaves(a)
  /\ UNCHANGED <<versions, materials>>

\* A statement fails, such as the insert of a version whose number another request
\* has taken: the transaction is rolled back.
Fails(a) ==
  /\ desk[a].op \in {"update", "publish", "retire", "review"}
  /\ Leaves(a)
  /\ UNCHANGED <<questions, versions, materials, crossed>>

\* CreateAndPublishTx, inside the transaction of an import.
CreateAndPublishTx(q, answer, choice) ==
  /\ NextQuestion(q)
  /\ \E material \in Materials \cup {None}, edition \in Editions :
       /\ MaterialFor(choice, [material |-> None, edition |-> 0], material, edition)
       /\ versions' = [versions EXCEPT ![q] =
            <<[answer |-> answer, kind |-> "public", material |-> material, edition |-> edition]>>]
  /\ questions' = [questions EXCEPT ![q] =
       Published([NoQuestion EXCEPT !.current = 1, !.hasAnswer = (answer # "none")], 1)]

-----------------------------------------------------------------------------
(* Properties                                                              *)

\* Every write of a version makes it the current one, and two updates of one question
\* at once never leave a version that is newer than the current one
\* (service.go:199-207 and the unique index on the numbers).
CurrentIsNewest == \A q \in Questions : questions[q].current = Len(versions[q])

\* has_answer, by which lists and reports go, is about the current version.
HasAnswerIsTrue ==
  \A q \in Questions :
    Exists(q) => (questions[q].hasAnswer <=> CurrentVersion(q).answer # "none")

\* As long as no request wrote a question another request had read, its status says
\* whether learners are given it and whether it was retired
\* (service.go:256-279 and 294-302 do not lock what they read).
StatusTellsTheTruth ==
  \A q \in Questions \ crossed :
    /\ Selectable(q) <=> questions[q].status = "published"
    /\ questions[q].retired <=> questions[q].status = "retired"

\* What lists, reports and the choice of questions read of a question agrees with its
\* versions.
CatalogueIsSound == CurrentIsNewest /\ HasAnswerIsTrue /\ StatusTellsTheTruth

=============================================================================
