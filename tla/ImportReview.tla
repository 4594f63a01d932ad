---------------------------- MODULE ImportReview ----------------------------
(***************************************************************************)
(* Questions that come from a file: backend/internal/imports.  A file of   *)
(* OCR output becomes a job with one item per question; administrators     *)
(* correct and approve the items and publish them, one by one or several   *)
(* in one request, into the QuestionBank.                                  *)
(*                                                                         *)
(* The publication of an item is a transaction that locks the item and its *)
(* job when it reads them and keeps them locked until it commits; the      *)
(* other operations on an item are single statements that wait for the     *)
(* lock, and an approval reads the item before it writes it.               *)
(***************************************************************************)
EXTENDS QuestionBank

CONSTANTS
  Jobs,      \* import_jobs ids, in order
  Positions, \* positions of a file's items
  FileItem,  \* what the file says at each position
  Edits,     \* bound: what administrators make of a draft
  MaxDrafts  \* bound: how often the draft of an item is replaced

VARIABLES
  jobs,  \* import_jobs.status
  items  \* import_items

importVars == <<jobs, items>>

Keys == {"", "shared"}
Types == {"choice", "text"}

\* The sourceAnswer of an item: missing, a complete answer object, a scalar that names
\* an option, another scalar, or anything else.
Forms == {"missing", "object", "option", "scalar", "other"}

\* A file without items is refused (json_import.go:81).
ASSUME ImportAssumption ==
  /\ Jobs \subseteq Nat \ {None} /\ Positions \subseteq Nat /\ MaxDrafts \in Nat
  /\ Positions # {}
  /\ FileItem \in [Positions -> [key : Keys, text : BOOLEAN, type : Types, form : Forms]]
  /\ Edits \subseteq [key : Keys, text : BOOLEAN, answer : Answers]

\* key: materialKey; text: materialContent is not empty, which a key does not say;
\* answer: the answer that is published.  rev: history, the number of times the draft was
\* replaced.
Draft == [key : Keys, text : BOOLEAN, answer : Answers, rev : 0..MaxDrafts]

\* approved: history, the draft that was there when the last approval was written; given:
\* history, the draft the question was made of.
Item == [status : {"absent", "pending", "approved", "published"}, draft : Draft,
         question : Questions \cup {None}, approved : 0..MaxDrafts, given : 0..MaxDrafts]
NoItem == [status |-> "absent",
           draft |-> [key |-> "", text |-> FALSE, answer |-> "none", rev |-> 0],
           question |-> None, approved |-> 0, given |-> 0]

ImportInit ==
  /\ jobs = [j \in Jobs |-> "absent"]
  /\ items = [j \in Jobs |-> [p \in Positions |-> NoItem]]

-----------------------------------------------------------------------------
(* json_import.go                                                          *)

\* A scalar that cannot be matched rejects the file.
Convertible(raw) ==
  raw.form \in {"missing", "object", "option"} \/ (raw.form = "scalar" /\ raw.type = "text")

\* Mutant: a recognised scalar is taken for the answer.
toDraftTrusting(raw) ==
  [key |-> raw.key, text |-> raw.text, rev |-> 0,
   answer |-> IF raw.form = "missing" THEN "none" ELSE "source"]

\* Only a complete answer object becomes the answer of the draft.
toDraft(raw) ==
  [key |-> raw.key, text |-> raw.text, rev |-> 0,
   answer |-> IF raw.form = "object" THEN "source" ELSE "none"]

InsertItemsAndReady(j) ==
  /\ jobs' = [jobs EXCEPT ![j] = "review_ready"]
  /\ items' = [items EXCEPT ![j] =
       [p \in Positions |-> [NoItem EXCEPT !.status = "pending", !.draft = toDraft(FileItem[p])]]]

importJSON(j) ==
  /\ jobs[j] = "absent" /\ \A i \in Jobs : i < j => jobs[i] # "absent"
  /\ \A p \in Positions : Convertible(FileItem[p])
  /\ InsertItemsAndReady(j)

\* Upload: nothing reserves the digest between the look for an older job and the insert.
BeginUpload(a, allowDuplicate) ==
  /\ desk[a] = Free
  /\ allowDuplicate \/ \A j \in Jobs : jobs[j] = "absent"
  /\ desk' = [desk EXCEPT ![a] = [op |-> "upload"]]
  /\ UNCHANGED <<questions, versions, materials, crossed, importVars>>

Upload(a) ==
  /\ desk[a].op = "upload"
  /\ \E j \in Jobs : importJSON(j)
  /\ Leaves(a)
  /\ UNCHANGED <<questions, versions, materials, crossed>>

-----------------------------------------------------------------------------
(* Correcting and approving                                                *)

\* Mutants: no lock at all; a lock on the item and none on its job.
NothingLocked(j, p) == FALSE
ItemLocked(j, p) == \E a \in Admins : desk[a].op = "publishItem" /\ desk[a].j = j /\ desk[a].p = p

\* FOR UPDATE of the join of the item and its job: one publication per job at a time.
Locked(j, p) == \E a \in Admins : desk[a].op = "publishItem" /\ desk[a].j = j

Unpublished(j, p) == items[j][p].status \in {"pending", "approved"}

\* Mutant: what was approved stays so.
SavedApproved(item, draft) == [item EXCEPT !.draft = draft]

\* A draft that is saved has to be approved again.
Saved(item, draft) == [item EXCEPT !.draft = draft, !.status = "pending"]

\* UpdateItem replaces the whole draft, with one that validateDraft accepts: it asks
\* nothing of the key and the text.  The answer of the file is kept or taken away, and an
\* administrator may give one, by confirming the suggestion or by entering it.
UpdateItem(a, j, p, edit) ==
  /\ desk[a] = Free /\ Unpublished(j, p) /\ ~ItemLocked(j, p)
  /\ items[j][p].draft.rev < MaxDrafts
  /\ edit.answer = "source" => items[j][p].draft.answer = "source"
  /\ LET draft == [key |-> edit.key, text |-> edit.text, answer |-> edit.answer,
                   rev |-> items[j][p].draft.rev + 1]
     IN items' = [items EXCEPT ![j][p] = Saved(items[j][p], draft)]
  /\ UNCHANGED <<bankVars, jobs>>

\* The draft that is there is validated; the statement that approves comes later.
BeginApprove(a, j, p) ==
  /\ desk[a] = Free /\ Unpublished(j, p)
  /\ desk' = [desk EXCEPT ![a] = [op |-> "approve", j |-> j, p |-> p]]
  /\ UNCHANGED <<questions, versions, materials, crossed, importVars>>

\* The statement looks only whether the item is published by now: it approves the draft
\* it finds, which need not be the one that was validated.
ApproveItem(a) ==
  /\ desk[a].op = "approve" /\ ~ItemLocked(desk[a].j, desk[a].p)
  /\ LET j == desk[a].j
         p == desk[a].p
         next == [items[j][p] EXCEPT !.status = "approved", !.approved = items[j][p].draft.rev]
     IN items' = IF Unpublished(j, p) THEN [items EXCEPT ![j][p] = next] ELSE items
  /\ Leaves(a)
  /\ UNCHANGED <<questions, versions, materials, crossed, jobs>>

-----------------------------------------------------------------------------
(* Publishing                                                              *)

\* PublishApproved publishes the items it is given one after the other, each in a
\* transaction of its own; PublishItem is the case of one item.
PublishApproved(a, j, chosen) ==
  /\ desk[a] = Free /\ jobs[j] # "absent" /\ chosen # {}
  /\ desk' = [desk EXCEPT ![a] = [op |-> "batch", j |-> j, todo |-> chosen]]
  /\ UNCHANGED <<questions, versions, materials, crossed, importVars>>

NextItem(a, p) == p \in desk[a].todo /\ \A o \in desk[a].todo : p <= o

BatchAfter(j, todo) == IF todo = {} THEN Free ELSE [op |-> "batch", j |-> j, todo |-> todo]

\* The questions published from this job for this key.
PublishedFor(j, key) ==
  {items[j][p].question : p \in {o \in Positions : items[j][o].question # None
                                                      /\ items[j][o].draft.key = key}}

\* SharedMaterialID: their materials, as their current versions name them.
SharedMaterials(j, key) ==
  IF key = "" THEN {} ELSE {CurrentVersion(q).material : q \in PublishedFor(j, key)} \ {None}

\* ItemForPublish and the reads that follow it in the transaction: an item that is
\* published or not approved is left alone, with an error or without, and the batch
\* goes on.
ItemForPublish(a) ==
  /\ desk[a].op = "batch"
  /\ \E p \in desk[a].todo :
       LET j == desk[a].j
       IN /\ NextItem(a, p) /\ ~Locked(j, p)
          /\ desk' = [desk EXCEPT ![a] =
               IF items[j][p].status = "approved"
               THEN [op |-> "publishItem", j |-> j, p |-> p, todo |-> desk[a].todo \ {p},
                     draft |-> items[j][p].draft,
                     shared |-> SharedMaterials(j, items[j][p].draft.key)]
               ELSE BatchAfter(j, desk[a].todo \ {p})]
  /\ UNCHANGED <<questions, versions, materials, crossed, importVars>>

\* questionInput: a material that is there already comes before the item's own text.
ChoiceFor(draft, shared, choice) ==
  IF shared # {} THEN \E m \in shared : choice = [way |-> "latest", of |-> m]
  ELSE choice = [way |-> IF draft.text THEN "new" ELSE "keep", of |-> None]

\* Mutant: the job is looked at before the item is marked.
JobAfterEarly(j, p) ==
  IF \A o \in Positions : items[j][o].status = "published" THEN "published" ELSE jobs[j]

\* MarkPublished: the job is done with its last item.
JobAfter(j, p) ==
  IF \A o \in Positions \ {p} : items[j][o].status = "published" THEN "published" ELSE jobs[j]

PublishItem(a) ==
  /\ desk[a].op = "publishItem"
  /\ LET j == desk[a].j
         p == desk[a].p
     IN \E q \in Questions, choice \in MaterialChoice :
          /\ ChoiceFor(desk[a].draft, desk[a].shared, choice)
          /\ CreateAndPublishTx(q, desk[a].draft.answer, choice)
          /\ items' = IF items[j][p].question = None
                      THEN [items EXCEPT ![j][p] = [@ EXCEPT !.status = "published", !.question = q,
                                                             !.given = desk[a].draft.rev]]
                      ELSE items
          /\ jobs' = [jobs EXCEPT ![j] = JobAfter(j, p)]
          /\ desk' = [desk EXCEPT ![a] = BatchAfter(j, desk[a].todo)]
  /\ UNCHANGED crossed

\* A statement of the transaction fails; the batch reports it and goes on.
PublishFails(a) ==
  /\ desk[a].op = "publishItem"
  /\ desk' = [desk EXCEPT ![a] = BatchAfter(desk[a].j, desk[a].todo)]
  /\ UNCHANGED <<questions, versions, materials, crossed, importVars>>

UploadFails(a) ==
  /\ desk[a].op \in {"upload", "approve"}
  /\ Leaves(a)
  /\ UNCHANGED <<questions, versions, materials, crossed, importVars>>

-----------------------------------------------------------------------------
(* Properties                                                              *)

\* The question an item points to.
MadeOf == {items[j][p].question : j \in Jobs, p \in Positions} \ {None}

\* Items published by several administrators at once, singly and in batches, make one
\* question each: no question appears in public that is not the one its item points to
\* (service.go:180-186 under the lock of store.go:248).
OneQuestionPerItem ==
  [][\A q \in Questions :
       ~Exists(q) /\ questions'[q].status = "published" => q \in MadeOf']_<<questions, items>>

\* A job counts as published exactly when its last item is.
JobIsPublishedWithItsItems ==
  \A j \in Jobs :
    jobs[j] = "published" <=> \A p \in Positions : items[j][p].status = "published"

\* The material a question started out with, and whether it has been given another since.
FirstMaterial(q) == versions[q][1].material
Moved(q) == \E v \in 1..Len(versions[q]) : versions[q][v].material # FirstMaterial(q)

\* The questions published from one job for one key that start out with a material start
\* out with the same one, unless one of them has been given another since (store.go:260
\* looks at current versions).  An item without a text of its own that is published
\* before the others of its key has none.
OneMaterialPerKey ==
  \A j \in Jobs, key \in Keys \ {""} :
    LET withText == {q \in PublishedFor(j, key) : FirstMaterial(q) # None}
    IN (\E q \in PublishedFor(j, key) : Moved(q))
         \/ \A q, r \in withText : FirstMaterial(q) = FirstMaterial(r)

\* No item is published without the text its draft has (questionInput drops it when it
\* takes the material of another item).
TextIsPublished ==
  \A j \in Jobs, p \in Positions :
    items[j][p].question # None /\ items[j][p].draft.text => FirstMaterial(items[j][p].question) # None

\* The answer key an imported question starts out with comes from an answer object of
\* the file or from an administrator, never from a guess (json_import.go:230-231).
AnswersAreConfirmed ==
  \A j \in Jobs, p \in Positions :
    LET q == items[j][p].question
    IN q # None /\ versions[q][1].answer = "source" => FileItem[p].form = "object"

\* What stands as approved is the draft the approval was written on, and a question is
\* made of the draft that stands as approved: no draft saved in between gets published
\* (UpdateDraft takes the approval back, store.go:229, and waits for a publication).
PublishedAsApproved ==
  \A j \in Jobs, p \in Positions :
    LET item == items[j][p]
    IN /\ item.status \in {"approved", "published"} => item.approved = item.draft.rev
       /\ item.status = "published" => item.given = item.approved

\* A file reaches the learners as it stands approved, whole, with its texts and with one
\* material for each key.
ImportIsSound ==
  JobIsPublishedWithItsItems /\ OneMaterialPerKey /\ TextIsPublished /\ AnswersAreConfirmed
    /\ PublishedAsApproved

=============================================================================
