----------------------------- MODULE ContentFlow -----------------------------
(***************************************************************************)
(* Questions from the file to the learner: administrators import, write,   *)
(* publish and retire them while a learner practises what is published.    *)
(***************************************************************************)
EXTENDS ImportReview, QuestionSelection

CONSTANTS
  Rosters, \* bound: the work that goes on at once, of each administrator and the learner,
           \* and what is written meanwhile
  Writes,  \* the answers, kinds and materials administrators write
  Uploads  \* whether an upload may be of a file that is there already

VARIABLE roster \* the work of this run, which never changes

vars == <<bankVars, importVars, learnVars, roster>>

ASSUME FlowAssumption ==
  /\ Rosters \subseteq [work : [Admins -> SUBSET {"create", "update", "decide", "import"}],
                       learner : BOOLEAN, writes : SUBSET Writes]
  /\ Writes \subseteq [answer : {"none", "admin"}, kind : {"public", "ai"}, choice : MaterialChoice]
  /\ Uploads \subseteq BOOLEAN

Init == BankInit /\ ImportInit /\ SelectionInit /\ roster \in Rosters

Creating(a) == \E w \in roster.writes : CreateQuestion(a, w.answer, w.kind, w.choice)

Updating(a) ==
  \/ \E q \in Questions : BeginUpdate(a, q)
  \/ NextVersionNo(a)
  \/ \E w \in roster.writes : UpdateQuestion(a, w.answer, w.kind, w.choice)
  \/ Fails(a)

Deciding(a) ==
  \/ \E q \in Questions : BeginPublish(a, q) \/ BeginRetire(a, q) \/ BeginReview(a, q)
  \/ Publish(a)
  \/ Retire(a)
  \/ SubmitReview(a)
  \/ Fails(a)

Importing(a) ==
  \/ \E again \in Uploads : BeginUpload(a, again)
  \/ Upload(a)
  \/ \E j \in Jobs, p \in Positions, edit \in Edits : UpdateItem(a, j, p, edit)
  \/ \E j \in Jobs, p \in Positions : BeginApprove(a, j, p)
  \/ ApproveItem(a)
  \/ \E j \in Jobs, chosen \in SUBSET Positions : PublishApproved(a, j, chosen)
  \/ ItemForPublish(a)
  \/ PublishItem(a)
  \/ PublishFails(a)
  \/ UploadFails(a)

Practising ==
  \/ \E f \in Filter : selectionFilter(f.mode, f.order, f.within, f.count)
  \/ CreateSession
  \/ \E i \in DOMAIN sessions, failed \in SUBSET Questions : Submit(i, failed)
  \/ \E i \in DOMAIN sessions, q \in Questions : DeleteWrongItem(i, q)

Next ==
  \/ \E a \in Admins :
       /\ \/ "create" \in roster.work[a] /\ Creating(a)
          \/ "update" \in roster.work[a] /\ Updating(a)
          \/ "decide" \in roster.work[a] /\ Deciding(a)
       /\ UNCHANGED <<importVars, learnVars, roster>>
  \/ \E a \in Admins :
       "import" \in roster.work[a] /\ Importing(a) /\ UNCHANGED <<learnVars, roster>>
  \/ roster.learner /\ Practising /\ UNCHANGED <<bankVars, importVars, roster>>

Spec == Init /\ [][Next]_vars

TypeOK ==
  /\ questions \in [Questions -> Question]
  /\ \A q \in Questions : \A i \in DOMAIN versions[q] :
       /\ versions[q][i] \in Version
       /\ versions[q][i].material # None =>
            versions[q][i].edition \in 1..materials[versions[q][i].material]
  /\ \A q \in Questions : questions[q].published \in 0..Len(versions[q])
  /\ materials \in [Materials -> Nat]
  /\ jobs \in [Jobs -> {"absent", "review_ready", "published"}]
  /\ items \in [Jobs -> [Positions -> Item]]
  /\ \A i \in DOMAIN sessions : sessions[i] \in Session
  /\ wish = NoWish \/ wish \in Filter
  /\ crossed \subseteq Questions

=============================================================================
