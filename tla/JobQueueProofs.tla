--------------------------- MODULE JobQueueProofs ---------------------------
(***************************************************************************)
(* What holds of the job table for every number of jobs, slots, worker ids *)
(* and attempts.                                                           *)
(***************************************************************************)
EXTENDS JobQueue, TLAPS

\* A slot that works holds a claim that some row gave out: the attempt it
\* remembers is one the row has reached.
ClaimInv ==
  \A s \in Slots : slots[s].phase # "idle" =>
    /\ slots[s].job \in JobIds
    /\ jobs[slots[s].job].status # "absent"
    /\ slots[s].attempt <= jobs[slots[s].job].attempts

\* A slot that polls remembers no job.
IdleInv == \A s \in Slots : slots[s].phase = "idle" => slots[s].job = NoJob

\* An attempt is given out once.
ClaimsDiffer ==
  \A s, t \in Slots :
    /\ slots[s].phase # "idle" /\ slots[t].phase # "idle"
    /\ slots[s].job = slots[t].job /\ slots[s].attempt = slots[t].attempt
    => s = t

\* Rows count attempts from zero, and no write belongs to an attempt not yet made.
AttemptInv ==
  \A j \in JobIds :
    /\ jobs[j].status = "absent" => jobs[j].attempts = 0
    /\ wrote[j] <= jobs[j].attempts

\* The inductive invariant.
IInv == TypeOK /\ RetryBudget /\ IdleInv /\ ClaimInv /\ ClaimsDiffer /\ AttemptInv

-----------------------------------------------------------------------------
(* Rows                                                                    *)

\* A fresh row, as INSERT creates it.
LEMMA NewRowFacts ==
  ASSUME NEW kind \in Kinds, NEW subject \in Subjects
  PROVE  /\ NewRow(kind, subject) \in Row
         /\ NewRow(kind, subject).status = "queued"
         /\ NewRow(kind, subject).attempts = 0
  BY DEF NewRow, NoRow, Row, Status, Lease, Due

\* The row Claim leaves.
LEMMA ClaimedFacts ==
  ASSUME NEW row \in Row, NEW worker \in Workers
  PROVE  /\ Claimed(row, worker) \in Row
         /\ Claimed(row, worker).status = "running"
         /\ Claimed(row, worker).attempts = row.attempts + 1
<1> DEFINE next == row.attempts + 1
<1>1. next \in Nat
  BY DEF Row
<1>2. Claimed(row, worker) =
        [row EXCEPT !.status = "running", !.lockedBy = worker, !.lease = "live", !.attempts = next]
  BY DEF Claimed
<1> HIDE DEF next
<1>3. QED
  BY <1>1, <1>2 DEF Row, Status, Lease, next

\* The row Complete, Fail and ReleaseExpired leave.
LEMMA UnlockedFacts ==
  ASSUME NEW row \in Row, NEW status \in Status
  PROVE  /\ Unlocked(row, status) \in Row
         /\ Unlocked(row, status).status = status
         /\ Unlocked(row, status).attempts = row.attempts
  BY DEF Unlocked, Row, Status, Lease

\* What Fail makes of a row.
LEMMA AfterFailureFacts ==
  ASSUME NEW row \in Row
  PROVE  /\ AfterFailure(row) \in Row
         /\ AfterFailure(row).attempts = row.attempts
         /\ AfterFailure(row).status = IF row.attempts >= MaxAttempts THEN "failed" ELSE "queued"
<1>1. "failed" \in Status /\ "queued" \in Status
  BY DEF Status
<1>2. ASSUME NEW r \in Row
      PROVE  /\ [r EXCEPT !.due = "later"] \in Row
             /\ [r EXCEPT !.due = "later"].attempts = r.attempts
             /\ [r EXCEPT !.due = "later"].status = r.status
  BY DEF Row, Due
<1>3. QED
  BY <1>1, <1>2, UnlockedFacts DEF AfterFailure

\* What ReleaseExpired makes of a row.
LEMMA ReleasedFacts ==
  ASSUME NEW row \in Row
  PROVE  /\ Released(row) \in Row
         /\ Released(row).attempts = row.attempts
         /\ Released(row).status = IF row.attempts >= MaxAttempts THEN "failed" ELSE "queued"
  BY UnlockedFacts DEF Released, Status

\* What the passing of time makes of a row.
LEMMA TimedFacts ==
  ASSUME NEW row \in Row
  PROVE  /\ [row EXCEPT !.lease = "expired"] \in Row
         /\ [row EXCEPT !.lease = "expired"].attempts = row.attempts
         /\ [row EXCEPT !.lease = "expired"].status = row.status
         /\ [row EXCEPT !.due = "now"] \in Row
         /\ [row EXCEPT !.due = "now"].attempts = row.attempts
         /\ [row EXCEPT !.due = "now"].status = row.status
  BY DEF Row, Lease, Due

-----------------------------------------------------------------------------
(* What each step does                                                     *)

\* What a lease check establishes: the row is a running row of the table, under
\* exactly the attempt the slot remembers (GuardLease, Complete, Fail).
LEMMA LeaseFacts ==
  ASSUME TypeOK, IdleInv, NEW s \in Slots, HoldsLease(s)
  PROVE  /\ slots[s].phase # "idle"
         /\ slots[s].job \in JobIds
         /\ jobs[slots[s].job].status = "running"
         /\ jobs[slots[s].job].attempts = slots[s].attempt
  BY DEF TypeOK, IdleInv, HoldsLease, Slot

\* A slot that goes idle.
LEMMA IdleFacts == Idle \in Slot /\ Idle.phase = "idle" /\ Idle.job = NoJob
  BY DEF Idle, Slot, Phase

\* A slot whose handler has returned.
LEMMA ReturnedFacts ==
  ASSUME NEW slot \in Slot, NEW outcome \in {"success", "error"}
  PROVE  /\ [slot EXCEPT !.phase = outcome] \in Slot
         /\ [slot EXCEPT !.phase = outcome].phase = outcome
         /\ [slot EXCEPT !.phase = outcome].job = slot.job
         /\ [slot EXCEPT !.phase = outcome].attempt = slot.attempt
  BY DEF Slot, Phase

\* The rows and slots after an enqueue.
LEMMA EnqueueEffect ==
  ASSUME TypeOK, NEW j \in JobIds, NEW kind \in Kinds, NEW subject \in Subjects,
         Enqueue(j, kind, subject)
  PROVE  /\ jobs[j].status = "absent"
         /\ jobs' = [jobs EXCEPT ![j] = NewRow(kind, subject)]
         /\ UNCHANGED <<slots, wrote>>
  BY DEF Enqueue, EnqueueUserLearningRebuildTx, EnqueueTx, Fresh

\* The rows and slots after a claim.
LEMMA ClaimEffect ==
  ASSUME TypeOK, NEW s \in Slots, NEW j \in JobIds, Claim(s, j)
  PROVE  /\ slots[s].phase = "idle"
         /\ jobs[j].status = "queued"
         /\ jobs' = [jobs EXCEPT ![j] = Claimed(@, WorkerOf[s])]
         /\ \E phase \in {"handling", "error"} :
              slots' = [slots EXCEPT ![s] = [phase |-> phase, job |-> j,
                                             attempt |-> jobs[j].attempts + 1]]
         /\ wrote' = wrote
  BY DEF Claim, Claimable

\* The rows and slots after a success is written back: either the row is untouched,
\* or the slot held its lease and the row has succeeded.
LEMMA CompleteEffect ==
  ASSUME TypeOK, IdleInv, NEW s \in Slots, Complete(s)
  PROVE  /\ slots' = [slots EXCEPT ![s] = Idle]
         /\ wrote' = wrote
         /\ \/ jobs' = jobs
            \/ /\ slots[s].job \in JobIds
               /\ jobs[slots[s].job].status = "running"
               /\ jobs' = [jobs EXCEPT ![slots[s].job] = Unlocked(@, "succeeded")]
  BY LeaseFacts DEF Complete

\* The same for a failure.
LEMMA FailEffect ==
  ASSUME TypeOK, IdleInv, NEW s \in Slots, Fail(s)
  PROVE  /\ slots' = [slots EXCEPT ![s] = Idle]
         /\ wrote' = wrote
         /\ \/ jobs' = jobs
            \/ /\ slots[s].job \in JobIds
               /\ jobs[slots[s].job].status = "running"
               /\ jobs' = [jobs EXCEPT ![slots[s].job] = AfterFailure(@)]
  BY LeaseFacts DEF Fail

\* Every step of the system is one of seven kinds.
LEMMA StepKinds ==
  ASSUME Next
  PROVE  \/ \E j \in JobIds, kind \in Kinds, subject \in Subjects : Enqueue(j, kind, subject)
         \/ \E s \in Slots, j \in JobIds : Claim(s, j)
         \/ \E s \in Slots : GuardedWrite(s)
         \/ \E s \in Slots : \/ LoseLease(s) \/ AbandonWriteBack(s) \/ Crash(s)
                            \/ \E outcome \in {"success", "error"} : Return(s, outcome)
         \/ \E s \in Slots : Complete(s) \/ Fail(s)
         \/ \E j \in JobIds : ExpireLease(j) \/ BackoffElapses(j)
         \/ ReleaseExpired
  BY DEF Next, SlotStep, Finish, WriteBack, TimePasses

-----------------------------------------------------------------------------
(* Types                                                                   *)

\* Every step keeps the types.
LEMMA TypeStep == ASSUME TypeOK, IdleInv, Next PROVE TypeOK'
<1>1. ASSUME NEW j \in JobIds, NEW kind \in Kinds, NEW subject \in Subjects,
             Enqueue(j, kind, subject)
      PROVE  TypeOK'
  BY <1>1, EnqueueEffect, NewRowFacts DEF TypeOK
<1>2. ASSUME NEW s \in Slots, NEW j \in JobIds, Claim(s, j) PROVE TypeOK'
  <2>0. jobs[j] \in Row /\ WorkerOf[s] \in Workers
    BY WorkersAssumption DEF TypeOK
  <2>1. Claimed(jobs[j], WorkerOf[s]) \in Row
    BY <2>0, ClaimedFacts
  <2>6. jobs' \in [JobIds -> Row]
    BY <1>2, <2>1, ClaimEffect DEF TypeOK
  <2>2. jobs[j].attempts + 1 \in Nat
    BY DEF TypeOK, Row
  <2>3. \A phase \in {"handling", "error"} :
          [phase |-> phase, job |-> j, attempt |-> jobs[j].attempts + 1] \in Slot
    BY <2>2 DEF Slot, Phase
  <2>4. slots' \in [Slots -> Slot]
    BY <1>2, <2>3, ClaimEffect DEF TypeOK
  <2>5. QED
    BY <1>2, <2>6, <2>4, ClaimEffect DEF TypeOK
<1>3. ASSUME NEW s \in Slots, GuardedWrite(s) PROVE TypeOK'
  <2>1. slots[s].attempt \in Nat
    BY DEF TypeOK, Slot
  <2>2. QED
    BY <1>3, <2>1 DEF TypeOK, GuardedWrite
<1>4. ASSUME NEW s \in Slots, LoseLease(s) \/ AbandonWriteBack(s) \/ Crash(s) PROVE TypeOK'
  BY <1>4, IdleFacts DEF TypeOK, LoseLease, Crash, AbandonWriteBack
<1>5. ASSUME NEW s \in Slots, NEW outcome \in {"success", "error"}, Return(s, outcome)
      PROVE  TypeOK'
  BY <1>5, ReturnedFacts DEF TypeOK, Return
<1>6. ASSUME NEW s \in Slots, Complete(s) \/ Fail(s) PROVE TypeOK'
  <2>1. "succeeded" \in Status
    BY DEF Status
  <2>2. CASE Complete(s)
    BY <2>1, <2>2, CompleteEffect, UnlockedFacts, IdleFacts DEF TypeOK
  <2>3. CASE Fail(s)
    BY <2>3, FailEffect, AfterFailureFacts, IdleFacts DEF TypeOK
  <2>4. QED
    BY <1>6, <2>2, <2>3
<1>7. ASSUME NEW j \in JobIds, ExpireLease(j) \/ BackoffElapses(j) PROVE TypeOK'
  BY <1>7, TimedFacts DEF TypeOK, ExpireLease, BackoffElapses
<1>8. ASSUME ReleaseExpired PROVE TypeOK'
  BY <1>8, ReleasedFacts DEF TypeOK, ReleaseExpired
<1>9. QED
  BY <1>1, <1>2, <1>3, <1>4, <1>5, <1>6, <1>7, <1>8, StepKinds

\* A slot without work remembers no job, in every step.
LEMMA IdleStep == ASSUME TypeOK, IdleInv, Next PROVE IdleInv'
<1>1. ASSUME NEW s \in Slots, NEW j \in JobIds, Claim(s, j) PROVE IdleInv'
  BY <1>1, ClaimEffect DEF TypeOK, IdleInv
<1>2. ASSUME NEW s \in Slots, slots' = [slots EXCEPT ![s] = Idle] PROVE IdleInv'
  BY <1>2, IdleFacts DEF TypeOK, IdleInv
<1>3. ASSUME NEW s \in Slots, NEW outcome \in {"success", "error"}, Return(s, outcome)
      PROVE  IdleInv'
  BY <1>3, ReturnedFacts DEF TypeOK, IdleInv, Return
<1>4. ASSUME slots' = slots PROVE IdleInv'
  BY <1>4 DEF IdleInv
<1>5. QED
  BY <1>1, <1>2, <1>3, <1>4, StepKinds, EnqueueEffect, CompleteEffect, FailEffect
     DEF GuardedWrite, LoseLease, AbandonWriteBack, Crash, ExpireLease, BackoffElapses,
         ReleaseExpired

-----------------------------------------------------------------------------
(* The inductive invariant                                                 *)

\* Every step keeps the bounds on the attempts: a row fails at the limit only, and
\* goes back to the queue below it only.
LEMMA BudgetStep == ASSUME IInv, Next PROVE RetryBudget'
<1>0. TypeOK /\ IdleInv /\ RetryBudget /\ \A j \in JobIds : jobs[j].attempts \in Nat
  BY DEF IInv, TypeOK, Row
<1>1. ASSUME NEW j \in JobIds, NEW kind \in Kinds, NEW subject \in Subjects,
             Enqueue(j, kind, subject)
      PROVE  RetryBudget'
  BY <1>0, <1>1, EnqueueEffect, NewRowFacts, MaxAttemptsAssumption DEF TypeOK, RetryBudget
<1>2. ASSUME NEW s \in Slots, NEW j \in JobIds, Claim(s, j) PROVE RetryBudget'
  <2>1. Claimed(jobs[j], WorkerOf[s]).status = "running"
        /\ Claimed(jobs[j], WorkerOf[s]).attempts = jobs[j].attempts + 1
    BY <1>0, ClaimedFacts, WorkersAssumption DEF TypeOK
  <2>2. jobs[j].attempts < MaxAttempts
    BY <1>0, <1>2, ClaimEffect DEF RetryBudget
  <2>3. QED
    BY <1>0, <1>2, <2>1, <2>2, ClaimEffect, MaxAttemptsAssumption DEF TypeOK, RetryBudget
<1>3. ASSUME jobs' = jobs PROVE RetryBudget'
  BY <1>0, <1>3 DEF RetryBudget
<1>4. ASSUME NEW s \in Slots, Complete(s) \/ Fail(s) PROVE RetryBudget'
  <2>1. "succeeded" \in Status
    BY DEF Status
  <2>2. CASE Complete(s)
    BY <1>0, <2>1, <2>2, CompleteEffect, UnlockedFacts DEF TypeOK, RetryBudget
  <2>3. CASE Fail(s)
    <3>1. CASE jobs' = jobs
      BY <1>0, <3>1 DEF RetryBudget
    <3>2. CASE /\ slots[s].job \in JobIds
               /\ jobs[slots[s].job].status = "running"
               /\ jobs' = [jobs EXCEPT ![slots[s].job] = AfterFailure(@)]
      <4>1. jobs[slots[s].job] \in Row
        BY <1>0, <3>2 DEF TypeOK
      <4>2. /\ AfterFailure(jobs[slots[s].job]).attempts = jobs[slots[s].job].attempts
            /\ AfterFailure(jobs[slots[s].job]).status
                 = IF jobs[slots[s].job].attempts >= MaxAttempts THEN "failed" ELSE "queued"
        BY <4>1, AfterFailureFacts
      <4>3. QED
        BY <1>0, <3>2, <4>2, MaxAttemptsAssumption DEF TypeOK, RetryBudget
    <3>3. QED
      BY <1>0, <2>3, <3>1, <3>2, FailEffect
  <2>4. QED
    BY <1>4, <2>2, <2>3
<1>5. ASSUME NEW j \in JobIds, ExpireLease(j) \/ BackoffElapses(j) PROVE RetryBudget'
  BY ZenonT(30), <1>0, <1>5, TimedFacts DEF TypeOK, RetryBudget, ExpireLease, BackoffElapses
<1>6. ASSUME ReleaseExpired PROVE RetryBudget'
  BY <1>0, <1>6, ReleasedFacts, MaxAttemptsAssumption DEF TypeOK, RetryBudget, ReleaseExpired
<1>7. QED
  BY <1>1, <1>2, <1>3, <1>4, <1>5, <1>6, StepKinds
     DEF GuardedWrite, LoseLease, AbandonWriteBack, Crash, Return

\* Attempts only grow, and a row never returns to absent.
LEMMA RowsGrow ==
  ASSUME IInv, Next
  PROVE  \A j \in JobIds : /\ jobs[j].attempts <= jobs'[j].attempts
                           /\ jobs[j].status # "absent" => jobs'[j].status # "absent"
<1>0. TypeOK /\ IdleInv /\ AttemptInv /\ \A j \in JobIds : jobs[j].attempts \in Nat
  BY DEF IInv, TypeOK, Row
<1> DEFINE Grows == \A j \in JobIds : /\ jobs[j].attempts <= jobs'[j].attempts
                                      /\ jobs[j].status # "absent" => jobs'[j].status # "absent"
<1>1. ASSUME NEW j \in JobIds, NEW kind \in Kinds, NEW subject \in Subjects,
             Enqueue(j, kind, subject)
      PROVE  Grows
  BY <1>0, <1>1, EnqueueEffect, NewRowFacts DEF TypeOK, AttemptInv
<1>2. ASSUME NEW s \in Slots, NEW j \in JobIds, Claim(s, j) PROVE Grows
  <2>1. jobs[j] \in Row /\ WorkerOf[s] \in Workers
    BY <1>0, WorkersAssumption DEF TypeOK
  <2>2. /\ Claimed(jobs[j], WorkerOf[s]).status = "running"
        /\ Claimed(jobs[j], WorkerOf[s]).attempts = jobs[j].attempts + 1
    BY <2>1, ClaimedFacts
  <2>3. QED
    BY <1>0, <1>2, <2>2, ClaimEffect DEF TypeOK
<1>3. ASSUME jobs' = jobs PROVE Grows
  BY <1>0, <1>3
<1>4. ASSUME NEW s \in Slots, Complete(s) \/ Fail(s) PROVE Grows
  <2>1. "succeeded" \in Status
    BY DEF Status
  <2>2. CASE Complete(s)
    BY <1>0, <2>1, <2>2, CompleteEffect, UnlockedFacts DEF TypeOK
  <2>3. CASE Fail(s)
    BY <1>0, <2>3, FailEffect, AfterFailureFacts DEF TypeOK
  <2>4. QED
    BY <1>4, <2>2, <2>3
<1>5. ASSUME NEW j \in JobIds, ExpireLease(j) \/ BackoffElapses(j) PROVE Grows
  <2>1. jobs[j] \in Row
    BY <1>0 DEF TypeOK
  <2>2. CASE ExpireLease(j)
    BY <1>0, <2>1, <2>2, TimedFacts DEF TypeOK, ExpireLease
  <2>3. CASE BackoffElapses(j)
    BY <1>0, <2>1, <2>3, TimedFacts DEF TypeOK, BackoffElapses
  <2>4. QED
    BY <1>5, <2>2, <2>3
<1>6. ASSUME ReleaseExpired PROVE Grows
  BY <1>0, <1>6, ReleasedFacts DEF TypeOK, ReleaseExpired
<1>7. QED
  BY <1>1, <1>2, <1>3, <1>4, <1>5, <1>6, StepKinds
     DEF GuardedWrite, LoseLease, AbandonWriteBack, Crash, Return

\* A step that gives out no claim lets slots keep their claim or drop it.
LEMMA SlotsKeepOrDrop ==
  ASSUME TypeOK, IdleInv, Next, ~\E s \in Slots, j \in JobIds : Claim(s, j)
  PROVE  \A t \in Slots : slots'[t].phase # "idle" =>
           /\ slots[t].phase # "idle"
           /\ slots'[t].job = slots[t].job
           /\ slots'[t].attempt = slots[t].attempt
<1> DEFINE Kept == \A t \in Slots : slots'[t].phase # "idle" =>
                     /\ slots[t].phase # "idle"
                     /\ slots'[t].job = slots[t].job
                     /\ slots'[t].attempt = slots[t].attempt
<1>1. ASSUME slots' = slots PROVE Kept
  BY <1>1
<1>2. ASSUME NEW s \in Slots, slots' = [slots EXCEPT ![s] = Idle] PROVE Kept
  BY <1>2, IdleFacts DEF TypeOK
<1>3. ASSUME NEW s \in Slots, NEW outcome \in {"success", "error"}, Return(s, outcome)
      PROVE  Kept
  <2>1. slots[s] \in Slot
    BY DEF TypeOK
  <2>2. QED
    BY <1>3, <2>1, ReturnedFacts DEF TypeOK, Return
<1>4. QED
  BY <1>1, <1>2, <1>3, StepKinds, EnqueueEffect, CompleteEffect, FailEffect
     DEF GuardedWrite, LoseLease, AbandonWriteBack, Crash, ExpireLease, BackoffElapses,
         ReleaseExpired

\* What a claim leaves behind: the slot holds the attempt the row has just reached.
LEMMA ClaimGivesOut ==
  ASSUME TypeOK, NEW s \in Slots, NEW j \in JobIds, Claim(s, j)
  PROVE  /\ slots'[s].job = j
         /\ slots'[s].attempt = jobs[j].attempts + 1
         /\ jobs'[j].attempts = jobs[j].attempts + 1
         /\ jobs'[j].status = "running"
         /\ \A t \in Slots \ {s} : slots'[t] = slots[t]
         /\ \A i \in JobIds \ {j} : jobs'[i] = jobs[i]
<1>1. jobs[j] \in Row /\ WorkerOf[s] \in Workers
  BY WorkersAssumption DEF TypeOK
<1>2. /\ Claimed(jobs[j], WorkerOf[s]).status = "running"
      /\ Claimed(jobs[j], WorkerOf[s]).attempts = jobs[j].attempts + 1
  BY <1>1, ClaimedFacts
<1>3. QED
  BY <1>2, ClaimEffect DEF TypeOK

\* Every step keeps the claims of the slots justified by the rows.
LEMMA ClaimStep == ASSUME IInv, Next PROVE ClaimInv'
<1>0. /\ TypeOK /\ IdleInv /\ ClaimInv
      /\ \A j \in JobIds : jobs[j].attempts \in Nat
      /\ \A s \in Slots : slots[s].attempt \in Nat
  BY DEF IInv, TypeOK, Row, Slot
<1>00. TypeOK' /\ \A j \in JobIds : jobs'[j].attempts \in Nat
  BY <1>0, TypeStep DEF TypeOK, Row
<1>1. CASE \E s \in Slots, j \in JobIds : Claim(s, j)
  <2>1. PICK s \in Slots, j \in JobIds : Claim(s, j)
    BY <1>1
  <2>2. ASSUME NEW t \in Slots, slots'[t].phase # "idle"
        PROVE  /\ slots'[t].job \in JobIds
               /\ jobs'[slots'[t].job].status # "absent"
               /\ slots'[t].attempt <= jobs'[slots'[t].job].attempts
    <3>1. CASE t = s
      BY <1>0, <1>00, <2>1, <3>1, ClaimGivesOut
    <3>2. CASE t # s
      <4>1. slots'[t] = slots[t]
        BY <1>0, <2>1, <3>2, ClaimGivesOut
      <4>2. slots[t].job \in JobIds /\ jobs[slots[t].job].status # "absent"
            /\ slots[t].attempt <= jobs[slots[t].job].attempts
        BY <1>0, <2>2, <4>1 DEF ClaimInv
      <4>3. QED
        BY <1>0, <1>00, <4>1, <4>2, RowsGrow
    <3>3. QED
      BY <3>1, <3>2
  <2>3. QED
    BY <2>2 DEF ClaimInv
<1>2. CASE ~\E s \in Slots, j \in JobIds : Claim(s, j)
  <2>1. ASSUME NEW t \in Slots, slots'[t].phase # "idle"
        PROVE  /\ slots'[t].job \in JobIds
               /\ jobs'[slots'[t].job].status # "absent"
               /\ slots'[t].attempt <= jobs'[slots'[t].job].attempts
    <3>1. /\ slots[t].phase # "idle"
          /\ slots'[t].job = slots[t].job
          /\ slots'[t].attempt = slots[t].attempt
      BY <1>0, <1>2, <2>1, SlotsKeepOrDrop
    <3>2. slots[t].job \in JobIds /\ jobs[slots[t].job].status # "absent"
          /\ slots[t].attempt <= jobs[slots[t].job].attempts
      BY <1>0, <3>1 DEF ClaimInv
    <3>3. QED
      BY <1>0, <1>00, <3>1, <3>2, RowsGrow
  <2>2. QED
    BY <2>1 DEF ClaimInv
<1>3. QED
  BY <1>1, <1>2

\* No attempt is given out twice.
LEMMA DifferStep == ASSUME IInv, Next PROVE ClaimsDiffer'
<1>0. /\ TypeOK /\ IdleInv /\ ClaimInv /\ ClaimsDiffer
      /\ \A j \in JobIds : jobs[j].attempts \in Nat
      /\ \A s \in Slots : slots[s].attempt \in Nat
  BY DEF IInv, TypeOK, Row, Slot
<1>1. CASE \E s \in Slots, j \in JobIds : Claim(s, j)
  <2>1. PICK s \in Slots, j \in JobIds : Claim(s, j)
    BY <1>1
  <2>2. ASSUME NEW t \in Slots \ {s}, slots'[t].phase # "idle", slots'[t].job = slots'[s].job
        PROVE  slots'[t].attempt # slots'[s].attempt
    <3>1. slots'[t] = slots[t]
      BY <1>0, <2>1, ClaimGivesOut
    <3>2. slots[t].job = j /\ slots[t].attempt <= jobs[j].attempts
      BY <1>0, <2>1, <2>2, <3>1, ClaimGivesOut DEF ClaimInv
    <3>3. slots'[s].attempt = jobs[j].attempts + 1
      BY <1>0, <2>1, ClaimGivesOut
    <3>4. QED
      BY <1>0, <3>1, <3>2, <3>3
  <2>3. \A t \in Slots \ {s} : slots'[t] = slots[t]
    BY <1>0, <2>1, ClaimGivesOut
  <2>4. QED
    BY <1>0, <2>2, <2>3 DEF ClaimsDiffer
<1>2. CASE ~\E s \in Slots, j \in JobIds : Claim(s, j)
  BY <1>0, <1>2, SlotsKeepOrDrop DEF ClaimsDiffer
<1>3. QED
  BY <1>1, <1>2

\* A step that changes the history of writes is a guarded write of a slot that holds
\* its lease.
LEMMA WriteSteps ==
  ASSUME TypeOK, IdleInv, Next, wrote' # wrote
  PROVE  \E s \in Slots :
           /\ slots[s].phase # "idle"
           /\ slots[s].job \in JobIds
           /\ jobs[slots[s].job].status = "running"
           /\ jobs[slots[s].job].attempts = slots[s].attempt
           /\ jobs' = jobs
           /\ wrote' = [wrote EXCEPT ![slots[s].job] = slots[s].attempt]
<1>1. PICK s \in Slots : GuardedWrite(s)
  BY StepKinds, EnqueueEffect, ClaimEffect, CompleteEffect, FailEffect
     DEF LoseLease, AbandonWriteBack, Crash, Return, ExpireLease, BackoffElapses, ReleaseExpired
<1>2. QED
  BY <1>1, LeaseFacts DEF GuardedWrite

\* Every step keeps writes and rows in line.
LEMMA AttemptStep == ASSUME IInv, Next PROVE AttemptInv'
<1>0. /\ TypeOK /\ IdleInv /\ AttemptInv
      /\ \A j \in JobIds : jobs[j].attempts \in Nat /\ wrote[j] \in Nat
  BY DEF IInv, TypeOK, Row
<1>00. TypeOK' /\ \A j \in JobIds : jobs'[j].attempts \in Nat /\ wrote'[j] \in Nat
  BY <1>0, TypeStep DEF TypeOK, Row
<1>1. \A j \in JobIds : wrote'[j] <= jobs'[j].attempts
  <2>1. CASE wrote' = wrote
    BY <1>0, <1>00, <2>1, RowsGrow DEF AttemptInv
  <2>2. CASE wrote' # wrote
    BY <1>0, <1>00, <2>2, WriteSteps DEF TypeOK, AttemptInv
  <2>3. QED
    BY <2>1, <2>2
<1>2. ASSUME NEW j \in JobIds, jobs'[j].status = "absent" PROVE jobs'[j].attempts = 0
  <2>1. jobs[j].status = "absent"
    BY <1>2, RowsGrow
  <2>2. jobs[j].attempts = 0
    BY <1>0, <2>1 DEF AttemptInv
  <2>3. jobs'[j] = jobs[j]
    <3>1. ASSUME NEW i \in JobIds, NEW kind \in Kinds, NEW subject \in Subjects,
                 Enqueue(i, kind, subject)
          PROVE  jobs'[j] = jobs[j]
      BY <1>0, <1>2, <3>1, EnqueueEffect, NewRowFacts DEF TypeOK
    <3>2. ASSUME NEW s \in Slots, NEW i \in JobIds, Claim(s, i) PROVE jobs'[j] = jobs[j]
      BY <1>0, <1>2, <3>2, ClaimGivesOut
    <3>3. ASSUME NEW s \in Slots, Complete(s) \/ Fail(s) PROVE jobs'[j] = jobs[j]
      BY <1>0, <2>1, <3>3, CompleteEffect, FailEffect DEF TypeOK
    <3>4. ASSUME NEW i \in JobIds, ExpireLease(i) \/ BackoffElapses(i) PROVE jobs'[j] = jobs[j]
      BY <1>0, <2>1, <3>4 DEF TypeOK, ExpireLease, BackoffElapses
    <3>5. ASSUME ReleaseExpired PROVE jobs'[j] = jobs[j]
      BY <1>0, <2>1, <3>5 DEF TypeOK, ReleaseExpired, Expired
    <3>6. QED
      BY <3>1, <3>2, <3>3, <3>4, <3>5, StepKinds
         DEF GuardedWrite, LoseLease, AbandonWriteBack, Crash, Return
  <2>4. QED
    BY <2>2, <2>3
<1>3. QED
  BY <1>1, <1>2 DEF AttemptInv

\* The inductive invariant is one.
LEMMA Induction == IInv /\ [Next]_vars => IInv'
<1> SUFFICES ASSUME IInv, [Next]_vars PROVE IInv'
  OBVIOUS
<1>1. CASE Next
  BY <1>1, TypeStep, IdleStep, BudgetStep, ClaimStep, DifferStep, AttemptStep DEF IInv
<1>2. CASE UNCHANGED vars
  BY <1>2 DEF vars, IInv, TypeOK, RetryBudget, IdleInv, ClaimInv, ClaimsDiffer, AttemptInv
<1>3. QED
  BY <1>1, <1>2

\* The initial state has the invariant.
LEMMA Initially == Init => IInv
<1> SUFFICES ASSUME Init PROVE IInv
  OBVIOUS
<1>1. NoRow \in Row /\ NoRow.status = "absent" /\ NoRow.attempts = 0
  BY DEF NoRow, Row, Status, Lease, Due
<1>2. TypeOK
  BY <1>1, IdleFacts DEF Init, TypeOK
<1>3. RetryBudget
  BY <1>1, MaxAttemptsAssumption DEF Init, RetryBudget
<1>4. IdleInv /\ ClaimInv /\ ClaimsDiffer
  BY IdleFacts DEF Init, IdleInv, ClaimInv, ClaimsDiffer
<1>5. AttemptInv
  BY <1>1 DEF Init, AttemptInv
<1>6. QED
  BY <1>2, <1>3, <1>4, <1>5 DEF IInv

-----------------------------------------------------------------------------
(* Theorems                                                                *)

\* Every reachable state of the job table satisfies the inductive invariant.
THEOREM Invariance == Spec => []IInv
  BY Initially, Induction, PTL DEF Spec

\* Every variable of the job table always has its type.
THEOREM TypeCorrect == Spec => []TypeOK
<1>1. IInv => TypeOK
  BY DEF IInv
<1>2. QED
  BY <1>1, Invariance, PTL

\* No job is attempted more often than max_attempts, and none is failed earlier
\* (Claim, Fail and ReleaseExpired together; none of them checks it alone).
THEOREM RetryBudgetHolds == Spec => []RetryBudget
<1>1. IInv => RetryBudget
  BY DEF IInv
<1>2. QED
  BY <1>1, Invariance, PTL

\* At most one slot passes the lease check of a job, for any number of slots and any
\* sharing of WORKER_IDs (GuardLease).
THEOREM OneOwnerHolds == Spec => []OneOwner
<1>1. IInv => OneOwner
  <2> SUFFICES ASSUME IInv, NEW s \in Slots, NEW t \in Slots,
                      HoldsLease(s), HoldsLease(t), slots[s].job = slots[t].job
               PROVE  s = t
    BY DEF OneOwner
  <2>1. slots[s].phase # "idle" /\ slots[t].phase # "idle" /\ slots[s].attempt = slots[t].attempt
    BY LeaseFacts DEF IInv
  <2>2. QED
    BY <2>1 DEF IInv, ClaimsDiffer
<1>2. QED
  BY <1>1, Invariance, PTL

\* A superseded attempt never writes, and nothing is written for a job that ended
\* (GuardLease inside the handlers' transactions).
THEOREM WritesFollowAttemptsHolds == Spec => WritesFollowAttempts
<1>1. ASSUME IInv, Next, NEW j \in JobIds, wrote'[j] # wrote[j]
      PROVE  wrote'[j] > wrote[j] /\ jobs[j].status = "running"
  <2>1. PICK s \in Slots :
          /\ slots[s].job \in JobIds
          /\ jobs[slots[s].job].status = "running"
          /\ jobs[slots[s].job].attempts = slots[s].attempt
          /\ wrote' = [wrote EXCEPT ![slots[s].job] = slots[s].attempt]
    BY <1>1, WriteSteps DEF IInv
  <2>2. j = slots[s].job /\ wrote'[j] = jobs[j].attempts
    BY <1>1, <2>1 DEF IInv, TypeOK
  <2>3. wrote[j] \in Nat /\ jobs[j].attempts \in Nat /\ wrote[j] <= jobs[j].attempts
    BY <1>1 DEF IInv, TypeOK, Row, AttemptInv
  <2>4. QED
    BY <1>1, <2>1, <2>2, <2>3
<1>2. IInv /\ [Next]_vars
      => [\A j \in JobIds : wrote'[j] # wrote[j] =>
             /\ wrote'[j] > wrote[j]
             /\ jobs[j].status = "running"]_vars
  BY <1>1
<1>3. QED
  BY <1>2, Invariance, PTL DEF Spec, WritesFollowAttempts

\* A step that touches a row which has not just been enqueued finds it queued or running.
LEMMA RowsMove ==
  ASSUME IInv, Next, NEW j \in JobIds, jobs[j].status \in {"succeeded", "failed"}
  PROVE  jobs'[j] = jobs[j]
<1>0. TypeOK /\ IdleInv
  BY DEF IInv
<1>1. ASSUME NEW i \in JobIds, NEW kind \in Kinds, NEW subject \in Subjects,
             Enqueue(i, kind, subject)
      PROVE  jobs'[j] = jobs[j]
  BY <1>0, <1>1, EnqueueEffect DEF TypeOK
<1>2. ASSUME NEW s \in Slots, NEW i \in JobIds, Claim(s, i) PROVE jobs'[j] = jobs[j]
  <2>1. jobs[i].status = "queued"
    BY <1>0, <1>2, ClaimEffect
  <2>2. QED
    BY <1>0, <1>2, <2>1, ClaimGivesOut
<1>3. ASSUME NEW s \in Slots, Complete(s) \/ Fail(s) PROVE jobs'[j] = jobs[j]
  BY <1>0, <1>3, CompleteEffect, FailEffect DEF TypeOK
<1>4. ASSUME NEW i \in JobIds, ExpireLease(i) \/ BackoffElapses(i) PROVE jobs'[j] = jobs[j]
  BY <1>0, <1>4 DEF TypeOK, ExpireLease, BackoffElapses
<1>5. ASSUME ReleaseExpired PROVE jobs'[j] = jobs[j]
  BY <1>0, <1>5 DEF TypeOK, ReleaseExpired, Expired
<1>6. QED
  BY <1>1, <1>2, <1>3, <1>4, <1>5, StepKinds
     DEF GuardedWrite, LoseLease, AbandonWriteBack, Crash, Return

\* A job that has ended is never touched again (the filters of Complete, Fail, Claim
\* and ReleaseExpired).
THEOREM EndIsFinalHolds == Spec => EndIsFinal
<1>1. IInv /\ [Next]_vars
      => [\A j \in JobIds : jobs[j].status \in {"succeeded", "failed"} => jobs'[j] = jobs[j]]_vars
  BY RowsMove
<1>2. QED
  BY <1>1, Invariance, PTL DEF Spec, EndIsFinal

-----------------------------------------------------------------------------
(* The table implements its contract                                       *)

\* Rows that keep status and attempts keep their place in the contract.
LEMMA ContractStutter ==
  ASSUME TypeOK, TypeOK', wrote' = wrote,
         \A j \in JobIds : jobs'[j].status = jobs[j].status /\ jobs'[j].attempts = jobs[j].attempts
  PROVE  UNCHANGED Contract!vars
  BY DEF Contract!vars

\* Every step of the system is a step of the contract or none at all.
LEMMA ContractStep == ASSUME IInv, Next PROVE [Contract!Next]_Contract!vars
<1>0. /\ TypeOK /\ IdleInv /\ RetryBudget /\ AttemptInv
      /\ \A j \in JobIds : jobs[j] \in Row /\ jobs[j].attempts \in Nat
  BY DEF IInv, TypeOK, Row
<1>00. TypeOK'
  BY <1>0, TypeStep
<1>1. ASSUME NEW j \in JobIds, NEW kind \in Kinds, NEW subject \in Subjects,
             Enqueue(j, kind, subject)
      PROVE  Contract!Submit(j)
  <2>1. jobs'[j].status = "queued" /\ jobs'[j].attempts = 0
    BY <1>0, <1>1, EnqueueEffect, NewRowFacts DEF TypeOK
  <2>2. jobs[j].status = "absent" /\ jobs[j].attempts = 0
    BY <1>0, <1>1, EnqueueEffect DEF AttemptInv
  <2>3. \A i \in JobIds \ {j} : jobs'[i] = jobs[i]
    BY <1>0, <1>1, EnqueueEffect DEF TypeOK
  <2>4. wrote' = wrote
    BY <1>0, <1>1, EnqueueEffect
  <2>5. QED
    BY <2>1, <2>2, <2>3, <2>4 DEF Contract!Submit, ContractState
<1>2. ASSUME NEW s \in Slots, NEW j \in JobIds, Claim(s, j) PROVE Contract!Grant(j)
  <2>1. jobs[j].status = "queued" /\ wrote' = wrote
    BY <1>0, <1>2, ClaimEffect
  <2>2. jobs[j].attempts < MaxAttempts
    BY <1>0, <2>1 DEF RetryBudget
  <2>3. /\ jobs'[j].attempts = jobs[j].attempts + 1 /\ jobs'[j].status = "running"
        /\ \A i \in JobIds \ {j} : jobs'[i] = jobs[i]
    BY <1>0, <1>2, ClaimGivesOut
  <2>4. ContractState("queued") = "waiting" /\ ContractState("running") = "granted"
    BY DEF ContractState
  <2>5. QED
    BY <2>1, <2>2, <2>3, <2>4 DEF Contract!Grant
<1>3. ASSUME wrote' # wrote PROVE \E j \in JobIds : Contract!Commit(j)
  <2>1. PICK s \in Slots :
          /\ slots[s].job \in JobIds
          /\ jobs[slots[s].job].status = "running"
          /\ jobs[slots[s].job].attempts = slots[s].attempt
          /\ jobs' = jobs
          /\ wrote' = [wrote EXCEPT ![slots[s].job] = slots[s].attempt]
    BY <1>0, <1>3, WriteSteps
  <2>2. Contract!Commit(slots[s].job)
    BY <2>1 DEF Contract!Commit, ContractState
  <2>3. QED
    BY <2>1, <2>2
<1>4. ASSUME NEW j \in JobIds, wrote' = wrote, jobs[j].status = "running",
             jobs'[j].status = "succeeded", jobs'[j].attempts = jobs[j].attempts,
             \A i \in JobIds \ {j} : jobs'[i] = jobs[i]
      PROVE  Contract!Settle(j)
  <2>1. ContractState("running") = "granted" /\ ContractState("succeeded") = "settled"
    BY DEF ContractState
  <2>2. QED
    BY <1>4, <2>1 DEF Contract!Settle
<1>4a. ASSUME NEW s \in Slots, Complete(s), jobs' # jobs PROVE \E j \in JobIds : Contract!Settle(j)
  <2> DEFINE j == slots[s].job
  <2>1. /\ j \in JobIds /\ jobs[j].status = "running" /\ wrote' = wrote
        /\ jobs' = [jobs EXCEPT ![j] = Unlocked(@, "succeeded")]
    BY <1>0, <1>4a, CompleteEffect
  <2>2. jobs'[j].status = "succeeded" /\ jobs'[j].attempts = jobs[j].attempts
    BY <1>0, <2>1, UnlockedFacts DEF TypeOK, Status
  <2>3. \A i \in JobIds \ {j} : jobs'[i] = jobs[i]
    BY <1>0, <2>1 DEF TypeOK
  <2> HIDE DEF j
  <2>4. Contract!Settle(j)
    BY <1>4, <2>1, <2>2, <2>3
  <2>5. QED
    BY <2>1, <2>4
<1>5. ASSUME NEW lost \in SUBSET JobIds, wrote' = wrote,
             \A j \in JobIds \ lost : jobs'[j] = jobs[j],
             \A j \in lost : /\ jobs[j].status = "running"
                            /\ jobs'[j].attempts = jobs[j].attempts
                            /\ jobs'[j].status = IF jobs[j].attempts >= MaxAttempts
                                                THEN "failed" ELSE "queued"
      PROVE  Contract!TakeBack(lost)
  <2>1. \A j \in lost : jobs[j].attempts >= MaxAttempts <=> jobs[j].attempts = MaxAttempts
    BY <1>0, MaxAttemptsAssumption DEF RetryBudget
  <2>2. QED
    BY ZenonT(30), <1>5, <2>1 DEF Contract!TakeBack, ContractState
<1>6. ASSUME NEW s \in Slots, Fail(s), jobs' # jobs
      PROVE  \E lost \in SUBSET JobIds : Contract!TakeBack(lost)
  <2> DEFINE j == slots[s].job
  <2>1. /\ j \in JobIds /\ jobs[j].status = "running" /\ wrote' = wrote
        /\ jobs' = [jobs EXCEPT ![j] = AfterFailure(@)]
    BY <1>0, <1>6, FailEffect
  <2>2. /\ jobs'[j].attempts = jobs[j].attempts
        /\ jobs'[j].status = IF jobs[j].attempts >= MaxAttempts THEN "failed" ELSE "queued"
    BY <1>0, <2>1, AfterFailureFacts DEF TypeOK
  <2>3. \A i \in JobIds \ {j} : jobs'[i] = jobs[i]
    BY <1>0, <2>1 DEF TypeOK
  <2> HIDE DEF j
  <2>4. {j} \in SUBSET JobIds
    BY <2>1
  <2>5. Contract!TakeBack({j})
    BY <1>5, <2>1, <2>2, <2>3, <2>4
  <2>6. QED
    BY <2>4, <2>5
<1>7. ASSUME ReleaseExpired PROVE Contract!TakeBack(Expired)
  <2>1. Expired \in SUBSET JobIds /\ \A j \in Expired : jobs[j].status = "running"
    BY DEF Expired
  <2>2. wrote' = wrote /\ \A j \in JobIds \ Expired : jobs'[j] = jobs[j]
    BY <1>7 DEF ReleaseExpired
  <2>3. \A j \in Expired : jobs'[j] = Released(jobs[j])
    BY <1>7, <2>1 DEF ReleaseExpired
  <2>4. \A j \in Expired : /\ jobs'[j].attempts = jobs[j].attempts
                          /\ jobs'[j].status = IF jobs[j].attempts >= MaxAttempts
                                              THEN "failed" ELSE "queued"
    BY <1>0, <2>1, <2>3, ReleasedFacts
  <2>5. QED
    BY <1>5, <2>1, <2>2, <2>4
<1>8. ASSUME NEW j \in JobIds, ExpireLease(j) \/ BackoffElapses(j) PROVE UNCHANGED Contract!vars
  <2>1. wrote' = wrote
    BY <1>8 DEF ExpireLease, BackoffElapses
  <2>2. /\ jobs'[j].status = jobs[j].status /\ jobs'[j].attempts = jobs[j].attempts
        /\ \A i \in JobIds \ {j} : jobs'[i] = jobs[i]
    BY <1>0, <1>8, TimedFacts DEF TypeOK, ExpireLease, BackoffElapses
  <2>3. QED
    BY <1>0, <1>00, <2>1, <2>2, ContractStutter
<1>9. ASSUME jobs' = jobs, wrote' = wrote PROVE UNCHANGED Contract!vars
  BY <1>9 DEF Contract!vars
<1>10. ASSUME NEW s \in Slots, Complete(s) \/ Fail(s) PROVE wrote' = wrote
  BY <1>0, <1>10, CompleteEffect, FailEffect
<1>11. QED
  BY <1>0, <1>1, <1>2, <1>3, <1>4a, <1>6, <1>7, <1>8, <1>9, <1>10, StepKinds
     DEF Contract!Next, GuardedWrite, LoseLease, AbandonWriteBack, Crash, Return, Expired

\* The job table implements JobContract: leases, crashes, the reaper and shared
\* WORKER_IDs are invisible to who enqueues and to who commits results.
THEOREM ContractImplemented == Spec => ImplementsContract
<1>1. Init => Contract!Init
  BY DEF Init, NoRow, Contract!Init, ContractState
<1>2. IInv /\ [Next]_vars => [Contract!Next]_Contract!vars
  <2>1. CASE UNCHANGED vars
    BY <2>1 DEF vars, Contract!vars
  <2>2. QED
    BY <2>1, ContractStep
<1>3. QED
  BY <1>1, <1>2, Invariance, PTL DEF Spec, ImplementsContract, Contract!Spec

=============================================================================
