------------------------------ MODULE JobQueue ------------------------------
(***************************************************************************)
(* The PostgreSQL job table of backend/internal/jobs and the worker        *)
(* processes that drain it.                                                *)
(*                                                                         *)
(* A job is a row of the table; a slot is one of the goroutines that       *)
(* Worker.Run starts, and holds the copy of the row that Claim returned.   *)
(* Every SQL statement or transaction of queue.go is one action.  Time is  *)
(* not a number here: the code only ever compares locked_until and         *)
(* available_at with now(), so a row carries the outcome of the two        *)
(* comparisons (lease, due) and an action of its own lets time pass.      *)
(*                                                                         *)
(* A running handler may be overtaken by its own lease at any moment.  The *)
(* deadline of runJob (lease - finalizeTimeout) makes that rare, it does   *)
(* not exclude it: a paused process or a slow database is enough.          *)
(***************************************************************************)
EXTENDS Naturals, FiniteSets

CONSTANTS
  JobIds,       \* ids in the order of created_at; the table never holds more
  Kinds,        \* job kinds that are ever enqueued
  Handled,      \* the kinds in Worker.handlers
  RebuildKind,  \* rebuild_user_knowledge_stats, the kind with the unique index
  Subjects,     \* what a payload names: a session or a user
  Slots,        \* worker goroutines, over all the processes
  Workers,      \* values of WORKER_ID
  WorkerOf,     \* the WORKER_ID a slot writes into locked_by; processes may share one
  MaxAttempts   \* jobs.max_attempts (3 by default)

NoJob == 0
NoWorker == "nobody"
NoKind == "none"
NoSubject == "none"

ASSUME JobIdsAssumption == JobIds \subseteq Nat \ {NoJob}
ASSUME KindsAssumption == Handled \subseteq Kinds
ASSUME WorkersAssumption == NoWorker \notin Workers /\ WorkerOf \in [Slots -> Workers]
ASSUME MaxAttemptsAssumption == MaxAttempts \in Nat \ {0}

VARIABLES
  jobs,   \* the table
  slots,  \* what each goroutine is doing, and the claim it works under
  wrote   \* history: the attempt whose guarded transaction committed last, per job

vars == <<jobs, slots, wrote>>

Status == {"absent", "queued", "running", "succeeded", "failed"}

Lease == {"none", "live", "expired"}
Due == {"now", "later"}

Row == [status   : Status,
        kind     : Kinds \cup {NoKind},
        subject  : Subjects \cup {NoSubject},
        attempts : Nat,
        lockedBy : Workers \cup {NoWorker},
        lease    : Lease,   \* locked_until: unset, in the future, in the past
        due      : Due]     \* available_at: in the past, in the future

\* idle: polling; handling: inside the handler; success, error: the handler has
\* returned and its outcome is not yet written back.
Phase == {"idle", "handling", "success", "error"}

Slot == [phase : Phase, job : JobIds \cup {NoJob}, attempt : Nat]

NoRow == [status |-> "absent", kind |-> NoKind, subject |-> NoSubject, attempts |-> 0,
          lockedBy |-> NoWorker, lease |-> "none", due |-> "now"]

Idle == [phase |-> "idle", job |-> NoJob, attempt |-> 0]

Init ==
  /\ jobs = [j \in JobIds |-> NoRow]
  /\ slots = [s \in Slots |-> Idle]
  /\ wrote = [j \in JobIds |-> 0]

-----------------------------------------------------------------------------
(* Enqueueing                                                              *)

\* j is the row the next INSERT creates.
Fresh(j) ==
  /\ jobs[j].status = "absent"
  /\ \A i \in JobIds : i < j => jobs[i].status # "absent"

NewRow(kind, subject) ==
  [NoRow EXCEPT !.status = "queued", !.kind = kind, !.subject = subject]

EnqueueTx(j, kind, subject) ==
  /\ Fresh(j)
  /\ jobs' = [jobs EXCEPT ![j] = NewRow(kind, subject)]
  /\ UNCHANGED <<slots, wrote>>

QueuedRebuild(table, j) ==
  table[j].status = "queued" /\ table[j].kind = RebuildKind

\* The partial unique index uq_jobs_learning_rebuild_queued_user.
UniqueIndexHolds(table) ==
  \A i, j \in JobIds :
    QueuedRebuild(table, i) /\ QueuedRebuild(table, j) /\ table[i].subject = table[j].subject
      => i = j

\* INSERT ... ON CONFLICT DO NOTHING: a queued rebuild of the user absorbs the
\* request, a running one does not.
EnqueueUserLearningRebuildTx(j, user) ==
  /\ ~\E i \in JobIds : QueuedRebuild(jobs, i) /\ jobs[i].subject = user
  /\ EnqueueTx(j, RebuildKind, user)

-----------------------------------------------------------------------------
(* Claiming                                                                *)

Claimable(j) == jobs[j].status = "queued" /\ jobs[j].due = "now"

Claimed(row, worker) ==
  [row EXCEPT !.status = "running", !.lockedBy = worker, !.lease = "live",
              !.attempts = row.attempts + 1]

\* ORDER BY created_at FOR UPDATE SKIP LOCKED: the oldest claimable row that no
\* other polling slot has locked, so at most one older row is skipped per such slot.
NextInLine(s, j) ==
  Cardinality({i \in JobIds : i < j /\ Claimable(i)})
    <= Cardinality({t \in Slots \ {s} : slots[t].phase = "idle"})

Claim(s, j) ==
  /\ slots[s].phase = "idle"
  /\ Claimable(j)
  /\ NextInLine(s, j)
  /\ jobs' = [jobs EXCEPT ![j] = Claimed(@, WorkerOf[s])]
  /\ slots' = [slots EXCEPT ![s] = [phase |-> IF jobs[j].kind \in Handled THEN "handling" ELSE "error",
                                    job |-> j, attempt |-> jobs[j].attempts + 1]]
  /\ UNCHANGED wrote

-----------------------------------------------------------------------------
(* The lease                                                               *)

LeaseWithoutAttempt(s) ==
  /\ slots[s].job # NoJob
  /\ LET row == jobs[slots[s].job]
     IN  row.status = "running" /\ row.lockedBy = WorkerOf[s] /\ row.lease = "live"

\* The condition GuardLease, Complete and Fail share: the row is still the one
\* this slot claimed, under the same attempt, and its lease has not run out.
HoldsLease(s) ==
  /\ slots[s].job # NoJob
  /\ LET row == jobs[slots[s].job]
     IN  /\ row.status = "running"
         /\ row.lockedBy = WorkerOf[s]
         /\ row.attempts = slots[s].attempt
         /\ row.lease = "live"

\* A business transaction of the handler.  GuardLease locks the job row first, so
\* nothing can reclaim the job between the check and the commit.
GuardedWrite(s) ==
  /\ slots[s].phase = "handling"
  /\ HoldsLease(s)
  /\ wrote' = [wrote EXCEPT ![slots[s].job] = slots[s].attempt]
  /\ UNCHANGED <<jobs, slots>>

\* GuardLease answers ErrLeaseLost; runJob then leaves the row alone.
LoseLease(s) ==
  /\ slots[s].phase = "handling"
  /\ ~HoldsLease(s)
  /\ slots' = [slots EXCEPT ![s] = Idle]
  /\ UNCHANGED <<jobs, wrote>>

\* The handler returns nil, or fails, panics or runs into its deadline.
Return(s, outcome) ==
  /\ slots[s].phase = "handling"
  /\ slots' = [slots EXCEPT ![s] = [@ EXCEPT !.phase = outcome]]
  /\ UNCHANGED <<jobs, wrote>>

-----------------------------------------------------------------------------
(* Writing the outcome back                                                *)

Unlocked(row, status) == [row EXCEPT !.status = status, !.lockedBy = NoWorker, !.lease = "none"]

Complete(s) ==
  /\ slots[s].phase = "success"
  /\ jobs' = IF HoldsLease(s)
             THEN [jobs EXCEPT ![slots[s].job] = Unlocked(@, "succeeded")]
             ELSE jobs
  /\ slots' = [slots EXCEPT ![s] = Idle]
  /\ UNCHANGED wrote

\* The last attempt ends in failed, an earlier one in queued with a backoff.
AfterFailureOffByOne(row) ==
  IF row.attempts > MaxAttempts
  THEN Unlocked(row, "failed")
  ELSE [Unlocked(row, "queued") EXCEPT !.due = "later"]

AfterFailureRetrying(row) ==
  IF row.attempts >= MaxAttempts THEN Unlocked(row, "failed") ELSE Unlocked(row, "retrying")

AfterFailure(row) ==
  IF row.attempts >= MaxAttempts
  THEN Unlocked(row, "failed")
  ELSE [Unlocked(row, "queued") EXCEPT !.due = "later"]

\* Requeueing a rebuild while the same user has another one queued violates the
\* unique index: the UPDATE fails, is logged, and the row stays running.
Fail(s) ==
  /\ slots[s].phase = "error"
  /\ LET table == [jobs EXCEPT ![slots[s].job] = AfterFailure(@)]
     IN  jobs' = IF HoldsLease(s) /\ UniqueIndexHolds(table) THEN table ELSE jobs
  /\ slots' = [slots EXCEPT ![s] = Idle]
  /\ UNCHANGED wrote

\* The write-back itself fails or exceeds finalizeTimeout; the error is only logged.
AbandonWriteBack(s) ==
  /\ slots[s].phase \in {"success", "error"}
  /\ slots' = [slots EXCEPT ![s] = Idle]
  /\ UNCHANGED <<jobs, wrote>>

\* The process of the slot dies and is started again: the slot polls anew, the row
\* it had claimed stays running.  The slots of a process crash one by one here; a
\* process that loses them all at once is the same with nothing in between.
Crash(s) ==
  /\ slots[s].phase # "idle"
  /\ slots' = [slots EXCEPT ![s] = Idle]
  /\ UNCHANGED <<jobs, wrote>>

-----------------------------------------------------------------------------
(* Time and the reaper                                                     *)

ExpireLease(j) ==
  /\ jobs[j].status = "running" /\ jobs[j].lease = "live"
  /\ jobs' = [jobs EXCEPT ![j] = [@ EXCEPT !.lease = "expired"]]
  /\ UNCHANGED <<slots, wrote>>

BackoffElapses(j) ==
  /\ jobs[j].status = "queued" /\ jobs[j].due = "later"
  /\ jobs' = [jobs EXCEPT ![j] = [@ EXCEPT !.due = "now"]]
  /\ UNCHANGED <<slots, wrote>>

ExpiredWithAttemptsLeft ==
  {j \in JobIds : /\ jobs[j].status = "running" /\ jobs[j].lease = "expired"
                  /\ jobs[j].attempts < MaxAttempts}

UnlockedRows == {j \in JobIds : jobs[j].status \in {"running", "succeeded"} /\ jobs[j].lease # "live"}

Expired == {j \in JobIds : jobs[j].status = "running" /\ jobs[j].lease = "expired"}

\* The lease of a job ran out: it goes back to the queue, or fails for good after
\* its last attempt.  available_at is left as it is, which is in the past.
ReleasedIgnoringLimit(row) == Unlocked(row, "queued")

Released(row) ==
  Unlocked(row, IF row.attempts >= MaxAttempts THEN "failed" ELSE "queued")

\* One UPDATE over all the expired rows.  If any two of them, or one of them and a
\* row that is already queued, are rebuilds of one user, the unique index fails
\* the statement, and the transaction releases nothing at all.
ReleaseExpired ==
  /\ Expired # {}
  /\ LET table == [j \in JobIds |-> IF j \in Expired THEN Released(jobs[j]) ELSE jobs[j]]
     IN  UniqueIndexHolds(table) /\ jobs' = table
  /\ UNCHANGED <<slots, wrote>>

-----------------------------------------------------------------------------
(* The specification                                                       *)

Enqueue(j, kind, subject) ==
  IF kind = RebuildKind
  THEN EnqueueUserLearningRebuildTx(j, subject)
  ELSE EnqueueTx(j, kind, subject)

WriteBack(s) == Complete(s) \/ Fail(s) \/ AbandonWriteBack(s)

Finish(s) == LoseLease(s) \/ (\E outcome \in {"success", "error"} : Return(s, outcome)) \/ WriteBack(s)

SlotStep(s) == (\E j \in JobIds : Claim(s, j)) \/ GuardedWrite(s) \/ Finish(s)

TimePasses == \E j \in JobIds : ExpireLease(j) \/ BackoffElapses(j)

Next ==
  \/ \E j \in JobIds, kind \in Kinds, subject \in Subjects : Enqueue(j, kind, subject)
  \/ \E s \in Slots : SlotStep(s) \/ Crash(s)
  \/ TimePasses
  \/ ReleaseExpired

Spec == Init /\ [][Next]_vars

\* Slots poll twice a second, handlers run under a deadline, the reaper runs every
\* minute in each process, and time passes.  Nothing obliges a client to enqueue
\* or a process to crash.
Fairness ==
  /\ WF_vars(\E s \in Slots, j \in JobIds : Claim(s, j))
  /\ \A s \in Slots : WF_vars(Finish(s))
  /\ \A j \in JobIds : WF_vars(ExpireLease(j)) /\ WF_vars(BackoffElapses(j))
  /\ WF_vars(ReleaseExpired)

FairSpec == Spec /\ Fairness

-----------------------------------------------------------------------------
(* Properties                                                              *)

\* Every variable has its type.
TypeOK ==
  /\ jobs \in [JobIds -> Row]
  /\ slots \in [Slots -> Slot]
  /\ wrote \in [JobIds -> Nat]

\* A job has one owner: no two slots can both pass the lease check for one job,
\* whatever expired, was reclaimed or crashed before, and even when several
\* processes run under the same WORKER_ID (GuardLease).
OneOwner ==
  \A s, t \in Slots :
    HoldsLease(s) /\ HoldsLease(t) /\ slots[s].job = slots[t].job => s = t

\* Retries are neither unlimited nor cut short: a job never runs more often than
\* max_attempts, not even when every attempt ends in a crash, and it is failed for
\* good only after the last one (Fail and ReleaseExpired; Claim does not check).
RetryBudget ==
  \A j \in JobIds :
    /\ jobs[j].attempts <= MaxAttempts
    /\ jobs[j].status = "queued" => jobs[j].attempts < MaxAttempts
    /\ jobs[j].status = "failed" => jobs[j].attempts = MaxAttempts

\* Results are written in the order of the attempts: once an attempt has written,
\* no earlier, superseded attempt of the job writes over it, and nothing is
\* written for a job that has ended (GuardLease inside the business transaction).
WritesFollowAttempts ==
  [][\A j \in JobIds : wrote'[j] # wrote[j] =>
       /\ wrote'[j] > wrote[j]
       /\ jobs[j].status = "running"]_vars

\* A job that has ended stays as it ended: a slow handler, the reaper and the other
\* workers leave the row alone (Complete, Fail and ReleaseExpired all filter rows).
EndIsFinal ==
  [][\A j \in JobIds : jobs[j].status \in {"succeeded", "failed"} => jobs'[j] = jobs[j]]_vars

\* Two rebuilds of one user whose leases ran out, neither on its last attempt.
ReaperBlocked ==
  \E i, j \in Expired :
    /\ i # j
    /\ jobs[i].kind = RebuildKind /\ jobs[j].kind = RebuildKind
    /\ jobs[i].subject = jobs[j].subject
    /\ jobs[i].attempts < MaxAttempts /\ jobs[j].attempts < MaxAttempts

\* Every job that is enqueued ends, in success or after its last attempt, through
\* any crashes, lost leases and failed write-backs; the one thing that can prevent
\* it is a pair of expired rebuilds of one user (Claim, Fail, ReleaseExpired).
EveryJobEndsUnlessBlocked ==
  \/ \A j \in JobIds : jobs[j].status = "queued" ~> jobs[j].status \in {"succeeded", "failed"}
  \/ <>[]ReaperBlocked

\* "A crashed process's job is taken back by the reaper": no row stays running
\* under an expired lease (ReleaseExpired).
ExpiredIsRecovered ==
  \A j \in JobIds : j \in Expired ~> j \notin Expired

-----------------------------------------------------------------------------
(* The contract the table keeps                                            *)

ContractState(status) ==
  CASE status = "queued"    -> "waiting"
    [] status = "running"   -> "granted"
    [] status = "succeeded" -> "settled"
    [] status = "failed"    -> "given up"
    [] OTHER                -> "unknown"

Contract == INSTANCE JobContract WITH
  Jobs <- JobIds,
  Limit <- MaxAttempts,
  state <- [j \in JobIds |-> ContractState(jobs[j].status)],
  grants <- [j \in JobIds |-> jobs[j].attempts],
  committed <- wrote

\* The job table keeps the contract: every step of a worker, of the reaper or of
\* time is a step of JobContract or leaves its state alone.
ImplementsContract == Contract!Spec

=============================================================================
