---------------------------- MODULE JobContract ----------------------------
(***************************************************************************)
(* What the job table promises to the code that enqueues jobs and to the   *)
(* handlers that run them, without leases, processes, clocks or SQL.       *)
(*                                                                         *)
(* A job is granted at most Limit times.  While it is granted its current  *)
(* grant may commit results; the grants commit in the order they were      *)
(* given, so a commit is never overwritten by an older grant.  A job ends  *)
(* once, either settled by its current grant or given up after the last.   *)
(***************************************************************************)
EXTENDS Naturals

CONSTANTS
  Jobs,   \* jobs that may ever be submitted
  Limit   \* how often a job may be granted

VARIABLES
  state,      \* unknown, waiting, granted, settled or given up
  grants,     \* how often the job has been granted
  committed   \* the grant that committed last; 0 when none has

vars == <<state, grants, committed>>

Ended == {"settled", "given up"}

Init ==
  /\ state = [j \in Jobs |-> "unknown"]
  /\ grants = [j \in Jobs |-> 0]
  /\ committed = [j \in Jobs |-> 0]

Submit(j) ==
  /\ state[j] = "unknown"
  /\ state' = [state EXCEPT ![j] = "waiting"]
  /\ UNCHANGED <<grants, committed>>

Grant(j) ==
  /\ state[j] = "waiting"
  /\ grants[j] < Limit
  /\ state' = [state EXCEPT ![j] = "granted"]
  /\ grants' = [grants EXCEPT ![j] = @ + 1]
  /\ UNCHANGED committed

Commit(j) ==
  /\ state[j] = "granted"
  /\ committed' = [committed EXCEPT ![j] = grants[j]]
  /\ UNCHANGED <<state, grants>>

Settle(j) ==
  /\ state[j] = "granted"
  /\ state' = [state EXCEPT ![j] = "settled"]
  /\ UNCHANGED <<grants, committed>>

\* Grants are taken back, several at once when their holders are gone.
TakeBack(lost) ==
  /\ \A j \in lost : state[j] = "granted"
  /\ state' = [j \in Jobs |-> IF j \notin lost THEN state[j]
                              ELSE IF grants[j] = Limit THEN "given up" ELSE "waiting"]
  /\ UNCHANGED <<grants, committed>>

Next ==
  \/ \E j \in Jobs : Submit(j) \/ Grant(j) \/ Commit(j) \/ Settle(j)
  \/ \E lost \in SUBSET Jobs : TakeBack(lost)

Spec == Init /\ [][Next]_vars

=============================================================================
