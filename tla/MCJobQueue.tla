----------------------------- MODULE MCJobQueue -----------------------------
(* Small instances of JobQueue.                                            *)
EXTENDS JobQueue, TLC

CONSTANTS w1, s1, s2, a

\* Two slots that write the same WORKER_ID: two goroutines of one process, or two
\* processes that were both left at the default "worker-1".
SharedWorkerId == [s \in {s1, s2} |-> w1]

=============================================================================
