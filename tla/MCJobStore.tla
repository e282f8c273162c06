---------------------------- MODULE MCJobStore ----------------------------
(* Instances of JobStore for TLC. *)
EXTENDS JobStore, TLC

MCPriority == {0}
MCMaxAttempts == {2}
\* A whole second, "05Z", sorts after its half, "05.5Z".
WholeAfterHalf == [fraction \in 0..1 |-> 1 - fraction]
AnyFault == {"lose", "stop"}

Symmetry == Permutations(JobId) \cup Permutations(Worker) \cup Permutations(Enqueuer)
=============================================================================
