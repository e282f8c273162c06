------------------------------ MODULE MCIngest ------------------------------
(* Instances of Ingest for TLC. *)
EXTENDS Ingest, TLC

MCTwoAttempts == {2}
MCThreeAttempts == {3}
NoFault == {}
StopFault == {"stop"}
AnyFault == {"lose", "stop"}
NoError == {}
AnyError == {"transient", "permanent"}
ToolsEcho == [p \in {"docling", "local"} |-> IF p = "local" THEN {"not valid utf-8"} ELSE {}]

Symmetry == Permutations(JobId) \cup Permutations(Worker) \cup Permutations(Enqueuer)
              \cup Permutations(Content)
=============================================================================
