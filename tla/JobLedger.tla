------------------------------ MODULE JobLedger ------------------------------
(***************************************************************************)
(* What the ingest queue promises, without rows, locks, clocks or dedupe   *)
(* keys: a job that was added is lent to one worker at a time, at most     *)
(* limit times, and once it is closed it is never lent again.  A worker    *)
(* may vanish with a job; nobody else gets that job then.                  *)
(***************************************************************************)
EXTENDS Naturals

CONSTANTS JobId, Worker, MaxAttempts

VARIABLES
  stage,    \* where each job is in its life
  lentTo,   \* the workers that hold it
  tries,    \* how often it was lent
  limit     \* how often it may be lent

vars == <<stage, lentTo, tries, limit>>

Init ==
  /\ stage = [id \in JobId |-> "none"]
  /\ lentTo = [id \in JobId |-> {}]
  /\ tries = [id \in JobId |-> 0]
  /\ limit = [id \in JobId |-> 0]

Add(id, n) ==
  /\ stage[id] = "none"
  /\ stage' = [stage EXCEPT ![id] = "waiting"]
  /\ limit' = [limit EXCEPT ![id] = n]
  /\ UNCHANGED <<lentTo, tries>>

Lend(id, w) ==
  /\ stage[id] = "waiting"
  /\ tries[id] < limit[id]
  /\ lentTo[id] = {}
  /\ \A other \in JobId : w \notin lentTo[other]
  /\ stage' = [stage EXCEPT ![id] = "lent"]
  /\ lentTo' = [lentTo EXCEPT ![id] = {w}]
  /\ tries' = [tries EXCEPT ![id] = @ + 1]
  /\ UNCHANGED limit

(* The one holder hands the job back: done, dead, or for another try. *)
GiveBack(id, w, end) ==
  /\ stage[id] = "lent"
  /\ lentTo[id] = {w}
  /\ end = "waiting" => tries[id] < limit[id]
  /\ stage' = [stage EXCEPT ![id] = end]
  /\ lentTo' = [lentTo EXCEPT ![id] = {}]
  /\ UNCHANGED <<tries, limit>>

(* Workers vanish with what they hold. *)
Vanish(W) ==
  /\ lentTo' = [id \in JobId |-> lentTo[id] \ W]
  /\ UNCHANGED <<stage, tries, limit>>

Next ==
  \/ \E id \in JobId, n \in MaxAttempts : Add(id, n)
  \/ \E id \in JobId, w \in Worker : Lend(id, w)
  \/ \E id \in JobId, w \in Worker, end \in {"waiting", "succeeded", "dead"} :
       GiveBack(id, w, end)
  \/ \E W \in SUBSET Worker : Vanish(W)

Spec == Init /\ [][Next]_vars

=============================================================================
