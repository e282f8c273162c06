--------------------------- MODULE JobStoreProofs ---------------------------
(***************************************************************************)
(* Proofs about the ingest queue, for every number of jobs, workers and    *)
(* callers, every clock granularity and every retry policy.                *)
(***************************************************************************)
EXTENDS JobStore, TLAPS

(* Backoff (jobs/store.go) always yields a delay, at most the larger of    *)
(* its two constants.                                                      *)
LEMMA BackoffType == \A n \in Nat : Backoff(n) \in Nat
<1> TAKE n \in Nat
<1>1. CASE n <= 1
  BY <1>1, TimeAssumption DEF Backoff
<1>2. CASE ~(n <= 1) /\ BackoffBase * 2^(n - 1) \in 0..BackoffCap
  BY <1>2, TimeAssumption DEF Backoff
<1>3. CASE ~(n <= 1) /\ BackoffBase * 2^(n - 1) \notin 0..BackoffCap
  BY <1>3, TimeAssumption DEF Backoff
<1> QED BY <1>1, <1>2, <1>3

-----------------------------------------------------------------------------
(* Type correctness *)

(* The rows, copies and calls that are written out have their types.        *)
LEMMA RecordTypes ==
  /\ Absent \in Row
  /\ Idle \in Copy
  /\ NoCall \in Call
BY DEF Absent, Row, Idle, Copy, NoCall, Outcome, Call, Status, Indexed

(* What Enqueue leaves in its caller is a call again.                       *)
LEMMA OutcomeType ==
  ASSUME NEW pc \in {"returned", "error"}, NEW k \in Key \cup {NoKey},
         NEW id \in JobId \cup {NoJob}
  PROVE  Outcome(pc, k, id) \in Call
BY DEF Outcome, Call

(* The initial state has the types of the tables. *)
LEMMA InitTypeOK == Init => TypeOK
BY RecordTypes DEF Init, TypeOK

(* The statements of Enqueue keep the types.                               *)
LEMMA EnqueueTypeOK ==
  ASSUME TypeOK, NEW e \in Enqueuer, NEW k \in Key \cup {NoKey},
         NEW p \in Priority, NEW m \in MaxAttempts, Enqueue(e, k, p, m)
  PROVE  TypeOK'
<1>1. /\ p \in Int /\ m \in Nat /\ now \in Nat
  BY ParamAssumption DEF TypeOK
<1>2. ASSUME NEW id \in JobId
      PROVE  Outcome("returned", k, id) \in Call
  BY OutcomeType
<1>3. [pc |-> "insert", key |-> k, priority |-> p, max |-> m,
       runAfter |-> now, job |-> NoJob] \in Call
  BY <1>1 DEF Call
<1>4. enq' \in [Enqueuer -> Call]
  BY <1>2, <1>3 DEF TypeOK, Enqueue, findByDedupeKey, Newest, Matching, Rows
<1> QED BY <1>4 DEF TypeOK, Enqueue

(* So does the INSERT, whose new row has all its columns.                  *)
LEMMA InsertTypeOK ==
  ASSUME TypeOK, NEW e \in Enqueuer, Insert(e)
  PROVE  TypeOK'
<1> DEFINE call == enq[e]
<1>1. call \in Call /\ now \in Nat
  BY DEF TypeOK
<1>2. CASE IndexConflict(call.key)
  <2>1. [call EXCEPT !.pc = "refind"] \in Call
    BY <1>1 DEF Call
  <2>2. enq' = [enq EXCEPT ![e] = [call EXCEPT !.pc = "refind"]]
    BY <1>2 DEF Insert, TypeOK
  <2> QED BY <1>2, <2>1, <2>2 DEF TypeOK, Insert
<1>3. CASE ~IndexConflict(call.key)
  <2>1. PICK id \in JobId \ Rows :
          /\ jobs' = [jobs EXCEPT ![id] =
               [Absent EXCEPT !.status = "queued", !.key = call.key,
                              !.priority = call.priority, !.max = call.max,
                              !.runAfter = call.runAfter, !.createdAt = now]]
          /\ enq' = [enq EXCEPT ![e] = Outcome("returned", call.key, id)]
    BY <1>3 DEF Insert
  <2>2. [Absent EXCEPT !.status = "queued", !.key = call.key,
                       !.priority = call.priority, !.max = call.max,
                       !.runAfter = call.runAfter, !.createdAt = now] \in Row
    BY <1>1 DEF Absent, Row, Call, Status, Indexed
  <2>3. Outcome("returned", call.key, id) \in Call
    BY <1>1, OutcomeType DEF Call
  <2> QED BY <2>1, <2>2, <2>3 DEF TypeOK, Insert
<1> QED BY <1>2, <1>3

(* So does the lookup after a lost race.                                   *)
LEMMA RefindTypeOK ==
  ASSUME TypeOK, NEW e \in Enqueuer, Refind(e)
  PROVE  TypeOK'
<1>1. enq[e].key \in Key \cup {NoKey}
  BY DEF TypeOK, Call
<1>2. ASSUME NEW id \in JobId
      PROVE  Outcome("returned", enq[e].key, id) \in Call
  BY <1>1, OutcomeType
<1>3. Outcome("error", enq[e].key, NoJob) \in Call
  BY <1>1, OutcomeType
<1>4. enq' \in [Enqueuer -> Call]
  BY <1>2, <1>3 DEF TypeOK, Refind, findByDedupeKey, Newest, Matching, Rows
<1> QED BY <1>4 DEF TypeOK, Refind

(* Claim writes a row and the worker's copy of it.                         *)
LEMMA ClaimTypeOK ==
  ASSUME TypeOK, NEW w \in Worker, Claim(w)
  PROVE  TypeOK'
<1>1. PICK id \in Due :
        /\ jobs' = [jobs EXCEPT ![id].status = "running",
                                ![id].attempts = @ + 1,
                                ![id].lockedBy = w]
        /\ held' = [held EXCEPT ![w] = [job |-> id,
                                        attempts |-> jobs[id].attempts + 1,
                                        max |-> jobs[id].max]]
  BY DEF Claim
<1>2. id \in JobId /\ jobs[id] \in Row
  BY DEF Due, Rows, TypeOK
<1>3. jobs' \in [JobId -> Row]
  BY <1>1, <1>2 DEF TypeOK, Row, Status, Indexed
<1>4. [job |-> id, attempts |-> jobs[id].attempts + 1, max |-> jobs[id].max] \in Copy
  BY <1>2 DEF Row, Copy
<1>5. held' \in [Worker -> Copy]
  BY <1>1, <1>4 DEF TypeOK
<1> QED BY <1>3, <1>5 DEF TypeOK, Claim

(* Succeed writes the columns of one row.                                  *)
LEMMA SucceedTypeOK ==
  ASSUME TypeOK, NEW w \in Worker, Succeed(w)
  PROVE  TypeOK'
<1>1. held[w].job \in JobId
  BY DEF TypeOK, Copy, Succeed
<1>2. jobs' \in [JobId -> Row]
  BY <1>1 DEF TypeOK, Row, Status, Indexed, Succeed
<1> QED BY <1>2, RecordTypes DEF TypeOK, Succeed

(* Fail writes one row; a retry is due at a time that exists.              *)
LEMMA FailTypeOK ==
  ASSUME TypeOK, NEW w \in Worker, NEW permanent \in BOOLEAN, Fail(w, permanent)
  PROVE  TypeOK'
<1> DEFINE id == held[w].job
           later == now + Backoff(held[w].attempts)
           why == IF permanent THEN "permanent" ELSE "transient"
<1>1. id \in JobId /\ held[w].attempts \in Nat /\ now \in Nat
  BY DEF TypeOK, Copy, Fail, Exhausted
<1>2. later \in Nat
  BY <1>1, BackoffType
<1> HIDE DEF later
<1>3. CASE held[w].attempts >= held[w].max \/ permanent
  <2>1. why \in {"transient", "permanent"}
    OBVIOUS
  <2>2. jobs' = [jobs EXCEPT ![id].status = "dead", ![id].runAfter = now,
                             ![id].lockedBy = NoWorker, ![id].finished = TRUE,
                             ![id].lastError = why]
    BY <1>3 DEF Fail, Exhausted
  <2> HIDE DEF why
  <2>3. jobs' \in [JobId -> Row]
    BY <1>1, <2>1, <2>2 DEF TypeOK, Row, Status, Indexed
  <2> QED BY <2>3, RecordTypes DEF TypeOK, Fail, Exhausted
<1>4. CASE ~(held[w].attempts >= held[w].max \/ permanent)
  <2>1. jobs' = [jobs EXCEPT ![id].status = "failed", ![id].runAfter = later,
                             ![id].lockedBy = NoWorker, ![id].finished = FALSE,
                             ![id].lastError = "transient"]
    BY <1>4 DEF Fail, Exhausted, later
  <2>2. jobs' \in [JobId -> Row]
    BY <1>1, <1>2, <2>1 DEF TypeOK, Row, Status, Indexed
  <2> QED BY <2>2, RecordTypes DEF TypeOK, Fail, Exhausted
<1> QED BY <1>3, <1>4

(* A statement of Enqueue that fails leaves the tables alone.              *)
LEMMA EnqueueFailsTypeOK ==
  ASSUME TypeOK, NEW e \in Enqueuer, EnqueueFails(e)
  PROVE  TypeOK'
BY RecordTypes DEF TypeOK, EnqueueFails

(* Every step keeps the types. *)
LEMMA NextTypeOK == TypeOK /\ [Next]_vars => TypeOK'
<1> SUFFICES ASSUME TypeOK, [Next]_vars PROVE TypeOK'
  OBVIOUS
<1>1. CASE \E e \in Enqueuer : EnqueueStep(e)
  BY <1>1, EnqueueTypeOK, InsertTypeOK, RefindTypeOK, EnqueueFailsTypeOK DEF EnqueueStep
<1>2. CASE \E w \in Worker : Claim(w) \/ Finish(w)
  BY <1>2, ClaimTypeOK, SucceedTypeOK, FailTypeOK DEF Finish
<1>3. CASE \E w \in Worker : LoseResult(w)
  BY <1>3, RecordTypes DEF LoseResult, TypeOK
<1>4. CASE Stop
  BY <1>4, RecordTypes DEF Stop, TypeOK
<1>5. CASE Start
  BY <1>5 DEF Start, TypeOK
<1>6. CASE Tick
  BY <1>6 DEF Tick, TypeOK
<1>7. CASE UNCHANGED vars \/ \E w \in Worker : ClaimNothing(w)
  BY <1>7 DEF vars, TypeOK, ClaimNothing
<1> QED BY <1>1, <1>2, <1>3, <1>4, <1>5, <1>6, <1>7 DEF Next

(* The tables, the clock and every process's local state keep their types. *)
THEOREM TypeCorrect == Spec => []TypeOK
<1>1. Init => TypeOK
  BY InitTypeOK
<1>2. TypeOK /\ [Next]_vars => TypeOK'
  BY NextTypeOK
<1> QED BY <1>1, <1>2, PTL DEF Spec

-----------------------------------------------------------------------------
(***************************************************************************)
(* The inductive invariant.  The three row invariants speak about one row  *)
(* at a time; HeldIsCurrent carries them over Succeed and Fail, which      *)
(* write by id alone; InsertsValid is the max_attempts check of Enqueue;   *)
(* RefindFinds carries EnqueueNeverErrs over Refind.                       *)
(***************************************************************************)
RefindFinds ==
  \A e \in Enqueuer : enq[e].pc = "refind" =>
    \E id \in Rows : jobs[id].key = enq[e].key

InsertsValid == \A e \in Enqueuer : enq[e].pc = "insert" => enq[e].max \in MaxAttempts

UnusedBlank == \A id \in JobId \ Rows : jobs[id] = Absent

RowInv == LockAndFinishAgree /\ AttemptsBounded /\ DeadForCause

IInv == /\ TypeOK
        /\ HeldIsCurrent
        /\ RowInv
        /\ OneLiveRowPerKey
        /\ UnusedBlank
        /\ InsertsValid
        /\ RefindFinds
        /\ EnqueueNeverErrs

(* An empty table satisfies all parts of the invariant.                    *)
LEMMA InitIInv == Init => IInv
<1> SUFFICES ASSUME Init PROVE IInv
  OBVIOUS
<1>1. Rows = {}
  BY DEF Init, Rows, Absent
<1> QED BY <1>1, InitTypeOK DEF Init, IInv, HeldIsCurrent, RowInv, LockAndFinishAgree,
      AttemptsBounded, DeadForCause, OneLiveRowPerKey, RefindFinds, EnqueueNeverErrs,
      InsertsValid, UnusedBlank, Idle, NoCall, Outcome

(* Steps that leave the table alone keep every invariant of its rows. *)
LEMMA SameJobs ==
  ASSUME IInv, UNCHANGED jobs
  PROVE  /\ RowInv'
         /\ OneLiveRowPerKey'
         /\ UnusedBlank'
         /\ Rows' = Rows
<1>1. Rows' = Rows
  BY DEF Rows
<1> QED BY <1>1 DEF IInv, RowInv, LockAndFinishAgree, AttemptsBounded, DeadForCause,
      OneLiveRowPerKey, UnusedBlank

(* The lookup of Enqueue changes no row.                                   *)
LEMMA EnqueueIInv ==
  ASSUME IInv, NEW e \in Enqueuer, NEW k \in Key \cup {NoKey},
         NEW p \in Priority, NEW m \in MaxAttempts, Enqueue(e, k, p, m)
  PROVE  IInv'
<1>1. TypeOK'
  BY EnqueueTypeOK DEF IInv
<1>2. UNCHANGED <<jobs, held>>
  BY DEF Enqueue
<1>3. HeldIsCurrent'
  BY <1>2 DEF IInv, HeldIsCurrent
<1>4. enq'[e].pc \in {"insert", "returned"} /\ \A f \in Enqueuer \ {e} : enq'[f] = enq[f]
  BY DEF Enqueue, Outcome, IInv, TypeOK
<1>5. RefindFinds' /\ EnqueueNeverErrs'
  BY <1>2, <1>4, SameJobs DEF IInv, RefindFinds, EnqueueNeverErrs
<1>6. InsertsValid'
  <2>1. enq'[e].pc = "insert" => enq'[e].max = m
    BY DEF Enqueue, Outcome, IInv, TypeOK
  <2> QED BY <1>4, <2>1 DEF IInv, InsertsValid
<1> QED BY <1>1, <1>2, <1>3, <1>5, <1>6, SameJobs DEF IInv

(* The INSERT adds a row only where the unique index allows it; if it does *)
(* not, the row that was in its way is there to be found.                  *)
LEMMA InsertIInv ==
  ASSUME IInv, NEW e \in Enqueuer, Insert(e)
  PROVE  IInv'
<1> DEFINE call == enq[e]
<1>1. TypeOK'
  BY InsertTypeOK DEF IInv
<1>2. CASE IndexConflict(call.key)
  <2>1. UNCHANGED <<jobs, held>> /\ enq' = [enq EXCEPT ![e].pc = "refind"]
    BY <1>2 DEF Insert
  <2>2. enq'[e].pc = "refind" /\ enq'[e].key = call.key
    BY <2>1 DEF IInv, TypeOK, Call
  <2>3. \E id \in Rows : jobs[id].key = call.key
    BY <1>2 DEF IndexConflict
  <2>4. RefindFinds' /\ EnqueueNeverErrs'
    BY <2>1, <2>2, <2>3, SameJobs DEF IInv, RefindFinds, EnqueueNeverErrs, TypeOK
  <2>5. InsertsValid'
    BY <2>1, <2>2 DEF IInv, InsertsValid, TypeOK
  <2> QED BY <1>1, <2>1, <2>4, <2>5, SameJobs DEF IInv, HeldIsCurrent
<1>3. CASE ~IndexConflict(call.key)
  <2>1. PICK id \in JobId \ Rows :
          /\ jobs' = [jobs EXCEPT ![id] =
               [Absent EXCEPT !.status = "queued", !.key = call.key,
                              !.priority = call.priority, !.max = call.max,
                              !.runAfter = call.runAfter, !.createdAt = now]]
          /\ enq' = [enq EXCEPT ![e] = Outcome("returned", call.key, id)]
    BY <1>3 DEF Insert
  <2>2. /\ jobs'[id].status = "queued" /\ jobs'[id].key = call.key
        /\ jobs'[id].attempts = 0 /\ jobs'[id].max = call.max
        /\ jobs'[id].lockedBy = NoWorker /\ jobs'[id].finished = FALSE
        /\ \A other \in JobId \ {id} : jobs'[other] = jobs[other]
        /\ held' = held
    BY <2>1 DEF IInv, TypeOK, Absent, Insert
  <2>3. Rows' = Rows \cup {id}
    BY <2>1, <2>2 DEF Rows
  <2>4. HeldIsCurrent'
    BY <2>1, <2>2 DEF IInv, HeldIsCurrent, TypeOK, Copy, Rows
  <2>5. call.max >= 1 /\ call.max \in Nat
    BY ParamAssumption DEF Insert, IInv, InsertsValid
  <2>6. RowInv'
    <3>1. LockAndFinishAgree'
      BY <2>2, <2>3 DEF IInv, RowInv, LockAndFinishAgree, Finished, Rows
    <3>2. AttemptsBounded'
      BY <2>2, <2>3, <2>5 DEF IInv, RowInv, AttemptsBounded, Rows
    <3>3. DeadForCause'
      BY <2>2, <2>3 DEF IInv, RowInv, DeadForCause, Rows
    <3> QED BY <3>1, <3>2, <3>3 DEF RowInv
  <2>7. OneLiveRowPerKey'
    BY <1>3, <2>2, <2>3 DEF IInv, OneLiveRowPerKey, IndexConflict, TypeOK, Row, Status, Rows
  <2>8. RefindFinds' /\ EnqueueNeverErrs'
    BY <2>1, <2>2, <2>3 DEF IInv, RefindFinds, EnqueueNeverErrs, TypeOK, Outcome, Rows
  <2>9. InsertsValid'
    BY <2>1 DEF IInv, InsertsValid, TypeOK, Outcome
  <2>10. UnusedBlank'
    BY <2>2, <2>3 DEF IInv, UnusedBlank
  <2> QED BY <1>1, <2>4, <2>6, <2>7, <2>8, <2>9, <2>10 DEF IInv
<1> QED BY <1>2, <1>3

(* The lookup after a lost race finds a row.                               *)
LEMMA RefindIInv ==
  ASSUME IInv, NEW e \in Enqueuer, Refind(e)
  PROVE  IInv'
<1>1. TypeOK'
  BY RefindTypeOK DEF IInv
<1>2. UNCHANGED <<jobs, held>>
  BY DEF Refind
<1>3. Matching(enq[e].key) # {}
  BY DEF Refind, IInv, RefindFinds, Matching
<1>4. enq'[e].pc = "returned" /\ \A f \in Enqueuer \ {e} : enq'[f] = enq[f]
  BY <1>3 DEF Refind, Outcome, IInv, TypeOK
<1>5. RefindFinds' /\ EnqueueNeverErrs' /\ InsertsValid'
  BY <1>2, <1>4, SameJobs DEF IInv, RefindFinds, EnqueueNeverErrs, InsertsValid
<1> QED BY <1>1, <1>2, <1>5, SameJobs DEF IInv, HeldIsCurrent

(* An Enqueue that fails changes no row.                                   *)
LEMMA EnqueueFailsIInv ==
  ASSUME IInv, NEW e \in Enqueuer, EnqueueFails(e)
  PROVE  IInv'
<1>1. TypeOK'
  BY EnqueueFailsTypeOK DEF IInv
<1>2. UNCHANGED jobs /\ HeldIsCurrent'
  BY DEF EnqueueFails, IInv, HeldIsCurrent
<1>3. \A f \in Enqueuer : enq'[f] = IF f = e THEN NoCall ELSE enq[f]
  BY DEF EnqueueFails, IInv, TypeOK
<1>4. RefindFinds' /\ EnqueueNeverErrs' /\ InsertsValid'
  BY <1>2, <1>3, SameJobs DEF IInv, RefindFinds, EnqueueNeverErrs, InsertsValid, NoCall, Outcome
<1> QED BY <1>1, <1>2, <1>4, SameJobs DEF IInv

(* Claim, Succeed and Fail change one row and leave Enqueue's callers alone. *)
LEMMA SameCalls ==
  ASSUME IInv, UNCHANGED enq, NEW id \in Rows,
         \A other \in JobId \ {id} : jobs'[other] = jobs[other],
         jobs'[id].key = jobs[id].key, jobs'[id].status # "absent"
  PROVE  /\ Rows' = Rows
         /\ UnusedBlank'
         /\ RefindFinds' /\ EnqueueNeverErrs' /\ InsertsValid'
<1>1. Rows' = Rows
  BY DEF Rows
<1> QED BY <1>1 DEF IInv, RefindFinds, EnqueueNeverErrs, InsertsValid, UnusedBlank, Rows

(* Claim takes a row that nobody holds and that has an attempt left.        *)
LEMMA ClaimIInv ==
  ASSUME IInv, NEW w \in Worker, Claim(w)
  PROVE  IInv'
<1>1. TypeOK'
  BY ClaimTypeOK DEF IInv
<1>2. PICK id \in Due :
        /\ jobs' = [jobs EXCEPT ![id].status = "running",
                                ![id].attempts = @ + 1,
                                ![id].lockedBy = w]
        /\ held' = [held EXCEPT ![w] = [job |-> id,
                                        attempts |-> jobs[id].attempts + 1,
                                        max |-> jobs[id].max]]
  BY DEF Claim
<1>3. id \in Rows /\ id \in JobId /\ jobs[id] \in Row /\ jobs[id].status \in Claimable
  BY DEF Due, Rows, IInv, TypeOK
<1>4. /\ jobs'[id].status = "running" /\ jobs'[id].lockedBy = w
      /\ jobs'[id].attempts = jobs[id].attempts + 1 /\ jobs'[id].max = jobs[id].max
      /\ jobs'[id].key = jobs[id].key /\ jobs'[id].finished = jobs[id].finished
      /\ \A other \in JobId \ {id} : jobs'[other] = jobs[other]
  BY <1>2, <1>3 DEF IInv, TypeOK, Row
<1>5. \A v \in Worker : held[v].job # id
  BY <1>3, JobAssumption DEF IInv, HeldIsCurrent, Claimable
<1>6. HeldIsCurrent'
  <2>1. held'[w] = [job |-> id, attempts |-> jobs[id].attempts + 1, max |-> jobs[id].max]
    BY <1>2 DEF IInv, TypeOK
  <2>2. \A v \in Worker \ {w} : held'[v] = held[v]
    BY <1>2 DEF IInv, TypeOK
  <2> QED BY <1>4, <1>5, <2>1, <2>2 DEF IInv, HeldIsCurrent, TypeOK, Copy
<1>7. Rows' = Rows /\ UnusedBlank' /\ RefindFinds' /\ EnqueueNeverErrs' /\ InsertsValid'
  BY <1>3, <1>4, SameCalls DEF Claim
<1>8. RowInv'
  BY <1>3, <1>4, <1>7, WorkerAssumption DEF IInv, RowInv, LockAndFinishAgree,
     AttemptsBounded, DeadForCause, Claimable, Finished, Rows, Row
<1>9. OneLiveRowPerKey'
  BY <1>3, <1>4, <1>7 DEF IInv, OneLiveRowPerKey, Claimable, Rows
<1> QED BY <1>1, <1>6, <1>7, <1>8, <1>9 DEF IInv

(* The holder of a job finds its own claim, and lets it go. *)
LEMMA HolderLetsGo ==
  ASSUME IInv, NEW w \in Worker, held[w].job # NoJob,
         held' = [held EXCEPT ![w] = Idle],
         \A other \in JobId \ {held[w].job} : jobs'[other] = jobs[other]
  PROVE  /\ held[w].job \in Rows
         /\ jobs[held[w].job].status = "running"
         /\ HeldIsCurrent'
<1>1. held[w].job \in JobId
  BY DEF IInv, TypeOK, Copy
<1>2. jobs[held[w].job].status = "running" /\ jobs[held[w].job].lockedBy = w
  BY DEF IInv, HeldIsCurrent
<1>3. held'[w].job = NoJob /\ \A v \in Worker \ {w} : held'[v] = held[v]
  BY DEF IInv, TypeOK, Idle
<1>4. \A v \in Worker \ {w} : held[v].job # held[w].job
  BY <1>2 DEF IInv, HeldIsCurrent
<1>5. HeldIsCurrent'
  BY <1>3, <1>4 DEF IInv, HeldIsCurrent, TypeOK, Copy
<1> QED BY <1>1, <1>2, <1>5 DEF Rows

(* Succeed finishes the row its worker holds.                              *)
LEMMA SucceedIInv ==
  ASSUME IInv, NEW w \in Worker, Succeed(w)
  PROVE  IInv'
<1> DEFINE id == held[w].job
<1>1. TypeOK'
  BY SucceedTypeOK DEF IInv
<1>2. id \in JobId
  BY DEF IInv, TypeOK, Copy, Succeed
<1>3. /\ jobs'[id].status = "succeeded" /\ jobs'[id].lockedBy = NoWorker
      /\ jobs'[id].finished = TRUE
      /\ jobs'[id].attempts = jobs[id].attempts /\ jobs'[id].max = jobs[id].max
      /\ jobs'[id].key = jobs[id].key
      /\ \A other \in JobId \ {id} : jobs'[other] = jobs[other]
  BY <1>2 DEF Succeed, IInv, TypeOK, Row
<1>4. id \in Rows /\ jobs[id].status = "running" /\ HeldIsCurrent'
  BY <1>3, HolderLetsGo DEF Succeed
<1>5. Rows' = Rows /\ UnusedBlank' /\ RefindFinds' /\ EnqueueNeverErrs' /\ InsertsValid'
  BY <1>3, <1>4, SameCalls DEF Succeed
<1>6. RowInv'
  BY <1>2, <1>3, <1>4, <1>5 DEF IInv, RowInv, LockAndFinishAgree, AttemptsBounded,
     DeadForCause, Claimable, Finished, Rows
<1>7. OneLiveRowPerKey'
  BY <1>3, <1>4, <1>5 DEF IInv, OneLiveRowPerKey, Rows
<1> QED BY <1>1, <1>4, <1>5, <1>6, <1>7 DEF IInv

(* Fail buries the row its worker holds or leaves it an attempt.           *)
LEMMA FailIInv ==
  ASSUME IInv, NEW w \in Worker, NEW permanent \in BOOLEAN, Fail(w, permanent)
  PROVE  IInv'
<1> DEFINE id == held[w].job
           exhausted == held[w].attempts >= held[w].max
           why == IF permanent THEN "permanent" ELSE "transient"
<1>1. TypeOK'
  BY FailTypeOK DEF IInv
<1>2. id \in JobId /\ id # NoJob
  BY DEF IInv, TypeOK, Copy, Fail, Exhausted
<1>3. \A other \in JobId \ {id} : jobs'[other] = jobs[other]
  BY <1>2 DEF Fail, Exhausted, IInv, TypeOK
<1>4. /\ jobs'[id].attempts = jobs[id].attempts /\ jobs'[id].max = jobs[id].max
      /\ jobs'[id].key = jobs[id].key /\ jobs'[id].lockedBy = NoWorker
  BY <1>2 DEF Fail, Exhausted, IInv, TypeOK, Row
<1>5. \/ /\ exhausted \/ permanent
         /\ jobs'[id].status = "dead" /\ jobs'[id].finished = TRUE
         /\ jobs'[id].lastError = why
      \/ /\ ~exhausted /\ ~permanent
         /\ jobs'[id].status = "failed" /\ jobs'[id].finished = FALSE
  BY <1>2 DEF Fail, Exhausted, IInv, TypeOK, Row
<1>6. /\ id \in Rows /\ jobs[id].status = "running" /\ HeldIsCurrent'
  BY <1>2, <1>3, HolderLetsGo DEF Fail, Exhausted
<1>7. /\ held[w].attempts = jobs[id].attempts /\ held[w].max = jobs[id].max
      /\ jobs[id].attempts \in Nat /\ jobs[id].max \in Nat
      /\ jobs[id].attempts <= jobs[id].max
  BY <1>2, <1>6 DEF IInv, HeldIsCurrent, RowInv, AttemptsBounded, TypeOK, Row
<1>8. Rows' = Rows /\ UnusedBlank' /\ RefindFinds' /\ EnqueueNeverErrs' /\ InsertsValid'
  BY <1>3, <1>4, <1>5, <1>6, SameCalls DEF Fail, Exhausted
<1>9. RowInv'
  <2>1. LockAndFinishAgree'
    BY <1>3, <1>4, <1>5, <1>8 DEF IInv, RowInv, LockAndFinishAgree, Finished, Rows
  <2>2. AttemptsBounded'
    BY <1>3, <1>4, <1>5, <1>7, <1>8 DEF IInv, RowInv, AttemptsBounded, Claimable, Rows
  <2>3. DeadForCause'
    <3>1. exhausted => jobs[id].attempts = jobs[id].max
      BY <1>7
    <3>2. jobs'[id].status = "dead" =>
            jobs'[id].lastError = "permanent" \/ jobs'[id].attempts = jobs'[id].max
      BY <1>4, <1>5, <3>1
    <3> QED BY <1>3, <1>8, <3>2 DEF IInv, RowInv, DeadForCause, Rows
  <2> QED BY <2>1, <2>2, <2>3 DEF RowInv
<1>10. OneLiveRowPerKey'
  BY <1>3, <1>4, <1>6, <1>8 DEF IInv, OneLiveRowPerKey, Rows
<1> QED BY <1>1, <1>6, <1>8, <1>9, <1>10 DEF IInv

(* A lost result leaves a row that is running for ever.                    *)
LEMMA LoseResultIInv ==
  ASSUME IInv, NEW w \in Worker, LoseResult(w)
  PROVE  IInv'
<1>1. TypeOK'
  BY RecordTypes DEF LoseResult, IInv, TypeOK
<1>2. HeldIsCurrent'
  BY DEF LoseResult, IInv, HeldIsCurrent, TypeOK, Idle
<1>3. RefindFinds' /\ EnqueueNeverErrs' /\ InsertsValid'
  BY SameJobs DEF LoseResult, IInv, RefindFinds, EnqueueNeverErrs, InsertsValid
<1> QED BY <1>1, <1>2, <1>3, SameJobs DEF LoseResult, IInv

(* So does a stop.                                                         *)
LEMMA StopIInv == IInv /\ Stop => IInv'
<1> SUFFICES ASSUME IInv, Stop PROVE IInv'
  OBVIOUS
<1>1. TypeOK'
  BY RecordTypes DEF Stop, IInv, TypeOK
<1>2. HeldIsCurrent'
  BY DEF Stop, HeldIsCurrent, Idle
<1>3. RefindFinds' /\ EnqueueNeverErrs' /\ InsertsValid'
  BY DEF Stop, RefindFinds, EnqueueNeverErrs, InsertsValid, NoCall, Outcome
<1> QED BY <1>1, <1>2, <1>3, SameJobs DEF Stop, IInv

(* Every step keeps the inductive invariant. *)
LEMMA NextIInv == IInv /\ [Next]_vars => IInv'
<1> SUFFICES ASSUME IInv, [Next]_vars PROVE IInv'
  OBVIOUS
<1>1. CASE \E e \in Enqueuer : EnqueueStep(e)
  BY <1>1, EnqueueIInv, InsertIInv, RefindIInv, EnqueueFailsIInv DEF EnqueueStep
<1>2. CASE \E w \in Worker : Claim(w) \/ Finish(w)
  BY <1>2, ClaimIInv, SucceedIInv, FailIInv DEF Finish
<1>3. CASE \E w \in Worker : LoseResult(w)
  BY <1>3, LoseResultIInv
<1>4. CASE Stop
  BY <1>4, StopIInv
<1>5. CASE UNCHANGED <<jobs, enq, held>>
  <2>1. TypeOK'
    BY NextTypeOK DEF IInv
  <2> QED BY <1>5, <2>1, SameJobs DEF IInv, HeldIsCurrent, RefindFinds,
        EnqueueNeverErrs, InsertsValid
<1> QED BY <1>1, <1>2, <1>3, <1>4, <1>5 DEF Next, Start, Tick, ClaimNothing, vars

(* The inductive invariant holds in every behaviour.                       *)
LEMMA Inductive == Spec => []IInv
<1>1. Init => IInv
  BY InitIInv
<1>2. IInv /\ [Next]_vars => IInv'
  BY NextIInv
<1> QED BY <1>1, <1>2, PTL DEF Spec

-----------------------------------------------------------------------------
(***************************************************************************)
(* What Succeed and Fail write by id alone (jobs/store.go) always hits the *)
(* worker's own claim, and no job is ever in two workers' hands.           *)
(***************************************************************************)
THEOREM ClaimsAreExclusive == Spec => [](HeldIsCurrent /\ OneHolder)
<1>1. IInv => HeldIsCurrent /\ OneHolder
  BY DEF IInv, HeldIsCurrent, OneHolder
<1> QED BY <1>1, Inductive, PTL

(* Locks, finish marks, attempt counts and burials agree in every row.     *)
THEOREM RowsConsistent == Spec => [](LockAndFinishAgree /\ AttemptsBounded /\ DeadForCause)
<1>1. IInv => LockAndFinishAgree /\ AttemptsBounded /\ DeadForCause
  BY DEF IInv, RowInv
<1> QED BY <1>1, Inductive, PTL

(* Only a permanent error or the last attempt kills a job. *)
COROLLARY DeathsHaveCause == Spec => []DeadForCause
BY RowsConsistent, PTL

(***************************************************************************)
(* Concurrent scans and workers never leave two live rows of one dedupe    *)
(* key, and a scan that loses the INSERT race finds the winner's row.      *)
(***************************************************************************)
THEOREM DedupeHolds == Spec => [](OneLiveRowPerKey /\ EnqueueNeverErrs)
<1>1. IInv => OneLiveRowPerKey /\ EnqueueNeverErrs
  BY DEF IInv
<1> QED BY <1>1, Inductive, PTL

(* The scan that loses the race of two finds the row of the other. *)
COROLLARY LosersFindTheRow == Spec => []EnqueueNeverErrs
BY DedupeHolds, PTL

-----------------------------------------------------------------------------
(* What a step may never do *)

(* Only the row a step works on changes, and that row was not finished.    *)
LEMMA FinishedStep ==
  IInv /\ [Next]_vars =>
    \A id \in JobId : jobs[id].status \in Finished => jobs'[id] = jobs[id]
<1> SUFFICES ASSUME IInv, [Next]_vars, NEW id \in JobId, jobs[id].status \in Finished
             PROVE  jobs'[id] = jobs[id]
  OBVIOUS
<1>1. ASSUME NEW e \in Enqueuer, Insert(e) PROVE jobs'[id] = jobs[id]
  BY <1>1 DEF Insert, IInv, TypeOK, Rows, Finished
<1>2. ASSUME NEW w \in Worker, Claim(w) PROVE jobs'[id] = jobs[id]
  BY <1>2 DEF Claim, IInv, TypeOK, Due, Claimable, Finished
<1>3. ASSUME NEW w \in Worker, Finish(w) PROVE jobs'[id] = jobs[id]
  <2>1. held[w].job # NoJob
    BY <1>3 DEF Finish, Succeed, Fail, Exhausted
  <2>2. jobs[held[w].job].status = "running"
    BY <2>1 DEF IInv, HeldIsCurrent
  <2>3. id # held[w].job
    BY <2>2 DEF Finished
  <2>4. CASE Succeed(w)
    BY <2>3, <2>4 DEF Succeed, IInv, TypeOK
  <2>5. CASE \E permanent \in BOOLEAN : Fail(w, permanent)
    BY <2>3, <2>5 DEF Fail, Exhausted, IInv, TypeOK
  <2> QED BY <1>3, <2>4, <2>5 DEF Finish
<1>4. CASE UNCHANGED jobs
  BY <1>4
<1> QED BY <1>1, <1>2, <1>3, <1>4 DEF Next, EnqueueStep, Enqueue, Refind, EnqueueFails, ClaimNothing,
      LoseResult, Stop, Start, Tick, vars

(* A succeeded or dead job is never run or written again (jobs/store.go:   *)
(* Claim's status list, Succeed and Fail by id).                           *)
THEOREM FinishedIsFinal == Spec => FinishedForGood
<1>1. IInv /\ [Next]_vars =>
        [\A id \in JobId : jobs[id].status \in Finished => jobs'[id] = jobs[id]]_vars
  BY FinishedStep
<1> QED BY <1>1, Inductive, PTL DEF Spec, FinishedForGood

(* The seconds of an earlier text are no later.                            *)
LEMMA SecondsApart ==
  ASSUME NEW F \in Nat \ {0}, NEW s \in Nat, NEW t \in Nat, s \div F <= t \div F
  PROVE  s < t + F
<1>1. PICK a, b, c, d : a = s \div F /\ b = t \div F /\ c = s % F /\ d = t % F OBVIOUS
<1>2. /\ a \in Nat /\ b \in Nat /\ c \in 0..F - 1 /\ d \in 0..F - 1
      /\ s = F * a + c /\ t = F * b + d
  BY <1>1
<1>3. a <= b BY <1>1
<1>4. F * a <= F * b BY <1>2, <1>3
<1> QED BY <1>2, <1>4

(* The text order of formatTime can only be wrong inside one second.       *)
LEMMA TextOrderError ==
  ASSUME NEW s \in Nat, NEW t \in Nat, TextLeq(s, t)
  PROVE  s < t + TicksPerSecond
<1>1. TicksPerSecond \in Nat \ {0} BY TimeAssumption
<1>2. s \div TicksPerSecond \in Nat /\ t \div TicksPerSecond \in Nat BY <1>1
<1>3. s \div TicksPerSecond <= t \div TicksPerSecond BY <1>2 DEF TextLeq
<1> QED BY <1>1, <1>3, SecondsApart

(* A step that claims a row finds it due by the text of its time, so that  *)
(* it is less than a second early.                                         *)
LEMMA EarlyStep ==
  TypeOK /\ [Next]_vars =>
    \A id \in JobId : jobs[id].status \in Claimable /\ jobs'[id].status = "running"
                         => jobs[id].runAfter < now + TicksPerSecond
<1> SUFFICES ASSUME TypeOK, [Next]_vars, NEW id \in JobId,
                    jobs[id].status \in Claimable, jobs'[id].status = "running"
             PROVE  jobs[id].runAfter < now + TicksPerSecond
  OBVIOUS
<1>1. \E w \in Worker : Claim(w)
  <2>1. ASSUME NEW e \in Enqueuer, Insert(e) PROVE FALSE
    BY <2>1 DEF Insert, TypeOK, Claimable, Absent
  <2>2. ASSUME NEW w \in Worker, Finish(w) PROVE FALSE
    <3>1. held[w].job \in JobId
      BY <2>2 DEF Finish, Succeed, Fail, Exhausted, TypeOK, Copy
    <3>2. jobs'[held[w].job].status # "running"
      <4>1. CASE Succeed(w)
        BY <3>1, <4>1 DEF Succeed, TypeOK, Row
      <4>2. ASSUME NEW permanent \in BOOLEAN, Fail(w, permanent)
            PROVE  jobs'[held[w].job].status \in {"dead", "failed"}
        BY <3>1, <4>2 DEF Fail, Exhausted, TypeOK, Row
      <4> QED BY <2>2, <4>1, <4>2 DEF Finish
    <3>3. \A other \in JobId \ {held[w].job} : jobs'[other] = jobs[other]
      BY <2>2, <3>1 DEF Finish, Succeed, Fail, Exhausted, TypeOK
    <3> QED BY <3>2, <3>3 DEF Claimable
  <2>3. ~UNCHANGED jobs
    BY DEF Claimable
  <2> QED BY <2>1, <2>2, <2>3 DEF Next, EnqueueStep, Enqueue, Refind, EnqueueFails, ClaimNothing,
        LoseResult, Stop, Start, Tick, vars
<1>2. id \in Due
  BY <1>1 DEF Claim, TypeOK, Claimable, Due, Rows
<1> QED BY <1>2, TextOrderError DEF Due, TypeOK, Row

(* A retry may start early, its time being compared as text, but never by  *)
(* a whole second (jobs/store.go: formatTime, Claim).                      *)
THEOREM EarlyByLessThanASecond == Spec => NeverASecondEarly
<1>1. TypeOK /\ [Next]_vars =>
        [\A id \in JobId : ClaimedNow(id) => jobs[id].runAfter < now + TicksPerSecond]_vars
  BY EarlyStep DEF ClaimedNow
<1> QED BY <1>1, TypeCorrect, PTL DEF Spec, NeverASecondEarly

-----------------------------------------------------------------------------
(* The queue implements its ledger *)

(* An empty job table is an empty ledger. *)
LEMMA LedgerInit == Init => Ledger!Init
BY JobAssumption DEF Init, Ledger!Init, StageOf, Absent, Idle, Claimable

(* The INSERT of Enqueue adds an entry to the ledger, or adds nothing. *)
LEMMA LedgerAdd ==
  ASSUME IInv, NEW e \in Enqueuer, Insert(e)
  PROVE  [Ledger!Next]_(Ledger!vars)
<1>0. PICK n \in MaxAttempts : n = enq[e].max
  BY DEF IInv, InsertsValid, Insert
<1>1. CASE UNCHANGED jobs
  BY <1>1 DEF Insert, Ledger!vars
<1>2. ASSUME NEW id \in JobId \ Rows,
             jobs' = [jobs EXCEPT ![id] =
               [Absent EXCEPT !.status = "queued", !.key = enq[e].key,
                              !.priority = enq[e].priority, !.max = enq[e].max,
                              !.runAfter = enq[e].runAfter, !.createdAt = now]]
      PROVE  Ledger!Add(id, n)
  <2>1. jobs[id] = Absent
    BY DEF IInv, UnusedBlank
  <2>2. /\ jobs'[id].status = "queued" /\ jobs'[id].attempts = 0
        /\ jobs'[id].max = n
        /\ \A other \in JobId \ {id} : jobs'[other] = jobs[other]
        /\ held' = held
    BY <1>0, <1>2 DEF IInv, TypeOK, Absent, Insert
  <2>3. StageOf(jobs[id].status) = "none" /\ StageOf(jobs'[id].status) = "waiting"
    BY <2>1, <2>2 DEF StageOf, Absent, Claimable
  <2>4. jobs[id].attempts = 0
    BY <2>1 DEF Absent
  <2>5. [i \in JobId |-> StageOf(jobs[i].status)]' =
          [[i \in JobId |-> StageOf(jobs[i].status)] EXCEPT ![id] = "waiting"]
    BY <2>2, <2>3
  <2>6. [i \in JobId |-> jobs[i].max]' =
          [[i \in JobId |-> jobs[i].max] EXCEPT ![id] = n]
    BY <2>2
  <2>7. [i \in JobId |-> jobs[i].attempts]' = [i \in JobId |-> jobs[i].attempts]
    BY <2>2, <2>4
  <2>8. [i \in JobId |-> {w \in Worker : held[w].job = i}]' =
          [i \in JobId |-> {w \in Worker : held[w].job = i}]
    BY <2>2
  <2> QED BY <2>3, <2>5, <2>6, <2>7, <2>8 DEF Ledger!Add
<1>3. CASE ~UNCHANGED jobs
  <2>1. PICK id \in JobId \ Rows :
          jobs' = [jobs EXCEPT ![id] =
            [Absent EXCEPT !.status = "queued", !.key = enq[e].key,
                           !.priority = enq[e].priority, !.max = enq[e].max,
                           !.runAfter = enq[e].runAfter, !.createdAt = now]]
    BY <1>3 DEF Insert
  <2>2. Ledger!Add(id, n)
    BY <1>2, <2>1
  <2> QED BY <2>1, <2>2 DEF Ledger!Next
<1> QED BY <1>1, <1>3

(* Claim lends one entry: nobody has it, it has a try left, and the worker *)
(* that gets it has no other.                                              *)
LEMMA LedgerLend ==
  ASSUME IInv, NEW w \in Worker, Claim(w)
  PROVE  \E id \in JobId : Ledger!Lend(id, w)
<1>1. PICK id \in Due :
        /\ jobs' = [jobs EXCEPT ![id].status = "running",
                                ![id].attempts = @ + 1,
                                ![id].lockedBy = w]
        /\ held' = [held EXCEPT ![w] = [job |-> id,
                                        attempts |-> jobs[id].attempts + 1,
                                        max |-> jobs[id].max]]
  BY DEF Claim
<1>2. id \in Rows /\ id \in JobId /\ jobs[id] \in Row /\ jobs[id].status \in Claimable
  BY <1>1 DEF Due, Rows, IInv, TypeOK
<1>3. /\ jobs'[id].status = "running"
      /\ jobs'[id].attempts = jobs[id].attempts + 1 /\ jobs'[id].max = jobs[id].max
      /\ \A other \in JobId \ {id} : jobs'[other] = jobs[other]
  BY <1>1, <1>2 DEF IInv, TypeOK, Row
<1>4. \A v \in Worker : held[v].job # id
  BY <1>2, JobAssumption DEF IInv, HeldIsCurrent, Claimable
<1>5. held[w].job = NoJob
  BY DEF Claim
<1>6. /\ held'[w].job = id
      /\ \A v \in Worker \ {w} : held'[v] = held[v]
  BY <1>1 DEF IInv, TypeOK
<1>7. jobs[id].attempts < jobs[id].max
  BY <1>2 DEF IInv, RowInv, AttemptsBounded
<1>8. {v \in Worker : held'[v].job = id} = {w}
  BY <1>4, <1>6
<1>9. \A other \in JobId \ {id} :
        {v \in Worker : held'[v].job = other} = {v \in Worker : held[v].job = other}
  BY <1>5, <1>6, JobAssumption
<1>10. {v \in Worker : held[v].job = id} = {}
  BY <1>4
<1>11. \A other \in JobId : w \notin {v \in Worker : held[v].job = other}
  BY <1>5, JobAssumption
<1>12. StageOf(jobs[id].status) = "waiting" /\ StageOf(jobs'[id].status) = "lent"
  BY <1>2, <1>3 DEF StageOf, Claimable
<1>13. Ledger!Lend(id, w)
  <2>1. [i \in JobId |-> StageOf(jobs[i].status)]' =
          [[i \in JobId |-> StageOf(jobs[i].status)] EXCEPT ![id] = "lent"]
    BY <1>3, <1>12
  <2>2. [i \in JobId |-> {v \in Worker : held[v].job = i}]' =
          [[i \in JobId |-> {v \in Worker : held[v].job = i}] EXCEPT ![id] = {w}]
    BY <1>8, <1>9
  <2>3. [i \in JobId |-> jobs[i].attempts]' =
          [[i \in JobId |-> jobs[i].attempts] EXCEPT ![id] = @ + 1]
    BY <1>2, <1>3
  <2>4. [i \in JobId |-> jobs[i].max]' = [i \in JobId |-> jobs[i].max]
    BY <1>3
  <2> QED BY <1>2, <1>7, <1>10, <1>11, <1>12, <2>1, <2>2, <2>3, <2>4 DEF Ledger!Lend
<1> QED BY <1>2, <1>13

(* Succeed and Fail give the entry back that the worker holds, for another *)
(* try only when one is left.                                              *)
LEMMA LedgerGiveBack ==
  ASSUME IInv, NEW w \in Worker, Finish(w)
  PROVE  \E id \in JobId, end \in {"waiting", "succeeded", "dead"} :
           Ledger!GiveBack(id, w, end)
<1>1. PICK id \in JobId : id = held[w].job /\ id # NoJob
  BY DEF Finish, Succeed, Fail, Exhausted, IInv, TypeOK, Copy
<1>2. /\ jobs[id].status = "running"
      /\ held[w].attempts = jobs[id].attempts /\ held[w].max = jobs[id].max
  BY <1>1 DEF IInv, HeldIsCurrent
<1>3. \A v \in Worker \ {w} : held[v].job # id
  BY <1>1 DEF IInv, HeldIsCurrent
<1>4. held'[w].job = NoJob /\ \A v \in Worker \ {w} : held'[v] = held[v]
  <2>1. held' = [held EXCEPT ![w] = Idle]
    BY DEF Finish, Succeed, Fail, Exhausted
  <2> QED BY <2>1 DEF IInv, TypeOK, Idle
<1>5. /\ \A other \in JobId \ {id} : jobs'[other] = jobs[other]
      /\ jobs'[id].attempts = jobs[id].attempts /\ jobs'[id].max = jobs[id].max
      /\ jobs'[id].status \in {"failed", "succeeded", "dead"}
      /\ jobs'[id].status = "failed" => held[w].attempts < held[w].max
  <2>1. held[w].attempts \in Nat /\ held[w].max \in Nat
    BY DEF IInv, TypeOK, Copy
  <2>2. CASE Succeed(w)
    BY <1>1, <2>2 DEF Succeed, IInv, TypeOK, Row
  <2>3. ASSUME NEW permanent \in BOOLEAN, Fail(w, permanent)
        PROVE  <1>5!1 /\ <1>5!2 /\ <1>5!3 /\ <1>5!4
    BY <1>1, <2>1, <2>3 DEF Fail, Exhausted, IInv, TypeOK, Row
  <2> QED BY <2>2, <2>3 DEF Finish
<1>6. PICK end \in {"waiting", "succeeded", "dead"} : end = StageOf(jobs'[id].status)
  BY <1>5 DEF StageOf, Claimable
<1>7. {v \in Worker : held[v].job = id} = {w} /\ {v \in Worker : held'[v].job = id} = {}
  BY <1>1, <1>3, <1>4
<1>8. \A other \in JobId \ {id} :
        {v \in Worker : held'[v].job = other} = {v \in Worker : held[v].job = other}
  BY <1>1, <1>3, <1>4, JobAssumption
<1>9. end = "waiting" => jobs[id].attempts < jobs[id].max
  BY <1>2, <1>5, <1>6 DEF StageOf, Claimable
<1>10. StageOf(jobs[id].status) = "lent"
  BY <1>2 DEF StageOf, Claimable
<1>11. \A other \in JobId \ {id} : StageOf(jobs'[other].status) = StageOf(jobs[other].status)
  BY <1>5
<1>12. Ledger!GiveBack(id, w, end)
  <2>1. [i \in JobId |-> StageOf(jobs[i].status)]' =
          [[i \in JobId |-> StageOf(jobs[i].status)] EXCEPT ![id] = end]
    BY <1>6, <1>11
  <2>2. [i \in JobId |-> {v \in Worker : held[v].job = i}]' =
          [[i \in JobId |-> {v \in Worker : held[v].job = i}] EXCEPT ![id] = {}]
    <3>1. {v \in Worker : held'[v].job = id} = {}
      BY <1>7
    <3> QED BY <3>1, <1>8
  <2>3. [i \in JobId |-> jobs[i].attempts]' = [i \in JobId |-> jobs[i].attempts]
    BY <1>5
  <2>4. [i \in JobId |-> jobs[i].max]' = [i \in JobId |-> jobs[i].max]
    BY <1>5
  <2> QED BY <1>7, <1>9, <1>10, <2>1, <2>2, <2>3, <2>4 DEF Ledger!GiveBack
<1> QED BY <1>12

(* Every step of the queue is one of the ledger, or leaves it as it is. *)
LEMMA LedgerStep == IInv /\ [Next]_vars => [Ledger!Next]_(Ledger!vars)
<1> SUFFICES ASSUME IInv, [Next]_vars PROVE [Ledger!Next]_(Ledger!vars)
  OBVIOUS
<1>1. ASSUME NEW e \in Enqueuer, Insert(e) PROVE [Ledger!Next]_(Ledger!vars)
  BY <1>1, LedgerAdd
<1>2. ASSUME NEW w \in Worker, Claim(w) PROVE Ledger!Next
  BY <1>2, LedgerLend DEF Ledger!Next
<1>3. ASSUME NEW w \in Worker, Finish(w) PROVE Ledger!Next
  BY <1>3, LedgerGiveBack DEF Ledger!Next
<1>4. ASSUME NEW w \in Worker, LoseResult(w) PROVE Ledger!Next
  <2>1. \A id \in JobId : {v \in Worker : held'[v].job = id} =
                          {v \in Worker : held[v].job = id} \ {w}
    BY <1>4, JobAssumption DEF LoseResult, IInv, TypeOK, Idle
  <2>2. UNCHANGED jobs
    BY <1>4 DEF LoseResult
  <2>3. Ledger!Vanish({w})
    BY <2>1, <2>2 DEF Ledger!Vanish
  <2>4. {w} \in SUBSET Worker
    OBVIOUS
  <2> QED BY <2>3, <2>4 DEF Ledger!Next
<1>5. ASSUME Stop PROVE Ledger!Next
  <2>1. \A id \in JobId : {v \in Worker : held'[v].job = id} =
                          {v \in Worker : held[v].job = id} \ Worker
    BY <1>5, JobAssumption DEF Stop, Idle
  <2>2. UNCHANGED jobs
    BY <1>5 DEF Stop
  <2>3. Ledger!Vanish(Worker)
    BY <2>1, <2>2 DEF Ledger!Vanish
  <2> QED BY <2>3 DEF Ledger!Next
<1>6. CASE UNCHANGED <<jobs, held>>
  BY <1>6 DEF Ledger!vars
<1> QED BY <1>1, <1>2, <1>3, <1>4, <1>5, <1>6 DEF Next, EnqueueStep, Enqueue, Refind, EnqueueFails,
      ClaimNothing, Start, Tick, vars

(***************************************************************************)
(* jobs/store.go and the worker loop implement the ledger: every job is    *)
(* lent to one worker at a time, at most max_attempts times, and never     *)
(* after it was closed.                                                    *)
(***************************************************************************)
THEOREM QueueImplementsLedger == Spec => ImplementsLedger
<1>1. Init => Ledger!Init
  BY LedgerInit
<1>2. IInv /\ [Next]_vars => [Ledger!Next]_(Ledger!vars)
  BY LedgerStep
<1> QED BY <1>1, <1>2, Inductive, PTL DEF Spec, ImplementsLedger, Ledger!Spec

=============================================================================
