------------------------------ MODULE JobStore ------------------------------
(***************************************************************************)
(* The ingest queue of internal/jobs/store.go: the ingest_job table, the   *)
(* scans that enqueue into it and the workers of internal/ingest/service.go*)
(* that claim, handle and finish its jobs.  Every SQL statement is one     *)
(* atomic step (SQLite serialises writers); between two statements of one  *)
(* call any other process may run.                                         *)
(*                                                                         *)
(* The only kind of job the program has is "ingest_file", so the pair      *)
(* (kind, dedupe_key) of the code is the Key of the model.                 *)
(***************************************************************************)
EXTENDS Integers, FiniteSets

CONSTANTS
  JobId,           \* identifiers newID may draw (bounds the rows of a run)
  NoJob,           \* "no row"
  Key,             \* dedupe keys
  NoKey,           \* the empty dedupe key: the column is NULL
  Worker,          \* worker goroutines
  NoWorker,        \* locked_by IS NULL
  Enqueuer,        \* concurrent callers of Enqueue (scan loop, POST /ingest/scan)
  Priority,        \* priorities a caller passes
  MaxAttempts,     \* max_attempts values a caller passes
  BackoffBase,     \* first retry delay, in ticks (5s in the code)
  BackoffCap,      \* largest retry delay, in ticks (5min in the code)
  TicksPerSecond,  \* clock ticks in a second
  TextPlace,       \* of each fraction of a second, in ticks: the place of its text
                   \* among the texts of all fractions
  MaxTime,         \* bound: the clock needs a waiting job to go beyond it
  Faults           \* subset of {"lose", "stop"} the environment may inflict

ASSUME JobAssumption == NoJob \notin JobId
ASSUME WorkerAssumption == NoWorker \notin Worker
ASSUME ParamAssumption == /\ Priority \subseteq Int
                          /\ MaxAttempts \subseteq Nat \ {0}
ASSUME TimeAssumption == /\ TicksPerSecond \in Nat \ {0}
                         /\ BackoffBase \in Nat \ {0}
                         /\ BackoffCap \in Nat \ {0}
                         /\ BackoffBase <= BackoffCap
                         /\ TextPlace \in [0..TicksPerSecond - 1 -> Nat]
                         /\ MaxTime \in Nat
ASSUME FaultAssumption == Faults \subseteq {"lose", "stop"}

VARIABLES
  jobs,   \* the ingest_job table
  now,    \* the wall clock, in ticks
  enq,    \* each caller's position inside Enqueue
  held,   \* the Job value each worker got back from Claim
  up      \* is the process running?

vars == <<jobs, now, enq, held, up>>

-----------------------------------------------------------------------------
(* Values *)

\* Mutants of Claimable: Claim's status list.
ClaimableRunning == {"queued", "failed", "running"}
ClaimableQueued == {"queued"}
Claimable == {"queued", "failed"}
Indexed   == {"queued", "running", "failed", "succeeded"}
Finished  == {"succeeded", "dead"}
Status    == Indexed \cup {"dead"}

Row == [status : Status \cup {"absent"}, key : Key \cup {NoKey},
        priority : Int, attempts : Nat, max : Nat,
        runAfter : Nat, createdAt : Nat,
        lockedBy : Worker \cup {NoWorker},
        finished : BOOLEAN,
        lastError : {"none", "transient", "permanent"}]

Absent == [status |-> "absent", key |-> NoKey, priority |-> 0, attempts |-> 0,
           max |-> 0, runAfter |-> 0, createdAt |-> 0, lockedBy |-> NoWorker,
           finished |-> FALSE, lastError |-> "none"]

Copy == [job : JobId \cup {NoJob}, attempts : Nat, max : Nat]

Idle == [job |-> NoJob, attempts |-> 0, max |-> 0]

Call == [pc : {"idle", "insert", "refind", "returned", "error"},
         key : Key \cup {NoKey}, priority : Int, max : Nat, runAfter : Nat,
         job : JobId \cup {NoJob}]

Outcome(pc, k, id) == [pc |-> pc, key |-> k, priority |-> 0, max |-> 0,
                       runAfter |-> 0, job |-> id]

NoCall == Outcome("idle", NoKey, NoJob)

(***************************************************************************)
(* Columns hold times as RFC3339Nano text, and SQL compares the text: the  *)
(* seconds have a fixed width, but a fraction drops its trailing zeros and *)
(* is followed by the letter Z, so "...:05Z" sorts after "...:05.3Z" and   *)
(* "...:05.1Z" after "...:05.12Z".                                         *)
(***************************************************************************)
TextLeq(s, t) ==
  \/ s \div TicksPerSecond < t \div TicksPerSecond
  \/ /\ s \div TicksPerSecond = t \div TicksPerSecond
     /\ TextPlace[s % TicksPerSecond] <= TextPlace[t % TicksPerSecond]

(* Retry delay after the n-th attempt: doubles from the base up to the cap. *)
Backoff(n) ==
  LET doubled == BackoffBase * 2^(n - 1)
  IN  IF n <= 1 THEN BackoffBase
      ELSE IF doubled \in 0..BackoffCap THEN doubled ELSE BackoffCap

Rows == {id \in JobId : jobs[id].status # "absent"}

(* Mutant of IndexConflict: succeeded rows are not in the index. *)
IndexConflictUnfinished(k) ==
  \E id \in Rows : jobs[id].key = k /\ jobs[id].status \in Indexed \ Finished

(* ingest_job_active_dedupe_idx: the rows the partial unique index covers. *)
IndexConflict(k) ==
  k # NoKey /\ \E id \in Rows : jobs[id].key = k /\ jobs[id].status \in Indexed

(* Mutant of Matching: the lookup only sees jobs that are not finished. *)
MatchingUnfinished(k) == {id \in Rows : jobs[id].key = k /\ jobs[id].status \notin Finished}

(* findByDedupeKey: the newest row of the key, dead rows included (nothing *)
(* in the program ever writes "cancelled").                                *)
Matching(k) == {id \in Rows : jobs[id].key = k}
Newest(S) == {id \in S : \A other \in S :
                TextLeq(jobs[other].createdAt, jobs[id].createdAt)}
findByDedupeKey(k) == Newest(Matching(k))

(* Mutant of Due: Claim ignores run_after. *)
DueAtOnce == {id \in Rows : jobs[id].status \in Claimable}

(* The rows Claim may take, and its ORDER BY. *)
Due == {id \in Rows : /\ jobs[id].status \in Claimable
                      /\ TextLeq(jobs[id].runAfter, now)}

Before(i, j) ==
  \/ jobs[i].priority > jobs[j].priority
  \/ /\ jobs[i].priority = jobs[j].priority
     /\ \/ ~TextLeq(jobs[j].runAfter, jobs[i].runAfter)
        \/ /\ TextLeq(jobs[i].runAfter, jobs[j].runAfter)
           /\ ~TextLeq(jobs[j].createdAt, jobs[i].createdAt)

-----------------------------------------------------------------------------
(* A fresh database, a running process. *)
Init ==
  /\ jobs = [id \in JobId |-> Absent]
  /\ now = 0
  /\ enq = [e \in Enqueuer |-> NoCall]
  /\ held = [w \in Worker |-> Idle]
  /\ up = TRUE

(***************************************************************************)
(* Enqueue, first statement: look the key up; the caller's RunAfter is the *)
(* time of this step (the scan's own clock reading).                       *)
(***************************************************************************)
Enqueue(e, k, p, m) ==
  /\ up
  /\ enq[e].pc \in {"idle", "returned", "error"}
  /\ LET call == [pc |-> "insert", key |-> k, priority |-> p, max |-> m,
                  runAfter |-> now, job |-> NoJob]
     IN  \/ /\ k # NoKey
            /\ \E id \in findByDedupeKey(k) :
                 enq' = [enq EXCEPT ![e] = Outcome("returned", k, id)]
         \/ /\ k = NoKey \/ Matching(k) = {}
            /\ enq' = [enq EXCEPT ![e] = call]
  /\ UNCHANGED <<jobs, now, held, up>>

(* Enqueue, the INSERT: a new row, or a violation of the unique index. *)
Insert(e) ==
  /\ enq[e].pc = "insert"
  /\ LET call == enq[e]
     IN  \/ /\ IndexConflict(call.key)
            /\ enq' = [enq EXCEPT ![e].pc = "refind"]
            /\ UNCHANGED jobs
         \/ /\ ~IndexConflict(call.key)
            /\ \E id \in JobId \ Rows :
                 /\ jobs' = [jobs EXCEPT ![id] =
                      [Absent EXCEPT !.status = "queued", !.key = call.key,
                                     !.priority = call.priority, !.max = call.max,
                                     !.runAfter = call.runAfter, !.createdAt = now]]
                 /\ enq' = [enq EXCEPT ![e] = Outcome("returned", call.key, id)]
  /\ UNCHANGED <<now, held, up>>

(* Enqueue, after a unique violation: look the winner's row up. *)
Refind(e) ==
  /\ enq[e].pc = "refind"
  /\ LET k == enq[e].key
     IN  \/ \E id \in findByDedupeKey(k) :
              enq' = [enq EXCEPT ![e] = Outcome("returned", k, id)]
         \/ /\ Matching(k) = {}
            /\ enq' = [enq EXCEPT ![e] = Outcome("error", k, NoJob)]
  /\ UNCHANGED <<jobs, now, held, up>>

(* A statement of Enqueue fails (database busy or gone), or the last one,  *)
(* which reads the new row back: its caller gets an error.                 *)
EnqueueFails(e) ==
  /\ "lose" \in Faults
  /\ enq[e].pc \in {"insert", "refind", "returned"}
  /\ enq' = [enq EXCEPT ![e] = NoCall]
  /\ UNCHANGED <<jobs, now, held, up>>

-----------------------------------------------------------------------------
(* Claim: one UPDATE ... RETURNING picks, marks and counts the attempt. *)
Claim(w) ==
  /\ up
  /\ held[w].job = NoJob
  /\ \E id \in Due :
       /\ \A other \in Due : ~Before(other, id)
       /\ jobs' = [jobs EXCEPT ![id].status = "running",
                               ![id].attempts = @ + 1,
                               ![id].lockedBy = w]
       /\ held' = [held EXCEPT ![w] = [job |-> id,
                                       attempts |-> jobs[id].attempts + 1,
                                       max |-> jobs[id].max]]
  /\ UNCHANGED <<now, enq, up>>

(* Claim finds no row that is due: the worker sleeps and polls again. *)
ClaimNothing(w) ==
  /\ up
  /\ held[w].job = NoJob
  /\ Due = {}
  /\ UNCHANGED vars

(* Succeed: WHERE id = ? only, whatever the row's status or lock is. *)
Succeed(w) ==
  /\ held[w].job # NoJob
  /\ jobs' = [jobs EXCEPT ![held[w].job].status = "succeeded",
                          ![held[w].job].lockedBy = NoWorker,
                          ![held[w].job].lastError = "none",
                          ![held[w].job].finished = TRUE]
  /\ held' = [held EXCEPT ![w] = Idle]
  /\ UNCHANGED <<now, enq, up>>

(* Mutants of Exhausted: off by one, either way. *)
ExhaustedLate(w) == held[w].attempts > held[w].max
ExhaustedEarly(w) == held[w].attempts >= held[w].max - 1

Exhausted(w) == held[w].attempts >= held[w].max

(* Fail: decides from the worker's copy of the job, not from the row: it   *)
(* buries the job or sends it back with a delay.                           *)
Fail(w, permanent) ==
  LET id == held[w].job
  IN  /\ id # NoJob
      /\ \/ /\ Exhausted(w) \/ permanent
            /\ jobs' = [jobs EXCEPT
                 ![id].status = "dead", ![id].runAfter = now,
                 ![id].lockedBy = NoWorker, ![id].finished = TRUE,
                 ![id].lastError = IF permanent THEN "permanent" ELSE "transient"]
         \/ /\ ~Exhausted(w) /\ ~permanent
            /\ jobs' = [jobs EXCEPT
                 ![id].status = "failed",
                 ![id].runAfter = now + Backoff(held[w].attempts),
                 ![id].lockedBy = NoWorker, ![id].finished = FALSE,
                 ![id].lastError = "transient"]
      /\ held' = [held EXCEPT ![w] = Idle]
      /\ UNCHANGED <<now, enq, up>>

(* WorkOne returns after Succeed or Fail themselves returned an error. *)
LoseResult(w) ==
  /\ "lose" \in Faults
  /\ held[w].job # NoJob
  /\ held' = [held EXCEPT ![w] = Idle]
  /\ UNCHANGED <<jobs, now, enq, up>>

(* The process ends: a cancelled context makes every later statement fail, *)
(* and runServe does not wait for its workers.                             *)
Stop ==
  /\ "stop" \in Faults
  /\ up
  /\ up' = FALSE
  /\ held' = [w \in Worker |-> Idle]
  /\ enq' = [e \in Enqueuer |-> NoCall]
  /\ UNCHANGED <<jobs, now>>

(* It starts again on the same database; Start repairs nothing. *)
Start ==
  /\ ~up
  /\ up' = TRUE
  /\ UNCHANGED <<jobs, now, enq, held>>

(* Time passes; beyond MaxTime only while a job still waits for its turn. *)
Tick ==
  /\ \/ now < MaxTime
     \/ \E id \in Rows \ Due : jobs[id].status \in Claimable
  /\ now' = now + 1
  /\ UNCHANGED <<jobs, enq, held, up>>

EnqueueStep(e) ==
  \/ \E k \in Key \cup {NoKey}, p \in Priority, m \in MaxAttempts : Enqueue(e, k, p, m)
  \/ Insert(e)
  \/ Refind(e)
  \/ EnqueueFails(e)

Finish(w) == Succeed(w) \/ \E permanent \in BOOLEAN : Fail(w, permanent)

Next ==
  \/ \E e \in Enqueuer : EnqueueStep(e)
  \/ \E w \in Worker : Claim(w) \/ ClaimNothing(w) \/ Finish(w) \/ LoseResult(w)
  \/ Stop
  \/ Start
  \/ Tick

Spec == Init /\ [][Next]_vars

(***************************************************************************)
(* workerLoop polls for ever and every handler ends (the extractor and the *)
(* model are called with timeouts), so a worker that could claim does, and *)
(* one that holds a job reports on it.  Callers of Enqueue owe nothing.    *)
(***************************************************************************)
Fairness ==
  /\ WF_vars(Tick)
  /\ \A w \in Worker : WF_vars(Claim(w)) /\ WF_vars(Finish(w))

FairSpec == Spec /\ Fairness

-----------------------------------------------------------------------------
(* Properties *)

TypeOK ==
  /\ jobs \in [JobId -> Row]
  /\ now \in Nat
  /\ enq \in [Enqueuer -> Call]
  /\ held \in [Worker -> Copy]
  /\ up \in BOOLEAN

(***************************************************************************)
(* A worker's copy is never stale: while it holds a job, the row is still  *)
(* running under its own lock with the attempt count it was given, so the  *)
(* unconditional "WHERE id = ?" of Succeed and Fail hits its own claim.    *)
(***************************************************************************)
HeldIsCurrent ==
  \A w \in Worker : held[w].job # NoJob =>
    LET row == jobs[held[w].job]
    IN  /\ row.status = "running"
        /\ row.lockedBy = w
        /\ row.attempts = held[w].attempts
        /\ row.max = held[w].max

(* No job is in the hands of two workers (store_test.go, "claimed twice"). *)
OneHolder ==
  \A v, w \in Worker : held[v].job = held[w].job /\ held[v].job # NoJob => v = w

(* A row is locked exactly while it is running, and finished_at is set     *)
(* exactly when it is succeeded or dead.                                   *)
LockAndFinishAgree ==
  \A id \in Rows : /\ (jobs[id].lockedBy # NoWorker) <=> (jobs[id].status = "running")
                   /\ jobs[id].finished <=> (jobs[id].status \in Finished)

(* A job is never run more often than its max_attempts, although Claim     *)
(* does not look at it: a row that may be claimed has an attempt left.     *)
AttemptsBounded ==
  \A id \in Rows : /\ jobs[id].attempts <= jobs[id].max
                   /\ jobs[id].status \in Claimable => jobs[id].attempts < jobs[id].max

(* A job is buried only for a permanent error or with all attempts used.   *)
DeadForCause ==
  \A id \in Rows : jobs[id].status = "dead" =>
    jobs[id].lastError = "permanent" \/ jobs[id].attempts = jobs[id].max

(* The queue never holds two rows of one dedupe key unless all but one     *)
(* of them are dead, however two scans and the workers interleave.         *)
OneLiveRowPerKey ==
  \A i, j \in Rows : /\ jobs[i].key = jobs[j].key
                     /\ jobs[i].key # NoKey
                     /\ i # j
                     => "dead" \in {jobs[i].status, jobs[j].status}

(* Losing the INSERT race is never an error: the row that won is found.    *)
EnqueueNeverErrs == \A e \in Enqueuer : enq[e].pc # "error"

(* A finished job is never touched again: not re-run, not re-finished.     *)
FinishedForGood ==
  [][\A id \in JobId : jobs[id].status \in Finished => jobs'[id] = jobs[id]]_vars

(* Comparing times as text lets a retry start early, but never by a whole  *)
(* second: its run_after is less than a second away when it is claimed.    *)
ClaimedNow(id) == jobs[id].status \in Claimable /\ jobs'[id].status = "running"

NeverASecondEarly ==
  [][\A id \in JobId : ClaimedNow(id) => jobs[id].runAfter < now + TicksPerSecond]_vars

(***************************************************************************)
(* The queue keeps the promise of JobLedger.  A row that is queued or      *)
(* failed is waiting, a running one is lent to the worker that holds it.   *)
(***************************************************************************)
StageOf(status) ==
  CASE status = "absent"    -> "none"
    [] status \in Claimable -> "waiting"
    [] status = "running"   -> "lent"
    [] OTHER                -> status

Ledger == INSTANCE JobLedger WITH
  stage  <- [id \in JobId |-> StageOf(jobs[id].status)],
  lentTo <- [id \in JobId |-> {w \in Worker : held[w].job = id}],
  tries  <- [id \in JobId |-> jobs[id].attempts],
  limit  <- [id \in JobId |-> jobs[id].max]

ImplementsLedger == Ledger!Spec

(* Without crashes and lost results every queued job is eventually         *)
(* succeeded or dead.                                                      *)
EveryJobSettles ==
  \A id \in JobId : (jobs[id].status \in Claimable \cup {"running"})
                      ~> (jobs[id].status \in Finished)

=============================================================================
