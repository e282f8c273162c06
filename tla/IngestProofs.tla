---------------------------- MODULE IngestProofs ----------------------------
(***************************************************************************)
(* What TLAPS proves of ingestion, for any files, contents, workers, scans *)
(* and attempts, whatever the user edits and whenever the process stops.   *)
(*                                                                         *)
(* Every step of Ingest is a step of the queue or leaves it alone, so all  *)
(* that JobStoreProofs proves of the queue holds here; the invariant of    *)
(* ingestion builds on it.  From both follows that Archive is implemented. *)
(***************************************************************************)
EXTENDS Ingest, TLAPS

QP == INSTANCE JobStoreProofs WITH
  Key <- Version, Priority <- {0},
  BackoffBase <- 1, BackoffCap <- 1, TicksPerSecond <- 1,
  TextPlace <- [fraction \in {0} |-> 0], MaxTime <- 0

-----------------------------------------------------------------------------
(* The queue inside *)

LEMMA CallsAreSteps ==
  ASSUME NEW e \in Enqueuer
  PROVE  /\ \A k \in Version, m \in MaxAttempts : Queue!Enqueue(e, k, 0, m) => QP!Next
         /\ Queue!Insert(e) => QP!Next
         /\ Queue!Refind(e) => QP!Next
         /\ Queue!EnqueueFails(e) => QP!Next
<1>1. ASSUME NEW k, NEW m PROVE Queue!Enqueue(e, k, 0, m) => QP!Enqueue(e, k, 0, m)
  BY DEF Queue!Enqueue, QP!Enqueue, Queue!findByDedupeKey, QP!findByDedupeKey, Queue!Newest,
         QP!Newest, Queue!Matching, QP!Matching, Queue!Rows, QP!Rows, Queue!TextLeq,
         QP!TextLeq, Queue!Outcome, QP!Outcome
<1>2. Queue!Insert(e) => QP!Insert(e)
  BY DEF Queue!Insert, QP!Insert, Queue!IndexConflict, QP!IndexConflict, Queue!Indexed,
         QP!Indexed, Queue!Rows, QP!Rows, Queue!Absent, QP!Absent, Queue!Outcome, QP!Outcome
<1>3. Queue!Refind(e) => QP!Refind(e)
  BY DEF Queue!Refind, QP!Refind, Queue!findByDedupeKey, QP!findByDedupeKey, Queue!Newest,
         QP!Newest, Queue!Matching, QP!Matching, Queue!Rows, QP!Rows, Queue!TextLeq,
         QP!TextLeq, Queue!Outcome, QP!Outcome
<1>4. Queue!EnqueueFails(e) => QP!EnqueueFails(e)
  BY DEF Queue!EnqueueFails, QP!EnqueueFails, Queue!NoCall, QP!NoCall, Queue!Outcome, QP!Outcome
<1>5. QP!EnqueueStep(e) => QP!Next BY DEF QP!Next
<1>6. ASSUME NEW k \in Version, NEW m \in MaxAttempts
      PROVE  QP!Enqueue(e, k, 0, m) => QP!EnqueueStep(e)
  <2>1. 0 \in {0} /\ k \in Version \cup {NoKey} OBVIOUS
  <2> QED BY <2>1 DEF QP!EnqueueStep
<1> QED BY <1>1, <1>2, <1>3, <1>4, <1>5, <1>6 DEF QP!EnqueueStep

LEMMA WorkIsSteps ==
  ASSUME NEW w \in Worker, NEW permanent \in BOOLEAN
  PROVE  /\ Queue!Claim(w) => QP!Next
         /\ Queue!ClaimNothing(w) => QP!Next
         /\ Queue!Succeed(w) => QP!Next
         /\ Queue!Fail(w, permanent) => QP!Next
         /\ Queue!LoseResult(w) => QP!Next
<1>1. Queue!Claim(w) => QP!Claim(w)
  BY DEF Queue!Claim, QP!Claim, Queue!Due, QP!Due, Queue!Before, QP!Before, Queue!Rows, QP!Rows,
         Queue!TextLeq, QP!TextLeq, Queue!Claimable, QP!Claimable
<1>2. Queue!ClaimNothing(w) => QP!ClaimNothing(w)
  BY DEF Queue!ClaimNothing, QP!ClaimNothing, Queue!Due, QP!Due, Queue!Rows, QP!Rows,
         Queue!TextLeq, QP!TextLeq, Queue!Claimable, QP!Claimable, Queue!vars, QP!vars
<1>3. Queue!Succeed(w) => QP!Succeed(w)
  BY DEF Queue!Succeed, QP!Succeed, Queue!Idle, QP!Idle
<1>4. Queue!Fail(w, permanent) => QP!Fail(w, permanent)
  BY DEF Queue!Fail, QP!Fail, Queue!Idle, QP!Idle, Queue!Exhausted, QP!Exhausted,
         Queue!Backoff, QP!Backoff
<1>5. Queue!LoseResult(w) => QP!LoseResult(w)
  BY DEF Queue!LoseResult, QP!LoseResult, Queue!Idle, QP!Idle
<1> QED BY <1>1, <1>2, <1>3, <1>4, <1>5 DEF QP!Next, QP!Finish

LEMMA ProcessIsSteps ==
  /\ Queue!Stop => QP!Next
  /\ Queue!Start => QP!Next
  /\ Queue!Tick => QP!Next
<1>1. Queue!Stop => QP!Stop
  BY DEF Queue!Stop, QP!Stop, Queue!Idle, QP!Idle, Queue!NoCall, QP!NoCall, Queue!Outcome, QP!Outcome
<1>2. Queue!Start => QP!Start BY DEF Queue!Start, QP!Start
<1>3. Queue!Tick => QP!Tick
  BY DEF Queue!Tick, QP!Tick, Queue!Due, QP!Due, Queue!Rows, QP!Rows, Queue!TextLeq,
         QP!TextLeq, Queue!Claimable, QP!Claimable
<1> QED BY <1>1, <1>2, <1>3 DEF QP!Next

-----------------------------------------------------------------------------
(* A scan knows its file, and what it held, when it comes to the queue *)

Scanning ==
  [pc : {"idle", "settling", "unsupported", "read error", "hash", "enqueue", "enqueuing"},
   path : Path \cup {NoFile}, hash : Content \cup {NoFile}]

Named(e) ==
  /\ scan[e] \in Scanning
  /\ scan[e].pc # "idle" => scan[e].path \in Path
  /\ scan[e].pc \in {"enqueue", "enqueuing"} => scan[e].hash \in Content

ScansNamed ==
  /\ folder \in [Path -> Content \cup {NoFile}]
  /\ scan \in [Enqueuer -> Scanning]
  /\ \A e \in Enqueuer : Named(e)

LEMMA IdleIsNamed == NotScanning \in Scanning /\ NotScanning.pc = "idle"
BY DEF NotScanning, Scanning

LEMMA ScanStays ==
  ASSUME ScansNamed, UNCHANGED scan, folder' \in [Path -> Content \cup {NoFile}]
  PROVE  ScansNamed'
BY DEF ScansNamed, Named

LEMMA ScanChanges ==
  ASSUME ScansNamed, NEW e \in Enqueuer, NEW q \in Scanning, scan' = [scan EXCEPT ![e] = q],
         q.pc # "idle" => q.path \in Path,
         q.pc \in {"enqueue", "enqueuing"} => q.hash \in Content,
         UNCHANGED folder
  PROVE  ScansNamed'
BY DEF ScansNamed, Named

LEMMA ScansAreNamed == Spec => []ScansNamed
<1>1. Init => ScansNamed BY IdleIsNamed DEF Init, ScansNamed, Named
<1>2. ScansNamed /\ [Next]_vars => ScansNamed'
  <2> SUFFICES ASSUME ScansNamed, [Next]_vars PROVE ScansNamed' OBVIOUS
  <2>1. ASSUME UNCHANGED <<folder, scan>> PROVE ScansNamed' BY <2>1 DEF ScansNamed, Named
  <2>2. ASSUME NEW p \in Path, NEW c \in Content \cup {NoFile}, Edit(p, c) PROVE ScansNamed'
    <3>1. folder' \in [Path -> Content \cup {NoFile}] BY <2>2 DEF Edit, ScansNamed
    <3> QED BY <3>1, <2>2, ScanStays DEF Edit
  <2>3. ASSUME NEW e \in Enqueuer, NEW p \in Path, ScanFile(e, p) PROVE ScansNamed'
    <3>1. PICK q : q = [pc |-> IF ~settled[p] THEN "settling"
               ELSE IF type[p] = "other" THEN "unsupported" ELSE "hash",
               path |-> p, hash |-> NoFile] OBVIOUS
    <3>2. scan' = [scan EXCEPT ![e] = q] /\ UNCHANGED folder
      BY <2>3, <3>1 DEF ScanFile, userVars
    <3>3. q \in Scanning /\ q.path \in Path /\ q.pc \notin {"enqueue", "enqueuing"}
      BY <3>1 DEF Scanning
    <3> QED BY <3>2, <3>3, ScanChanges
  <2>4. ASSUME NEW e \in Enqueuer, scan' = [scan EXCEPT ![e] = NotScanning], UNCHANGED folder
        PROVE  ScansNamed'
    BY <2>4, IdleIsNamed, ScanChanges
  <2>5. ASSUME NEW e \in Enqueuer, ScanHash(e) PROVE ScansNamed'
    <3>1. scan[e] \in Scanning /\ scan[e].path \in Path BY <2>5 DEF ScansNamed, Named, ScanHash
    <3>2. PICK c : c = folder[scan[e].path] OBVIOUS
    <3>3. c \in Content \cup {NoFile} BY <3>1, <3>2 DEF ScansNamed
    <3>4. PICK q : q = [pc |-> IF c = NoFile THEN "read error" ELSE "enqueue",
                        path |-> scan[e].path, hash |-> c]
      OBVIOUS
    <3>5. q \in Scanning /\ q.path \in Path /\ (q.pc \in {"enqueue", "enqueuing"} => q.hash \in Content)
      BY <3>1, <3>3, <3>4 DEF Scanning
    <3>6. scan' = [scan EXCEPT ![e] = q]
      BY <2>5, <3>2, <3>4 DEF ScanHash
    <3> QED BY <3>5, <3>6, <2>5, ScanChanges DEF ScanHash, userVars
  <2>6. ASSUME NEW e \in Enqueuer, ScanEnqueue(e) PROVE ScansNamed'
    <3>1. scan[e] \in Scanning /\ scan[e].path \in Path /\ scan[e].hash \in Content
      BY <2>6 DEF ScansNamed, Named, ScanEnqueue
    <3>2. PICK q : q = [pc |-> "enqueuing", path |-> scan[e].path, hash |-> scan[e].hash] OBVIOUS
    <3>3. q \in Scanning /\ q.path \in Path /\ q.hash \in Content BY <3>1, <3>2 DEF Scanning
    <3>4. scan' = [scan EXCEPT ![e] = q]
      <4>1. scan[e] = [pc |-> scan[e].pc, path |-> scan[e].path, hash |-> scan[e].hash]
        BY <3>1 DEF Scanning
      <4>2. [scan[e] EXCEPT !.pc = "enqueuing"] = q BY <4>1, <3>2
      <4> QED BY <2>6, <4>2 DEF ScanEnqueue
    <3> QED BY <3>3, <3>4, <2>6, ScanChanges DEF ScanEnqueue, userVars
  <2>7. ASSUME Stop PROVE ScansNamed'
    BY <2>7, IdleIsNamed DEF Stop, userVars, ScansNamed, Named
  <2>8. CASE Next
    <3>1. ASSUME NEW e \in Enqueuer, ScanStep(e) \/ ScanFails(e) PROVE ScansNamed'
      BY <3>1, <2>1, <2>4, <2>5, <2>6
      DEF ScanStep, ScanFails, ScanSkip, ScanEnqueuing, ScanRecord, userVars
    <3>2. ASSUME NEW w \in Worker, Claim(w) \/ Handle(w) \/ Errs(w) \/ Report(w) \/ LoseReport(w)
          PROVE  ScansNamed'
      BY <3>2, <2>1
      DEF Claim, Handle, Errs, Report, LoseReport, StoreFile, PersistArtifact, extractTextFile,
          RunTool, Convert, Extracting, RetryWithForcedOCR, PersistExtraction, ProcessArtifact,
          userVars
    <3>3. ASSUME NEW p \in Path, Settle(p) PROVE ScansNamed' BY <3>3, <2>1 DEF Settle
    <3>4. ASSUME Clock PROVE ScansNamed' BY <3>4, <2>1 DEF Clock, userVars
    <3> QED BY <2>2, <2>3, <2>7, <2>8, <3>1, <3>2, <3>3, <3>4 DEF Next
  <2>9. CASE UNCHANGED vars BY <2>9, <2>1 DEF vars, userVars
  <2> QED BY <2>8, <2>9
<1> QED BY <1>1, <1>2, PTL DEF Spec

LEMMA StepsAreQueueSteps ==
  ASSUME ScansNamed, [Next]_vars
  PROVE  [QP!Next]_(QP!vars)
<1>1. ASSUME UNCHANGED queueVars PROVE UNCHANGED QP!vars BY <1>1 DEF queueVars, QP!vars
<1>2. ASSUME NEW e \in Enqueuer, ScanEnqueue(e) PROVE QP!Next
  <2>1. <<scan[e].path, scan[e].hash>> \in Version
    BY <1>2 DEF ScansNamed, Named, ScanEnqueue, Version
  <2>2. PICK m \in MaxAttempts : Queue!Enqueue(e, <<scan[e].path, scan[e].hash>>, 0, m)
    BY <1>2 DEF ScanEnqueue
  <2> QED BY <2>1, <2>2, CallsAreSteps
<1>3. ASSUME NEW e \in Enqueuer, ScanStep(e) \/ ScanFails(e) PROVE QP!Next \/ UNCHANGED queueVars
  <2>1. CASE ScanEnqueue(e) BY <2>1, <1>2
  <2>2. CASE ScanEnqueuing(e) BY <2>2, CallsAreSteps DEF ScanEnqueuing
  <2>3. CASE ScanFails(e) BY <2>3, CallsAreSteps DEF ScanFails
  <2>4. CASE ScanSkip(e) \/ ScanHash(e) \/ ScanRecord(e)
    BY <2>4 DEF ScanSkip, ScanHash, ScanRecord
  <2> QED BY <1>3, <2>1, <2>2, <2>3, <2>4 DEF ScanStep
<1>4. ASSUME NEW w \in Worker, Claim(w) \/ Handle(w) \/ Errs(w) \/ Report(w) \/ LoseReport(w)
      PROVE  QP!Next \/ UNCHANGED queueVars
  <2>1. CASE Claim(w) BY <2>1, WorkIsSteps DEF Claim
  <2>2. CASE Handle(w) \/ Errs(w)
    BY <2>2 DEF Handle, Errs, StoreFile, PersistArtifact, extractTextFile, RunTool, Convert,
                Extracting, RetryWithForcedOCR, PersistExtraction, ProcessArtifact
  <2>3. CASE Report(w) BY <2>3, WorkIsSteps DEF Report
  <2>4. CASE LoseReport(w) BY <2>4, WorkIsSteps DEF LoseReport
  <2> QED BY <1>4, <2>1, <2>2, <2>3, <2>4
<1>5. CASE Next
  <2>1. CASE \E p \in Path, c \in Content \cup {NoFile} : Edit(p, c)
    BY <2>1, <1>1 DEF Edit
  <2>2. CASE \E p \in Path : Settle(p) BY <2>2, <1>1 DEF Settle
  <2>3. CASE \E e \in Enqueuer, p \in Path : ScanFile(e, p) BY <2>3, <1>1 DEF ScanFile
  <2>4. CASE \E e \in Enqueuer : ScanStep(e) \/ ScanFails(e) BY <2>4, <1>1, <1>3
  <2>5. CASE \E w \in Worker : Claim(w) \/ Handle(w) \/ Errs(w) \/ Report(w) \/ LoseReport(w)
    BY <2>5, <1>1, <1>4
  <2>6. CASE Stop BY <2>6, ProcessIsSteps DEF Stop
  <2>7. CASE Clock BY <2>7, ProcessIsSteps, WorkIsSteps DEF Clock
  <2> QED BY <1>5, <2>1, <2>2, <2>3, <2>4, <2>5, <2>6, <2>7 DEF Next
<1>6. CASE UNCHANGED vars BY <1>6, <1>1 DEF vars
<1> QED BY <1>5, <1>6

LEMMA StartsAsQueue == Init => QP!Init
BY DEF Init, Queue!Init, QP!Init, Queue!Absent, QP!Absent, Queue!NoCall, QP!NoCall,
       Queue!Outcome, QP!Outcome, Queue!Idle, QP!Idle

(* Scans and workers use the queue as JobStore lets its callers.           *)
THEOREM UsesTheQueue == Spec => QP!Spec
<1>1. Init => QP!Init BY StartsAsQueue
<1>2. ScansNamed /\ [Next]_vars => [QP!Next]_(QP!vars) BY StepsAreQueueSteps
<1> QED BY <1>1, <1>2, ScansAreNamed, PTL DEF Spec, QP!Spec

LEMMA QueueHolds == Spec => []QP!IInv
<1>1. QP!Spec => []QP!IInv BY NamesAssumption, QueueAssumption, QP!Inductive
<1> QED BY <1>1, UsesTheQueue, PTL

-----------------------------------------------------------------------------
(***************************************************************************)
(* What the queue does to its rows                                         *)
(***************************************************************************)

(* What is used of the queue's invariant. *)
QueueFacts ==
  /\ jobs \in [JobId -> QP!Row] /\ enq \in [Enqueuer -> QP!Call] /\ held \in [Worker -> QP!Copy]
  /\ \A w \in Worker : held[w].job # NoJob =>
       /\ jobs[held[w].job].status = "running"
       /\ jobs[held[w].job].lockedBy = w
       /\ jobs[held[w].job].attempts = held[w].attempts
       /\ jobs[held[w].job].max = held[w].max
  /\ \A i, j \in JobId : /\ jobs[i].status \notin {"absent", "dead"}
                         /\ jobs[j].status \notin {"absent", "dead"}
                         /\ jobs[i].key = jobs[j].key
                         /\ jobs[i].key # NoKey
                         => i = j

LEMMA FromTheQueue == QP!IInv => QueueFacts
BY DEF QP!IInv, QP!TypeOK, QP!HeldIsCurrent, QP!OneLiveRowPerKey, QP!Rows, QueueFacts

Taken(id) == jobs[id].status # "absent"
Names(id, k) == id \in JobId /\ Taken(id) /\ jobs[id].key = k

(* Only row id changes, and not its key. *)
Touches(id) ==
  /\ id \in JobId /\ Taken(id) /\ Taken(id)'
  /\ jobs'[id].key = jobs[id].key
  /\ \A j \in JobId \ {id} : jobs'[j] = jobs[j]

LetsGo(w) == held'[w].job = NoJob /\ \A v \in Worker \ {w} : held'[v] = held[v]

LEMMA LettingGo ==
  ASSUME QueueFacts, NEW w \in Worker, held' = [held EXCEPT ![w] = Queue!Idle]
  PROVE  LetsGo(w)
BY DEF QueueFacts, LetsGo, Queue!Idle

LEMMA ClaimTouches ==
  ASSUME QueueFacts, NEW w \in Worker, Queue!Claim(w)
  PROVE  /\ held[w].job = NoJob /\ UNCHANGED enq
         /\ \E id \in JobId : /\ Touches(id) /\ jobs'[id].status = "running"
                              /\ held'[w].job = id
         /\ \A v \in Worker \ {w} : held'[v] = held[v]
<1>1. PICK id \in Queue!Due :
        /\ jobs' = [jobs EXCEPT ![id].status = "running",
                                ![id].attempts = @ + 1,
                                ![id].lockedBy = w]
        /\ held' = [held EXCEPT ![w] = [job |-> id, attempts |-> jobs[id].attempts + 1,
                                        max |-> jobs[id].max]]
  BY DEF Queue!Claim
<1>2. id \in JobId /\ Taken(id) BY DEF Queue!Due, Queue!Rows, Taken
<1>3. jobs'[id].status = "running" /\ jobs'[id].key = jobs[id].key
      /\ \A j \in JobId \ {id} : jobs'[j] = jobs[j]
  BY <1>1, <1>2 DEF QueueFacts, QP!Row
<1>4. held'[w].job = id /\ \A v \in Worker \ {w} : held'[v] = held[v]
  BY <1>1 DEF QueueFacts
<1> QED BY <1>2, <1>3, <1>4 DEF Touches, Taken, Queue!Claim

LEMMA SucceedTouches ==
  ASSUME QueueFacts, NEW w \in Worker, Queue!Succeed(w)
  PROVE  /\ Touches(held[w].job) /\ jobs'[held[w].job].status = "succeeded"
         /\ LetsGo(w) /\ UNCHANGED enq
<1>1. PICK id : id = held[w].job OBVIOUS
<1>2. id \in JobId /\ jobs[id].status = "running"
  BY <1>1 DEF QueueFacts, QP!Copy, Queue!Succeed
<1>3. /\ jobs'[id].status = "succeeded" /\ jobs'[id].key = jobs[id].key
      /\ \A j \in JobId \ {id} : jobs'[j] = jobs[j]
  BY <1>1, <1>2 DEF QueueFacts, QP!Row, Queue!Succeed
<1>4. Touches(id) BY <1>2, <1>3 DEF Touches, Taken
<1> QED BY <1>1, <1>3, <1>4, LettingGo DEF Queue!Succeed

(* A job that dies before its last attempt dies of a permanent error. *)
LEMMA FailTouches ==
  ASSUME QueueFacts, NEW w \in Worker, NEW permanent \in BOOLEAN, Queue!Fail(w, permanent)
  PROVE  /\ Touches(held[w].job) /\ jobs'[held[w].job].status \in {"failed", "dead"}
         /\ /\ jobs'[held[w].job].status = "dead"
            /\ jobs'[held[w].job].attempts < jobs'[held[w].job].max
            => permanent
         /\ LetsGo(w) /\ UNCHANGED enq
<1>1. PICK id : id = held[w].job OBVIOUS
<1>2. /\ id \in JobId /\ jobs[id].status = "running"
      /\ jobs[id].attempts = held[w].attempts /\ jobs[id].max = held[w].max
      /\ jobs[id].attempts \in Nat /\ jobs[id].max \in Nat
  BY <1>1 DEF QueueFacts, QP!Copy, QP!Row, Queue!Fail
<1>3. CASE Queue!Exhausted(w) \/ permanent
  <2>1. /\ jobs'[id].status = "dead" /\ jobs'[id].key = jobs[id].key
        /\ jobs'[id].attempts = jobs[id].attempts /\ jobs'[id].max = jobs[id].max
        /\ \A j \in JobId \ {id} : jobs'[j] = jobs[j]
    BY <1>1, <1>2, <1>3 DEF QueueFacts, QP!Row, Queue!Fail
  <2>2. jobs'[id].attempts < jobs'[id].max => permanent
    BY <1>2, <1>3, <2>1 DEF Queue!Exhausted
  <2>3. Touches(id) BY <1>2, <2>1 DEF Touches, Taken
  <2> QED BY <1>1, <2>1, <2>2, <2>3, LettingGo DEF Queue!Fail
<1>4. CASE ~(Queue!Exhausted(w) \/ permanent)
  <2>1. /\ jobs'[id].status = "failed" /\ jobs'[id].key = jobs[id].key
        /\ \A j \in JobId \ {id} : jobs'[j] = jobs[j]
    BY <1>1, <1>2, <1>4 DEF QueueFacts, QP!Row, Queue!Fail
  <2>2. Touches(id) BY <1>2, <2>1 DEF Touches, Taken
  <2> QED BY <1>1, <2>1, <2>2, LettingGo DEF Queue!Fail
<1> QED BY <1>3, <1>4

(* The calls of the other scans stay. *)
Alone(e) == UNCHANGED held /\ \A d \in Enqueuer \ {e} : enq'[d] = enq[d]

LEMMA EnqueueAnswers ==
  ASSUME QueueFacts, NEW e \in Enqueuer, NEW k, NEW m, Queue!Enqueue(e, k, 0, m)
  PROVE  /\ Alone(e) /\ UNCHANGED jobs /\ enq'[e].key = k
         /\ enq'[e].pc = "insert" \/ (enq'[e].pc = "returned" /\ Names(enq'[e].job, k))
<1>1. Alone(e) /\ UNCHANGED jobs BY DEF Queue!Enqueue, QueueFacts, Alone
<1>2. CASE \E id \in Queue!findByDedupeKey(k) : enq' = [enq EXCEPT ![e] = Queue!Outcome("returned", k, id)]
  <2>1. PICK id \in Queue!findByDedupeKey(k) : enq' = [enq EXCEPT ![e] = Queue!Outcome("returned", k, id)]
    BY <1>2
  <2>2. Names(id, k)
    BY DEF Queue!findByDedupeKey, Queue!Newest, Queue!Matching, Queue!Rows, Names, Taken
  <2>3. enq'[e].pc = "returned" /\ enq'[e].key = k /\ enq'[e].job = id
    BY <2>1 DEF Queue!Outcome, QueueFacts
  <2> QED BY <1>1, <2>2, <2>3
<1>3. CASE enq' = [enq EXCEPT ![e] = [pc |-> "insert", key |-> k, priority |-> 0, max |-> m,
                                      runAfter |-> now, job |-> NoJob]]
  <2>1. enq'[e].pc = "insert" /\ enq'[e].key = k BY <1>3 DEF QueueFacts
  <2> QED BY <1>1, <2>1
<1> QED BY <1>2, <1>3 DEF Queue!Enqueue

LEMMA InsertAnswers ==
  ASSUME QueueFacts, NEW e \in Enqueuer, Queue!Insert(e)
  PROVE  /\ Alone(e) /\ enq'[e].key = enq[e].key
         /\ \/ UNCHANGED jobs /\ enq'[e].pc = "refind"
            \/ /\ enq'[e].pc = "returned"
               /\ \E id \in JobId :
                    /\ ~Taken(id) /\ jobs'[id].status = "queued" /\ jobs'[id].key = enq[e].key
                    /\ enq'[e].job = id
                    /\ \A j \in JobId \ {id} : jobs'[j] = jobs[j]
<1>1. enq[e] \in QP!Call BY DEF QueueFacts
<1>2. Alone(e) BY DEF Queue!Insert, QueueFacts, Alone
<1>3. CASE UNCHANGED jobs /\ enq' = [enq EXCEPT ![e].pc = "refind"]
  <2>1. enq'[e].pc = "refind" /\ enq'[e].key = enq[e].key BY <1>1, <1>3 DEF QueueFacts, QP!Call
  <2> QED BY <1>2, <1>3, <2>1
<1>4. CASE ~Queue!IndexConflict(enq[e].key)
  <2>1. PICK id \in JobId \ Queue!Rows :
          /\ jobs' = [jobs EXCEPT ![id] =
               [Queue!Absent EXCEPT !.status = "queued", !.key = enq[e].key,
                                    !.priority = enq[e].priority, !.max = enq[e].max,
                                    !.runAfter = enq[e].runAfter, !.createdAt = now]]
          /\ enq' = [enq EXCEPT ![e] = Queue!Outcome("returned", enq[e].key, id)]
    BY <1>4 DEF Queue!Insert
  <2>2. ~Taken(id) BY DEF Queue!Rows, Taken
  <2>3. jobs'[id].status = "queued" /\ jobs'[id].key = enq[e].key
        /\ \A j \in JobId \ {id} : jobs'[j] = jobs[j]
    BY <2>1 DEF QueueFacts, Queue!Absent
  <2>4. enq'[e].pc = "returned" /\ enq'[e].key = enq[e].key /\ enq'[e].job = id
    BY <2>1 DEF QueueFacts, Queue!Outcome
  <2> QED BY <1>2, <2>2, <2>3, <2>4
<1> QED BY <1>3, <1>4 DEF Queue!Insert

LEMMA RefindAnswers ==
  ASSUME QueueFacts, NEW e \in Enqueuer, Queue!Refind(e)
  PROVE  /\ Alone(e) /\ UNCHANGED jobs /\ enq'[e].key = enq[e].key
         /\ enq'[e].pc = "error" \/ (enq'[e].pc = "returned" /\ Names(enq'[e].job, enq[e].key))
<1>1. Alone(e) /\ UNCHANGED jobs BY DEF Queue!Refind, QueueFacts, Alone
<1>2. PICK k : k = enq[e].key OBVIOUS
<1>3. CASE \E id \in Queue!findByDedupeKey(k) : enq' = [enq EXCEPT ![e] = Queue!Outcome("returned", k, id)]
  <2>1. PICK id \in Queue!findByDedupeKey(k) : enq' = [enq EXCEPT ![e] = Queue!Outcome("returned", k, id)]
    BY <1>3
  <2>2. Names(id, k)
    BY DEF Queue!findByDedupeKey, Queue!Newest, Queue!Matching, Queue!Rows, Names, Taken
  <2>3. enq'[e].pc = "returned" /\ enq'[e].key = k /\ enq'[e].job = id
    BY <2>1 DEF Queue!Outcome, QueueFacts
  <2> QED BY <1>1, <1>2, <2>2, <2>3
<1>4. CASE enq' = [enq EXCEPT ![e] = Queue!Outcome("error", k, NoJob)]
  <2>1. enq'[e].pc = "error" /\ enq'[e].key = k BY <1>4 DEF Queue!Outcome, QueueFacts
  <2> QED BY <1>1, <1>2, <2>1
<1> QED BY <1>2, <1>3, <1>4 DEF Queue!Refind

LEMMA FailingAnswers ==
  ASSUME QueueFacts, NEW e \in Enqueuer, Queue!EnqueueFails(e)
  PROVE  Alone(e) /\ UNCHANGED jobs /\ enq'[e].pc = "idle"
BY DEF Queue!EnqueueFails, QueueFacts, Alone, Queue!NoCall, Queue!Outcome

-----------------------------------------------------------------------------
(***************************************************************************)
(* The invariant                                                           *)
(***************************************************************************)

(* Why a version may be given up before the last attempt. *)
Cause(k) ==
  \/ type[k[1]] = "text" /\ k[2] \in Undecodable
  \/ type[k[1]] # "text" /\ provider = "local" /\ "permanent" \in HandlerErrors
  \/ type[k[1]] # "text" /\ Echoes[provider] # {} /\ "transient" \in HandlerErrors
  \/ edits > 0

Users ==
  /\ type \in [Path -> Types]
  /\ provider \in Providers
  /\ settled \in [Path -> BOOLEAN]
  /\ edits \in 0..MaxEdits

Stored ==
  /\ objects \subseteq Content \cup {Torn}
  /\ blobs \subseteq objects \cap Content
  /\ artifacts \subseteq Version
  /\ \A a \in artifacts : a[2] \in blobs
  /\ texts \subseteq artifacts

(* A row's key is a version; success has its texts, an early death a cause; *)
(* while the user has not touched the folder it is what the file holds.     *)
RowOK(row) == row.status # "absent" =>
  /\ row.key \in Version
  /\ row.status = "succeeded" => row.key \in texts
  /\ row.status = "dead" /\ row.attempts < row.max => Cause(row.key)
  /\ edits = 0 => folder[row.key[1]] = row.key[2]

(* What the worker of version k has achieved when it is at p. *)
Achieved(p, k) ==
  /\ p = "persist" => k[2] \in objects
  /\ p \in {"extract", "retry", "index", "process", "done"} => k \in artifacts
  /\ p \in {"process", "done"} => k \in texts
  /\ p = "permanent" => Cause(k)
  /\ p = "torn" => edits > 0

Places == {"idle", "store", "torn", "persist", "extract", "retry", "index", "process", "done",
           "transient", "permanent"}

HandlerOK(w) ==
  /\ handler[w] \in Places
  /\ handler[w] # "idle" => held[w].job # NoJob /\ Achieved(handler[w], Payload(w))

(* A scan inside Enqueue asks for the file it looked at and what it held. *)
ScanOK(s, call) ==
  /\ call.pc \in {"insert", "refind"} => s.pc = "enqueuing"
  /\ s.pc \in {"enqueue", "enqueuing"} /\ edits = 0 => folder[s.path] = s.hash
  /\ s.pc = "enqueuing" =>
       /\ call.key = <<s.path, s.hash>>
       /\ call.pc = "returned" => Names(call.job, call.key)

WatchRow ==
  [hash : Content \cup {NoFile}, job : JobId \cup {NoJob},
   ignored : {"never seen", "settling", "unsupported", "read error", "no"}]

RowMatches(p, row) == row.job # NoJob => row.ignored = "no" /\ Names(row.job, <<p, row.hash>>)

Inv ==
  /\ Users
  /\ Stored
  /\ \A id \in JobId : RowOK(jobs[id])
  /\ handler \in [Worker -> Places]
  /\ \A w \in Worker : HandlerOK(w)
  /\ \A e \in Enqueuer : ScanOK(scan[e], enq[e])
  /\ watch \in [Path -> WatchRow]
  /\ \A p \in Path : RowMatches(p, watch[p])

USE NamesAssumption, QueueAssumption, ContentAssumption, EditsAssumption, EchoesAssumption

LEMMA InvInitially == QueueFacts /\ Init => Inv
<1> SUFFICES ASSUME QueueFacts, Init PROVE Inv OBVIOUS
<1>1. \A id \in JobId : jobs[id].status = "absent"
  BY DEF Init, Queue!Init, Queue!Absent
<1>2. \A id \in JobId : RowOK(jobs[id]) BY <1>1 DEF RowOK
<1>3. Users /\ Stored BY DEF Init, Users, Stored
<1>4. handler \in [Worker -> Places] /\ \A w \in Worker : HandlerOK(w)
  BY DEF Init, HandlerOK, Places, NotHandling
<1>5. \A e \in Enqueuer : enq[e].pc = "idle" /\ scan[e].pc = "idle"
  BY DEF Init, Queue!Init, Queue!NoCall, Queue!Outcome, NotScanning
<1>6. \A e \in Enqueuer : ScanOK(scan[e], enq[e]) BY <1>5 DEF ScanOK
<1>7. Unseen \in WatchRow /\ Unseen.job = NoJob BY DEF Unseen, WatchRow
<1>8. watch \in [Path -> WatchRow] /\ \A p \in Path : RowMatches(p, watch[p])
  BY <1>7 DEF Init, RowMatches
<1> QED BY <1>2, <1>3, <1>4, <1>6, <1>8 DEF Inv

(***************************************************************************)
(* What stays                                                              *)
(***************************************************************************)

(* The archive only grows, and the folder changes by edits alone. *)
Growth ==
  /\ UNCHANGED <<type, provider>>
  /\ edits \in Nat /\ edits' \in Nat /\ edits <= edits'
  /\ edits' = 0 => UNCHANGED folder
  /\ objects \subseteq objects' /\ artifacts \subseteq artifacts' /\ texts \subseteq texts'

KeysStay == \A id \in JobId : Taken(id) => Taken(id)' /\ jobs'[id].key = jobs[id].key

LEMMA SameGrowth ==
  ASSUME Inv, UNCHANGED userVars,
         objects \subseteq objects', artifacts \subseteq artifacts', texts \subseteq texts'
  PROVE  Growth /\ Users' /\ UNCHANGED folder
BY DEF Inv, Users, Growth, userVars

LEMMA CausesStay == Growth => \A k : Cause(k) => Cause(k)'
BY DEF Growth, Cause

LEMMA AchievementsStay == Growth => \A p, k : Achieved(p, k) => Achieved(p, k)'
<1> SUFFICES ASSUME Growth, NEW p, NEW k, Achieved(p, k) PROVE Achieved(p, k)' OBVIOUS
<1>1. Cause(k) => Cause(k)' BY CausesStay
<1> QED BY <1>1 DEF Growth, Achieved

LEMMA NamesStay == KeysStay => \A id, k : Names(id, k) => Names(id, k)'
BY DEF KeysStay, Names

LEMMA TouchingKeeps ==
  ASSUME NEW id, Touches(id) PROVE KeysStay
BY DEF Touches, KeysStay, Taken

LEMMA RowsStay == Growth => \A row : RowOK(row) => RowOK(row)'
<1> SUFFICES ASSUME Growth, NEW row, RowOK(row) PROVE RowOK(row)' OBVIOUS
<1>1. Cause(row.key) => Cause(row.key)' BY CausesStay
<1>2. edits' = 0 => edits = 0 /\ UNCHANGED folder BY DEF Growth
<1>3. texts \subseteq texts' BY DEF Growth
<1> QED BY <1>1, <1>2, <1>3 DEF RowOK

LEMMA HandlerStays ==
  ASSUME NEW w \in Worker, QueueFacts, HandlerOK(w), KeysStay, Growth,
         handler'[w] = handler[w], held'[w] = held[w]
  PROVE  HandlerOK(w)'
<1>1. CASE handler[w] = "idle" BY <1>1 DEF HandlerOK
<1>2. CASE handler[w] # "idle"
  <2>1. PICK id : id = held[w].job OBVIOUS
  <2>2. PICK k : k = jobs[id].key OBVIOUS
  <2>3. PICK p : p = handler[w] OBVIOUS
  <2>4. id # NoJob /\ id \in JobId /\ Taken(id)
    BY <1>2, <2>1 DEF HandlerOK, QueueFacts, QP!Copy, Taken
  <2>5. held'[w].job = id /\ jobs'[id].key = k /\ handler'[w] = p
    BY <2>1, <2>2, <2>3, <2>4 DEF KeysStay
  <2>6. Achieved(p, k) BY <1>2, <2>1, <2>2, <2>3 DEF HandlerOK, Payload
  <2>7. Achieved(p, k)' BY <2>6, AchievementsStay
  <2>8. Payload(w)' = k BY <2>5 DEF Payload
  <2>9. p \in Places BY <2>3 DEF HandlerOK
  <2> QED BY <2>4, <2>5, <2>7, <2>8, <2>9 DEF HandlerOK
<1> QED BY <1>1, <1>2

LEMMA ScansStay == Growth /\ KeysStay => \A q, call : ScanOK(q, call) => ScanOK(q, call)'
<1> SUFFICES ASSUME Growth, KeysStay, NEW q, NEW call, ScanOK(q, call) PROVE ScanOK(q, call)'
  OBVIOUS
<1>1. Names(call.job, call.key) => Names(call.job, call.key)' BY NamesStay
<1>2. edits' = 0 => edits = 0 /\ UNCHANGED folder BY DEF Growth
<1> QED BY <1>1, <1>2 DEF ScanOK

LEMMA WatchStays ==
  ASSUME KeysStay, UNCHANGED watch, \A p \in Path : RowMatches(p, watch[p])
  PROVE  \A p \in Path : RowMatches(p, watch[p])'
<1> SUFFICES ASSUME NEW p \in Path PROVE RowMatches(p, watch[p])' OBVIOUS
<1>1. PICK row : row = watch[p] OBVIOUS
<1>2. Names(row.job, <<p, row.hash>>) => Names(row.job, <<p, row.hash>>)' BY NamesStay
<1>3. RowMatches(p, row) BY <1>1
<1>4. RowMatches(p, row)' BY <1>2, <1>3 DEF RowMatches
<1> QED BY <1>1, <1>4 DEF RowMatches

(* Steps that leave the queue, the scans or the workers alone. *)
LEMMA QueueStays == UNCHANGED queueVars => KeysStay
BY DEF queueVars, KeysStay, Taken

-----------------------------------------------------------------------------
(***************************************************************************)
(* The kinds of steps                                                      *)
(***************************************************************************)

LEMMA RowsUnchanged ==
  ASSUME Growth, UNCHANGED jobs, \A id \in JobId : RowOK(jobs[id])
  PROVE  \A id \in JobId : RowOK(jobs[id])'
<1> SUFFICES ASSUME NEW id \in JobId PROVE RowOK(jobs[id])' OBVIOUS
<1>1. PICK row : row = jobs[id] OBVIOUS
<1>2. RowOK(row)' BY <1>1, RowsStay
<1> QED BY <1>1, <1>2 DEF RowOK

LEMMA ScanUnchanged ==
  ASSUME Growth, KeysStay, NEW e, ScanOK(scan[e], enq[e]), scan'[e] = scan[e], enq'[e] = enq[e]
  PROVE  ScanOK(scan[e], enq[e])'
<1>1. PICK q, call : q = scan[e] /\ call = enq[e] OBVIOUS
<1>2. ScanOK(q, call)' BY <1>1, ScansStay
<1> QED BY <1>1, <1>2 DEF ScanOK, Names, Taken

(* A step of HandleJob that is not one of the queue. *)
LEMMA HandlerMoves ==
  ASSUME QueueFacts, Inv, NEW w \in Worker, handler[w] # "idle",
         UNCHANGED <<queueVars, userVars, scan, watch>>,
         NEW p \in Places, handler' = [handler EXCEPT ![w] = p],
         objects \subseteq objects', artifacts \subseteq artifacts', texts \subseteq texts',
         Stored', NEW k, k = Payload(w), Achieved(p, k)'
  PROVE  Inv'
<1>1. Growth /\ Users' BY SameGrowth
<1>2. KeysStay BY QueueStays
<1>3. \A id \in JobId : RowOK(jobs[id])' BY <1>1, RowsUnchanged DEF Inv, queueVars
<1>4. handler' \in [Worker -> Places] BY DEF Inv
<1>5. ASSUME NEW v \in Worker PROVE HandlerOK(v)'
  <2>1. CASE v # w
    <3>1. handler'[v] = handler[v] /\ held'[v] = held[v] BY <2>1 DEF Inv, queueVars
    <3> QED BY <3>1, <1>1, <1>2, HandlerStays DEF Inv
  <2>2. CASE v = w
    <3>1. handler'[w] = p /\ UNCHANGED <<jobs, held>> BY DEF Inv, queueVars
    <3>2. held[w].job # NoJob BY DEF Inv, HandlerOK
    <3>3. Payload(w)' = k BY <3>1 DEF Payload
    <3> QED BY <2>2, <3>1, <3>2, <3>3 DEF HandlerOK
  <2> QED BY <2>1, <2>2
<1>6. \A e \in Enqueuer : ScanOK(scan[e], enq[e])' BY <1>1, <1>2, ScanUnchanged DEF Inv, queueVars
<1>7. \A q \in Path : RowMatches(q, watch[q])' BY <1>2, WatchStays DEF Inv
<1> QED BY <1>1, <1>3, <1>4, <1>5, <1>6, <1>7 DEF Inv

(* A step of a scan that is not one of the queue. *)
LEMMA ScanMoves ==
  ASSUME QueueFacts, Inv, NEW e \in Enqueuer, UNCHANGED <<queueVars, userVars, handler, archiveVars>>,
         ScansNamed, NEW q, scan' = [scan EXCEPT ![e] = q], ScanOK(q, enq[e]),
         watch' \in [Path -> WatchRow], \A p \in Path : RowMatches(p, watch[p])'
  PROVE  Inv'
<1>1. Growth /\ Users' BY SameGrowth DEF archiveVars
<1>2. KeysStay BY QueueStays
<1>3. \A id \in JobId : RowOK(jobs[id])' BY <1>1, RowsUnchanged DEF Inv, queueVars
<1>4. \A w \in Worker : HandlerOK(w)' BY <1>1, <1>2, HandlerStays DEF Inv, queueVars
<1>5. ASSUME NEW d \in Enqueuer PROVE ScanOK(scan[d], enq[d])'
  <2>1. CASE d # e
    <3>1. scan'[d] = scan[d] /\ enq'[d] = enq[d] BY <2>1 DEF ScansNamed, queueVars
    <3> QED BY <3>1, <1>1, <1>2, ScanUnchanged DEF Inv
  <2>2. CASE d = e
    <3>1. PICK call : call = enq[e] OBVIOUS
    <3>2. ScanOK(q, call)' BY <1>1, <1>2, <3>1, ScansStay
    <3>3. scan'[e] = q /\ enq'[e] = call BY <3>1 DEF ScansNamed, queueVars
    <3> QED BY <2>2, <3>2, <3>3 DEF ScanOK, Names, Taken
  <2> QED BY <2>1, <2>2
<1>6. Stored' /\ handler' \in [Worker -> Places] BY DEF Inv, Stored, archiveVars
<1> QED BY <1>1, <1>3, <1>4, <1>5, <1>6 DEF Inv

(* A step of a scan inside Enqueue. *)
LEMMA CallMoves ==
  ASSUME QueueFacts, Inv, NEW e \in Enqueuer, Alone(e), KeysStay,
         UNCHANGED <<userVars, watch, handler, archiveVars>>,
         \A d \in Enqueuer \ {e} : scan'[d] = scan[d],
         ScanOK(scan[e], enq[e])', \A id \in JobId : RowOK(jobs[id])'
  PROVE  Inv'
<1>1. Growth /\ Users' BY SameGrowth DEF archiveVars
<1>2. \A w \in Worker : HandlerOK(w)' BY <1>1, HandlerStays DEF Inv, Alone
<1>3. ASSUME NEW d \in Enqueuer PROVE ScanOK(scan[d], enq[d])'
  BY <1>1, ScanUnchanged DEF Inv, Alone
<1>4. \A p \in Path : RowMatches(p, watch[p])' BY WatchStays DEF Inv
<1>5. Stored' /\ handler' \in [Worker -> Places] /\ watch' \in [Path -> WatchRow]
  BY DEF Inv, Stored, archiveVars
<1> QED BY <1>1, <1>2, <1>3, <1>4, <1>5 DEF Inv

(* A worker begins with a job, or is done with it. *)
LEMMA WorkerMoves ==
  ASSUME QueueFacts, Inv, NEW w \in Worker, KeysStay,
         UNCHANGED <<userVars, scan, watch, archiveVars, enq>>,
         \A v \in Worker \ {w} : held'[v] = held[v],
         NEW p \in {"idle", "store"}, handler' = [handler EXCEPT ![w] = p],
         p = "store" => held'[w].job # NoJob,
         \A id \in JobId : RowOK(jobs[id])'
  PROVE  Inv'
<1>1. Growth /\ Users' BY SameGrowth DEF archiveVars
<1>2. ASSUME NEW v \in Worker PROVE HandlerOK(v)'
  <2>1. CASE v # w
    <3>1. handler'[v] = handler[v] /\ held'[v] = held[v] BY <2>1 DEF Inv
    <3> QED BY <3>1, <1>1, HandlerStays DEF Inv
  <2>2. CASE v = w
    <3>1. handler'[w] = p BY DEF Inv
    <3>2. Achieved(handler[w], Payload(w))' BY <3>1 DEF Achieved
    <3> QED BY <2>2, <3>1, <3>2 DEF HandlerOK, Places
  <2> QED BY <2>1, <2>2
<1>3. handler' \in [Worker -> Places] BY DEF Inv, Places
<1>4. \A e \in Enqueuer : ScanOK(scan[e], enq[e])' BY <1>1, ScanUnchanged DEF Inv
<1>5. \A q \in Path : RowMatches(q, watch[q])' BY WatchStays DEF Inv
<1>6. Stored' BY DEF Inv, Stored, archiveVars
<1> QED BY <1>1, <1>2, <1>3, <1>4, <1>5, <1>6 DEF Inv

(* When one row changes and its new form is right, all rows are right. *)
LEMMA TouchedRows ==
  ASSUME QueueFacts, Inv, Growth, NEW id, Touches(id), NEW row, row = jobs'[id], RowOK(row)
  PROVE  \A j \in JobId : RowOK(jobs[j])'
<1> SUFFICES ASSUME NEW j \in JobId PROVE RowOK(jobs[j])' OBVIOUS
<1>1. PICK r : r = jobs'[j] OBVIOUS
<1>2. RowOK(r) BY <1>1 DEF Touches, Inv
<1>3. RowOK(r)' BY <1>2, RowsStay
<1> QED BY <1>1, <1>3 DEF RowOK

(* The user edits, a file settles. *)
LEMMA UserMoves ==
  ASSUME QueueFacts, Inv, UNCHANGED <<type, provider, queueVars, scan, watch, archiveVars>>,
         Growth, Users', handler' \in [Worker -> Places], \A w \in Worker : HandlerOK(w)'
  PROVE  Inv'
<1>1. KeysStay BY QueueStays
<1>2. \A id \in JobId : RowOK(jobs[id])' BY RowsUnchanged DEF Inv, queueVars
<1>3. \A e \in Enqueuer : ScanOK(scan[e], enq[e])' BY <1>1, ScanUnchanged DEF Inv, queueVars
<1>4. \A p \in Path : RowMatches(p, watch[p])' BY <1>1, WatchStays DEF Inv
<1>5. Stored' /\ watch' \in [Path -> WatchRow] BY DEF Inv, Stored, archiveVars
<1> QED BY <1>2, <1>3, <1>4, <1>5 DEF Inv

-----------------------------------------------------------------------------
(* One lemma per action *)

LEMMA EditKeeps ==
  ASSUME QueueFacts, Inv, NEW p \in Path, NEW c \in Content \cup {NoFile}, Edit(p, c)
  PROVE  Inv'
<1>1. edits' = edits + 1 /\ edits \in Nat /\ edits < MaxEdits BY DEF Edit, Inv, Users
<1>2. Users' BY <1>1 DEF Edit, Inv, Users
<1>3. Growth BY <1>1 DEF Edit, Growth, archiveVars
<1>4. KeysStay BY QueueStays DEF Edit
<1>5. PICK torn \in SUBSET Copying(p) :
        handler' = [w \in Worker |-> IF w \in torn THEN "torn" ELSE handler[w]]
  BY DEF Edit
<1>6. handler' \in [Worker -> Places] BY <1>5 DEF Inv, Places
<1>7. ASSUME NEW w \in Worker PROVE HandlerOK(w)'
  <2>1. CASE w \in torn
    <3>1. handler[w] = "store" /\ handler'[w] = "torn" BY <1>5, <2>1 DEF Copying
    <3>2. held'[w].job # NoJob BY <3>1 DEF Inv, HandlerOK, Edit, queueVars
    <3>3. Achieved(handler[w], Payload(w))' BY <1>1, <3>1 DEF Achieved
    <3> QED BY <1>6, <3>2, <3>3 DEF HandlerOK
  <2>2. CASE w \notin torn
    <3>1. handler'[w] = handler[w] BY <1>5, <2>2
    <3>2. held' = held BY DEF Edit, queueVars
    <3> QED BY <1>3, <1>4, <3>1, <3>2, HandlerStays DEF Inv
  <2> QED BY <2>1, <2>2
<1> QED BY <1>2, <1>3, <1>6, <1>7, UserMoves DEF Edit

LEMMA SettleKeeps ==
  ASSUME QueueFacts, Inv, NEW p \in Path, Settle(p)
  PROVE  Inv'
<1>1. Users' BY DEF Settle, Inv, Users
<1>2. Growth BY DEF Settle, Growth, archiveVars, Inv, Users
<1>3. KeysStay BY QueueStays DEF Settle
<1>4. UNCHANGED <<handler, held>> BY DEF Settle, queueVars
<1>5. \A w \in Worker : HandlerOK(w)' BY <1>2, <1>3, <1>4, HandlerStays DEF Inv
<1>6. handler' \in [Worker -> Places] BY <1>4 DEF Inv
<1> QED BY <1>1, <1>2, <1>5, <1>6, UserMoves DEF Settle

LEMMA ScanFileKeeps ==
  ASSUME QueueFacts, Inv, ScansNamed, NEW e \in Enqueuer, NEW p \in Path, ScanFile(e, p)
  PROVE  Inv'
<1>1. PICK q : q = [pc |-> IF ~settled[p] THEN "settling"
                           ELSE IF type[p] = "other" THEN "unsupported" ELSE "hash",
                    path |-> p, hash |-> NoFile]
  OBVIOUS
<1>2. scan' = [scan EXCEPT ![e] = q] BY <1>1 DEF ScanFile
<1>3. q.pc \notin {"enqueue", "enqueuing"} BY <1>1
<1>4. enq[e].pc \notin {"insert", "refind"} BY DEF Inv, ScanOK, ScanFile
<1>5. ScanOK(q, enq[e]) BY <1>3, <1>4 DEF ScanOK
<1>6. watch' \in [Path -> WatchRow] /\ \A r \in Path : RowMatches(r, watch[r])'
  BY QueueStays, WatchStays DEF ScanFile, Inv
<1> QED BY <1>2, <1>5, <1>6, ScanMoves DEF ScanFile

(* A scan is done with its file and not inside Enqueue. *)
LEMMA ScanEnds ==
  ASSUME NEW call, call.pc \notin {"insert", "refind"} PROVE ScanOK(NotScanning, call)
BY DEF ScanOK, NotScanning

LEMMA ScanSkipKeeps ==
  ASSUME QueueFacts, Inv, ScansNamed, NEW e \in Enqueuer, ScanSkip(e)
  PROVE  Inv'
<1>1. scan[e].pc \in {"settling", "unsupported", "read error"} BY DEF ScanSkip, SkipReasons
<1>2. enq[e].pc \notin {"insert", "refind"} BY <1>1 DEF Inv, ScanOK
<1>3. PICK row : row = [hash |-> NoFile, job |-> NoJob, ignored |-> scan[e].pc] OBVIOUS
<1>4. row \in WatchRow /\ row.job = NoJob BY <1>1, <1>3 DEF WatchRow
<1>5. watch' = [watch EXCEPT ![scan[e].path] = row] BY <1>3 DEF ScanSkip
<1>6. watch' \in [Path -> WatchRow] BY <1>4, <1>5 DEF Inv
<1>7. ASSUME NEW p \in Path PROVE RowMatches(p, watch[p])'
  <2>1. CASE p = scan[e].path BY <2>1, <1>4, <1>5 DEF RowMatches, Inv
  <2>2. CASE p # scan[e].path
    <3>1. watch'[p] = watch[p] BY <2>2, <1>5 DEF Inv
    <3>2. RowMatches(p, watch[p]) /\ UNCHANGED jobs BY DEF Inv, ScanSkip, queueVars
    <3> QED BY <3>1, <3>2 DEF RowMatches, Names, Taken
  <2> QED BY <2>1, <2>2
<1> QED BY <1>2, <1>6, <1>7, ScanEnds, ScanMoves DEF ScanSkip

LEMMA ScanHashKeeps ==
  ASSUME QueueFacts, Inv, ScansNamed, NEW e \in Enqueuer, ScanHash(e)
  PROVE  Inv'
<1>1. PICK p : p = scan[e].path OBVIOUS
<1>2. PICK q : q = [pc |-> IF folder[p] = NoFile THEN "read error" ELSE "enqueue",
                    path |-> p, hash |-> folder[p]]
  OBVIOUS
<1>3. scan' = [scan EXCEPT ![e] = q] BY <1>1, <1>2 DEF ScanHash
<1>4. enq[e].pc \notin {"insert", "refind"} BY DEF Inv, ScanOK, ScanHash
<1>5. ScanOK(q, enq[e]) BY <1>2, <1>4 DEF ScanOK
<1>6. watch' \in [Path -> WatchRow] /\ \A r \in Path : RowMatches(r, watch[r])'
  BY QueueStays, WatchStays DEF ScanHash, Inv
<1> QED BY <1>3, <1>5, <1>6, ScanMoves DEF ScanHash

LEMMA ScanEnqueueKeeps ==
  ASSUME QueueFacts, Inv, ScansNamed, NEW e \in Enqueuer, ScanEnqueue(e)
  PROVE  Inv'
<1>1. PICK k : k = <<scan[e].path, scan[e].hash>> OBVIOUS
<1>2. PICK m \in MaxAttempts : Queue!Enqueue(e, k, 0, m) BY <1>1 DEF ScanEnqueue
<1>3. /\ Alone(e) /\ UNCHANGED jobs /\ enq'[e].key = k
      /\ enq'[e].pc = "insert" \/ (enq'[e].pc = "returned" /\ Names(enq'[e].job, k))
  BY <1>2, EnqueueAnswers
<1>4. KeysStay BY <1>3 DEF KeysStay, Taken
<1>5. Growth /\ UNCHANGED <<edits, folder>> BY SameGrowth DEF ScanEnqueue, archiveVars, userVars
<1>6. scan[e] \in Scanning /\ scan'[e].pc = "enqueuing"
      /\ scan'[e].path = scan[e].path /\ scan'[e].hash = scan[e].hash
  BY DEF ScansNamed, ScanEnqueue, Scanning
<1>7. edits = 0 => folder[scan[e].path] = scan[e].hash BY DEF Inv, ScanOK, ScanEnqueue
<1>8. ScanOK(scan[e], enq[e])' BY <1>1, <1>3, <1>5, <1>6, <1>7 DEF ScanOK, Names, Taken
<1>9. \A d \in Enqueuer \ {e} : scan'[d] = scan[d] BY DEF ScansNamed, ScanEnqueue
<1>10. \A id \in JobId : RowOK(jobs[id])' BY <1>3, <1>5, RowsUnchanged DEF Inv
<1> QED BY <1>3, <1>4, <1>8, <1>9, <1>10, CallMoves DEF ScanEnqueue

LEMMA ScanEnqueuingKeeps ==
  ASSUME QueueFacts, Inv, ScansNamed, NEW e \in Enqueuer, ScanEnqueuing(e)
  PROVE  Inv'
<1>0. UNCHANGED <<userVars, scan, watch, handler, archiveVars>> BY DEF ScanEnqueuing
<1>1. Growth /\ UNCHANGED <<edits, folder>> BY <1>0, SameGrowth DEF archiveVars, userVars
<1>2. enq[e].pc \in {"insert", "refind"} BY DEF ScanEnqueuing, Queue!Insert, Queue!Refind
<1>3. PICK k : k = enq[e].key OBVIOUS
<1>4. scan[e].pc = "enqueuing" /\ k = <<scan[e].path, scan[e].hash>>
      /\ (edits = 0 => folder[scan[e].path] = scan[e].hash)
  BY <1>2, <1>3 DEF Inv, ScanOK
<1>5. k \in Version BY <1>4 DEF ScansNamed, Named, Version
<1>6. /\ Alone(e) /\ enq'[e].key = k /\ KeysStay
      /\ \A id \in JobId : RowOK(jobs[id])'
      /\ enq'[e].pc \in {"insert", "refind", "returned", "error"}
      /\ enq'[e].pc = "returned" => Names(enq[e].job, k)'
  <2>1. CASE UNCHANGED jobs /\ Alone(e) /\ enq'[e].key = k
             /\ (enq'[e].pc \in {"refind", "error"}
                  \/ (enq'[e].pc = "returned" /\ Names(enq'[e].job, k)))
    <3>1. KeysStay BY <2>1 DEF KeysStay, Taken
    <3>2. \A id \in JobId : RowOK(jobs[id])' BY <2>1, <1>1, RowsUnchanged DEF Inv
    <3> QED BY <2>1, <3>1, <3>2 DEF Names, Taken
  <2>2. CASE Queue!Refind(e) BY <2>1, <2>2, <1>3, RefindAnswers
  <2>3. CASE Queue!Insert(e) /\ UNCHANGED jobs /\ enq'[e].pc = "refind"
    BY <2>1, <2>3, <1>3, InsertAnswers
  <2>4. CASE Queue!Insert(e) /\ ~(UNCHANGED jobs /\ enq'[e].pc = "refind")
    <3>1. Alone(e) /\ enq'[e].key = k /\ enq'[e].pc = "returned"
      BY <2>4, <1>3, InsertAnswers
    <3>2. PICK id \in JobId : /\ ~Taken(id) /\ jobs'[id].status = "queued" /\ jobs'[id].key = k
                              /\ enq'[e].job = id
                              /\ \A j \in JobId \ {id} : jobs'[j] = jobs[j]
      BY <2>4, <1>3, InsertAnswers
    <3>3. KeysStay BY <3>2 DEF KeysStay, Taken
    <3>4. Names(id, k)' BY <3>2 DEF Names, Taken
    <3>5. ASSUME NEW j \in JobId PROVE RowOK(jobs[j])'
      <4>1. PICK r : r = jobs'[j] OBVIOUS
      <4>2. CASE j = id
        <5>1. r.status = "queued" /\ r.key = k BY <4>1, <4>2, <3>2
        <5>2. edits = 0 => folder[k[1]] = k[2] BY <1>4
        <5>3. RowOK(r) BY <5>1, <5>2, <1>5 DEF RowOK
        <5>4. RowOK(r)' BY <5>3, <1>1, RowsStay
        <5> QED BY <5>4, <4>1 DEF RowOK
      <4>3. CASE j # id
        <5>1. RowOK(r) BY <4>1, <4>3, <3>2 DEF Inv
        <5>2. RowOK(r)' BY <5>1, <1>1, RowsStay
        <5> QED BY <5>2, <4>1 DEF RowOK
      <4> QED BY <4>2, <4>3
    <3> QED BY <3>1, <3>2, <3>3, <3>4, <3>5 DEF Names, Taken
  <2> QED BY <2>2, <2>3, <2>4 DEF ScanEnqueuing
<1>7. ScanOK(scan[e], enq[e])'
  <2>1. scan'[e].pc = "enqueuing" /\ k = <<scan'[e].path, scan'[e].hash>>
        /\ (edits' = 0 => folder'[scan'[e].path] = scan'[e].hash)
    BY <1>0, <1>1, <1>4
  <2>2. enq'[e].pc = "returned" => Names(enq[e].job, enq[e].key)'
    BY <1>6 DEF Names, Taken
  <2> QED BY <1>6, <2>1, <2>2 DEF ScanOK
<1> QED BY <1>0, <1>6, <1>7, CallMoves

LEMMA ScanRecordKeeps ==
  ASSUME QueueFacts, Inv, ScansNamed, NEW e \in Enqueuer, ScanRecord(e)
  PROVE  Inv'
<1>1. enq[e].pc \notin {"insert", "refind"} BY DEF ScanRecord
<1>2. UNCHANGED <<queueVars, userVars, handler, archiveVars>>
      /\ scan' = [scan EXCEPT ![e] = NotScanning]
  BY DEF ScanRecord
<1>3. watch' \in [Path -> WatchRow] /\ \A p \in Path : RowMatches(p, watch[p])'
  <2>1. CASE enq[e].pc = "error"
    BY <2>1, <1>2, QueueStays, WatchStays DEF ScanRecord, Inv
  <2>2. CASE enq[e].pc = "returned"
    <3>1. PICK s : s = scan[e].path OBVIOUS
    <3>2. PICK row : row = [hash |-> scan[e].hash, job |-> enq[e].job, ignored |-> "no"] OBVIOUS
    <3>3. watch' = [watch EXCEPT ![s] = row] BY <2>2, <3>1, <3>2 DEF ScanRecord
    <3>4. scan[e] \in Scanning /\ scan[e].pc = "enqueuing" BY DEF ScansNamed, ScanRecord
    <3>5. enq[e].key = <<s, row.hash>> /\ Names(row.job, <<s, row.hash>>)
      BY <2>2, <3>1, <3>2, <3>4 DEF Inv, ScanOK
    <3>6. row \in WatchRow BY <3>2, <3>4, <3>5 DEF WatchRow, Scanning, Names
    <3>7. watch' \in [Path -> WatchRow] BY <3>3, <3>6 DEF Inv
    <3>8. ASSUME NEW p \in Path PROVE RowMatches(p, watch[p])'
      <4>1. UNCHANGED jobs BY <1>2 DEF queueVars
      <4>2. CASE p = s
        <5>1. watch'[p] = row /\ row.ignored = "no" BY <4>2, <3>2, <3>3 DEF Inv
        <5> QED BY <5>1, <4>1, <4>2, <3>5 DEF RowMatches, Names, Taken
      <4>3. CASE p # s
        <5>1. watch'[p] = watch[p] /\ RowMatches(p, watch[p]) BY <4>3, <3>3 DEF Inv
        <5> QED BY <5>1, <4>1 DEF RowMatches, Names, Taken
      <4> QED BY <4>2, <4>3
    <3> QED BY <3>7, <3>8
  <2> QED BY <2>1, <2>2 DEF ScanRecord
<1> QED BY <1>1, <1>2, <1>3, ScanEnds, ScanMoves

LEMMA ScanFailsKeeps ==
  ASSUME QueueFacts, Inv, ScansNamed, NEW e \in Enqueuer, ScanFails(e)
  PROVE  Inv'
<1>1. UNCHANGED <<userVars, watch, handler, archiveVars>>
      /\ scan' = [scan EXCEPT ![e] = NotScanning]
  BY DEF ScanFails
<1>2. CASE scan[e].pc \in SkipReasons \cup {"enqueue"} /\ UNCHANGED queueVars
  <2>1. enq[e].pc \notin {"insert", "refind"} BY <1>2 DEF Inv, ScanOK, SkipReasons
  <2>2. watch' \in [Path -> WatchRow] /\ \A p \in Path : RowMatches(p, watch[p])'
    BY <1>1, <1>2, QueueStays, WatchStays DEF Inv
  <2> QED BY <1>1, <1>2, <2>1, <2>2, ScanEnds, ScanMoves
<1>3. CASE Queue!EnqueueFails(e)
  <2>1. Alone(e) /\ UNCHANGED jobs /\ enq'[e].pc = "idle" BY <1>3, FailingAnswers
  <2>2. KeysStay BY <2>1 DEF KeysStay, Taken
  <2>3. scan'[e] = NotScanning /\ \A d \in Enqueuer \ {e} : scan'[d] = scan[d]
    BY <1>1 DEF ScansNamed
  <2>4. ScanOK(scan[e], enq[e])' BY <2>1, <2>3 DEF ScanOK, NotScanning
  <2>5. \A id \in JobId : RowOK(jobs[id])'
    BY <1>1, <2>1, SameGrowth, RowsUnchanged DEF Inv, archiveVars
  <2> QED BY <1>1, <2>1, <2>2, <2>3, <2>4, <2>5, CallMoves
<1> QED BY <1>2, <1>3 DEF ScanFails

-----------------------------------------------------------------------------
LEMMA ClaimKeeps ==
  ASSUME QueueFacts, Inv, NEW w \in Worker, Claim(w)
  PROVE  Inv'
<1>1. UNCHANGED <<userVars, scan, watch, archiveVars>> /\ handler' = [handler EXCEPT ![w] = "store"]
  BY DEF Claim
<1>2. PICK id \in JobId : Touches(id) /\ jobs'[id].status = "running" /\ held'[w].job = id
  BY ClaimTouches DEF Claim
<1>3. UNCHANGED enq /\ \A v \in Worker \ {w} : held'[v] = held[v] BY ClaimTouches DEF Claim
<1>4. KeysStay BY <1>2, TouchingKeeps
<1>5. Growth BY <1>1, SameGrowth DEF archiveVars
<1>6. PICK row : row = jobs'[id] OBVIOUS
<1>7. RowOK(row)
  <2>1. RowOK(jobs[id]) BY DEF Inv
  <2>2. row.status = "running" /\ row.key = jobs[id].key /\ Taken(id) BY <1>2, <1>6 DEF Touches
  <2> QED BY <2>1, <2>2 DEF RowOK, Taken
<1>8. \A j \in JobId : RowOK(jobs[j])' BY <1>2, <1>5, <1>6, <1>7, TouchedRows
<1>9. id # NoJob OBVIOUS
<1> QED BY <1>1, <1>2, <1>3, <1>4, <1>8, <1>9, WorkerMoves

(* The worker lets its job go, whose row now says what became of it. *)
LEMMA EndKeeps ==
  ASSUME QueueFacts, Inv, NEW w \in Worker, LetsGo(w), UNCHANGED enq,
         UNCHANGED <<userVars, scan, watch, archiveVars>>,
         handler' = [handler EXCEPT ![w] = NotHandling],
         NEW id, id = held[w].job, Touches(id),
         NEW k, k = Payload(w),
         jobs'[id].status \in {"succeeded", "failed", "dead"},
         jobs'[id].status = "succeeded" => k \in texts,
         jobs'[id].status = "dead" /\ jobs'[id].attempts < jobs'[id].max => Cause(k)
  PROVE  Inv'
<1>1. Growth BY SameGrowth DEF archiveVars
<1>2. PICK row : row = jobs'[id] OBVIOUS
<1>3. RowOK(row)
  <2>1. RowOK(jobs[id]) BY DEF Inv, Touches
  <2>2. jobs[id].key = k BY DEF Payload
  <2>3. row.key = k /\ Taken(id) BY <1>2, <2>2 DEF Touches
  <2> QED BY <1>2, <2>1, <2>2, <2>3 DEF RowOK, Taken
<1>4. \A j \in JobId : RowOK(jobs[j])' BY <1>1, <1>2, <1>3, TouchedRows
<1>5. KeysStay BY TouchingKeeps
<1> QED BY <1>4, <1>5, WorkerMoves DEF LetsGo, NotHandling

LEMMA ReportKeeps ==
  ASSUME QueueFacts, Inv, NEW w \in Worker, Report(w)
  PROVE  Inv'
<1>1. /\ UNCHANGED <<userVars, scan, watch, archiveVars>>
      /\ handler' = [handler EXCEPT ![w] = NotHandling]
  BY DEF Report
<1>2. PICK id : id = held[w].job OBVIOUS
<1>3. PICK k : k = Payload(w) OBVIOUS
<1>4. HandlerOK(w) BY DEF Inv
<1>5. CASE handler[w] = "done" /\ Queue!Succeed(w)
  <2>1. k \in texts BY <1>3, <1>4, <1>5 DEF HandlerOK, Achieved
  <2>2. Touches(id) /\ jobs'[id].status = "succeeded" /\ LetsGo(w) /\ UNCHANGED enq
    BY <1>2, <1>5, SucceedTouches
  <2> QED BY <1>1, <1>2, <1>3, <2>1, <2>2, EndKeeps
<1>6. CASE handler[w] = "transient" /\ Queue!Fail(w, FALSE)
  <2>1. /\ Touches(id) /\ jobs'[id].status \in {"failed", "dead"} /\ LetsGo(w) /\ UNCHANGED enq
        /\ ~(jobs'[id].status = "dead" /\ jobs'[id].attempts < jobs'[id].max)
    BY <1>2, <1>6, FailTouches
  <2> QED BY <1>1, <1>2, <1>3, <2>1, EndKeeps
<1>7. CASE handler[w] = "permanent" /\ Queue!Fail(w, TRUE)
  <2>1. Touches(id) /\ jobs'[id].status \in {"failed", "dead"} /\ LetsGo(w) /\ UNCHANGED enq
    BY <1>2, <1>7, FailTouches
  <2>2. Cause(k) BY <1>3, <1>4, <1>7 DEF HandlerOK, Achieved
  <2> QED BY <1>1, <1>2, <1>3, <2>1, <2>2, EndKeeps
<1> QED BY <1>5, <1>6, <1>7 DEF Report

LEMMA LoseReportKeeps ==
  ASSUME QueueFacts, Inv, NEW w \in Worker, LoseReport(w)
  PROVE  Inv'
<1>1. /\ UNCHANGED <<userVars, scan, watch, archiveVars, jobs, enq>>
      /\ handler' = [handler EXCEPT ![w] = "idle"]
      /\ held' = [held EXCEPT ![w] = Queue!Idle]
  BY DEF LoseReport, Queue!LoseResult, NotHandling
<1>2. KeysStay BY <1>1 DEF KeysStay, Taken
<1>3. \A v \in Worker \ {w} : held'[v] = held[v] BY <1>1, LettingGo DEF LetsGo
<1>4. \A id \in JobId : RowOK(jobs[id])'
  BY <1>1, SameGrowth, RowsUnchanged DEF Inv, archiveVars
<1> QED BY <1>1, <1>2, <1>3, <1>4, WorkerMoves

-----------------------------------------------------------------------------
(* The steps of HandleJob *)

(* Where a worker has a job, and which version it is of. *)
LEMMA Working ==
  ASSUME QueueFacts, Inv, NEW w \in Worker, handler[w] # "idle"
  PROVE  /\ Payload(w) \in Version /\ Achieved(handler[w], Payload(w))
         /\ edits = 0 => folder[Payload(w)[1]] = Payload(w)[2]
<1>1. HandlerOK(w) BY DEF Inv
<1>2. held[w].job \in JobId /\ jobs[held[w].job].status = "running"
  BY <1>1 DEF HandlerOK, QueueFacts, QP!Copy
<1>3. RowOK(jobs[held[w].job]) BY <1>2 DEF Inv
<1> QED BY <1>1, <1>2, <1>3 DEF HandlerOK, RowOK, Payload

(* Steps that leave the archive alone. *)
LEMMA OnlyMoves ==
  ASSUME QueueFacts, Inv, NEW w \in Worker, handler[w] # "idle",
         UNCHANGED <<queueVars, userVars, scan, watch, archiveVars>>,
         NEW p \in Places, handler' = [handler EXCEPT ![w] = p],
         Achieved(p, Payload(w))
  PROVE  Inv'
<1>1. PICK k : k = Payload(w) OBVIOUS
<1>2. Growth BY SameGrowth DEF archiveVars
<1>3. Achieved(p, k)' BY <1>1, <1>2, AchievementsStay
<1>4. Stored' BY DEF Inv, Stored, archiveVars
<1> QED BY <1>1, <1>3, <1>4, HandlerMoves DEF archiveVars

LEMMA ErrsKeeps ==
  ASSUME QueueFacts, Inv, NEW w \in Worker, Errs(w)
  PROVE  Inv'
<1>1. Achieved("transient", Payload(w)) /\ "transient" \in Places BY DEF Achieved, Places
<1> QED BY <1>1, OnlyMoves DEF Errs

LEMMA StoreFileKeeps ==
  ASSUME QueueFacts, Inv, ScansNamed, NEW w \in Worker, StoreFile(w)
  PROVE  Inv'
<1>1. PICK k : k = Payload(w) OBVIOUS
<1>2. PICK c : c = Copied(w) OBVIOUS
<1>3. PICK p : p = IF c = NoFile THEN "transient"
                   ELSE IF c # k[2] THEN "permanent" ELSE "persist"
  OBVIOUS
<1>4. handler[w] \in {"store", "torn"} BY DEF StoreFile
<1>5. /\ k \in Version
      /\ edits = 0 => c = k[2]
  BY <1>1, <1>2, <1>4, Working DEF Achieved, Copied
<1>6. c \in Content \cup {NoFile, Torn} BY <1>1, <1>2, <1>5 DEF ScansNamed, Version, Copied
<1>7. /\ objects' = (IF c = NoFile THEN objects ELSE objects \cup {c})
      /\ handler' = [handler EXCEPT ![w] = p]
      /\ UNCHANGED <<queueVars, userVars, scan, watch, blobs, artifacts, texts>>
  BY <1>1, <1>2, <1>3 DEF StoreFile
<1>8. p \in Places BY <1>3 DEF Places
<1>9. Stored' BY <1>6, <1>7 DEF Inv, Stored
<1>10. Achieved(p, k)'
  <2>1. p = "persist" => k[2] \in objects' BY <1>3, <1>7
  <2>2. p = "permanent" => edits' > 0
    BY <1>3, <1>5, <1>7 DEF Inv, Users, userVars
  <2> QED BY <1>3, <2>1, <2>2 DEF Achieved, Cause
<1> QED BY <1>1, <1>4, <1>7, <1>8, <1>9, <1>10, HandlerMoves

LEMMA PersistArtifactKeeps ==
  ASSUME QueueFacts, Inv, NEW w \in Worker, PersistArtifact(w)
  PROVE  Inv'
<1>1. PICK k : k = Payload(w) OBVIOUS
<1>2. /\ handler[w] = "persist" /\ handler' = [handler EXCEPT ![w] = "extract"]
      /\ blobs' = blobs \cup {k[2]} /\ artifacts' = artifacts \cup {k}
      /\ UNCHANGED <<queueVars, userVars, scan, watch, objects, texts>>
  BY <1>1 DEF PersistArtifact
<1>3. k \in Version /\ k[2] \in objects BY <1>1, <1>2, Working DEF Achieved
<1>4. Stored' BY <1>2, <1>3 DEF Inv, Stored, Version
<1>5. Achieved("extract", k)' /\ "extract" \in Places BY <1>2 DEF Achieved, Places
<1> QED BY <1>1, <1>2, <1>4, <1>5, HandlerMoves

(* An extraction ends with text, an error, or the wish to try OCR. *)
LEMMA ExtractionKeeps ==
  ASSUME QueueFacts, Inv, NEW w \in Worker, handler[w] = "extract",
         UNCHANGED <<queueVars, userVars, scan, watch, archiveVars>>,
         NEW outcome \in {"index", "retry", "transient", "permanent"}, Extracted(w, outcome),
         outcome = "permanent" => Cause(Payload(w))
  PROVE  Inv'
<1>1. PICK p : p = IF Payload(w)[2] \in objects THEN outcome ELSE ErrorOf({}) OBVIOUS
<1>2. ErrorOf({}) = "transient" BY DEF ErrorOf, isPermanentExtractError
<1>3. handler' = [handler EXCEPT ![w] = p] BY <1>1 DEF Extracted
<1>4. p \in Places BY <1>1, <1>2 DEF Places
<1>5. Payload(w) \in artifacts BY Working DEF Achieved
<1>6. Achieved(p, Payload(w)) BY <1>1, <1>2, <1>5 DEF Achieved
<1> QED BY <1>3, <1>4, <1>6, OnlyMoves

LEMMA ExtractKeeps ==
  ASSUME QueueFacts, Inv, NEW w \in Worker, extractTextFile(w) \/ RunTool(w) \/ Convert(w)
  PROVE  Inv'
<1>1. /\ handler[w] = "extract"
      /\ UNCHANGED <<queueVars, userVars, scan, watch, archiveVars>>
  BY DEF extractTextFile, RunTool, Convert, Extracting
<1>2. /\ ErrorOf({"not valid utf-8"}) = "permanent"
      /\ ErrorOf({"not installed or not on path"}) = "permanent"
  BY DEF ErrorOf, isPermanentExtractError, Phrases
<1>6. ASSUME type[Payload(w)[1]] # "text", ConversionFails(w) PROVE Inv'
  <2>1. PICK said \in SUBSET Echoes[provider] : Extracted(w, ErrorOf(said))
    BY <1>6 DEF ConversionFails
  <2>2. CASE said = {}
    <3>1. ErrorOf(said) = "transient" BY <2>2 DEF ErrorOf, isPermanentExtractError
    <3> QED BY <1>1, <2>1, <3>1, ExtractionKeeps
  <2>3. CASE said # {}
    <3>1. Cause(Payload(w)) BY <1>6, <2>3 DEF Cause, ConversionFails
    <3>2. ErrorOf(said) \in {"transient", "permanent"} BY DEF ErrorOf
    <3> QED BY <1>1, <2>1, <3>1, <3>2, ExtractionKeeps
  <2> QED BY <2>2, <2>3
<1>3. CASE extractTextFile(w)
  <2>1. type[Payload(w)[1]] = "text" BY <1>3 DEF extractTextFile, Extracting
  <2>2. CASE Payload(w)[2] \in Undecodable
    <3>1. Extracted(w, "permanent") BY <1>2, <1>3, <2>2 DEF extractTextFile
    <3>2. Cause(Payload(w)) BY <2>1, <2>2 DEF Cause
    <3> QED BY <1>1, <3>1, <3>2, ExtractionKeeps
  <2>3. CASE Payload(w)[2] \notin Undecodable
    <3>1. Extracted(w, "index") BY <1>3, <2>3 DEF extractTextFile
    <3> QED BY <1>1, <3>1, ExtractionKeeps
  <2> QED BY <2>2, <2>3
<1>4. CASE RunTool(w)
  <2>1. type[Payload(w)[1]] # "text" /\ provider = "local" BY <1>4 DEF RunTool, Extracting
  <2>2. CASE Extracted(w, "index") BY <1>1, <2>2, ExtractionKeeps
  <2>3. CASE "permanent" \in HandlerErrors /\ Extracted(w, "permanent")
    <3>1. Cause(Payload(w)) BY <2>1, <2>3 DEF Cause
    <3> QED BY <1>1, <2>3, <3>1, ExtractionKeeps
  <2> QED BY <1>2, <1>4, <1>6, <2>1, <2>2, <2>3 DEF RunTool
<1>5. CASE Convert(w)
  <2>1. CASE Extracted(w, "index") BY <1>1, <2>1, ExtractionKeeps
  <2>2. CASE Extracted(w, "retry") BY <1>1, <2>2, ExtractionKeeps
  <2>3. type[Payload(w)[1]] # "text" BY <1>5 DEF Convert, Extracting
  <2> QED BY <1>5, <1>6, <2>1, <2>2, <2>3 DEF Convert
<1> QED BY <1>3, <1>4, <1>5

LEMMA LaterKeeps ==
  ASSUME QueueFacts, Inv, NEW w \in Worker, RetryWithForcedOCR(w) \/ ProcessArtifact(w)
  PROVE  Inv'
<1>1. CASE RetryWithForcedOCR(w)
  <2>1. Achieved("index", Payload(w)) /\ "index" \in Places
    BY <1>1, Working DEF RetryWithForcedOCR, Achieved, Places
  <2> QED BY <1>1, <2>1, OnlyMoves DEF RetryWithForcedOCR
<1>2. CASE ProcessArtifact(w)
  <2>1. Achieved("done", Payload(w)) /\ "done" \in Places
    BY <1>2, Working DEF ProcessArtifact, Achieved, Places
  <2> QED BY <1>2, <2>1, OnlyMoves DEF ProcessArtifact
<1> QED BY <1>1, <1>2

LEMMA PersistExtractionKeeps ==
  ASSUME QueueFacts, Inv, NEW w \in Worker, PersistExtraction(w)
  PROVE  Inv'
<1>1. PICK k : k = Payload(w) OBVIOUS
<1>2. /\ handler[w] = "index" /\ handler' = [handler EXCEPT ![w] = "process"]
      /\ texts' = texts \cup {k}
      /\ UNCHANGED <<queueVars, userVars, scan, watch, objects, blobs, artifacts>>
  BY <1>1 DEF PersistExtraction
<1>3. k \in artifacts BY <1>1, <1>2, Working DEF Achieved
<1>4. Stored' BY <1>2, <1>3 DEF Inv, Stored
<1>5. Achieved("process", k)' /\ "process" \in Places BY <1>2, <1>3 DEF Achieved, Places
<1> QED BY <1>1, <1>2, <1>4, <1>5, HandlerMoves

-----------------------------------------------------------------------------
(* The process ends, and starts again *)

LEMMA StopKeeps ==
  ASSUME QueueFacts, Inv, Stop
  PROVE  Inv'
<1>1. /\ UNCHANGED <<userVars, watch, archiveVars, jobs>>
      /\ enq' = [e \in Enqueuer |-> Queue!NoCall]
      /\ scan' = [e \in Enqueuer |-> NotScanning]
      /\ handler' = [w \in Worker |-> "idle"]
  BY DEF Stop, Queue!Stop, NotHandling
<1>2. Growth /\ Users' BY <1>1, SameGrowth DEF archiveVars
<1>3. KeysStay BY <1>1 DEF KeysStay, Taken
<1>4. \A id \in JobId : RowOK(jobs[id])' BY <1>1, <1>2, RowsUnchanged DEF Inv
<1>5. handler' \in [Worker -> Places] /\ \A w \in Worker : HandlerOK(w)'
  BY <1>1 DEF HandlerOK, Places
<1>6. \A e \in Enqueuer : ScanOK(scan[e], enq[e])'
  BY <1>1 DEF ScanOK, NotScanning, Queue!NoCall, Queue!Outcome
<1>7. \A p \in Path : RowMatches(p, watch[p])' BY <1>1, <1>3, WatchStays DEF Inv
<1>8. Stored' /\ watch' \in [Path -> WatchRow] BY <1>1 DEF Inv, Stored, archiveVars
<1> QED BY <1>2, <1>4, <1>5, <1>6, <1>7, <1>8 DEF Inv

(* Time, a start, and nothing at all. *)
LEMMA Waiting ==
  ASSUME QueueFacts, Inv, UNCHANGED <<userVars, scan, watch, handler, archiveVars, jobs, enq, held>>
  PROVE  Inv'
<1>1. Growth /\ Users' BY SameGrowth DEF archiveVars
<1>2. KeysStay BY DEF KeysStay, Taken
<1>3. \A id \in JobId : RowOK(jobs[id])' BY <1>1, RowsUnchanged DEF Inv
<1>4. \A w \in Worker : HandlerOK(w)' BY <1>1, <1>2, HandlerStays DEF Inv
<1>5. \A e \in Enqueuer : ScanOK(scan[e], enq[e])' BY <1>1, <1>2, ScanUnchanged DEF Inv
<1>6. \A p \in Path : RowMatches(p, watch[p])' BY <1>2, WatchStays DEF Inv
<1>7. Stored' /\ handler' \in [Worker -> Places] /\ watch' \in [Path -> WatchRow]
  BY DEF Inv, Stored, archiveVars
<1> QED BY <1>1, <1>3, <1>4, <1>5, <1>6, <1>7 DEF Inv

LEMMA ClockKeeps ==
  ASSUME QueueFacts, Inv, Clock
  PROVE  Inv'
<1>1. UNCHANGED <<userVars, scan, watch, handler, archiveVars, jobs, enq, held>>
  BY DEF Clock, Queue!Start, Queue!Tick, Queue!ClaimNothing, Queue!vars
<1> QED BY <1>1, Waiting

LEMMA InvStep ==
  ASSUME QueueFacts, ScansNamed, Inv, [Next]_vars
  PROVE  Inv'
<1>1. ASSUME NEW e \in Enqueuer, ScanStep(e) \/ ScanFails(e) PROVE Inv'
  BY <1>1, ScanSkipKeeps, ScanHashKeeps, ScanEnqueueKeeps, ScanEnqueuingKeeps, ScanRecordKeeps,
     ScanFailsKeeps DEF ScanStep
<1>2. ASSUME NEW w \in Worker, Claim(w) \/ Handle(w) \/ Errs(w) \/ Report(w) \/ LoseReport(w)
      PROVE  Inv'
  BY <1>2, ClaimKeeps, ErrsKeeps, ReportKeeps, LoseReportKeeps, StoreFileKeeps,
     PersistArtifactKeeps, ExtractKeeps, LaterKeeps, PersistExtractionKeeps DEF Handle
<1>3. CASE Next
  BY <1>1, <1>2, <1>3, EditKeeps, SettleKeeps, ScanFileKeeps, StopKeeps, ClockKeeps DEF Next
<1>4. CASE UNCHANGED vars BY <1>4, Waiting DEF vars, queueVars
<1> QED BY <1>3, <1>4

LEMMA Invariance == Spec => [](QueueFacts /\ ScansNamed /\ Inv)
<1>1. QP!IInv => QueueFacts BY FromTheQueue
<1>2. QueueFacts /\ Init => Inv BY InvInitially
<1>3. QueueFacts /\ ScansNamed /\ Inv /\ [Next]_vars => Inv' BY InvStep
<1> QED BY <1>1, <1>2, <1>3, QueueHolds, ScansAreNamed, PTL DEF Spec

-----------------------------------------------------------------------------
(* Text belongs to artifacts, artifacts to blob rows, those to stored bytes, *)
(* whatever the user edits and wherever the process stops.                  *)
THEOREM BytesComeFirst == Spec => []RawBytesFirst
<1>1. Inv => RawBytesFirst BY DEF Inv, Stored, RawBytesFirst
<1> QED BY <1>1, Invariance, PTL

(* The job of a file succeeds only with its artifact complete. *)
THEOREM SuccessIsIngested == Spec => []SucceededMeansIngested
<1>1. Inv => SucceededMeansIngested BY DEF Inv, RowOK, SucceededMeansIngested
<1> QED BY <1>1, Invariance, PTL

(* Two workers never have the same artifact: their rows differ, and one key *)
(* has one row that is not dead.                                            *)
THEOREM ArtifactsAreExclusive == Spec => []OneWorkerPerArtifact
<1>1. QueueFacts /\ Inv => OneWorkerPerArtifact
  <2> SUFFICES ASSUME QueueFacts, Inv, NEW v \in Worker, NEW w \in Worker, v # w,
                      held[v].job # NoJob, held[w].job # NoJob, Payload(v) = Payload(w)
               PROVE  FALSE
    BY DEF OneWorkerPerArtifact
  <2>1. PICK i, j : i = held[v].job /\ j = held[w].job OBVIOUS
  <2>2. /\ i \in JobId /\ jobs[i].status = "running" /\ jobs[i].lockedBy = v
        /\ j \in JobId /\ jobs[j].status = "running" /\ jobs[j].lockedBy = w
    BY <2>1 DEF QueueFacts, QP!Copy
  <2>3. jobs[i].key = jobs[j].key BY <2>1 DEF Payload
  <2>4. jobs[i].key \in Version BY <2>2 DEF Inv, RowOK
  <2>5. jobs[i].key # NoKey BY <2>4 DEF Version
  <2>6. i = j BY <2>2, <2>3, <2>5 DEF QueueFacts
  <2> QED BY <2>2, <2>6
<1> QED BY <1>1, Invariance, PTL

(* A watch row names the job of what it records, however scans overlap. *)
THEOREM WatchRowsMatch == Spec => []WatchRowMatchesJob
<1>1. Inv => WatchRowMatchesJob BY DEF Inv, RowMatches, Names, WatchRowMatchesJob
<1> QED BY <1>1, Invariance, PTL

(* A job that dies early dies of what trying again does not remove. *)
THEOREM EarlyDeathsHaveCause == Spec => []EarlyDeathHasCause
<1>1. Inv => EarlyDeathHasCause BY DEF Inv, RowOK, Cause, EarlyDeathHasCause
<1> QED BY <1>1, Invariance, PTL

(* Every reachable state is well typed. *)
THEOREM TypeCorrect == Spec => []TypeOK
<1>1. Spec => []Queue!TypeOK
  <2>1. QP!IInv => Queue!TypeOK
    BY DEF QP!IInv, QP!TypeOK, Queue!TypeOK, QP!Row, Queue!Row, QP!Call, Queue!Call,
           QP!Copy, Queue!Copy, QP!Status, Queue!Status,
           QP!Indexed, Queue!Indexed
  <2> QED BY <2>1, QueueHolds, PTL
<1>2. ScansNamed /\ Inv /\ Queue!TypeOK => TypeOK
  BY DEF TypeOK, ScansNamed, Scanning, Inv, Users, Stored, WatchRow, Places, Version
<1> QED BY <1>1, <1>2, Invariance, PTL

-----------------------------------------------------------------------------
(***************************************************************************)
(* Ingestion implements the archive                                        *)
(***************************************************************************)
Open == {"queued", "running", "failed"}

(* The state of a version by a table of jobs. *)
Some(J, v, statuses) == \E id \in JobId : J[id].key = v /\ J[id].status \in statuses

StateIn(J, v) == IF Some(J, v, {"succeeded"}) THEN "finished"
                 ELSE IF Some(J, v, Open) THEN "open" ELSE "unknown"

States(J) == [v \in Version |-> StateIn(J, v)]

(* Of the rows of one key one is not dead. *)
OneIsLive(J) == \A i, j \in JobId : /\ J[i].status \in Open \cup {"succeeded"}
                                    /\ J[j].status \in Open \cup {"succeeded"}
                                    /\ J[i].key = J[j].key
                                    /\ J[i].key \in Version
                                    => i = j

Others(J, K, id) == \A j \in JobId \ {id} : K[j] = J[j]

LEMMA StatesAre ==
  /\ [v \in Version |-> StateOf(v)] = States(jobs)
  /\ [v \in Version |-> StateOf(v)]' = States(jobs')
BY DEF StateOf, JobOf, States, StateIn, Some, Open, Version

LEMMA OneIsLiveHere == QueueFacts => OneIsLive(jobs)
BY DEF QueueFacts, OneIsLive, Open, Version

(* A row that is not dead says what state its version is in. *)
LEMMA StateOfLive ==
  ASSUME NEW J, OneIsLive(J), NEW id \in JobId, NEW v \in Version, J[id].key = v
  PROVE  /\ J[id].status \in Open => StateIn(J, v) = "open"
         /\ J[id].status = "succeeded" => StateIn(J, v) = "finished"
<1>1. ASSUME J[id].status \in Open PROVE ~Some(J, v, {"succeeded"}) /\ Some(J, v, Open)
  BY <1>1 DEF OneIsLive, Some, Open
<1> QED BY <1>1 DEF StateIn, Some

(* A row says nothing about other versions. *)
LEMMA StateOfOthers ==
  ASSUME NEW J, NEW K, NEW id \in JobId, Others(J, K, id), NEW v,
         J[id].status \in {"absent", "dead"} \/ J[id].key # v,
         K[id].status \in {"absent", "dead"} \/ K[id].key # v
  PROVE  StateIn(K, v) = StateIn(J, v)
<1>1. ASSUME NEW T \in {{"succeeded"}, Open} PROVE Some(K, v, T) <=> Some(J, v, T)
  <2>1. "absent" \notin T /\ "dead" \notin T BY DEF Open
  <2>2. ~(J[id].key = v /\ J[id].status \in T) /\ ~(K[id].key = v /\ K[id].status \in T)
    BY <2>1
  <2> QED BY <2>2 DEF Some, Others
<1> QED BY <1>1 DEF StateIn

(* Without its row a version is unknown. *)
LEMMA StateOfNone ==
  ASSUME NEW J, NEW K, OneIsLive(J), NEW id \in JobId, Others(J, K, id), NEW v \in Version,
         J[id].status \in Open, J[id].key = v, K[id].status \in {"absent", "dead"}
  PROVE  StateIn(K, v) = "unknown"
<1>1. ASSUME NEW j \in JobId, K[j].key = v, K[j].status \in Open \cup {"succeeded"} PROVE FALSE
  <2>1. j # id BY <1>1 DEF Open
  <2>2. K[j] = J[j] BY <2>1 DEF Others
  <2> QED BY <1>1, <2>1, <2>2 DEF OneIsLive
<1> QED BY <1>1 DEF StateIn, Some

(* The change of a row changes the state of its version alone. *)
LEMMA OneStateChanges ==
  ASSUME NEW J, NEW K, NEW id \in JobId, Others(J, K, id), NEW v \in Version,
         J[id].status = "absent" \/ J[id].key = v, K[id].key = v
  PROVE  States(K) = [States(J) EXCEPT ![v] = StateIn(K, v)]
<1>1. ASSUME NEW u \in Version, u # v PROVE StateIn(K, u) = StateIn(J, u)
  BY <1>1, StateOfOthers
<1> QED BY <1>1 DEF States

-----------------------------------------------------------------------------
(* The steps of the archive *)

PromiseVars == <<folder, objects, artifacts, texts>>

LEMMA Untouched ==
  ASSUME UNCHANGED PromiseVars, States(jobs') = States(jobs)
  PROVE  UNCHANGED Promise!vars
BY StatesAre DEF PromiseVars, Promise!vars

LEMMA StatesStay == UNCHANGED jobs => States(jobs') = States(jobs)
OBVIOUS

(* The version of a busy worker is open. *)
LEMMA BusyIsOpen ==
  ASSUME QueueFacts, Inv, NEW w \in Worker, handler[w] # "idle"
  PROVE  /\ held[w].job \in JobId /\ jobs[held[w].job].status = "running"
         /\ jobs[held[w].job].key = Payload(w)
         /\ Payload(w) \in Version /\ StateIn(jobs, Payload(w)) = "open"
<1>1. PICK id, v, J : id = held[w].job /\ v = Payload(w) /\ J = jobs OBVIOUS
<1>2. HandlerOK(w) BY DEF Inv
<1>3. id \in JobId /\ J[id].status = "running"
  BY <1>1, <1>2 DEF HandlerOK, QueueFacts, QP!Copy
<1>4. v \in Version BY <1>1, Working
<1>5. J[id].key = v BY <1>1 DEF Payload
<1>6. OneIsLive(J) BY <1>1, OneIsLiveHere
<1>7. StateIn(J, v) = "open" BY <1>3, <1>4, <1>5, <1>6, StateOfLive DEF Open
<1> QED BY <1>1, <1>3, <1>4, <1>5, <1>7

LEMMA PromiseAsk ==
  ASSUME QueueFacts, QueueFacts', Inv', NEW e \in Enqueuer, Queue!Insert(e),
         UNCHANGED PromiseVars
  PROVE  Promise!Next \/ UNCHANGED Promise!vars
<1>1. CASE UNCHANGED jobs BY <1>1, StatesStay, Untouched
<1>2. ASSUME NEW id \in JobId, ~Taken(id), jobs'[id].status = "queued",
             \A j \in JobId \ {id} : jobs'[j] = jobs[j]
      PROVE  Promise!Next
  <2>1. PICK v, J, K : v = jobs'[id].key /\ J = jobs /\ K = jobs' OBVIOUS
  <2>2. v \in Version BY <1>2, <2>1 DEF Inv, RowOK
  <2>3. OneIsLive(K) BY <2>1 DEF QueueFacts, OneIsLive, Open, Version
  <2>4. J[id].status = "absent" /\ K[id].status = "queued" /\ K[id].key = v /\ Others(K, J, id)
        /\ Others(J, K, id)
    BY <1>2, <2>1 DEF Taken, Others
  <2>5. StateIn(J, v) = "unknown" BY <2>2, <2>3, <2>4, StateOfNone DEF Open
  <2>6. StateIn(K, v) = "open" BY <2>2, <2>3, <2>4, StateOfLive DEF Open
  <2>7. States(K) = [States(J) EXCEPT ![v] = "open"] BY <2>2, <2>4, <2>6, OneStateChanges
  <2>8. States(J)[v] = "unknown" BY <2>2, <2>5 DEF States
  <2>9. Promise!Ask(v) BY <2>1, <2>7, <2>8, StatesAre DEF Promise!Ask, PromiseVars
  <2> QED BY <2>2, <2>9 DEF Promise!Next, Promise!Version, Version
<1> QED BY <1>1, <1>2, InsertAnswers

(* A claimed job was open already. *)
LEMMA PromiseClaim ==
  ASSUME QueueFacts, QueueFacts', Inv, NEW w \in Worker, Claim(w)
  PROVE  UNCHANGED Promise!vars
<1>1. PICK id \in Queue!Due : jobs' = [jobs EXCEPT ![id].status = "running",
                                                   ![id].attempts = @ + 1,
                                                   ![id].lockedBy = w]
  BY DEF Claim, Queue!Claim
<1>2. id \in JobId /\ jobs[id].status \in {"queued", "failed"}
  BY DEF Queue!Due, Queue!Rows, Queue!Claimable
<1>3. PICK v, J, K : v = jobs[id].key /\ J = jobs /\ K = jobs' OBVIOUS
<1>4. J[id].status \in Open /\ J[id].key = v /\ v \in Version
  BY <1>2, <1>3 DEF Open, Inv, RowOK
<1>5. K[id].status = "running" /\ K[id].key = v /\ Others(J, K, id)
  <2>1. /\ jobs'[id].status = "running" /\ jobs'[id].key = jobs[id].key
        /\ \A j \in JobId \ {id} : jobs'[j] = jobs[j]
    BY <1>1, <1>2 DEF QueueFacts, QP!Row
  <2> QED BY <1>3, <2>1 DEF Others
<1>6. OneIsLive(J) /\ OneIsLive(K) BY <1>3 DEF QueueFacts, OneIsLive, Open, Version
<1>7. StateIn(J, v) = "open" /\ StateIn(K, v) = "open"
  BY <1>2, <1>4, <1>5, <1>6, StateOfLive DEF Open
<1>8. States(K) = [States(J) EXCEPT ![v] = "open"] BY <1>2, <1>4, <1>5, <1>7, OneStateChanges
<1>9. States(K) = States(J) BY <1>4, <1>7, <1>8 DEF States
<1> QED BY <1>3, <1>9, Untouched DEF Claim, PromiseVars, userVars, archiveVars

(* The promise of Report: finished with its text, open, or given up. *)
LEMMA PromiseReport ==
  ASSUME QueueFacts, QueueFacts', Inv, NEW w \in Worker, Report(w)
  PROVE  Promise!Next \/ UNCHANGED Promise!vars
<1>1. handler[w] # "idle" BY DEF Report
<1>2. PICK id, v, J, K : id = held[w].job /\ v = Payload(w) /\ J = jobs /\ K = jobs' OBVIOUS
<1>3. /\ id \in JobId /\ J[id].status = "running" /\ J[id].key = v
      /\ v \in Version /\ StateIn(J, v) = "open"
  BY <1>1, <1>2, BusyIsOpen
<1>4. OneIsLive(J) /\ OneIsLive(K) BY <1>2 DEF QueueFacts, OneIsLive, Open, Version
<1>5. UNCHANGED PromiseVars BY DEF Report, PromiseVars, userVars, archiveVars
<1>6. States(J)[v] = "open" BY <1>3 DEF States
<1>7. ASSUME Touches(id)
      PROVE  /\ Others(J, K, id) /\ K[id].key = v
             /\ States(K) = [States(J) EXCEPT ![v] = StateIn(K, v)]
  <2>1. Others(J, K, id) /\ K[id].key = v BY <1>2, <1>3, <1>7 DEF Touches, Others
  <2> QED BY <1>3, <2>1, OneStateChanges
<1>8. CASE handler[w] = "done" /\ Queue!Succeed(w)
  <2>1. Touches(id) /\ K[id].status = "succeeded" BY <1>2, <1>8, SucceedTouches
  <2>2. StateIn(K, v) = "finished" BY <1>3, <1>4, <1>7, <2>1, StateOfLive
  <2>3. v \in texts BY <1>1, <1>2, <1>8, Working DEF Achieved
  <2>4. Promise!Finish(v)
    BY <1>2, <1>5, <1>6, <1>7, <2>1, <2>2, <2>3, StatesAre DEF Promise!Finish, PromiseVars
  <2> QED BY <1>3, <2>4 DEF Promise!Next, Promise!Version, Version
<1>9. ASSUME NEW permanent \in BOOLEAN, Queue!Fail(w, permanent)
      PROVE  Promise!Next \/ UNCHANGED Promise!vars
  <2>1. Touches(id) /\ K[id].status \in {"failed", "dead"} BY <1>2, <1>9, FailTouches
  <2>2. CASE K[id].status = "failed"
    <3>1. StateIn(K, v) = "open" BY <1>3, <1>4, <1>7, <2>1, <2>2, StateOfLive DEF Open
    <3>2. States(K) = States(J) BY <1>3, <1>6, <1>7, <2>1, <3>1 DEF States
    <3> QED BY <1>2, <1>5, <3>2, Untouched
  <2>3. CASE K[id].status = "dead"
    <3>1. StateIn(K, v) = "unknown" BY <1>3, <1>4, <1>7, <2>1, <2>3, StateOfNone DEF Open
    <3>2. Promise!GiveUp(v)
      BY <1>2, <1>5, <1>6, <1>7, <2>1, <3>1, StatesAre DEF Promise!GiveUp, PromiseVars
    <3> QED BY <1>3, <3>2 DEF Promise!Next, Promise!Version, Version
  <2> QED BY <2>1, <2>2, <2>3
<1> QED BY <1>8, <1>9 DEF Report

(* Only the worker of an open version writes to the archive. *)
LEMMA PromiseHandle ==
  ASSUME QueueFacts, Inv, NEW w \in Worker, Handle(w) \/ Errs(w)
  PROVE  Promise!Next \/ UNCHANGED Promise!vars
<1>1. UNCHANGED jobs /\ UNCHANGED folder
  BY DEF Handle, Errs, StoreFile, PersistArtifact, extractTextFile, RunTool, Convert, Extracting,
         RetryWithForcedOCR, PersistExtraction, ProcessArtifact, queueVars, userVars
<1>2. States(jobs') = States(jobs) BY <1>1
<1>3. ASSUME handler[w] # "idle"
      PROVE  /\ Payload(w) \in Promise!Version
             /\ [v \in Version |-> StateOf(v)][Payload(w)] = "open"
  BY <1>3, BusyIsOpen, StatesAre DEF States, Promise!Version, Version
<1>4. CASE StoreFile(w)
  <2>1. CASE Copied(w) = NoFile
    <3>1. UNCHANGED PromiseVars BY <1>1, <1>4, <2>1 DEF StoreFile, PromiseVars
    <3> QED BY <1>2, <3>1, Untouched
  <2>2. CASE handler[w] = "store" /\ folder[Payload(w)[1]] # NoFile
    <3>1. Promise!Keep(Payload(w))
      BY <1>1, <1>2, <1>3, <1>4, <2>2, StatesAre DEF StoreFile, Copied, Promise!Keep
    <3> QED BY <1>3, <2>2, <3>1 DEF Promise!Next
  <2>3. CASE handler[w] = "torn" /\ Torn # NoFile
    <3>1. Promise!Mix(Payload(w))
      BY <1>1, <1>2, <1>3, <1>4, <2>3, StatesAre DEF StoreFile, Copied, Promise!Mix
    <3> QED BY <1>3, <2>3, <3>1 DEF Promise!Next
  <2> QED BY <1>4, <2>1, <2>2, <2>3 DEF StoreFile, Copied
<1>5. CASE PersistArtifact(w)
  <2>1. handler[w] = "persist" BY <1>5 DEF PersistArtifact
  <2>2. Payload(w)[2] \in objects BY <2>1, Working DEF Achieved
  <2>3. Promise!Register(Payload(w))
    BY <1>1, <1>2, <1>3, <1>5, <2>1, <2>2, StatesAre DEF PersistArtifact, Promise!Register
  <2> QED BY <1>3, <2>1, <2>3 DEF Promise!Next
<1>6. CASE PersistExtraction(w)
  <2>1. handler[w] = "index" BY <1>6 DEF PersistExtraction
  <2>2. Payload(w) \in artifacts BY <2>1, Working DEF Achieved
  <2>3. Promise!Read(Payload(w))
    BY <1>1, <1>2, <1>3, <1>6, <2>1, <2>2, StatesAre DEF PersistExtraction, Promise!Read
  <2> QED BY <1>3, <2>1, <2>3 DEF Promise!Next
<1>7. CASE extractTextFile(w) \/ RunTool(w) \/ Convert(w) \/ RetryWithForcedOCR(w)
             \/ ProcessArtifact(w) \/ Errs(w)
  <2>1. UNCHANGED PromiseVars
    BY <1>1, <1>7 DEF extractTextFile, RunTool, Convert, Extracting, RetryWithForcedOCR,
                      ProcessArtifact, Errs, archiveVars, PromiseVars
  <2> QED BY <1>2, <2>1, Untouched
<1> QED BY <1>4, <1>5, <1>6, <1>7 DEF Handle

LEMMA PromiseScan ==
  ASSUME QueueFacts, QueueFacts', Inv', NEW e \in Enqueuer, ScanStep(e) \/ ScanFails(e)
  PROVE  Promise!Next \/ UNCHANGED Promise!vars
<1>1. UNCHANGED PromiseVars
  BY DEF ScanStep, ScanFails, ScanSkip, ScanHash, ScanEnqueue, ScanEnqueuing, ScanRecord,
         PromiseVars, userVars, archiveVars
<1>2. CASE ScanEnqueuing(e) /\ Queue!Insert(e) BY <1>1, <1>2, PromiseAsk
<1>3. CASE UNCHANGED jobs BY <1>1, <1>3, StatesStay, Untouched
<1>4. UNCHANGED jobs \/ (ScanEnqueuing(e) /\ Queue!Insert(e))
  BY DEF ScanStep, ScanFails, ScanSkip, ScanHash, ScanEnqueue, ScanEnqueuing, ScanRecord,
         queueVars, Queue!Enqueue, Queue!Refind, Queue!EnqueueFails
<1> QED BY <1>2, <1>3, <1>4

LEMMA PromiseStep ==
  ASSUME QueueFacts, QueueFacts', ScansNamed', Inv, Inv', [Next]_vars
  PROVE  [Promise!Next]_(Promise!vars)
<1>1. ASSUME UNCHANGED <<folder, jobs, archiveVars>> PROVE UNCHANGED Promise!vars
  BY <1>1, StatesStay, Untouched DEF PromiseVars, archiveVars
<1>2. ASSUME NEW p \in Path, NEW c \in Content \cup {NoFile}, Edit(p, c) PROVE Promise!Next
  <2>1. folder' \in [Path -> Content \cup {NoFile}] BY DEF ScansNamed
  <2>2. States(jobs') = States(jobs) BY <1>2 DEF Edit, queueVars
  <2>3. Promise!Edit BY <1>2, <2>1, <2>2, StatesAre DEF Edit, Promise!Edit, archiveVars
  <2> QED BY <2>3 DEF Promise!Next
<1>3. ASSUME NEW w \in Worker, Claim(w) \/ Handle(w) \/ Errs(w) \/ Report(w) \/ LoseReport(w)
      PROVE  Promise!Next \/ UNCHANGED Promise!vars
  <2>1. CASE LoseReport(w) BY <1>1, <2>1 DEF LoseReport, Queue!LoseResult, userVars
  <2> QED BY <1>3, <2>1, PromiseClaim, PromiseHandle, PromiseReport
<1>4. ASSUME Stop \/ Clock PROVE UNCHANGED Promise!vars
  BY <1>1, <1>4 DEF Stop, Clock, Queue!Stop, Queue!Start, Queue!Tick, Queue!ClaimNothing,
                    Queue!vars, userVars
<1>5. ASSUME NEW p \in Path, Settle(p) PROVE UNCHANGED Promise!vars
  BY <1>1, <1>5 DEF Settle, queueVars
<1>6. ASSUME NEW e \in Enqueuer, NEW p \in Path, ScanFile(e, p) PROVE UNCHANGED Promise!vars
  BY <1>1, <1>6 DEF ScanFile, queueVars, userVars
<1>7. CASE Next
  BY <1>7, <1>2, <1>3, <1>4, <1>5, <1>6, PromiseScan DEF Next
<1>8. CASE UNCHANGED vars BY <1>8, <1>1 DEF vars, queueVars, userVars
<1> QED BY <1>7, <1>8

LEMMA PromiseInit == Init => Promise!Init
<1> SUFFICES ASSUME Init PROVE Promise!Init OBVIOUS
<1>1. \A id \in JobId : jobs[id].status = "absent" BY DEF Init, Queue!Init, Queue!Absent
<1>2. \A v \in Version : StateOf(v) = "unknown" BY <1>1 DEF StateOf, JobOf
<1> QED BY <1>2 DEF Init, Promise!Init, Promise!Version, Version

(* Ingestion implements Archive: originals come first, nothing is taken     *)
(* away, a version is worked on while it is open and never once finished.   *)
THEOREM IngestImplementsArchive == Spec => ImplementsArchive
<1>1. Init => Promise!Init BY PromiseInit
<1>2. /\ QueueFacts /\ ScansNamed /\ Inv
      /\ (QueueFacts /\ ScansNamed /\ Inv)'
      /\ [Next]_vars
      => [Promise!Next]_(Promise!vars)
  BY PromiseStep
<1> QED BY <1>1, <1>2, Invariance, PTL DEF Spec, ImplementsArchive, Promise!Spec

=============================================================================
