---------------------------- MODULE ThreadsProofs ----------------------------
(***************************************************************************)
(* What TLAPS proves of the clustering, for any artifacts, facts, dates,   *)
(* workers and attempts.  Whichever candidate a worker takes, it was found *)
(* for a reason, and reasons do not go away, since no member ever leaves a *)
(* thread.  Of the scores it matters only that one for a thread of an      *)
(* alike artifact is high enough.                                          *)
(***************************************************************************)
EXTENDS Threads, Sums, TLAPS

Reason(a, m) == Strong(a, m) \/ Strong(m, a) \/ Signature(a) \cap Signature(m) # {}

(* A candidate names a thread that exists, with a member that is a reason. *)
Good(a, c) ==
  /\ c = [id |-> c.id, row |-> c.row, score |-> c.score]
  /\ c.id \in DOMAIN threads
  /\ \E m \in Others(a, c.id) : Reason(a, m)

(* An artifact has an attempt left unless it is finished. *)
Counted(a) ==
  /\ attempts[a] \in 0..MaxAttempts
  /\ job[a] = "queued" => attempts[a] = 0
  /\ job[a] = "failed" => attempts[a] < MaxAttempts
  /\ job[a] = "running" => attempts[a] # 0

Jobs ==
  /\ job \in [Artifact -> {"queued", "running", "failed", "succeeded", "dead"}]
  /\ attempts \in [Artifact -> 0..MaxAttempts]
  /\ \A a \in Artifact : Counted(a)

Places == {"free", "facts", "reconcile", "cluster", "related", "assign", "done"}

In(a) == \E t \in DOMAIN threads : <<t, a>> \in members

(* What a worker knows of its artifact at its place. *)
Knowledge(w, a) ==
  /\ job[a] = "running"
  /\ work[w].at # "done" => <<a, attempts[a]>> \notin DOMAIN threads
  /\ work[w].at \in {"related", "assign"} => threadEligible(ClassOf[a])
  /\ work[w].at = "done" /\ threadEligible(ClassOf[a]) => In(a)
  /\ \A c \in work[w].found : Good(a, c)

Whole(q) == q = [art |-> q.art, at |-> q.at, found |-> q.found]

Knows(w) ==
  /\ Whole(work[w])
  /\ work[w].at \in Places
  /\ work[w].at = "free" => work[w] = Free
  /\ work[w].at # "free" => work[w].art \in Artifact /\ Knowledge(w, work[w].art)

Workers ==
  /\ DOMAIN work = Worker
  /\ \A w \in Worker : Knows(w)
  /\ \A v, w \in Worker : work[v].art = work[w].art /\ work[v].at # "free" => v = w

(* A thread's id is an attempt of its founder that has begun; its range is *)
(* one of dates of members.                                                *)
Row(t) ==
  /\ t \in Artifact \X (1..MaxAttempts)
  /\ t[2] <= attempts[t[1]]
  /\ threads[t] = [kind |-> threads[t].kind, start |-> threads[t].start, end |-> threads[t].end]
  /\ threads[t].start \in Int
  /\ threads[t].end \in Int
  /\ \A m \in MembersOf(t) : threads[t].start <= EventDay[m] /\ EventDay[m] <= threads[t].end
  /\ \E m \in MembersOf(t) : EventDay[m] = threads[t].start
  /\ \E m \in MembersOf(t) : EventDay[m] = threads[t].end

Joined ==
  /\ members \subseteq (DOMAIN threads) \X Artifact
  /\ \A t \in DOMAIN threads : \A a \in MembersOf(t) :
       /\ threadEligible(ClassOf[a])
       /\ a # t[1] => \E m \in MembersOf(t) \ {a} : Reason(a, m)

Tables ==
  /\ stored \subseteq Artifact
  /\ links \subseteq Artifact \X Artifact
  /\ met \subseteq SUBSET Artifact
  /\ \A a, b \in Artifact : <<a, b>> \in links => Strong(a, b)
  /\ \A t \in DOMAIN threads : Row(t)
  /\ Joined

(* Success leaves an artifact in a thread, if its class has threads. *)
Kept == \A a \in Artifact : job[a] = "succeeded" /\ threadEligible(ClassOf[a]) => In(a)

IInv == Jobs /\ Workers /\ Tables /\ Kept

USE AttemptsAssumption, NoneAssumption, UnluckyAssumption, DayAssumption

-----------------------------------------------------------------------------
LEMMA Initially == ASSUME Init PROVE IInv
<1>1. Jobs BY DEF Init, Jobs, Counted
<1>2. DOMAIN threads = {} BY DEF Init
<1>3. Workers
  BY <1>2 DEF Init, Workers, Knows, Knowledge, Whole, Free, Doing, Places
<1>4. Tables BY <1>2 DEF Init, Tables, Joined
<1>5. Kept BY DEF Init, Kept
<1> QED BY <1>1, <1>3, <1>4, <1>5 DEF IInv

(***************************************************************************)
(* What the queries return                                                 *)
(***************************************************************************)
LEMMA FactsGiveReasons ==
  ASSUME NEW a \in Artifact, NEW c \in findCandidateThreads(a)
  PROVE  Good(a, c)
<1>1. PICK t \in DOMAIN threads :
        Shared(a, t) # {} /\ c = Candidate(t, MapThenSumSet(Weight, Shared(a, t)))
  BY Zenon DEF findCandidateThreads
<1> DEFINE s == MapThenSumSet(Weight, Shared(a, t))
<1> HIDE DEF s
<1>2. c = [id |-> t, row |-> threads[t], score |-> s] BY <1>1 DEF Candidate, s
<1>3. PICK f \in Signature(a), m \in Others(a, t) : f \in Facts[m]
  BY <1>1 DEF Shared
<1>4. f \in Signature(m) BY <1>3 DEF Signature
<1>5. Reason(a, m) BY <1>3, <1>4 DEF Reason
<1>6. c.id = t /\ c = [id |-> c.id, row |-> c.row, score |-> c.score] BY <1>2
<1> QED BY <1>3, <1>5, <1>6 DEF Good

LEMMA RelationsGiveReasons ==
  ASSUME Tables, NEW a \in Artifact, NEW found, \A c \in found : Good(a, c),
         NEW c \in AddRelated(found, threadsForArtifacts(a))
  PROVE  Good(a, c)
<1>1. CASE \E d \in found : c = [d EXCEPT !.score = @ + 6]
  <2>1. PICK d \in found : c = [d EXCEPT !.score = @ + 6] BY <1>1
  <2>2. Good(a, d) OBVIOUS
  <2>3. d = [id |-> d.id, row |-> d.row, score |-> d.score] BY <2>2 DEF Good
  <2>4. c = [id |-> d.id, row |-> d.row, score |-> d.score + 6] BY <2>1, <2>3
  <2>5. c.id = d.id /\ c = [id |-> c.id, row |-> c.row, score |-> c.score] BY <2>4
  <2> QED BY <2>2, <2>5 DEF Good
<1>2. CASE c \in found BY <1>2
<1>3. CASE \E t \in threadsForArtifacts(a) : c = Candidate(t, 6)
  <2>1. PICK t \in threadsForArtifacts(a) : c = Candidate(t, 6) BY <1>3
  <2>2. c = [id |-> t, row |-> threads[t], score |-> 6] BY <2>1 DEF Candidate
  <2>3. c.id = t /\ c = [id |-> c.id, row |-> c.row, score |-> c.score] BY <2>2
  <2>4. PICK m \in Others(a, t) : m \in Peers(a) BY DEF threadsForArtifacts
  <2>5. m \in Artifact /\ (<<a, m>> \in links \/ <<m, a>> \in links)
    BY <2>4 DEF Peers
  <2>6. Reason(a, m) BY <2>5 DEF Tables, Reason
  <2>7. t \in DOMAIN threads BY DEF threadsForArtifacts
  <2> QED BY <2>3, <2>4, <2>6, <2>7 DEF Good
<1> QED BY <1>1, <1>2, <1>3, Zenon DEF AddRelated

(***************************************************************************)
(* What a step of one worker leaves to the others                          *)
(***************************************************************************)
LEMMA FreeOrBusy ==
  ASSUME Workers, NEW w \in Worker
  PROVE  /\ work[w].at = "free" => work[w] = Free /\ work[w].art = NoArtifact
         /\ work[w].at # "free" => work[w].art \in Artifact /\ work[w].art # NoArtifact
<1>1. Knows(w) BY DEF Workers
<1>2. Free.art = NoArtifact BY DEF Free, Doing
<1> QED BY <1>1, <1>2 DEF Knows

LEMMA ReasonsStay ==
  ASSUME NEW a, NEW c, Good(a, c),
         DOMAIN threads \subseteq DOMAIN threads', members \subseteq members'
  PROVE  Good(a, c)'
BY DEF Good, Others

(* Threads and members only grow, and a new thread has w's artifact as its *)
(* founder; other jobs stay.                                               *)
Grows(w) ==
  /\ DOMAIN threads \subseteq DOMAIN threads'
  /\ members \subseteq members'
  /\ \A t \in DOMAIN threads' : t \in DOMAIN threads \/ t[1] = work[w].art
  /\ \A a \in Artifact \ {work[w].art} : job'[a] = job[a] /\ attempts'[a] = attempts[a]

LEMMA OthersKnow ==
  ASSUME Workers, NEW w \in Worker, work[w].at # "free", Grows(w),
         NEW v \in Worker, v # w, work'[v] = work[v]
  PROVE  Knows(v)'
<1> DEFINE b == work[v].art
<1>1. Knows(v) BY DEF Workers
<1>2. CASE work[v].at = "free" BY <1>1, <1>2 DEF Knows, Whole, Free, Doing
<1>3. CASE work[v].at # "free"
  <2>1. b \in Artifact /\ b # work[w].art BY <1>1, <1>3 DEF Knows, Workers
  <2>2. job'[b] = job[b] /\ attempts'[b] = attempts[b] BY <2>1 DEF Grows
  <2>3. In(b) => In(b)' BY DEF In, Grows
  <2>4. ASSUME <<b, attempts[b]>> \in DOMAIN threads' PROVE <<b, attempts[b]>> \in DOMAIN threads
    <3>1. <<b, attempts[b]>>[1] = b OBVIOUS
    <3> QED BY <3>1, <2>1, <2>4 DEF Grows
  <2>5. \A c \in work[v].found : Good(b, c)'
    BY <1>1, <1>3, ReasonsStay DEF Knows, Knowledge, Grows
  <2>6. work'[v].art = b /\ work'[v].at = work[v].at /\ work'[v].found = work[v].found OBVIOUS
  <2> HIDE DEF b
  <2> QED BY <1>1, <1>3, <2>1, <2>2, <2>3, <2>4, <2>5, <2>6 DEF Knows, Knowledge, Whole, b
<1> QED BY <1>2, <1>3

(* A worker that goes on with its artifact, or becomes free. *)
LEMMA WorkersFollow ==
  ASSUME Workers, NEW w \in Worker, work[w].at # "free", Grows(w), NEW q,
         work' = [work EXCEPT ![w] = q], q.art \in {work[w].art, NoArtifact},
         q.art = NoArtifact => q = Free,
         Knows(w)'
  PROVE  Workers'
<1>1. DOMAIN work' = Worker /\ work'[w] = q BY DEF Workers
<1>2. \A v \in Worker \ {w} : work'[v] = work[v] BY DEF Workers
<1>3. \A v \in Worker : Knows(v)' BY <1>2, OthersKnow
<1>4. ASSUME NEW u \in Worker, NEW v \in Worker,
             work'[u].art = work'[v].art, work'[u].at # "free"
      PROVE  u = v
  <2>1. \A x \in Worker : work[x].at # "free" => work[x].art # NoArtifact
    BY FreeOrBusy
  <2>2. \A x \in Worker : work[x].art # NoArtifact => work[x].at # "free"
    BY FreeOrBusy
  <2>3. u = w => work'[u].art = work[w].art
    BY <1>1, <1>4 DEF Free, Doing
  <2>4. v = w /\ u # w => work'[u].art = work[w].art
    <3> SUFFICES ASSUME v = w, u # w PROVE work'[u].art = work[w].art OBVIOUS
    <3>1. work'[u] = work[u] BY <1>2
    <3>2. work[u].art # NoArtifact BY <3>1, <1>4, <2>1
    <3> QED BY <3>1, <3>2, <1>4, <1>1
  <2> QED BY <1>2, <1>4, <2>1, <2>2, <2>3, <2>4 DEF Workers
<1> QED BY <1>1, <1>3, <1>4 DEF Workers

(* Steps that leave the tables of threads alone. *)
LEMMA ThreadsStay ==
  ASSUME Tables, UNCHANGED <<threads, members>>,
         \A a \in Artifact : attempts[a] \in Int /\ attempts'[a] \in Int /\ attempts[a] <= attempts'[a]
  PROVE  Joined' /\ (\A t \in DOMAIN threads' : Row(t)')
<1>1. Joined' BY DEF Tables, Joined, MembersOf
<1>2. ASSUME NEW t \in DOMAIN threads PROVE Row(t)'
  <2>1. Row(t) BY DEF Tables
  <2>2. t[1] \in Artifact /\ t[2] \in Int BY <2>1 DEF Row
  <2>3. t[2] <= attempts'[t[1]] BY <2>1, <2>2 DEF Row
  <2> QED BY <2>1, <2>3 DEF Row, MembersOf
<1> QED BY <1>1, <1>2

-----------------------------------------------------------------------------
(* One lemma per action *)

LEMMA BeginKeeps ==
  ASSUME IInv, NEW w \in Worker, NEW a \in Artifact, Begin(w, a)
  PROVE  IInv'
<1> USE DEF IInv
<1>0. /\ job' = [job EXCEPT ![a] = "running"]
      /\ attempts' = [attempts EXCEPT ![a] = attempts[a] + 1]
      /\ UNCHANGED <<stored, links, threads, members>>
      /\ job[a] \in {"queued", "failed"} /\ work[w] = Free
  BY DEF Begin, tables
<1>1. work' = [work EXCEPT ![w] = [art |-> a, at |-> "facts", found |-> {}]]
  BY DEF Begin, Doing
<1>2. Jobs' BY <1>0 DEF Jobs, Counted
<1>3. work'[w] = [art |-> a, at |-> "facts", found |-> {}] /\ DOMAIN work' = Worker
  BY <1>1 DEF Workers
<1>4. \A v \in Worker \ {w} : work'[v] = work[v] BY <1>1 DEF Workers
<1>5. \A v \in Worker : work[v].at # "free" => work[v].art # a
  <2>1. \A v \in Worker : work[v].at # "free" => job[work[v].art] = "running" BY DEF Workers, Knows, Knowledge
  <2> QED BY <1>0, <2>1
<1>6. \A v \in Worker : work[v].at # "free" => work[v].art \in Artifact
  BY FreeOrBusy
<1>7. Knows(w)'
  <2>1. <<a, attempts[a] + 1>> \notin DOMAIN threads
    <3> SUFFICES ASSUME <<a, attempts[a] + 1>> \in DOMAIN threads PROVE FALSE OBVIOUS
    <3>1. Row(<<a, attempts[a] + 1>>) BY DEF Tables
    <3> QED BY <3>1 DEF Row, Jobs
  <2>2. attempts'[a] = attempts[a] + 1 /\ job'[a] = "running" BY <1>0 DEF Jobs
  <2> QED BY <1>0, <1>3, <2>1, <2>2 DEF Knows, Knowledge, Whole, Places
<1>8. ASSUME NEW v \in Worker, v # w PROVE Knows(v)'
  <2>1. Knows(v) /\ work'[v] = work[v] BY <1>4, <1>8 DEF Workers
  <2>2. CASE work[v].at = "free" BY <2>1, <2>2 DEF Knows, Whole, Free, Doing
  <2>3. CASE work[v].at # "free"
    <3>1. /\ job'[work[v].art] = job[work[v].art]
          /\ attempts'[work[v].art] = attempts[work[v].art]
      BY <1>0, <1>5, <1>6, <2>3 DEF Jobs
    <3>2. \A c \in work[v].found : Good(work[v].art, c)'
      BY <1>0, <2>1, <2>3, ReasonsStay DEF Knows, Knowledge
    <3>3. \A b : In(b) => In(b)' BY <1>0 DEF In
    <3> QED BY <1>0, <2>1, <2>3, <3>1, <3>2, <3>3 DEF Knows, Knowledge, Whole
  <2> QED BY <2>2, <2>3
<1>9. ASSUME NEW u \in Worker, NEW v \in Worker,
             work'[u].art = work'[v].art, work'[u].at # "free"
      PROVE  u = v
  <2>1. \A x \in Worker : work[x].at = "free" => work[x].art = NoArtifact
    BY FreeOrBusy
  <2> QED BY <1>3, <1>4, <1>5, <1>6, <1>9, <2>1 DEF Workers
<1>10. Workers' BY <1>3, <1>7, <1>8, <1>9 DEF Workers
<1>11. met' \subseteq SUBSET Artifact
  <2>1. \A v \in Worker : work[v] # Free => work[v].art \in Artifact BY <1>6, FreeOrBusy
  <2>2. met' = met \cup {{a, work[v].art} : v \in {v \in Worker : work[v] # Free}} BY DEF Begin
  <2> QED BY <2>1, <2>2 DEF Tables
<1>12. Joined' /\ (\A t \in DOMAIN threads' : Row(t)')
  BY <1>0, ThreadsStay DEF Jobs
<1>13. Tables' BY <1>0, <1>11, <1>12 DEF Tables, Strong
<1>14. Kept' BY <1>0 DEF Kept, In, Jobs
<1> QED BY <1>2, <1>10, <1>13, <1>14

(* A worker goes to another place and no job and no thread changes. *)
LEMMA MovesOn ==
  ASSUME IInv, NEW w \in Worker, work[w].at # "free",
         UNCHANGED <<job, attempts, met, threads, members>>,
         NEW q, Whole(q), work' = [work EXCEPT ![w] = q],
         q.art = work[w].art, q.at \in Places \ {"free"},
         q.at # "done" => work[w].at # "done",
         q.at \in {"related", "assign"} => threadEligible(ClassOf[q.art]),
         q.at = "done" => ~threadEligible(ClassOf[q.art]),
         \A c \in q.found : Good(q.art, c)
  PROVE  Jobs' /\ Workers' /\ Kept' /\ Joined' /\ (\A t \in DOMAIN threads' : Row(t)')
<1> USE DEF IInv
<1>1. Grows(w) BY DEF Grows
<1>2. work'[w] = q BY DEF Workers
<1>3. Knows(w) BY DEF Workers
<1>4. \A c \in q.found : Good(q.art, c)' BY ReasonsStay
<1>5. Knows(w)'
  <2>1. q.art \in Artifact /\ job[q.art] = "running" BY <1>3 DEF Knows, Knowledge
  <2>2. q.at # "done" => <<q.art, attempts[q.art]>> \notin DOMAIN threads
    BY <1>3 DEF Knows, Knowledge
  <2> QED BY <1>2, <1>4, <2>1, <2>2 DEF Knows, Knowledge
<1>6. Workers' BY <1>1, <1>5, FreeOrBusy, WorkersFollow
<1>7. Jobs' BY DEF Jobs, Counted
<1>8. Kept' BY DEF Kept, In
<1>9. Joined' /\ (\A t \in DOMAIN threads' : Row(t)') BY ThreadsStay DEF Jobs
<1> QED BY <1>6, <1>7, <1>8, <1>9

(* The record of a worker after a step. *)
LEMMA Moved ==
  ASSUME Workers, NEW w \in Worker, NEW p
  PROVE  LET q == [work[w] EXCEPT !.at = p]
         IN  Whole(q) /\ q.art = work[w].art /\ q.at = p /\ q.found = work[w].found
<1>1. work[w] = [art |-> work[w].art, at |-> work[w].at, found |-> work[w].found]
  BY DEF Workers, Knows, Whole
<1>2. [work[w] EXCEPT !.at = p] = [art |-> work[w].art, at |-> p, found |-> work[w].found] BY <1>1
<1> QED BY <1>2 DEF Whole

LEMMA Finds ==
  ASSUME NEW w, NEW p, NEW found
  PROVE  LET q == Doing(work[w].art, p, found)
         IN  Whole(q) /\ q.art = work[w].art /\ q.at = p /\ q.found = found
BY DEF Whole, Doing

LEMMA StoreFactsKeeps ==
  ASSUME IInv, NEW w \in Worker, StoreFacts(w)
  PROVE  IInv'
<1>1. Knows(w) /\ Workers /\ work[w].at = "facts" BY DEF IInv, Workers, StoreFacts
<1>2. PICK q : q = [work[w] EXCEPT !.at = "reconcile"] OBVIOUS
<1>3. work' = [work EXCEPT ![w] = q] BY <1>2 DEF StoreFacts, Move
<1>4. UNCHANGED <<job, attempts, met, threads, members, links>> BY DEF StoreFacts, begun
<1>5. Whole(q) /\ q.art = work[w].art /\ q.at = "reconcile" /\ q.found = work[w].found
  BY <1>1, <1>2, Moved
<1>6. work[w].art \in Artifact /\ \A c \in q.found : Good(q.art, c)
  BY <1>1, <1>5 DEF Knows, Knowledge
<1>7. Jobs' /\ Workers' /\ Kept' /\ Joined' /\ (\A t \in DOMAIN threads' : Row(t)')
  BY <1>1, <1>3, <1>4, <1>5, <1>6, MovesOn DEF Places
<1>8. stored' \subseteq Artifact BY <1>6 DEF StoreFacts, IInv, Tables
<1>9. Tables' BY <1>4, <1>7, <1>8 DEF Tables, IInv, Strong
<1> QED BY <1>7, <1>9 DEF IInv

LEMMA ReconcileKeeps ==
  ASSUME IInv, NEW w \in Worker, Reconcile(w)
  PROVE  IInv'
<1>1. Knows(w) /\ Workers /\ work[w].at = "reconcile" BY DEF IInv, Workers, Reconcile
<1>2. PICK q : q = [work[w] EXCEPT !.at = "cluster"] OBVIOUS
<1>3. work' = [work EXCEPT ![w] = q] BY <1>2 DEF Reconcile, Move
<1>4. UNCHANGED <<job, attempts, met, threads, members, stored>> BY DEF Reconcile, begun
<1>5. Whole(q) /\ q.art = work[w].art /\ q.at = "cluster" /\ q.found = work[w].found
  BY <1>1, <1>2, Moved
<1>6. work[w].art \in Artifact /\ \A c \in q.found : Good(q.art, c)
  BY <1>1, <1>5 DEF Knows, Knowledge
<1>7. Jobs' /\ Workers' /\ Kept' /\ Joined' /\ (\A t \in DOMAIN threads' : Row(t)')
  BY <1>1, <1>3, <1>4, <1>5, <1>6, MovesOn DEF Places
<1>8. links' = links \cup {<<work[w].art, b>> : b \in {b \in stored \ {work[w].art} : Strong(work[w].art, b)}}
  BY DEF Reconcile
<1>9. links' \subseteq Artifact \X Artifact BY <1>6, <1>8 DEF IInv, Tables
<1>10. \A a, b \in Artifact : <<a, b>> \in links' => Strong(a, b) BY <1>6, <1>8 DEF IInv, Tables
<1>11. Tables' BY <1>4, <1>7, <1>9, <1>10 DEF Tables, IInv, Strong
<1> QED BY <1>7, <1>11 DEF IInv

LEMMA QueriesKeep ==
  ASSUME IInv, NEW w \in Worker, SkipIneligible(w) \/ FindByFacts(w) \/ FindByRelations(w)
  PROVE  IInv'
<1>1. Knows(w) /\ Workers /\ Tables BY DEF IInv, Workers
<1>2. UNCHANGED <<job, attempts, met, threads, members, stored, links>>
  BY DEF SkipIneligible, FindByFacts, FindByRelations, begun, tables
<1>3. work[w].at # "free" =>
        work[w].art \in Artifact /\ \A c \in work[w].found : Good(work[w].art, c)
  BY <1>1 DEF Knows, Knowledge
<1>4. Jobs' /\ Workers' /\ Kept' /\ Joined' /\ (\A t \in DOMAIN threads' : Row(t)')
  <2>1. CASE SkipIneligible(w)
    <3>1. PICK q : q = [work[w] EXCEPT !.at = "done"] OBVIOUS
    <3>2. work' = [work EXCEPT ![w] = q] BY <2>1, <3>1 DEF SkipIneligible, Move
    <3>3. work[w].at = "cluster" /\ ~threadEligible(ClassOf[work[w].art])
      BY <2>1 DEF SkipIneligible
    <3>4. Whole(q) /\ q.art = work[w].art /\ q.at = "done" /\ q.found = work[w].found
      BY <1>1, <3>1, Moved
    <3> QED BY <1>2, <1>3, <3>2, <3>3, <3>4, MovesOn DEF Places
  <2>2. CASE FindByFacts(w)
    <3>1. PICK found : found = findCandidateThreads(work[w].art) OBVIOUS
    <3>2. PICK q : q = Doing(work[w].art, "related", found) OBVIOUS
    <3>3. work[w].at = "cluster" /\ threadEligible(ClassOf[work[w].art]) BY <2>2 DEF FindByFacts
    <3>4. \A c \in found : Good(work[w].art, c) BY <1>3, <3>1, <3>3, FactsGiveReasons
    <3>5. work' = [work EXCEPT ![w] = q] BY <2>2, <3>1, <3>2 DEF FindByFacts
    <3>6. Whole(q) /\ q.art = work[w].art /\ q.at = "related" /\ q.found = found
      BY <1>1, <3>2, Finds
    <3> QED BY <1>2, <3>3, <3>4, <3>5, <3>6, MovesOn DEF Places
  <2>3. CASE FindByRelations(w)
    <3>1. PICK found : found = AddRelated(work[w].found, threadsForArtifacts(work[w].art)) OBVIOUS
    <3>2. PICK q : q = Doing(work[w].art, "assign", found) OBVIOUS
    <3>3. work[w].at = "related" BY <2>3 DEF FindByRelations
    <3>4. threadEligible(ClassOf[work[w].art]) BY <1>1, <3>3 DEF Knows, Knowledge
    <3>5. \A c \in found : Good(work[w].art, c) BY <1>1, <1>3, <3>1, <3>3, RelationsGiveReasons
    <3>6. work' = [work EXCEPT ![w] = q] BY <2>3, <3>1, <3>2 DEF FindByRelations
    <3>7. Whole(q) /\ q.art = work[w].art /\ q.at = "assign" /\ q.found = found
      BY <1>1, <3>2, Finds
    <3> QED BY <1>2, <3>3, <3>4, <3>5, <3>6, <3>7, MovesOn DEF Places
  <2> QED BY <2>1, <2>2, <2>3
<1>5. Tables' BY <1>1, <1>2, <1>4 DEF Tables, Strong
<1> QED BY <1>4, <1>5 DEF IInv

(***************************************************************************)
(* Joining and founding: the worker's artifact becomes a member            *)
(***************************************************************************)
LEMMA BecomesMember ==
  ASSUME IInv, NEW w \in Worker, work[w].at = "assign", NEW a, a = work[w].art, Move(w, "done"),
         UNCHANGED <<job, attempts, met, stored, links>>,
         NEW t \in DOMAIN threads',
         members' = members \cup {<<t, a>>},
         Grows(w),
         Row(t)', \A u \in DOMAIN threads \ {t} : threads'[u] = threads[u],
         \A u \in DOMAIN threads' : u \in DOMAIN threads \/ u = t,
         t[1] = a \/ \E m \in Others(a, t) : Reason(a, m)
  PROVE  IInv'
<1>1. Knows(w) BY DEF IInv, Workers
<1>2. a \in Artifact /\ threadEligible(ClassOf[a]) BY <1>1 DEF Knows, Knowledge
<1>3. PICK q : q = [work[w] EXCEPT !.at = "done"] OBVIOUS
<1>4. /\ work' = [work EXCEPT ![w] = q] /\ work'[w] = q
      /\ Whole(q) /\ q.art = a /\ q.at = "done" /\ q.found = work[w].found
  <2>1. Whole(q) /\ q.art = a /\ q.at = "done" /\ q.found = work[w].found
    BY <1>3, Moved DEF IInv
  <2>2. work' = [work EXCEPT ![w] = q] BY <1>3 DEF Move
  <2>3. work'[w] = q BY <2>2 DEF IInv, Workers
  <2> QED BY <2>1, <2>2, <2>3
<1>5. \A c \in work[w].found : Good(a, c)'
  BY <1>1, ReasonsStay DEF Knows, Knowledge, Grows
<1>6. In(a)' BY DEF In
<1>7. Knows(w)'
  <2>1. job'[a] = "running" BY <1>1 DEF Knows, Knowledge
  <2> QED BY <1>2, <1>4, <1>5, <1>6, <2>1 DEF Knows, Knowledge, Places
<1>8. Workers' BY <1>2, <1>4, <1>7, WorkersFollow DEF IInv
<1>9. Jobs' BY DEF IInv, Jobs, Counted
<1>10. Kept' BY DEF IInv, Kept, In, Grows
<1>11. ASSUME NEW u \in DOMAIN threads' PROVE Row(u)'
  <2>1. CASE u = t BY <2>1
  <2>2. CASE u # t
    <3>1. u \in DOMAIN threads /\ threads'[u] = threads[u] BY <2>2
    <3>2. MembersOf(u)' = MembersOf(u) BY <2>2 DEF MembersOf
    <3>3. Row(u) BY <3>1 DEF IInv, Tables
    <3> QED BY <3>1, <3>2, <3>3 DEF Row
  <2> QED BY <2>1, <2>2
<1>12. Joined'
  <2>1. members' \subseteq (DOMAIN threads') \X Artifact BY <1>2 DEF IInv, Tables, Joined, Grows
  <2>2. ASSUME NEW u \in DOMAIN threads', NEW b \in MembersOf(u)'
        PROVE  /\ threadEligible(ClassOf[b])
               /\ b # u[1] => \E m \in MembersOf(u)' \ {b} : Reason(b, m)
    <3>1. CASE u = t /\ b = a
      <4>1. Others(a, t) \subseteq MembersOf(t)' \ {a} BY DEF Others, MembersOf
      <4> QED BY <1>2, <3>1, <4>1
    <3>2. CASE ~(u = t /\ b = a)
      <4>1. b \in Artifact /\ <<u, b>> \in members BY <3>2 DEF MembersOf
      <4>2. u \in DOMAIN threads /\ b \in MembersOf(u) BY <4>1 DEF MembersOf, IInv, Tables, Joined
      <4>3. MembersOf(u) \subseteq MembersOf(u)' BY DEF MembersOf
      <4> QED BY <4>2, <4>3 DEF IInv, Tables, Joined
    <3> QED BY <3>1, <3>2
  <2> QED BY <2>1, <2>2 DEF Joined, threadEligible, Reason, Strong, Signature
<1>13. Tables' BY <1>11, <1>12 DEF IInv, Tables, Strong
<1> QED BY <1>8, <1>9, <1>10, <1>13 DEF IInv

LEMMA JoinKeeps ==
  ASSUME IInv, NEW w \in Worker, addArtifactToThread(w)
  PROVE  IInv'
<1>0. PICK a : a = work[w].art OBVIOUS
<1>1. Knows(w) /\ work[w].at = "assign" BY DEF IInv, Workers, addArtifactToThread
<1>2. a \in Artifact /\ EventDay[a] \in Int BY <1>0, <1>1 DEF Knows
<1>3. PICK c \in Best(w) :
        /\ members' = members \cup {<<c.id, a>>}
        /\ threads' = [threads EXCEPT ![c.id] = Widened(c, EventDay[a])]
  BY <1>0 DEF addArtifactToThread
<1>4. c \in work[w].found BY DEF Best
<1>5. Good(a, c) BY <1>0, <1>1, <1>4 DEF Knows, Knowledge
<1> DEFINE t == c.id  day == EventDay[a]  row == threads[t]
<1>6. t \in DOMAIN threads /\ \E m \in Others(a, t) : Reason(a, m) BY <1>5 DEF Good
<1>7. Row(t) BY <1>6 DEF IInv, Tables
<1>8. row = [kind |-> row.kind, start |-> row.start, end |-> row.end] BY <1>7 DEF Row
<1>9. threads'[t] = Widened(c, day) /\ DOMAIN threads' = DOMAIN threads BY <1>3, <1>6
<1>10. threads'[t] = [kind |-> row.kind,
                      start |-> IF day < row.start THEN day ELSE row.start,
                      end |-> IF day > row.end THEN day ELSE row.end]
  BY <1>8, <1>9 DEF Widened
<1>11. /\ threads'[t].start = (IF day < row.start THEN day ELSE row.start)
       /\ threads'[t].end = (IF day > row.end THEN day ELSE row.end)
       /\ threads'[t] = [kind |-> threads'[t].kind, start |-> threads'[t].start, end |-> threads'[t].end]
  BY <1>10
<1>12. MembersOf(t)' = MembersOf(t) \cup {a} BY <1>2, <1>3 DEF MembersOf
<1>13. UNCHANGED <<job, attempts, met, stored, links>> /\ Move(w, "done")
  BY DEF addArtifactToThread, begun
<1>14. Row(t)'
  <2>1. /\ \A m \in MembersOf(t) : EventDay[m] \in Int /\ row.start <= EventDay[m] /\ EventDay[m] <= row.end
        /\ row.start \in Int /\ row.end \in Int
    BY <1>7 DEF Row, MembersOf
  <2>2. threads'[t].start \in Int /\ threads'[t].end \in Int BY <1>2, <1>11, <2>1
  <2>3. \A m \in MembersOf(t)' : threads'[t].start <= EventDay[m] /\ EventDay[m] <= threads'[t].end
    BY <1>2, <1>11, <1>12, <2>1
  <2>4. \E m \in MembersOf(t)' : EventDay[m] = threads'[t].start BY <1>7, <1>11, <1>12 DEF Row
  <2>5. \E m \in MembersOf(t)' : EventDay[m] = threads'[t].end BY <1>7, <1>11, <1>12 DEF Row
  <2>6. t \in Artifact \X (1..MaxAttempts) /\ t[2] <= attempts'[t[1]] BY <1>7, <1>13 DEF Row
  <2> QED BY <1>11, <2>2, <2>3, <2>4, <2>5, <2>6 DEF Row
<1>15. Grows(w) BY <1>0, <1>3, <1>9, <1>13 DEF Grows
<1>16. \A u \in DOMAIN threads \ {t} : threads'[u] = threads[u] BY <1>3
<1> HIDE DEF t, day, row
<1> QED BY <1>0, <1>1, <1>3, <1>6, <1>9, <1>13, <1>14, <1>15, <1>16, BecomesMember DEF t

LEMMA FoundKeeps ==
  ASSUME IInv, NEW w \in Worker, createThreadForArtifact(w)
  PROVE  IInv'
<1>1. Knows(w) /\ work[w].at = "assign" BY DEF IInv, Workers, createThreadForArtifact
<1>2. PICK a : a = work[w].art OBVIOUS
<1>3. PICK t : t = <<a, attempts[a]>> OBVIOUS
<1>4. PICK row : row = [kind |-> threadKindForClass(ClassOf[a]),
                        start |-> EventDay[a], end |-> EventDay[a]]
  OBVIOUS
<1>5. a \in Artifact /\ EventDay[a] \in Int /\ t \notin DOMAIN threads /\ job[a] = "running"
  BY <1>1, <1>2, <1>3 DEF Knows, Knowledge
<1>6. /\ threads' = [u \in DOMAIN threads \cup {t} |-> IF u = t THEN row ELSE threads[u]]
      /\ members' = members \cup {<<t, a>>}
  BY <1>2, <1>3, <1>4 DEF createThreadForArtifact
<1>7. UNCHANGED <<job, attempts, met, stored, links>> /\ Move(w, "done")
  BY DEF createThreadForArtifact, begun
<1>8. attempts[a] \in 1..MaxAttempts BY <1>5 DEF IInv, Jobs, Counted
<1>9. t[1] = a /\ t[2] = attempts[a] /\ t \in Artifact \X (1..MaxAttempts) BY <1>3, <1>5, <1>8
<1>10. DOMAIN threads' = DOMAIN threads \cup {t} /\ threads'[t] = row BY <1>6
<1>11. \A u \in DOMAIN threads \ {t} : threads'[u] = threads[u] BY <1>6
<1>12. MembersOf(t)' = {a}
  <2>1. \A b \in Artifact : <<t, b>> \notin members BY <1>5 DEF IInv, Tables, Joined
  <2> QED BY <1>5, <1>6, <2>1 DEF MembersOf
<1>13. Row(t)'
  <2>1. threads'[t] = [kind |-> row.kind, start |-> row.start, end |-> row.end]
    BY <1>4, <1>10
  <2>2. row.start = EventDay[a] /\ row.end = EventDay[a] BY <1>4
  <2>3. t[2] <= attempts'[t[1]] BY <1>7, <1>8, <1>9
  <2> QED BY <1>5, <1>9, <1>10, <1>12, <2>1, <2>2, <2>3 DEF Row
<1>14. Grows(w) BY <1>2, <1>6, <1>7, <1>9, <1>10 DEF Grows
<1> QED BY <1>1, <1>2, <1>6, <1>7, <1>9, <1>10, <1>11, <1>13, <1>14, BecomesMember

(***************************************************************************)
(* The end of an attempt                                                   *)
(***************************************************************************)
LEMMA EndKeeps ==
  ASSUME IInv, NEW w \in Worker, work[w].at # "free",
         NEW s \in {"succeeded", "failed", "dead"},
         job' = [job EXCEPT ![work[w].art] = s],
         work' = [work EXCEPT ![w] = Free],
         UNCHANGED <<attempts, met, stored, links, threads, members>>,
         s = "failed" => ~Exhausted(work[w].art),
         s = "succeeded" => work[w].at = "done"
  PROVE  IInv'
<1> USE DEF IInv
<1>1. Knows(w) /\ work[w].art \in Artifact BY DEF Workers, Knows
<1>2. Grows(w) BY <1>1 DEF Grows, Jobs
<1>3. work'[w] = Free BY DEF Workers
<1>4. Knows(w)' BY <1>3 DEF Knows, Whole, Free, Doing, Places
<1>5. Workers' BY <1>2, <1>4, WorkersFollow DEF Free, Doing
<1>6. Jobs' BY <1>1 DEF Jobs, Counted, Exhausted
<1>7. Kept'
  <2>1. s = "succeeded" /\ threadEligible(ClassOf[work[w].art]) => In(work[w].art)
    BY <1>1 DEF Knows, Knowledge
  <2> QED BY <1>1, <2>1 DEF Kept, In, Jobs
<1>8. Tables' BY ThreadsStay DEF Jobs, Tables, Strong
<1> QED BY <1>5, <1>6, <1>7, <1>8

LEMMA ReturnKeeps ==
  ASSUME IInv, NEW w \in Worker, Return(w)
  PROVE  IInv'
BY EndKeeps DEF Return, begun, tables

LEMMA ErrKeeps ==
  ASSUME IInv, NEW w \in Worker, Err(w)
  PROVE  IInv'
<1> DEFINE a == work[w].art  s == IF Exhausted(a) THEN "dead" ELSE "failed"
<1>1. work[w].at # "free" BY FreeOrBusy DEF Err, IInv
<1>2. job' = [job EXCEPT ![a] = s] /\ work' = [work EXCEPT ![w] = Free] BY DEF Err
<1>3. UNCHANGED <<attempts, met, stored, links, threads, members>> BY DEF Err, begun, tables
<1>4. s \in {"succeeded", "failed", "dead"} /\ s # "succeeded" OBVIOUS
<1>5. s = "failed" => ~Exhausted(a) OBVIOUS
<1> HIDE DEF s
<1> QED BY <1>1, <1>2, <1>3, <1>4, <1>5, EndKeeps

LEMMA Stuttering ==
  ASSUME IInv, UNCHANGED vars
  PROVE  IInv'
<1> USE DEF vars, IInv
<1>1. Jobs' BY DEF Jobs, Counted
<1>2. Workers'
  <2>1. \A b, c : Good(b, c) => Good(b, c)' BY ReasonsStay
  <2>2. \A b : In(b) => In(b)' BY DEF In
  <2> QED BY <2>1, <2>2 DEF Workers, Knows, Knowledge, Whole
<1>3. Tables' BY ThreadsStay DEF Tables, Jobs, Strong
<1>4. Kept' BY DEF Kept, In
<1> QED BY <1>1, <1>2, <1>3, <1>4

(* The inductive invariant of the clustering holds, whatever fails and       *)
(* however workers on different artifacts interleave.                        *)
THEOREM Invariance == Spec => []IInv
<1>1. Init => IInv BY Initially
<1>2. IInv /\ [Next]_vars => IInv'
  <2> SUFFICES ASSUME IInv, [Next]_vars PROVE IInv' OBVIOUS
  <2>1. CASE Next
    <3>1. PICK w \in Worker :
            \/ \E a \in Artifact : Begin(w, a)
            \/ StoreFacts(w) \/ Reconcile(w)
            \/ SkipIneligible(w) \/ FindByFacts(w) \/ FindByRelations(w)
            \/ addArtifactToThread(w) \/ createThreadForArtifact(w)
            \/ Return(w) \/ Err(w)
      BY <2>1, Zenon DEF Next
    <3> QED BY <3>1, BeginKeeps, StoreFactsKeeps, ReconcileKeeps, QueriesKeep,
               JoinKeeps, FoundKeeps, ReturnKeeps, ErrKeeps
  <2>2. CASE UNCHANGED vars BY <2>2, Stuttering
  <2> QED BY <2>1, <2>2
<1> QED BY <1>1, <1>2, PTL DEF Spec

-----------------------------------------------------------------------------
(* Every reachable state of the clustering is well typed. *)
THEOREM TypeCorrect == Spec => []TypeOK
<1>1. IInv => TypeOK
  <2> SUFFICES ASSUME IInv PROVE TypeOK OBVIOUS
  <2>1. \A w \in Worker : work[w].art \in Artifact \cup {NoArtifact} /\ work[w].at \in Places
    BY FreeOrBusy DEF IInv, Workers, Knows
  <2>2. DOMAIN threads \subseteq Artifact \X (1..MaxAttempts) BY DEF IInv, Tables, Row
  <2> QED BY <2>1, <2>2 DEF TypeOK, IInv, Jobs, Tables, Joined, Places
<1> QED BY <1>1, Invariance, PTL

(* The dates of a thread are those of its first and last member, however   *)
(* many workers widen its range from rows they read before.                *)
THEOREM DatesAreExact == Spec => []ThreadsSpanTheirMembers
<1>1. IInv => ThreadsSpanTheirMembers
  <2> SUFFICES ASSUME IInv, NEW t \in DOMAIN threads
               PROVE  LET days == {EventDay[a] : a \in MembersOf(t)}
                      IN  days # {} /\ threads[t].start = Min(days) /\ threads[t].end = Max(days)
    BY DEF ThreadsSpanTheirMembers
  <2> DEFINE days == {EventDay[a] : a \in MembersOf(t)}
  <2>1. Row(t) BY DEF IInv, Tables
  <2>2. days \subseteq Int BY DEF MembersOf
  <2>3. threads[t].start \in days /\ threads[t].end \in days BY <2>1 DEF Row
  <2>4. \A d \in days : threads[t].start <= d /\ d <= threads[t].end BY <2>1 DEF Row
  <2> HIDE DEF days
  <2>5. threads[t].start = Min(days)
    <3>1. Min(days) \in days /\ \A d \in days : Min(days) <= d BY <2>3, <2>4 DEF Min
    <3>2. Min(days) \in Int /\ threads[t].start \in Int BY <2>2, <2>3, <3>1
    <3>3. Min(days) <= threads[t].start /\ threads[t].start <= Min(days) BY <2>3, <2>4, <3>1
    <3> QED BY <3>2, <3>3
  <2>6. threads[t].end = Max(days)
    <3>1. Max(days) \in days /\ \A d \in days : Max(days) >= d BY <2>2, <2>3, <2>4 DEF Max
    <3>2. Max(days) \in Int /\ threads[t].end \in Int BY <2>2, <2>3, <3>1
    <3>3. Max(days) >= threads[t].end /\ Max(days) <= threads[t].end BY <2>3, <2>4, <3>1
    <3> QED BY <3>2, <3>3
  <2> QED BY <2>3, <2>5, <2>6 DEF days
<1> QED BY <1>1, Invariance, PTL

(* An artifact whose job succeeded has a thread, unless its class has none; *)
(* then it is never in one.                                                 *)
THEOREM SuccessIsClustered == Spec => []ClusteredWhenSucceeded
<1>1. IInv => ClusteredWhenSucceeded
  BY DEF IInv, Kept, Tables, Joined, In, MembersOf, ClusteredWhenSucceeded
<1> QED BY <1>1, Invariance, PTL

(* Who did not found a thread is in it for what it shares with a member. *)
THEOREM MembersHaveReasons == Spec => []JoinedForAReason
<1>1. IInv => JoinedForAReason
  BY DEF IInv, Tables, Joined, Reason, JoinedForAReason
<1> QED BY <1>1, Invariance, PTL

-----------------------------------------------------------------------------
(***************************************************************************)
(* Who is alike shares a thread                                            *)
(*                                                                         *)
(* Of two alike artifacts that were never in work together, whichever      *)
(* comes second finds the thread of the first with a score that is high    *)
(* enough, so it does not found one.                                       *)
(***************************************************************************)
Unmet(a, b) == a # b /\ Alike(a, b) /\ {a, b} \notin met

Together(a, b) ==
  \E t \in DOMAIN threads :
    \/ {a, b} \subseteq MembersOf(t)
    \/ \E c \in {a, b} \cap MembersOf(t) : t[1] \notin {a, b}

Apart ==
  \A v, w \in Worker :
    v # w /\ work[v].at # "free" /\ work[w].at # "free" => {work[v].art, work[w].art} \in met

(* A thread has its founder as a member; members are in the database.      *)
Rooted ==
  /\ IsFiniteSet(DOMAIN threads)
  /\ \A t \in DOMAIN threads : t[1] \in MembersOf(t)
  /\ \A t \in DOMAIN threads : MembersOf(t) \subseteq stored

(* What a worker on a has found of an artifact b that came before it.      *)
Sees(w, a, b) ==
  /\ work[w].at \in {"cluster", "related", "assign"} => <<a, b>> \in links
  /\ work[w].at = "related" => \E c \in work[w].found : b \in Others(a, c.id) /\ c.score >= 4
  /\ work[w].at = "assign" => \E c \in work[w].found : c.score >= 10

Informed(w, a) ==
  /\ work[w].at # "facts" => a \in stored
  /\ IsFiniteSet(work[w].found) /\ \A c \in work[w].found : c.score \in Int
  /\ \A b \in Artifact : Unmet(a, b) /\ In(b) => Sees(w, a, b)

AlikeInv ==
  /\ Apart
  /\ Rooted
  /\ \A w \in Worker, a \in Artifact :
       work[w].at # "free" /\ work[w].art = a => Informed(w, a)
  /\ \A a, b \in Artifact : Unmet(a, b) /\ In(a) /\ In(b) => Together(a, b)

USE FactsAssumption

LEMMA AlikeIsSymmetric ==
  ASSUME NEW a, NEW b
  PROVE  (Alike(a, b) => Alike(b, a)) /\ (Unmet(a, b) => Unmet(b, a))
<1>1. Alike(a, b) => Alike(b, a) BY DEF Alike
<1>2. {a, b} = {b, a} OBVIOUS
<1> QED BY <1>1, <1>2 DEF Unmet

LEMMA InitiallyApart == ASSUME Init PROVE AlikeInv
<1>1. DOMAIN threads = {} BY DEF Init
<1>2. Apart BY DEF Init, Apart, Free, Doing
<1>3. Rooted BY <1>1, FS_EmptySet DEF Rooted
<1>4. \A w \in Worker : work[w].at = "free" BY DEF Init, Free, Doing
<1>5. \A a : ~In(a) BY <1>1 DEF In
<1> QED BY <1>2, <1>3, <1>4, <1>5 DEF AlikeInv

FoldsWeights(f, S) ==
  f = [s \in SUBSET S |->
         IF s = {} THEN 0
         ELSE Weight(CHOOSE x \in s : TRUE) + f[s \ {CHOOSE x \in s : TRUE}]]

LEMMA WeightSum ==
  ASSUME NEW S, IsFiniteSet(S), NEW w, \A x \in S : w[x] \in Int,
         \A x \in S : w[x] = Weight(x)
  PROVE  MapThenSumSet(Weight, S) = SumOver(w, S)
<1>1. \A s \in SUBSET S : s # {} =>
        Weight(CHOOSE x \in s : TRUE) = w[CHOOSE x \in s : TRUE]
  OBVIOUS
<1>2. ASSUME NEW f PROVE FoldsWeights(f, S) <=> Folds(f, w, S)
  <2>1. [s \in SUBSET S |->
           IF s = {} THEN 0
           ELSE Weight(CHOOSE x \in s : TRUE) + f[s \ {CHOOSE x \in s : TRUE}]]
        = [s \in SUBSET S |->
             IF s = {} THEN 0 ELSE w[CHOOSE x \in s : TRUE] + f[s \ {CHOOSE x \in s : TRUE}]]
    BY <1>1
  <2> QED BY <2>1 DEF FoldsWeights, Folds
<1>3. PICK g : /\ SumOver(w, S) = g[S]
               /\ \A f : Folds(f, w, S) <=> f = Part(g, S)
  BY FoldsToOne
<1>4. \A f : FoldsWeights(f, S) <=> f = Part(g, S) BY <1>2, <1>3
<1>5. MapThenSumSet(Weight, S) = (CHOOSE f : FoldsWeights(f, S))[S]
  BY DEF MapThenSumSet, MapThenFoldSet, FoldsWeights
<1>6. Part(g, S)[S] = g[S] BY DEF Part
<1> QED BY <1>3, <1>4, <1>5, <1>6

(* The points of facts that are shared. *)
LEMMA SharedCounts ==
  ASSUME NEW a \in Artifact, NEW t
  PROVE  /\ MapThenSumSet(Weight, Shared(a, t)) \in Int
         /\ Shared(a, t) # {} => MapThenSumSet(Weight, Shared(a, t)) >= 4
<1>1. PICK S : S = Shared(a, t) OBVIOUS
<1>2. IsFiniteSet(S)
  <2>1. S \subseteq Facts[a] BY <1>1 DEF Shared, Signature
  <2> QED BY <2>1, FS_Subset
<1>3. PICK w : w = [f \in S |-> Weight(f)] OBVIOUS
<1>4. \A f \in S : w[f] = Weight(f) /\ w[f] \in Nat /\ w[f] \in Int /\ w[f] >= 4
  BY <1>3 DEF Weight
<1>5. MapThenSumSet(Weight, S) = SumOver(w, S) BY <1>2, <1>4, WeightSum
<1>6. SumOver(w, S) \in Int BY <1>2, <1>4, SumAdds
<1>7. ASSUME S # {} PROVE SumOver(w, S) >= 4
  <2>1. PICK f \in S : TRUE BY <1>7
  <2>2. PICK E, R : E = {} /\ R = {f} OBVIOUS
  <2>3. E \in SUBSET S /\ f \in S \ E /\ E \cup {f} = R /\ R \in SUBSET S BY <2>1, <2>2
  <2>4. SumOver(w, E) = 0 /\ SumOver(w, E \cup {f}) = SumOver(w, E) + w[f]
    <3>1. \A x \in S : w[x] \in Int BY <1>4
    <3>2. /\ SumOver(w, {}) = 0
          /\ \A x \in S \ E : SumOver(w, E \cup {x}) = SumOver(w, E) + w[x]
      BY <1>2, <2>3, <3>1, SumAdds
    <3> QED BY <2>2, <2>3, <3>2
  <2>5. SumOver(w, R) = w[f]
    <3>1. SumOver(w, E \cup {f}) = 0 + w[f] /\ w[f] \in Int BY <1>4, <2>1, <2>4
    <3> QED BY <2>3, <3>1
  <2>6. SumOver(w, R) <= SumOver(w, S) BY <1>2, <1>4, <2>3, SumGrows
  <2> QED BY <1>4, <1>6, <2>1, <2>5, <2>6
<1> QED BY <1>1, <1>5, <1>6, <1>7

-----------------------------------------------------------------------------
(* What the queries find of one that came before *)

LEMMA FactsFindAlike ==
  ASSUME IInv, Rooted, NEW a \in Artifact, NEW b \in Artifact, Unmet(a, b), In(b)
  PROVE  \E c \in findCandidateThreads(a) : b \in Others(a, c.id) /\ c.score >= 4
<1>1. PICK t \in DOMAIN threads : <<t, b>> \in members BY DEF In
<1>2. b \in stored BY <1>1 DEF Rooted, MembersOf
<1>3. b \in Others(a, t) BY <1>1 DEF Others, Unmet
<1>4. PICK f \in Signature(a) \cap Signature(b) : TRUE BY DEF Unmet, Alike
<1>5. f \in Shared(a, t) BY <1>2, <1>3, <1>4 DEF Shared, Signature
<1>6. PICK s : s = MapThenSumSet(Weight, Shared(a, t)) OBVIOUS
<1>7. s >= 4 BY <1>5, <1>6, SharedCounts
<1>8. PICK c : c = Candidate(t, s) OBVIOUS
<1>9. c \in findCandidateThreads(a)
  <2>1. Shared(a, t) # {} BY <1>5
  <2> QED BY <1>1, <1>6, <1>8, <2>1 DEF findCandidateThreads
<1>10. c.id = t /\ c.score = s BY <1>8 DEF Candidate
<1> QED BY <1>3, <1>7, <1>9, <1>10

LEMMA FactsFindFew ==
  ASSUME Rooted, NEW a \in Artifact
  PROVE  /\ IsFiniteSet(findCandidateThreads(a))
         /\ \A c \in findCandidateThreads(a) : c.score \in Int
<1>1. PICK D : D = {t \in DOMAIN threads : Shared(a, t) # {}} OBVIOUS
<1>2. IsFiniteSet(D) BY <1>1, FS_Subset DEF Rooted
<1>3. findCandidateThreads(a) = {Candidate(t, MapThenSumSet(Weight, Shared(a, t))) : t \in D}
  BY <1>1 DEF findCandidateThreads
<1>4. IsFiniteSet({Candidate(t, MapThenSumSet(Weight, Shared(a, t))) : t \in D})
  <2>1. PICK f : f = [t \in D |-> Candidate(t, MapThenSumSet(Weight, Shared(a, t)))] OBVIOUS
  <2>2. IsFiniteSet({f[t] : t \in D}) BY <1>2, <2>1, ImageIsFinite
  <2> QED BY <2>1, <2>2
<1>5. ASSUME NEW c \in findCandidateThreads(a) PROVE c.score \in Int
  <2>1. PICK t \in D : c = Candidate(t, MapThenSumSet(Weight, Shared(a, t))) BY <1>3
  <2>2. PICK s : s = MapThenSumSet(Weight, Shared(a, t)) OBVIOUS
  <2>3. s \in Int BY <2>2, SharedCounts
  <2>4. c = [id |-> t, row |-> threads[t], score |-> s] BY <2>1, <2>2 DEF Candidate
  <2> QED BY <2>3, <2>4
<1> QED BY <1>3, <1>4, <1>5

LEMMA RelationsFindFew ==
  ASSUME Rooted, NEW a \in Artifact, NEW found, IsFiniteSet(found),
         \A c \in found : Good(a, c) /\ c.score \in Int
  PROVE  /\ IsFiniteSet(AddRelated(found, threadsForArtifacts(a)))
         /\ \A c \in AddRelated(found, threadsForArtifacts(a)) : c.score \in Int
<1>1. PICK related : related = threadsForArtifacts(a) OBVIOUS
<1>2. PICK F, G, D : /\ F = {c \in found : c.id \in related}
                     /\ G = {c \in found : c.id \notin related}
                     /\ D = {t \in related : \A c \in found : c.id # t}
  OBVIOUS
<1>3. IsFiniteSet(F) /\ IsFiniteSet(G) BY <1>2, FS_Subset
<1>4. IsFiniteSet(D)
  <2>1. D \subseteq DOMAIN threads BY <1>1, <1>2 DEF threadsForArtifacts
  <2> QED BY <2>1, FS_Subset DEF Rooted
<1>5. PICK A, B : A = {[c EXCEPT !.score = @ + 6] : c \in F} /\ B = {Candidate(t, 6) : t \in D}
  OBVIOUS
<1>6. IsFiniteSet(A)
  <2>1. PICK f : f = [c \in F |-> [c EXCEPT !.score = @ + 6]] OBVIOUS
  <2>2. IsFiniteSet({f[c] : c \in F}) BY <1>3, <2>1, ImageIsFinite
  <2> QED BY <1>5, <2>1, <2>2
<1>7. IsFiniteSet(B)
  <2>1. PICK f : f = [t \in D |-> Candidate(t, 6)] OBVIOUS
  <2>2. IsFiniteSet({f[t] : t \in D}) BY <1>4, <2>1, ImageIsFinite
  <2> QED BY <1>5, <2>1, <2>2
<1>8. AddRelated(found, related) = (A \cup G) \cup B
  BY <1>2, <1>5, Zenon DEF AddRelated
<1>9. IsFiniteSet((A \cup G) \cup B)
  <2>1. IsFiniteSet(A \cup G) BY <1>3, <1>6, FS_Union
  <2> QED BY <1>7, <2>1, FS_Union
<1>10. \A c \in A : c.score \in Int
  <2> SUFFICES ASSUME NEW d \in F, NEW c, c = [d EXCEPT !.score = @ + 6] PROVE c.score \in Int
    BY <1>5
  <2>1. d \in found BY <1>2
  <2>2. d = [id |-> d.id, row |-> d.row, score |-> d.score] /\ d.score \in Int
    BY <2>1 DEF Good
  <2>3. c = [id |-> d.id, row |-> d.row, score |-> d.score + 6] BY <2>2
  <2> QED BY <2>2, <2>3
<1>11. \A c \in B : c.score \in Int BY <1>5 DEF Candidate
<1>12. \A c \in G : c.score \in Int BY <1>2
<1> QED BY <1>1, <1>8, <1>9, <1>10, <1>11, <1>12

LEMMA RelationsFindAlike ==
  ASSUME NEW a \in Artifact, NEW b \in Artifact, NEW found,
         \A c \in found : Good(a, c) /\ c.score \in Int,
         <<a, b>> \in links, NEW d \in found, b \in Others(a, d.id), d.score >= 4
  PROVE  \E c \in AddRelated(found, threadsForArtifacts(a)) : c.score >= 10
<1>1. b \in Peers(a) BY DEF Peers
<1>2. d.id \in threadsForArtifacts(a) BY <1>1 DEF threadsForArtifacts, Good
<1>3. d = [id |-> d.id, row |-> d.row, score |-> d.score] /\ d.score \in Int BY DEF Good
<1>4. PICK c : c = [d EXCEPT !.score = @ + 6] OBVIOUS
<1>5. c = [id |-> d.id, row |-> d.row, score |-> d.score + 6] BY <1>3, <1>4
<1>6. c.score >= 10 BY <1>3, <1>5
<1>7. c \in AddRelated(found, threadsForArtifacts(a)) BY <1>2, <1>4, Zenon DEF AddRelated
<1> QED BY <1>6, <1>7

(* Kind and dates cannot take away what the relation gives. *)
LEMMA TenIsEnough ==
  ASSUME NEW w \in Worker, IsFiniteSet(work[w].found), \A c \in work[w].found : c.score \in Int,
         NEW d \in work[w].found, d.score >= 10
  PROVE  Best(w) # {}
<1>1. PICK a, S : a = work[w].art /\ S = work[w].found OBVIOUS
<1>2. \A day, row : proximityBonus(day, row) \in {2, 1, -1} BY DEF proximityBonus
<1>3. ASSUME NEW c \in S PROVE Score(a, c) \in Int /\ (c.score >= 10 => Score(a, c) >= AutoAdd)
  <2>1. PICK p \in {2, 1, -1} : p = proximityBonus(EventDay[a], c.row) BY <1>2
  <2>2. PICK k \in {2, 0} : k = IF threadKindForClass(ClassOf[a]) = c.row.kind THEN 2 ELSE 0
    OBVIOUS
  <2>3. c.score \in Int BY <1>1
  <2>4. Score(a, c) = c.score + k + p BY <2>1, <2>2 DEF Score
  <2> QED BY <2>3, <2>4 DEF AutoAdd
<1>4. PICK s : s = [c \in S |-> Score(a, c)] OBVIOUS
<1>5. \A c \in S : s[c] = Score(a, c) /\ s[c] \in Int BY <1>3, <1>4
<1>6. PICK c \in S : \A e \in S : s[e] <= s[c]
  <2>1. IsFiniteSet(S) /\ S # {} BY <1>1
  <2> QED BY <1>5, <2>1, GreatestExists
<1>7. s[d] <= s[c] /\ s[d] >= AutoAdd BY <1>1, <1>3, <1>5, <1>6
<1>8. Score(a, c) >= AutoAdd BY <1>1, <1>5, <1>7 DEF AutoAdd
<1>9. c \in Best(w) BY <1>1, <1>5, <1>6, <1>8 DEF Best
<1> QED BY <1>9

-----------------------------------------------------------------------------
(* What steps leave true *)

LEMMA TogetherStays ==
  ASSUME DOMAIN threads \subseteq DOMAIN threads', members \subseteq members',
         NEW a, NEW b, Together(a, b)
  PROVE  Together(a, b)'
<1>1. \A t : MembersOf(t) \subseteq MembersOf(t)' BY DEF MembersOf
<1> QED BY <1>1 DEF Together

LEMMA StaysInformed ==
  ASSUME NEW v, NEW a \in Artifact, Informed(v, a), work'[v] = work[v],
         stored \subseteq stored', links \subseteq links', met \subseteq met',
         members \subseteq members',
         \A b \in Artifact : Unmet(a, b) /\ In(b)' => In(b)
  PROVE  Informed(v, a)'
<1>1. ASSUME NEW b \in Artifact, Unmet(a, b)', In(b)' PROVE Sees(v, a, b)'
  <2>1. Unmet(a, b) BY <1>1 DEF Unmet, Alike, Signature
  <2>2. Sees(v, a, b) BY <1>1, <2>1 DEF Informed
  <2>3. \A t : Others(a, t) \subseteq Others(a, t)' BY DEF Others
  <2> QED BY <2>2, <2>3 DEF Sees
<1> QED BY <1>1 DEF Informed

(* A step of w that is none of the threads and none of the pairs that met. *)
LEMMA QuietStep ==
  ASSUME IInv, AlikeInv, NEW w \in Worker, work[w].at # "free",
         UNCHANGED <<threads, members, met>>,
         stored \subseteq stored', links \subseteq links',
         NEW q, work' = [work EXCEPT ![w] = q],
         NEW a \in Artifact, q.at # "free" => q.art = a /\ Informed(w, a)',
         a = work[w].art
  PROVE  AlikeInv'
<1>1. work'[w] = q /\ \A v \in Worker \ {w} : work'[v] = work[v]
  BY DEF IInv, Workers
<1>2. Apart' BY <1>1 DEF AlikeInv, Apart
<1>3. Rooted' BY DEF AlikeInv, Rooted, MembersOf
<1>4. \A b : In(b)' <=> In(b) BY DEF In
<1>5. ASSUME NEW v \in Worker, NEW b \in Artifact, work'[v].at # "free", work'[v].art = b
      PROVE  Informed(v, b)'
  <2>1. CASE v = w BY <1>1, <1>5, <2>1
  <2>2. CASE v # w
    <3>1. work'[v] = work[v] BY <1>1, <2>2
    <3>2. Informed(v, b) BY <1>5, <3>1 DEF AlikeInv
    <3> QED BY <1>4, <3>1, <3>2, StaysInformed
  <2> QED BY <2>1, <2>2
<1>6. ASSUME NEW b \in Artifact, NEW c \in Artifact, Unmet(b, c)', In(b)', In(c)'
      PROVE  Together(b, c)'
  <2>1. Unmet(b, c) BY <1>6 DEF Unmet, Alike, Signature
  <2>2. Together(b, c) BY <1>4, <1>6, <2>1 DEF AlikeInv
  <2> QED BY <2>2, TogetherStays
<1> QED BY <1>2, <1>3, <1>5, <1>6 DEF AlikeInv

LEMMA BeginApart ==
  ASSUME IInv, AlikeInv, NEW w \in Worker, NEW a \in Artifact, Begin(w, a)
  PROVE  AlikeInv'
<1>1. /\ work[w] = Free
      /\ work' = [work EXCEPT ![w] = Doing(a, "facts", {})]
      /\ met' = met \cup {{a, work[v].art} : v \in {v \in Worker : work[v] # Free}}
      /\ UNCHANGED <<stored, links, threads, members>>
  BY DEF Begin, tables
<1>2. /\ work'[w].art = a /\ work'[w].at = "facts" /\ work'[w].found = {}
      /\ \A v \in Worker \ {w} : work'[v] = work[v]
  BY <1>1 DEF IInv, Workers, Doing
<1>3. Apart'
  <2> SUFFICES ASSUME NEW u \in Worker, NEW v \in Worker, u # v, work'[u].at # "free",
                      work'[v].at # "free"
               PROVE  {work'[u].art, work'[v].art} \in met'
    BY DEF Apart
  <2>1. \A x \in Worker \ {w} : work'[x].at # "free" => {a, work'[x].art} \in met'
    BY <1>1, <1>2 DEF Free, Doing
  <2>2. CASE u = w BY <1>2, <2>1, <2>2
  <2>3. CASE v = w
    <3>1. {a, work'[u].art} \in met' BY <2>1, <2>3
    <3>2. {a, work'[u].art} = {work'[u].art, a} OBVIOUS
    <3> QED BY <1>2, <2>3, <3>1, <3>2
  <2>4. CASE u # w /\ v # w
    <3>1. work'[u] = work[u] /\ work'[v] = work[v] BY <1>2, <2>4
    <3>2. PICK pair : pair = {work[u].art, work[v].art} OBVIOUS
    <3>3. pair \in met BY <3>1, <3>2 DEF AlikeInv, Apart
    <3>4. pair \in met' BY <1>1, <3>3
    <3>5. {work'[u].art, work'[v].art} = pair BY <3>1, <3>2
    <3> QED BY <3>4, <3>5
  <2> QED BY <2>2, <2>3, <2>4
<1>4. Rooted' BY <1>1 DEF AlikeInv, Rooted, MembersOf
<1>5. \A b : In(b)' <=> In(b) BY <1>1 DEF In
<1>6. met \subseteq met' BY <1>1
<1>7. ASSUME NEW v \in Worker, NEW b \in Artifact, work'[v].at # "free", work'[v].art = b
      PROVE  Informed(v, b)'
  <2>1. CASE v = w
    <3>1. \A c : Sees(w, a, c)' BY <1>2 DEF Sees
    <3> QED BY <1>2, <1>7, <2>1, <3>1, FS_EmptySet DEF Informed
  <2>2. CASE v # w
    <3>1. work'[v] = work[v] BY <1>2, <2>2
    <3>2. Informed(v, b) BY <1>7, <3>1 DEF AlikeInv
    <3> QED BY <1>1, <1>5, <1>6, <3>1, <3>2, StaysInformed
  <2> QED BY <2>1, <2>2
<1>8. ASSUME NEW b \in Artifact, NEW c \in Artifact, Unmet(b, c)', In(b)', In(c)'
      PROVE  Together(b, c)'
  <2>1. Unmet(b, c) BY <1>6, <1>8 DEF Unmet, Alike, Signature
  <2>2. Together(b, c) BY <1>5, <1>8, <2>1 DEF AlikeInv
  <2> QED BY <1>1, <2>2, TogetherStays
<1> QED BY <1>3, <1>4, <1>7, <1>8 DEF AlikeInv

LEMMA StoreFactsApart ==
  ASSUME IInv, AlikeInv, NEW w \in Worker, StoreFacts(w)
  PROVE  AlikeInv'
<1>1. PICK q : q = [work[w] EXCEPT !.at = "reconcile"] OBVIOUS
<1>2. PICK a \in Artifact : a = work[w].art
  BY FreeOrBusy DEF IInv, StoreFacts
<1>3. /\ work[w].at = "facts" /\ work' = [work EXCEPT ![w] = q]
      /\ stored' = stored \cup {a} /\ UNCHANGED <<links, threads, members, met>>
  BY <1>1, <1>2 DEF StoreFacts, Move, begun
<1>4. q.art = a /\ q.at = "reconcile" /\ q.found = work[w].found
  BY <1>1, <1>2, Moved DEF IInv
<1>5. work'[w] = q BY <1>3 DEF IInv, Workers
<1>6. Informed(w, a) BY <1>2, <1>3 DEF AlikeInv
<1>7. Informed(w, a)'
  <2>1. \A b : Sees(w, a, b)' BY <1>4, <1>5 DEF Sees
  <2> QED BY <1>3, <1>4, <1>5, <1>6, <2>1 DEF Informed
<1> QED BY <1>2, <1>3, <1>4, <1>7, QuietStep

LEMMA ReconcileApart ==
  ASSUME IInv, AlikeInv, NEW w \in Worker, Reconcile(w)
  PROVE  AlikeInv'
<1>1. PICK q : q = [work[w] EXCEPT !.at = "cluster"] OBVIOUS
<1>2. PICK a \in Artifact : a = work[w].art
  BY FreeOrBusy DEF IInv, Reconcile
<1>3. /\ work[w].at = "reconcile" /\ work' = [work EXCEPT ![w] = q]
      /\ links' = links \cup {<<a, b>> : b \in {b \in stored \ {a} : Strong(a, b)}}
      /\ UNCHANGED <<stored, threads, members, met>>
  BY <1>1, <1>2 DEF Reconcile, Move, begun
<1>4. q.art = a /\ q.at = "cluster" /\ q.found = work[w].found
  BY <1>1, <1>2, Moved DEF IInv
<1>5. work'[w] = q BY <1>3 DEF IInv, Workers
<1>6. Informed(w, a) BY <1>2, <1>3 DEF AlikeInv
<1>7. ASSUME NEW b \in Artifact, Unmet(a, b)', In(b)' PROVE Sees(w, a, b)'
  <2>1. Unmet(a, b) BY <1>3, <1>7 DEF Unmet, Alike, Signature
  <2>2. In(b) BY <1>3, <1>7 DEF In
  <2>3. b \in stored BY <2>2 DEF In, AlikeInv, Rooted, MembersOf
  <2>4. Strong(a, b) BY <2>1 DEF Unmet, Alike, Strong, Signature
  <2>5. a # b BY <2>1 DEF Unmet
  <2>6. <<a, b>> \in links' BY <1>3, <2>3, <2>4, <2>5
  <2> QED BY <1>4, <1>5, <2>6 DEF Sees
<1>8. Informed(w, a)' BY <1>3, <1>4, <1>5, <1>6, <1>7 DEF Informed
<1> QED BY <1>2, <1>3, <1>4, <1>8, QuietStep

LEMMA QueriesApart ==
  ASSUME IInv, AlikeInv, NEW w \in Worker,
         SkipIneligible(w) \/ FindByFacts(w) \/ FindByRelations(w)
  PROVE  AlikeInv'
<1>1. /\ work[w].at \in {"cluster", "related"}
      /\ UNCHANGED <<stored, links, threads, members, met>>
  BY DEF SkipIneligible, FindByFacts, FindByRelations, begun, tables
<1>2. PICK a \in Artifact : a = work[w].art BY <1>1, FreeOrBusy DEF IInv
<1>3. Informed(w, a) /\ Rooted BY <1>1, <1>2 DEF AlikeInv
<1>4. \A b : /\ Unmet(a, b)' => Unmet(a, b)
             /\ In(b)' => In(b)
  BY <1>1 DEF Unmet, Alike, Signature, In
<1>5. CASE SkipIneligible(w)
  <2>1. PICK q : q = [work[w] EXCEPT !.at = "done"] OBVIOUS
  <2>2. work' = [work EXCEPT ![w] = q] BY <1>5, <2>1 DEF SkipIneligible, Move
  <2>3. q.art = a /\ q.at = "done" /\ q.found = work[w].found BY <1>2, <2>1, Moved DEF IInv
  <2>4. work'[w] = q BY <2>2 DEF IInv, Workers
  <2>5. \A b : Sees(w, a, b)' BY <2>3, <2>4 DEF Sees
  <2>6. Informed(w, a)' BY <1>1, <1>3, <2>3, <2>4, <2>5 DEF Informed
  <2> QED BY <1>1, <1>2, <2>2, <2>3, <2>6, QuietStep
<1>6. CASE FindByFacts(w)
  <2>1. PICK found : found = findCandidateThreads(a) OBVIOUS
  <2>2. PICK q : q = Doing(a, "related", found) OBVIOUS
  <2>3. work[w].at = "cluster" /\ work' = [work EXCEPT ![w] = q]
    BY <1>2, <1>6, <2>1, <2>2 DEF FindByFacts
  <2>4. q.art = a /\ q.at = "related" /\ q.found = found BY <2>2 DEF Doing
  <2>5. work'[w] = q BY <2>3 DEF IInv, Workers
  <2>6. IsFiniteSet(found) /\ \A c \in found : c.score \in Int BY <1>3, <2>1, FactsFindFew
  <2>7. ASSUME NEW b \in Artifact, Unmet(a, b), In(b) PROVE Sees(w, a, b)'
    <3>1. <<a, b>> \in links BY <1>3, <2>3, <2>7 DEF Informed, Sees
    <3>2. PICK c \in found : b \in Others(a, c.id) /\ c.score >= 4
      BY <1>3, <2>1, <2>7, FactsFindAlike
    <3>3. b \in Others(a, c.id)' BY <1>1, <3>2 DEF Others
    <3> QED BY <1>1, <2>4, <2>5, <3>1, <3>2, <3>3 DEF Sees
  <2>8. Informed(w, a)' BY <1>1, <1>3, <1>4, <2>3, <2>4, <2>5, <2>6, <2>7 DEF Informed
  <2> QED BY <1>1, <1>2, <2>3, <2>4, <2>8, QuietStep
<1>7. CASE FindByRelations(w)
  <2>0. PICK before : before = work[w].found OBVIOUS
  <2>1. PICK found : found = AddRelated(before, threadsForArtifacts(a)) OBVIOUS
  <2>2. PICK q : q = Doing(a, "assign", found) OBVIOUS
  <2>3. work[w].at = "related" /\ work' = [work EXCEPT ![w] = q]
    BY <1>2, <1>7, <2>0, <2>1, <2>2 DEF FindByRelations
  <2>4. q.art = a /\ q.at = "assign" /\ q.found = found BY <2>2 DEF Doing
  <2>5. work'[w] = q BY <2>3 DEF IInv, Workers
  <2>6. IsFiniteSet(before) /\ \A c \in before : Good(a, c) /\ c.score \in Int
    <3>1. Knowledge(w, a) BY <1>2, <2>3 DEF IInv, Workers, Knows
    <3> QED BY <1>3, <2>0, <3>1 DEF Informed, Knowledge
  <2>7. IsFiniteSet(found) /\ \A c \in found : c.score \in Int
    BY <1>3, <2>1, <2>6, RelationsFindFew
  <2>8. ASSUME NEW b \in Artifact, Unmet(a, b), In(b) PROVE Sees(w, a, b)'
    <3>1. <<a, b>> \in links BY <1>3, <2>3, <2>8 DEF Informed, Sees
    <3>2. PICK d \in before : b \in Others(a, d.id) /\ d.score >= 4
      BY <1>3, <2>0, <2>3, <2>8 DEF Informed, Sees
    <3>3. PICK c \in found : c.score >= 10
      BY <1>3, <2>1, <2>6, <3>1, <3>2, RelationsFindAlike
    <3> QED BY <1>1, <2>4, <2>5, <3>1, <3>3 DEF Sees
  <2>9. Informed(w, a)' BY <1>1, <1>3, <1>4, <2>3, <2>4, <2>5, <2>7, <2>8 DEF Informed
  <2> QED BY <1>1, <1>2, <2>3, <2>4, <2>9, QuietStep
<1> QED BY <1>5, <1>6, <1>7

(* The worker's artifact becomes a member of t, its own thread or another. *)
LEMMA MemberApart ==
  ASSUME IInv, AlikeInv, NEW w \in Worker, work[w].at = "assign", NEW a \in Artifact,
         a = work[w].art, Move(w, "done"), UNCHANGED <<met, stored, links>>,
         NEW t, DOMAIN threads' = DOMAIN threads \cup {t},
         members' = members \cup {<<t, a>>},
         t[1] = a => ~(t \in DOMAIN threads) \/ In(a),
         t \notin DOMAIN threads => t[1] = a,
         t \notin DOMAIN threads => \A b \in Artifact : Unmet(a, b) => ~In(b)
  PROVE  AlikeInv'
<1>1. PICK q : q = [work[w] EXCEPT !.at = "done"] OBVIOUS
<1>2. /\ work' = [work EXCEPT ![w] = q] /\ q.art = a /\ q.at = "done"
      /\ q.found = work[w].found
  BY <1>1, Moved DEF IInv, Move
<1>3. work'[w] = q /\ \A v \in Worker \ {w} : work'[v] = work[v]
  BY <1>2 DEF IInv, Workers
<1>4. Informed(w, a) BY DEF AlikeInv
<1>5. Apart' BY <1>2, <1>3 DEF AlikeInv, Apart
<1>6. Rooted'
  <2>1. IsFiniteSet(DOMAIN threads') BY FS_AddElement DEF AlikeInv, Rooted
  <2>2. a \in stored BY <1>4 DEF Informed
  <2>3. \A u : MembersOf(u)' = IF u = t THEN MembersOf(u) \cup {a} ELSE MembersOf(u)
    BY DEF MembersOf
  <2>4. t \notin DOMAIN threads => MembersOf(t) = {} BY DEF IInv, Tables, Joined, MembersOf
  <2> QED BY <2>1, <2>2, <2>3, <2>4 DEF AlikeInv, Rooted
<1>7. \A b : b # a /\ In(b)' => In(b) BY DEF In, IInv, Tables, Joined
<1>8. ASSUME NEW v \in Worker, NEW b \in Artifact, work'[v].at # "free", work'[v].art = b
      PROVE  Informed(v, b)'
  <2>1. CASE v = w
    <3>1. \A c : Sees(w, a, c)' BY <1>2, <1>3 DEF Sees
    <3> QED BY <1>2, <1>3, <1>4, <1>8, <2>1, <3>1 DEF Informed
  <2>2. CASE v # w
    <3>1. work'[v] = work[v] BY <1>3, <2>2
    <3>2. Informed(v, b) BY <1>8, <3>1 DEF AlikeInv
    <3>3. {b, a} \in met BY <1>8, <2>2, <3>1 DEF AlikeInv, Apart
    <3>4. \A c \in Artifact : Unmet(b, c) /\ In(c)' => In(c) BY <1>7, <3>3 DEF Unmet
    <3> QED BY <3>1, <3>2, <3>4, StaysInformed
  <2> QED BY <2>1, <2>2
<1>9. ASSUME NEW b \in Artifact, b # a, Unmet(a, b), In(b) PROVE Together(a, b)'
  <2>1. t \in DOMAIN threads BY <1>9
  <2>2. CASE In(a) BY <1>9, <2>2, TogetherStays DEF AlikeInv
  <2>3. CASE ~In(a)
    <3>1. t[1] # a BY <2>1, <2>3
    <3>2. a \in MembersOf(t)' BY DEF MembersOf
    <3>3. CASE t[1] = b
      <4>1. b \in MembersOf(t)' BY <2>1, <3>3 DEF AlikeInv, Rooted, MembersOf
      <4> QED BY <3>2, <4>1 DEF Together
    <3>4. CASE t[1] # b BY <3>1, <3>2, <3>4 DEF Together
    <3> QED BY <3>3, <3>4
  <2> QED BY <2>2, <2>3
<1>10. ASSUME NEW b \in Artifact, NEW c \in Artifact, Unmet(b, c)', In(b)', In(c)'
       PROVE  Together(b, c)'
  <2>1. Unmet(b, c) /\ Unmet(c, b) /\ b # c
    BY <1>10, AlikeIsSymmetric DEF Unmet, Alike, Signature
  <2>2. CASE b = a BY <1>7, <1>9, <1>10, <2>1, <2>2
  <2>3. CASE c = a
    <3>1. Together(c, b)' BY <1>7, <1>9, <1>10, <2>1, <2>3
    <3>2. {b, c} = {c, b} OBVIOUS
    <3> QED BY <3>1, <3>2 DEF Together
  <2>4. CASE b # a /\ c # a
    <3>1. Together(b, c) BY <1>7, <1>10, <2>1, <2>4 DEF AlikeInv
    <3> QED BY <3>1, TogetherStays
  <2> QED BY <2>2, <2>3, <2>4
<1> QED BY <1>5, <1>6, <1>8, <1>10 DEF AlikeInv

LEMMA JoinApart ==
  ASSUME IInv, AlikeInv, NEW w \in Worker, addArtifactToThread(w)
  PROVE  AlikeInv'
<1>1. PICK a \in Artifact : a = work[w].art BY FreeOrBusy DEF IInv, addArtifactToThread
<1>2. work[w].at = "assign" /\ Move(w, "done") /\ UNCHANGED <<met, stored, links>>
  BY DEF addArtifactToThread, begun
<1>3. PICK c \in Best(w) :
        /\ members' = members \cup {<<c.id, a>>}
        /\ threads' = [threads EXCEPT ![c.id] = Widened(c, EventDay[a])]
  BY <1>1 DEF addArtifactToThread
<1>4. PICK t : t = c.id OBVIOUS
<1>5. t \in DOMAIN threads
  <2>1. c \in work[w].found BY DEF Best
  <2> QED BY <1>1, <1>2, <1>4, <2>1 DEF IInv, Workers, Knows, Knowledge, Good
<1>6. t[1] = a => In(a) BY <1>5 DEF AlikeInv, Rooted, In, MembersOf
<1>7. DOMAIN threads' = DOMAIN threads \cup {t} BY <1>3, <1>5
<1> QED BY <1>1, <1>2, <1>3, <1>4, <1>5, <1>6, <1>7, MemberApart

LEMMA FoundApart ==
  ASSUME IInv, AlikeInv, NEW w \in Worker, createThreadForArtifact(w)
  PROVE  AlikeInv'
<1>1. PICK a \in Artifact : a = work[w].art BY FreeOrBusy DEF IInv, createThreadForArtifact
<1>2. PICK t : t = <<a, attempts[a]>> OBVIOUS
<1>3. /\ work[w].at = "assign" /\ Move(w, "done") /\ UNCHANGED <<met, stored, links>>
      /\ Best(w) = {}
      /\ DOMAIN threads' = DOMAIN threads \cup {t} /\ members' = members \cup {<<t, a>>}
  BY <1>1, <1>2 DEF createThreadForArtifact, begun
<1>4. t \notin DOMAIN threads /\ t[1] = a
  BY <1>1, <1>2, <1>3 DEF IInv, Workers, Knows, Knowledge
<1>5. ASSUME NEW b \in Artifact, Unmet(a, b), In(b) PROVE FALSE
  <2>1. Informed(w, a) BY <1>1, <1>3 DEF AlikeInv
  <2>2. PICK d \in work[w].found : d.score >= 10 BY <1>3, <1>5, <2>1 DEF Informed, Sees
  <2>3. Best(w) # {} BY <2>1, <2>2, TenIsEnough DEF Informed
  <2> QED BY <1>3, <2>3
<1> QED BY <1>1, <1>3, <1>4, <1>5, MemberApart

LEMMA EndApart ==
  ASSUME IInv, AlikeInv, NEW w \in Worker, Return(w) \/ Err(w)
  PROVE  AlikeInv'
<1>1. work[w].at # "free"
  <2>1. CASE Return(w) BY <2>1 DEF Return
  <2>2. CASE Err(w)
    <3>1. work[w].art \in Artifact BY <2>2, UnluckyAssumption DEF Err
    <3> QED BY <3>1, FreeOrBusy, NoneAssumption DEF IInv
  <2> QED BY <2>1, <2>2
<1>2. work' = [work EXCEPT ![w] = Free] BY DEF Return, Err
<1>3. UNCHANGED <<met, stored, links, threads, members>> BY DEF Return, Err, begun, tables
<1>4. PICK q : q = Free OBVIOUS
<1>5. q.at = "free" BY <1>4 DEF Free, Doing
<1>6. PICK a \in Artifact : a = work[w].art BY <1>1, FreeOrBusy DEF IInv
<1> QED BY <1>1, <1>2, <1>3, <1>4, <1>5, <1>6, QuietStep

LEMMA StutterApart ==
  ASSUME AlikeInv, UNCHANGED vars
  PROVE  AlikeInv'
<1> USE DEF vars
<1>1. Apart' BY DEF AlikeInv, Apart
<1>2. Rooted' BY DEF AlikeInv, Rooted, MembersOf
<1>3. \A b : In(b)' <=> In(b) BY DEF In
<1>4. \A a, b : Unmet(a, b)' <=> Unmet(a, b) BY DEF Unmet, Alike, Signature
<1>5. \A a, b : Together(a, b)' <=> Together(a, b) BY DEF Together, MembersOf
<1>6. \A w \in Worker, a \in Artifact : Informed(w, a) => Informed(w, a)'
  <2>1. \A w, a, b : Sees(w, a, b)' <=> Sees(w, a, b) BY DEF Sees, Others
  <2> QED BY <1>3, <1>4, <2>1 DEF Informed
<1> QED BY <1>1, <1>2, <1>3, <1>4, <1>5, <1>6 DEF AlikeInv

LEMMA AlikeInvariance == Spec => []AlikeInv
<1>1. Init => AlikeInv BY InitiallyApart
<1>2. IInv /\ AlikeInv /\ [Next]_vars => AlikeInv'
  <2> SUFFICES ASSUME IInv, AlikeInv, [Next]_vars PROVE AlikeInv' OBVIOUS
  <2>1. CASE Next
    <3>1. PICK w \in Worker :
            \/ \E a \in Artifact : Begin(w, a)
            \/ StoreFacts(w) \/ Reconcile(w)
            \/ SkipIneligible(w) \/ FindByFacts(w) \/ FindByRelations(w)
            \/ addArtifactToThread(w) \/ createThreadForArtifact(w)
            \/ Return(w) \/ Err(w)
      BY <2>1, Zenon DEF Next
    <3> QED BY <3>1, BeginApart, StoreFactsApart, ReconcileApart, QueriesApart,
               JoinApart, FoundApart, EndApart
  <2>2. CASE UNCHANGED vars BY <2>2, StutterApart
  <2> QED BY <2>1, <2>2
<1> QED BY <1>1, <1>2, Invariance, PTL DEF Spec

(* Artifacts of a class that share a vendor, or another fact that relates  *)
(* them, are in one thread when both succeeded and were never in work      *)
(* together, or one of them is in a thread that neither of them founded:   *)
(* whatever else was in work, failed and was tried again (ClusterArtifact).*)
THEOREM AlikeAreTogether == Spec => []AlikeShareAThread
<1>1. IInv /\ AlikeInv => AlikeShareAThread
  <2> SUFFICES ASSUME IInv, AlikeInv, NEW a \in Artifact, NEW b \in Artifact,
                      job[a] = "succeeded", job[b] = "succeeded", Alike(a, b),
                      {a, b} \notin met
               PROVE  Together(a, b)
    BY DEF AlikeShareAThread, Together
  <2>1. In(a) /\ In(b) BY AlikeIsSymmetric DEF IInv, Kept, Alike
  <2>2. CASE a = b BY <2>1, <2>2 DEF In, Together, MembersOf
  <2>3. CASE a # b BY <2>1, <2>3 DEF Unmet, AlikeInv
  <2> QED BY <2>2, <2>3
<1> QED BY <1>1, Invariance, AlikeInvariance, PTL
=============================================================================
