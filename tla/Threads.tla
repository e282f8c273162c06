------------------------------- MODULE Threads -------------------------------
(***************************************************************************)
(* The last stage of the pipeline, ClusterArtifact (internal/pipeline/     *)
(* threads.go): an artifact joins the thread that scores best for it or    *)
(* founds a new one.  It reads candidates in queries of their own and      *)
(* writes in a later transaction, while the other workers do the same.     *)
(*                                                                         *)
(* Facts and class of an artifact are given (Pipeline is about how they    *)
(* come about); what matters here is when the other artifacts see them.    *)
(* Scores are in quarter points, dates in days.  No caller ever changes a  *)
(* thread's status, so all are active.                                     *)
(***************************************************************************)
EXTENDS Integers, FiniteSets, FiniteSetsExt

CONSTANTS
  Artifact, Worker, NoArtifact,
  Facts,        \* [Artifact -> set of records of type and value]
  ClassOf,      \* [Artifact -> class]
  EventDay,     \* [Artifact -> day of its event_at]
  MaxAttempts,
  Unlucky       \* artifacts whose processing meets database errors

ASSUME AttemptsAssumption == MaxAttempts \in Nat \ {0}
ASSUME NoneAssumption == NoArtifact \notin Artifact
ASSUME FactsAssumption == \A a \in Artifact : IsFiniteSet(Facts[a])
ASSUME UnluckyAssumption == Unlucky \subseteq Artifact
ASSUME DayAssumption == EventDay \in [Artifact -> Int]

VARIABLES
  job, attempts,   \* the queue's view of each artifact
  work,            \* what each worker is doing
  stored,          \* artifacts whose class and facts are in the database
  links,           \* strong rows of artifact_relation: source and target
  threads,         \* the thread table: a function from the ids in use
  members,         \* the thread_member table: pairs of thread and artifact
  met              \* history: pairs of artifacts that were in work at one time

vars == <<job, attempts, work, stored, links, threads, members, met>>

-----------------------------------------------------------------------------
(* Scoring *)

SignatureTypes == {"vendor", "organization", "person", "policy_number",
                   "account_number", "document_title"}

Signature(a) == {f \in Facts[a] : f.type \in SignatureTypes}

threadEligible(class) == class \notin {"newsletter_promo", "photo_memory", ""}

threadKindForClass(class) ==
  CASE class \in {"bill_statement", "receipt_purchase"} -> "vendor_account"
    [] class = "medical_health"    -> "visit"
    [] class = "insurance_vehicle" -> "vehicle"
    [] class = "school_family"     -> "school_year"
    [] class = "travel_event"      -> "travel"
    [] OTHER                          -> "other"

\* threadAutoAddScore; the mutant is too strict.
AutoAddHigh == 16
AutoAdd == 8

Weight(f) == IF f.type \in {"policy_number", "account_number"} THEN 8 ELSE 4

(* Distance in days between a day and a thread's range. *)
Distance(day, row) ==
  IF day < row.start THEN row.start - day ELSE IF day > row.end THEN day - row.end ELSE 0

proximityBonus(day, row) ==
  LET days == Distance(day, row)
  IN  IF days <= 14 THEN 2 ELSE IF days <= 60 THEN 1 ELSE -1

(* Relations that reconciling a stores and that count as strong: a shared  *)
(* obligation or supporting fact, or amounts that differ.                  *)
Linking == {"due_date", "requested_action", "policy_number", "account_number",
            "vendor", "organization", "person", "appointment"}
Keys == {"vendor", "organization", "policy_number", "account_number", "document_title"}

Strong(a, b) ==
  /\ ClassOf[a] = ClassOf[b]
  /\ \/ \E f \in Facts[a] \cap Facts[b] : f.type \in Linking
     \/ /\ \E f \in Facts[a] \cap Facts[b] : f.type \in Keys
        /\ \E f \in Facts[a], g \in Facts[b] :
             f.type = "amount" /\ g.type = "amount" /\ f.value # g.value

Others(a, t) == {m \in Artifact \ {a} : <<t, m>> \in members}

(* Mutant of Shared: the query compares the types of facts alone. *)
SharedTypes(a, t) == {f \in Signature(a) : \E m \in Others(a, t) \cap stored :
                        \E g \in Facts[m] : g.type = f.type}

(* The facts by which thread t is a candidate for a. *)
Shared(a, t) == {f \in Signature(a) : \E m \in Others(a, t) \cap stored : f \in Facts[m]}

Candidate(t, score) == [id |-> t, row |-> threads[t], score |-> score]

findCandidateThreads(a) ==
  {Candidate(t, MapThenSumSet(Weight, Shared(a, t))) :
     t \in {t \in DOMAIN threads : Shared(a, t) # {}}}

(* loadStrongRelationTargets and threadsForArtifacts *)
Peers(a) == {b \in Artifact : {<<a, b>>, <<b, a>>} \cap links # {}}
threadsForArtifacts(a) == {t \in DOMAIN threads : Others(a, t) \cap Peers(a) # {}}

(* 1.5 points more for a thread of a related artifact. *)
AddRelated(found, related) ==
  {[c EXCEPT !.score = @ + 6] : c \in {c \in found : c.id \in related}}
    \cup {c \in found : c.id \notin related}
    \cup {Candidate(t, 6) : t \in {t \in related : \A c \in found : c.id # t}}

(* scoreCandidates, from the rows as they were read. *)
Score(a, c) ==
  c.score + (IF threadKindForClass(ClassOf[a]) = c.row.kind THEN 2 ELSE 0)
          + proximityBonus(EventDay[a], c.row)

-----------------------------------------------------------------------------
Doing(a, at, found) == [art |-> a, at |-> at, found |-> found]

Free == Doing(NoArtifact, "free", {})

Init ==
  /\ job = [a \in Artifact |-> "queued"]
  /\ attempts = [a \in Artifact |-> 0]
  /\ work = [w \in Worker |-> Free]
  /\ stored = {}
  /\ links = {}
  /\ threads = <<>>
  /\ members = {}
  /\ met = {}

begun == <<attempts, met>>
tables == <<stored, links, threads, members>>

Move(w, at) == work' = [work EXCEPT ![w].at = at]

Begin(w, a) ==
  /\ work[w] = Free
  /\ job[a] \in {"queued", "failed"}
  /\ job' = [job EXCEPT ![a] = "running"]
  /\ attempts' = [attempts EXCEPT ![a] = @ + 1]
  /\ work' = [work EXCEPT ![w] = Doing(a, "facts", {})]
  /\ met' = met \cup {{a, work[v].art} : v \in {v \in Worker : work[v] # Free}}
  /\ UNCHANGED tables

(* The stages before: class and facts, then relations. *)
StoreFacts(w) ==
  /\ work[w].at = "facts"
  /\ stored' = stored \cup {work[w].art}
  /\ Move(w, "reconcile")
  /\ UNCHANGED <<job, begun, links, threads, members>>

Reconcile(w) ==
  /\ work[w].at = "reconcile"
  /\ LET a == work[w].art
     IN  links' = links \cup {<<a, b>> : b \in {b \in stored \ {a} : Strong(a, b)}}
  /\ Move(w, "cluster")
  /\ UNCHANGED <<job, begun, stored, threads, members>>

(* Mutant of SkipIneligible: any artifact may be skipped. *)
SkipAny(w) ==
  /\ work[w].at = "cluster"
  /\ Move(w, "done")
  /\ UNCHANGED <<job, begun, tables>>

(* ClusterArtifact, by its queries. *)
SkipIneligible(w) ==
  /\ work[w].at = "cluster"
  /\ ~threadEligible(ClassOf[work[w].art])
  /\ Move(w, "done")
  /\ UNCHANGED <<job, begun, tables>>

FindByFacts(w) ==
  /\ work[w].at = "cluster"
  /\ threadEligible(ClassOf[work[w].art])
  /\ work' = [work EXCEPT ![w] = Doing(@.art, "related", findCandidateThreads(@.art))]
  /\ UNCHANGED <<job, begun, tables>>

FindByRelations(w) ==
  /\ work[w].at = "related"
  /\ work' = [work EXCEPT ![w] =
                Doing(@.art, "assign", AddRelated(@.found, threadsForArtifacts(@.art)))]
  /\ UNCHANGED <<job, begun, tables>>

(* The candidates of the best score; equal ones come in map order. *)
Best(w) ==
  LET a == work[w].art
  IN  {c \in work[w].found : /\ Score(a, c) >= AutoAdd
                             /\ \A d \in work[w].found : Score(a, d) <= Score(a, c)}

(* Mutant of Widened: starts from the range that was read with the candidate. *)
WidenedStale(c, day) ==
  [c.row EXCEPT !.start = IF day < @ THEN day ELSE @, !.end = IF day > @ THEN day ELSE @]

(* The UPDATE of a thread's date range. *)
Widened(c, day) ==
  [threads[c.id] EXCEPT !.start = IF day < @ THEN day ELSE @,
                        !.end = IF day > @ THEN day ELSE @]

addArtifactToThread(w) ==
  /\ work[w].at = "assign"
  /\ \E c \in Best(w) :
       /\ members' = members \cup {<<c.id, work[w].art>>}
       /\ threads' = [threads EXCEPT ![c.id] = Widened(c, EventDay[work[w].art])]
  /\ Move(w, "done")
  /\ UNCHANGED <<job, begun, stored, links>>

(* Its id is a hash of artifact, class and the time the attempt began. *)
createThreadForArtifact(w) ==
  /\ work[w].at = "assign"
  /\ Best(w) = {}
  /\ LET a == work[w].art
         id == <<a, attempts[a]>>
         row == [kind |-> threadKindForClass(ClassOf[a]),
                 start |-> EventDay[a], end |-> EventDay[a]]
     IN  /\ threads' = [t \in DOMAIN threads \cup {id} |-> IF t = id THEN row ELSE threads[t]]
         /\ members' = members \cup {<<id, a>>}
  /\ Move(w, "done")
  /\ UNCHANGED <<job, begun, stored, links>>

Return(w) ==
  /\ work[w].at = "done"
  /\ job' = [job EXCEPT ![work[w].art] = "succeeded"]
  /\ work' = [work EXCEPT ![w] = Free]
  /\ UNCHANGED <<begun, tables>>

(* Jobs.Fail *)
Exhausted(a) == attempts[a] >= MaxAttempts

(* A statement errs, MarkStageSucceeded after the clustering included. *)
Err(w) ==
  /\ work[w].art \in Unlucky
  /\ LET a == work[w].art
     IN  job' = [job EXCEPT ![a] = IF Exhausted(a) THEN "dead" ELSE "failed"]
  /\ work' = [work EXCEPT ![w] = Free]
  /\ UNCHANGED <<begun, tables>>

Next ==
  \E w \in Worker :
    \/ \E a \in Artifact : Begin(w, a)
    \/ StoreFacts(w) \/ Reconcile(w)
    \/ SkipIneligible(w) \/ FindByFacts(w) \/ FindByRelations(w)
    \/ addArtifactToThread(w) \/ createThreadForArtifact(w)
    \/ Return(w) \/ Err(w)

Spec == Init /\ [][Next]_vars

-----------------------------------------------------------------------------
(* Properties *)

TypeOK ==
  /\ job \in [Artifact -> {"queued", "running", "failed", "succeeded", "dead"}]
  /\ attempts \in [Artifact -> 0..MaxAttempts]
  /\ \A w \in Worker : /\ work[w].art \in Artifact \cup {NoArtifact}
                       /\ work[w].at \in {"free", "facts", "reconcile", "cluster",
                                          "related", "assign", "done"}
  /\ stored \subseteq Artifact
  /\ links \subseteq Artifact \X Artifact
  /\ DOMAIN threads \subseteq Artifact \X (1..MaxAttempts)
  /\ members \subseteq (DOMAIN threads) \X Artifact
  /\ met \subseteq SUBSET Artifact

MembersOf(t) == {a \in Artifact : <<t, a>> \in members}

(***************************************************************************)
(* A thread's dates are exactly those of its first and last member, also   *)
(* when two workers add to it from the same candidate rows.                *)
(***************************************************************************)
ThreadsSpanTheirMembers ==
  \A t \in DOMAIN threads :
    LET days == {EventDay[a] : a \in MembersOf(t)}
    IN  /\ days # {}
        /\ threads[t].start = Min(days)
        /\ threads[t].end = Max(days)

(* Every artifact whose job succeeded is in a thread, unless its class has *)
(* no threads: then it is in none.                                         *)
ClusteredWhenSucceeded ==
  \A a \in Artifact :
    LET in == \E t \in DOMAIN threads : a \in MembersOf(t)
    IN  /\ job[a] = "succeeded" /\ threadEligible(ClassOf[a]) => in
        /\ ~threadEligible(ClassOf[a]) => ~in

(* Nobody is in a thread for no reason: a member that did not found it     *)
(* shares a signature fact or a strong relation with another member.       *)
JoinedForAReason ==
  \A t \in DOMAIN threads : \A a \in MembersOf(t) \ {t[1]} :
    \E m \in MembersOf(t) \ {a} :
      Strong(a, m) \/ Strong(m, a) \/ Signature(a) \cap Signature(m) # {}

(***************************************************************************)
(* Artifacts of one class that share a vendor (or another strong key) end  *)
(* up in one thread if they succeeded one after the other (threads_test.go,*)
(* "art_v2 should have joined existing thread"), whatever other artifacts  *)
(* the workers had at the same time; the later one may only prefer the     *)
(* thread of somebody else, it does not found one.  The LIMITs of the      *)
(* candidate queries, 16 and 32 rows, are left out of the model: beyond    *)
(* them nothing is claimed.                                                *)
(***************************************************************************)
Alike(a, b) ==
  /\ threadEligible(ClassOf[a])
  /\ ClassOf[a] = ClassOf[b]
  /\ \E f \in Signature(a) \cap Signature(b) : f.type \in Linking

AlikeShareAThread ==
  \A a, b \in Artifact :
    /\ job[a] = "succeeded" /\ job[b] = "succeeded"
    /\ Alike(a, b) /\ {a, b} \notin met
    => \E t \in DOMAIN threads :
         \/ {a, b} \subseteq MembersOf(t)
         \/ \E c \in {a, b} \cap MembersOf(t) : t[1] \notin {a, b}

=============================================================================
